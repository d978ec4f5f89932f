--------------------------- MODULE DecoderDrivers ---------------------------
(***************************************************************************)
(* The decoders of a mat with the inverters behind their gates.  Each of   *)
(* the four row decoders of SubArray::Initialize initialises its output    *)
(* driver, and a driver that is too wide makes the decoder, the subarray   *)
(* and the mat illegal (RowDecoder.cpp:72-99, SubArray.cpp:374-402).       *)
(* Composes Decoding and OutputDriver, which has no variables left when    *)
(* its Initialize has returned.                                            *)
(***************************************************************************)
EXTENDS Decoding, DriverSizes

VARIABLES
  driven,     \* how many of the four decoders have their driver
  stage, input, level, numStage, width, tooWide

driver == <<stage, input, level, numStage, width, tooWide>>
allVars == <<vars, driven, driver>>

Driver == INSTANCE OutputDriver WITH pc <- stage, invalid <- tooWide

NoInput == [logicEffort |-> 0, inputCap |-> 0, outputCap |-> 0, minDriver |-> 0,
            inv |-> TRUE, level |-> "latency_first"]
NoWidths == [i \in {} |-> 0]

DrivenInit ==
  /\ Init
  /\ driven = 0 /\ stage = "idle"
  /\ input = NoInput /\ level = NoInput.level /\ numStage = 0 /\ width = NoWidths
  /\ tooWide = FALSE

\* Without NAND gates the driver has the effort of an inverter and, as its input,
\* one of minimum size.  Only a row decoder has to carry the current of cells.
IsArgument(i, role) ==
  /\ NandInput(NumRow(role), MultipleRowPerSet(role)) = 0 =>
       i.logicEffort = 0 /\ i.inputCap = 0
  /\ role # "row" => i.minDriver = 0

\* RowDecoder::Initialize of the next decoder.
InitializeDriver ==
  /\ pc = "subarray" /\ ~subarray.invalid /\ stage = "idle" /\ driven < Len(Roles)
  /\ input' \in DriverInputs /\ IsArgument(input', Roles[driven + 1])
  /\ level' = input'.level
  /\ stage' = "minimum"
  /\ UNCHANGED <<vars, driven, numStage, width, tooWide>>

SizeDriver ==
  /\ UNCHANGED <<vars, driven>>
  /\ \/ Driver!TooWide \/ Driver!PassMinimum
     \/ Driver!LatencyFirst \/ Driver!TradeOff \/ Driver!AreaFirst

\* OutputDriver::Initialize returns.
DriverReturns ==
  /\ stage = "done" /\ stage' = "idle"
  /\ driven' = driven + 1
  /\ pc' = IF tooWide THEN "invalid" ELSE pc
  /\ input' = NoInput /\ level' = NoInput.level /\ numStage' = 0 /\ width' = NoWidths
  /\ tooWide' = FALSE
  /\ UNCHANGED <<request, nandInput, blocks, initialized>>

\* The subarray is legal when all decoders have their drivers.
DecodersInitialized ==
  /\ stage = "idle" /\ driven = Len(Roles) /\ InitializeSubArray
  /\ UNCHANGED <<driven, driver>>

\* The rest of Mat::Initialize.
MatGoesOn ==
  /\ stage = "idle" /\ (Reject \/ InitializeBlocks \/ Finished)
  /\ UNCHANGED <<driven, driver>>

DrivenNext ==
  InitializeDriver \/ SizeDriver \/ DriverReturns \/ DecodersInitialized \/ MatGoesOn

DrivenSpec == DrivenInit /\ [][DrivenNext]_allVars

-----------------------------------------------------------------------------
\* The inverters of every driver that a decoder of a mat gets are all written,
\* as many as the inversion asks for, and the last one carries the current (see
\* OutputDriver).
ChainDrives == Driver!ChainDrives
=============================================================================
