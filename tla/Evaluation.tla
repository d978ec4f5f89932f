----------------------------- MODULE Evaluation -----------------------------
(***************************************************************************)
(* The evaluation of a bank: Initialize, CalculateArea, CalculateRC and    *)
(* CalculateLatencyAndPower of the bank, of its mat, of the mat's subarray *)
(* and of the circuits in them, for the tag array and then the data array  *)
(* of a cache, or for the data array of a RAM chip.                        *)
(*                                                                         *)
(* Each Initialize may find its unit illegal; what that depends on beyond  *)
(* the array's fields is physics: the field fail names the physical test   *)
(* that the array fails, if any.  A field of the subarray that was not     *)
(* written holds anything: a test on it has either outcome.                *)
(***************************************************************************)
EXTENDS CacheSummary

CONSTANT Calls    \* the arrays evaluated together: <<tag, data>> or <<data>>

ASSUME CallsAssumption ==
  \A call \in Calls :
    /\ DOMAIN call = 1 .. Len(call) /\ Len(call) \in {1, 2}
    /\ call[Len(call)].memoryType = "data"
    /\ Len(call) = 2 => call[1].memoryType = "tag"
    \* applyConstraint(): "H-tree does not support external sensing scheme"
    /\ \A i \in DOMAIN call : call[i].tree => call[i].internalSenseAmp
    \* Both arrays are of the one global cell.
    /\ \A i \in DOMAIN call :
         /\ call[i].cellType \in Resistive \cup {"SRAM", "eDRAM", "SLCNAND"}
         /\ call[i].cellType = call[1].cellType /\ call[i].accessType = call[1].accessType
    /\ \A i \in DOMAIN call :
         /\ call[i].associativity \in Nat \ {0} /\ Unit % call[i].associativity = 0
         /\ call[i].numRowMat \in Nat /\ call[i].numColumnMat \in Nat
         /\ call[i].numActiveMatPerRow \in Nat /\ call[i].numActiveMatPerColumn \in Nat
         /\ call[i].numWay \in Nat /\ call[i].subarrays \in Nat
         /\ call[i].activeSubarrays \in Nat /\ call[i].rowBits \in Nat
         /\ call[i].muxBits \in [Muxes -> 0 .. 30]     \* each degree is an int
         \* "_numAddressBit <= 0" is refused
         /\ call[i].fail # "matPartition" => \E role \in DOMAIN BlocksOf : AddressBitsOf(call[i], role) > 0
         /\ call[i].addressBits \in Nat /\ call[i].dataBits \in Nat
         /\ call[i].levels \in Seq([bits : Nat, active : Nat, sum : Nat])

VARIABLES
  call,
  pc,
  written,     \* fields of the subarray that have a value, and circuits with RC
  unset,       \* those that were read before they had one
  subarray, mat, bank,
  kept,        \* the banks evaluated before, each with its mat and subarray
  summary      \* the metrics of the cache

units == <<subarray, mat, bank>>
vars == <<call, pc, written, unset, units, kept, summary>>

array == call[Len(kept) + 1]

\* The costs of a FunctionUnit, and both flags down.
NewUnit ==
  [field \in DOMAIN FunctionUnit \cup {"initialized", "invalid"} |->
     IF field \in DOMAIN FunctionUnit THEN FunctionUnit[field] ELSE FALSE]
Invalid(unit) == [unit EXCEPT !.invalid = TRUE]
Initialized(unit) == [unit EXCEPT !.initialized = TRUE]

\* What is kept of a bank.
Evaluated == [bank |-> bank, mat |-> mat, subarray |-> subarray]

NoSummary == [known |-> FALSE]

\* The possible outcomes of a physical test that reads some fields.
Outcomes(test, fields) ==
  IF fields \subseteq written THEN {array.fail = test} ELSE BOOLEAN

Write(names) == written' = written \cup names
Read(names) == unset' = unset \cup (names \ written)

Init ==
  /\ call \in Calls
  /\ pc = "bank"
  /\ written = {} /\ unset = {}
  /\ subarray = NewUnit /\ mat = NewUnit /\ bank = NewUnit
  /\ kept = <<>>
  /\ summary = NoSummary

-----------------------------------------------------------------------------
(***************************************************************************)
(* Initialize of the bank and the mat, down to the subarray.               *)
(***************************************************************************)

\* A bus with external sense amplifiers has wires without repeaters; eDRAM is
\* refused without the flag that it was looked at.
BankInitialize ==
  /\ pc = "bank"
  /\ LET destructive == ~array.internalSenseAmp /\ array.cellType = "eDRAM"
         illegal == \/ ~array.internalSenseAmp /\ array.repeatedGlobalWire
                    \/ array.fail = "bankPartition"
     IN  /\ bank' = CASE destructive -> Invalid(bank)
                      [] ~destructive /\ illegal -> Initialized(Invalid(bank))
                      [] OTHER -> bank
         /\ pc' = IF destructive \/ illegal THEN "area" ELSE "mat"
  /\ UNCHANGED <<call, written, unset, subarray, mat, kept, summary>>

\* "too aggressive partitioning"
MatBeforeSubArray ==
  /\ pc = "mat"
  /\ IF array.fail = "matPartition"
     THEN mat' = Initialized(Invalid(mat)) /\ pc' = "afterMat"
     ELSE mat' = mat /\ pc' = "legality"
  /\ UNCHANGED <<call, written, unset, subarray, bank, kept, summary>>

-----------------------------------------------------------------------------
(***************************************************************************)
(* SubArray::Initialize.                                                   *)
(***************************************************************************)

\* "There is no way to put the sense amp"
NoRoomForSenseAmp ==
  /\ array.cellType \in {"SLCNAND", "memristor", "FBRAM"}
  /\ array.internalSenseAmp /\ array.muxBits["bitlineMux"] = 0

\* The first tests, which mark the subarray as initialized.
Illegal ==
  \/ array.fail = "fewColumns" /\ WaysInRow(array)
  \/ array.cellType = "eDRAM" /\ array.muxBits["bitlineMux"] > 0
  \/ array.fail = "fewRows" /\ array.cellType = "SLCNAND"
  \/ NoRoomForSenseAmp
  \/ /\ array.fail = "bitlineLeakage"
     /\ \/ array.cellType = "FBRAM"
        \/ array.cellType \in Resistive /\ array.accessType = "CMOS_access"

\* The later ones, which do not.
TooMuchCurrent ==
  \/ array.fail = "wordlineDriver" /\ array.accessType # "CMOS_access"
  \/ array.fail = "bitlineMuxWidth"

SubArrayLegality ==
  /\ pc = "legality"
  /\ subarray' = CASE Illegal -> Initialized(Invalid(subarray))
                   [] ~Illegal /\ TooMuchCurrent -> Invalid(subarray)
                   [] OTHER -> subarray
  /\ pc' = IF subarray'.invalid THEN "afterSubArray" ELSE "sensing"
  /\ Write(IF array.internalSenseAmp /\ ~subarray'.invalid THEN {"voltageSense"} ELSE {})
  /\ UNCHANGED <<call, unset, mat, bank, kept, summary>>

\* The voltage that eDRAM senses depends on the capacitance of the bitline, which
\* is set in the next step.
SenseVoltage ==
  LET fields == IF array.cellType = "eDRAM" THEN {"capBitline"} ELSE {}
  IN  /\ pc = "sensing"
      /\ \E tooLong \in IF array.cellType = "eDRAM"
                         THEN Outcomes("bitlineTooLong", fields) ELSE {FALSE} :
           /\ subarray' = IF tooLong THEN Initialized(Invalid(subarray)) ELSE subarray
           /\ pc' = IF tooLong THEN "afterSubArray" ELSE "cells"
      /\ Read(fields) /\ Write({"senseVoltage"})
      /\ UNCHANGED <<call, mat, bank, kept, summary>>

\* What a cell and its access device write into the subarray; for BJT access
\* that is "TO-DO".
CellFields ==
  {"wordline", "capBitline", "resBitline"}
    \cup (IF array.accessType = "BJT_access" THEN {} ELSE {"cellAccess"})
    \cup (IF array.cellType \in Resistive THEN {"resMemCell"} ELSE {"voltagePrecharge"})
    \cup (IF array.cellType \in Resistive /\ array.readMode
          THEN {"voltageMemCell", "voltagePrecharge"} ELSE {})
    \cup (IF array.cellType \in Resistive /\ array.readMode /\ array.voltageIn
          THEN {"resEquivalent"} ELSE {})

\* "no reasonable precharge voltage existing": a test for voltage sensing.
DeriveCells ==
  /\ pc = "cells"
  /\ LET fields == IF array.cellType \in Resistive \ {"FBRAM"} THEN {"cellAccess"} ELSE {}
         known == CellFields \cup written
     IN  /\ Write(CellFields)
         /\ unset' = unset \cup (fields \ known)
         /\ \E noPrecharge \in
                IF array.cellType \in Resistive /\ array.readMode
                THEN IF fields \subseteq known THEN {array.fail = "noPrecharge"} ELSE BOOLEAN
                ELSE {FALSE} :
              /\ subarray' = IF noPrecharge THEN Invalid(subarray) ELSE subarray
              /\ pc' = IF noPrecharge THEN "afterSubArray" ELSE "precharger"
  /\ UNCHANGED <<call, mat, bank, kept, summary>>

\* Mutant: muxes are initialized in the order of the data.
OutwardChain ==
  <<"precharger", "rowDecoder", "bitlineMuxDecoder", "senseAmpMuxLev1Decoder",
    "senseAmpMuxLev2Decoder", "senseAmpMuxLev1", "senseAmpMuxLev2", "senseAmp",
    "bitlineMux">>

\* The circuits, each before those that it is the load of.
Chain ==
  <<"precharger", "rowDecoder", "bitlineMuxDecoder", "senseAmpMuxLev1Decoder",
    "senseAmpMuxLev2Decoder", "senseAmpMuxLev2", "senseAmpMuxLev1", "senseAmp",
    "bitlineMux">>

\* What a circuit reads of the subarray and of the circuits it drives.
Loads(c) ==
  CASE c = "precharger" -> {"capBitline", "resBitline"}
    [] c = "rowDecoder" -> {"wordline"}
    [] c = "senseAmpMuxLev1" -> {"senseAmpMuxLev2"}
    [] c = "senseAmp" -> {"voltageSense", "senseVoltage", "wordline"}
    [] c = "bitlineMux" -> IF array.internalSenseAmp THEN {"senseAmp"} ELSE {"senseAmpMuxLev1"}
    [] OTHER -> {}

\* The output muxes do not care whether the subarray is still legal.
IsInitialized(c) ==
  /\ c \in MuxDecoders \cup {"senseAmp", "bitlineMux"} => ~subarray.invalid
  /\ c = "senseAmp" => array.internalSenseAmp

\* Initialize and CalculateRC of the next circuit.  Without a row decoder the
\* subarray is not initialized; everything else that fails is noted, and the
\* subarray is initialized after its last circuit.
InitializeCircuit(c) ==
  LET i == CHOOSE k \in DOMAIN Chain : Chain[k] = c
      fails == IsInitialized(c) /\ c \in Decoders \cup {"senseAmp"} /\ array.fail = c
      checked == IF fails THEN Invalid(subarray) ELSE subarray
      stop == fails /\ c = "rowDecoder"
      last == i = Len(Chain)
  IN  /\ pc = c
      /\ Read(IF IsInitialized(c) THEN Loads(c) ELSE {})
      /\ Write(IF IsInitialized(c) /\ ~fails THEN {c} ELSE {})
      /\ subarray' = IF last THEN Initialized(checked) ELSE checked
      /\ pc' = IF stop \/ last THEN "afterSubArray" ELSE Chain[i + 1]
      /\ UNCHANGED <<call, mat, bank, kept, summary>>

-----------------------------------------------------------------------------
(***************************************************************************)
(* The way back to the bank.                                               *)
(***************************************************************************)

\* Mutant: a subarray that is not initialized passes for legal.
RefusedInitialized(unit) == unit.initialized /\ unit.invalid

\* The flag that tells that a part is illegal.
Refused(unit) == unit.invalid

\* The predecoders and, for tags, the comparator follow a legal subarray.
MatAfterSubArray ==
  /\ pc = "afterSubArray"
  /\ mat' = IF Refused(subarray) \/ array.fail = "rowBits"
            THEN Initialized(Invalid(mat)) ELSE Initialized(mat)
  /\ pc' = "afterMat"
  /\ UNCHANGED <<call, written, unset, subarray, bank, kept, summary>>

\* The global sense amplifiers of a bus and the mux in front of them.
BankAfterMat ==
  /\ pc = "afterMat"
  /\ LET global == ~Refused(mat) /\ ~array.internalSenseAmp
         tooNarrow == global /\ array.fail = "globalSenseAmp"
     IN  /\ bank' = IF Refused(mat) \/ tooNarrow
                    THEN Initialized(Invalid(bank)) ELSE Initialized(bank)
         /\ Write(IF global /\ ~tooNarrow THEN {"globalSenseAmp", "globalBitlineMux"} ELSE {})
  /\ pc' = "area"
  /\ UNCHANGED <<call, unset, subarray, mat, kept, summary>>

-----------------------------------------------------------------------------
(***************************************************************************)
(* CalculateArea, CalculateRC and CalculateLatencyAndPower.                *)
(***************************************************************************)

\* A data array that is too wide or too high is illegal after all.
CalculateArea ==
  /\ pc = "area"
  /\ bank' = IF bank.initialized /\ array.memoryType = "data" /\ array.fail = "aspectRatio"
             THEN Invalid(bank) ELSE bank
  /\ pc' = "rc"
  /\ UNCHANGED <<call, written, unset, subarray, mat, kept, summary>>

\* The comparator of a mat or of a bus, if it has one.
ComparatorsOf(a) ==
  IF a.memoryType # "tag" THEN {}
  ELSE IF a.internalSenseAmp THEN {"comparator"} ELSE {"globalComparator"}

Evaluable == bank.initialized /\ ~bank.invalid

\* The circuits of the subarray have it already.
CalculateRC ==
  /\ pc = "rc"
  /\ Write(IF Evaluable THEN Predecoders \cup ComparatorsOf(array) ELSE {})
  /\ pc' = "latency"
  /\ UNCHANGED <<call, unset, units, kept, summary>>

\* What CalculateLatency and CalculatePower of the subarray and of its circuits
\* read.
FieldsUsed(a) ==
  {"capBitline", "resBitline", "cellAccess"}
    \cup (CASE a.cellType = "eDRAM" -> {"senseVoltage"}
            [] a.cellType \in {"SRAM", "SLCNAND"} -> {"voltagePrecharge", "senseVoltage"}
            [] CurrentSense(a) -> {"resMemCell"}
            [] OTHER -> {IF a.voltageIn THEN "resEquivalent" ELSE "resMemCell",
                         "voltagePrecharge", "voltageMemCell", "senseVoltage"})
    \cup (IF a.internalSenseAmp THEN OfSubArray
          ELSE (OfSubArray \ {"senseAmp"}) \cup {"globalSenseAmp", "globalBitlineMux"})
    \cup Predecoders \cup ComparatorsOf(a)

\* A unit with the costs that have been calculated.
Filled(unit, costs) ==
  [field \in DOMAIN unit |-> IF field \in DOMAIN costs THEN costs[field] ELSE unit[field]]

\* From the subarray up; an illegal bank does not ask its mat.
CalculateLatencyAndPower ==
  LET evaluatedSubArray ==
        Filled(Filled(subarray, SubArrayPower(array)), SubArrayLatency(array))
      evaluatedMat == Filled(Filled(mat, MatPower(array)), MatLatency(array))
  IN  /\ pc = "latency"
      /\ Read(IF Evaluable THEN FieldsUsed(array) ELSE {})
      /\ subarray' = IF Evaluable THEN evaluatedSubArray ELSE subarray
      /\ mat' = IF Evaluable THEN evaluatedMat ELSE mat
      /\ bank' = (IF array.tree THEN TreeBank(array, bank, mat')
                                 ELSE BusBank(array, bank, mat'))
      /\ pc' = "evaluated"
      /\ UNCHANGED <<call, written, kept, summary>>

-----------------------------------------------------------------------------
\* The exploration keeps legal banks only, and goes on with a new bank.
Keep ==
  /\ pc = "evaluated" /\ ~bank.invalid
  /\ kept' = Append(kept, Evaluated)
  /\ IF Len(kept') < Len(call)
     THEN /\ pc' = "bank"
          /\ written' = {}
          /\ subarray' = NewUnit /\ mat' = NewUnit /\ bank' = NewUnit
     ELSE /\ pc' = IF Len(call) = 2 THEN "summary" ELSE "done"
          /\ UNCHANGED <<written, units>>
  /\ UNCHANGED <<call, unset, summary>>

Drop ==
  /\ pc = "evaluated" /\ bank.invalid
  /\ pc' = "dropped"
  /\ UNCHANGED <<call, written, unset, units, kept, summary>>

PrintSummary ==
  /\ pc = "summary"
  /\ summary' = PrintAsCache(call[2], kept[1], kept[2])
  /\ pc' = "done"
  /\ UNCHANGED <<call, written, unset, units, kept>>

Finished == pc \in {"done", "dropped"} /\ UNCHANGED vars

Next ==
  \/ BankInitialize \/ MatBeforeSubArray
  \/ SubArrayLegality \/ SenseVoltage \/ DeriveCells
  \/ \E i \in DOMAIN Chain : InitializeCircuit(Chain[i])
  \/ MatAfterSubArray \/ BankAfterMat
  \/ CalculateArea \/ CalculateRC \/ CalculateLatencyAndPower
  \/ Keep \/ Drop \/ PrintSummary \/ Finished

Spec == Init /\ [][Next]_vars

-----------------------------------------------------------------------------
(***************************************************************************)
(* Properties.  They are about the banks whose evaluation has ended.       *)
(***************************************************************************)
UnitType(unit) ==
  /\ DOMAIN unit = DOMAIN FunctionUnit \cup {"initialized", "invalid"}
  /\ unit.initialized \in BOOLEAN /\ unit.invalid \in BOOLEAN

\* Every variable has its type.
TypeOK ==
  /\ \A unit \in {subarray, mat, bank} : UnitType(unit)
  /\ Len(kept) \in 0 .. Len(call)
  /\ summary.known \in BOOLEAN

Ended == pc = "evaluated"
Legal == Ended /\ Evaluable

\* One circuit of each kind that a word passes on its way out.  The two places
\* of an external SRAM sense amplifier are the exception: it is counted in the
\* loop over the rows and again after it.
WholeRead(a, path) ==
  LET amps == CountOf(path, {"senseAmp", "globalSenseAmp"})
      twice == a.cellType = "SRAM" /\ ~a.internalSenseAmp
  IN  /\ CountOf(path, Predecoders) = Unit /\ CountOf(path, Decoders) = Unit
      /\ CountOf(path, Bitlines) = Unit
      /\ \A m \in Muxes : path[m] = IF a.muxBits[m] > 0 THEN Unit ELSE 0
      /\ amps = IF twice THEN 2 * Unit ELSE Unit
      /\ CountOf(path, Converters) = IF CurrentSense(a) THEN Unit ELSE 0
      /\ CountOf(path, {"comparator", "globalComparator"})
           = IF a.memoryType = "tag" THEN Unit ELSE 0

\* Whatever the cell, the sensing and the organisation, every way on which the read
\* latency of a legal bank may be spent passes one predecoder, one decoder, one
\* bitline, each mux that has a choice, one sense amplifier (inside the
\* subarray or global), an IV converter if a current is sensed and a comparator
\* for tags.  The sum is written by four classes, with five variants in
\* SubArray and six in the banks.
ReadsAreWhole == Legal => \A path \in bank.readLatency : WholeRead(array, path)

\* A write is the worst case of RESET and SET (of programming, for NAND flash), as
\* the bank computes all three separately: each way to spend either is
\* contained in a way to spend the write, and RESET and SET that have their
\* pulse have it once, without the pulse of the other.
WritesCoverPulses ==
  Legal =>
    /\ \A path \in bank.setLatency :
         /\ path["setPulse"] + path["flashProgramTime"] \in {0, Unit}
         /\ path["resetPulse"] = 0
         /\ \E w \in bank.writeLatency : AtLeast(w, path)
    /\ \A path \in bank.resetLatency :
         /\ path["resetPulse"] + path["flashEraseTime"] \in {0, Unit}
         /\ path["setPulse"] = 0
         /\ array.cellType = "SLCNAND" \/ \E w \in bank.writeLatency : AtLeast(w, path)

\* How many of a leaking circuit the bank has.
Instances(a, c) ==
  CASE c \in Predecoders -> IF NumAddressBit(a, c) > 0 THEN Mats(a) ELSE 0
    [] c = "comparator" -> IF HasComparator(a) THEN Mats(a) * a.numWay ELSE 0
    [] c \in {"senseAmp", "ivConverter"} ->
         IF a.internalSenseAmp /\ (c = "senseAmp" \/ CurrentSense(a))
         THEN Mats(a) * a.subarrays ELSE 0
    [] OTHER -> Mats(a) * a.subarrays

\* Leakage does not depend on which mats and subarrays work: each circuit in a
\* legal bank leaks once for each place where it is built.
EverythingLeaks ==
  Legal =>
    \A c \in Predecoders \cup Decoders \cup {"precharger", "comparator", "senseAmp", "ivConverter"} :
      bank.leakage[c] = Unit * Instances(array, c)

RoutingParts == Routes \cup OfBank \cup {"globalIvConverter"} \cup Bitlines

\* The differences that Result::print shows as the share of the routing and of the
\* predecoders.
EnergyLeft(whole, part, n) == Minus(whole, Times(n, part))

\* What Result::print shows as parts adds up: a latency of a legal bank is that
\* of its mat and something of the routing alone, an energy of the bank less
\* that of its active mats is energy of the routing alone and never negative,
\* and what a mat has more than its active subarrays is that of predecoders and
\* comparators.
PartsAddUp ==
  Legal =>
    /\ \A latency \in {"readLatency", "writeLatency", "resetLatency", "setLatency"} :
         LET left == Without(bank[latency], mat[latency])
         IN  left # {} /\ \A path \in left : Only(path, RoutingParts)
    /\ \A energy \in {"readDynamicEnergy", "writeDynamicEnergy", "resetDynamicEnergy",
                      "setDynamicEnergy"} :
         LET left == EnergyLeft(bank[energy], mat[energy], ActiveMats(array))
             matLeft == EnergyLeft(mat[energy], subarray[energy], array.activeSubarrays)
         IN  /\ Only(left, RoutingParts) /\ AtLeast(left, Nothing)
             /\ Only(matLeft, Predecoders \cup {"comparator"}) /\ AtLeast(matLeft, Nothing)
    /\ LET left == EnergyLeft(bank.leakage, mat.leakage, Mats(array))
       IN  Only(left, RoutingParts) /\ AtLeast(left, Nothing)

\* Nothing is computed from a field that has no value yet or from a circuit whose
\* resistances and capacitances are not known: the order of the circuits in
\* SubArray::Initialize is that of their loads.  Known exceptions are the
\* bitline of eDRAM and cells with BJT access ("TO-DO").
NothingUnsetIsRead ==
  unset \subseteq (IF call[1].cellType = "eDRAM" THEN {"capBitline"} ELSE {})
                   \cup (IF call[1].accessType = "BJT_access" THEN {"cellAccess"} ELSE {})

\* An illegal part makes the bank illegal, with or without the flag that it was
\* initialized, and a legal bank has all its parts initialized.
PartsArePassedOn ==
  /\ subarray.invalid \/ mat.invalid => bank.invalid
  /\ ~bank.invalid => subarray.initialized /\ mat.initialized /\ bank.initialized

\* An illegal bank that the comparison of results may see costs 1e41 in all that
\* is compared.
RefusedBankIsInfinite ==
  bank.invalid /\ bank.initialized =>
    /\ \A path \in bank.readLatency \cup bank.writeLatency : path["infinite"] > 0
    /\ bank.readDynamicEnergy["infinite"] > 0 /\ bank.writeDynamicEnergy["infinite"] > 0
    /\ bank.leakage["infinite"] > 0

\* Two flags are set in nine combinations of early returns: an illegal part is
\* passed on, an illegal bank is infinite, and no 1e41 gets into a legal one.
RefusedIsInfinite ==
  Ended =>
    /\ PartsArePassedOn
    /\ RefusedBankIsInfinite
    /\ ~bank.invalid =>
         \A path \in bank.readLatency \cup bank.writeLatency : path["infinite"] = 0

-----------------------------------------------------------------------------
\* A hit contains the ways to spend another latency, where delays of the bitline
\* are the same whichever bitline they name.
Covers(path, other) ==
  /\ \A p \in Arrays \X (Parts \ Bitlines) : path[p] >= other[p]
  /\ \A which \in Arrays :
       Both!CountOf(path, {which} \X Bitlines) >= Both!CountOf(other, {which} \X Bitlines)
CoveredBy(latency, hit) == \A other \in latency : \E path \in hit : Covers(path, other)

\* In each mode a hit is not answered before the tags are compared, nor before the
\* data have left their bank (in normal mode that latency is put together from
\* three numbers of two banks), and a sequential access spends both; a
\* miss is known no later than a hit.  Energy and leakage are of both arrays.
HitCoversTagAndData ==
  summary.known =>
    LET tagRead == InAll("tag", kept[1].bank.readLatency)
        dataRead == InAll("data", kept[2].bank.readLatency)
        sequential == call[2].cacheAccessMode = "sequential"
    IN  /\ CoveredBy(tagRead, summary.hitLatency) /\ CoveredBy(dataRead, summary.hitLatency)
        /\ CoveredBy(summary.missLatency, summary.hitLatency)
        /\ sequential => CoveredBy(Both!Then(tagRead, dataRead), summary.hitLatency)
        /\ Both!AtLeast(summary.hitEnergy, summary.missEnergy)
        /\ sequential => Both!Only(summary.missEnergy, {"tag"} \X Parts)

-----------------------------------------------------------------------------
\* "Bitline is too long" (SubArray.cpp): a legal eDRAM bank has a bitline whose
\* signal can be sensed.
LegalBitlineIsSensed ==
  Legal /\ array.cellType = "eDRAM" => array.fail # "bitlineTooLong"

\* Result::print lists "Cell RESET Dynamic Energy" as a part of the "RESET Dynamic
\* Energy" of the memories for which it prints one.
PrintsReset(a) ==
  \/ a.cellType \in {"PCRAM", "FBRAM"}
  \/ a.cellType = "memristor" /\ a.accessType \in {"CMOS_access", "BJT_access"}

ResetContainsCells ==
  Legal /\ PrintsReset(array) /\ subarray.cellResetEnergy # Nothing =>
    subarray.resetDynamicEnergy["cellReset"] > 0
=============================================================================
