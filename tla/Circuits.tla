------------------------------ MODULE Circuits ------------------------------
(***************************************************************************)
(* The circuits of a bank, and what CalculateLatency and CalculatePower of *)
(* each class write into its FunctionUnit fields (Mux.cpp, SenseAmp.cpp,   *)
(* Precharger.cpp, RowDecoder.cpp, Comparator.cpp, PredecodeBlock.cpp).    *)
(* Electrical formulas are left out: a circuit counts for itself, once.    *)
(***************************************************************************)
EXTENDS Integers

CONSTANT Unit    \* how an amount counts a part once; every associativity divides it

ASSUME UnitAssumption == Unit \in Nat \ {0}

Predecoders ==
  {"rowPredecoderBlock1", "rowPredecoderBlock2",
   "bitlineMuxPredecoderBlock1", "bitlineMuxPredecoderBlock2",
   "senseAmpMuxLev1PredecoderBlock1", "senseAmpMuxLev1PredecoderBlock2",
   "senseAmpMuxLev2PredecoderBlock1", "senseAmpMuxLev2PredecoderBlock2"}
MuxDecoders == {"bitlineMuxDecoder", "senseAmpMuxLev1Decoder", "senseAmpMuxLev2Decoder"}
Decoders == {"rowDecoder"} \cup MuxDecoders
Muxes == {"bitlineMux", "senseAmpMuxLev1", "senseAmpMuxLev2"}

\* The circuits that are members of SubArray, Mat and BankWithoutHtree.
OfSubArray == Decoders \cup Muxes \cup {"precharger", "senseAmp"}
OfMat == Predecoders \cup {"comparator"}
OfBank == {"globalBitlineMux", "globalSenseAmp", "globalComparator"}
AllCircuits == OfSubArray \cup OfMat \cup OfBank

Converters == {"ivConverter", "globalIvConverter"}      \* inside sense amplifiers
Bitlines == {"bitline", "bitlineOn", "bitlineOff"}      \* bitlineDelay, -On, -Off
Pulses == {"resetPulse", "setPulse", "flashEraseTime", "flashProgramTime"}
Cells == {"bitlines", "cell", "cellRead", "cellWrite", "cellReset", "cellSet",
          "erase", "program"}
Routes == {"wire", "globalBitline"}

Parts ==
  AllCircuits \cup Converters \cup Bitlines \cup {"charge"} \cup Pulses \cup Cells
    \cup Routes \cup {"infinite"}                       \* 1e41

INSTANCE Ledger

\* The fields of a FunctionUnit after its constructor.
FunctionUnit ==
  [readLatency |-> Instant, writeLatency |-> Instant,
   resetLatency |-> Instant, setLatency |-> Instant,
   readDynamicEnergy |-> Nothing, writeDynamicEnergy |-> Nothing,
   resetDynamicEnergy |-> Nothing, setDynamicEnergy |-> Nothing,
   leakage |-> Nothing,
   cellReadEnergy |-> Nothing, cellSetEnergy |-> Nothing, cellResetEnergy |-> Nothing]

Cost(latency, writeLatency, energy, writeEnergy, leakage) ==
  [readLatency |-> latency, writeLatency |-> writeLatency, readDynamicEnergy |-> energy,
   writeDynamicEnergy |-> writeEnergy, leakage |-> leakage]
NoCost == Cost(Instant, Instant, Nothing, Nothing, Nothing)

\* Reads and writes cost the same, and the circuit leaks.
Symmetric(c) == Cost({Of(c)}, {Of(c)}, Of(c), Of(c), Of(c))

\* A mux of one input is a wire, and no mux leaks.
MuxCost(c, numInput) ==
  IF numInput > 1 THEN Cost({Of(c)}, {Of(c)}, Of(c), Of(c), Nothing) ELSE NoCost

\* A sense amplifier works for reads only, after an IV converter if it senses a
\* current.
SenseAmpCost(c, converter, currentSense) ==
  LET amp == IF currentSense THEN Plus(Of(c), Of(converter)) ELSE Of(c)
  IN  Cost({amp}, Instant, amp, Nothing, amp)

\* "No precharging is needed during the write operation".
PrechargerCost == Cost({Of("precharger")}, {Of("precharger")}, Of("precharger"), Nothing,
                       Of("precharger"))

RowDecoderCost(c) == Symmetric(c)
ComparatorCost(c) == Symmetric(c)
PredecodeBlockCost(c, numAddressBit) == IF numAddressBit = 0 THEN NoCost ELSE Symmetric(c)
=============================================================================
