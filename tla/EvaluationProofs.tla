--------------------------- MODULE EvaluationProofs ---------------------------
(***************************************************************************)
(* For all arrays: nothing in the evaluation of a bank is computed from a  *)
(* field or a circuit that has no value yet, except where the code is      *)
(* known to do so; what a part refuses makes the bank infinitely           *)
(* expensive; in a legal bank each circuit leaks once for each place where *)
(* it is built, the parts of every total add up to it, a read waits for    *)
(* every circuit on its way and a write contains its RESET and SET pulses; *)
(* and a hit of a cache contains the reads of both its banks.              *)
(***************************************************************************)
EXTENDS Evaluation, CommonProofs, SequenceTheorems

\* What may be read without a value: NothingUnsetIsRead allows nothing else.
KnownExceptions ==
  (IF call[1].cellType = "eDRAM" THEN {"capBitline"} ELSE {})
    \cup (IF call[1].accessType = "BJT_access" THEN {"cellAccess"} ELSE {})

HasFlags(unit) == {"initialized", "invalid"} \subseteq DOMAIN unit

\* A circuit has its values, or is not needed, or the subarray is refused.
IsDone(c) ==
  \/ c \in written
  \/ c = "senseAmp" /\ ~array.internalSenseAmp
  \/ subarray.invalid /\ c \in Decoders \cup {"senseAmp", "bitlineMux"}

SenseKnown == array.internalSenseAmp => "voltageSense" \in written
CellsKnown == SenseKnown /\ "senseVoltage" \in written
FieldsKnown == CellsKnown /\ CellFields \subseteq written
SubArrayKnown ==
  FieldsKnown /\ \A c \in OfSubArray : c \in written \/ (c = "senseAmp" /\ ~array.internalSenseAmp)
BankKnown ==
  SubArrayKnown /\ (~array.internalSenseAmp => {"globalSenseAmp", "globalBitlineMux"} \subseteq written)

\* What has its values in each phase.
OrderInv ==
  /\ pc = "sensing" => SenseKnown
  /\ pc = "cells" => CellsKnown
  /\ \A i \in DOMAIN Chain : pc = Chain[i] =>
       FieldsKnown /\ \A j \in DOMAIN Chain : j < i => IsDone(Chain[j])
  /\ pc = "afterSubArray" /\ ~subarray.invalid => SubArrayKnown
  /\ pc = "afterMat" /\ ~mat.invalid => SubArrayKnown
  /\ pc \in {"area", "rc", "latency"} /\ Evaluable => BankKnown
  /\ pc = "latency" /\ Evaluable => Predecoders \cup ComparatorsOf(array) \subseteq written

\* The array under evaluation is one of the call.
ArrayInv ==
  /\ call \in Calls
  /\ \/ kept = <<>>
     \/ \E x : kept = <<x>> /\ (Len(call) = 2 \/ pc \in {"summary", "done"})
     \/ pc \in {"summary", "done"}

ReadInv ==
  /\ ArrayInv /\ OrderInv
  /\ pc \notin {"summary", "done", "dropped", "evaluated"} =>
       HasFlags(subarray) /\ HasFlags(mat) /\ HasFlags(bank)
  /\ unset \subseteq KnownExceptions

-----------------------------------------------------------------------------
LEMMA NewUnitFlags == HasFlags(NewUnit)
BY DEF HasFlags, NewUnit

\* Each circuit has one place in the chain.
LEMMA ChainPlaces ==
  /\ DOMAIN Chain = 1 .. 9
  /\ \A i, j \in 1 .. 9 : Chain[i] = Chain[j] => i = j
  /\ \A i \in 1 .. 9 :
       Chain[i] \notin {"bank", "mat", "legality", "sensing", "cells", "afterSubArray",
                        "afterMat", "area", "rc", "latency", "evaluated", "summary", "done",
                        "dropped"}
  /\ OfSubArray = {Chain[i] : i \in 1 .. 9}
BY DEF Chain, OfSubArray, Decoders, MuxDecoders, Muxes

LEMMA FlagsStay ==
  ASSUME NEW unit, HasFlags(unit)
  PROVE  /\ HasFlags(Invalid(unit)) /\ Invalid(unit).invalid = TRUE
         /\ HasFlags(Initialized(unit)) /\ Initialized(unit).invalid = unit.invalid
         /\ HasFlags(Initialized(Invalid(unit))) /\ Initialized(Invalid(unit)).invalid = TRUE
BY DEF HasFlags, Invalid, Initialized

\* A call has one array or two, and the one under evaluation is one of them.
LEMMA CallsHaveArrays ==
  ASSUME NEW c \in Calls
  PROVE  Len(c) \in {1, 2} /\ DOMAIN c = 1 .. Len(c)
BY CallsAssumption, Zenon

LEMMA ArrayIsThere ==
  ASSUME ArrayInv, pc \notin {"summary", "done"}
  PROVE  Len(kept) + 1 \in 1 .. Len(call) /\ call \in Calls
<1>1. Len(call) \in {1, 2} /\ call \in Calls
  BY CallsHaveArrays DEF ArrayInv
<1>2. CASE kept = <<>>
  BY <1>1, <1>2
<1>3. CASE \E x : kept = <<x>> /\ Len(call) = 2
  BY <1>1, <1>3
<1> QED
  BY <1>2, <1>3 DEF ArrayInv

\* The cell of the array is that of the call.
LEMMA ArrayOfCall ==
  ASSUME ArrayInv, pc \notin {"summary", "done"}
  PROVE  /\ array.cellType = call[1].cellType /\ array.accessType = call[1].accessType
         /\ array.cellType \in Resistive \cup {"SRAM", "eDRAM", "SLCNAND"}
<1>1. Len(kept) + 1 \in 1 .. Len(call)
  BY ArrayIsThere
<1> QED
  BY <1>1, CallsAssumption DEF ArrayInv, array

LEMMA InitRead == Init => ReadInv
BY ChainPlaces, NewUnitFlags DEF Init, ReadInv, ArrayInv, OrderInv

\* What is written stays written while a bank is evaluated.
LEMMA KnownStays ==
  ASSUME written \subseteq written', UNCHANGED <<call, kept>>
  PROVE  /\ array' = array
         /\ SenseKnown => SenseKnown'
         /\ CellsKnown => CellsKnown'
         /\ FieldsKnown => FieldsKnown'
         /\ SubArrayKnown => SubArrayKnown'
         /\ BankKnown => BankKnown'
<1>1. array' = array
  BY DEF array
<1>2. CellFields' = CellFields
  BY <1>1 DEF CellFields
<1>3. SenseKnown => SenseKnown'
  BY <1>1 DEF SenseKnown
<1>4. CellsKnown => CellsKnown'
  BY <1>3 DEF CellsKnown
<1>5. FieldsKnown => FieldsKnown'
  BY <1>2, <1>4 DEF FieldsKnown
<1>6. SubArrayKnown => SubArrayKnown'
  BY <1>1, <1>5 DEF SubArrayKnown
<1>7. BankKnown => BankKnown'
  BY <1>1, <1>6 DEF BankKnown
<1> QED
  BY <1>1, <1>3, <1>4, <1>5, <1>6, <1>7

Initializing ==
  {"bank", "mat", "legality", "sensing", "cells", "afterSubArray", "afterMat", "area", "rc",
   "latency"} \cup {Chain[i] : i \in DOMAIN Chain}

\* A step of the evaluation of one bank keeps the array.
LEMMA ArrayStep ==
  ASSUME ArrayInv, UNCHANGED <<call, kept>>, pc \in Initializing
  PROVE  ArrayInv'
BY ChainPlaces DEF ArrayInv, Initializing

\* The subarray up to its first circuit.
LEMMA BeforeCircuits ==
  ASSUME ReadInv, BankInitialize \/ MatBeforeSubArray \/ SubArrayLegality \/ SenseVoltage
  PROVE  ReadInv'
<1>0. /\ pc \in {"bank", "mat", "legality", "sensing"} /\ written \subseteq written'
      /\ UNCHANGED <<call, kept>>
  BY DEF BankInitialize, MatBeforeSubArray, SubArrayLegality, SenseVoltage, Write
<1>1. ArrayInv'
  BY <1>0, ArrayStep DEF ReadInv, Initializing
<1>2. HasFlags(subarray) /\ HasFlags(mat) /\ HasFlags(bank)
  BY <1>0 DEF ReadInv
<1>3. CASE BankInitialize
  <2>1. HasFlags(bank') /\ (pc' = "area" => bank'.invalid = TRUE) /\ pc' \in {"area", "mat"}
    BY <1>2, <1>3, FlagsStay DEF BankInitialize
  <2> QED
    BY ChainPlaces, <1>1, <1>2, <1>3, <2>1 DEF BankInitialize, ReadInv, OrderInv, Evaluable, KnownExceptions
<1>4. CASE MatBeforeSubArray
  <2>1. /\ HasFlags(mat') /\ (pc' = "afterMat" => mat'.invalid = TRUE)
        /\ pc' \in {"afterMat", "legality"}
    <3>1. mat' \in {mat, Initialized(Invalid(mat))}
          /\ (pc' = "afterMat" => mat' = Initialized(Invalid(mat)))
          /\ pc' \in {"afterMat", "legality"}
      BY <1>4 DEF MatBeforeSubArray
    <3> QED
      BY <1>2, <3>1, FlagsStay
  <2> QED
    BY ChainPlaces, <1>1, <1>2, <1>4, <2>1 DEF MatBeforeSubArray, ReadInv, OrderInv, KnownExceptions
<1>5. CASE SubArrayLegality
  <2>1. HasFlags(subarray')
    BY <1>2, <1>5, FlagsStay DEF SubArrayLegality
  <2>2. /\ pc' \in {"afterSubArray", "sensing"}
        /\ pc' = "afterSubArray" => subarray'.invalid
        /\ pc' = "sensing" => ~subarray'.invalid
    BY <1>5 DEF SubArrayLegality
  <2>3. pc' = "sensing" => SenseKnown'
    BY <1>5, <2>2 DEF SubArrayLegality, SenseKnown, Write, array
  <2> QED
    BY ChainPlaces, <1>1, <1>2, <1>5, <2>1, <2>2, <2>3
       DEF SubArrayLegality, ReadInv, OrderInv, KnownExceptions
<1>6. CASE SenseVoltage
  <2>1. /\ pc' \in {"afterSubArray", "cells"} /\ HasFlags(subarray')
        /\ pc' = "afterSubArray" => subarray'.invalid = TRUE
    <3>1. PICK tooLong \in BOOLEAN :
            /\ subarray' = IF tooLong THEN Initialized(Invalid(subarray)) ELSE subarray
            /\ pc' = IF tooLong THEN "afterSubArray" ELSE "cells"
      BY <1>6 DEF SenseVoltage, Outcomes
    <3> QED
      BY <1>2, <3>1, FlagsStay
  <2>2. CellsKnown'
    <3>1. SenseKnown
      BY <1>6 DEF SenseVoltage, ReadInv, OrderInv
    <3>2. SenseKnown'
      BY <1>0, <3>1, KnownStays
    <3> QED
      BY <1>6, <3>2 DEF SenseVoltage, Write, CellsKnown
  <2>3. unset' \subseteq KnownExceptions
    BY <1>6, ArrayOfCall DEF SenseVoltage, Read, ReadInv, KnownExceptions
  <2> QED
    BY ChainPlaces, <1>1, <1>2, <1>6, <2>1, <2>2, <2>3
       DEF SenseVoltage, ReadInv, OrderInv, KnownExceptions
<1> QED
  BY <1>3, <1>4, <1>5, <1>6

LEMMA CellStep ==
  ASSUME ReadInv, DeriveCells
  PROVE  ReadInv'
<1>0. pc = "cells" /\ written \subseteq written' /\ UNCHANGED <<call, kept>>
  BY DEF DeriveCells, Write
<1>1. ArrayInv'
  BY <1>0, ArrayStep DEF ReadInv, Initializing
<1>2. HasFlags(subarray) /\ HasFlags(mat) /\ HasFlags(bank)
  BY <1>0 DEF ReadInv
<1>3. FieldsKnown'
  <2>1. CellsKnown'
    <3>1. CellsKnown
      BY <1>0 DEF ReadInv, OrderInv
    <3> QED
      BY <1>0, <3>1, KnownStays
  <2>2. CellFields' = CellFields
    BY <1>0 DEF CellFields, array
  <2> QED
    BY <2>1, <2>2 DEF DeriveCells, Write, FieldsKnown
<1>4. /\ pc' \in {"afterSubArray", "precharger"} /\ HasFlags(subarray')
      /\ pc' = "afterSubArray" => subarray'.invalid = TRUE
  <2>1. PICK noPrecharge \in BOOLEAN :
          /\ subarray' = IF noPrecharge THEN Invalid(subarray) ELSE subarray
          /\ pc' = IF noPrecharge THEN "afterSubArray" ELSE "precharger"
    BY DEF DeriveCells
  <2> QED
    BY <1>2, <2>1, FlagsStay
<1>5. unset' \subseteq KnownExceptions
  <2>1. unset' \subseteq unset \cup ({"cellAccess"} \ CellFields)
    BY DEF DeriveCells
  <2>2. "cellAccess" \notin CellFields => array.accessType = "BJT_access"
    BY DEF CellFields
  <2> QED
    BY <1>0, <2>1, <2>2, ArrayOfCall DEF ReadInv, KnownExceptions
<1>6. Chain[1] = "precharger"
  BY DEF Chain
<1> QED
  BY ChainPlaces, <1>0, <1>1, <1>2, <1>3, <1>4, <1>5, <1>6
     DEF DeriveCells, ReadInv, OrderInv, KnownExceptions

\* What a circuit needs has been initialized, if the circuit is.
LEMMA LoadsAreWritten ==
  ASSUME ReadInv, NEW i \in DOMAIN Chain, pc = Chain[i], IsInitialized(Chain[i])
  PROVE  Loads(Chain[i]) \subseteq written
<1>1. DOMAIN Chain = 1 .. 9
  BY ChainPlaces
<1>2. FieldsKnown /\ \A j \in 1 .. 9 : j < i => IsDone(Chain[j])
  BY <1>1 DEF ReadInv, OrderInv
<1>3. {"capBitline", "resBitline", "wordline"} \subseteq written
  BY <1>2 DEF FieldsKnown, CellFields
<1>4. CASE Chain[i] = "senseAmpMuxLev1"
  <2>1. i = 7
    BY <1>1, <1>4 DEF Chain
  <2>2. IsDone("senseAmpMuxLev2")
    BY <1>2, <2>1 DEF Chain
  <2> QED
    BY <1>4, <2>2 DEF IsDone, Loads, Decoders, MuxDecoders
<1>5. CASE Chain[i] = "senseAmp"
  BY <1>2, <1>3, <1>5 DEF IsInitialized, Loads, FieldsKnown, CellsKnown, SenseKnown
<1>6. CASE Chain[i] = "bitlineMux"
  <2>1. i = 9
    BY <1>1, <1>6 DEF Chain
  <2>2. IsDone("senseAmp") /\ IsDone("senseAmpMuxLev1")
    BY <1>2, <2>1 DEF Chain
  <2>3. ~subarray.invalid
    BY <1>6 DEF IsInitialized
  <2> QED
    BY <1>6, <2>2, <2>3 DEF IsDone, Loads, Decoders, MuxDecoders
<1>7. CASE Chain[i] \notin {"senseAmpMuxLev1", "senseAmp", "bitlineMux"}
  BY <1>3, <1>7 DEF Loads
<1> QED
  BY <1>4, <1>5, <1>6, <1>7

\* What the initialisation of circuit c, the i-th of the chain, does.
Fails(c) == IsInitialized(c) /\ c \in Decoders \cup {"senseAmp"} /\ array.fail = c
Effect(i, c) ==
  /\ pc = c
  /\ unset' = unset \cup ((IF IsInitialized(c) THEN Loads(c) ELSE {}) \ written)
  /\ written' = written \cup (IF IsInitialized(c) /\ ~Fails(c) THEN {c} ELSE {})
  /\ subarray' = (IF i = Len(Chain)
                  THEN Initialized(IF Fails(c) THEN Invalid(subarray) ELSE subarray)
                  ELSE IF Fails(c) THEN Invalid(subarray) ELSE subarray)
  /\ pc' = (IF (Fails(c) /\ c = "rowDecoder") \/ i = Len(Chain) THEN "afterSubArray"
            ELSE Chain[i + 1])
  /\ UNCHANGED <<call, mat, bank, kept, summary>>

LEMMA CircuitEffect ==
  ASSUME NEW i \in DOMAIN Chain, InitializeCircuit(Chain[i])
  PROVE  Effect(i, Chain[i])
<1> DEFINE c == Chain[i]
           place == CHOOSE k \in DOMAIN Chain : Chain[k] = c
<1>1. Effect(place, c)
  BY DEF InitializeCircuit, Read, Write, Effect, Fails
<1>2. place = i
  BY ChainPlaces
<1> HIDE DEF place, c
<1>3. Effect(i, c)
  BY <1>1, <1>2
<1> QED
  BY <1>3 DEF c

\* Initialize and CalculateRC of one circuit.
LEMMA CircuitStep ==
  ASSUME ReadInv, NEW i \in DOMAIN Chain, InitializeCircuit(Chain[i])
  PROVE  ReadInv'
<1> DEFINE c == Chain[i]
           fails == IsInitialized(c) /\ c \in Decoders \cup {"senseAmp"} /\ array.fail = c
<1>1. i \in 1 .. 9 /\ DOMAIN Chain = 1 .. 9
  BY ChainPlaces
<1>3. /\ pc = c
      /\ unset' = unset \cup ((IF IsInitialized(c) THEN Loads(c) ELSE {}) \ written)
      /\ written' = written \cup (IF IsInitialized(c) /\ ~fails THEN {c} ELSE {})
      /\ subarray' = (IF i = Len(Chain)
                      THEN Initialized(IF fails THEN Invalid(subarray) ELSE subarray)
                      ELSE IF fails THEN Invalid(subarray) ELSE subarray)
      /\ pc' = (IF (fails /\ c = "rowDecoder") \/ i = Len(Chain) THEN "afterSubArray"
                ELSE Chain[i + 1])
      /\ UNCHANGED <<call, mat, bank, kept, summary>>
  BY CircuitEffect DEF Effect, Fails
<1>4. Len(Chain) = 9
  BY DEF Chain
<1>5. FieldsKnown /\ \A j \in 1 .. 9 : j < i => IsDone(Chain[j])
  BY <1>1, <1>3 DEF ReadInv, OrderInv
<1>6. pc \in Initializing /\ pc \notin {"summary", "done", "dropped", "evaluated"}
  BY <1>1, <1>3, ChainPlaces DEF Initializing
<1>7. HasFlags(subarray) /\ HasFlags(mat) /\ HasFlags(bank)
  BY <1>6 DEF ReadInv
<1>8. /\ HasFlags(subarray') /\ (fails => subarray'.invalid = TRUE)
      /\ subarray.invalid => subarray'.invalid
  BY <1>3, <1>7, FlagsStay
<1>9. array' = array /\ FieldsKnown' /\ ArrayInv' /\ written \subseteq written'
  BY <1>3, <1>5, <1>6, KnownStays, ArrayStep DEF ReadInv
<1>10. unset' \subseteq KnownExceptions
  BY <1>3, LoadsAreWritten DEF ReadInv
<1>11. IsDone(c)'
  <2>1. CASE IsInitialized(c) /\ ~fails
    BY <1>3, <2>1 DEF IsDone
  <2>2. CASE fails
    BY <1>8, <2>2 DEF IsDone
  <2>3. CASE ~IsInitialized(c)
    BY <1>8, <1>9, <2>3 DEF IsDone, IsInitialized, Decoders
  <2> QED
    BY <2>1, <2>2, <2>3
<1>12. \A j \in 1 .. 9 : j <= i => IsDone(Chain[j])'
  <2>1. \A j \in 1 .. 9 : IsDone(Chain[j]) => IsDone(Chain[j])'
    BY <1>8, <1>9 DEF IsDone
  <2> QED
    BY <1>1, <1>5, <1>11, <2>1
<1>13. CASE i # 9 /\ pc' = Chain[i + 1]
  <2>0. i + 1 \in 1 .. 9
    BY <1>1, <1>13
  <2>1. \A k \in 1 .. 9 : pc' = Chain[k] => k = i + 1
    BY <1>13, <2>0, ChainPlaces
  <2>2. \A k \in 1 .. 9 : pc' = Chain[k] =>
          FieldsKnown' /\ \A j \in 1 .. 9 : j < k => IsDone(Chain[j])'
    BY <1>1, <1>9, <1>12, <2>1
  <2>3. pc' \notin {"sensing", "cells", "afterSubArray", "afterMat", "area", "rc", "latency"}
    BY <1>1, <1>13, ChainPlaces
  <2>4. OrderInv'
    BY <1>1, <2>2, <2>3 DEF OrderInv
  <2> QED
    BY <1>3, <1>7, <1>8, <1>9, <1>10, <2>4 DEF ReadInv, KnownExceptions
<1>14. CASE pc' = "afterSubArray"
  <2>1. ~subarray'.invalid => SubArrayKnown'
    <3>1. SUFFICES ASSUME ~subarray'.invalid PROVE SubArrayKnown'
      OBVIOUS
    <3>2. i = 9
      <4>1. ~fails
        BY <1>8, <3>1
      <4>2. i = 9 \/ (i + 1 \in 1 .. 9 /\ pc' = Chain[i + 1])
        BY <1>1, <1>3, <1>4, <4>1
      <4> QED
        BY <1>14, <4>2, ChainPlaces
    <3>3. \A j \in 1 .. 9 : IsDone(Chain[j])'
      BY <1>12, <3>2
    <3>4. \A d \in OfSubArray : IsDone(d)'
      BY <3>3, ChainPlaces
    <3> QED
      BY <1>9, <3>1, <3>4 DEF SubArrayKnown, IsDone
  <2>2. \A k \in 1 .. 9 : pc' # Chain[k]
    BY <1>14, ChainPlaces
  <2>3. OrderInv'
    BY <1>1, <1>14, <2>1, <2>2 DEF OrderInv
  <2> QED
    BY <1>3, <1>7, <1>8, <1>9, <1>10, <2>3 DEF ReadInv, KnownExceptions
<1> QED
  BY <1>3, <1>4, <1>13, <1>14

\* The way back to the bank: what is legal is complete.
LEMMA WayBack ==
  ASSUME ReadInv, MatAfterSubArray \/ BankAfterMat
  PROVE  ReadInv'
<1>0. /\ pc \in {"afterSubArray", "afterMat"} /\ written \subseteq written'
      /\ UNCHANGED <<call, kept>>
  BY DEF MatAfterSubArray, BankAfterMat, Write
<1>1. ArrayInv'
  BY <1>0, ArrayStep DEF ReadInv, Initializing
<1>2. HasFlags(subarray) /\ HasFlags(mat) /\ HasFlags(bank)
  BY <1>0 DEF ReadInv
<1>3. SubArrayKnown => SubArrayKnown'
  BY <1>0, KnownStays
<1>4. CASE MatAfterSubArray
  <2>1. /\ pc = "afterSubArray" /\ pc' = "afterMat"
        /\ mat' = (IF subarray.invalid \/ array.fail = "rowBits"
                   THEN Initialized(Invalid(mat)) ELSE Initialized(mat))
    BY <1>4 DEF MatAfterSubArray, Refused
  <2>2. HasFlags(mat') /\ (~mat'.invalid => ~subarray.invalid)
    BY <1>2, <2>1, FlagsStay
  <2>3. ~mat'.invalid => SubArrayKnown'
    BY <1>3, <2>1, <2>2 DEF ReadInv, OrderInv
  <2> QED
    BY ChainPlaces, <1>1, <1>2, <1>4, <2>1, <2>2, <2>3
       DEF MatAfterSubArray, ReadInv, OrderInv, KnownExceptions
<1>5. CASE BankAfterMat
  <2> DEFINE global == ~mat.invalid /\ ~array.internalSenseAmp
             tooNarrow == global /\ array.fail = "globalSenseAmp"
  <2>1. /\ pc = "afterMat" /\ pc' = "area"
        /\ bank' = (IF mat.invalid \/ tooNarrow
                    THEN Initialized(Invalid(bank)) ELSE Initialized(bank))
        /\ written' = written \cup (IF global /\ ~tooNarrow
                                    THEN {"globalSenseAmp", "globalBitlineMux"} ELSE {})
    BY <1>5 DEF BankAfterMat, Refused, Write
  <2>2. HasFlags(bank') /\ (~bank'.invalid => ~mat.invalid /\ ~tooNarrow)
    BY <1>2, <2>1, FlagsStay
  <2>3. ~bank'.invalid => BankKnown'
    <3>1. SUFFICES ASSUME ~bank'.invalid PROVE BankKnown'
      OBVIOUS
    <3>2. SubArrayKnown'
      BY <1>3, <2>1, <2>2, <3>1 DEF ReadInv, OrderInv
    <3>3. ~array.internalSenseAmp => {"globalSenseAmp", "globalBitlineMux"} \subseteq written'
      BY <2>1, <2>2, <3>1
    <3>4. array' = array
      BY <1>0, KnownStays
    <3> QED
      BY <3>2, <3>3, <3>4 DEF BankKnown
  <2> QED
    BY ChainPlaces, <1>1, <1>2, <1>5, <2>1, <2>2, <2>3
       DEF BankAfterMat, ReadInv, OrderInv, Evaluable, KnownExceptions
<1> QED
  BY <1>4, <1>5

\* CalculateArea may only refuse; CalculateRC gives the circuits of the mat theirs.
LEMMA AreaAndRC ==
  ASSUME ReadInv, CalculateArea \/ CalculateRC
  PROVE  ReadInv'
<1>0. pc \in {"area", "rc"} /\ written \subseteq written' /\ UNCHANGED <<call, kept>>
  BY DEF CalculateArea, CalculateRC, Write
<1>1. ArrayInv'
  BY <1>0, ArrayStep DEF ReadInv, Initializing
<1>2. HasFlags(subarray) /\ HasFlags(mat) /\ HasFlags(bank)
  BY <1>0 DEF ReadInv
<1>3. BankKnown => BankKnown'
  BY <1>0, KnownStays
<1>4. CASE CalculateArea
  <2>1. bank' \in {bank, Invalid(bank)} /\ pc' = "rc"
    BY <1>4 DEF CalculateArea
  <2>2. HasFlags(bank') /\ (bank' = bank \/ bank'.invalid = TRUE)
    BY <1>2, <2>1, FlagsStay
  <2>3. Evaluable' => BankKnown'
    BY <1>3, <1>4, <2>2 DEF CalculateArea, Evaluable, ReadInv, OrderInv
  <2> QED
    BY ChainPlaces, <1>1, <1>2, <1>4, <2>1, <2>2, <2>3
       DEF CalculateArea, ReadInv, OrderInv, KnownExceptions
<1>5. CASE CalculateRC
  <2>1. pc = "rc" /\ pc' = "latency" /\ UNCHANGED <<call, unset, subarray, mat, bank, kept>>
    BY <1>5 DEF CalculateRC, units
  <2>2. Evaluable' = Evaluable
    BY <2>1 DEF Evaluable
  <2>3. Evaluable' => BankKnown'
    BY <1>3, <2>1, <2>2 DEF ReadInv, OrderInv
  <2>4. Evaluable' => (Predecoders \cup ComparatorsOf(array))' \subseteq written'
    BY <1>5, <2>1, <2>2 DEF CalculateRC, Write, Predecoders, ComparatorsOf, array
  <2> QED
    BY ChainPlaces, <1>1, <1>2, <2>1, <2>3, <2>4
       DEF ReadInv, OrderInv, HasFlags, KnownExceptions
<1> QED
  BY <1>4, <1>5

\* All that latency and power read of a legal bank has a value.
LEMMA UsedIsWritten ==
  ASSUME ReadInv, pc = "latency", Evaluable
  PROVE  FieldsUsed(array) \ written \subseteq KnownExceptions
<1>1. BankKnown /\ Predecoders \cup ComparatorsOf(array) \subseteq written
  BY DEF ReadInv, OrderInv
<1>2. /\ array.accessType = call[1].accessType
      /\ array.cellType \in Resistive \cup {"SRAM", "eDRAM", "SLCNAND"}
  BY ArrayOfCall DEF ReadInv
<1>3. CellFields \subseteq written /\ "senseVoltage" \in written
  BY <1>1 DEF BankKnown, SubArrayKnown, FieldsKnown, CellsKnown
<1>4. {"capBitline", "resBitline", "cellAccess"} \ written \subseteq KnownExceptions
  BY <1>2, <1>3 DEF CellFields, KnownExceptions
<1> DEFINE cells == CASE array.cellType = "eDRAM" -> {"senseVoltage"}
                      [] array.cellType \in {"SRAM", "SLCNAND"} ->
                           {"voltagePrecharge", "senseVoltage"}
                      [] CurrentSense(array) -> {"resMemCell"}
                      [] OTHER -> {IF array.voltageIn THEN "resEquivalent" ELSE "resMemCell",
                                   "voltagePrecharge", "voltageMemCell", "senseVoltage"}
<1>5. cells \subseteq written
  <2>1. CASE array.cellType = "eDRAM"
    BY <1>3, <2>1 DEF CurrentSense, Resistive
  <2>2. CASE array.cellType \in {"SRAM", "SLCNAND"}
    BY <1>3, <2>2 DEF CellFields, CurrentSense, Resistive
  <2>3. CASE array.cellType \in Resistive /\ CurrentSense(array)
    BY <1>3, <2>3 DEF CellFields, CurrentSense, Resistive
  <2>4. CASE array.cellType \in Resistive /\ ~CurrentSense(array)
    BY <1>3, <2>4 DEF CellFields, CurrentSense, Resistive
  <2> QED
    BY <1>2, <2>1, <2>2, <2>3, <2>4
<1>6. (IF array.internalSenseAmp THEN OfSubArray
       ELSE (OfSubArray \ {"senseAmp"}) \cup {"globalSenseAmp", "globalBitlineMux"}) \subseteq written
  BY <1>1 DEF BankKnown, SubArrayKnown
<1> HIDE DEF cells
<1> QED
  BY <1>1, <1>4, <1>5, <1>6 DEF FieldsUsed, cells

\* The bank is evaluated, and kept or not; the next one begins with nothing written.
LEMMA AfterCircuits ==
  ASSUME ReadInv,
         CalculateLatencyAndPower \/ Keep \/ Drop \/ PrintSummary \/ Finished
  PROVE  ReadInv'
<1>1. CASE CalculateLatencyAndPower
  <2>1. /\ pc = "latency" /\ pc' = "evaluated" /\ UNCHANGED <<call, kept>>
        /\ unset' = unset \cup ((IF Evaluable THEN FieldsUsed(array) ELSE {}) \ written)
    BY <1>1 DEF CalculateLatencyAndPower, Read
  <2>2. ArrayInv'
    BY <2>1, ArrayStep DEF ReadInv, Initializing
  <2>3. unset' \subseteq KnownExceptions
    BY <2>1, UsedIsWritten DEF ReadInv
  <2> QED
    BY ChainPlaces, <2>1, <2>2, <2>3 DEF ReadInv, OrderInv, KnownExceptions
<1>2. CASE Keep
  <2>1. /\ pc = "evaluated" /\ kept' = Append(kept, Evaluated) /\ UNCHANGED <<call, unset>>
        /\ \/ /\ Len(kept') < Len(call) /\ pc' = "bank"
              /\ subarray' = NewUnit /\ mat' = NewUnit /\ bank' = NewUnit
           \/ pc' \in {"summary", "done"}
    BY <1>2 DEF Keep
  <2>2. ArrayInv'
    <3>1. CASE pc' \in {"summary", "done"}
      BY <2>1, <3>1 DEF ReadInv, ArrayInv
    <3>2. CASE pc' = "bank" /\ kept = <<>>
      BY <2>1, <3>2, CallsAssumption DEF ReadInv, ArrayInv
    <3>3. CASE pc' = "bank" /\ \E x : kept = <<x>> /\ Len(call) = 2
      BY <2>1, <3>3
    <3> QED
      BY <2>1, <3>1, <3>2, <3>3 DEF ReadInv, ArrayInv
  <2>3. OrderInv'
    BY <2>1, ChainPlaces DEF OrderInv
  <2> QED
    BY <2>1, <2>2, <2>3, NewUnitFlags DEF ReadInv, KnownExceptions
<1>3. CASE Drop \/ PrintSummary
  <2>1. /\ pc' \in {"dropped", "done"} /\ UNCHANGED <<call, unset, kept>>
        /\ pc' = "dropped" => pc = "evaluated"
    BY <1>3 DEF Drop, PrintSummary
  <2>2. ArrayInv'
    BY <2>1 DEF ReadInv, ArrayInv
  <2> QED
    BY ChainPlaces, <2>1, <2>2 DEF ReadInv, OrderInv, KnownExceptions
<1>4. CASE Finished
  <2>1. pc \in {"done", "dropped"} /\ UNCHANGED <<call, pc, unset, kept>>
    BY <1>4 DEF Finished, vars
  <2>2. ArrayInv'
    BY <2>1 DEF ReadInv, ArrayInv
  <2> QED
    BY ChainPlaces, <2>1, <2>2 DEF ReadInv, OrderInv, KnownExceptions
<1> QED
  BY <1>1, <1>2, <1>3, <1>4

LEMMA ReadStep == ReadInv /\ [Next]_vars => ReadInv'
<1> SUFFICES ASSUME ReadInv, [Next]_vars PROVE ReadInv'
  OBVIOUS
<1>1. CASE UNCHANGED vars
  BY <1>1 DEF vars, units, ReadInv, ArrayInv, OrderInv, SubArrayKnown, BankKnown, FieldsKnown,
              CellsKnown, SenseKnown, CellFields, IsDone, Evaluable, ComparatorsOf, HasFlags,
              KnownExceptions, array
<1>2. CASE Next
  BY <1>2, BeforeCircuits, CellStep, CircuitStep, WayBack, AreaAndRC, AfterCircuits DEF Next
<1> QED
  BY <1>1, <1>2

\* For every call that a program can make, no step of the evaluation reads a field
\* or a circuit that has no value yet, but for the two known exceptions: the
\* order of the calls in SubArray::Initialize, Mat::Initialize and the banks.
THEOREM InitializedInOrder == Spec => []NothingUnsetIsRead
<1>1. Init => ReadInv
  BY InitRead
<1>2. ReadInv /\ [Next]_vars => ReadInv'
  BY ReadStep
<1>3. ReadInv => NothingUnsetIsRead
  BY DEF ReadInv, KnownExceptions, NothingUnsetIsRead
<1> QED
  BY <1>1, <1>2, <1>3, PTL DEF Spec

-----------------------------------------------------------------------------
(***************************************************************************)
(* The flags of illegal parts, and the costs of illegal banks.             *)
(***************************************************************************)

\* A unit whose costs have not been calculated.
IsBlank(unit) ==
  /\ UnitType(unit)
  /\ \A field \in DOMAIN FunctionUnit : unit[field] = FunctionUnit[field]

BankDecided == {"area", "rc", "latency", "evaluated"}

RefuseInv ==
  /\ pc \in Initializing => IsBlank(subarray) /\ IsBlank(mat) /\ IsBlank(bank)
  /\ pc = "afterSubArray" => subarray.invalid \/ subarray.initialized
  /\ pc = "afterMat" =>
       /\ mat.initialized /\ (subarray.invalid => mat.invalid)
       /\ ~mat.invalid => subarray.initialized
  /\ pc \in BankDecided => PartsArePassedOn
  /\ pc = "evaluated" => RefusedBankIsInfinite

LEMMA UnitFields ==
  /\ DOMAIN FunctionUnit =
       {"readLatency", "writeLatency", "resetLatency", "setLatency", "readDynamicEnergy",
        "writeDynamicEnergy", "resetDynamicEnergy", "setDynamicEnergy", "leakage",
        "cellReadEnergy", "cellSetEnergy", "cellResetEnergy"}
  /\ "invalid" \notin DOMAIN FunctionUnit /\ "initialized" \notin DOMAIN FunctionUnit
BY DEF FunctionUnit

LEMMA NewUnitIsBlank ==
  IsBlank(NewUnit) /\ NewUnit.invalid = FALSE /\ NewUnit.initialized = FALSE
BY UnitFields DEF IsBlank, UnitType, NewUnit

\* Setting a flag leaves the other flag and the costs alone.
LEMMA FlagsAreSet ==
  ASSUME NEW unit, IsBlank(unit)
  PROVE  /\ IsBlank(Invalid(unit)) /\ Invalid(unit).invalid = TRUE
         /\ Invalid(unit).initialized = unit.initialized
         /\ IsBlank(Initialized(unit)) /\ Initialized(unit).initialized = TRUE
         /\ Initialized(unit).invalid = unit.invalid
         /\ IsBlank(Initialized(Invalid(unit)))
         /\ Initialized(Invalid(unit)).invalid = TRUE
         /\ Initialized(Invalid(unit)).initialized = TRUE
<1>1. ASSUME NEW u, IsBlank(u)
      PROVE  /\ IsBlank(Invalid(u)) /\ Invalid(u).invalid = TRUE
             /\ Invalid(u).initialized = u.initialized
  BY <1>1, UnitFields DEF IsBlank, UnitType, Invalid
<1>2. ASSUME NEW u, IsBlank(u)
      PROVE  /\ IsBlank(Initialized(u)) /\ Initialized(u).initialized = TRUE
             /\ Initialized(u).invalid = u.invalid
  BY <1>2, UnitFields DEF IsBlank, UnitType, Initialized
<1> QED
  BY <1>1, <1>2

LEMMA InitRefuse == Init => RefuseInv
BY NewUnitIsBlank DEF Init, RefuseInv, BankDecided

\* Down to the subarray, and up to its first circuit.
LEMMA DownRefuses ==
  ASSUME RefuseInv,
         BankInitialize \/ MatBeforeSubArray \/ SubArrayLegality \/ SenseVoltage \/ DeriveCells
  PROVE  RefuseInv'
<1>1. pc \in {"bank", "mat", "legality", "sensing", "cells"} /\ pc \in Initializing
  BY DEF BankInitialize, MatBeforeSubArray, SubArrayLegality, SenseVoltage, DeriveCells,
         Initializing
<1>2. IsBlank(subarray) /\ IsBlank(mat) /\ IsBlank(bank)
  BY <1>1 DEF RefuseInv
<1>3. CASE BankInitialize
  <2>1. /\ UNCHANGED <<subarray, mat>> /\ pc' \in {"area", "mat"}
        /\ bank' \in {bank, Invalid(bank), Initialized(Invalid(bank))}
        /\ pc' = "area" => bank' \in {Invalid(bank), Initialized(Invalid(bank))}
    BY <1>3 DEF BankInitialize
  <2>2. IsBlank(bank') /\ (pc' = "area" => bank'.invalid = TRUE)
    BY <1>2, <2>1, FlagsAreSet
  <2> QED
    BY <1>2, <2>1, <2>2 DEF RefuseInv, BankDecided, PartsArePassedOn
<1>4. CASE MatBeforeSubArray
  <2>1. /\ UNCHANGED <<subarray, bank>>
        /\ \/ pc' = "afterMat" /\ mat' = Initialized(Invalid(mat))
           \/ pc' = "legality" /\ mat' = mat
    BY <1>4 DEF MatBeforeSubArray
  <2>2. /\ IsBlank(mat')
        /\ pc' = "afterMat" => mat'.invalid = TRUE /\ mat'.initialized = TRUE
    <3>1. /\ IsBlank(Initialized(Invalid(mat))) /\ Initialized(Invalid(mat)).invalid = TRUE
          /\ Initialized(Invalid(mat)).initialized = TRUE
          /\ IsBlank(Initialized(mat)) /\ Initialized(mat).initialized = TRUE
          /\ IsBlank(Invalid(mat)) /\ Invalid(mat).invalid = TRUE
      BY <1>2, FlagsAreSet
    <3> QED
      BY <1>2, <2>1, <3>1
  <2> QED
    BY <1>2, <2>1, <2>2 DEF RefuseInv, BankDecided
<1>5. CASE SubArrayLegality \/ SenseVoltage \/ DeriveCells
  <2>1. /\ UNCHANGED <<mat, bank>>
        /\ subarray' \in {subarray, Invalid(subarray), Initialized(Invalid(subarray))}
        /\ pc' \in {"afterSubArray", "sensing", "cells", "precharger"}
        /\ pc' = "afterSubArray" => subarray'.invalid
    <3>1. CASE SubArrayLegality
      BY <3>1 DEF SubArrayLegality
    <3>2. CASE SenseVoltage
      <4>1. PICK tooLong \in BOOLEAN :
              /\ subarray' = IF tooLong THEN Initialized(Invalid(subarray)) ELSE subarray
              /\ pc' = IF tooLong THEN "afterSubArray" ELSE "cells"
        BY <3>2 DEF SenseVoltage, Outcomes
      <4>2. tooLong => subarray'.invalid = TRUE
        BY <1>2, <4>1, FlagsAreSet
      <4> QED
        BY <3>2, <4>1, <4>2 DEF SenseVoltage
    <3>3. CASE DeriveCells
      <4>1. PICK noPrecharge \in BOOLEAN :
              /\ subarray' = IF noPrecharge THEN Invalid(subarray) ELSE subarray
              /\ pc' = IF noPrecharge THEN "afterSubArray" ELSE "precharger"
        BY <3>3 DEF DeriveCells
      <4>2. noPrecharge => subarray'.invalid = TRUE
        BY <1>2, <4>1, FlagsAreSet
      <4> QED
        BY <3>3, <4>1, <4>2 DEF DeriveCells
    <3> QED
      BY <1>5, <3>1, <3>2, <3>3
  <2>2. IsBlank(subarray')
    BY <1>2, <2>1, FlagsAreSet
  <2> QED
    BY <1>2, <2>1, <2>2 DEF RefuseInv, BankDecided
<1> QED
  BY <1>3, <1>4, <1>5

\* The chain ends with an illegal subarray or with an initialized one.
LEMMA ChainRefuses ==
  ASSUME RefuseInv, NEW i \in DOMAIN Chain, InitializeCircuit(Chain[i])
  PROVE  RefuseInv'
<1>1. Effect(i, Chain[i])
  BY CircuitEffect
<1>2. i \in 1 .. 9 /\ Len(Chain) = 9 /\ pc \in Initializing
  BY <1>1, ChainPlaces DEF Chain, Effect, Initializing
<1>3. IsBlank(subarray) /\ IsBlank(mat) /\ IsBlank(bank)
  BY <1>2 DEF RefuseInv
<1>4. subarray' \in {subarray, Invalid(subarray), Initialized(subarray),
                     Initialized(Invalid(subarray))}
  BY <1>1 DEF Effect
<1>5. IsBlank(subarray')
  BY <1>3, <1>4, FlagsAreSet
<1>6. UNCHANGED <<mat, bank>>
  BY <1>1 DEF Effect
<1>7. CASE pc' = "afterSubArray"
  <2>1. \/ subarray' \in {Initialized(subarray), Initialized(Invalid(subarray))}
        \/ subarray' = Invalid(subarray)
    <3>1. CASE i = 9
      BY <1>1, <1>2, <3>1 DEF Effect
    <3>2. CASE i # 9
      <4>1. i + 1 \in 1 .. 9
        BY <1>2, <3>2
      <4>2. pc' # Chain[i + 1]
        BY <1>7, <4>1, ChainPlaces
      <4> QED
        BY <1>1, <1>2, <3>2, <4>2 DEF Effect
    <3> QED
      BY <3>1, <3>2
  <2>2. subarray'.invalid = TRUE \/ subarray'.initialized = TRUE
    <3>1. /\ IsBlank(Initialized(Invalid(subarray))) /\ Initialized(Invalid(subarray)).invalid = TRUE
          /\ Initialized(Invalid(subarray)).initialized = TRUE
          /\ IsBlank(Initialized(subarray)) /\ Initialized(subarray).initialized = TRUE
          /\ IsBlank(Invalid(subarray)) /\ Invalid(subarray).invalid = TRUE
      BY <1>3, FlagsAreSet
    <3> QED
      BY <1>3, <2>1, <3>1
  <2> QED
    BY <1>3, <1>5, <1>6, <1>7, <2>2 DEF RefuseInv, BankDecided
<1>8. CASE pc' # "afterSubArray"
  <2>1. pc' = Chain[i + 1] /\ i # 9
    BY <1>1, <1>2, <1>8 DEF Effect
  <2>2. i + 1 \in 1 .. 9
    BY <1>2, <2>1
  <2>3. pc' \notin {"afterSubArray", "afterMat", "area", "rc", "latency", "evaluated"}
    BY <2>1, <2>2, ChainPlaces
  <2> QED
    BY <1>3, <1>5, <1>6, <2>3 DEF RefuseInv, BankDecided
<1> QED
  BY <1>7, <1>8

\* The way up to the bank, its area and its resistances.
LEMMA UpRefuses ==
  ASSUME RefuseInv, MatAfterSubArray \/ BankAfterMat \/ CalculateArea \/ CalculateRC
  PROVE  RefuseInv'
<1>1. pc \in {"afterSubArray", "afterMat", "area", "rc"} /\ pc \in Initializing
  BY DEF MatAfterSubArray, BankAfterMat, CalculateArea, CalculateRC, Initializing
<1>2. IsBlank(subarray) /\ IsBlank(mat) /\ IsBlank(bank)
  BY <1>1 DEF RefuseInv
<1>3. CASE MatAfterSubArray
  <2>1. /\ pc = "afterSubArray" /\ pc' = "afterMat" /\ UNCHANGED <<subarray, bank>>
        /\ \/ mat' = Initialized(Invalid(mat))
           \/ ~subarray.invalid /\ mat' = Initialized(mat)
    BY <1>3 DEF MatAfterSubArray, Refused
  <2>2. subarray.invalid \/ subarray.initialized
    BY <2>1 DEF RefuseInv
  <2>3. /\ IsBlank(mat') /\ mat'.initialized = TRUE
        /\ mat'.invalid = TRUE \/ ~subarray.invalid
    <3>1. /\ IsBlank(Initialized(Invalid(mat))) /\ Initialized(Invalid(mat)).invalid = TRUE
          /\ Initialized(Invalid(mat)).initialized = TRUE
          /\ IsBlank(Initialized(mat)) /\ Initialized(mat).initialized = TRUE
          /\ IsBlank(Invalid(mat)) /\ Invalid(mat).invalid = TRUE
      BY <1>2, FlagsAreSet
    <3> QED
      BY <1>2, <2>1, <3>1
  <2> QED
    BY <1>2, <2>1, <2>2, <2>3 DEF RefuseInv, BankDecided
<1>4. CASE BankAfterMat
  <2>1. /\ pc = "afterMat" /\ pc' = "area" /\ UNCHANGED <<subarray, mat>>
        /\ \/ bank' = Initialized(Invalid(bank))
           \/ ~mat.invalid /\ bank' = Initialized(bank)
    BY <1>4 DEF BankAfterMat, Refused
  <2>2. /\ mat.initialized /\ (subarray.invalid => mat.invalid)
        /\ ~mat.invalid => subarray.initialized
    BY <2>1 DEF RefuseInv
  <2>3. /\ IsBlank(bank') /\ bank'.initialized = TRUE
        /\ bank'.invalid = TRUE \/ ~mat.invalid
    <3>1. /\ IsBlank(Initialized(Invalid(bank))) /\ Initialized(Invalid(bank)).invalid = TRUE
          /\ Initialized(Invalid(bank)).initialized = TRUE
          /\ IsBlank(Initialized(bank)) /\ Initialized(bank).initialized = TRUE
          /\ IsBlank(Invalid(bank)) /\ Invalid(bank).invalid = TRUE
      BY <1>2, FlagsAreSet
    <3> QED
      BY <1>2, <2>1, <3>1
  <2> QED
    BY <1>2, <2>1, <2>2, <2>3 DEF RefuseInv, BankDecided, PartsArePassedOn
<1>5. CASE CalculateArea \/ CalculateRC
  <2>1. /\ pc \in BankDecided /\ pc' \in {"rc", "latency"} /\ UNCHANGED <<subarray, mat>>
        /\ bank' \in {bank, Invalid(bank)}
    BY <1>5 DEF CalculateArea, CalculateRC, BankDecided, units
  <2>2. PartsArePassedOn
    BY <2>1 DEF RefuseInv
  <2>3. IsBlank(bank') /\ (bank' = bank \/ bank'.invalid = TRUE)
    <3>1. /\ IsBlank(Initialized(Invalid(bank))) /\ Initialized(Invalid(bank)).invalid = TRUE
          /\ Initialized(Invalid(bank)).initialized = TRUE
          /\ IsBlank(Initialized(bank)) /\ Initialized(bank).initialized = TRUE
          /\ IsBlank(Invalid(bank)) /\ Invalid(bank).invalid = TRUE
      BY <1>2, FlagsAreSet
    <3> QED
      BY <1>2, <2>1, <3>1
  <2> QED
    BY <1>2, <2>1, <2>2, <2>3 DEF RefuseInv, BankDecided, PartsArePassedOn
<1> QED
  BY <1>3, <1>4, <1>5

\* Calculated costs leave the flags alone.
LEMMA FilledKeepsFlags ==
  ASSUME NEW unit, UnitType(unit), NEW costs, DOMAIN costs \subseteq DOMAIN FunctionUnit
  PROVE  /\ UnitType(Filled(unit, costs))
         /\ Filled(unit, costs).invalid = unit.invalid
         /\ Filled(unit, costs).initialized = unit.initialized
BY UnitFields DEF UnitType, Filled

LEMMA CostFields ==
  ASSUME NEW a
  PROVE  /\ DOMAIN SubArrayLatency(a) \subseteq DOMAIN FunctionUnit
         /\ DOMAIN SubArrayPower(a) \subseteq DOMAIN FunctionUnit
         /\ DOMAIN MatLatency(a) \subseteq DOMAIN FunctionUnit
         /\ DOMAIN MatPower(a) \subseteq DOMAIN FunctionUnit
<1>1. DOMAIN SubArrayLatency(a) \subseteq DOMAIN FunctionUnit
  BY UnitFields DEF SubArrayLatency
<1>2. DOMAIN SubArrayPower(a) \subseteq DOMAIN FunctionUnit
  BY UnitFields DEF SubArrayPower
<1>3. DOMAIN MatLatency(a) \subseteq DOMAIN FunctionUnit
  BY UnitFields DEF MatLatency
<1>4. DOMAIN MatPower(a) \subseteq DOMAIN FunctionUnit
  BY UnitFields DEF MatPower
<1> QED
  BY <1>1, <1>2, <1>3, <1>4

\* What AddMats writes of what is compared.
LEMMA MatsAreAdded ==
  ASSUME NEW a, NEW unit, UnitType(unit), NEW r, NEW m
  PROVE  /\ AddMats(a, unit, r, m).readLatency = Then(r.readLatency, m.readLatency)
         /\ AddMats(a, unit, r, m).writeLatency = Then(r.writeLatency, m.writeLatency)
         /\ AddMats(a, unit, r, m).readDynamicEnergy =
              Plus(r.readDynamicEnergy, Times(ActiveMats(a), m.readDynamicEnergy))
         /\ AddMats(a, unit, r, m).writeDynamicEnergy =
              Plus(r.writeDynamicEnergy, Times(ActiveMats(a), m.writeDynamicEnergy))
         /\ AddMats(a, unit, r, m).leakage =
              Plus(r.leakage, Times(Mats(a), m.leakage))
<1>1. DOMAIN unit = DOMAIN FunctionUnit \cup {"initialized", "invalid"}
  BY DEF UnitType
<1> QED
  BY <1>1, UnitFields DEF AddMats

\* An infinite cost and a mat without costs are infinite.
LEMMA InfiniteIsPositive ==
  ASSUME NEW n \in Int, NEW amount \in Amount, amount["infinite"] > 0
  PROVE  /\ Plus(amount, Nothing)["infinite"] > 0
         /\ Plus(amount, Times(n, Nothing))["infinite"] > 0
         /\ \A path \in Then({amount}, Instant) : path["infinite"] > 0
<1>1. "infinite" \in Parts
  BY DEF Parts
<1>2. amount["infinite"] \in Int /\ Nothing["infinite"] = 0
  BY <1>1 DEF Amount, Nothing
<1>3. Plus(amount, Nothing)["infinite"] > 0
  BY <1>1, <1>2 DEF Plus
<1>4. Times(n, Nothing)["infinite"] = 0
  BY <1>1, <1>2 DEF Times
<1>5. Plus(amount, Times(n, Nothing))["infinite"] > 0
  BY <1>1, <1>2, <1>4 DEF Plus
<1> QED
  BY <1>3, <1>5 DEF Then, Instant

LEMMA InfiniteAmounts ==
  ASSUME NEW a, a.associativity \in Nat \ {0}, Unit % a.associativity = 0
  PROVE  /\ Of("infinite") \in Amount /\ Of("infinite")["infinite"] > 0
         /\ ActiveWires(a, Of("infinite")) \in Amount
         /\ ActiveWires(a, Of("infinite"))["infinite"] > 0
<1>1. "infinite" \in Parts
  BY DEF Parts
<1>2. Of("infinite") \in Amount /\ Of("infinite")["infinite"] = Unit
  BY <1>1, UnitAssumption DEF Of, Amount
<1>3. \A n \in Int, d \in Nat \ {0} : n \div d \in Int
  OBVIOUS
<1>4. Over(Of("infinite"), a.associativity) \in Amount
  BY <1>2, <1>3 DEF Over, Amount
<1>5. Over(Of("infinite"), a.associativity)["infinite"] = Unit \div a.associativity
  BY <1>1, <1>2 DEF Over
<1>6. Unit \div a.associativity > 0
  <2>1. ASSUME NEW u \in Nat \ {0}, NEW d \in Nat \ {0}, u % d = 0 PROVE u \div d > 0
    <3>1. u = d * (u \div d) + (u % d) /\ u \div d \in Int
      OBVIOUS
    <3>2. u \div d >= 0
      OBVIOUS
    <3> QED
      BY <2>1, <3>1, <3>2
  <2> QED
    BY <2>1, UnitAssumption
<1> QED
  BY <1>2, <1>4, <1>5, <1>6, UnitAssumption DEF ActiveWires

LEMMA ArrayCounts ==
  ASSUME ArrayInv, pc \notin {"summary", "done"}
  PROVE  /\ array.associativity \in Nat \ {0} /\ Unit % array.associativity = 0
         /\ ActiveMats(array) \in Int /\ Mats(array) \in Int
<1>1. Len(kept) + 1 \in 1 .. Len(call) /\ call \in Calls
  BY ArrayIsThere
<1>2. /\ array.associativity \in Nat \ {0} /\ Unit % array.associativity = 0
      /\ array.numRowMat \in Nat /\ array.numColumnMat \in Nat
      /\ array.numActiveMatPerRow \in Nat /\ array.numActiveMatPerColumn \in Nat
  BY <1>1, CallsAssumption DEF array
<1> QED
  BY <1>2 DEF ActiveMats, Mats

\* The costs of a bank that is refused before its mats are calculated.
LEMMA RefusedTree ==
  ASSUME NEW a, NEW m, UnitType(bank), bank.initialized, bank.invalid,
         bank' = TreeBank(a, bank, m),
         a.associativity \in Nat \ {0}, Unit % a.associativity = 0
  PROVE  RefusedBankIsInfinite'
<1>1. DOMAIN bank = DOMAIN FunctionUnit \cup {"initialized", "invalid"}
  BY DEF UnitType
<1>2. /\ bank'.readLatency = {Of("infinite")} /\ bank'.writeLatency = {Of("infinite")}
      /\ bank'.readDynamicEnergy = Of("infinite") /\ bank'.writeDynamicEnergy = Of("infinite")
      /\ bank'.leakage = Of("infinite")
  BY <1>1, UnitFields DEF TreeBank, InfiniteCost, Cost
<1> QED
  BY <1>2, InfiniteAmounts DEF RefusedBankIsInfinite

LEMMA RefusedBus ==
  ASSUME NEW a, UnitType(bank), bank.initialized, bank.invalid, IsBlank(mat),
         bank' = BusBank(a, bank, mat),
         a.associativity \in Nat \ {0}, Unit % a.associativity = 0,
         ActiveMats(a) \in Int, Mats(a) \in Int
  PROVE  RefusedBankIsInfinite'
<1> DEFINE r == [InfiniteCost EXCEPT !.writeDynamicEnergy = ActiveWires(a, @)]
<1>1. bank' = AddMats(a, bank, r, mat)
  BY DEF BusBank
<1>2. /\ r.readLatency = {Of("infinite")} /\ r.writeLatency = {Of("infinite")}
      /\ r.readDynamicEnergy = Of("infinite")
      /\ r.writeDynamicEnergy = ActiveWires(a, Of("infinite"))
      /\ r.leakage = Of("infinite")
  BY DEF InfiniteCost, Cost
<1>3. /\ mat.readLatency = Instant /\ mat.writeLatency = Instant
      /\ mat.readDynamicEnergy = Nothing /\ mat.writeDynamicEnergy = Nothing
      /\ mat.leakage = Nothing
  BY DEF IsBlank, FunctionUnit
<1> HIDE DEF r
<1>4. /\ bank'.readLatency = Then({Of("infinite")}, Instant)
      /\ bank'.writeLatency = Then({Of("infinite")}, Instant)
      /\ bank'.readDynamicEnergy = Plus(Of("infinite"), Times(ActiveMats(a), Nothing))
      /\ bank'.writeDynamicEnergy =
           Plus(ActiveWires(a, Of("infinite")), Times(ActiveMats(a), Nothing))
      /\ bank'.leakage = Plus(Of("infinite"), Times(Mats(a), Nothing))
  <2>1. /\ AddMats(a, bank, r, mat).readLatency = Then(r.readLatency, mat.readLatency)
        /\ AddMats(a, bank, r, mat).writeLatency = Then(r.writeLatency, mat.writeLatency)
        /\ AddMats(a, bank, r, mat).readDynamicEnergy =
             Plus(r.readDynamicEnergy, Times(ActiveMats(a), mat.readDynamicEnergy))
        /\ AddMats(a, bank, r, mat).writeDynamicEnergy =
             Plus(r.writeDynamicEnergy, Times(ActiveMats(a), mat.writeDynamicEnergy))
        /\ AddMats(a, bank, r, mat).leakage = Plus(r.leakage, Times(Mats(a), mat.leakage))
    BY MatsAreAdded
  <2> QED
    BY <1>1, <1>2, <1>3, <2>1
<1> QED
  BY <1>4, InfiniteAmounts, InfiniteIsPositive DEF RefusedBankIsInfinite

\* The flags survive the calculation of the costs.
LEMMA BankKeepsFlags ==
  ASSUME NEW a, NEW m, UnitType(bank), bank' \in {TreeBank(a, bank, m), BusBank(a, bank, m)}
  PROVE  bank'.invalid = bank.invalid /\ bank'.initialized = bank.initialized
<1>0. ASSUME NEW r
      PROVE  /\ AddMats(a, bank, r, m).invalid = bank.invalid
             /\ AddMats(a, bank, r, m).initialized = bank.initialized
  <2>1. DOMAIN bank = DOMAIN FunctionUnit \cup {"initialized", "invalid"}
    BY DEF UnitType
  <2> QED
    BY <2>1, UnitFields DEF AddMats
<1>1. CASE bank' = BusBank(a, bank, m)
  <2>1. PICK r : bank' = AddMats(a, bank, r, m)
    BY <1>1 DEF BusBank
  <2> QED
    BY <1>0, <2>1
<1>2. CASE bank' = TreeBank(a, bank, m)
  <2>1. CASE ~bank.initialized
    BY <1>2, <2>1 DEF TreeBank
  <2>2. CASE bank.initialized /\ bank.invalid
    BY <1>2, <2>2, UnitFields DEF TreeBank, UnitType
  <2>3. CASE bank.initialized /\ ~bank.invalid
    <3>1. bank' = AddMats(a, bank, TreeRouting(a), m)
      BY <1>2, <2>3 DEF TreeBank
    <3> QED
      BY <1>0, <3>1
  <2> QED
    BY <2>1, <2>2, <2>3
<1> QED
  BY <1>1, <1>2

LEMMA CostsRefuse ==
  ASSUME RefuseInv, ArrayInv, CalculateLatencyAndPower
  PROVE  RefuseInv'
<1>1. /\ pc = "latency" /\ pc' = "evaluated"
      /\ subarray' = IF Evaluable
                     THEN Filled(Filled(subarray, SubArrayPower(array)), SubArrayLatency(array))
                     ELSE subarray
      /\ mat' = IF Evaluable
                THEN Filled(Filled(mat, MatPower(array)), MatLatency(array)) ELSE mat
      /\ bank' \in {TreeBank(array, bank, mat'), BusBank(array, bank, mat')}
  BY DEF CalculateLatencyAndPower
<1>2. IsBlank(subarray) /\ IsBlank(mat) /\ IsBlank(bank) /\ PartsArePassedOn
  BY <1>1 DEF RefuseInv, Initializing, BankDecided
<1>3. UnitType(subarray) /\ UnitType(mat) /\ UnitType(bank)
  BY <1>2 DEF IsBlank
<1>4. subarray'.invalid = subarray.invalid /\ subarray'.initialized = subarray.initialized
  BY <1>1, <1>3, FilledKeepsFlags, CostFields
<1>5. mat'.invalid = mat.invalid /\ mat'.initialized = mat.initialized
  BY <1>1, <1>3, FilledKeepsFlags, CostFields
<1>6. bank'.invalid = bank.invalid /\ bank'.initialized = bank.initialized
  BY <1>1, <1>3, BankKeepsFlags
<1>7. PartsArePassedOn'
  BY <1>2, <1>4, <1>5, <1>6 DEF PartsArePassedOn
<1>8. RefusedBankIsInfinite'
  <2>1. CASE bank.initialized /\ bank.invalid
    <3>1. mat' = mat
      BY <1>1, <2>1 DEF Evaluable
    <3>2. /\ array.associativity \in Nat \ {0} /\ Unit % array.associativity = 0
          /\ ActiveMats(array) \in Int /\ Mats(array) \in Int
      BY <1>1, ArrayCounts
    <3> QED
      BY <1>1, <1>2, <1>3, <2>1, <3>1, <3>2, RefusedTree, RefusedBus
  <2>2. CASE ~(bank.initialized /\ bank.invalid)
    BY <1>6, <2>2 DEF RefusedBankIsInfinite
  <2> QED
    BY <2>1, <2>2
<1> QED
  BY <1>1, <1>7, <1>8 DEF RefuseInv, Initializing, Chain

\* The next bank begins blank.
LEMMA KeepRefuses ==
  ASSUME RefuseInv, Keep \/ Drop \/ PrintSummary \/ Finished \/ UNCHANGED vars
  PROVE  RefuseInv'
<1>1. CASE Keep
  <2>1. \/ pc' = "bank" /\ subarray' = NewUnit /\ mat' = NewUnit /\ bank' = NewUnit
        \/ pc' \in {"summary", "done"}
    BY <1>1 DEF Keep
  <2> QED
    BY <2>1, NewUnitIsBlank, ChainPlaces DEF RefuseInv, BankDecided, Initializing
<1>2. CASE Drop \/ PrintSummary
  <2>1. pc' \in {"dropped", "done"}
    BY <1>2 DEF Drop, PrintSummary
  <2> QED
    BY <2>1, ChainPlaces DEF RefuseInv, BankDecided, Initializing
<1>3. CASE Finished \/ UNCHANGED vars
  BY <1>3 DEF Finished, vars, units, RefuseInv, PartsArePassedOn, RefusedBankIsInfinite
<1> QED
  BY <1>1, <1>2, <1>3

LEMMA RefuseStep == ReadInv /\ RefuseInv /\ [Next]_vars => RefuseInv'
<1> SUFFICES ASSUME ReadInv, RefuseInv, [Next]_vars PROVE RefuseInv'
  OBVIOUS
<1>1. ArrayInv
  BY DEF ReadInv
<1> QED
  BY <1>1, DownRefuses, ChainRefuses, UpRefuses, CostsRefuse, KeepRefuses DEF Next

-----------------------------------------------------------------------------
(***************************************************************************)
(* The folds of Ledger, by induction over what they fold.                  *)
(***************************************************************************)

\* The operations on amounts are operations.
LEMMA AmountsAdd ==
  ASSUME NEW a \in Amount, NEW b \in Amount
  PROVE  /\ Plus(a, b) \in Amount /\ Minus(a, b) \in Amount
         /\ \A p \in Parts : Plus(a, b)[p] = a[p] + b[p] /\ Minus(a, b)[p] = a[p] - b[p]
BY DEF Amount, Plus, Minus

LEMMA AmountsScale ==
  ASSUME NEW a \in Amount, NEW n \in Int
  PROVE  Times(n, a) \in Amount /\ \A p \in Parts : Times(n, a)[p] = n * a[p]
BY DEF Amount, Times

LEMMA NothingIsAmount == Nothing \in Amount /\ \A p \in Parts : Nothing[p] = 0
BY DEF Amount, Nothing

LEMMA OfIsAmount ==
  ASSUME NEW part
  PROVE  Of(part) \in Amount /\ \A p \in Parts : Of(part)[p] = IF p = part THEN Unit ELSE 0
BY UnitAssumption DEF Amount, Of

\* A latency: the set of its paths.
Paths == SUBSET Amount

LEMMA ThenIsPaths ==
  ASSUME NEW L \in Paths, NEW M \in Paths
  PROVE  Then(L, M) \in Paths
BY AmountsAdd DEF Then, Paths

LEMMA ThenJoins ==
  ASSUME NEW L, NEW M, NEW path \in Then(L, M)
  PROVE  \E a \in L, b \in M : path = Plus(a, b)
BY DEF Then

LEMMA LaterIsPaths ==
  ASSUME NEW L \in Paths, NEW M \in Paths
  PROVE  Later(L, M) \in Paths
BY NothingIsAmount DEF Later, Instant, Paths

\* it is the function that a fold of F over S computes, for each of the folds.
SumBy(it, S, F) ==
  /\ it \in [SUBSET S -> Amount] /\ it[{}] = Nothing
  /\ \A s \in SUBSET S : s # {} => it[s] = Plus(F[Pick(s)], it[s \ {Pick(s)}])
CountBy(it, S, F) ==
  /\ it \in [SUBSET S -> Int] /\ it[{}] = 0
  /\ \A s \in SUBSET S : s # {} => it[s] = F[Pick(s)] + it[s \ {Pick(s)}]
LatestBy(it, S, F) ==
  /\ it \in [SUBSET S -> Paths] /\ it[{}] = Instant
  /\ \A s \in SUBSET S : s # {} => it[s] = Later(F[Pick(s)], it[s \ {Pick(s)}])
AllBy(it, S, F) ==
  /\ it \in [SUBSET S -> Paths] /\ it[{}] = Instant
  /\ \A s \in SUBSET S : s # {} => it[s] = Then(F[Pick(s)], it[s \ {Pick(s)}])

\* Each fold is the last value of a function over the subsets of what is folded.
LEMMA SumFolds ==
  ASSUME NEW S, IsFiniteSet(S), NEW F \in [S -> Amount]
  PROVE  \E it : SumOver(F) = it[S] /\ SumBy(it, S, F)
<1> DEFINE step == [q \in (SUBSET S) \X Amount |->
                      IF q[1] = {} THEN Nothing ELSE Plus(F[Pick(q[1])], q[2])]
           Folds(it) == it = [s \in SUBSET S |-> IF s = {} THEN Nothing
                                ELSE Plus(F[Pick(s)], it[s \ {Pick(s)}])]
<1>1. step \in [(SUBSET S) \X Amount -> Amount]
  <2>1. ASSUME NEW q \in (SUBSET S) \X Amount, q[1] # {} PROVE Plus(F[Pick(q[1])], q[2]) \in Amount
    <3>1. F[Pick(q[1])] \in Amount /\ q[2] \in Amount
      BY <2>1, PickIsIn
    <3> QED
      BY <3>1, AmountsAdd
  <2> QED
    BY <2>1, NothingIsAmount
<1>2. \E it : Folds(it)
  <2>1. PICK it \in [SUBSET S -> Amount] : FoldsTo(it, S, Nothing, step)
    <3> HIDE DEF step
    <3> QED
      BY <1>1, NothingIsAmount, FoldExists
  <2>2. ASSUME NEW s \in SUBSET S, s # {}
        PROVE  step[<<s, it[s \ {Pick(s)}]>>] = Plus(F[Pick(s)], it[s \ {Pick(s)}])
    <3>1. it[s \ {Pick(s)}] \in Amount
      BY <2>1
    <3> QED
      BY <2>2, <3>1
  <2>3. Folds(it)
    <3> HIDE DEF step
    <3> QED
      BY <2>1, <2>2 DEF FoldsTo
  <2> QED
    BY <2>3
<1>3. SumOver(F) = (CHOOSE it : Folds(it))[S]
  BY DEF SumOver, FoldFunction, FoldFunctionOnSet, MapThenFoldSet, Pick
<1>4. PICK it : Folds(it) /\ SumOver(F) = it[S]
  <2> HIDE DEF Folds
  <2> QED
    BY <1>2, <1>3
<1>5. /\ it[{}] = Nothing /\ DOMAIN it = SUBSET S
      /\ \A s \in SUBSET S : s # {} => it[s] = Plus(F[Pick(s)], it[s \ {Pick(s)}])
  BY <1>4
<1>6. it \in [SUBSET S -> Amount]
  <2> DEFINE R == {s \in SUBSET S : it[s] \in Amount}
  <2>1. {} \in R
    BY <1>5, NothingIsAmount
  <2>2. ASSUME NEW s \in SUBSET S, s # {}, s \ {Pick(s)} \in R PROVE s \in R
    <3>1. F[Pick(s)] \in Amount /\ it[s \ {Pick(s)}] \in Amount
      BY <2>2, PickIsIn
    <3> QED
      BY <1>5, <2>2, <3>1, AmountsAdd
  <2>3. \A s \in SUBSET S : s \in R
    <3> HIDE DEF R
    <3> QED
      BY <2>1, <2>2, FoldInduction
  <2>4. it = [s \in SUBSET S |-> it[s]]
    BY <1>4
  <2> QED
    BY <2>3, <2>4
<1> QED
  BY <1>4, <1>5, <1>6 DEF SumBy

LEMMA CountFolds ==
  ASSUME NEW S, IsFiniteSet(S), NEW F, \A x \in S : F[x] \in Int
  PROVE  \E it : CountOf(F, S) = it[S] /\ CountBy(it, S, F)
<1> DEFINE step == [q \in (SUBSET S) \X Int |->
                      IF q[1] = {} THEN 0 ELSE F[Pick(q[1])] + q[2]]
           Folds(it) == it = [s \in SUBSET S |-> IF s = {} THEN 0
                                ELSE F[Pick(s)] + it[s \ {Pick(s)}]]
<1>1. step \in [(SUBSET S) \X Int -> Int]
  <2>1. ASSUME NEW q \in (SUBSET S) \X Int, q[1] # {} PROVE F[Pick(q[1])] + q[2] \in Int
    <3>1. F[Pick(q[1])] \in Int /\ q[2] \in Int
      BY <2>1, PickIsIn
    <3> QED
      BY <3>1
  <2> QED
    BY <2>1
<1>2. \E it : Folds(it)
  <2>1. PICK it \in [SUBSET S -> Int] : FoldsTo(it, S, 0, step)
    <3>1. 0 \in Int
      OBVIOUS
    <3> HIDE DEF step
    <3> QED
      BY <1>1, <3>1, FoldExists, Zenon
  <2>2. ASSUME NEW s \in SUBSET S, s # {}
        PROVE  step[<<s, it[s \ {Pick(s)}]>>] = F[Pick(s)] + it[s \ {Pick(s)}]
    <3>1. it[s \ {Pick(s)}] \in Int
      BY <2>1
    <3> QED
      BY <2>2, <3>1
  <2>3. Folds(it)
    <3> HIDE DEF step
    <3> QED
      BY <2>1, <2>2 DEF FoldsTo
  <2> QED
    BY <2>3
<1>3. CountOf(F, S) = (CHOOSE it : Folds(it))[S]
  BY DEF CountOf, SumFunctionOnSet, FoldFunctionOnSet, MapThenFoldSet, Pick
<1>4. PICK it : Folds(it) /\ CountOf(F, S) = it[S]
  <2> HIDE DEF Folds
  <2> QED
    BY <1>2, <1>3
<1>5. /\ it[{}] = 0 /\ DOMAIN it = SUBSET S
      /\ \A s \in SUBSET S : s # {} => it[s] = F[Pick(s)] + it[s \ {Pick(s)}]
  BY <1>4
<1>6. it \in [SUBSET S -> Int]
  <2> DEFINE R == {s \in SUBSET S : it[s] \in Int}
  <2>1. {} \in R
    BY <1>5
  <2>2. ASSUME NEW s \in SUBSET S, s # {}, s \ {Pick(s)} \in R PROVE s \in R
    <3>1. F[Pick(s)] \in Int /\ it[s \ {Pick(s)}] \in Int
      BY <2>2, PickIsIn
    <3> QED
      BY <1>5, <2>2, <3>1
  <2>3. \A s \in SUBSET S : s \in R
    <3> HIDE DEF R
    <3> QED
      BY <2>1, <2>2, FoldInduction
  <2>4. it = [s \in SUBSET S |-> it[s]]
    BY <1>4
  <2> QED
    BY <2>3, <2>4
<1> QED
  BY <1>4, <1>5, <1>6 DEF CountBy

LEMMA InstantIsPath == Instant \in Paths
BY NothingIsAmount DEF Instant, Paths

LEMMA LatestFolds ==
  ASSUME NEW S, IsFiniteSet(S), NEW F \in [S -> Paths]
  PROVE  \E it : LatestOf(F) = it[S] /\ LatestBy(it, S, F)
<1> DEFINE step == [q \in (SUBSET S) \X Paths |->
                      IF q[1] = {} THEN Instant ELSE Later(F[Pick(q[1])], q[2])]
           Folds(it) == it = [s \in SUBSET S |-> IF s = {} THEN Instant
                                ELSE Later(F[Pick(s)], it[s \ {Pick(s)}])]
<1>1. step \in [(SUBSET S) \X Paths -> Paths]
  <2>1. ASSUME NEW q \in (SUBSET S) \X Paths, q[1] # {} PROVE Later(F[Pick(q[1])], q[2]) \in Paths
    <3>1. F[Pick(q[1])] \in Paths /\ q[2] \in Paths
      BY <2>1, PickIsIn
    <3> QED
      BY <3>1, LaterIsPaths
  <2> QED
    BY <2>1, InstantIsPath
<1>2. \E it : Folds(it)
  <2>1. PICK it \in [SUBSET S -> Paths] : FoldsTo(it, S, Instant, step)
    <3> HIDE DEF step
    <3> QED
      BY <1>1, InstantIsPath, FoldExists
  <2>2. ASSUME NEW s \in SUBSET S, s # {}
        PROVE  step[<<s, it[s \ {Pick(s)}]>>] = Later(F[Pick(s)], it[s \ {Pick(s)}])
    <3>1. it[s \ {Pick(s)}] \in Paths
      BY <2>1
    <3> QED
      BY <2>2, <3>1
  <2>3. Folds(it)
    <3> HIDE DEF step
    <3> QED
      BY <2>1, <2>2 DEF FoldsTo
  <2> QED
    BY <2>3
<1>3. LatestOf(F) = (CHOOSE it : Folds(it))[S]
  BY DEF LatestOf, FoldFunction, FoldFunctionOnSet, MapThenFoldSet, Pick
<1>4. PICK it : Folds(it) /\ LatestOf(F) = it[S]
  <2> HIDE DEF Folds
  <2> QED
    BY <1>2, <1>3
<1>5. /\ it[{}] = Instant /\ DOMAIN it = SUBSET S
      /\ \A s \in SUBSET S : s # {} => it[s] = Later(F[Pick(s)], it[s \ {Pick(s)}])
  BY <1>4
<1>6. it \in [SUBSET S -> Paths]
  <2> DEFINE R == {s \in SUBSET S : it[s] \in Paths}
  <2>1. {} \in R
    BY <1>5, InstantIsPath
  <2>2. ASSUME NEW s \in SUBSET S, s # {}, s \ {Pick(s)} \in R PROVE s \in R
    <3>1. F[Pick(s)] \in Paths /\ it[s \ {Pick(s)}] \in Paths
      BY <2>2, PickIsIn
    <3> QED
      BY <1>5, <2>2, <3>1, LaterIsPaths
  <2>3. \A s \in SUBSET S : s \in R
    <3> HIDE DEF R
    <3> QED
      BY <2>1, <2>2, FoldInduction
  <2>4. it = [s \in SUBSET S |-> it[s]]
    BY <1>4
  <2> QED
    BY <2>3, <2>4
<1> QED
  BY <1>4, <1>5, <1>6 DEF LatestBy

LEMMA AllFold ==
  ASSUME NEW S, IsFiniteSet(S), NEW F \in [S -> Paths]
  PROVE  \E it : ThenAll(F) = it[S] /\ AllBy(it, S, F)
<1> DEFINE step == [q \in (SUBSET S) \X Paths |->
                      IF q[1] = {} THEN Instant ELSE Then(F[Pick(q[1])], q[2])]
           Folds(it) == it = [s \in SUBSET S |-> IF s = {} THEN Instant
                                ELSE Then(F[Pick(s)], it[s \ {Pick(s)}])]
<1>1. step \in [(SUBSET S) \X Paths -> Paths]
  <2>1. ASSUME NEW q \in (SUBSET S) \X Paths, q[1] # {} PROVE Then(F[Pick(q[1])], q[2]) \in Paths
    <3>1. F[Pick(q[1])] \in Paths /\ q[2] \in Paths
      BY <2>1, PickIsIn
    <3> QED
      BY <3>1, ThenIsPaths
  <2> QED
    BY <2>1, InstantIsPath
<1>2. \E it : Folds(it)
  <2>1. PICK it \in [SUBSET S -> Paths] : FoldsTo(it, S, Instant, step)
    <3> HIDE DEF step
    <3> QED
      BY <1>1, InstantIsPath, FoldExists
  <2>2. ASSUME NEW s \in SUBSET S, s # {}
        PROVE  step[<<s, it[s \ {Pick(s)}]>>] = Then(F[Pick(s)], it[s \ {Pick(s)}])
    <3>1. it[s \ {Pick(s)}] \in Paths
      BY <2>1
    <3> QED
      BY <2>2, <3>1
  <2>3. Folds(it)
    <3> HIDE DEF step
    <3> QED
      BY <2>1, <2>2 DEF FoldsTo
  <2> QED
    BY <2>3
<1>3. ThenAll(F) = (CHOOSE it : Folds(it))[S]
  BY DEF ThenAll, FoldFunction, FoldFunctionOnSet, MapThenFoldSet, Pick
<1>4. PICK it : Folds(it) /\ ThenAll(F) = it[S]
  <2> HIDE DEF Folds
  <2> QED
    BY <1>2, <1>3
<1>5. /\ it[{}] = Instant /\ DOMAIN it = SUBSET S
      /\ \A s \in SUBSET S : s # {} => it[s] = Then(F[Pick(s)], it[s \ {Pick(s)}])
  BY <1>4
<1>6. it \in [SUBSET S -> Paths]
  <2> DEFINE R == {s \in SUBSET S : it[s] \in Paths}
  <2>1. {} \in R
    BY <1>5, InstantIsPath
  <2>2. ASSUME NEW s \in SUBSET S, s # {}, s \ {Pick(s)} \in R PROVE s \in R
    <3>1. F[Pick(s)] \in Paths /\ it[s \ {Pick(s)}] \in Paths
      BY <2>2, PickIsIn
    <3> QED
      BY <1>5, <2>2, <3>1, ThenIsPaths
  <2>3. \A s \in SUBSET S : s \in R
    <3> HIDE DEF R
    <3> QED
      BY <2>1, <2>2, FoldInduction
  <2>4. it = [s \in SUBSET S |-> it[s]]
    BY <1>4
  <2> QED
    BY <2>3, <2>4
<1> QED
  BY <1>4, <1>5, <1>6 DEF AllBy


-----------------------------------------------------------------------------
(***************************************************************************)
(* What the folds add up to, when one of the values matters.               *)
(***************************************************************************)

\* Picking from a finite set leaves less of it.
LEMMA PickFrom ==
  ASSUME NEW S, NEW s \in SUBSET S, s # {}
  PROVE  Pick(s) \in s /\ Pick(s) \in S /\ s \ {Pick(s)} \in SUBSET S
BY PickIsIn

\* A part that only one of the amounts counts is counted so often in their sum, and
\* a part that none of them counts is not counted.
LEMMA SumOfOne ==
  ASSUME NEW S, IsFiniteSet(S), NEW F \in [S -> Amount], NEW p \in Parts,
         NEW c, \A x \in S \ {c} : F[x][p] = 0
  PROVE  /\ SumOver(F) \in Amount
         /\ SumOver(F)[p] = IF c \in S THEN F[c][p] ELSE 0
<1>1. PICK it : SumOver(F) = it[S] /\ SumBy(it, S, F)
  BY SumFolds
<1> USE DEF SumBy
<1> DEFINE R == {s \in SUBSET S : it[s][p] = IF c \in s THEN F[c][p] ELSE 0}
<1>2. {} \in R
  BY <1>1, NothingIsAmount
<1>3. ASSUME NEW s \in SUBSET S, s # {}, s \ {Pick(s)} \in R PROVE s \in R
  <2>1. Pick(s) \in s /\ F[Pick(s)] \in Amount /\ it[s \ {Pick(s)}] \in Amount
    BY <1>1, <1>3, PickFrom
  <2>2. it[s][p] = F[Pick(s)][p] + it[s \ {Pick(s)}][p]
    BY <1>1, <1>3, <2>1, AmountsAdd
  <2>3. F[Pick(s)][p] \in Int /\ it[s \ {Pick(s)}][p] \in Int
    BY <2>1 DEF Amount
  <2>4. it[s \ {Pick(s)}][p] = IF c \in s \ {Pick(s)} THEN F[c][p] ELSE 0
    BY <1>3
  <2>5. CASE Pick(s) = c
    BY <2>1, <2>2, <2>3, <2>4, <2>5
  <2>6. CASE Pick(s) # c
    <3>1. F[Pick(s)][p] = 0
      BY <2>1, <2>6
    <3> QED
      BY <2>2, <2>3, <2>4, <2>6, <3>1
  <2> QED
    BY <2>5, <2>6
<1>4. \A s \in SUBSET S : s \in R
  <2> HIDE DEF R
  <2> QED
    BY <1>2, <1>3, FoldInduction
<1> QED
  BY <1>1, <1>4

\* A sum of amounts that are not negative is not negative.
LEMMA SumIsPositive ==
  ASSUME NEW S, IsFiniteSet(S), NEW F \in [S -> Amount], NEW p \in Parts,
         \A x \in S : F[x][p] >= 0
  PROVE  SumOver(F) \in Amount /\ SumOver(F)[p] >= 0
<1>1. PICK it : SumOver(F) = it[S] /\ SumBy(it, S, F)
  BY SumFolds
<1> USE DEF SumBy
<1> DEFINE R == {s \in SUBSET S : it[s][p] >= 0}
<1>2. {} \in R
  BY <1>1, NothingIsAmount
<1>3. ASSUME NEW s \in SUBSET S, s # {}, s \ {Pick(s)} \in R PROVE s \in R
  <2>1. F[Pick(s)] \in Amount /\ it[s \ {Pick(s)}] \in Amount /\ F[Pick(s)][p] >= 0
    BY <1>1, <1>3, PickFrom
  <2>2. it[s][p] = F[Pick(s)][p] + it[s \ {Pick(s)}][p]
    BY <1>1, <1>3, <2>1, AmountsAdd
  <2>3. F[Pick(s)][p] \in Int /\ it[s \ {Pick(s)}][p] \in Int /\ it[s \ {Pick(s)}][p] >= 0
    BY <1>3, <2>1 DEF Amount
  <2> QED
    BY <2>1, <2>2, <2>3
<1>4. \A s \in SUBSET S : s \in R
  <2> HIDE DEF R
  <2> QED
    BY <1>2, <1>3, FoldInduction
<1> QED
  BY <1>1, <1>4

\* The count of parts of which a path has only one.
LEMMA CountOfOne ==
  ASSUME NEW S, IsFiniteSet(S), NEW F, \A x \in S : F[x] \in Int,
         NEW c, \A x \in S \ {c} : F[x] = 0
  PROVE  CountOf(F, S) = IF c \in S THEN F[c] ELSE 0
<1>1. PICK it : CountOf(F, S) = it[S] /\ CountBy(it, S, F)
  BY CountFolds
<1> USE DEF CountBy
<1> DEFINE R == {s \in SUBSET S : it[s] = IF c \in s THEN F[c] ELSE 0}
<1>2. {} \in R
  BY <1>1
<1>3. ASSUME NEW s \in SUBSET S, s # {}, s \ {Pick(s)} \in R PROVE s \in R
  <2>1. /\ Pick(s) \in s /\ F[Pick(s)] \in Int
        /\ it[s] = F[Pick(s)] + it[s \ {Pick(s)}] /\ it[s \ {Pick(s)}] \in Int
        /\ it[s \ {Pick(s)}] = IF c \in s \ {Pick(s)} THEN F[c] ELSE 0
    BY <1>1, <1>3, PickFrom
  <2>2. CASE Pick(s) = c
    BY <2>1, <2>2
  <2>3. CASE Pick(s) # c
    <3>1. F[Pick(s)] = 0
      BY <2>1, <2>3
    <3> QED
      BY <2>1, <2>3, <3>1
  <2> QED
    BY <2>2, <2>3
<1>4. \A s \in SUBSET S : s \in R
  <2> HIDE DEF R
  <2> QED
    BY <1>2, <1>3, FoldInduction
<1> QED
  BY <1>1, <1>4

\* What a maximum leaves of the paths of its terms.
Longest(paths) == IF paths \ Instant = {} THEN Instant ELSE paths \ Instant

LEMMA LatestIsLongest ==
  ASSUME NEW S, IsFiniteSet(S), NEW F \in [S -> Paths]
  PROVE  LatestOf(F) = Longest(UNION {F[x] : x \in S})
<1>1. PICK it : LatestOf(F) = it[S] /\ LatestBy(it, S, F)
  BY LatestFolds
<1> USE DEF LatestBy
<1> DEFINE R == {s \in SUBSET S : it[s] = Longest(UNION {F[x] : x \in s})}
<1>2. {} \in R
  BY <1>1 DEF Longest
<1>3. ASSUME NEW s \in SUBSET S, s # {}, s \ {Pick(s)} \in R PROVE s \in R
  <2> DEFINE c == Pick(s)
             rest == UNION {F[x] : x \in s \ {c}}
  <2>1. c \in s /\ it[s] = Later(F[c], it[s \ {c}]) /\ it[s \ {c}] = Longest(rest)
    BY <1>1, <1>3, PickFrom
  <2>2. UNION {F[x] : x \in s} = F[c] \cup rest
    BY <2>1
  <2> HIDE DEF c, rest
  <2>3. (F[c] \cup Longest(rest)) \ Instant = (F[c] \cup rest) \ Instant
    BY DEF Longest
  <2>4. Later(F[c], Longest(rest)) = Longest(F[c] \cup rest)
    BY <2>3 DEF Later, Longest
  <2>5. it[s] = Longest(UNION {F[x] : x \in s})
    BY <2>1, <2>2, <2>4
  <2> QED
    BY <2>5
<1>4. \A s \in SUBSET S : s \in R
  <2> HIDE DEF R
  <2> QED
    BY <1>2, <1>3, FoldInduction
<1> QED
  BY <1>1, <1>4

\* How often each path of a latency counts a part.
Counts(latency, p, n) == \A path \in latency : path[p] = n

\* A part that only one of the latencies counts, in each of its paths.
LEMMA AllOfOne ==
  ASSUME NEW S, IsFiniteSet(S), NEW F \in [S -> Paths], NEW p \in Parts, NEW n \in Int,
         NEW c, \A x \in S \ {c} : Counts(F[x], p, 0), c \in S => Counts(F[c], p, n)
  PROVE  Counts(ThenAll(F), p, IF c \in S THEN n ELSE 0)
<1>1. PICK it : ThenAll(F) = it[S] /\ AllBy(it, S, F)
  BY AllFold
<1> USE DEF AllBy
<1> DEFINE R == {s \in SUBSET S : Counts(it[s], p, IF c \in s THEN n ELSE 0)}
<1>2. {} \in R
  BY <1>1, NothingIsAmount DEF Counts, Instant
<1>3. ASSUME NEW s \in SUBSET S, s # {}, s \ {Pick(s)} \in R PROVE s \in R
  <2>1. /\ Pick(s) \in s /\ F[Pick(s)] \in Paths /\ it[s \ {Pick(s)}] \in Paths
        /\ it[s] = Then(F[Pick(s)], it[s \ {Pick(s)}])
        /\ Counts(it[s \ {Pick(s)}], p, IF c \in s \ {Pick(s)} THEN n ELSE 0)
    BY <1>1, <1>3, PickFrom
  <2>2. Counts(F[Pick(s)], p, IF Pick(s) = c THEN n ELSE 0)
    BY <2>1, PickFrom
  <2>3. ASSUME NEW path \in it[s] PROVE path[p] = IF c \in s THEN n ELSE 0
    <3>1. PICK a \in F[Pick(s)], b \in it[s \ {Pick(s)}] : path = Plus(a, b)
      <4>1. path \in Then(F[Pick(s)], it[s \ {Pick(s)}])
        BY <2>1, <2>3
      <4> QED
        BY <4>1, ThenJoins
    <3>2. a \in Amount /\ b \in Amount
      BY <2>1, <3>1 DEF Paths
    <3>3. path[p] = a[p] + b[p]
      BY <3>1, <3>2, AmountsAdd
    <3>4. a[p] = IF Pick(s) = c THEN n ELSE 0
      BY <2>2, <3>1 DEF Counts
    <3>5. b[p] = IF c \in s \ {Pick(s)} THEN n ELSE 0
      BY <2>1, <3>1 DEF Counts
    <3> QED
      BY <2>1, <3>3, <3>4, <3>5
  <2> QED
    BY <2>3 DEF Counts
<1>4. \A s \in SUBSET S : s \in R
  <2> HIDE DEF R
  <2> QED
    BY <1>2, <1>3, FoldInduction
<1> QED
  BY <1>1, <1>4

\* One latency after the other, or side by side.
LEMMA ThenCounts ==
  ASSUME NEW L \in Paths, NEW M \in Paths, NEW p \in Parts, NEW m, NEW n,
         Counts(L, p, m), Counts(M, p, n)
  PROVE  Counts(Then(L, M), p, m + n)
BY AmountsAdd DEF Paths, Then, Counts

LEMMA LaterCounts ==
  ASSUME NEW L \in Paths, NEW M \in Paths, NEW p \in Parts, Counts(L, p, 0), Counts(M, p, 0)
  PROVE  Counts(Later(L, M), p, 0)
BY NothingIsAmount DEF Later, Counts, Instant


-----------------------------------------------------------------------------
(***************************************************************************)
(* The circuits and their costs.                                           *)
(***************************************************************************)

\* What CallsAssumption says of one array.
IsArray(a) ==
  /\ a.associativity \in Nat \ {0} /\ Unit % a.associativity = 0
  /\ Mats(a) \in Nat /\ ActiveMats(a) \in Nat
  /\ a.numColumnMat \in Nat
  /\ a.numActiveMatPerRow \in Nat /\ a.numActiveMatPerColumn \in Nat
  /\ a.numWay \in Nat /\ a.subarrays \in Nat /\ a.activeSubarrays \in Nat
  /\ a.rowBits \in Nat /\ a.muxBits \in [Muxes -> 0 .. 30]
  /\ a.addressBits \in Nat /\ a.dataBits \in Nat
  /\ a.levels \in Seq([bits : Nat, active : Nat, sum : Nat])
  /\ a.cellType \in Resistive \cup {"SRAM", "eDRAM", "SLCNAND"}
  /\ a.tree => a.internalSenseAmp
  /\ a.fail # "matPartition" => \E role \in DOMAIN BlocksOf : AddressBitsOf(a, role) > 0

\* Every circuit is a part of its own kind.
LEMMA KindsOfParts ==
  /\ Predecoders \cup Decoders \cup Muxes \cup Converters \cup Bitlines \cup Pulses \subseteq Parts
  /\ {"precharger", "senseAmp", "comparator", "globalBitlineMux", "globalSenseAmp",
      "globalComparator", "charge", "infinite", "wire", "globalBitline", "cell"} \subseteq Parts
  /\ OfSubArray = Decoders \cup Muxes \cup {"precharger", "senseAmp"}
  /\ Predecoders \cap (OfSubArray \cup Converters \cup {"comparator", "cell"}) = {}
  /\ Decoders \cap (Muxes \cup Converters \cup {"precharger", "senseAmp", "comparator", "cell"}) = {}
  /\ Muxes \cap (Converters \cup {"precharger", "senseAmp", "comparator", "cell"}) = {}
  /\ Converters = {"ivConverter", "globalIvConverter"}
BY DEF Parts, AllCircuits, OfSubArray, OfMat, OfBank, Predecoders, MuxDecoders, Decoders, Muxes,
       Converters, Bitlines, Pulses, Cells, Routes

LEMMA CircuitsAreFinite ==
  /\ IsFiniteSet(Predecoders) /\ IsFiniteSet(MuxDecoders) /\ IsFiniteSet(Decoders)
  /\ IsFiniteSet(Muxes) /\ IsFiniteSet(OfSubArray) /\ IsFiniteSet(Bitlines)
  /\ IsFiniteSet(Converters)
<1>1. ASSUME NEW x, NEW y, NEW z PROVE IsFiniteSet({x, y, z})
  <2>1. IsFiniteSet({x}) /\ IsFiniteSet({y, z})
    <3>1. {y, z} = {y} \cup {z}
      OBVIOUS
    <3>2. IsFiniteSet({x}) /\ IsFiniteSet({y}) /\ IsFiniteSet({z})
      BY FS_Singleton
    <3>3. IsFiniteSet({y} \cup {z})
      BY <3>2, FS_Union
    <3> QED
      BY <3>1, <3>2, <3>3
  <2>2. {x, y, z} = {x} \cup {y, z}
    OBVIOUS
  <2> QED
    BY <2>1, <2>2, FS_Union
<1>2. IsFiniteSet(MuxDecoders) /\ IsFiniteSet(Muxes) /\ IsFiniteSet(Bitlines)
  BY <1>1 DEF MuxDecoders, Muxes, Bitlines
<1>3. IsFiniteSet(Decoders)
  BY <1>2, FS_Singleton, FS_Union DEF Decoders
<1>4. IsFiniteSet({"precharger", "senseAmp"}) /\ IsFiniteSet(Converters)
  <2>1. ASSUME NEW x, NEW y PROVE IsFiniteSet({x, y})
    <3>1. {x, y} = {x, y, y}
      OBVIOUS
    <3> QED
      BY <1>1, <3>1
  <2> QED
    BY <2>1 DEF Converters
<1>5. IsFiniteSet(OfSubArray)
  BY <1>2, <1>3, <1>4, FS_Union DEF OfSubArray
<1>6. IsFiniteSet(Predecoders)
  <2> DEFINE A == {"rowPredecoderBlock1", "rowPredecoderBlock2", "bitlineMuxPredecoderBlock1"}
             B == {"bitlineMuxPredecoderBlock2", "senseAmpMuxLev1PredecoderBlock1",
                   "senseAmpMuxLev1PredecoderBlock2"}
             C == {"senseAmpMuxLev2PredecoderBlock1", "senseAmpMuxLev2PredecoderBlock2",
                   "senseAmpMuxLev2PredecoderBlock2"}
  <2>1. IsFiniteSet(A) /\ IsFiniteSet(B) /\ IsFiniteSet(C)
    BY <1>1, Zenon
  <2>2. Predecoders = (A \cup B) \cup C
    BY DEF Predecoders
  <2> QED
    BY <2>1, <2>2, FS_Union
<1> QED
  BY <1>2, <1>3, <1>4, <1>5, <1>6

\* A circuit counts itself, in everything that Symmetric names.
LEMMA SymmetricCosts ==
  ASSUME NEW c
  PROVE  LET u == Symmetric(c)
         IN  /\ u.readLatency = {Of(c)} /\ u.writeLatency = {Of(c)}
             /\ u.readDynamicEnergy = Of(c) /\ u.writeDynamicEnergy = Of(c) /\ u.leakage = Of(c)
BY DEF Symmetric, Cost

LEMMA NoCosts ==
  /\ NoCost.readLatency = Instant /\ NoCost.writeLatency = Instant
  /\ NoCost.readDynamicEnergy = Nothing /\ NoCost.writeDynamicEnergy = Nothing
  /\ NoCost.leakage = Nothing
BY DEF NoCost, Cost

LEMMA MuxCosts ==
  ASSUME NEW c, NEW n
  PROVE  LET u == MuxCost(c, n)
         IN  IF n > 1
             THEN /\ u.readLatency = {Of(c)} /\ u.writeLatency = {Of(c)}
                  /\ u.readDynamicEnergy = Of(c) /\ u.writeDynamicEnergy = Of(c)
                  /\ u.leakage = Nothing
             ELSE /\ u.readLatency = Instant /\ u.writeLatency = Instant
                  /\ u.readDynamicEnergy = Nothing /\ u.writeDynamicEnergy = Nothing
                  /\ u.leakage = Nothing
BY NoCosts DEF MuxCost, Cost

\* What a sense amplifier counts, with the converter in front of it.
Amplified(c, converter, currentSense) ==
  IF currentSense THEN Plus(Of(c), Of(converter)) ELSE Of(c)

LEMMA SenseAmpCosts ==
  ASSUME NEW c, NEW converter, NEW currentSense
  PROVE  LET u == SenseAmpCost(c, converter, currentSense)
             amp == Amplified(c, converter, currentSense)
         IN  /\ u.readLatency = {amp} /\ u.writeLatency = Instant
             /\ u.readDynamicEnergy = amp /\ u.writeDynamicEnergy = Nothing
             /\ u.leakage = amp
BY DEF SenseAmpCost, Cost, Amplified

LEMMA AmplifiedCounts ==
  ASSUME NEW c, NEW converter, NEW currentSense
  PROVE  /\ Amplified(c, converter, currentSense) \in Amount
         /\ \A p \in Parts : Amplified(c, converter, currentSense)[p]
              = (IF p = c THEN Unit ELSE 0)
                + (IF currentSense /\ p = converter THEN Unit ELSE 0)
BY OfIsAmount, AmountsAdd, UnitAssumption DEF Amplified

LEMMA PrechargerCosts ==
  /\ PrechargerCost.readLatency = {Of("precharger")}
  /\ PrechargerCost.writeLatency = {Of("precharger")}
  /\ PrechargerCost.readDynamicEnergy = Of("precharger")
  /\ PrechargerCost.writeDynamicEnergy = Nothing
  /\ PrechargerCost.leakage = Of("precharger")
BY DEF PrechargerCost, Cost

\* The unit of each circuit of the subarray.
LEMMA UnitsOf ==
  ASSUME NEW a
  PROVE  /\ \A c \in Decoders : UnitOf(a, c) = Symmetric(c)
         /\ \A c \in Muxes : UnitOf(a, c) = MuxCost(c, 2 ^ a.muxBits[c])
         /\ UnitOf(a, "precharger") = PrechargerCost
         /\ UnitOf(a, "senseAmp") = IF a.internalSenseAmp
                                    THEN SenseAmpCost("senseAmp", "ivConverter", CurrentSense(a))
                                    ELSE NoCost
<1>1. \A c \in Decoders : UnitOf(a, c) = Symmetric(c)
  BY KindsOfParts DEF UnitOf, RowDecoderCost
<1>2. \A c \in Muxes : UnitOf(a, c) = MuxCost(c, 2 ^ a.muxBits[c])
  BY KindsOfParts DEF UnitOf
<1>3. /\ "precharger" \notin Decoders \cup Muxes /\ "senseAmp" \notin Decoders \cup Muxes
  BY KindsOfParts
<1>4. UnitOf(a, "precharger") = PrechargerCost
  BY <1>3 DEF UnitOf
<1>5. UnitOf(a, "senseAmp") = IF a.internalSenseAmp
                              THEN SenseAmpCost("senseAmp", "ivConverter", CurrentSense(a))
                              ELSE NoCost
  BY <1>3 DEF UnitOf
<1> QED
  BY <1>1, <1>2, <1>4, <1>5

-----------------------------------------------------------------------------
(***************************************************************************)
(* Leakage.                                                                *)
(***************************************************************************)

LEMMA CircuitLeaks ==
  ASSUME NEW a, NEW c \in OfSubArray
  PROVE  /\ UnitOf(a, c).leakage \in Amount
         /\ \A p \in Parts : UnitOf(a, c).leakage[p] =
              CASE c \in Decoders \cup {"precharger"} -> IF p = c THEN Unit ELSE 0
                [] c = "senseAmp" /\ a.internalSenseAmp ->
                     IF p = c \/ (CurrentSense(a) /\ p = "ivConverter") THEN Unit ELSE 0
                [] OTHER -> 0
<1>1. CASE c \in Decoders
  <2>1. UnitOf(a, c).leakage = Of(c)
    BY <1>1, UnitsOf, SymmetricCosts
  <2>2. c # "senseAmp"
    BY <1>1, KindsOfParts
  <2> QED
    BY <1>1, <2>1, <2>2, OfIsAmount
<1>2. CASE c \in Muxes
  <2>1. UnitOf(a, c).leakage = Nothing
    <3>1. UnitOf(a, c) = MuxCost(c, 2 ^ a.muxBits[c])
      BY <1>2, UnitsOf
    <3>2. MuxCost(c, 2 ^ a.muxBits[c]).leakage = Nothing
      BY MuxCosts, Zenon
    <3> QED
      BY <3>1, <3>2
  <2>2. c \notin Decoders \cup {"precharger", "senseAmp"}
    BY <1>2, KindsOfParts
  <2> QED
    BY <2>1, <2>2, NothingIsAmount
<1>3. CASE c = "precharger"
  BY <1>3, UnitsOf, PrechargerCosts, OfIsAmount
<1>4. CASE c = "senseAmp"
  <2>1. c \notin Decoders \cup {"precharger"}
    BY <1>4, KindsOfParts
  <2>2. CASE a.internalSenseAmp
    <3>1. UnitOf(a, c).leakage = Amplified("senseAmp", "ivConverter", CurrentSense(a))
      BY <1>4, <2>2, UnitsOf, SenseAmpCosts
    <3> QED
      BY <1>4, <2>1, <2>2, <3>1, AmplifiedCounts, UnitAssumption
  <2>3. CASE ~a.internalSenseAmp
    <3>1. UnitOf(a, c).leakage = Nothing
      BY <1>4, <2>3, UnitsOf, NoCosts
    <3> QED
      BY <1>4, <2>1, <2>3, <3>1, NothingIsAmount
  <2> QED
    BY <2>2, <2>3
<1> QED
  BY <1>1, <1>2, <1>3, <1>4, KindsOfParts

\* How often a subarray counts the leakage of a part.
SubArrayLeaks(a, p) ==
  CASE p \in Decoders \cup {"precharger"} -> Unit
    [] p = "senseAmp" /\ a.internalSenseAmp -> Unit
    [] p = "ivConverter" /\ a.internalSenseAmp /\ CurrentSense(a) -> Unit
    [] OTHER -> 0

LEMMA SubArrayLeakage ==
  ASSUME NEW a
  PROVE  /\ SubArrayPower(a).leakage \in Amount
         /\ \A p \in Parts \ {"cell"} : SubArrayPower(a).leakage[p] = SubArrayLeaks(a, p)
<1> DEFINE F == [c \in OfSubArray |-> UnitOf(a, c).leakage]
<1>1. F \in [OfSubArray -> Amount]
  BY CircuitLeaks
<1>2. ASSUME NEW p \in Parts PROVE /\ Leakage(a, OfSubArray) \in Amount
                                   /\ Leakage(a, OfSubArray)[p] = SubArrayLeaks(a, p)
  <2> DEFINE c == IF p = "ivConverter" THEN "senseAmp" ELSE p
  <2>1. \A x \in OfSubArray : F[x] = UnitOf(a, x).leakage
    OBVIOUS
  <2>2. Leakage(a, OfSubArray) = SumOver(F)
    BY DEF Leakage
  <2> HIDE DEF F
  <2>3. \A x \in OfSubArray \ {c} : F[x][p] = 0
    <3>1. ASSUME NEW x \in OfSubArray \ {c} PROVE UnitOf(a, x).leakage[p] = 0
      <4>1. UnitOf(a, x).leakage[p] =
              CASE x \in Decoders \cup {"precharger"} -> IF p = x THEN Unit ELSE 0
                [] x = "senseAmp" /\ a.internalSenseAmp ->
                     IF p = x \/ (CurrentSense(a) /\ p = "ivConverter") THEN Unit ELSE 0
                [] OTHER -> 0
        BY CircuitLeaks
      <4>2. x \notin Decoders \cup {"precharger"} \/ x # "senseAmp"
        BY KindsOfParts
      <4>3. x \in Decoders \cup {"precharger"} => p # x
        BY KindsOfParts
      <4> QED
        BY <4>1, <4>2, <4>3
    <3> QED
      BY <2>1, <3>1
  <2>4. SumOver(F) \in Amount /\ SumOver(F)[p] = IF c \in OfSubArray THEN F[c][p] ELSE 0
    <3> HIDE DEF c
    <3> QED
      BY <1>1, <2>3, SumOfOne, CircuitsAreFinite
  <2>5. (IF c \in OfSubArray THEN F[c][p] ELSE 0) = SubArrayLeaks(a, p)
    BY <2>1, CircuitLeaks, KindsOfParts DEF SubArrayLeaks
  <2> QED
    BY <2>2, <2>4, <2>5
<1>3. /\ CellLeakage(a) \in Amount
      /\ \A p \in Parts \ {"cell"} : CellLeakage(a)[p] = 0
  BY OfIsAmount, NothingIsAmount DEF CellLeakage
<1>4. SubArrayPower(a).leakage = Plus(CellLeakage(a), Leakage(a, OfSubArray))
  BY DEF SubArrayPower
<1>5. \A p \in Parts : SubArrayLeaks(a, p) \in Int
  BY UnitAssumption DEF SubArrayLeaks
<1>6. Parts # {}
  BY KindsOfParts
<1>7. Leakage(a, OfSubArray) \in Amount
  BY <1>2, <1>6
<1> QED
  BY <1>2, <1>3, <1>4, <1>5, <1>7, AmountsAdd

\* The bits that a predecoder block decodes.
LEMMA BlockBits ==
  ASSUME NEW a, IsArray(a), NEW block \in Predecoders
  PROVE  NumAddressBit(a, block) \in Nat
<1> DEFINE role == CHOOSE r \in DOMAIN BlocksOf : \E i \in {1, 2} : BlocksOf[r][i] = block
           bits == AddressBitsOf(a, role)
           second == IF bits > 3 THEN bits \div 2 ELSE 0
<1>1. DOMAIN BlocksOf = {"row", "bitlineMux", "senseAmpMuxLev1", "senseAmpMuxLev2"}
  BY DEF BlocksOf
<1>2. \E r \in DOMAIN BlocksOf : \E i \in {1, 2} : BlocksOf[r][i] = block
  BY DEF Predecoders, BlocksOf
<1>3. role \in DOMAIN BlocksOf
  BY <1>2
<1>4. bits \in Nat
  <2>1. role = "row" \/ role \in Muxes
    BY <1>1, <1>3 DEF Muxes
  <2> HIDE DEF role
  <2>2. a.rowBits \in Nat /\ \A m \in Muxes : a.muxBits[m] \in 0 .. 30
    BY DEF IsArray
  <2> QED
    BY <2>1, <2>2 DEF AddressBitsOf
<1>5. NumAddressBit(a, block) \in {bits - second, second}
  BY DEF NumAddressBit
<1> HIDE DEF bits
<1>6. second \in Nat /\ second <= bits
  BY <1>4
<1> QED
  BY <1>4, <1>5, <1>6

\* A predecoder block counts itself, unless it has nothing to decode.
LEMMA BlockCosts ==
  ASSUME NEW a, IsArray(a), NEW block \in Predecoders
  PROVE  LET u == PredecoderOf(a, block)
         IN  IF NumAddressBit(a, block) > 0 THEN u = Symmetric(block) ELSE u = NoCost
BY BlockBits DEF PredecoderOf, PredecodeBlockCost

LEMMA PredecodersLeak ==
  ASSUME NEW a, IsArray(a)
  PROVE  /\ PredecoderLeakage(a) \in Amount
         /\ \A p \in Parts : PredecoderLeakage(a)[p] =
              IF p \in Predecoders /\ NumAddressBit(a, p) > 0 THEN Unit ELSE 0
<1> DEFINE F == [b \in Predecoders |-> PredecoderOf(a, b).leakage]
<1>1. ASSUME NEW b \in Predecoders
      PROVE  F[b] = IF NumAddressBit(a, b) > 0 THEN Of(b) ELSE Nothing
  BY BlockCosts, SymmetricCosts, NoCosts
<1>2. PredecoderLeakage(a) = SumOver(F)
  BY DEF PredecoderLeakage
<1>3. DOMAIN F = Predecoders /\ F = [b \in Predecoders |-> F[b]]
  OBVIOUS
<1> HIDE DEF F
<1>4. F \in [Predecoders -> Amount]
  BY <1>1, <1>3, OfIsAmount, NothingIsAmount
<1>5. ASSUME NEW p \in Parts
      PROVE  /\ SumOver(F) \in Amount
             /\ SumOver(F)[p] = IF p \in Predecoders /\ NumAddressBit(a, p) > 0 THEN Unit ELSE 0
  <2>1. \A x \in Predecoders \ {p} : F[x][p] = 0
    BY <1>1, OfIsAmount, NothingIsAmount
  <2>2. /\ SumOver(F) \in Amount
        /\ SumOver(F)[p] = IF p \in Predecoders THEN F[p][p] ELSE 0
    BY <1>4, <2>1, SumOfOne, CircuitsAreFinite
  <2> QED
    BY <1>1, <2>2, OfIsAmount, NothingIsAmount
<1>6. Parts # {}
  BY KindsOfParts
<1> QED
  BY <1>2, <1>5, <1>6

LEMMA MatLeaks ==
  ASSUME NEW a, IsArray(a)
  PROVE  /\ MatLeakage(a) \in Amount
         /\ \A p \in Parts \ {"cell"} : MatLeakage(a)[p] =
              (IF p \in Predecoders /\ NumAddressBit(a, p) > 0 THEN Unit ELSE 0)
                + (a.subarrays * SubArrayLeaks(a, p)
                   + (IF p = "comparator" /\ HasComparator(a) THEN a.numWay * Unit ELSE 0))
<1> DEFINE pre == PredecoderLeakage(a)
           sub == SubArrayPower(a).leakage
           cmp == Comparators(a, ComparatorCost("comparator").leakage)
<1>1. MatLeakage(a) = Plus(pre, Plus(Times(a.subarrays, sub), cmp))
  BY DEF MatLeakage
<1>2. /\ pre \in Amount
      /\ \A p \in Parts : pre[p] = IF p \in Predecoders /\ NumAddressBit(a, p) > 0 THEN Unit ELSE 0
  BY PredecodersLeak
<1>3. sub \in Amount /\ \A p \in Parts \ {"cell"} : sub[p] = SubArrayLeaks(a, p)
  BY SubArrayLeakage
<1>4. a.subarrays \in Int /\ a.numWay \in Int
  BY DEF IsArray
<1>5. /\ cmp \in Amount
      /\ \A p \in Parts : cmp[p] = IF p = "comparator" /\ HasComparator(a) THEN a.numWay * Unit ELSE 0
  <2>1. ComparatorCost("comparator").leakage = Of("comparator")
    BY SymmetricCosts DEF ComparatorCost
  <2>2. CASE HasComparator(a)
    <3>1. cmp = Times(a.numWay, Of("comparator"))
      BY <2>1, <2>2 DEF Comparators
    <3>2. a.numWay * 0 = 0
      BY <1>4
    <3> QED
      BY <1>4, <2>2, <3>1, <3>2, OfIsAmount, AmountsScale
  <2>3. CASE ~HasComparator(a)
    BY <2>3, NothingIsAmount DEF Comparators
  <2> QED
    BY <2>2, <2>3
<1> HIDE DEF pre, sub, cmp
<1>6. /\ Times(a.subarrays, sub) \in Amount
      /\ \A p \in Parts : Times(a.subarrays, sub)[p] = a.subarrays * sub[p]
  BY <1>3, <1>4, AmountsScale
<1>7. /\ Plus(Times(a.subarrays, sub), cmp) \in Amount
      /\ \A p \in Parts : Plus(Times(a.subarrays, sub), cmp)[p] = a.subarrays * sub[p] + cmp[p]
  BY <1>5, <1>6, AmountsAdd
<1>8. /\ MatLeakage(a) \in Amount
      /\ \A p \in Parts : MatLeakage(a)[p] = pre[p] + (a.subarrays * sub[p] + cmp[p])
  BY <1>1, <1>2, <1>7, AmountsAdd
<1> QED
  BY <1>2, <1>3, <1>5, <1>8

-----------------------------------------------------------------------------
(***************************************************************************)
(* Amounts of some parts only.                                             *)
(***************************************************************************)

\* The energies and leakages that count parts of S only, none of them negatively.
Charged(S) == {x \in Amount : Only(x, S) /\ AtLeast(x, Nothing)}

LEMMA ChargedIsNatural ==
  ASSUME NEW S, NEW x \in Charged(S)
  PROVE  x \in Amount /\ \A p \in Parts : x[p] \in Nat /\ (p \notin S => x[p] = 0)
<1>1. x \in Amount
  BY DEF Charged
<1>2. ASSUME NEW p \in Parts PROVE x[p] \in Nat
  <2>1. x[p] \in Int
    BY <1>1 DEF Amount
  <2>2. x[p] >= 0
    BY NothingIsAmount DEF Charged, AtLeast
  <2> QED
    BY <2>1, <2>2
<1> QED
  BY <1>1, <1>2 DEF Charged, Only

LEMMA NaturalIsCharged ==
  ASSUME NEW S, NEW x \in Amount, \A p \in Parts : x[p] \in Nat /\ (p \notin S => x[p] = 0)
  PROVE  x \in Charged(S)
BY NothingIsAmount DEF Charged, Only, AtLeast

LEMMA ChargedOf ==
  ASSUME NEW S, NEW part \in S
  PROVE  Of(part) \in Charged(S)
BY OfIsAmount, UnitAssumption, NaturalIsCharged

LEMMA ChargedNothing == ASSUME NEW S PROVE Nothing \in Charged(S)
BY NothingIsAmount, NaturalIsCharged

LEMMA ChargedPlus ==
  ASSUME NEW S, NEW x \in Charged(S), NEW y \in Charged(S)
  PROVE  Plus(x, y) \in Charged(S)
<1>1. /\ x \in Amount /\ \A p \in Parts : x[p] \in Nat /\ (p \notin S => x[p] = 0)
      /\ y \in Amount /\ \A p \in Parts : y[p] \in Nat /\ (p \notin S => y[p] = 0)
  BY ChargedIsNatural
<1>2. Plus(x, y) \in Amount /\ \A p \in Parts : Plus(x, y)[p] = x[p] + y[p]
  BY <1>1, AmountsAdd
<1>3. \A p \in Parts : Plus(x, y)[p] \in Nat /\ (p \notin S => Plus(x, y)[p] = 0)
  BY <1>1, <1>2
<1> QED
  BY <1>2, <1>3, NaturalIsCharged

LEMMA ChargedTimes ==
  ASSUME NEW S, NEW n \in Nat, NEW x \in Charged(S)
  PROVE  Times(n, x) \in Charged(S)
<1>1. x \in Amount /\ \A p \in Parts : x[p] \in Nat /\ (p \notin S => x[p] = 0)
  BY ChargedIsNatural
<1>2. Times(n, x) \in Amount /\ \A p \in Parts : Times(n, x)[p] = n * x[p]
  BY <1>1, AmountsScale
<1>3. \A m \in Nat : n * m \in Nat /\ n * 0 = 0
  OBVIOUS
<1> QED
  BY <1>1, <1>2, <1>3, NaturalIsCharged

LEMMA ChargedOver ==
  ASSUME NEW S, NEW n \in Nat \ {0}, NEW x \in Charged(S)
  PROVE  Over(x, n) \in Charged(S)
<1>1. x \in Amount /\ \A p \in Parts : x[p] \in Nat /\ (p \notin S => x[p] = 0)
  BY ChargedIsNatural
<1>2. (\A m \in Nat : m \div n \in Nat) /\ 0 \div n = 0
  OBVIOUS
<1>3. Over(x, n) \in Amount /\ \A p \in Parts : Over(x, n)[p] = x[p] \div n
  BY <1>1, <1>2 DEF Over, Amount
<1> QED
  BY <1>1, <1>2, <1>3, NaturalIsCharged

LEMMA ChargedSum ==
  ASSUME NEW S, NEW T, IsFiniteSet(T), NEW F \in [T -> Charged(S)]
  PROVE  SumOver(F) \in Charged(S)
<1>1. F \in [T -> Amount]
  BY DEF Charged
<1>2. PICK it : SumOver(F) = it[T] /\ SumBy(it, T, F)
  BY <1>1, SumFolds
<1> USE DEF SumBy
<1> DEFINE R == {s \in SUBSET T : it[s] \in Charged(S)}
<1>3. {} \in R
  BY <1>2, ChargedNothing
<1>4. ASSUME NEW s \in SUBSET T, s # {}, s \ {Pick(s)} \in R PROVE s \in R
  <2>1. Pick(s) \in T /\ it[s] = Plus(F[Pick(s)], it[s \ {Pick(s)}])
    BY <1>2, <1>4, PickFrom
  <2>2. F[Pick(s)] \in Charged(S)
    BY <2>1
  <2> QED
    BY <1>4, <2>1, <2>2, ChargedPlus
<1>5. \A s \in SUBSET T : s \in R
  <2> HIDE DEF R
  <2> QED
    BY <1>3, <1>4, FoldInduction
<1> QED
  BY <1>2, <1>5

-----------------------------------------------------------------------------
(***************************************************************************)
(* The routing of a bank counts parts of the routing only.                 *)
(***************************************************************************)
RoutingAmounts == Charged(RoutingParts)
RoutingPaths == {L \in Paths : L # {} /\ \A path \in L : Only(path, RoutingParts)}

IsRoutingCost(r) ==
  /\ r.readLatency \in RoutingPaths /\ r.writeLatency \in RoutingPaths
  /\ r.readDynamicEnergy \in RoutingAmounts /\ r.writeDynamicEnergy \in RoutingAmounts
  /\ r.leakage \in RoutingAmounts

LEMMA RoutingPartsKnown ==
  /\ RoutingParts \subseteq Parts
  /\ {"wire", "globalBitline", "globalBitlineMux", "globalSenseAmp", "globalComparator",
      "globalIvConverter", "bitline", "bitlineOn", "bitlineOff"} = RoutingParts
BY DEF RoutingParts, Routes, OfBank, Bitlines, Parts, AllCircuits, Converters

LEMMA RoutingOf ==
  ASSUME NEW part \in RoutingParts
  PROVE  Of(part) \in RoutingAmounts /\ {Of(part)} \in RoutingPaths
<1>1. Of(part) \in Charged(RoutingParts)
  BY ChargedOf
<1> QED
  BY <1>1 DEF RoutingAmounts, RoutingPaths, Charged, Paths

LEMMA RoutingNothing == Nothing \in RoutingAmounts /\ Instant \in RoutingPaths
<1>1. Nothing \in Charged(RoutingParts)
  BY ChargedNothing
<1> QED
  BY <1>1 DEF RoutingAmounts, RoutingPaths, Charged, Paths, Instant

LEMMA RoutingPlus ==
  ASSUME NEW x \in RoutingAmounts, NEW y \in RoutingAmounts
  PROVE  Plus(x, y) \in RoutingAmounts
BY ChargedPlus DEF RoutingAmounts

LEMMA RoutingTimes ==
  ASSUME NEW n \in Nat, NEW x \in RoutingAmounts
  PROVE  Times(n, x) \in RoutingAmounts /\ {Times(n, x)} \in RoutingPaths
<1>1. Times(n, x) \in Charged(RoutingParts)
  BY ChargedTimes DEF RoutingAmounts
<1> QED
  BY <1>1 DEF RoutingAmounts, RoutingPaths, Charged, Paths

LEMMA RoutingOver ==
  ASSUME NEW a, IsArray(a), NEW x \in RoutingAmounts
  PROVE  ActiveWires(a, x) \in RoutingAmounts
<1>1. a.associativity \in Nat \ {0}
  BY DEF IsArray
<1> QED
  BY <1>1, ChargedOver DEF ActiveWires, RoutingAmounts

LEMMA RoutingThen ==
  ASSUME NEW L \in RoutingPaths, NEW M \in RoutingPaths
  PROVE  Then(L, M) \in RoutingPaths
<1>1. L \in Paths /\ M \in Paths
  BY DEF RoutingPaths
<1>2. Then(L, M) # {}
  <2>1. PICK x \in L, y \in M : TRUE
    BY DEF RoutingPaths
  <2>2. Plus(x, y) \in Then(L, M)
    BY <2>1 DEF Then
  <2> QED
    BY <2>2
<1>3. ASSUME NEW path \in Then(L, M) PROVE Only(path, RoutingParts)
  <2>1. PICK x \in L, y \in M : path = Plus(x, y)
    BY ThenJoins
  <2>2. x \in Amount /\ y \in Amount /\ Only(x, RoutingParts) /\ Only(y, RoutingParts)
    BY <2>1 DEF RoutingPaths, Paths
  <2> QED
    BY <2>1, <2>2, AmountsAdd DEF Only
<1> QED
  BY <1>1, <1>2, <1>3, ThenIsPaths DEF RoutingPaths

LEMMA RoutingSum ==
  ASSUME NEW S, IsFiniteSet(S), NEW F \in [S -> RoutingAmounts]
  PROVE  SumOver(F) \in RoutingAmounts
BY ChargedSum DEF RoutingAmounts

LEMMA TreeCosts ==
  ASSUME NEW a, IsArray(a)
  PROVE  IsRoutingCost(TreeRouting(a))
<1> DEFINE lv == a.levels
           A == [i \in DOMAIN lv |-> Times(lv[i].active * lv[i].bits, Of("wire"))]
           S == [i \in DOMAIN lv |-> Times(lv[i].sum * lv[i].bits, Of("wire"))]
           r == TreeRouting(a)
<1>1. Of("wire") \in RoutingAmounts
  BY RoutingOf, RoutingPartsKnown
<1>2. DOMAIN lv = 1 .. Len(lv) /\ Len(lv) \in Nat /\ IsFiniteSet(DOMAIN lv)
  <2>1. lv \in Seq([bits : Nat, active : Nat, sum : Nat])
    BY DEF IsArray
  <2> HIDE DEF lv
  <2>2. DOMAIN lv = 1 .. Len(lv) /\ Len(lv) \in Nat
    BY <2>1
  <2>3. IsFiniteSet(1 .. Len(lv))
    BY <2>2, FS_Interval
  <2> QED
    BY <2>2, <2>3
<1>3. ASSUME NEW i \in DOMAIN lv
      PROVE  lv[i].active * lv[i].bits \in Nat /\ lv[i].sum * lv[i].bits \in Nat
  <2>1. lv[i] \in [bits : Nat, active : Nat, sum : Nat]
    <3>1. lv \in Seq([bits : Nat, active : Nat, sum : Nat])
      BY DEF IsArray
    <3>2. i \in 1 .. Len(lv)
      BY <1>2
    <3>3. ASSUME NEW T, NEW s \in Seq(T), NEW j \in 1 .. Len(s) PROVE s[j] \in T
      OBVIOUS
    <3> HIDE DEF lv
    <3> QED
      BY <3>1, <3>2, <3>3, Zenon
  <2> QED
    BY <2>1
<1>4. SumOver(A) \in RoutingAmounts
  <2>1. A \in [DOMAIN lv -> RoutingAmounts]
    BY <1>1, <1>3, RoutingTimes
  <2> HIDE DEF A
  <2> QED
    BY <1>2, <2>1, RoutingSum
<1>5. SumOver(S) \in RoutingAmounts
  <2>1. S \in [DOMAIN lv -> RoutingAmounts]
    BY <1>1, <1>3, RoutingTimes
  <2> HIDE DEF S
  <2> QED
    BY <1>2, <2>1, RoutingSum
<1>6. /\ r.readLatency = {Times(2 * Len(lv), Of("wire"))}
      /\ r.writeLatency = {Times(Len(lv), Of("wire"))}
      /\ r.readDynamicEnergy = SumOver(A)
      /\ r.writeDynamicEnergy = ActiveWires(a, SumOver(A))
      /\ r.leakage = SumOver(S)
  BY DEF TreeRouting, Cost, Wires
<1>7. 2 * Len(lv) \in Nat
  BY <1>2
<1> HIDE DEF A, S, r, lv
<1>8. r.readLatency \in RoutingPaths /\ r.writeLatency \in RoutingPaths
  BY <1>1, <1>2, <1>6, <1>7, RoutingTimes
<1>9. r.writeDynamicEnergy \in RoutingAmounts
  BY <1>4, <1>6, RoutingOver
<1> QED
  BY <1>4, <1>5, <1>6, <1>8, <1>9 DEF IsRoutingCost, r

LEMMA InternalCosts ==
  ASSUME NEW a, IsArray(a)
  PROVE  IsRoutingCost(InternalRouting(a))
<1> DEFINE r == InternalRouting(a)
           n == BusBits(a) * ActiveMats(a)
           m == BusBits(a) * a.numActiveMatPerColumn * a.numColumnMat
<1>1. Of("wire") \in RoutingAmounts /\ {Of("wire")} \in RoutingPaths
  BY RoutingOf, RoutingPartsKnown
<1>2. n \in Nat /\ m \in Nat
  <2>1. BusBits(a) \in Nat
    BY DEF BusBits, IsArray
  <2>2. \A x, y, z \in Nat : x * y \in Nat /\ x * y * z \in Nat
    OBVIOUS
  <2> QED
    BY <2>1, <2>2 DEF IsArray
<1>3. /\ r.readLatency = {Of("wire")} /\ r.writeLatency = {Of("wire")}
      /\ r.readDynamicEnergy = Times(n, Of("wire")) /\ r.writeDynamicEnergy = Times(n, Of("wire"))
      /\ r.leakage = Times(m, Of("wire"))
  BY DEF InternalRouting, Cost
<1> HIDE DEF r, n, m
<1> QED
  BY <1>1, <1>2, <1>3, RoutingTimes DEF IsRoutingCost, r

\* The mux, the sense amplifiers and the comparator of a bus, and what each
\* field of them counts.
LEMMA GlobalCosts ==
  ASSUME NEW a, IsArray(a)
  PROVE  /\ IsRoutingCost(GlobalMux(a)) /\ IsRoutingCost(GlobalSenseAmp(a))
         /\ IsRoutingCost(GlobalComparator)
<1> USE RoutingPartsKnown
<1>1. IsRoutingCost(GlobalMux(a))
  <2>1. /\ Of("globalBitlineMux") \in RoutingAmounts /\ {Of("globalBitlineMux")} \in RoutingPaths
        /\ Nothing \in RoutingAmounts /\ Instant \in RoutingPaths
    BY RoutingOf, RoutingNothing
  <2> DEFINE n == Mats(a) \div ActiveMats(a)
  <2>2. GlobalMux(a) = MuxCost("globalBitlineMux", n)
    BY DEF GlobalMux
  <2> HIDE DEF n
  <2>3. IsRoutingCost(MuxCost("globalBitlineMux", n))
    BY <2>1, NoCosts DEF MuxCost, Cost, IsRoutingCost
  <2> QED
    BY <2>2, <2>3
<1>2. IsRoutingCost(GlobalSenseAmp(a))
  <2> DEFINE amp == Amplified("globalSenseAmp", "globalIvConverter", CurrentSense(a))
             u == GlobalSenseAmp(a)
  <2>1. amp \in RoutingAmounts
    BY RoutingOf, RoutingPlus DEF Amplified
  <2>2. {amp} \in RoutingPaths
    BY <2>1 DEF RoutingAmounts, RoutingPaths, Charged, Paths
  <2>3. /\ u.readLatency = {amp} /\ u.writeLatency = Instant
        /\ u.readDynamicEnergy = amp /\ u.writeDynamicEnergy = Nothing /\ u.leakage = amp
    BY SenseAmpCosts DEF GlobalSenseAmp
  <2> HIDE DEF amp, u
  <2> QED
    BY <2>1, <2>2, <2>3, RoutingNothing DEF IsRoutingCost, u
<1>3. IsRoutingCost(GlobalComparator)
  BY RoutingOf, SymmetricCosts DEF GlobalComparator, ComparatorCost, IsRoutingCost
<1> QED
  BY <1>1, <1>2, <1>3

LEMMA LineCosts ==
  ASSUME NEW a, IsArray(a)
  PROVE  IsRoutingCost(GlobalBitlineCost(a))
<1> DEFINE r == GlobalBitlineCost(a)
           line == {Of("globalBitline")}
           taken == Minus(Of("globalBitline"), Of("bitline"))
           sram == Cost(Then(Then(line, GlobalMux(a).readLatency), GlobalSenseAmp(a).readLatency),
                        Then(line, GlobalMux(a).readLatency),
                        GlobalBitlines(a, a.addressBits + a.numWay),
                        GlobalBitlines(a, a.addressBits + a.dataBits), Nothing)
           resistive ==
             Cost(IF a.readMode
                  THEN {Plus(taken, Of("bitlineOn")), Plus(taken, Of("bitlineOff"))}
                  ELSE line,
                  line,
                  IF a.readMode THEN GlobalBitlines(a, a.addressBits + a.dataBits)
                  ELSE GlobalBitlines(a, a.addressBits),
                  GlobalBitlines(a, a.addressBits + a.dataBits), Nothing)
<1>1. Of("globalBitline") \in RoutingAmounts /\ line \in RoutingPaths
  BY RoutingOf, RoutingPartsKnown
<1>2. ASSUME NEW n \in Nat PROVE GlobalBitlines(a, n) \in RoutingAmounts
  <2>1. a.numActiveMatPerColumn \in Nat
    BY DEF IsArray
  <2>2. n * a.numActiveMatPerColumn \in Nat
    BY <2>1
  <2> QED
    BY <1>1, <2>2, RoutingTimes DEF GlobalBitlines
<1>3. /\ a.addressBits \in Nat /\ a.addressBits + a.numWay \in Nat
      /\ a.addressBits + a.dataBits \in Nat
  <2>1. a.addressBits \in Nat /\ a.numWay \in Nat /\ a.dataBits \in Nat
    BY DEF IsArray
  <2> QED
    BY <2>1
<1>4. IsRoutingCost(GlobalMux(a)) /\ IsRoutingCost(GlobalSenseAmp(a))
  BY GlobalCosts
<1>5. ASSUME NEW part \in {"bitlineOn", "bitlineOff"}
      PROVE  Plus(taken, Of(part)) \in Amount /\ Only(Plus(taken, Of(part)), RoutingParts)
  <2>1. taken \in Amount /\ \A p \in Parts : taken[p] = Of("globalBitline")[p] - Of("bitline")[p]
    BY OfIsAmount, AmountsAdd
  <2>2. /\ Plus(taken, Of(part)) \in Amount
        /\ \A p \in Parts : Plus(taken, Of(part))[p] = taken[p] + Of(part)[p]
    BY <2>1, OfIsAmount, AmountsAdd
  <2>3. ASSUME NEW p \in Parts \ RoutingParts
        PROVE  Of("globalBitline")[p] = 0 /\ Of("bitline")[p] = 0 /\ Of(part)[p] = 0
    BY RoutingPartsKnown, OfIsAmount
  <2> QED
    BY <2>1, <2>2, <2>3 DEF Only
<1>6. {Plus(taken, Of("bitlineOn")), Plus(taken, Of("bitlineOff"))} \in RoutingPaths
  BY <1>5 DEF RoutingPaths, Paths
<1> HIDE DEF taken, line
<1>7. IsRoutingCost(sram)
  BY <1>1, <1>2, <1>3, <1>4, RoutingThen, RoutingNothing DEF IsRoutingCost, Cost
<1>8. IsRoutingCost(resistive)
  BY <1>1, <1>2, <1>3, <1>6, RoutingNothing DEF IsRoutingCost, Cost
<1>9. IsRoutingCost(NoCost)
  BY NoCosts, RoutingNothing DEF IsRoutingCost
<1>10. r = CASE a.cellType = "SRAM" -> sram
             [] a.cellType \in Resistive -> resistive
             [] OTHER -> NoCost
  BY DEF GlobalBitlineCost, line, taken
<1>11. "SRAM" \notin Resistive
  BY DEF Resistive
<1> HIDE DEF r, sram, resistive
<1> QED
  BY <1>7, <1>8, <1>9, <1>10, <1>11 DEF r

LEMMA ExternalCosts ==
  ASSUME NEW a, IsArray(a)
  PROVE  IsRoutingCost(ExternalRouting(a))
<1> DEFINE line == GlobalBitlineCost(a)
           mux == GlobalMux(a)
           amp == GlobalSenseAmp(a)
           cmp == GlobalComparator
           tag == a.memoryType = "tag"
           read == Then(Then(line.readLatency, mux.readLatency), amp.readLatency)
           Ways(n, energy) == IF tag THEN Times(n, energy) ELSE Nothing
           r == ExternalRouting(a)
<1>1. IsRoutingCost(line) /\ IsRoutingCost(mux) /\ IsRoutingCost(amp) /\ IsRoutingCost(cmp)
  BY LineCosts, GlobalCosts
<1>2. /\ r.readLatency = IF tag THEN Then(read, cmp.readLatency) ELSE read
      /\ r.writeLatency = Then(Then(line.writeLatency, mux.writeLatency), amp.writeLatency)
      /\ r.readDynamicEnergy =
           Plus(line.readDynamicEnergy,
                Plus(Times(a.numActiveMatPerRow,
                           Plus(mux.readDynamicEnergy, amp.readDynamicEnergy)),
                     Ways(a.numWay, cmp.readDynamicEnergy)))
      /\ r.writeDynamicEnergy =
           Plus(line.writeDynamicEnergy,
                Times(a.numActiveMatPerRow, Plus(mux.writeDynamicEnergy, amp.writeDynamicEnergy)))
      /\ r.leakage =
           Plus(Times(a.numColumnMat, Plus(mux.leakage, amp.leakage)),
                Ways(a.associativity, cmp.leakage))
  BY DEF ExternalRouting, Cost
<1>3. ASSUME NEW n \in Nat, NEW x \in RoutingAmounts PROVE Ways(n, x) \in RoutingAmounts
  BY RoutingTimes, RoutingNothing
<1>4. /\ a.numWay \in Nat /\ a.associativity \in Nat /\ a.numActiveMatPerRow \in Nat
      /\ a.numColumnMat \in Nat
  BY DEF IsArray
<1> HIDE DEF line, mux, amp, cmp, r, Ways
<1>5. r.readLatency \in RoutingPaths
  <2>1. read \in RoutingPaths
    BY <1>1, RoutingThen DEF IsRoutingCost
  <2> QED
    BY <1>1, <1>2, <2>1, RoutingThen DEF IsRoutingCost
<1>6. r.writeLatency \in RoutingPaths
  BY <1>1, <1>2, RoutingThen DEF IsRoutingCost
<1>7. r.readDynamicEnergy \in RoutingAmounts
  <2>1. Plus(mux.readDynamicEnergy, amp.readDynamicEnergy) \in RoutingAmounts
    BY <1>1, RoutingPlus DEF IsRoutingCost
  <2>2. Times(a.numActiveMatPerRow, Plus(mux.readDynamicEnergy, amp.readDynamicEnergy)) \in RoutingAmounts
    BY <1>4, <2>1, RoutingTimes
  <2>3. Ways(a.numWay, cmp.readDynamicEnergy) \in RoutingAmounts
    BY <1>1, <1>3, <1>4 DEF IsRoutingCost
  <2> QED
    BY <1>1, <1>2, <2>2, <2>3, RoutingPlus DEF IsRoutingCost
<1>8. r.writeDynamicEnergy \in RoutingAmounts
  <2>1. Plus(mux.writeDynamicEnergy, amp.writeDynamicEnergy) \in RoutingAmounts
    BY <1>1, RoutingPlus DEF IsRoutingCost
  <2>2. Times(a.numActiveMatPerRow, Plus(mux.writeDynamicEnergy, amp.writeDynamicEnergy)) \in RoutingAmounts
    BY <1>4, <2>1, RoutingTimes
  <2> QED
    BY <1>1, <1>2, <2>2, RoutingPlus DEF IsRoutingCost
<1>9. r.leakage \in RoutingAmounts
  <2>1. Plus(mux.leakage, amp.leakage) \in RoutingAmounts
    BY <1>1, RoutingPlus DEF IsRoutingCost
  <2>2. Times(a.numColumnMat, Plus(mux.leakage, amp.leakage)) \in RoutingAmounts
    BY <1>4, <2>1, RoutingTimes
  <2>3. Ways(a.associativity, cmp.leakage) \in RoutingAmounts
    BY <1>1, <1>3, <1>4 DEF IsRoutingCost
  <2> QED
    BY <1>2, <2>2, <2>3, RoutingPlus
<1> QED
  BY <1>5, <1>6, <1>7, <1>8, <1>9 DEF IsRoutingCost, r

\* What a legal bank adds to its mats.
Routing(a) ==
  IF a.tree THEN TreeRouting(a)
  ELSE [BusRouting(a) EXCEPT !.writeDynamicEnergy = ActiveWires(a, @)]

LEMMA RoutingCosts ==
  ASSUME NEW a, IsArray(a)
  PROVE  IsRoutingCost(Routing(a))
<1>1. CASE a.tree
  BY <1>1, TreeCosts DEF Routing
<1>2. CASE ~a.tree
  <2> DEFINE b == BusRouting(a)
             r == [b EXCEPT !.writeDynamicEnergy = ActiveWires(a, @)]
  <2>1. IsRoutingCost(b)
    BY InternalCosts, ExternalCosts DEF BusRouting
  <2>2. DOMAIN b = {"readLatency", "writeLatency", "readDynamicEnergy", "writeDynamicEnergy", "leakage"}
    BY DEF BusRouting, InternalRouting, ExternalRouting, Cost
  <2> HIDE DEF b
  <2>3. /\ r.readLatency = b.readLatency /\ r.writeLatency = b.writeLatency
        /\ r.readDynamicEnergy = b.readDynamicEnergy
        /\ r.writeDynamicEnergy = ActiveWires(a, b.writeDynamicEnergy)
        /\ r.leakage = b.leakage
    BY <2>2
  <2>4. ActiveWires(a, b.writeDynamicEnergy) \in RoutingAmounts
    BY <2>1, RoutingOver DEF IsRoutingCost
  <2>5. IsRoutingCost(r)
    BY <2>1, <2>3, <2>4 DEF IsRoutingCost
  <2> QED
    BY <1>2, <2>5 DEF Routing, b
<1> QED
  BY <1>1, <1>2


-----------------------------------------------------------------------------
(***************************************************************************)
(* What a legal bank has when it has been evaluated, and when it is kept.  *)
(***************************************************************************)

\* The fields of a unit that power and latency write.
Has(unit, costs) == \A field \in DOMAIN costs : unit[field] = costs[field]

\* The bank b is the routing r and its mats m.
IsRouted(a, b, r, m) ==
  /\ b.readLatency = Then(r.readLatency, m.readLatency)
  /\ b.writeLatency = Then(r.writeLatency, m.writeLatency)
  /\ b.resetLatency = Then(r.writeLatency, m.resetLatency)
  /\ b.setLatency = Then(r.writeLatency, m.setLatency)
  /\ b.readDynamicEnergy = Plus(r.readDynamicEnergy, Times(ActiveMats(a), m.readDynamicEnergy))
  /\ b.writeDynamicEnergy = Plus(r.writeDynamicEnergy, Times(ActiveMats(a), m.writeDynamicEnergy))
  /\ b.resetDynamicEnergy = Plus(r.writeDynamicEnergy, Times(ActiveMats(a), m.resetDynamicEnergy))
  /\ b.setDynamicEnergy = Plus(r.writeDynamicEnergy, Times(ActiveMats(a), m.setDynamicEnergy))
  /\ b.leakage = Plus(r.leakage, Times(Mats(a), m.leakage))

IsCosted(a, s, m, b) ==
  /\ IsArray(a)
  /\ Has(s, SubArrayPower(a)) /\ Has(s, SubArrayLatency(a))
  /\ Has(m, MatPower(a)) /\ Has(m, MatLatency(a))
  /\ IsRouted(a, b, Routing(a), m)

CostInv ==
  /\ Legal => IsCosted(array, subarray, mat, bank)
  /\ \A i \in DOMAIN kept : IsCosted(call[i], kept[i].subarray, kept[i].mat, kept[i].bank)

LEMMA CallsAreArrays ==
  ASSUME NEW c \in Calls, NEW i \in DOMAIN c
  PROVE  IsArray(c[i])
<1>1. /\ c[i].associativity \in Nat \ {0} /\ Unit % c[i].associativity = 0
      /\ c[i].numRowMat \in Nat /\ c[i].numColumnMat \in Nat
      /\ c[i].numActiveMatPerRow \in Nat /\ c[i].numActiveMatPerColumn \in Nat
      /\ c[i].numWay \in Nat /\ c[i].subarrays \in Nat
      /\ c[i].activeSubarrays \in Nat /\ c[i].rowBits \in Nat
      /\ c[i].muxBits \in [Muxes -> 0 .. 30]
      /\ c[i].addressBits \in Nat /\ c[i].dataBits \in Nat
      /\ c[i].levels \in Seq([bits : Nat, active : Nat, sum : Nat])
      /\ c[i].cellType \in Resistive \cup {"SRAM", "eDRAM", "SLCNAND"}
      /\ c[i].tree => c[i].internalSenseAmp
      /\ c[i].fail # "matPartition" =>
           \E role \in DOMAIN BlocksOf : AddressBitsOf(c[i], role) > 0
  BY CallsAssumption, Zenon
<1>2. \A x, y \in Nat : x * y \in Nat
  OBVIOUS
<1>3. Mats(c[i]) \in Nat /\ ActiveMats(c[i]) \in Nat
  BY <1>1, <1>2 DEF Mats, ActiveMats
<1> QED
  BY <1>1, <1>3, Zenon DEF IsArray

LEMMA ArrayIsArray ==
  ASSUME ArrayInv, pc \notin {"summary", "done"}
  PROVE  IsArray(array) /\ Len(kept) + 1 \in DOMAIN call /\ call \in Calls
<1>1. Len(kept) + 1 \in 1 .. Len(call) /\ call \in Calls
  BY ArrayIsThere
<1>2. DOMAIN call = 1 .. Len(call)
  BY <1>1, CallsAssumption
<1> QED
  BY <1>1, <1>2, CallsAreArrays DEF array

LEMMA PowerFields ==
  ASSUME NEW a
  PROVE  /\ DOMAIN SubArrayPower(a) = DOMAIN MatPower(a)
         /\ DOMAIN SubArrayLatency(a) = DOMAIN MatLatency(a)
         /\ DOMAIN SubArrayPower(a) =
              {"readDynamicEnergy", "writeDynamicEnergy", "resetDynamicEnergy",
               "setDynamicEnergy", "leakage", "cellReadEnergy", "cellResetEnergy",
               "cellSetEnergy"}
         /\ DOMAIN SubArrayLatency(a) =
              {"readLatency", "writeLatency", "resetLatency", "setLatency"}
BY DEF SubArrayPower, MatPower, SubArrayLatency, MatLatency

LEMMA FilledHas ==
  ASSUME NEW unit, NEW power, NEW latency, DOMAIN power \cup DOMAIN latency \subseteq DOMAIN unit,
         DOMAIN power \cap DOMAIN latency = {}
  PROVE  LET u == Filled(Filled(unit, power), latency) IN Has(u, power) /\ Has(u, latency)
BY DEF Filled, Has

LEMMA AddedMats ==
  ASSUME NEW a, NEW unit, UnitType(unit), NEW r, NEW m
  PROVE  IsRouted(a, AddMats(a, unit, r, m), r, m)
<1>1. DOMAIN unit = DOMAIN FunctionUnit \cup {"initialized", "invalid"}
  BY DEF UnitType
<1> QED
  BY <1>1, UnitFields DEF AddMats, IsRouted

LEMMA CostsAreThere ==
  ASSUME ArrayInv, RefuseInv, CalculateLatencyAndPower, Legal'
  PROVE  IsCosted(array, subarray', mat', bank')
<1>1. /\ pc = "latency" /\ UNCHANGED <<call, kept>>
      /\ subarray' = IF Evaluable
                     THEN Filled(Filled(subarray, SubArrayPower(array)), SubArrayLatency(array))
                     ELSE subarray
      /\ mat' = IF Evaluable
                THEN Filled(Filled(mat, MatPower(array)), MatLatency(array)) ELSE mat
      /\ bank' = (IF array.tree THEN TreeBank(array, bank, mat') ELSE BusBank(array, bank, mat'))
  BY DEF CalculateLatencyAndPower
<1>2. UnitType(subarray) /\ UnitType(mat) /\ UnitType(bank)
  BY <1>1 DEF RefuseInv, Initializing, IsBlank
<1>3. bank'.invalid = bank.invalid /\ bank'.initialized = bank.initialized
  BY <1>1, <1>2, BankKeepsFlags
<1>4. Evaluable
  BY <1>3 DEF Legal, Evaluable
<1>5. IsArray(array)
  BY <1>1, ArrayIsArray
<1>6. ASSUME NEW unit, UnitType(unit)
      PROVE  /\ DOMAIN SubArrayPower(array) \cup DOMAIN SubArrayLatency(array) \subseteq DOMAIN unit
             /\ DOMAIN MatPower(array) \cup DOMAIN MatLatency(array) \subseteq DOMAIN unit
             /\ DOMAIN SubArrayPower(array) \cap DOMAIN SubArrayLatency(array) = {}
             /\ DOMAIN MatPower(array) \cap DOMAIN MatLatency(array) = {}
  BY <1>6, PowerFields, UnitFields DEF UnitType
<1>7. Has(subarray', SubArrayPower(array)) /\ Has(subarray', SubArrayLatency(array))
  BY <1>1, <1>2, <1>4, <1>6, FilledHas
<1>8. Has(mat', MatPower(array)) /\ Has(mat', MatLatency(array))
  BY <1>1, <1>2, <1>4, <1>6, FilledHas
<1>9. IsRouted(array, bank', Routing(array), mat')
  <2>1. CASE array.tree
    <3>1. bank' = AddMats(array, bank, TreeRouting(array), mat')
      BY <1>1, <1>4, <2>1 DEF TreeBank, Evaluable
    <3> QED
      BY <1>2, <2>1, <3>1, AddedMats DEF Routing
  <2>2. CASE ~array.tree
    <3>1. bank' = AddMats(array, bank,
                    [BusRouting(array) EXCEPT !.writeDynamicEnergy = ActiveWires(array, @)], mat')
      BY <1>1, <1>4, <2>2 DEF BusBank, Evaluable
    <3> QED
      BY <1>2, <2>2, <3>1, AddedMats DEF Routing
  <2> QED
    BY <2>1, <2>2
<1> QED
  BY <1>5, <1>7, <1>8, <1>9 DEF IsCosted

LEMMA AppendSecond ==
  ASSUME NEW y, NEW z
  PROVE  LET t == Append(<<y>>, z) IN DOMAIN t = {1, 2} /\ t[1] = y /\ t[2] = z
<1>1. <<y>> \in Seq({y, z}) /\ Len(<<y>>) = 1 /\ <<y>>[1] = y
  OBVIOUS
<1>2. PICK s, t : s = <<y>> /\ t = Append(s, z)
  OBVIOUS
<1>3. s \in Seq({y, z}) /\ Len(s) = 1 /\ s[1] = y
  BY <1>1, <1>2, Zenon
<1>4. /\ t \in Seq({y, z}) /\ Len(t) = Len(s) + 1 /\ t[Len(s) + 1] = z
      /\ \A i \in 1 .. Len(s) : t[i] = s[i]
  BY <1>2, <1>3, AppendProperties
<1>5. DOMAIN t = 1 .. 2
  BY <1>3, <1>4
<1>6. 1 .. 2 = {1, 2}
  OBVIOUS
<1> QED
  BY <1>2, <1>3, <1>4, <1>5, <1>6

LEMMA CostStep ==
  ReadInv /\ RefuseInv /\ CostInv /\ [Next]_vars => CostInv'
<1> SUFFICES ASSUME ReadInv, RefuseInv, CostInv, [Next]_vars PROVE CostInv'
  OBVIOUS
<1>0. ArrayInv
  BY DEF ReadInv
<1>1. CASE CalculateLatencyAndPower
  <2>1. UNCHANGED <<call, kept>>
    BY <1>1 DEF CalculateLatencyAndPower
  <2>2. array' = array
    BY <2>1 DEF array
  <2> QED
    BY <1>0, <1>1, <2>1, <2>2, CostsAreThere DEF CostInv
<1>2. CASE Keep
  <2>1. /\ pc = "evaluated" /\ ~bank.invalid /\ kept' = Append(kept, Evaluated)
        /\ UNCHANGED call /\ pc' # "evaluated"
    BY <1>2 DEF Keep
  <2>2. Legal
    BY <2>1 DEF Legal, Ended, Evaluable, RefuseInv, BankDecided, PartsArePassedOn
  <2>3. IsCosted(call[Len(kept) + 1], subarray, mat, bank)
    BY <2>2 DEF CostInv, array
  <2>4. ~Legal'
    BY <2>1 DEF Legal, Ended
  <2>5. /\ Evaluated.subarray = subarray /\ Evaluated.mat = mat /\ Evaluated.bank = bank
    BY DEF Evaluated
  <2>6. CASE kept = <<>>
    <3>1. kept' = <<Evaluated>> /\ call[1] = call[Len(kept) + 1]
      BY <2>1, <2>6
    <3> QED
      BY <2>1, <2>3, <2>4, <2>5, <3>1 DEF CostInv
  <2>7. CASE \E x : kept = <<x>>
    <3>1. PICK x : kept = <<x>>
      BY <2>7
    <3>2. DOMAIN kept' = {1, 2} /\ kept'[1] = x /\ kept'[2] = Evaluated
      BY <2>1, <3>1, AppendSecond, Zenon
    <3>4. kept[1] = x /\ Len(kept) + 1 = 2
      BY <3>1
    <3>3. IsCosted(call[1], x.subarray, x.mat, x.bank)
      BY <3>1 DEF CostInv
    <3> QED
      BY <2>1, <2>3, <2>4, <2>5, <3>2, <3>3, <3>4 DEF CostInv
  <2> QED
    BY <1>0, <2>1, <2>6, <2>7 DEF ArrayInv
<1>3. ASSUME pc' # "evaluated", UNCHANGED <<call, kept>> PROVE CostInv'
  BY <1>3 DEF CostInv, Legal, Ended
<1>4. CASE BankInitialize \/ MatBeforeSubArray \/ SubArrayLegality \/ SenseVoltage \/ DeriveCells
  BY <1>3, <1>4 DEF BankInitialize, MatBeforeSubArray, SubArrayLegality, SenseVoltage, DeriveCells
<1>5. CASE \E i \in DOMAIN Chain : InitializeCircuit(Chain[i])
  <2>1. PICK i \in DOMAIN Chain : InitializeCircuit(Chain[i])
    BY <1>5
  <2>2. Effect(i, Chain[i]) /\ i \in 1 .. 9 /\ Len(Chain) = 9
    BY <2>1, CircuitEffect, ChainPlaces DEF Chain
  <2>3. pc' # "evaluated"
    <3>1. pc' = "afterSubArray" \/ (pc' = Chain[i + 1] /\ i + 1 \in 1 .. 9)
      BY <2>2 DEF Effect
    <3> QED
      BY <3>1, ChainPlaces
  <2> QED
    BY <1>3, <2>2, <2>3 DEF Effect
<1>6. CASE MatAfterSubArray \/ BankAfterMat \/ CalculateArea \/ CalculateRC \/ Drop \/ PrintSummary
  BY <1>3, <1>6 DEF MatAfterSubArray, BankAfterMat, CalculateArea, CalculateRC, Drop, PrintSummary
<1>7. CASE Finished \/ UNCHANGED vars
  BY <1>7 DEF Finished, vars, units, CostInv, Legal, Ended, Evaluable, array
<1> QED
  BY <1>1, <1>2, <1>4, <1>5, <1>6, <1>7 DEF Next

LEMMA InitCosts == Init => CostInv
BY DEF Init, CostInv, Legal, Ended


-----------------------------------------------------------------------------
LEMMA LeakingParts ==
  ASSUME NEW a, IsArray(a),
         NEW c \in Predecoders \cup Decoders \cup {"precharger", "comparator", "senseAmp", "ivConverter"}
  PROVE  /\ c \in Parts /\ c # "cell" /\ c \notin RoutingParts
         /\ MatLeakage(a)[c] * Mats(a) = Unit * Instances(a, c)
<1>1. c \in Parts /\ c # "cell"
  BY KindsOfParts
<1>2. c \notin RoutingParts
  BY RoutingPartsKnown DEF Predecoders, Decoders, MuxDecoders
<1>3. MatLeakage(a)[c] =
        (IF c \in Predecoders /\ NumAddressBit(a, c) > 0 THEN Unit ELSE 0)
          + (a.subarrays * SubArrayLeaks(a, c)
             + (IF c = "comparator" /\ HasComparator(a) THEN a.numWay * Unit ELSE 0))
  BY <1>1, MatLeaks
<1>4. PICK m, s, w : m = Mats(a) /\ s = a.subarrays /\ w = a.numWay
  OBVIOUS
<1>5. m \in Nat /\ s \in Nat /\ w \in Nat /\ Unit \in Nat
  BY <1>4, UnitAssumption DEF IsArray
<1>6. /\ s * 0 = 0 /\ 0 * m = 0 /\ Unit * 0 = 0 /\ Unit * m = m * Unit
      /\ (w * Unit) * m = Unit * (m * w) /\ (s * Unit) * m = Unit * (m * s)
  BY <1>5
<1>7. s * Unit \in Nat /\ w * Unit \in Nat
  BY <1>5
<1>8. CASE c \in Predecoders
  <2>1. c # "comparator" /\ SubArrayLeaks(a, c) = 0
    BY <1>8, KindsOfParts DEF SubArrayLeaks
  <2>2. MatLeakage(a)[c] = IF NumAddressBit(a, c) > 0 THEN Unit ELSE 0
    BY <1>3, <1>4, <1>5, <1>6, <1>8, <2>1
  <2>3. Instances(a, c) = IF NumAddressBit(a, c) > 0 THEN m ELSE 0
    BY <1>4, <1>8, KindsOfParts DEF Instances
  <2> QED
    BY <1>1, <1>2, <1>4, <1>5, <1>6, <2>2, <2>3
<1>9. CASE c = "comparator"
  <2>1. c \notin Predecoders /\ SubArrayLeaks(a, c) = 0
    BY <1>9, KindsOfParts DEF SubArrayLeaks
  <2>2. MatLeakage(a)[c] = IF HasComparator(a) THEN w * Unit ELSE 0
    BY <1>3, <1>4, <1>5, <1>6, <1>7, <1>9, <2>1
  <2>3. Instances(a, c) = IF HasComparator(a) THEN m * w ELSE 0
    BY <1>4, <1>9, <2>1 DEF Instances
  <2> QED
    BY <1>1, <1>2, <1>4, <1>5, <1>6, <2>2, <2>3
<1>10. CASE c \in {"senseAmp", "ivConverter"}
  <2> DEFINE there == a.internalSenseAmp /\ (c = "senseAmp" \/ CurrentSense(a))
  <2>1. c \notin Predecoders \cup Decoders \cup {"comparator", "precharger"}
    BY <1>10, KindsOfParts
  <2>2. SubArrayLeaks(a, c) = IF there THEN Unit ELSE 0
    BY <1>10, <2>1 DEF SubArrayLeaks
  <2>3. MatLeakage(a)[c] = IF there THEN s * Unit ELSE 0
    BY <1>3, <1>4, <1>5, <1>6, <1>7, <2>1, <2>2
  <2>4. Instances(a, c) = IF there THEN m * s ELSE 0
    BY <1>4, <1>10, <2>1 DEF Instances
  <2> QED
    BY <1>1, <1>2, <1>4, <1>5, <1>6, <2>3, <2>4
<1>11. CASE c \in Decoders \cup {"precharger"}
  <2>1. c \notin Predecoders \cup {"comparator", "senseAmp", "ivConverter"}
    BY <1>11, KindsOfParts
  <2>2. SubArrayLeaks(a, c) = Unit
    BY <1>11, <2>1 DEF SubArrayLeaks
  <2>3. MatLeakage(a)[c] = s * Unit
    BY <1>3, <1>4, <1>5, <1>7, <2>1, <2>2
  <2>4. Instances(a, c) = m * s
    BY <1>4, <2>1 DEF Instances
  <2> QED
    BY <1>1, <1>2, <1>4, <1>5, <1>6, <2>3, <2>4
<1> QED
  BY <1>8, <1>9, <1>10, <1>11

LEMMA CostedBankLeaks ==
  ASSUME NEW a, NEW s, NEW m, NEW b, IsCosted(a, s, m, b),
         NEW c \in Predecoders \cup Decoders \cup {"precharger", "comparator", "senseAmp", "ivConverter"}
  PROVE  b.leakage[c] = Unit * Instances(a, c)
<1>1. IsArray(a)
  BY DEF IsCosted
<1>2. m.leakage = MatLeakage(a)
  <2>1. "leakage" \in DOMAIN MatPower(a) /\ MatPower(a).leakage = MatLeakage(a)
    BY DEF MatPower
  <2> QED
    BY <2>1 DEF IsCosted, Has
<1>3. b.leakage = Plus(Routing(a).leakage, Times(Mats(a), m.leakage))
  BY DEF IsCosted, IsRouted
<1>4. /\ c \in Parts /\ c \notin RoutingParts
      /\ MatLeakage(a)[c] * Mats(a) = Unit * Instances(a, c)
  BY <1>1, LeakingParts
<1>5. Routing(a).leakage \in Amount /\ Routing(a).leakage[c] = 0
  BY <1>1, <1>4, RoutingCosts DEF IsRoutingCost, RoutingAmounts, Charged, Only
<1>6. MatLeakage(a) \in Amount /\ Mats(a) \in Int
  <2>1. MatLeakage(a) \in Amount
    BY <1>1, MatLeaks, Zenon
  <2>2. Mats(a) \in Nat
    BY <1>1 DEF IsArray
  <2> QED
    BY <2>1, <2>2
<1>7. /\ Times(Mats(a), m.leakage) \in Amount
      /\ Times(Mats(a), m.leakage)[c] = Mats(a) * MatLeakage(a)[c]
  BY <1>2, <1>4, <1>6, AmountsScale
<1>8. b.leakage[c] = 0 + Mats(a) * MatLeakage(a)[c]
  BY <1>3, <1>4, <1>5, <1>7, AmountsAdd
<1>9. MatLeakage(a)[c] \in Int
  BY <1>4, <1>6 DEF Amount
<1>10. Mats(a) * MatLeakage(a)[c] = MatLeakage(a)[c] * Mats(a) /\ Mats(a) * MatLeakage(a)[c] \in Int
  BY <1>6, <1>9
<1> QED
  BY <1>4, <1>8, <1>10

\* For every call: however many mats and subarrays a bank has and works, and
\* whatever its cells, each circuit in it leaks once for each place where it is built.
THEOREM AllCircuitsLeak == Spec => []EverythingLeaks
<1>1. CostInv => EverythingLeaks
  BY CostedBankLeaks DEF CostInv, EverythingLeaks
<1> QED
  BY <1>1, InitRead, InitRefuse, InitCosts, ReadStep, RefuseStep, CostStep, PTL DEF Spec

-----------------------------------------------------------------------------
(***************************************************************************)
(* Latencies that are spent in some parts only.                            *)
(***************************************************************************)

\* The latencies with a way to spend them, each of which counts parts of S only, and
\* no part more often than some bound.
Spent(S) ==
  {L \in Paths :
     /\ L # {}
     /\ \A path \in L : Only(path, S) /\ AtLeast(path, Nothing)
     /\ \E bound \in Nat : \A path \in L, p \in Parts : path[p] <= bound}

LEMMA SpentNoTime == ASSUME NEW S PROVE Instant \in Spent(S)
<1>1. \A p \in Parts : Nothing[p] = 0
  BY NothingIsAmount
<1>2. \A path \in Instant, p \in Parts : path[p] <= 0
  BY <1>1 DEF Instant
<1> QED
  BY <1>1, <1>2, InstantIsPath DEF Spent, Instant, Only, AtLeast

LEMMA SpentInPart ==
  ASSUME NEW S, NEW part \in S
  PROVE  {Of(part)} \in Spent(S)
<1>1. Of(part) \in Amount /\ \A p \in Parts : Of(part)[p] = IF p = part THEN Unit ELSE 0
  BY OfIsAmount
<1>2. \A p \in Parts : 0 <= Of(part)[p] /\ Of(part)[p] <= Unit
  BY <1>1, UnitAssumption
<1>3. Only(Of(part), S)
  BY <1>1 DEF Only
<1>4. AtLeast(Of(part), Nothing)
  BY <1>1, <1>2, NothingIsAmount DEF AtLeast, Amount
<1> QED
  BY <1>1, <1>2, <1>3, <1>4, UnitAssumption DEF Spent, Paths

LEMMA SpentPlus ==
  ASSUME NEW S, NEW L \in Spent(S), NEW M \in Spent(S)
  PROVE  Then(L, M) \in Spent(S)
<1>1. L \in Paths /\ M \in Paths
  BY DEF Spent
<1>2. PICK l \in Nat : \A path \in L, p \in Parts : path[p] <= l
  BY DEF Spent
<1>3. PICK m \in Nat : \A path \in M, p \in Parts : path[p] <= m
  BY DEF Spent
<1>4. ASSUME NEW path \in Then(L, M)
      PROVE  /\ Only(path, S) /\ AtLeast(path, Nothing)
             /\ \A p \in Parts : path[p] <= l + m
  <2>1. PICK a \in L, b \in M : path = Plus(a, b)
    BY ThenJoins
  <2>2. a \in Amount /\ b \in Amount
    BY <1>1 DEF Paths
  <2>3. \A p \in Parts : path[p] = a[p] + b[p]
    BY <2>1, <2>2, AmountsAdd
  <2>4. ASSUME NEW p \in Parts
        PROVE  /\ a[p] \in Int /\ b[p] \in Int /\ 0 <= a[p] /\ 0 <= b[p]
               /\ a[p] <= l /\ b[p] <= m /\ (p \notin S => a[p] = 0 /\ b[p] = 0)
    <3>1. a[p] \in Int /\ b[p] \in Int
      BY <2>2 DEF Amount
    <3>2. a[p] >= Nothing[p] /\ b[p] >= Nothing[p] /\ (p \notin S => a[p] = 0 /\ b[p] = 0)
      BY <2>1 DEF Spent, Only, AtLeast
    <3> QED
      BY <1>2, <1>3, <2>1, <3>1, <3>2, NothingIsAmount
  <2>5. ASSUME NEW p \in Parts PROVE path[p] >= 0 /\ path[p] <= l + m /\ (p \notin S => path[p] = 0)
    BY <2>3, <2>4
  <2> QED
    BY <2>5, NothingIsAmount DEF Only, AtLeast
<1>5. Then(L, M) # {}
  BY DEF Spent, Then
<1>6. \A path \in Then(L, M), p \in Parts : path[p] <= l + m
  BY <1>4
<1> QED
  BY <1>1, <1>4, <1>5, <1>6, ThenIsPaths DEF Spent

LEMMA SpentInEither ==
  ASSUME NEW S, NEW L \in Spent(S), NEW M \in Spent(S)
  PROVE  Later(L, M) \in Spent(S)
<1>1. L \in Paths /\ M \in Paths
  BY DEF Spent
<1>2. PICK l \in Nat : \A path \in L, p \in Parts : path[p] <= l
  BY DEF Spent
<1>3. PICK m \in Nat : \A path \in M, p \in Parts : path[p] <= m
  BY DEF Spent
<1>4. ASSUME NEW path \in L \cup M
      PROVE  /\ Only(path, S) /\ AtLeast(path, Nothing)
             /\ \A p \in Parts : path[p] <= l + m
  <2>1. Only(path, S) /\ AtLeast(path, Nothing) /\ path \in Amount
    BY <1>1 DEF Spent, Paths
  <2>2. ASSUME NEW p \in Parts PROVE path[p] <= l + m
    <3>1. path[p] \in Int
      BY <2>1 DEF Amount
    <3>2. path[p] <= l \/ path[p] <= m
      BY <1>2, <1>3
    <3> QED
      BY <3>1, <3>2
  <2> QED
    BY <2>1, <2>2
<1>5. CASE (L \cup M) \ Instant = {}
  BY <1>5, SpentNoTime DEF Later
<1>6. CASE (L \cup M) \ Instant # {}
  <2>1. Later(L, M) = (L \cup M) \ Instant
    BY <1>6 DEF Later
  <2>2. \A path \in Later(L, M) : Only(path, S) /\ AtLeast(path, Nothing)
    BY <1>4, <2>1
  <2>3. \A path \in Later(L, M), p \in Parts : path[p] <= l + m
    BY <1>4, <2>1
  <2> QED
    BY <1>1, <1>6, <2>1, <2>2, <2>3, LaterIsPaths DEF Spent
<1> QED
  BY <1>5, <1>6

LEMMA SpentIsPaths ==
  ASSUME NEW S, NEW L \in Spent(S)
  PROVE  L \in Paths /\ L # {}
BY DEF Spent

\* A maximum and a sum of latencies, by induction over them.
LEMMA SpentInLatest ==
  ASSUME NEW S, NEW T, IsFiniteSet(T), NEW F \in [T -> Spent(S)]
  PROVE  LatestOf(F) \in Spent(S)
<1>1. F \in [T -> Paths]
  BY SpentIsPaths
<1>2. PICK it : LatestOf(F) = it[T] /\ LatestBy(it, T, F)
  BY <1>1, LatestFolds
<1> USE DEF LatestBy
<1> DEFINE R == {s \in SUBSET T : it[s] \in Spent(S)}
<1>3. {} \in R
  BY <1>2, SpentNoTime
<1>4. ASSUME NEW s \in SUBSET T, s # {}, s \ {Pick(s)} \in R PROVE s \in R
  <2>1. Pick(s) \in T /\ it[s] = Later(F[Pick(s)], it[s \ {Pick(s)}])
    BY <1>2, <1>4, PickFrom
  <2>2. F[Pick(s)] \in Spent(S)
    BY <2>1
  <2> QED
    BY <1>4, <2>1, <2>2, SpentInEither
<1>5. \A s \in SUBSET T : s \in R
  <2> HIDE DEF R
  <2> QED
    BY <1>3, <1>4, FoldInduction
<1> QED
  BY <1>2, <1>5

LEMMA SpentInAll ==
  ASSUME NEW S, NEW T, IsFiniteSet(T), NEW F \in [T -> Spent(S)]
  PROVE  ThenAll(F) \in Spent(S)
<1>1. F \in [T -> Paths]
  BY SpentIsPaths
<1>2. PICK it : ThenAll(F) = it[T] /\ AllBy(it, T, F)
  BY <1>1, AllFold
<1> USE DEF AllBy
<1> DEFINE R == {s \in SUBSET T : it[s] \in Spent(S)}
<1>3. {} \in R
  BY <1>2, SpentNoTime
<1>4. ASSUME NEW s \in SUBSET T, s # {}, s \ {Pick(s)} \in R PROVE s \in R
  <2>1. Pick(s) \in T /\ it[s] = Then(F[Pick(s)], it[s \ {Pick(s)}])
    BY <1>2, <1>4, PickFrom
  <2>2. F[Pick(s)] \in Spent(S)
    BY <2>1
  <2> QED
    BY <1>4, <2>1, <2>2, SpentPlus
<1>5. \A s \in SUBSET T : s \in R
  <2> HIDE DEF R
  <2> QED
    BY <1>3, <1>4, FoldInduction
<1> QED
  BY <1>2, <1>5

LEMMA SpentInMore ==
  ASSUME NEW S, NEW T, S \cap Parts \subseteq T, NEW L \in Spent(S)
  PROVE  L \in Spent(T)
BY DEF Spent, Only

-----------------------------------------------------------------------------
(***************************************************************************)
(* What the latencies of a mat are spent in.                               *)
(***************************************************************************)

\* A sense amplifier is waited for, and its converter.
SensingParts == {"senseAmp", "ivConverter"}

LEMMA SensingTime ==
  ASSUME NEW a
  PROVE  UnitOf(a, "senseAmp").readLatency \in Spent(SensingParts)
<1> DEFINE amp == Amplified("senseAmp", "ivConverter", CurrentSense(a))
<1>1. CASE a.internalSenseAmp
  <2>1. UnitOf(a, "senseAmp").readLatency = {amp}
    BY <1>1, UnitsOf, SenseAmpCosts
  <2>2. /\ amp \in Amount
        /\ \A p \in Parts : amp[p] = (IF p = "senseAmp" THEN Unit ELSE 0)
                                       + (IF CurrentSense(a) /\ p = "ivConverter" THEN Unit ELSE 0)
    BY AmplifiedCounts
  <2> HIDE DEF amp
  <2>3. \A p \in Parts : amp[p] >= 0 /\ amp[p] <= Unit /\ (p \notin SensingParts => amp[p] = 0)
    BY <2>2, UnitAssumption DEF SensingParts
  <2> QED
    BY <2>1, <2>2, <2>3, UnitAssumption, NothingIsAmount DEF Spent, Paths, Only, AtLeast
<1>2. CASE ~a.internalSenseAmp
  BY <1>2, UnitsOf, NoCosts, SpentNoTime
<1> QED
  BY <1>1, <1>2

LEMMA MuxTime ==
  ASSUME NEW a, NEW c \in Muxes
  PROVE  UnitOf(a, c).readLatency \in Spent({c})
<1>1. UnitOf(a, c) = MuxCost(c, 2 ^ a.muxBits[c])
  BY UnitsOf
<1>2. MuxCost(c, 2 ^ a.muxBits[c]).readLatency \in {{Of(c)}, Instant}
  BY MuxCosts, Zenon
<1> QED
  BY <1>1, <1>2, SpentInPart, SpentNoTime

LEMMA DecoderTime ==
  ASSUME NEW a
  PROVE  /\ ColumnDecoderLatency(a) \in Spent(Decoders)
         /\ DecoderLatency(a) \in Spent(Decoders)
         /\ UnitOf(a, "rowDecoder").writeLatency \in Spent(Decoders)
<1>1. \A c \in Decoders : /\ UnitOf(a, c).readLatency = {Of(c)}
                          /\ UnitOf(a, c).writeLatency = {Of(c)}
  BY UnitsOf, SymmetricCosts
<1>2. "rowDecoder" \in Decoders /\ MuxDecoders \subseteq Decoders
  BY DEF Decoders
<1> DEFINE F == [c \in MuxDecoders |-> ReadLatencyOf(a, c)]
<1>3. F \in [MuxDecoders -> Spent(Decoders)]
  BY <1>1, <1>2, SpentInPart DEF ReadLatencyOf
<1>4. ColumnDecoderLatency(a) = LatestOf(F)
  BY DEF ColumnDecoderLatency
<1> HIDE DEF F
<1>5. ColumnDecoderLatency(a) \in Spent(Decoders)
  BY <1>3, <1>4, CircuitsAreFinite, SpentInLatest
<1> QED
  BY <1>1, <1>2, <1>5, SpentInPart, SpentInEither DEF DecoderLatency, ReadLatencyOf

ReadingParts == Decoders \cup {"bitline"} \cup Muxes \cup SensingParts

LEMMA ReadTime ==
  ASSUME NEW a
  PROVE  SubArrayReadLatency(a) \in Spent(ReadingParts)
<1> DEFINE F == [c \in OutputUnits(a) |-> ReadLatencyOf(a, c)]
<1>1. OutputUnits(a) \subseteq Muxes \cup {"senseAmp"}
  BY DEF OutputUnits
<1>2. IsFiniteSet(OutputUnits(a))
  <2>1. IsFiniteSet(Muxes \cup {"senseAmp"})
    BY CircuitsAreFinite, FS_AddElement
  <2> QED
    BY <1>1, <2>1, FS_Subset
<1>3. ASSUME NEW c \in OutputUnits(a) PROVE ReadLatencyOf(a, c) \in Spent(ReadingParts)
  <2>1. CASE c \in Muxes
    <3>1. ReadLatencyOf(a, c) \in Spent({c})
      BY <2>1, MuxTime DEF ReadLatencyOf
    <3>2. {c} \cap Parts \subseteq ReadingParts
      BY <2>1 DEF ReadingParts
    <3> QED
      BY <3>1, <3>2, SpentInMore
  <2>2. CASE c = "senseAmp"
    BY <2>2, SensingTime, SpentInMore DEF ReadLatencyOf, ReadingParts
  <2> QED
    BY <1>1, <2>1, <2>2
<1>4. ThenAll(F) \in Spent(ReadingParts)
  <2>1. F \in [OutputUnits(a) -> Spent(ReadingParts)]
    BY <1>3
  <2> HIDE DEF F
  <2> QED
    BY <1>2, <2>1, SpentInAll
<1>5. {Of("bitline")} \in Spent(ReadingParts)
  BY SpentInPart DEF ReadingParts
<1>6. DecoderLatency(a) \in Spent(ReadingParts)
  BY DecoderTime, SpentInMore DEF ReadingParts
<1> HIDE DEF F
<1>7. Then({Of("bitline")}, ThenAll(F)) \in Spent(ReadingParts)
  BY <1>4, <1>5, SpentPlus
<1>8. SubArrayReadLatency(a) = Then(DecoderLatency(a), Then({Of("bitline")}, ThenAll(F)))
  BY DEF SubArrayReadLatency, F
<1> QED
  BY <1>6, <1>7, <1>8, SpentPlus

SelectingParts == Decoders \cup {"charge"}

LEMMA SelectTime ==
  ASSUME NEW a
  PROVE  SelectLatency(a) \in Spent(SelectingParts) /\ CrossbarSelectLatency(a) \in Spent(SelectingParts)
<1>1. /\ ColumnDecoderLatency(a) \in Spent(SelectingParts)
      /\ UnitOf(a, "rowDecoder").writeLatency \in Spent(SelectingParts)
  BY DecoderTime, SpentInMore DEF SelectingParts
<1>2. {Of("charge")} \in Spent(SelectingParts)
  BY SpentInPart DEF SelectingParts
<1>3. SelectLatency(a) \in Spent(SelectingParts)
  BY <1>1, <1>2, SpentPlus, SpentInEither DEF SelectLatency
<1> QED
  BY <1>1, <1>2, <1>3, SpentInEither DEF CrossbarSelectLatency

\* Everything but the 1e41 of an illegal bank.
Finite == Parts \ {"infinite"}

LEMMA PartsAreFinite ==
  /\ ReadingParts \subseteq Finite /\ SelectingParts \subseteq Finite
  /\ Predecoders \subseteq Finite /\ Pulses \subseteq Finite /\ RoutingParts \subseteq Finite
  /\ {"charge", "comparator"} \subseteq Finite
BY DEF ReadingParts, SensingParts, SelectingParts, Decoders, MuxDecoders, Muxes, Predecoders,
       Pulses, RoutingParts, Routes, OfBank, Bitlines, Finite, Parts, AllCircuits, OfSubArray,
       OfMat, Converters, Cells

\* The latencies of SubArrayLatency and MatLatency.
WriteNames == {"writeLatency", "resetLatency", "setLatency"}

LEMMA PulseTime ==
  ASSUME NEW p \in Pulses
  PROVE  {Of(p)} \in Spent(Finite)
BY PartsAreFinite, SpentInPart

LEMMA WriteTime ==
  ASSUME NEW a
  PROVE  \A name \in WriteNames : WriteLatencies(a)[name] \in Spent(Finite)
<1> DEFINE select == SelectLatency(a)
           program == Then(select, {Of("flashProgramTime")})
           pulses == Later({Of("resetPulse")}, {Of("setPulse")})
           crossbar == Then(CrossbarSelectLatency(a),
                            {Plus(Of("charge"), Plus(Of("resetPulse"), Of("setPulse")))})
           Good(l) == \A name \in WriteNames : l[name] \in Spent(Finite)
<1>1. /\ select \in Spent(Finite) /\ CrossbarSelectLatency(a) \in Spent(Finite)
      /\ SubArrayReadLatency(a) \in Spent(Finite) /\ Instant \in Spent(Finite)
  BY SelectTime, ReadTime, SpentNoTime, PartsAreFinite, SpentInMore
<1>2. /\ {Of("resetPulse")} \in Spent(Finite) /\ {Of("setPulse")} \in Spent(Finite)
      /\ {Of("flashProgramTime")} \in Spent(Finite) /\ {Of("flashEraseTime")} \in Spent(Finite)
  BY PulseTime DEF Pulses
<1>3. crossbar \in Spent(Finite)
  <2>1. {Of("charge")} \in Spent(Finite)
    BY PartsAreFinite, SpentInPart
  <2>2. Then({Of("charge")}, Then({Of("resetPulse")}, {Of("setPulse")})) \in Spent(Finite)
    BY <1>2, <2>1, SpentPlus
  <2>3. Then({Of("charge")}, Then({Of("resetPulse")}, {Of("setPulse")}))
          = {Plus(Of("charge"), Plus(Of("resetPulse"), Of("setPulse")))}
    BY DEF Then
  <2> QED
    BY <1>1, <2>2, <2>3, SpentPlus
<1> HIDE DEF select
<1>4. program \in Spent(Finite) /\ Then(select, {Of("flashEraseTime")}) \in Spent(Finite)
  BY <1>1, <1>2, SpentPlus
<1>5. pulses \in Spent(Finite)
  BY <1>2, SpentInEither
<1>6. /\ Then(select, pulses) \in Spent(Finite)
      /\ Then(select, {Of("resetPulse")}) \in Spent(Finite)
      /\ Then(select, {Of("setPulse")}) \in Spent(Finite)
  BY <1>1, <1>2, <1>5, SpentPlus
<1> HIDE DEF program, pulses, crossbar
<1>7. ASSUME NEW x \in Spent(Finite), NEW y \in Spent(Finite), NEW z \in Spent(Finite)
      PROVE  Good(Latencies(x, y, z))
  BY DEF Latencies, WriteNames
<1>8. Good(PulseLatencies(a))
  <2>1. PulseLatencies(a) = Latencies(Then(select, pulses), Then(select, {Of("resetPulse")}),
                                      Then(select, {Of("setPulse")}))
    BY DEF PulseLatencies, select, pulses
  <2> QED
    BY <1>6, <1>7, <2>1
<1>9. /\ Good(Latencies(SubArrayReadLatency(a), Instant, Instant))
      /\ Good(Latencies(program, Then(select, {Of("flashEraseTime")}), program))
      /\ Good(Latencies(Instant, Instant, Instant))
      /\ Good(Latencies(crossbar, Instant, Instant))
  BY <1>1, <1>3, <1>4, <1>7
<1>10. \/ WriteLatencies(a) = Latencies(SubArrayReadLatency(a), Instant, Instant)
       \/ WriteLatencies(a) = Latencies(program, Then(select, {Of("flashEraseTime")}), program)
       \/ WriteLatencies(a) = Latencies(Instant, Instant, Instant)
       \/ WriteLatencies(a) = Latencies(crossbar, Instant, Instant)
       \/ WriteLatencies(a) = PulseLatencies(a)
  BY DEF WriteLatencies, program, crossbar, select
<1> QED
  BY <1>8, <1>9, <1>10

LEMMA PredecoderTime ==
  ASSUME NEW a, IsArray(a)
  PROVE  PredecoderLatency(a) \in Spent(Predecoders)
<1> DEFINE F == [p \in Predecoders |-> PredecoderOf(a, p).readLatency]
<1>1. ASSUME NEW p \in Predecoders PROVE PredecoderOf(a, p).readLatency \in Spent(Predecoders)
  <2>1. PredecoderOf(a, p) \in {Symmetric(p), NoCost}
    BY BlockCosts
  <2>2. PredecoderOf(a, p).readLatency \in {{Of(p)}, Instant}
    BY <2>1, SymmetricCosts, NoCosts
  <2> QED
    BY <2>2, SpentInPart, SpentNoTime
<1>2. F \in [Predecoders -> Spent(Predecoders)]
  BY <1>1
<1>3. PredecoderLatency(a) = LatestOf(F)
  BY DEF PredecoderLatency
<1> HIDE DEF F
<1> QED
  BY <1>2, <1>3, CircuitsAreFinite, SpentInLatest

LatencyNames == {"readLatency"} \cup WriteNames

LEMMA MatTime ==
  ASSUME NEW a, IsArray(a)
  PROVE  \A name \in LatencyNames : MatLatency(a)[name] \in Spent(Finite)
<1> DEFINE before == PredecoderLatency(a)
           sub == SubArrayLatency(a)
           m == MatLatency(a)
           compare == ComparatorCost("comparator").readLatency
<1>1. before \in Spent(Finite)
  BY PredecoderTime, PartsAreFinite, SpentInMore
<1>2. sub.readLatency \in Spent(Finite)
  BY ReadTime, PartsAreFinite, SpentInMore DEF SubArrayLatency
<1>3. \A name \in WriteNames : sub[name] \in Spent(Finite)
  BY WriteTime DEF SubArrayLatency, WriteNames
<1>4. compare \in Spent(Finite)
  <2>1. compare = {Of("comparator")}
    BY SymmetricCosts DEF ComparatorCost
  <2> QED
    BY <2>1, PartsAreFinite, SpentInPart
<1>5. /\ m.readLatency = IF HasComparator(a) THEN Then(Then(before, sub.readLatency), compare)
                         ELSE Then(before, sub.readLatency)
      /\ \A name \in WriteNames : m[name] = Then(before, sub[name])
  BY DEF MatLatency, WriteNames
<1> HIDE DEF before, sub, m, compare
<1>6. Then(before, sub.readLatency) \in Spent(Finite)
  BY <1>1, <1>2, SpentPlus
<1>7. m.readLatency \in Spent(Finite)
  BY <1>4, <1>5, <1>6, SpentPlus
<1>8. \A name \in WriteNames : m[name] \in Spent(Finite)
  BY <1>1, <1>3, <1>5, SpentPlus
<1> QED
  BY <1>7, <1>8 DEF LatencyNames, m

-----------------------------------------------------------------------------
(***************************************************************************)
(* RefusedIsInfinite: no 1e41 in a legal bank.                             *)
(***************************************************************************)
LEMMA LegalIsFinite ==
  ASSUME NEW a, NEW s, NEW m, NEW b, IsCosted(a, s, m, b)
  PROVE  \A path \in b.readLatency \cup b.writeLatency : path["infinite"] = 0
<1>1. "infinite" \in Parts /\ "infinite" \notin RoutingParts
  BY RoutingPartsKnown, KindsOfParts
<1>2. ASSUME NEW R \in RoutingPaths, NEW M \in Spent(Finite), NEW path \in Then(R, M)
      PROVE  path["infinite"] = 0
  <2>1. PICK r \in R, x \in M : path = Plus(r, x)
    BY ThenJoins
  <2>2. r \in Amount /\ x \in Amount
    BY DEF RoutingPaths, Spent, Paths
  <2>3. r["infinite"] = 0 /\ x["infinite"] = 0
    BY <1>1 DEF RoutingPaths, Spent, Finite, Only
  <2> QED
    BY <1>1, <2>1, <2>2, <2>3, AmountsAdd
<1>3. /\ Routing(a).readLatency \in RoutingPaths /\ Routing(a).writeLatency \in RoutingPaths
  BY RoutingCosts DEF IsCosted, IsRoutingCost
<1>4. m.readLatency \in Spent(Finite) /\ m.writeLatency \in Spent(Finite)
  <2>1. /\ m.readLatency = MatLatency(a).readLatency
        /\ m.writeLatency = MatLatency(a).writeLatency
    BY PowerFields DEF IsCosted, Has
  <2> QED
    BY <2>1, MatTime DEF IsCosted, LatencyNames, WriteNames
<1> QED
  BY <1>2, <1>3, <1>4 DEF IsCosted, IsRouted

\* For every array, cell, routing and failing test: an illegal part makes the bank
\* illegal, an illegal bank is infinite, and no 1e41 gets into a legal one.
THEOREM RefusedAreInfinite == Spec => []RefusedIsInfinite
<1>1. RefuseInv /\ CostInv => RefusedIsInfinite
  <2> SUFFICES ASSUME RefuseInv, CostInv, Ended PROVE
        /\ PartsArePassedOn
        /\ RefusedBankIsInfinite
        /\ ~bank.invalid =>
             \A path \in bank.readLatency \cup bank.writeLatency : path["infinite"] = 0
    BY DEF RefusedIsInfinite
  <2>1. PartsArePassedOn /\ RefusedBankIsInfinite
    BY DEF RefuseInv, Ended, BankDecided
  <2>2. ASSUME ~bank.invalid PROVE IsCosted(array, subarray, mat, bank)
    BY <2>1, <2>2 DEF CostInv, Legal, Evaluable, PartsArePassedOn
  <2> QED
    BY <2>1, <2>2, LegalIsFinite
<1> QED
  BY <1>1, InitRead, InitRefuse, InitCosts, ReadStep, RefuseStep, CostStep, PTL DEF Spec

-----------------------------------------------------------------------------
(***************************************************************************)
(* PartsAddUp: what is left of a bank without its mats.                    *)
(***************************************************************************)

\* A bounded set of numbers that a step maps into itself: the step is 0.
LEMMA NoStepInBounds ==
  ASSUME NEW bound \in Nat, NEW V \in SUBSET (0 .. bound), V # {},
         NEW k \in Int, \A v \in V : v + k \in V
  PROVE  k = 0
<1> DEFINE W == {bound - v : v \in V}
<1>1. V \in SUBSET Nat /\ W \in SUBSET Nat /\ W # {}
  <2>1. \A v \in V : v \in Nat /\ bound - v \in Nat
    OBVIOUS
  <2>2. W \in SUBSET Nat /\ W # {}
    BY <2>1
  <2> QED
    BY <2>1, <2>2
<1>2. PICK v \in V : \A x \in V : v <= x
  BY <1>1, LeastNatural
<1>3. PICK w \in W : \A x \in W : w <= x
  <2> HIDE DEF W
  <2> QED
    BY <1>1, LeastNatural
<1>4. PICK u \in V : w = bound - u
  BY <1>3
<1>5. v <= v + k /\ v \in Int
  BY <1>2
<1>6. bound - u <= bound - (u + k) /\ u \in Int
  <2>1. u \in Int /\ bound - (u + k) \in W
    BY <1>4
  <2>2. w <= bound - (u + k)
    BY <1>3, <2>1
  <2> QED
    BY <1>4, <2>1, <2>2
<1> QED
  BY <1>5, <1>6

\* A difference of amounts is the amount that was added.
LEMMA MinusOfPlus ==
  ASSUME NEW x \in Amount, NEW y \in Amount
  PROVE  Minus(Plus(x, y), y) = x
<1>1. Plus(x, y) \in Amount /\ \A p \in Parts : Plus(x, y)[p] = x[p] + y[p]
  BY AmountsAdd
<1>2. \A p \in Parts : x[p] \in Int /\ y[p] \in Int
  BY DEF Amount
<1>3. \A p \in Parts : Plus(x, y)[p] - y[p] = x[p]
  BY <1>1, <1>2
<1>4. Minus(Plus(x, y), y) = [p \in Parts |-> x[p]]
  BY <1>3 DEF Minus
<1> QED
  BY <1>4 DEF Amount

LEMMA PlusCommutes ==
  ASSUME NEW x \in Amount, NEW y \in Amount
  PROVE  Plus(x, y) = Plus(y, x)
<1>1. \A p \in Parts : x[p] + y[p] = y[p] + x[p]
  BY DEF Amount
<1> QED
  BY <1>1 DEF Plus

LEMMA LatencyLeft ==
  ASSUME NEW S, NEW R \in RoutingPaths, NEW M \in Spent(S)
  PROVE  LET left == Without(Then(R, M), M)
         IN  left # {} /\ \A path \in left : Only(path, RoutingParts)
<1> DEFINE L == Then(R, M)
           b == CHOOSE m \in M : TRUE
           rests == {Minus(a, b) : a \in L}
           left == {d \in rests : Then(M, {d}) \subseteq L}
<1>1. R \in Paths /\ M \in Paths /\ R # {} /\ M # {} /\ L \in Paths
  BY ThenIsPaths DEF RoutingPaths, Spent
<1>2. b \in M /\ b \in Amount
  BY <1>1 DEF Paths
<1>3. Without(L, M) = left
  BY DEF Without
<1>4. PICK r \in R : TRUE
  BY <1>1
<1>5. r \in Amount
  BY <1>1, <1>4 DEF Paths
<1>6. r \in left
  <2>1. Plus(r, b) \in L
    <3> HIDE DEF b
    <3> QED
      BY <1>2, <1>4 DEF Then
  <2>2. Minus(Plus(r, b), b) = r
    BY <1>2, <1>5, MinusOfPlus
  <2>3. r \in rests
    BY <2>1, <2>2
  <2>4. ASSUME NEW m \in M PROVE Plus(m, r) \in L
    <3>1. m \in Amount
      BY <1>1 DEF Paths
    <3>2. Plus(m, r) = Plus(r, m)
      BY <1>5, <3>1, PlusCommutes
    <3> QED
      BY <1>4, <3>2 DEF Then
  <2>5. Then(M, {r}) \subseteq L
    BY <2>4 DEF Then
  <2> QED
    BY <2>3, <2>5
<1>7. ASSUME NEW d \in left, NEW p \in Parts \ RoutingParts PROVE d[p] = 0
  <2>1. d \in Amount
    <3>1. PICK a \in L : d = Minus(a, b)
      BY <1>7
    <3>2. a \in Amount
      BY <1>1, <3>1 DEF Paths
    <3> QED
      BY <1>2, <3>1, <3>2, AmountsAdd
  <2> DEFINE V == {m[p] : m \in M}
  <2>2. PICK bound \in Nat : \A m \in M, q \in Parts : m[q] <= bound
    BY DEF Spent
  <2>3. V \in SUBSET (0 .. bound)
    <3>1. ASSUME NEW m \in M PROVE m[p] \in 0 .. bound
      <4>1. m[p] \in Int
        BY <1>1 DEF Paths, Amount
      <4>2. m[p] >= 0
        BY NothingIsAmount DEF Spent, AtLeast
      <4> QED
        BY <2>2, <4>1, <4>2
    <3> QED
      BY <3>1
  <2>4. V # {}
    BY <1>1
  <2>5. d[p] \in Int
    BY <2>1 DEF Amount
  <2>6. ASSUME NEW m \in M PROVE m[p] + d[p] \in V
    <3>1. m \in Amount
      BY <1>1 DEF Paths
    <3>2. Plus(m, d) \in L
      BY <1>7 DEF Then
    <3>3. PICK x \in R, y \in M : Plus(m, d) = Plus(x, y)
      BY <3>2, ThenJoins
    <3>4. x \in Amount /\ y \in Amount /\ x[p] = 0
      BY <1>1, <3>3 DEF Paths, RoutingPaths, Only
    <3>5. m[p] + d[p] = x[p] + y[p]
      <4>1. Plus(m, d)[p] = m[p] + d[p]
        BY <2>1, <3>1, AmountsAdd
      <4>2. Plus(x, y)[p] = x[p] + y[p]
        BY <3>4, AmountsAdd
      <4> QED
        BY <3>3, <4>1, <4>2
    <3>6. y[p] \in Int
      BY <3>4 DEF Amount
    <3> QED
      BY <3>4, <3>5, <3>6
  <2>7. \A v \in V : v + d[p] \in V
    BY <2>6
  <2> HIDE DEF V
  <2> QED
    BY <2>3, <2>4, <2>5, <2>7, NoStepInBounds
<1> QED
  BY <1>3, <1>6, <1>7 DEF Only

-----------------------------------------------------------------------------
(***************************************************************************)
(* The energies of a subarray and of a mat.                                *)
(***************************************************************************)

LEMMA CircuitEnergy ==
  ASSUME NEW a, NEW c \in OfSubArray
  PROVE  /\ UnitOf(a, c).readDynamicEnergy \in Charged(Parts)
         /\ UnitOf(a, c).writeDynamicEnergy \in Charged(Parts)
         /\ UnitOf(a, c).leakage \in Charged(Parts)
<1>1. c \in Parts /\ "ivConverter" \in Parts
  BY KindsOfParts DEF OfSubArray
<1>2. Of(c) \in Charged(Parts) /\ Nothing \in Charged(Parts)
  BY <1>1, ChargedOf, ChargedNothing
<1>3. CASE c \in Decoders
  BY <1>2, <1>3, UnitsOf, SymmetricCosts
<1>4. CASE c \in Muxes
  <2>1. UnitOf(a, c) = MuxCost(c, 2 ^ a.muxBits[c])
    BY <1>4, UnitsOf
  <2> DEFINE u == MuxCost(c, 2 ^ a.muxBits[c])
  <2>2. /\ u.readDynamicEnergy \in {Of(c), Nothing} /\ u.writeDynamicEnergy \in {Of(c), Nothing}
        /\ u.leakage = Nothing
    BY MuxCosts, Zenon
  <2> HIDE DEF u
  <2> QED
    BY <1>2, <2>1, <2>2 DEF u
<1>5. CASE c = "precharger"
  BY <1>2, <1>5, UnitsOf, PrechargerCosts
<1>6. CASE c = "senseAmp"
  <2> DEFINE amp == Amplified("senseAmp", "ivConverter", CurrentSense(a))
  <2>1. amp \in Charged(Parts)
    BY <1>1, <1>2, <1>6, ChargedOf, ChargedPlus DEF Amplified
  <2>2. CASE a.internalSenseAmp
    <3>1. /\ UnitOf(a, c).readDynamicEnergy = amp /\ UnitOf(a, c).writeDynamicEnergy = Nothing
          /\ UnitOf(a, c).leakage = amp
      BY <1>6, <2>2, UnitsOf, SenseAmpCosts
    <3> QED
      BY <1>2, <2>1, <3>1
  <2>3. CASE ~a.internalSenseAmp
    BY <1>2, <1>6, <2>3, UnitsOf, NoCosts
  <2> QED
    BY <2>2, <2>3
<1> QED
  BY <1>3, <1>4, <1>5, <1>6 DEF OfSubArray

LEMMA CircuitEnergies ==
  ASSUME NEW a, NEW S \in SUBSET OfSubArray
  PROVE  ReadEnergy(a, S) \in Charged(Parts) /\ WriteEnergy(a, S) \in Charged(Parts)
<1> DEFINE F == [c \in S |-> UnitOf(a, c).readDynamicEnergy]
           G == [c \in S |-> UnitOf(a, c).writeDynamicEnergy]
<1>1. F \in [S -> Charged(Parts)] /\ G \in [S -> Charged(Parts)]
  BY CircuitEnergy
<1>2. IsFiniteSet(S)
  BY CircuitsAreFinite, FS_Subset
<1>3. ReadEnergy(a, S) = SumOver(F) /\ WriteEnergy(a, S) = SumOver(G)
  BY DEF ReadEnergy, WriteEnergy
<1> HIDE DEF F, G
<1> QED
  BY <1>1, <1>2, <1>3, ChargedSum

EnergyNames ==
  {"readDynamicEnergy", "writeDynamicEnergy", "resetDynamicEnergy", "setDynamicEnergy"}

LEMMA SubArrayEnergy ==
  ASSUME NEW a, IsArray(a)
  PROVE  \A name \in EnergyNames : SubArrayPower(a)[name] \in Charged(Parts)
<1> DEFINE E == Charged(Parts)
           cells == AccessEnergies(a)
<1>1. ASSUME NEW part \in {"cellRead", "cellWrite", "cellReset", "cellSet", "bitlines", "program",
                           "erase", "rowDecoder"}
      PROVE  Of(part) \in E
  BY ChargedOf DEF Parts, Cells, AllCircuits, OfSubArray, Decoders
<1>2. Nothing \in E
  BY ChargedNothing
<1>3. \A x, y \in E : Plus(x, y) \in E
  BY ChargedPlus
<1>4. CellRead(a) \in E
  BY <1>1, <1>2 DEF CellRead
<1>5. cells.read \in E /\ cells.write \in E /\ cells.reset \in E /\ cells.set \in E
  <2>1. cells \in {CellEnergies(CellRead(a), Of("cellWrite"), Nothing, Nothing),
                   CellEnergies(CellRead(a), Nothing, Nothing, Nothing),
                   CellEnergies(CellRead(a), Plus(Of("cellReset"), Of("cellSet")),
                                Of("cellReset"), Of("cellSet")),
                   CellEnergies(CellRead(a), Of("cellWrite"), Of("cellReset"), Of("cellSet"))}
    BY DEF AccessEnergies
  <2>2. Plus(Of("cellReset"), Of("cellSet")) \in E
    BY <1>1, <1>3
  <2> HIDE DEF cells, E
  <2> QED
    BY <1>1, <1>2, <1>4, <2>1, <2>2 DEF CellEnergies
<1>6. a.associativity \in Nat \ {0}
  BY DEF IsArray
<1>7. ASSUME NEW x \in E PROVE OneWay(a, x) \in E
  BY <1>6, ChargedOver DEF OneWay
<1>8. BlockEnergy(a, "program") \in E /\ BlockEnergy(a, "erase") \in E /\ RowEnergy(a) \in E
  BY <1>1, <1>2 DEF BlockEnergy, RowEnergy
<1>9. /\ ColumnWriteEnergy(a) \in E /\ WriteEnergy(a, {"rowDecoder"}) \in E
      /\ WriteEnergy(a, Muxes \cup {"senseAmp"}) \in E /\ ReadEnergy(a, OfSubArray) \in E
  <2>1. /\ MuxDecoders \cup Muxes \cup {"senseAmp"} \subseteq OfSubArray
        /\ {"rowDecoder"} \subseteq OfSubArray /\ Muxes \cup {"senseAmp"} \subseteq OfSubArray
    BY DEF OfSubArray, Decoders
  <2> QED
    BY <2>1, CircuitEnergies DEF ColumnWriteEnergy
<1> HIDE DEF cells, E
<1>10. SetDynamicEnergy(a) \in E
  <2>1. OneWay(a, BlockEnergy(a, "program")) \in E /\ OneWay(a, cells.set) \in E
    BY <1>5, <1>7, <1>8
  <2>2. Plus(RowEnergy(a), ColumnWriteEnergy(a)) \in E
    BY <1>3, <1>8, <1>9
  <2>3. Plus(OneWay(a, cells.set), Plus(RowEnergy(a), ColumnWriteEnergy(a))) \in E
    BY <1>3, <2>1, <2>2
  <2> QED
    BY <1>3, <2>1, <2>3 DEF SetDynamicEnergy, cells
<1>11. ResetDynamicEnergy(a) \in E
  <2>1. OneWay(a, BlockEnergy(a, "erase")) \in E
    BY <1>7, <1>8
  <2>2. Plus(RowEnergy(a), ColumnWriteEnergy(a)) \in E
    BY <1>3, <1>8, <1>9
  <2>3. Plus(SetDynamicEnergy(a), Plus(RowEnergy(a), ColumnWriteEnergy(a))) \in E
    BY <1>3, <1>10, <2>2
  <2> QED
    BY <1>3, <2>1, <2>3 DEF ResetDynamicEnergy
<1>12. WriteDynamicEnergy(a) \in E
  <2> DEFINE again == IF Crossbar(a) THEN WriteEnergy(a, Muxes \cup {"senseAmp"}) ELSE Nothing
  <2>1. again \in E
    BY <1>2, <1>9
  <2> HIDE DEF again
  <2>2. Plus(ColumnWriteEnergy(a), again) \in E
    BY <1>3, <1>9, <2>1
  <2>3. Plus(WriteEnergy(a, {"rowDecoder"}), Plus(ColumnWriteEnergy(a), again)) \in E
    BY <1>3, <1>9, <2>2
  <2>4. OneWay(a, cells.write) \in E
    BY <1>5, <1>7
  <2> QED
    BY <1>3, <2>3, <2>4 DEF WriteDynamicEnergy, cells, again
<1>13. SubArrayPower(a).readDynamicEnergy \in E
  <2>1. Plus(cells.read, ReadEnergy(a, OfSubArray)) \in E
    BY <1>3, <1>5, <1>9
  <2>2. SubArrayPower(a).readDynamicEnergy
          = Plus(Of("bitlines"), Plus(cells.read, ReadEnergy(a, OfSubArray)))
    BY DEF SubArrayPower, cells
  <2> QED
    BY <1>1, <1>3, <2>1, <2>2
<1>14. /\ SubArrayPower(a).writeDynamicEnergy = WriteDynamicEnergy(a)
       /\ SubArrayPower(a).resetDynamicEnergy = ResetDynamicEnergy(a)
       /\ SubArrayPower(a).setDynamicEnergy = SetDynamicEnergy(a)
  BY DEF SubArrayPower
<1> QED
  BY <1>10, <1>11, <1>12, <1>13, <1>14 DEF EnergyNames, E

\* What a mat has beside its active subarrays.
OfMatOnly == Predecoders \cup {"comparator"}

LEMMA PredecoderEnergy ==
  ASSUME NEW a, IsArray(a)
  PROVE  PredecoderRead(a) \in Charged(OfMatOnly) /\ PredecoderWrite(a) \in Charged(OfMatOnly)
<1> DEFINE F == [p \in Predecoders |-> PredecoderOf(a, p).readDynamicEnergy]
           G == [p \in Predecoders |-> PredecoderOf(a, p).writeDynamicEnergy]
<1>1. ASSUME NEW p \in Predecoders
      PROVE  /\ PredecoderOf(a, p).readDynamicEnergy \in Charged(OfMatOnly)
             /\ PredecoderOf(a, p).writeDynamicEnergy \in Charged(OfMatOnly)
  <2>1. Of(p) \in Charged(OfMatOnly) /\ Nothing \in Charged(OfMatOnly)
    BY ChargedOf, ChargedNothing DEF OfMatOnly
  <2>2. PredecoderOf(a, p) \in {Symmetric(p), NoCost}
    BY BlockCosts
  <2> QED
    BY <2>1, <2>2, SymmetricCosts, NoCosts
<1>2. F \in [Predecoders -> Charged(OfMatOnly)] /\ G \in [Predecoders -> Charged(OfMatOnly)]
  BY <1>1
<1>3. PredecoderRead(a) = SumOver(F) /\ PredecoderWrite(a) = SumOver(G)
  BY DEF PredecoderRead, PredecoderWrite
<1> HIDE DEF F, G
<1> QED
  BY <1>2, <1>3, CircuitsAreFinite, ChargedSum

\* An energy of a mat is that of its active subarrays and something of its own.
LEMMA MatEnergy ==
  ASSUME NEW a, IsArray(a), NEW name \in EnergyNames
  PROVE  \E own \in Charged(OfMatOnly) :
           \A p \in Parts : /\ MatPower(a)[name] \in Amount
                            /\ MatPower(a)[name][p]
                                 = own[p] + a.activeSubarrays * SubArrayPower(a)[name][p]
<1> DEFINE sub == SubArrayPower(a)[name]
           n == a.activeSubarrays
           m == MatPower(a)[name]
           compare == Comparators(a, Of("comparator"))
<1>1. sub \in Amount /\ n \in Nat
  BY SubArrayEnergy DEF Charged, IsArray
<1>2. Times(n, sub) \in Amount /\ \A p \in Parts : Times(n, sub)[p] = n * sub[p]
  BY <1>1, AmountsScale
<1>3. compare \in Charged(OfMatOnly)
  <2>1. Of("comparator") \in Charged(OfMatOnly)
    BY ChargedOf DEF OfMatOnly
  <2>2. a.numWay \in Nat
    BY DEF IsArray
  <2> QED
    BY <2>1, <2>2, ChargedTimes, ChargedNothing DEF Comparators
<1>4. \/ m = Plus(Plus(PredecoderRead(a), Times(n, sub)), compare)
      \/ m = Plus(Plus(PredecoderWrite(a), Times(n, sub)), compare)
      \/ m = Plus(PredecoderWrite(a), Times(n, sub))
  <2>1. /\ ComparatorCost("comparator").readDynamicEnergy = Of("comparator")
        /\ ComparatorCost("comparator").writeDynamicEnergy = Of("comparator")
    BY SymmetricCosts DEF ComparatorCost
  <2>2. CASE name = "readDynamicEnergy"
    BY <2>1, <2>2 DEF MatPower
  <2>3. CASE name = "writeDynamicEnergy"
    BY <2>1, <2>3 DEF MatPower
  <2>4. CASE name \in {"resetDynamicEnergy", "setDynamicEnergy"}
    BY <2>4 DEF MatPower
  <2> QED
    BY <2>2, <2>3, <2>4 DEF EnergyNames
<1> HIDE DEF sub, n, m, compare
<1>5. ASSUME NEW before \in Charged(OfMatOnly), NEW after \in Charged(OfMatOnly),
             m = Plus(Plus(before, Times(n, sub)), after) \/ (after = Nothing /\ m = Plus(before, Times(n, sub)))
      PROVE  \E own \in Charged(OfMatOnly) :
               \A p \in Parts : m \in Amount /\ m[p] = own[p] + n * sub[p]
  <2>1. before \in Amount /\ after \in Amount
    BY DEF Charged
  <2>2. /\ Plus(before, Times(n, sub)) \in Amount
        /\ \A p \in Parts : Plus(before, Times(n, sub))[p] = before[p] + Times(n, sub)[p]
    BY <1>2, <2>1, AmountsAdd
  <2>3. /\ Plus(Plus(before, Times(n, sub)), after) \in Amount
        /\ \A p \in Parts : Plus(Plus(before, Times(n, sub)), after)[p]
                              = Plus(before, Times(n, sub))[p] + after[p]
    BY <2>1, <2>2, AmountsAdd
  <2>4. Plus(before, after) \in Charged(OfMatOnly)
    BY ChargedPlus
  <2>5. \A p \in Parts : Plus(before, after)[p] = before[p] + after[p]
    BY <2>1, AmountsAdd
  <2>6. \A p \in Parts : before[p] \in Int /\ after[p] \in Int /\ Times(n, sub)[p] \in Int
    BY <1>2, <2>1 DEF Amount
  <2>7. m \in Amount
    BY <1>5, <2>2, <2>3
  <2>8. ASSUME NEW p \in Parts PROVE m[p] = Plus(before, after)[p] + n * sub[p]
    <3>1. m[p] = before[p] + Times(n, sub)[p] + after[p]
      BY <1>5, <2>2, <2>3, <2>6, NothingIsAmount
    <3> QED
      BY <1>2, <2>5, <2>6, <3>1
  <2> QED
    BY <2>4, <2>7, <2>8
<1> QED
  BY <1>3, <1>4, <1>5, PredecoderEnergy, ChargedNothing DEF m, n, sub

\* A bank less its mats is its routing.
LEMMA RoutingLeft ==
  ASSUME NEW r \in RoutingAmounts, NEW n \in Nat, NEW m \in Amount
  PROVE  LET left == EnergyLeft(Plus(r, Times(n, m)), m, n)
         IN  Only(left, RoutingParts) /\ AtLeast(left, Nothing)
<1>1. r \in Amount /\ Times(n, m) \in Amount
  BY AmountsScale DEF RoutingAmounts, Charged
<1>2. EnergyLeft(Plus(r, Times(n, m)), m, n) = r
  BY <1>1, MinusOfPlus DEF EnergyLeft
<1> QED
  BY <1>2 DEF RoutingAmounts, Charged

\* A mat less its active subarrays is what it has of its own.
LEMMA OwnLeft ==
  ASSUME NEW S, NEW own \in Charged(S), NEW n \in Nat, NEW sub \in Amount, NEW m \in Amount,
         \A p \in Parts : m[p] = own[p] + n * sub[p]
  PROVE  LET left == EnergyLeft(m, sub, n)
         IN  Only(left, S) /\ AtLeast(left, Nothing)
<1>1. \A p \in Parts : own[p] \in Nat /\ (p \notin S => own[p] = 0)
  BY ChargedIsNatural
<1>2. Times(n, sub) \in Amount /\ \A p \in Parts : Times(n, sub)[p] = n * sub[p]
  BY AmountsScale
<1>3. \A p \in Parts : EnergyLeft(m, sub, n)[p] = m[p] - Times(n, sub)[p]
  BY <1>2, AmountsAdd DEF EnergyLeft
<1>4. ASSUME NEW p \in Parts PROVE EnergyLeft(m, sub, n)[p] = own[p]
  <2>1. Times(n, sub)[p] \in Int
    BY <1>2 DEF Amount
  <2> QED
    BY <1>1, <1>2, <1>3, <2>1
<1> QED
  BY <1>1, <1>4, NothingIsAmount DEF Only, AtLeast

LEMMA CostedAddUp ==
  ASSUME NEW a, NEW s, NEW m, NEW b, IsCosted(a, s, m, b)
  PROVE  /\ \A latency \in {"readLatency", "writeLatency", "resetLatency", "setLatency"} :
              LET left == Without(b[latency], m[latency])
              IN  left # {} /\ \A path \in left : Only(path, RoutingParts)
         /\ \A energy \in {"readDynamicEnergy", "writeDynamicEnergy", "resetDynamicEnergy",
                           "setDynamicEnergy"} :
              LET left == EnergyLeft(b[energy], m[energy], ActiveMats(a))
                  matLeft == EnergyLeft(m[energy], s[energy], a.activeSubarrays)
              IN  /\ Only(left, RoutingParts) /\ AtLeast(left, Nothing)
                  /\ Only(matLeft, Predecoders \cup {"comparator"}) /\ AtLeast(matLeft, Nothing)
         /\ LET left == EnergyLeft(b.leakage, m.leakage, Mats(a))
            IN  Only(left, RoutingParts) /\ AtLeast(left, Nothing)
<1>1. IsArray(a)
  BY DEF IsCosted
<1>2. IsRoutingCost(Routing(a))
  BY <1>1, RoutingCosts
<1>3. ActiveMats(a) \in Nat /\ Mats(a) \in Nat /\ a.activeSubarrays \in Nat
  BY <1>1 DEF IsArray
<1>4. ASSUME NEW latency \in LatencyNames
      PROVE  LET left == Without(b[latency], m[latency])
             IN  left # {} /\ \A path \in left : Only(path, RoutingParts)
  <2>1. \E R \in RoutingPaths : b[latency] = Then(R, m[latency])
    BY <1>2 DEF LatencyNames, WriteNames, IsCosted, IsRouted, IsRoutingCost
  <2>2. m[latency] \in Spent(Finite)
    <3>1. m[latency] = MatLatency(a)[latency]
      BY PowerFields DEF IsCosted, Has, LatencyNames, WriteNames
    <3> QED
      BY <1>1, <3>1, MatTime
  <2> QED
    BY <2>1, <2>2, LatencyLeft
<1>5. ASSUME NEW energy \in EnergyNames
      PROVE  LET left == EnergyLeft(b[energy], m[energy], ActiveMats(a))
                 matLeft == EnergyLeft(m[energy], s[energy], a.activeSubarrays)
             IN  /\ Only(left, RoutingParts) /\ AtLeast(left, Nothing)
                 /\ Only(matLeft, OfMatOnly) /\ AtLeast(matLeft, Nothing)
  <2>1. m[energy] = MatPower(a)[energy] /\ s[energy] = SubArrayPower(a)[energy]
    BY PowerFields DEF IsCosted, Has, EnergyNames
  <2>2. s[energy] \in Amount
    BY <1>1, <2>1, SubArrayEnergy DEF Charged
  <2>3. PICK own \in Charged(OfMatOnly) :
          \A p \in Parts : /\ m[energy] \in Amount
                           /\ m[energy][p] = own[p] + a.activeSubarrays * s[energy][p]
    BY <1>1, <2>1, MatEnergy
  <2>4. m[energy] \in Amount
    BY <2>3, KindsOfParts
  <2>5. \E r \in RoutingAmounts : b[energy] = Plus(r, Times(ActiveMats(a), m[energy]))
    BY <1>2 DEF EnergyNames, IsCosted, IsRouted, IsRoutingCost
  <2>6. LET left == EnergyLeft(b[energy], m[energy], ActiveMats(a))
        IN  Only(left, RoutingParts) /\ AtLeast(left, Nothing)
    BY <1>3, <2>4, <2>5, RoutingLeft
  <2>7. LET left == EnergyLeft(m[energy], s[energy], a.activeSubarrays)
        IN  Only(left, OfMatOnly) /\ AtLeast(left, Nothing)
    BY <1>3, <2>2, <2>3, <2>4, OwnLeft
  <2> QED
    BY <2>6, <2>7
<1>6. LET left == EnergyLeft(b.leakage, m.leakage, Mats(a))
      IN  Only(left, RoutingParts) /\ AtLeast(left, Nothing)
  <2>1. m.leakage = MatLeakage(a)
    <3>1. "leakage" \in DOMAIN MatPower(a) /\ MatPower(a).leakage = MatLeakage(a)
      BY DEF MatPower
    <3> QED
      BY <3>1 DEF IsCosted, Has
  <2>2. m.leakage \in Amount
    <3>1. MatLeakage(a) \in Amount
      BY <1>1, MatLeaks, Zenon
    <3> QED
      BY <2>1, <3>1
  <2>3. b.leakage = Plus(Routing(a).leakage, Times(Mats(a), m.leakage))
    BY DEF IsCosted, IsRouted
  <2> QED
    BY <1>2, <1>3, <2>2, <2>3, RoutingLeft DEF IsRoutingCost
<1> QED
  BY <1>4, <1>5, <1>6 DEF LatencyNames, WriteNames, EnergyNames, OfMatOnly

\* For every array, cell, routing and failing test: what a legal bank has more than
\* its mats, in latency, energy and leakage, is routing, and what a mat has more than
\* its active subarrays is predecoders and comparators.
THEOREM BanksAddUp == Spec => []PartsAddUp
<1>1. CostInv => PartsAddUp
  BY CostedAddUp DEF CostInv, PartsAddUp
<1> QED
  BY <1>1, InitRead, InitRefuse, InitCosts, ReadStep, RefuseStep, CostStep, PTL DEF Spec

-----------------------------------------------------------------------------
(***************************************************************************)
(* ReadsAreWhole: the ways to spend a read, circuit by circuit.            *)
(***************************************************************************)

\* One circuit of a mat is counted.
Once(p, c) == IF p = c THEN Unit ELSE 0

LEMMA OnceOf ==
  ASSUME NEW c
  PROVE  Of(c) \in Amount /\ \A p \in Parts : Of(c)[p] = Once(p, c)
BY OfIsAmount DEF Once

\* A maximum of circuits that each count themselves.
LEMMA LongestOfCircuits ==
  ASSUME NEW S \in SUBSET Parts, IsFiniteSet(S), NEW F,
         F \in [S -> Paths], \A c \in S : F[c] \in {{Of(c)}, Instant},
         \E c \in S : F[c] = {Of(c)}
  PROVE  /\ LatestOf(F) # {}
         /\ \A path \in LatestOf(F) : \E c \in S : path = Of(c) /\ F[c] = {Of(c)}
         /\ \A c \in S : F[c] = {Of(c)} => Of(c) \in LatestOf(F)
<1> DEFINE all == UNION {F[c] : c \in S}
<1>1. LatestOf(F) = Longest(all)
  BY LatestIsLongest
<1>2. \A c \in S : Of(c) # Nothing
  BY OnceOf, NothingIsAmount, UnitAssumption DEF Once
<1>3. \A c \in S : F[c] = {Of(c)} => Of(c) \in all \ Instant
  BY <1>2 DEF Instant
<1>4. all \ Instant # {}
  BY <1>3
<1>5. LatestOf(F) = all \ Instant
  BY <1>1, <1>4 DEF Longest
<1>6. \A path \in all \ Instant : \E c \in S : path = Of(c) /\ F[c] = {Of(c)}
  BY DEF Instant
<1> QED
  BY <1>3, <1>4, <1>5, <1>6

LEMMA ColumnPaths ==
  ASSUME NEW a
  PROVE  ColumnDecoderLatency(a) = {Of(d) : d \in MuxDecoders}
<1> DEFINE F == [c \in MuxDecoders |-> ReadLatencyOf(a, c)]
<1>1. MuxDecoders \subseteq Decoders /\ MuxDecoders \in SUBSET Parts /\ MuxDecoders # {}
  BY KindsOfParts DEF Decoders, MuxDecoders
<1>2. \A c \in MuxDecoders : F[c] = {Of(c)}
  BY <1>1, UnitsOf, SymmetricCosts DEF ReadLatencyOf
<1>3. F \in [MuxDecoders -> Paths]
  BY <1>2, OfIsAmount DEF Paths
<1>4. ColumnDecoderLatency(a) = LatestOf(F)
  BY DEF ColumnDecoderLatency
<1> HIDE DEF F
<1>5. /\ \A path \in LatestOf(F) : \E c \in MuxDecoders : path = Of(c)
      /\ \A c \in MuxDecoders : Of(c) \in LatestOf(F)
  BY <1>1, <1>2, <1>3, CircuitsAreFinite, LongestOfCircuits
<1> QED
  BY <1>4, <1>5

LEMMA DecoderPaths ==
  ASSUME NEW a
  PROVE  DecoderLatency(a) = {Of(d) : d \in Decoders}
<1>1. ReadLatencyOf(a, "rowDecoder") = {Of("rowDecoder")}
  BY UnitsOf, SymmetricCosts DEF ReadLatencyOf, Decoders
<1>2. ColumnDecoderLatency(a) = {Of(d) : d \in MuxDecoders}
  BY ColumnPaths
<1>3. \A c \in Decoders : Of(c) # Nothing
  BY OnceOf, NothingIsAmount, UnitAssumption, KindsOfParts DEF Once
<1>4. {Of("rowDecoder")} \cup {Of(d) : d \in MuxDecoders} = {Of(d) : d \in Decoders}
  BY DEF Decoders
<1>5. {Of(d) : d \in Decoders} \ Instant = {Of(d) : d \in Decoders}
  BY <1>3 DEF Instant
<1>6. {Of(d) : d \in Decoders} # {}
  BY DEF Decoders
<1> QED
  BY <1>1, <1>2, <1>4, <1>5, <1>6 DEF DecoderLatency, Later

\* The first block in front of a decoder that has address bits.
LEMMA FirstBlockWorks ==
  ASSUME NEW a, IsArray(a), NEW role \in DOMAIN BlocksOf, AddressBitsOf(a, role) > 0
  PROVE  \E block \in Predecoders : NumAddressBit(a, block) > 0
<1> DEFINE block == BlocksOf[role][1]
           owner == CHOOSE r \in DOMAIN BlocksOf : \E i \in {1, 2} : BlocksOf[r][i] = block
           bits == AddressBitsOf(a, role)
           second == IF bits > 3 THEN bits \div 2 ELSE 0
<1>1. DOMAIN BlocksOf = {"row", "bitlineMux", "senseAmpMuxLev1", "senseAmpMuxLev2"}
  BY DEF BlocksOf
<1>2. block \in Predecoders /\ \A r \in DOMAIN BlocksOf : (\E i \in {1, 2} : BlocksOf[r][i] = block) => r = role
  <2>1. CASE role = "row"
    BY <1>1, <2>1 DEF BlocksOf, Predecoders
  <2>2. CASE role = "bitlineMux"
    BY <1>1, <2>2 DEF BlocksOf, Predecoders
  <2>3. CASE role = "senseAmpMuxLev1"
    BY <1>1, <2>3 DEF BlocksOf, Predecoders
  <2>4. CASE role = "senseAmpMuxLev2"
    BY <1>1, <2>4 DEF BlocksOf, Predecoders
  <2> QED
    BY <1>1, <2>1, <2>2, <2>3, <2>4
<1>3. owner = role
  <2>1. \E r \in DOMAIN BlocksOf : \E i \in {1, 2} : BlocksOf[r][i] = block
    OBVIOUS
  <2> QED
    BY <1>2, <2>1
<1>4. NumAddressBit(a, block) = bits - second
  <2>1. block = BlocksOf[owner][1]
    BY <1>3
  <2>2. NumAddressBit(a, block) =
          LET n == AddressBitsOf(a, owner)
              m == IF n > 3 THEN n \div 2 ELSE 0
          IN  IF block = BlocksOf[owner][1] THEN n - m ELSE m
    BY DEF NumAddressBit
  <2> HIDE DEF owner, block
  <2> QED
    BY <1>3, <2>1, <2>2
<1>5. bits \in Nat
  <2>1. role = "row" \/ role \in Muxes
    BY <1>1 DEF Muxes
  <2>2. a.rowBits \in Nat /\ \A m \in Muxes : a.muxBits[m] \in 0 .. 30
    BY DEF IsArray
  <2> QED
    BY <2>1, <2>2 DEF AddressBitsOf
<1> HIDE DEF bits, owner, block
<1>6. bits - second > 0
  <2>1. bits > 0
    BY DEF bits
  <2> QED
    BY <1>5, <2>1
<1> QED
  BY <1>2, <1>4, <1>6

LEMMA PredecoderPaths ==
  ASSUME NEW a, IsArray(a), a.fail # "matPartition"
  PROVE  \A path \in PredecoderLatency(a) : \E b \in Predecoders : path = Of(b)
<1> DEFINE F == [p \in Predecoders |-> PredecoderOf(a, p).readLatency]
<1>1. PICK block \in Predecoders : NumAddressBit(a, block) > 0
  BY FirstBlockWorks DEF IsArray
<1>2. ASSUME NEW p \in Predecoders
      PROVE  F[p] = IF NumAddressBit(a, p) > 0 THEN {Of(p)} ELSE Instant
  BY BlockCosts, SymmetricCosts, NoCosts
<1>3. PredecoderLatency(a) = LatestOf(F)
  BY DEF PredecoderLatency
<1>4. DOMAIN F = Predecoders /\ F = [p \in Predecoders |-> F[p]]
  OBVIOUS
<1> HIDE DEF F
<1>5. F \in [Predecoders -> Paths]
  <2>1. \A p \in Predecoders : F[p] \in Paths
    BY <1>2, OfIsAmount, InstantIsPath DEF Paths
  <2> QED
    BY <1>4, <2>1
<1>6. Predecoders \in SUBSET Parts
  BY KindsOfParts
<1>7. \A p \in Predecoders : F[p] \in {{Of(p)}, Instant}
  BY <1>2
<1>8. F[block] = {Of(block)}
  BY <1>1, <1>2
<1> QED
  BY <1>3, <1>5, <1>6, <1>7, <1>8, CircuitsAreFinite, LongestOfCircuits

\* How often a way through the output circuits counts a part.
OutputCounts(a, p) ==
  CASE p \in Muxes -> IF p \in OutputUnits(a) /\ a.muxBits[p] > 0 THEN Unit ELSE 0
    [] p = "senseAmp" -> IF a.internalSenseAmp THEN Unit ELSE 0
    [] p = "ivConverter" -> IF a.internalSenseAmp /\ CurrentSense(a) THEN Unit ELSE 0
    [] OTHER -> 0

\* What a path of a latency counts if it is none of the parts.
LEMMA SpentElsewhere ==
  ASSUME NEW S, NEW L \in Spent(S), NEW p \in Parts \ S
  PROVE  Counts(L, p, 0)
BY DEF Spent, Only, Counts

\* A mux has a choice if its degree is above 1.
LEMMA ChoiceCases == ~ \E n \in 0 .. 30 : ~ (2 ^ n > 1 <=> n > 0)
BY SMT

LEMMA PowerAboveOne ==
  ASSUME NEW n \in 0 .. 30
  PROVE  2 ^ n > 1 <=> n > 0
BY ChoiceCases

LEMMA MuxCounts ==
  ASSUME NEW a, IsArray(a), NEW c \in Muxes
  PROVE  Counts(UnitOf(a, c).readLatency, c, IF a.muxBits[c] > 0 THEN Unit ELSE 0)
<1> DEFINE n == 2 ^ a.muxBits[c]
           u == MuxCost(c, n)
<1>1. UnitOf(a, c) = u
  BY UnitsOf
<1>2. n > 1 <=> a.muxBits[c] > 0
  BY PowerAboveOne DEF IsArray
<1> HIDE DEF n
<1>3. u.readLatency = IF n > 1 THEN {Of(c)} ELSE Instant
  BY MuxCosts
<1>4. c \in Parts
  BY KindsOfParts
<1>5. Of(c)[c] = Unit /\ Nothing[c] = 0
  BY <1>4, OfIsAmount, NothingIsAmount
<1> HIDE DEF u
<1> QED
  BY <1>1, <1>2, <1>3, <1>5 DEF Counts, Instant

LEMMA SensingCounts ==
  ASSUME NEW a, NEW p \in SensingParts
  PROVE  Counts(UnitOf(a, "senseAmp").readLatency, p,
                IF a.internalSenseAmp /\ (p = "senseAmp" \/ CurrentSense(a)) THEN Unit ELSE 0)
<1> DEFINE amp == Amplified("senseAmp", "ivConverter", CurrentSense(a))
<1>1. p \in Parts
  BY KindsOfParts DEF SensingParts
<1>2. CASE a.internalSenseAmp
  <2>1. UnitOf(a, "senseAmp").readLatency = {amp}
    BY <1>2, UnitsOf, SenseAmpCosts
  <2>2. amp[p] = (IF p = "senseAmp" THEN Unit ELSE 0)
                   + (IF CurrentSense(a) /\ p = "ivConverter" THEN Unit ELSE 0)
    BY <1>1, AmplifiedCounts
  <2> HIDE DEF amp
  <2>3. amp[p] = IF p = "senseAmp" \/ CurrentSense(a) THEN Unit ELSE 0
    BY <2>2, UnitAssumption DEF SensingParts
  <2> QED
    BY <1>2, <2>1, <2>3 DEF Counts
<1>3. CASE ~a.internalSenseAmp
  <2>1. UnitOf(a, "senseAmp").readLatency = Instant
    BY <1>3, UnitsOf, NoCosts
  <2> QED
    BY <1>1, <1>3, <2>1, NothingIsAmount DEF Counts, Instant
<1> QED
  BY <1>2, <1>3

LEMMA OutputPaths ==
  ASSUME NEW a, IsArray(a), NEW p \in Parts
  PROVE  Counts(ThenAll([c \in OutputUnits(a) |-> ReadLatencyOf(a, c)]), p, OutputCounts(a, p))
<1> DEFINE T == OutputUnits(a)
           F == [c \in T |-> ReadLatencyOf(a, c)]
<1>1. T \subseteq Muxes \cup {"senseAmp"} /\ "senseAmp" \in T /\ "senseAmp" \notin Muxes
      /\ "ivConverter" \notin Muxes
  BY DEF OutputUnits, Muxes
<1>2. IsFiniteSet(T)
  <2>1. IsFiniteSet(Muxes \cup {"senseAmp"})
    BY CircuitsAreFinite, FS_AddElement
  <2> QED
    BY <1>1, <2>1, FS_Subset
<1> HIDE DEF T
<1>3. /\ \A c \in T \cap Muxes : F[c] \in Spent({c})
      /\ F["senseAmp"] \in Spent(SensingParts)
      /\ \A c \in T : F[c] = UnitOf(a, c).readLatency
  BY <1>1, MuxTime, SensingTime DEF ReadLatencyOf
<1>4. F = [c \in T |-> F[c]]
  OBVIOUS
<1> HIDE DEF F
<1>5. F \in [T -> Paths]
  <2>1. \A c \in T : F[c] \in Paths
    BY <1>1, <1>3, SpentIsPaths
  <2> QED
    BY <1>4, <2>1
<1>6. ASSUME NEW x \in T \ {p}, ~(x = "senseAmp" /\ p = "ivConverter") PROVE Counts(F[x], p, 0)
  <2>1. CASE x \in Muxes
    <3>1. F[x] \in Spent({x}) /\ p \in Parts \ {x}
      BY <1>3, <1>6, <2>1
    <3> QED
      BY <3>1, SpentElsewhere
  <2>2. CASE x = "senseAmp"
    BY <1>3, <1>6, <2>2, SpentElsewhere DEF SensingParts
  <2> QED
    BY <1>1, <2>1, <2>2
<1>7. CASE p \in Muxes
  <2> DEFINE n == IF a.muxBits[p] > 0 THEN Unit ELSE 0
  <2>1. p \in T => Counts(F[p], p, n)
    BY <1>3, <1>7, MuxCounts
  <2>2. \A x \in T \ {p} : Counts(F[x], p, 0)
    BY <1>1, <1>6, <1>7
  <2>3. n \in Int
    BY UnitAssumption
  <2> HIDE DEF n
  <2>4. Counts(ThenAll(F), p, IF p \in T THEN n ELSE 0)
    BY <1>2, <1>5, <2>1, <2>2, <2>3, AllOfOne
  <2>5. OutputCounts(a, p) = IF p \in T THEN n ELSE 0
    BY <1>1, <1>7 DEF OutputCounts, T, n
  <2> QED
    BY <2>4, <2>5 DEF F, T
<1>8. CASE p \in SensingParts
  <2> DEFINE n == IF a.internalSenseAmp /\ (p = "senseAmp" \/ CurrentSense(a)) THEN Unit ELSE 0
  <2>1. Counts(F["senseAmp"], p, n)
    BY <1>1, <1>3, <1>8, SensingCounts
  <2>2. \A x \in T \ {"senseAmp"} : Counts(F[x], p, 0)
    BY <1>1, <1>6, <1>8 DEF SensingParts
  <2>3. n \in Int
    BY UnitAssumption
  <2> HIDE DEF n
  <2>4. Counts(ThenAll(F), p, IF "senseAmp" \in T THEN n ELSE 0)
    BY <1>2, <1>5, <2>1, <2>2, <2>3, AllOfOne
  <2>5. OutputCounts(a, p) = n
    BY <1>1, <1>8 DEF OutputCounts, SensingParts, n
  <2> QED
    BY <1>1, <2>4, <2>5 DEF F, T
<1>9. CASE p \notin Muxes \cup SensingParts
  <2>1. p \notin T
    BY <1>1, <1>9 DEF SensingParts
  <2>2. \A x \in T \ {p} : Counts(F[x], p, 0)
    BY <1>6, <1>9 DEF SensingParts
  <2>3. Counts(ThenAll(F), p, IF p \in T THEN 0 ELSE 0)
    BY <1>2, <1>5, <2>1, <2>2, AllOfOne
  <2>4. OutputCounts(a, p) = 0
    BY <1>9 DEF OutputCounts, SensingParts
  <2> QED
    BY <2>3, <2>4 DEF F, T
<1> QED
  BY <1>7, <1>8, <1>9

\* A way to read a subarray has one decoder, the bitline and the output circuits.
LEMMA SubArrayPaths ==
  ASSUME NEW a, IsArray(a), NEW path \in SubArrayReadLatency(a)
  PROVE  /\ path \in Amount
         /\ \E d \in Decoders : \A p \in Parts :
              path[p] = Once(p, d) + Once(p, "bitline") + OutputCounts(a, p)
<1> DEFINE all == ThenAll([c \in OutputUnits(a) |-> ReadLatencyOf(a, c)])
           after == Then({Of("bitline")}, all)
<1>1. path \in Amount
  BY ReadTime DEF Spent, Paths
<1>2. path \in Then(DecoderLatency(a), after)
  BY DEF SubArrayReadLatency
<1>3. \A p \in Parts : Counts(all, p, OutputCounts(a, p))
  BY OutputPaths
<1>4. all \in Paths
  <2> DEFINE F == [c \in OutputUnits(a) |-> ReadLatencyOf(a, c)]
  <2>1. IsFiniteSet(Muxes \cup {"senseAmp"}) /\ OutputUnits(a) \subseteq Muxes \cup {"senseAmp"}
    BY CircuitsAreFinite, FS_AddElement DEF OutputUnits
  <2>2. IsFiniteSet(OutputUnits(a))
    BY <2>1, FS_Subset
  <2>3. \A c \in OutputUnits(a) : ReadLatencyOf(a, c) \in Paths
    BY <2>1, MuxTime, SensingTime, SpentIsPaths DEF ReadLatencyOf
  <2>4. F \in [OutputUnits(a) -> Paths]
    BY <2>3
  <2> HIDE DEF F
  <2>5. PICK it : ThenAll(F) = it[OutputUnits(a)] /\ AllBy(it, OutputUnits(a), F)
    BY <2>2, <2>4, AllFold
  <2>6. ThenAll(F) \in Paths
    BY <2>5 DEF AllBy
  <2> QED
    BY <2>6 DEF F
<1> HIDE DEF all
<1>5. PICK x \in DecoderLatency(a), y \in after : path = Plus(x, y)
  BY <1>2, ThenJoins
<1>6. PICK z \in all : y = Plus(Of("bitline"), z)
  BY <1>5, ThenJoins
<1>7. PICK d \in Decoders : x = Of(d)
  BY <1>5, DecoderPaths
<1>8. z \in Amount /\ x \in Amount /\ Of("bitline") \in Amount
  BY <1>4, <1>6, <1>7, OfIsAmount DEF Paths
<1>9. y \in Amount /\ \A p \in Parts : y[p] = Of("bitline")[p] + z[p]
  BY <1>6, <1>8, AmountsAdd
<1>10. \A p \in Parts : path[p] = x[p] + y[p]
  BY <1>5, <1>8, <1>9, AmountsAdd
<1>11. ASSUME NEW p \in Parts
       PROVE  path[p] = Once(p, d) + Once(p, "bitline") + OutputCounts(a, p)
  <2>1. x[p] = Once(p, d) /\ Of("bitline")[p] = Once(p, "bitline")
    BY <1>7, OnceOf
  <2>2. z[p] = OutputCounts(a, p) /\ z[p] \in Int
    BY <1>3, <1>6, <1>8 DEF Counts, Amount
  <2>3. Once(p, d) \in Int /\ Once(p, "bitline") \in Int
    BY UnitAssumption DEF Once
  <2> QED
    BY <1>9, <1>10, <2>1, <2>2, <2>3
<1> QED
  BY <1>1, <1>11

\* A way to read a mat has a predecoder too, and a comparator for tags.
LEMMA MatPaths ==
  ASSUME NEW a, IsArray(a), a.fail # "matPartition", NEW path \in MatLatency(a).readLatency
  PROVE  /\ path \in Amount
         /\ \E d \in Decoders, b \in Predecoders : \A p \in Parts :
              path[p] = Once(p, b) + Once(p, d) + Once(p, "bitline") + OutputCounts(a, p)
                          + (IF HasComparator(a) THEN Once(p, "comparator") ELSE 0)
<1> DEFINE read == Then(PredecoderLatency(a), SubArrayReadLatency(a))
           compare == ComparatorCost("comparator").readLatency
           m == MatLatency(a).readLatency
<1>1. m = IF HasComparator(a) THEN Then(read, compare) ELSE read
  BY DEF MatLatency, SubArrayLatency
<1>2. compare = {Of("comparator")}
  BY SymmetricCosts DEF ComparatorCost
<1>3. path \in Amount
  BY MatTime DEF Spent, Paths, LatencyNames
<1>4. ASSUME NEW x \in read
      PROVE  /\ x \in Amount
             /\ \E d \in Decoders, b \in Predecoders : \A p \in Parts :
                  x[p] = Once(p, b) + Once(p, d) + Once(p, "bitline") + OutputCounts(a, p)
  <2>1. PICK y \in PredecoderLatency(a), z \in SubArrayReadLatency(a) : x = Plus(y, z)
    BY ThenJoins
  <2>2. PICK b \in Predecoders : y = Of(b)
    BY <2>1, PredecoderPaths
  <2>3. z \in Amount
    BY <2>1, SubArrayPaths
  <2>4. PICK d \in Decoders : \A p \in Parts :
          z[p] = Once(p, d) + Once(p, "bitline") + OutputCounts(a, p)
    BY <2>1, SubArrayPaths
  <2>5. y \in Amount /\ \A p \in Parts : y[p] = Once(p, b)
    BY <2>2, OnceOf
  <2>6. x \in Amount /\ \A p \in Parts : x[p] = y[p] + z[p]
    BY <2>1, <2>3, <2>5, AmountsAdd
  <2>7. \A p, c \in Parts : Once(p, c) \in Int /\ OutputCounts(a, p) \in Int
    BY UnitAssumption DEF Once, OutputCounts
  <2>8. b \in Parts /\ d \in Parts /\ "bitline" \in Parts
    BY KindsOfParts DEF Bitlines
  <2>9. ASSUME NEW p \in Parts
        PROVE  x[p] = Once(p, b) + Once(p, d) + Once(p, "bitline") + OutputCounts(a, p)
    <3>1. /\ Once(p, b) \in Int /\ Once(p, d) \in Int /\ Once(p, "bitline") \in Int
          /\ OutputCounts(a, p) \in Int
      BY <2>7, <2>8
    <3> QED
      BY <2>4, <2>5, <2>6, <3>1
  <2> QED
    BY <2>6, <2>9
<1> HIDE DEF read, m, compare
<1>5. CASE ~HasComparator(a)
  <2>1. path \in read
    BY <1>1, <1>5 DEF m
  <2>2. PICK d \in Decoders, b \in Predecoders : \A p \in Parts :
          path[p] = Once(p, b) + Once(p, d) + Once(p, "bitline") + OutputCounts(a, p)
    BY <1>4, <2>1
  <2>3. \A p \in Parts : path[p] = path[p] + 0
    BY <1>3 DEF Amount
  <2> QED
    BY <1>3, <1>5, <2>2, <2>3
<1>6. CASE HasComparator(a)
  <2>1. path \in Then(read, compare)
    BY <1>1, <1>6 DEF m
  <2>2. PICK x \in read, y \in compare : path = Plus(x, y)
    BY <2>1, ThenJoins
  <2>3. y = Of("comparator")
    BY <1>2, <2>2
  <2>4. x \in Amount
    BY <1>4
  <2>5. \A p \in Parts : path[p] = x[p] + Once(p, "comparator")
    BY <2>2, <2>3, <2>4, OnceOf, AmountsAdd
  <2> QED
    BY <1>3, <1>4, <1>6, <2>5
<1> QED
  BY <1>5, <1>6

\* How often a way to spend the routing of a read counts a part of WholeRead.  The
\* bitline may be replaced by one of its two names.
SharedBitline(path) ==
  \E line \in Bitlines : \A p \in Bitlines : path[p] = Once(p, line) - Once(p, "bitline")

\* What a route takes back is the delay of bitlines only.
AddsDelay(path) == \A p \in Parts \ Bitlines : path[p] >= 0

RouteCounts(a, path) ==
  LET outside == ~a.internalSenseAmp
  IN  /\ SharedBitline(path) /\ AddsDelay(path)
      /\ path["globalSenseAmp"] = IF ~outside THEN 0
                                  ELSE IF a.cellType = "SRAM" THEN 2 * Unit ELSE Unit
      /\ path["globalIvConverter"] = IF outside /\ CurrentSense(a) THEN Unit ELSE 0
      /\ path["globalComparator"] = IF outside /\ a.memoryType = "tag" THEN Unit ELSE 0

LEMMA SameBitline ==
  ASSUME NEW path, \A p \in Bitlines : path[p] = 0
  PROVE  SharedBitline(path)
<1>1. "bitline" \in Bitlines
  BY DEF Bitlines
<1>2. \A p \in Bitlines : path[p] = Once(p, "bitline") - Once(p, "bitline")
  BY UnitAssumption DEF Once
<1> QED
  BY <1>1, <1>2 DEF SharedBitline

LEMMA WiresCount ==
  ASSUME NEW a, a.internalSenseAmp, NEW path \in Amount, Only(path, {"wire"}), path["wire"] >= 0
  PROVE  RouteCounts(a, path)
<1>1. /\ Bitlines \subseteq Parts \ {"wire"}
      /\ {"globalSenseAmp", "globalIvConverter", "globalComparator"} \subseteq Parts \ {"wire"}
  BY KindsOfParts DEF Bitlines, Converters
<1>2. AddsDelay(path)
  BY DEF AddsDelay, Only
<1> QED
  BY <1>1, <1>2, SameBitline DEF RouteCounts, Only

\* The delay of the global bitline and, for SRAM, what is behind it.
LinePaths(a, l) ==
  /\ l \in Amount
  /\ SharedBitline(l) /\ AddsDelay(l)
  /\ l["globalSenseAmp"] = IF a.cellType = "SRAM" THEN Unit ELSE 0
  /\ l["globalIvConverter"] = IF a.cellType = "SRAM" /\ CurrentSense(a) THEN Unit ELSE 0
  /\ l["globalComparator"] = 0

\* The mux and the sense amplifiers of a bus.
GlobalPart(a, x, y) ==
  /\ x \in Amount /\ Only(x, {"globalBitlineMux"}) /\ \A p \in Parts : x[p] >= 0
  /\ y \in Amount
  /\ \A p \in Parts : y[p] = Once(p, "globalSenseAmp")
                               + (IF CurrentSense(a) THEN Once(p, "globalIvConverter") ELSE 0)

LEMMA GlobalPaths ==
  ASSUME NEW a, IsArray(a),
         NEW x \in GlobalMux(a).readLatency, NEW y \in GlobalSenseAmp(a).readLatency
  PROVE  GlobalPart(a, x, y)
<1>1. x \in {Of("globalBitlineMux"), Nothing}
  BY NoCosts DEF GlobalMux, MuxCost, Cost, Instant
<1>2. x \in Amount /\ Only(x, {"globalBitlineMux"}) /\ \A p \in Parts : x[p] >= 0
  BY <1>1, OfIsAmount, NothingIsAmount, UnitAssumption DEF Only
<1>3. y = Amplified("globalSenseAmp", "globalIvConverter", CurrentSense(a))
  BY SenseAmpCosts DEF GlobalSenseAmp
<1>4. /\ y \in Amount
      /\ \A p \in Parts : y[p] = (IF p = "globalSenseAmp" THEN Unit ELSE 0)
                             + (IF CurrentSense(a) /\ p = "globalIvConverter" THEN Unit ELSE 0)
  BY <1>3, AmplifiedCounts
<1> QED
  BY <1>2, <1>4 DEF GlobalPart, Once

LEMMA LinePathCounts ==
  ASSUME NEW a, IsArray(a), NEW l \in GlobalBitlineCost(a).readLatency
  PROVE  LinePaths(a, l)
<1> DEFINE line == Of("globalBitline")
           taken == Minus(line, Of("bitline"))
<1>1. /\ Bitlines \subseteq Parts /\ Converters \subseteq Parts
      /\ {"globalBitline", "globalSenseAmp", "globalIvConverter", "globalComparator",
          "globalBitlineMux"} \subseteq Parts
      /\ {"globalBitline", "globalSenseAmp", "globalIvConverter", "globalComparator",
          "globalBitlineMux"} \cap Bitlines = {}
      /\ Bitlines = {"bitline", "bitlineOn", "bitlineOff"}
  BY KindsOfParts DEF Bitlines, Converters
<1>2. line \in Amount /\ \A p \in Parts : line[p] = Once(p, "globalBitline")
  BY OnceOf
<1>3. "SRAM" \notin Resistive
  BY DEF Resistive
<1>4. CASE a.cellType = "SRAM"
  <2>1. l \in Then(Then({line}, GlobalMux(a).readLatency), GlobalSenseAmp(a).readLatency)
    BY <1>3, <1>4 DEF GlobalBitlineCost, Cost
  <2>2. PICK z \in Then({line}, GlobalMux(a).readLatency), y \in GlobalSenseAmp(a).readLatency :
          l = Plus(z, y)
    BY <2>1, ThenJoins
  <2>3. PICK x \in GlobalMux(a).readLatency : z = Plus(line, x)
    BY <2>2, ThenJoins
  <2>4. GlobalPart(a, x, y)
    BY <2>2, <2>3, GlobalPaths
  <2>5. z \in Amount /\ \A p \in Parts : z[p] = line[p] + x[p]
    BY <1>2, <2>3, <2>4, AmountsAdd DEF GlobalPart
  <2>6. l \in Amount /\ \A p \in Parts : l[p] = z[p] + y[p]
    BY <2>2, <2>4, <2>5, AmountsAdd DEF GlobalPart
  <2>7. ASSUME NEW p \in Parts \ {"globalBitline", "globalBitlineMux"}
        PROVE  l[p] = Once(p, "globalSenseAmp")
                        + (IF CurrentSense(a) THEN Once(p, "globalIvConverter") ELSE 0)
    <3>1. line[p] = 0 /\ x[p] = 0
      BY <1>2, <2>4 DEF GlobalPart, Only, Once
    <3>2. y[p] = Once(p, "globalSenseAmp")
                   + (IF CurrentSense(a) THEN Once(p, "globalIvConverter") ELSE 0)
      BY <2>4 DEF GlobalPart
    <3>3. y[p] \in Int
      BY <2>4 DEF GlobalPart, Amount
    <3> QED
      BY <2>5, <2>6, <3>1, <3>2, <3>3
  <2>8. SharedBitline(l)
    <3>1. \A p \in Bitlines : l[p] = 0
      BY <1>1, <2>7 DEF Once
    <3> QED
      BY <3>1, SameBitline
  <2>9. /\ l["globalSenseAmp"] = Unit /\ l["globalComparator"] = 0
        /\ l["globalIvConverter"] = IF CurrentSense(a) THEN Unit ELSE 0
    BY <1>1, <2>7, UnitAssumption DEF Once
  <2>10. ASSUME NEW p \in Parts \ Bitlines PROVE l[p] >= 0
    <3>1. l[p] = line[p] + x[p] + y[p]
      BY <2>5, <2>6
    <3>2. line[p] \in Nat
      BY <1>2, UnitAssumption DEF Once
    <3>3. y[p] \in Nat
      BY <2>4, UnitAssumption DEF GlobalPart, Once
    <3>4. x[p] \in Nat
      BY <2>4 DEF GlobalPart, Amount
    <3> HIDE DEF line
    <3> QED
      BY <3>1, <3>2, <3>3, <3>4
  <2>11. AddsDelay(l)
    BY <2>10 DEF AddsDelay
  <2> QED
    BY <1>4, <2>6, <2>8, <2>9, <2>11 DEF LinePaths
<1>5. ASSUME a.cellType # "SRAM", l \in Amount, SharedBitline(l), AddsDelay(l),
             \A p \in {"globalSenseAmp", "globalIvConverter", "globalComparator"} : l[p] = 0
      PROVE  LinePaths(a, l)
  BY <1>5 DEF LinePaths
<1>6. CASE a.cellType \in Resistive /\ a.readMode
  <2>1. PICK part \in {"bitlineOn", "bitlineOff"} : l = Plus(taken, Of(part))
    BY <1>3, <1>6 DEF GlobalBitlineCost, Cost
  <2>2. taken \in Amount /\ \A p \in Parts : taken[p] = line[p] - Once(p, "bitline")
    BY <1>2, OnceOf, AmountsAdd
  <2> HIDE DEF taken
  <2>3. l \in Amount /\ \A p \in Parts : l[p] = taken[p] + Once(p, part)
    BY <2>1, <2>2, OnceOf, AmountsAdd
  <2>4. ASSUME NEW p \in Parts \ {"globalBitline"} PROVE l[p] = Once(p, part) - Once(p, "bitline")
    <3>1. line[p] = 0
      BY <1>2 DEF Once
    <3> QED
      BY <2>2, <2>3, <3>1, UnitAssumption DEF Once
  <2>5. part \in Bitlines
    BY <1>1, <2>1
  <2>6. SharedBitline(l)
    BY <1>1, <2>4, <2>5 DEF SharedBitline
  <2>7. \A p \in {"globalSenseAmp", "globalIvConverter", "globalComparator"} : l[p] = 0
    BY <1>1, <2>4, <2>5 DEF Once
  <2>8. ASSUME NEW p \in Parts \ Bitlines PROVE l[p] >= 0
    <3>1. l[p] = line[p]
      <4>1. Once(p, part) = 0 /\ Once(p, "bitline") = 0
        BY <1>1, <2>5 DEF Once
      <4>2. line[p] \in Int
        BY <1>2 DEF Amount
      <4> HIDE DEF line
      <4> QED
        BY <2>2, <2>3, <4>1, <4>2
    <3> QED
      BY <1>2, <3>1, UnitAssumption DEF Once
  <2>9. AddsDelay(l)
    BY <2>8 DEF AddsDelay
  <2> QED
    BY <1>3, <1>5, <1>6, <2>3, <2>6, <2>7, <2>9
<1>7. CASE a.cellType # "SRAM" /\ ~(a.cellType \in Resistive /\ a.readMode)
  <2>1. l \in {line, Nothing}
    BY <1>7, NoCosts DEF GlobalBitlineCost, Cost, Instant
  <2>2. l \in Amount /\ \A p \in Parts \ {"globalBitline"} : l[p] = 0
    BY <1>2, <2>1, NothingIsAmount DEF Once
  <2>3. SharedBitline(l)
    BY <1>1, <2>2, SameBitline
  <2>4. AddsDelay(l)
    BY <1>2, <2>1, NothingIsAmount, UnitAssumption DEF AddsDelay, Once
  <2> QED
    BY <1>1, <1>5, <1>7, <2>2, <2>3, <2>4
<1> QED
  BY <1>4, <1>6, <1>7

LEMMA OutsidePaths ==
  ASSUME NEW a, IsArray(a), ~a.internalSenseAmp, NEW path \in ExternalRouting(a).readLatency
  PROVE  RouteCounts(a, path)
<1> DEFINE line == GlobalBitlineCost(a)
           mux == GlobalMux(a)
           amp == GlobalSenseAmp(a)
           read == Then(Then(line.readLatency, mux.readLatency), amp.readLatency)
           tag == a.memoryType = "tag"
<1>1. /\ Bitlines \subseteq Parts
      /\ {"globalSenseAmp", "globalIvConverter", "globalComparator", "globalBitlineMux"} \subseteq Parts
      /\ {"globalSenseAmp", "globalIvConverter", "globalComparator", "globalBitlineMux"}
           \cap Bitlines = {}
  BY KindsOfParts DEF Bitlines, Converters
<1>2. /\ ~tag => path \in read
      /\ tag => path \in Then(read, GlobalComparator.readLatency)
  BY DEF ExternalRouting, Cost
<1>3. GlobalComparator.readLatency = {Of("globalComparator")}
  BY SymmetricCosts DEF GlobalComparator, ComparatorCost
<1>4. ASSUME NEW z \in read
      PROVE  /\ z \in Amount /\ SharedBitline(z) /\ AddsDelay(z)
             /\ z["globalSenseAmp"] = IF a.cellType = "SRAM" THEN 2 * Unit ELSE Unit
             /\ z["globalIvConverter"] = IF CurrentSense(a) THEN Unit ELSE 0
             /\ z["globalComparator"] = 0
  <2>1. PICK w \in Then(line.readLatency, mux.readLatency), y \in amp.readLatency : z = Plus(w, y)
    BY <1>4, ThenJoins
  <2>2. PICK l \in line.readLatency, x \in mux.readLatency : w = Plus(l, x)
    BY <2>1, ThenJoins
  <2>3. GlobalPart(a, x, y) /\ LinePaths(a, l)
    BY <2>1, <2>2, GlobalPaths, LinePathCounts
  <2> HIDE DEF line, mux, amp
  <2>4. w \in Amount /\ \A p \in Parts : w[p] = l[p] + x[p]
    BY <2>2, <2>3, AmountsAdd DEF GlobalPart, LinePaths
  <2>5. z \in Amount /\ \A p \in Parts : z[p] = w[p] + y[p]
    BY <2>1, <2>3, <2>4, AmountsAdd DEF GlobalPart
  <2>6. ASSUME NEW p \in Parts \ {"globalBitlineMux"}
        PROVE  z[p] = l[p] + (Once(p, "globalSenseAmp")
                                + (IF CurrentSense(a) THEN Once(p, "globalIvConverter") ELSE 0))
    <3>1. x[p] = 0
      BY <2>3 DEF GlobalPart, Only
    <3>2. y[p] = Once(p, "globalSenseAmp")
                   + (IF CurrentSense(a) THEN Once(p, "globalIvConverter") ELSE 0)
      BY <2>3 DEF GlobalPart
    <3>3. l[p] \in Int
      BY <2>3 DEF LinePaths, Amount
    <3> QED
      BY <2>4, <2>5, <3>1, <3>2, <3>3
  <2>7. SharedBitline(z)
    <3>1. PICK bl \in Bitlines : \A p \in Bitlines : l[p] = Once(p, bl) - Once(p, "bitline")
      BY <2>3 DEF LinePaths, SharedBitline
    <3>2. ASSUME NEW p \in Bitlines PROVE z[p] = Once(p, bl) - Once(p, "bitline")
      <4>1. p \in Parts \ {"globalBitlineMux"} /\ p \notin {"globalSenseAmp", "globalIvConverter"}
        BY <1>1
      <4>2. z[p] = l[p] + 0
        BY <2>6, <4>1 DEF Once
      <4> QED
        BY <3>1, <4>2, UnitAssumption DEF Once
    <3> QED
      BY <3>2 DEF SharedBitline
  <2>8. /\ l["globalSenseAmp"] = IF a.cellType = "SRAM" THEN Unit ELSE 0
        /\ l["globalIvConverter"] = 0
        /\ l["globalComparator"] = 0
    <3>1. a.cellType = "SRAM" => ~CurrentSense(a)
      BY DEF CurrentSense, Resistive
    <3> QED
      BY <2>3, <3>1 DEF LinePaths
  <2>9. z["globalSenseAmp"] = IF a.cellType = "SRAM" THEN 2 * Unit ELSE Unit
    BY <1>1, <2>6, <2>8, UnitAssumption DEF Once
  <2>10. z["globalIvConverter"] = IF CurrentSense(a) THEN Unit ELSE 0
    BY <1>1, <2>6, <2>8, UnitAssumption DEF Once
  <2>11. z["globalComparator"] = 0
    BY <1>1, <2>6, <2>8 DEF Once
  <2>12. ASSUME NEW p \in Parts \ Bitlines PROVE z[p] >= 0
    <3>1. z[p] = l[p] + x[p] + y[p]
      BY <2>4, <2>5
    <3>2. l[p] \in Nat
      BY <2>3 DEF LinePaths, AddsDelay, Amount
    <3>3. y[p] \in Nat
      BY <2>3, UnitAssumption DEF GlobalPart, Once
    <3>4. x[p] \in Nat
      BY <2>3 DEF GlobalPart, Amount
    <3> QED
      BY <3>1, <3>2, <3>3, <3>4
  <2>13. AddsDelay(z)
    BY <2>12 DEF AddsDelay
  <2> QED
    BY <2>5, <2>7, <2>9, <2>10, <2>11, <2>13
<1> HIDE DEF read
<1>5. CASE ~tag
  BY <1>2, <1>4, <1>5 DEF RouteCounts
<1>6. CASE tag
  <2>1. PICK z \in read, c \in GlobalComparator.readLatency : path = Plus(z, c)
    BY <1>2, <1>6, ThenJoins
  <2>2. c = Of("globalComparator")
    BY <1>3, <2>1
  <2>3. z \in Amount
    BY <1>4
  <2>4. \A p \in Parts : path[p] = z[p] + Once(p, "globalComparator")
    BY <2>1, <2>2, <2>3, OnceOf, AmountsAdd
  <2>5. \A p \in Parts \ {"globalComparator"} : path[p] = z[p]
    <3>1. \A p \in Parts : z[p] \in Int
      BY <2>3 DEF Amount
    <3> QED
      BY <2>4, <3>1 DEF Once
  <2>6. path["globalComparator"] = Unit
    BY <1>1, <1>4, <2>4, UnitAssumption DEF Once
  <2>7. SharedBitline(path)
    <3>1. \A p \in Bitlines : path[p] = z[p]
      BY <1>1, <2>5
    <3>2. SharedBitline(z)
      BY <1>4
    <3> QED
      BY <3>1, <3>2 DEF SharedBitline
  <2>8. AddsDelay(path)
    <3>1. path["globalComparator"] >= 0
      BY <2>6, UnitAssumption
    <3>2. AddsDelay(z)
      BY <1>4
    <3> QED
      BY <2>5, <3>1, <3>2 DEF AddsDelay
  <2> QED
    BY <1>1, <1>4, <1>6, <2>5, <2>6, <2>7, <2>8 DEF RouteCounts
<1> QED
  BY <1>5, <1>6

LEMMA RoutePaths ==
  ASSUME NEW a, IsArray(a), NEW path \in Routing(a).readLatency
  PROVE  RouteCounts(a, path)
<1>1. CASE a.tree
  <2>1. a.internalSenseAmp /\ Len(a.levels) \in Nat
    BY <1>1 DEF IsArray
  <2>2. path = Times(2 * Len(a.levels), Of("wire"))
    BY <1>1 DEF Routing, TreeRouting, Cost
  <2> DEFINE n == 2 * Len(a.levels)
  <2>3. n \in Nat
    BY <2>1
  <2> HIDE DEF n
  <2>4. /\ path \in Amount
        /\ \A p \in Parts : path[p] = n * Once(p, "wire")
    <3>1. n \in Int /\ path = Times(n, Of("wire"))
      BY <2>2, <2>3 DEF n
    <3> QED
      BY <3>1, OnceOf, AmountsScale
  <2>5. n * 0 = 0
    BY <2>3
  <2>6. Only(path, {"wire"})
    BY <2>4, <2>5 DEF Only, Once
  <2>7. path["wire"] = n * Unit
    BY <2>4, KindsOfParts DEF Once
  <2>8. n * Unit \in Nat
    BY <2>3, UnitAssumption
  <2> QED
    BY <2>1, <2>4, <2>6, <2>7, <2>8, WiresCount
<1>2. CASE ~a.tree /\ a.internalSenseAmp
  <2>1. path = Of("wire")
    BY <1>2 DEF Routing, BusRouting, InternalRouting, Cost
  <2>2. path \in Amount /\ Only(path, {"wire"}) /\ path["wire"] >= 0
    BY <2>1, OnceOf, KindsOfParts, UnitAssumption DEF Only, Once
  <2> QED
    BY <1>2, <2>2, WiresCount
<1>3. CASE ~a.tree /\ ~a.internalSenseAmp
  <2>1. Routing(a).readLatency = ExternalRouting(a).readLatency
    BY <1>3 DEF Routing, BusRouting, ExternalRouting, Cost
  <2> QED
    BY <1>3, <2>1, OutsidePaths
<1> QED
  BY <1>1, <1>2, <1>3

-----------------------------------------------------------------------------
\* What a subarray that is not refused has passed: it has address bits to decode, and
\* eDRAM has no choice of bitlines.
IsSound(a) ==
  /\ a.fail # "matPartition"
  /\ a.cellType = "eDRAM" => a.muxBits["bitlineMux"] = 0

LEMMA PairIsFinite ==
  ASSUME NEW x, NEW y
  PROVE  IsFiniteSet({x, y})
<1>1. IsFiniteSet({x}) /\ IsFiniteSet({y}) /\ {x, y} = {x} \cup {y}
  BY FS_Singleton
<1> QED
  BY <1>1, FS_Union, Zenon

\* A mat of a sound array and its routing: a way counts each part so often.
LEMMA BankPaths ==
  ASSUME NEW a, NEW s, NEW m, NEW b, IsCosted(a, s, m, b), a.fail # "matPartition",
         NEW path \in b.readLatency
  PROVE  /\ path \in Amount
         /\ \E r \in Amount, c \in Decoders, d \in Predecoders :
              /\ RouteCounts(a, r) /\ Only(r, RoutingParts)
              /\ \A p \in Parts :
                   path[p] = r[p] + (Once(p, d) + Once(p, c) + Once(p, "bitline") + OutputCounts(a, p)
                               + (IF HasComparator(a) THEN Once(p, "comparator") ELSE 0))
<1>1. IsArray(a) /\ b.readLatency = Then(Routing(a).readLatency, m.readLatency)
  BY DEF IsCosted, IsRouted
<1>2. m.readLatency = MatLatency(a).readLatency
  <2>1. "readLatency" \in DOMAIN MatLatency(a)
    BY DEF MatLatency
  <2> QED
    BY <2>1 DEF IsCosted, Has
<1>3. PICK r \in Routing(a).readLatency, n \in MatLatency(a).readLatency : path = Plus(r, n)
  BY <1>1, <1>2, ThenJoins
<1>4. RouteCounts(a, r)
  BY <1>1, <1>3, RoutePaths
<1>5. r \in Amount /\ Only(r, RoutingParts)
  BY <1>1, <1>3, RoutingCosts DEF IsRoutingCost, RoutingPaths, Paths
<1>6. /\ n \in Amount
      /\ \E c \in Decoders, d \in Predecoders : \A p \in Parts :
           n[p] = Once(p, d) + Once(p, c) + Once(p, "bitline") + OutputCounts(a, p)
                    + (IF HasComparator(a) THEN Once(p, "comparator") ELSE 0)
  BY <1>1, <1>3, MatPaths
<1>7. path \in Amount /\ \A p \in Parts : path[p] = r[p] + n[p]
  BY <1>3, <1>5, <1>6, AmountsAdd
<1> QED
  BY <1>4, <1>5, <1>6, <1>7

\* Every way to read a sound bank is whole.
LEMMA SoundReads ==
  ASSUME NEW a, NEW s, NEW m, NEW b, IsCosted(a, s, m, b), IsSound(a),
         NEW path \in b.readLatency
  PROVE  WholeRead(a, path)
<1>1. PICK r \in Amount, c \in Decoders, d \in Predecoders :
        /\ RouteCounts(a, r) /\ Only(r, RoutingParts)
        /\ \A p \in Parts :
             path[p] = r[p] + (Once(p, d) + Once(p, c) + Once(p, "bitline") + OutputCounts(a, p)
                         + (IF HasComparator(a) THEN Once(p, "comparator") ELSE 0))
  BY BankPaths DEF IsSound
<1>2. path \in Amount /\ \A p \in Parts : path[p] \in Int
  BY BankPaths DEF IsSound, Amount
<1>3. Unit \in Nat /\ \A p \in Parts : r[p] \in Int
  BY UnitAssumption DEF Amount
<1>4. /\ Predecoders \cup Decoders \cup Muxes \cup Converters \cup Bitlines
           \cup {"senseAmp", "comparator"} \cup RoutingParts \subseteq Parts
      /\ Predecoders \cap (Decoders \cup Muxes \cup {"senseAmp", "comparator", "bitline", "ivConverter"}
                             \cup RoutingParts) = {}
      /\ Decoders \cap (Muxes \cup {"senseAmp", "comparator", "bitline", "ivConverter"}
                          \cup RoutingParts) = {}
      /\ Muxes \cap ({"senseAmp", "comparator", "bitline", "ivConverter"} \cup RoutingParts) = {}
      /\ {"senseAmp", "comparator", "ivConverter"} \cap RoutingParts = {}
      /\ RoutingParts = {"wire", "globalBitline", "globalBitlineMux", "globalSenseAmp",
                         "globalComparator", "globalIvConverter", "bitline", "bitlineOn", "bitlineOff"}
  <2>1. RoutingParts = {"wire", "globalBitline", "globalBitlineMux", "globalSenseAmp",
                        "globalComparator", "globalIvConverter", "bitline", "bitlineOn", "bitlineOff"}
    BY DEF RoutingParts, Routes, OfBank, Bitlines
  <2> QED
    BY <2>1, KindsOfParts, RoutingPartsKnown
       DEF Predecoders, Decoders, MuxDecoders, Muxes
<1>5. \A p \in Parts \ RoutingParts : r[p] = 0
  BY <1>1 DEF Only
<1>6. ASSUME NEW p \in Predecoders PROVE path[p] = Once(p, d)
  <2>1. /\ p \in Parts /\ r[p] = 0 /\ Once(p, c) = 0 /\ Once(p, "bitline") = 0
        /\ Once(p, "comparator") = 0 /\ OutputCounts(a, p) = 0
    BY <1>4, <1>5 DEF Once, OutputCounts
  <2> QED
    BY <1>1, <1>3, <2>1 DEF Once
<1>7. ASSUME NEW p \in Decoders PROVE path[p] = Once(p, c)
  <2>1. /\ p \in Parts /\ r[p] = 0 /\ Once(p, d) = 0 /\ Once(p, "bitline") = 0
        /\ Once(p, "comparator") = 0 /\ OutputCounts(a, p) = 0
    BY <1>4, <1>5 DEF Once, OutputCounts
  <2> QED
    BY <1>1, <1>3, <2>1 DEF Once
<1>8. ASSUME NEW p \in Muxes PROVE path[p] = OutputCounts(a, p)
  <2>1. /\ p \in Parts /\ r[p] = 0 /\ Once(p, d) = 0 /\ Once(p, c) = 0
        /\ Once(p, "bitline") = 0 /\ Once(p, "comparator") = 0
    BY <1>4, <1>5 DEF Once
  <2> QED
    BY <1>1, <1>3, <2>1 DEF OutputCounts
<1>9. ASSUME NEW p \in {"senseAmp", "ivConverter"} PROVE path[p] = OutputCounts(a, p)
  <2>1. /\ p \in Parts /\ r[p] = 0 /\ Once(p, d) = 0 /\ Once(p, c) = 0
        /\ Once(p, "bitline") = 0 /\ Once(p, "comparator") = 0 /\ p \notin Muxes
    BY <1>4, <1>5, KindsOfParts DEF Once
  <2> QED
    BY <1>1, <1>3, <2>1 DEF OutputCounts
<1>10. path["comparator"] = IF HasComparator(a) THEN Unit ELSE 0
  <2>1. /\ "comparator" \in Parts /\ r["comparator"] = 0 /\ Once("comparator", d) = 0
        /\ Once("comparator", c) = 0 /\ Once("comparator", "bitline") = 0
        /\ OutputCounts(a, "comparator") = 0 /\ Once("comparator", "comparator") = Unit
    BY <1>4, <1>5 DEF Once, OutputCounts
  <2> QED
    BY <1>1, <1>3, <2>1
<1>11. ASSUME NEW p \in RoutingParts PROVE path[p] = r[p] + Once(p, "bitline")
  <2>1. /\ p \in Parts /\ Once(p, d) = 0 /\ Once(p, c) = 0 /\ Once(p, "comparator") = 0
        /\ OutputCounts(a, p) = 0
    BY <1>4 DEF Once, OutputCounts
  <2> QED
    BY <1>1, <1>3, <2>1 DEF Once
<1>12. CountOf(path, Predecoders) = Unit /\ CountOf(path, Decoders) = Unit
  <2>1. CountOf(path, Predecoders) = IF d \in Predecoders THEN path[d] ELSE 0
    BY <1>2, <1>4, <1>6, CircuitsAreFinite, CountOfOne DEF Once
  <2>2. CountOf(path, Decoders) = IF c \in Decoders THEN path[c] ELSE 0
    BY <1>2, <1>4, <1>7, CircuitsAreFinite, CountOfOne DEF Once
  <2> QED
    BY <1>6, <1>7, <2>1, <2>2 DEF Once
<1>13. CountOf(path, Bitlines) = Unit
  <2>1. PICK line \in Bitlines : \A p \in Bitlines : r[p] = Once(p, line) - Once(p, "bitline")
    BY <1>1 DEF RouteCounts, SharedBitline
  <2>2. ASSUME NEW p \in Bitlines PROVE path[p] = Once(p, line)
    <3>1. p \in RoutingParts
      BY DEF RoutingParts
    <3> QED
      BY <1>3, <1>11, <2>1, <3>1 DEF Once
  <2>3. CountOf(path, Bitlines) = IF line \in Bitlines THEN path[line] ELSE 0
    BY <1>2, <1>4, <2>2, CircuitsAreFinite, CountOfOne DEF Once
  <2> QED
    BY <2>2, <2>3 DEF Once
<1>14. ASSUME NEW p \in {"globalSenseAmp", "globalIvConverter", "globalComparator"}
       PROVE  path[p] = r[p]
  BY <1>3, <1>4, <1>11 DEF Once
<1>15. \A p \in Muxes : path[p] = IF a.muxBits[p] > 0 THEN Unit ELSE 0
  <2>1. ASSUME NEW p \in Muxes, p \notin OutputUnits(a) PROVE a.muxBits[p] = 0
    BY <2>1 DEF OutputUnits, IsSound
  <2>2. ASSUME NEW p \in Muxes
        PROVE  path[p] = IF p \in OutputUnits(a) /\ a.muxBits[p] > 0 THEN Unit ELSE 0
    <3>1. p \notin {"senseAmp", "ivConverter"}
      BY DEF Muxes
    <3> QED
      BY <1>8, <3>1 DEF OutputCounts
  <2>3. ~ (0 > 0)
    OBVIOUS
  <2> QED
    BY <2>1, <2>2, <2>3
<1>16. CountOf(path, {"senseAmp", "globalSenseAmp"}) =
         IF a.cellType = "SRAM" /\ ~a.internalSenseAmp THEN 2 * Unit ELSE Unit
  <2>1. path["senseAmp"] = IF a.internalSenseAmp THEN Unit ELSE 0
    BY <1>4, <1>9 DEF OutputCounts
  <2>2. path["globalSenseAmp"] = IF a.internalSenseAmp THEN 0
                                 ELSE IF a.cellType = "SRAM" THEN 2 * Unit ELSE Unit
    BY <1>1, <1>14 DEF RouteCounts
  <2>3. path["senseAmp"] \in Int /\ path["globalSenseAmp"] \in Int
    BY <1>2, <1>4
  <2> DEFINE S == {"senseAmp", "globalSenseAmp"}
             one == IF a.internalSenseAmp THEN "senseAmp" ELSE "globalSenseAmp"
  <2>4. IsFiniteSet(S) /\ (\A x \in S : path[x] \in Int) /\ one \in S
        /\ \A x \in S \ {one} : path[x] = 0
    BY <2>1, <2>2, <2>3, PairIsFinite
  <2>5. CountOf(path, S) = IF one \in S THEN path[one] ELSE 0
    BY <2>4, CountOfOne
  <2> QED
    BY <2>1, <2>2, <2>4, <2>5
<1>17. CountOf(path, Converters) = IF CurrentSense(a) THEN Unit ELSE 0
  <2>1. path["ivConverter"] = IF a.internalSenseAmp /\ CurrentSense(a) THEN Unit ELSE 0
    BY <1>4, <1>9 DEF OutputCounts
  <2>2. path["globalIvConverter"] = IF ~a.internalSenseAmp /\ CurrentSense(a) THEN Unit ELSE 0
    BY <1>1, <1>14 DEF RouteCounts
  <2> DEFINE one == IF a.internalSenseAmp THEN "ivConverter" ELSE "globalIvConverter"
  <2>3. one \in Converters /\ (\A x \in Converters : path[x] \in Int)
        /\ \A x \in Converters \ {one} : path[x] = 0
    BY <1>2, <1>4, <2>1, <2>2, KindsOfParts
  <2>4. CountOf(path, Converters) = IF one \in Converters THEN path[one] ELSE 0
    BY <2>3, CircuitsAreFinite, CountOfOne
  <2> QED
    BY <2>1, <2>2, <2>3, <2>4
<1>18. CountOf(path, {"comparator", "globalComparator"}) = IF a.memoryType = "tag" THEN Unit ELSE 0
  <2>1. path["globalComparator"] = IF ~a.internalSenseAmp /\ a.memoryType = "tag" THEN Unit ELSE 0
    BY <1>1, <1>14 DEF RouteCounts
  <2>2. path["comparator"] = IF a.internalSenseAmp /\ a.memoryType = "tag" THEN Unit ELSE 0
    BY <1>10 DEF HasComparator
  <2> DEFINE S == {"comparator", "globalComparator"}
             one == IF a.internalSenseAmp THEN "comparator" ELSE "globalComparator"
  <2>3. IsFiniteSet(S) /\ (\A x \in S : path[x] \in Int) /\ one \in S
        /\ \A x \in S \ {one} : path[x] = 0
    BY <1>2, <1>4, <2>1, <2>2, PairIsFinite
  <2>4. CountOf(path, S) = IF one \in S THEN path[one] ELSE 0
    BY <2>3, CountOfOne
  <2> QED
    BY <2>1, <2>2, <2>3, <2>4
<1> QED
  BY <1>12, <1>13, <1>15, <1>16, <1>17, <1>18 DEF WholeRead

(***************************************************************************)
(* What is not refused is sound.                                           *)
(***************************************************************************)
PassedInv ==
  /\ pc = "legality" => array.fail # "matPartition"
  /\ pc \in {"sensing", "cells"} \cup {Chain[i] : i \in DOMAIN Chain} => IsSound(array)
  /\ pc = "afterSubArray" /\ ~subarray.invalid => IsSound(array)
  /\ pc = "afterMat" /\ ~mat.invalid => IsSound(array)
  /\ pc \in BankDecided /\ ~bank.invalid => IsSound(array)

LEMMA InitPassed == Init => PassedInv
BY ChainPlaces DEF Init, PassedInv, BankDecided

\* The tests on the way down.
LEMMA DownPasses ==
  ASSUME ReadInv, RefuseInv, PassedInv,
         BankInitialize \/ MatBeforeSubArray \/ SubArrayLegality \/ SenseVoltage \/ DeriveCells
  PROVE  PassedInv'
<1>0. /\ pc \in {"bank", "mat", "legality", "sensing", "cells"} /\ pc \in Initializing
      /\ UNCHANGED <<call, kept>>
  BY DEF BankInitialize, MatBeforeSubArray, SubArrayLegality, SenseVoltage, DeriveCells,
         Initializing
<1>1. array' = array
  BY <1>0 DEF array
<1>2. IsBlank(subarray) /\ IsBlank(mat) /\ IsBlank(bank)
  BY <1>0 DEF RefuseInv
<1>3. CASE BankInitialize
  <2>1. /\ pc' \in {"area", "mat"}
        /\ pc' = "area" => bank' \in {Invalid(bank), Initialized(Invalid(bank))}
    BY <1>3 DEF BankInitialize
  <2>2. Invalid(bank).invalid = TRUE /\ Initialized(Invalid(bank)).invalid = TRUE
    BY <1>2, FlagsAreSet
  <2> QED
    BY ChainPlaces, <2>1, <2>2 DEF PassedInv, BankDecided
<1>4. CASE MatBeforeSubArray
  <2>1. \/ pc' = "afterMat" /\ mat' = Initialized(Invalid(mat))
        \/ pc' = "legality" /\ array.fail # "matPartition"
    BY <1>4 DEF MatBeforeSubArray
  <2>2. Initialized(Invalid(mat)).invalid = TRUE
    BY <1>2, FlagsAreSet
  <2> QED
    BY ChainPlaces, <1>1, <2>1, <2>2 DEF PassedInv, BankDecided
<1>5. CASE SubArrayLegality
  <2>1. pc = "legality" /\ pc' \in {"afterSubArray", "sensing"}
        /\ (pc' = "afterSubArray" => subarray'.invalid) /\ (pc' = "sensing" => ~subarray'.invalid)
    BY <1>5 DEF SubArrayLegality
  <2>2. Illegal => subarray'.invalid = TRUE
    BY <1>2, <1>5, FlagsAreSet DEF SubArrayLegality
  <2>3. pc' = "sensing" => IsSound(array)
    <3>1. SUFFICES ASSUME pc' = "sensing" PROVE IsSound(array)
      OBVIOUS
    <3>2. array.fail # "matPartition" /\ ~Illegal
      BY <2>1, <2>2, <3>1 DEF PassedInv
    <3>3. IsArray(array)
      BY <2>1, ArrayIsArray DEF ReadInv
    <3>4. array.muxBits["bitlineMux"] \in 0 .. 30
      BY <3>3 DEF IsArray, Muxes
    <3> QED
      BY <3>2, <3>4 DEF Illegal, IsSound
  <2> QED
    BY ChainPlaces, <1>1, <2>1, <2>3 DEF PassedInv, BankDecided
<1>6. CASE SenseVoltage \/ DeriveCells
  <2>1. /\ pc \in {"sensing", "cells"} /\ pc' \in {"afterSubArray", "cells", "precharger"}
    BY <1>6 DEF SenseVoltage, DeriveCells, Outcomes
  <2>2. IsSound(array)
    BY <2>1 DEF PassedInv
  <2> QED
    BY ChainPlaces, <1>1, <2>1, <2>2 DEF PassedInv, BankDecided
<1> QED
  BY <1>3, <1>4, <1>5, <1>6

LEMMA PassedStep == ReadInv /\ RefuseInv /\ PassedInv /\ [Next]_vars => PassedInv'
<1> SUFFICES ASSUME ReadInv, RefuseInv, PassedInv, [Next]_vars PROVE PassedInv'
  OBVIOUS
<1>1. CASE BankInitialize \/ MatBeforeSubArray \/ SubArrayLegality \/ SenseVoltage \/ DeriveCells
  BY <1>1, DownPasses
<1>2. CASE \E i \in DOMAIN Chain : InitializeCircuit(Chain[i])
  <2>1. PICK i \in DOMAIN Chain : InitializeCircuit(Chain[i])
    BY <1>2
  <2>2. Effect(i, Chain[i]) /\ i \in 1 .. 9 /\ Len(Chain) = 9
    BY <2>1, CircuitEffect, ChainPlaces DEF Chain
  <2>3. pc = Chain[i] /\ UNCHANGED <<call, kept>>
    BY <2>2 DEF Effect
  <2>4. IsSound(array) /\ array' = array
    BY <2>1, <2>3 DEF PassedInv, array
  <2>5. pc' = "afterSubArray" \/ (pc' = Chain[i + 1] /\ i + 1 \in 1 .. 9)
    BY <2>2 DEF Effect
  <2>6. pc' \notin BankDecided \cup {"legality", "afterMat"}
    BY <2>5, ChainPlaces DEF BankDecided
  <2> QED
    BY <2>4, <2>6 DEF PassedInv
<1>3. CASE MatAfterSubArray
  <2>1. /\ pc = "afterSubArray" /\ pc' = "afterMat" /\ UNCHANGED <<call, kept>>
        /\ \/ mat' = Initialized(Invalid(mat))
           \/ ~subarray.invalid /\ mat' = Initialized(mat)
    BY <1>3 DEF MatAfterSubArray, Refused
  <2>2. IsBlank(mat) /\ array' = array
    BY <2>1 DEF RefuseInv, Initializing, array
  <2>3. Initialized(Invalid(mat)).invalid = TRUE
    BY <2>2, FlagsAreSet
  <2>4. ~mat'.invalid => IsSound(array)
    BY <2>1, <2>3 DEF PassedInv
  <2> QED
    BY ChainPlaces, <2>1, <2>2, <2>4 DEF PassedInv, BankDecided
<1>4. CASE BankAfterMat
  <2>1. /\ pc = "afterMat" /\ pc' = "area" /\ UNCHANGED <<call, kept>>
        /\ \/ bank' = Initialized(Invalid(bank))
           \/ ~mat.invalid /\ bank' = Initialized(bank)
    BY <1>4 DEF BankAfterMat, Refused
  <2>2. IsBlank(bank) /\ array' = array
    BY <2>1 DEF RefuseInv, Initializing, array
  <2>3. Initialized(Invalid(bank)).invalid = TRUE
    BY <2>2, FlagsAreSet
  <2>4. ~bank'.invalid => IsSound(array)
    BY <2>1, <2>3 DEF PassedInv
  <2> QED
    BY ChainPlaces, <2>1, <2>2, <2>4 DEF PassedInv, BankDecided
<1>5. CASE CalculateArea \/ CalculateRC
  <2>1. /\ pc \in {"area", "rc"} /\ pc' \in {"rc", "latency"} /\ UNCHANGED <<call, kept>>
        /\ bank' \in {bank, Invalid(bank)}
    BY <1>5 DEF CalculateArea, CalculateRC, units
  <2>2. IsBlank(bank) /\ array' = array
    BY <2>1 DEF RefuseInv, Initializing, array
  <2>3. Invalid(bank).invalid = TRUE
    BY <2>2, FlagsAreSet
  <2>4. ~bank'.invalid => IsSound(array)
    BY <2>1, <2>3 DEF PassedInv, BankDecided
  <2> QED
    BY ChainPlaces, <2>1, <2>2, <2>4 DEF PassedInv, BankDecided
<1>6. CASE CalculateLatencyAndPower
  <2>1. /\ pc = "latency" /\ pc' = "evaluated" /\ UNCHANGED <<call, kept>>
        /\ bank' = (IF array.tree THEN TreeBank(array, bank, mat')
                                  ELSE BusBank(array, bank, mat'))
    BY <1>6 DEF CalculateLatencyAndPower
  <2>2. IsBlank(bank) /\ array' = array
    BY <2>1 DEF RefuseInv, Initializing, array
  <2>3. bank'.invalid = bank.invalid
    BY <2>1, <2>2, BankKeepsFlags DEF IsBlank
  <2>4. ~bank'.invalid => IsSound(array)
    BY <2>1, <2>3 DEF PassedInv, BankDecided
  <2> QED
    BY ChainPlaces, <2>1, <2>2, <2>4 DEF PassedInv, BankDecided
<1>7. CASE Keep \/ Drop \/ PrintSummary
  <2>1. pc' \in {"bank", "summary", "done", "dropped"}
    BY <1>7 DEF Keep, Drop, PrintSummary
  <2> QED
    BY ChainPlaces, <2>1 DEF PassedInv, BankDecided
<1>8. CASE Finished \/ UNCHANGED vars
  BY <1>8 DEF Finished, vars, units, PassedInv, array
<1> QED
  BY <1>1, <1>2, <1>3, <1>4, <1>5, <1>6, <1>7, <1>8 DEF Next

\* For every array, cell, way to sense and failing test: each way to spend the read
\* latency of a legal bank passes one circuit of each kind.  The sums that say so
\* rely on what Mat::Initialize and SubArray::Initialize refuse.
THEOREM ReadsPassAllCircuits == Spec => []ReadsAreWhole
<1>1. RefuseInv /\ CostInv /\ PassedInv => ReadsAreWhole
  <2>1. SUFFICES ASSUME CostInv, PassedInv, Legal, NEW path \in bank.readLatency
                 PROVE  WholeRead(array, path)
    BY DEF ReadsAreWhole
  <2>2. IsCosted(array, subarray, mat, bank)
    BY <2>1 DEF CostInv
  <2>3. IsSound(array)
    BY <2>1 DEF Legal, Ended, Evaluable, PassedInv, BankDecided
  <2> QED
    BY <2>1, <2>2, <2>3, SoundReads
<1> QED
  BY <1>1, InitRead, InitRefuse, InitCosts, InitPassed, ReadStep, RefuseStep, CostStep, PassedStep,
     PTL DEF Spec

-----------------------------------------------------------------------------
(***************************************************************************)
(* WritesCoverPulses: the ways to spend RESET, SET and a write.            *)
(***************************************************************************)

\* The ways of L have one pulse at most, of the two given ones, and not the other
\* one; if cover, each is contained in one of W.
HasPulse(L, pulse, flash, other, W, cover) ==
  \A path \in L :
    /\ path[pulse] + path[flash] \in {0, Unit} /\ path[other] = 0
    /\ cover => \E w \in W : AtLeast(w, path)

\* RESET and SET of latencies l, as WritesCoverPulses wants them.
PulsesCovered(a, l) ==
  /\ \A name \in WriteNames : l[name] \in Paths
  /\ HasPulse(l.setLatency, "setPulse", "flashProgramTime", "resetPulse", l.writeLatency, TRUE)
  /\ HasPulse(l.resetLatency, "resetPulse", "flashEraseTime", "setPulse", l.writeLatency,
              a.cellType # "SLCNAND")

\* What is in front of all three latencies has no pulse.
LEMMA PulseBehind ==
  ASSUME NEW pulse \in Pulses, NEW flash \in Pulses, NEW other \in Pulses, NEW cover \in BOOLEAN,
         NEW B \in Paths, \A path \in B, p \in Pulses : path[p] = 0,
         NEW L \in Paths, NEW W \in Paths, HasPulse(L, pulse, flash, other, W, cover)
  PROVE  HasPulse(Then(B, L), pulse, flash, other, Then(B, W), cover)
<1>1. Pulses \subseteq Parts
  BY KindsOfParts
<1>2. SUFFICES ASSUME NEW path \in Then(B, L)
               PROVE  /\ path[pulse] + path[flash] \in {0, Unit} /\ path[other] = 0
                      /\ cover => \E w \in Then(B, W) : AtLeast(w, path)
  BY DEF HasPulse
<1>3. PICK x \in B, y \in L : path = Plus(x, y)
  BY ThenJoins
<1>4. x \in Amount /\ y \in Amount
  BY DEF Paths
<1>5. \A p \in Parts : path[p] = x[p] + y[p] /\ x[p] \in Int /\ y[p] \in Int
  BY <1>3, <1>4, AmountsAdd DEF Amount
<1>6. \A p \in Pulses : path[p] = y[p]
  BY <1>1, <1>5
<1>7. ASSUME cover PROVE \E w \in Then(B, W) : AtLeast(w, path)
  <2>1. PICK z \in W : AtLeast(z, y)
    BY <1>7 DEF HasPulse
  <2>2. z \in Amount
    BY DEF Paths
  <2>3. \A p \in Parts : Plus(x, z)[p] = x[p] + z[p] /\ z[p] \in Int
    BY <1>4, <2>2, AmountsAdd DEF Amount
  <2>4. AtLeast(Plus(x, z), path)
    BY <1>5, <2>1, <2>3 DEF AtLeast
  <2>5. Plus(x, z) \in Then(B, W)
    BY DEF Then
  <2> QED
    BY <2>4, <2>5
<1> QED
  BY <1>6, <1>7 DEF HasPulse

LEMMA PulsesBehind ==
  ASSUME NEW a, NEW l, PulsesCovered(a, l), NEW B \in Paths,
         \A path \in B, p \in Pulses : path[p] = 0,
         NEW m, \A name \in WriteNames : m[name] = Then(B, l[name])
  PROVE  PulsesCovered(a, m)
<1>1. l.writeLatency \in Paths /\ l.resetLatency \in Paths /\ l.setLatency \in Paths
  BY DEF PulsesCovered, WriteNames
<1>2. /\ m.writeLatency = Then(B, l.writeLatency) /\ m.resetLatency = Then(B, l.resetLatency)
      /\ m.setLatency = Then(B, l.setLatency)
  BY DEF WriteNames
<1>3. HasPulse(Then(B, l.setLatency), "setPulse", "flashProgramTime", "resetPulse",
               Then(B, l.writeLatency), TRUE)
  BY <1>1, PulseBehind DEF PulsesCovered, Pulses
<1>4. HasPulse(Then(B, l.resetLatency), "resetPulse", "flashEraseTime", "setPulse",
               Then(B, l.writeLatency), a.cellType # "SLCNAND")
  <2>1. (a.cellType # "SLCNAND") \in BOOLEAN
    OBVIOUS
  <2> QED
    BY <1>1, <2>1, PulseBehind DEF PulsesCovered, Pulses
<1> QED
  BY <1>1, <1>2, <1>3, <1>4, ThenIsPaths DEF PulsesCovered, WriteNames

\* Nothing is spent on a pulse that the memory has not got.
LEMMA NoPulse ==
  ASSUME NEW S, NEW W \in Spent(S), NEW pulse \in Pulses, NEW flash \in Pulses, NEW other \in Pulses,
         NEW cover
  PROVE  HasPulse(Instant, pulse, flash, other, W, cover)
<1>1. \A p \in Pulses : Nothing[p] = 0
  BY NothingIsAmount, KindsOfParts
<1>2. PICK w \in W : AtLeast(w, Nothing)
  BY DEF Spent
<1> QED
  BY <1>1, <1>2 DEF HasPulse, Instant

\* A pulse after the row and the column have been selected.
LEMMA OnePulse ==
  ASSUME NEW a, NEW done \in Pulses, NEW pulse \in Pulses, NEW flash \in Pulses, NEW other \in Pulses,
         done \in {pulse, flash}, pulse # flash, other # done,
         NEW W, NEW cover \in BOOLEAN, cover => Then(SelectLatency(a), {Of(done)}) \subseteq W
  PROVE  HasPulse(Then(SelectLatency(a), {Of(done)}), pulse, flash, other, W, cover)
<1> DEFINE L == Then(SelectLatency(a), {Of(done)})
<1>1. Pulses \subseteq Parts /\ Pulses \cap SelectingParts = {}
  BY KindsOfParts DEF Pulses, SelectingParts, Decoders, MuxDecoders
<1>2. ASSUME NEW path \in L
      PROVE  path \in Amount /\ \A p \in Pulses : path[p] = Once(p, done)
  <2>1. PICK x \in SelectLatency(a) : path = Plus(x, Of(done))
    BY ThenJoins
  <2>2. x \in Amount /\ \A p \in Pulses : x[p] = 0
    BY <1>1, SelectTime DEF Spent, Paths, Only
  <2>3. Of(done) \in Amount /\ \A p \in Parts : Of(done)[p] = Once(p, done)
    BY OnceOf
  <2>4. path \in Amount /\ \A p \in Parts : path[p] = x[p] + Of(done)[p]
    BY <2>1, <2>2, <2>3, AmountsAdd
  <2>5. \A p \in Pulses : path[p] = 0 + Once(p, done)
    BY <1>1, <2>2, <2>3, <2>4
  <2> QED
    BY <2>4, <2>5, UnitAssumption DEF Once
<1>3. ASSUME NEW path \in L PROVE AtLeast(path, path)
  BY <1>2 DEF Amount, AtLeast
<1>4. ASSUME NEW path \in L
      PROVE  path[pulse] + path[flash] \in {0, Unit} /\ path[other] = 0
  BY <1>2, UnitAssumption DEF Once
<1> HIDE DEF L
<1>5. HasPulse(L, pulse, flash, other, W, cover)
  <2>1. cover => L \subseteq W
    BY DEF L
  <2> QED
    BY <1>3, <1>4, <2>1 DEF HasPulse
<1> QED
  BY <1>5 DEF L

LEMMA SubArrayPulses ==
  ASSUME NEW a
  PROVE  PulsesCovered(a, WriteLatencies(a))
<1> DEFINE select == SelectLatency(a)
           program == Then(select, {Of("flashProgramTime")})
           erase == Then(select, {Of("flashEraseTime")})
           reset == Then(select, {Of("resetPulse")})
           set == Then(select, {Of("setPulse")})
           write == Then(select, Later({Of("resetPulse")}, {Of("setPulse")}))
           l == WriteLatencies(a)
<1>1. \A name \in WriteNames : l[name] \in Spent(Finite)
  BY WriteTime
<1>2. \A name \in WriteNames : l[name] \in Paths
  BY <1>1, SpentIsPaths
<1>3. l.writeLatency \in Spent(Finite)
  BY <1>1 DEF WriteNames
<1>4. CASE l.resetLatency = Instant /\ l.setLatency = Instant
  BY <1>2, <1>3, <1>4, NoPulse DEF PulsesCovered, Pulses
<1>5. CASE l = Latencies(program, erase, program) /\ a.cellType = "SLCNAND"
  <2>1. l.setLatency = program /\ l.resetLatency = erase /\ l.writeLatency = program
    BY <1>5 DEF Latencies
  <2>2. HasPulse(program, "setPulse", "flashProgramTime", "resetPulse", program, TRUE)
    BY OnePulse DEF Pulses
  <2>3. HasPulse(erase, "resetPulse", "flashEraseTime", "setPulse", program, FALSE)
    BY OnePulse DEF Pulses
  <2> QED
    BY <1>2, <1>5, <2>1, <2>2, <2>3 DEF PulsesCovered
<1>6. CASE l = PulseLatencies(a)
  <2>1. l.setLatency = set /\ l.resetLatency = reset /\ l.writeLatency = write
    BY <1>6 DEF PulseLatencies, Latencies
  <2>2. Later({Of("resetPulse")}, {Of("setPulse")}) = {Of("resetPulse"), Of("setPulse")}
    <3>1. Of("resetPulse") # Nothing /\ Of("setPulse") # Nothing
      <4>1. \A p \in Pulses : p \in Parts /\ Of(p)[p] = Unit /\ Nothing[p] = 0
        BY KindsOfParts, OfIsAmount, NothingIsAmount
      <4> QED
        BY <4>1, UnitAssumption DEF Pulses
    <3>2. ({Of("resetPulse")} \cup {Of("setPulse")}) \ Instant = {Of("resetPulse"), Of("setPulse")}
      BY <3>1 DEF Instant
    <3> QED
      BY <3>2 DEF Later
  <2>3. set \subseteq write /\ reset \subseteq write
    BY <2>2 DEF Then
  <2>4. HasPulse(set, "setPulse", "flashProgramTime", "resetPulse", write, TRUE)
    BY <2>3, OnePulse DEF Pulses
  <2>5. HasPulse(reset, "resetPulse", "flashEraseTime", "setPulse", write, a.cellType # "SLCNAND")
    <3>1. (a.cellType # "SLCNAND") \in BOOLEAN
      OBVIOUS
    <3> HIDE DEF set, write
    <3> QED
      BY <2>3, <3>1, OnePulse DEF Pulses
  <2> QED
    BY <1>2, <2>1, <2>4, <2>5 DEF PulsesCovered
<1>7. \/ l.resetLatency = Instant /\ l.setLatency = Instant
      \/ l = Latencies(program, erase, program) /\ a.cellType = "SLCNAND"
      \/ l = PulseLatencies(a)
  BY DEF WriteLatencies, Latencies
<1> QED
  BY <1>4, <1>5, <1>6, <1>7

\* The predecoders and the routing are the same for a write, RESET and SET.
LEMMA CostedPulses ==
  ASSUME NEW a, NEW s, NEW m, NEW b, IsCosted(a, s, m, b)
  PROVE  PulsesCovered(a, b)
<1>1. Pulses \subseteq Parts /\ Pulses \cap Predecoders = {} /\ Pulses \cap RoutingParts = {}
  BY KindsOfParts, RoutingPartsKnown DEF Pulses, Predecoders
<1>2. IsArray(a)
  BY DEF IsCosted
<1>3. PredecoderLatency(a) \in Paths /\ \A path \in PredecoderLatency(a), p \in Pulses : path[p] = 0
  BY <1>1, <1>2, PredecoderTime DEF Spent, Only
<1>4. Routing(a).writeLatency \in Paths
      /\ \A path \in Routing(a).writeLatency, p \in Pulses : path[p] = 0
  BY <1>1, <1>2, RoutingCosts DEF IsRoutingCost, RoutingPaths, Only
<1>5. PulsesCovered(a, MatLatency(a))
  <2>1. \A name \in WriteNames :
          MatLatency(a)[name] = Then(PredecoderLatency(a), WriteLatencies(a)[name])
    BY DEF MatLatency, SubArrayLatency, WriteNames
  <2> QED
    BY <1>3, <2>1, SubArrayPulses, PulsesBehind
<1>6. \A name \in WriteNames : b[name] = Then(Routing(a).writeLatency, MatLatency(a)[name])
  <2>1. \A name \in WriteNames : m[name] = MatLatency(a)[name]
    <3>1. WriteNames \subseteq DOMAIN MatLatency(a)
      BY DEF MatLatency, WriteNames
    <3> QED
      BY <3>1 DEF IsCosted, Has
  <2>2. \A name \in WriteNames : b[name] = Then(Routing(a).writeLatency, m[name])
    BY DEF IsCosted, IsRouted, WriteNames
  <2> QED
    BY <2>1, <2>2
<1> QED
  BY <1>4, <1>5, <1>6, PulsesBehind

\* For every array, cell, routing and failing test: what is spent on RESET or on SET,
\* of which each has its own pulse once at most, is contained in what is spent on a
\* write, which the subarray, the mat and the bank compute separately.
THEOREM WritesContainPulses == Spec => []WritesCoverPulses
<1>1. CostInv => WritesCoverPulses
  <2>1. SUFFICES ASSUME CostInv, Legal PROVE WritesCoverPulses
    BY DEF WritesCoverPulses
  <2>2. PulsesCovered(array, bank)
    BY <2>1, CostedPulses DEF CostInv
  <2> QED
    BY <2>2 DEF PulsesCovered, HasPulse, WritesCoverPulses
<1> QED
  BY <1>1, InitRead, InitRefuse, InitCosts, ReadStep, RefuseStep, CostStep, PTL DEF Spec

-----------------------------------------------------------------------------
(***************************************************************************)
(* HitCoversTagAndData: the amounts of two arrays.                         *)
(***************************************************************************)
Places == Arrays \X Parts
OtherPlaces == Arrays \X (Parts \ Bitlines)
AmountOfBoth == [Places -> Int]

\* The delay of the bitline of an array, by whichever name.
BitlineDelay(path, which) ==
  path[<<which, "bitline">>] + (path[<<which, "bitlineOn">>] + path[<<which, "bitlineOff">>])

LEMMA BitlinesAreParts ==
  /\ Bitlines = {"bitline", "bitlineOn", "bitlineOff"} /\ Bitlines \subseteq Parts
  /\ OtherPlaces \subseteq Places
  /\ \A which \in Arrays : {which} \X Bitlines \subseteq Places
BY KindsOfParts DEF Bitlines, OtherPlaces, Places

LEMMA CountOfThree ==
  ASSUME NEW S, NEW x \in S, NEW y \in S, NEW z \in S, x # y, x # z, y # z,
         S \subseteq {x, y, z}, NEW F, \A u \in S : F[u] \in Int
  PROVE  CountOf(F, S) = F[x] + (F[y] + F[z])
<1>1. /\ IsFiniteSet(S) /\ \A u \in S : F[u] \in Int
      /\ F[x] \in Int /\ F[y] \in Int /\ F[z] \in Int
  <2>1. IsFiniteSet({x, y}) /\ IsFiniteSet({z}) /\ S = {x, y} \cup {z}
    BY PairIsFinite, FS_Singleton
  <2>2. IsFiniteSet(S)
    BY <2>1, FS_Union, Zenon
  <2> QED
    BY <2>2
<1>2. /\ x \in S /\ y \in S /\ z \in S
      /\ S \ {x} = {y, z} /\ S \ {y} = {x, z} /\ S \ {z} = {x, y}
      /\ \A u \in S : u = x \/ u = y \/ u = z
  OBVIOUS
<1>0. PICK it : CountOf(F, S) = it[S] /\ CountBy(it, S, F)
  BY <1>1, CountFolds
<1>3. /\ CountOf(F, S) = it[S] /\ it[{}] = 0
      /\ \A s \in SUBSET S : s # {} => it[s] = F[Pick(s)] + it[s \ {Pick(s)}]
  BY <1>0 DEF CountBy
<1>4. ASSUME NEW u \in S PROVE it[{u}] = F[u]
  <2>1. {u} \in SUBSET S /\ {u} # {} /\ {u} \ {u} = {}
    OBVIOUS
  <2>2. Pick({u}) = u
    BY <2>1, PickFrom
  <2>3. it[{u}] = F[u] + 0
    BY <1>3, <2>1, <2>2
  <2> QED
    BY <1>1, <2>3
<1>5. ASSUME NEW u \in S, NEW v \in S, u # v PROVE it[{u, v}] = F[u] + F[v]
  <2>1. {u, v} \in SUBSET S /\ {u, v} # {} /\ {u, v} \ {u} = {v} /\ {u, v} \ {v} = {u}
    BY <1>5
  <2>2. Pick({u, v}) = u \/ Pick({u, v}) = v
    BY <2>1, PickFrom
  <2>3. it[{u, v}] = F[Pick({u, v})] + it[{u, v} \ {Pick({u, v})}]
    BY <1>3, <2>1
  <2>4. it[{u}] = F[u] /\ it[{v}] = F[v] /\ F[u] \in Int /\ F[v] \in Int
    BY <1>1, <1>4
  <2>5. CASE Pick({u, v}) = u
    BY <2>1, <2>3, <2>4, <2>5
  <2>6. CASE Pick({u, v}) = v
    <3>1. it[{u, v}] = F[v] + F[u]
      BY <2>1, <2>3, <2>4, <2>6
    <3>2. F[v] + F[u] = F[u] + F[v]
      BY <2>4
    <3> QED
      BY <3>1, <3>2
  <2> QED
    BY <2>2, <2>5, <2>6
<1>6. S \in SUBSET S /\ S # {}
  BY <1>2
<1>7. Pick(S) = x \/ Pick(S) = y \/ Pick(S) = z
  BY <1>2, <1>6, PickFrom
<1>8. it[S] = F[Pick(S)] + it[S \ {Pick(S)}]
  BY <1>3, <1>6
<1>9. it[{y, z}] = F[y] + F[z] /\ it[{x, z}] = F[x] + F[z] /\ it[{x, y}] = F[x] + F[y]
  BY <1>2, <1>5
<1>10. CASE Pick(S) = x
  BY <1>2, <1>3, <1>8, <1>9, <1>10
<1>11. CASE Pick(S) = y
  <2>1. it[S] = F[y] + (F[x] + F[z])
    BY <1>2, <1>8, <1>9, <1>11
  <2>2. F[y] + (F[x] + F[z]) = F[x] + (F[y] + F[z])
    BY <1>1
  <2> QED
    BY <1>3, <2>1, <2>2
<1>12. CASE Pick(S) = z
  <2>1. it[S] = F[z] + (F[x] + F[y])
    BY <1>2, <1>8, <1>9, <1>12
  <2>2. F[z] + (F[x] + F[y]) = F[x] + (F[y] + F[z])
    BY <1>1
  <2> QED
    BY <1>3, <2>1, <2>2
<1> QED
  BY <1>3, <1>7, <1>10, <1>11, <1>12

LEMMA BothCount ==
  ASSUME NEW F, NEW S
  PROVE  Both!CountOf(F, S) = CountOf(F, S)
BY DEF CountOf, Both!CountOf, SumFunctionOnSet, FoldFunctionOnSet, MapThenFoldSet,
       Both!SumFunctionOnSet, Both!FoldFunctionOnSet, Both!MapThenFoldSet

LEMMA CountsBitlines ==
  ASSUME NEW path \in AmountOfBoth, NEW which \in Arrays
  PROVE  /\ Both!CountOf(path, {which} \X Bitlines) = BitlineDelay(path, which)
         /\ BitlineDelay(path, which) \in Int
<1>1. {which} \X Bitlines = {<<which, "bitline">>, <<which, "bitlineOn">>, <<which, "bitlineOff">>}
  BY BitlinesAreParts
<1>2. /\ path[<<which, "bitline">>] \in Int /\ path[<<which, "bitlineOn">>] \in Int
      /\ path[<<which, "bitlineOff">>] \in Int
  BY BitlinesAreParts DEF AmountOfBoth, Places
<1>3. PICK x, y, z : x = <<which, "bitline">> /\ y = <<which, "bitlineOn">> /\ z = <<which, "bitlineOff">>
  OBVIOUS
<1>4. x # y /\ x # z /\ y # z
  BY <1>3
<1>5. PICK S : S = {x, y, z}
  OBVIOUS
<1>6. /\ x \in S /\ y \in S /\ z \in S /\ S \subseteq {x, y, z}
      /\ \A u \in S : path[u] \in Int
  BY <1>2, <1>3, <1>5
<1>7. CountOf(path, S) = path[x] + (path[y] + path[z])
  BY <1>4, <1>6, CountOfThree
<1>8. CountOf(path, {which} \X Bitlines) = BitlineDelay(path, which)
  BY <1>1, <1>3, <1>5, <1>7 DEF BitlineDelay
<1>9. BitlineDelay(path, which) \in Int
  BY <1>2 DEF BitlineDelay
<1> QED
  BY <1>8, <1>9, BothCount

\* Covers, with the delays of the bitlines as sums.
LEMMA CoversBySums ==
  ASSUME NEW x \in AmountOfBoth, NEW y \in AmountOfBoth
  PROVE  Covers(x, y) <=> /\ \A p \in OtherPlaces : x[p] >= y[p]
                          /\ \A which \in Arrays : BitlineDelay(x, which) >= BitlineDelay(y, which)
BY CountsBitlines DEF Covers, OtherPlaces

LEMMA PlusOfBoth ==
  ASSUME NEW x \in AmountOfBoth, NEW y \in AmountOfBoth
  PROVE  /\ Both!Plus(x, y) \in AmountOfBoth
         /\ \A p \in Places : Both!Plus(x, y)[p] = x[p] + y[p]
         /\ \A which \in Arrays :
              BitlineDelay(Both!Plus(x, y), which) = BitlineDelay(x, which) + BitlineDelay(y, which)
<1>1. Both!Plus(x, y) \in AmountOfBoth /\ \A p \in Places : Both!Plus(x, y)[p] = x[p] + y[p]
  BY DEF Both!Plus, AmountOfBoth, Places
<1>2. ASSUME NEW which \in Arrays
      PROVE  BitlineDelay(Both!Plus(x, y), which) = BitlineDelay(x, which) + BitlineDelay(y, which)
  <2>1. ASSUME NEW p \in Bitlines
        PROVE  /\ Both!Plus(x, y)[<<which, p>>] = x[<<which, p>>] + y[<<which, p>>]
               /\ x[<<which, p>>] \in Int /\ y[<<which, p>>] \in Int
    <3>1. <<which, p>> \in Places
      BY BitlinesAreParts DEF Places
    <3> QED
      BY <1>1, <3>1 DEF AmountOfBoth
  <2> QED
    BY <2>1, BitlinesAreParts DEF BitlineDelay
<1> QED
  BY <1>1, <1>2

\* A way to spend time that takes nothing back, but the delay of a bitline that is
\* spent under another name.
Waits(x) ==
  /\ x \in AmountOfBoth
  /\ \A p \in OtherPlaces : x[p] >= 0
  /\ \A which \in Arrays : BitlineDelay(x, which) >= 0

LEMMA CoversLonger ==
  ASSUME NEW x, NEW y, Waits(x), Waits(y)
  PROVE  /\ Waits(Both!Plus(x, y))
         /\ Covers(Both!Plus(x, y), x) /\ Covers(Both!Plus(x, y), y)
<1>1. x \in AmountOfBoth /\ y \in AmountOfBoth
  BY DEF Waits
<1>2. Both!Plus(x, y) \in AmountOfBoth
  BY <1>1, PlusOfBoth
<1>3. ASSUME NEW p \in OtherPlaces
      PROVE  /\ Both!Plus(x, y)[p] = x[p] + y[p] /\ x[p] \in Int /\ y[p] \in Int
             /\ x[p] >= 0 /\ y[p] >= 0
  BY <1>1, PlusOfBoth, BitlinesAreParts DEF Waits, AmountOfBoth
<1>4. ASSUME NEW which \in Arrays
      PROVE  /\ BitlineDelay(Both!Plus(x, y), which) = BitlineDelay(x, which) + BitlineDelay(y, which)
             /\ BitlineDelay(x, which) \in Int /\ BitlineDelay(y, which) \in Int
             /\ BitlineDelay(x, which) >= 0 /\ BitlineDelay(y, which) >= 0
  BY <1>1, PlusOfBoth, CountsBitlines DEF Waits
<1>5. \A p \in OtherPlaces :
        Both!Plus(x, y)[p] >= 0 /\ Both!Plus(x, y)[p] >= x[p] /\ Both!Plus(x, y)[p] >= y[p]
  BY <1>3
<1>6. \A which \in Arrays :
        /\ BitlineDelay(Both!Plus(x, y), which) >= 0
        /\ BitlineDelay(Both!Plus(x, y), which) >= BitlineDelay(x, which)
        /\ BitlineDelay(Both!Plus(x, y), which) >= BitlineDelay(y, which)
  BY <1>4
<1>7. Waits(Both!Plus(x, y))
  BY <1>2, <1>5, <1>6 DEF Waits
<1>8. Covers(Both!Plus(x, y), x)
  BY <1>1, <1>2, <1>5, <1>6, CoversBySums
<1>9. Covers(Both!Plus(x, y), y)
  BY <1>1, <1>2, <1>5, <1>6, CoversBySums
<1> QED
  BY <1>7, <1>8, <1>9

LEMMA CoversItself ==
  ASSUME NEW x \in AmountOfBoth
  PROVE  Covers(x, x)
<1>1. \A p \in OtherPlaces : x[p] \in Int
  BY BitlinesAreParts DEF AmountOfBoth
<1>2. \A which \in Arrays : BitlineDelay(x, which) \in Int
  BY CountsBitlines
<1> QED
  BY <1>1, <1>2, CoversBySums

LEMMA CoversOnward ==
  ASSUME NEW x \in AmountOfBoth, NEW y \in AmountOfBoth, NEW z \in AmountOfBoth,
         Covers(x, y), Covers(y, z)
  PROVE  Covers(x, z)
<1>1. ASSUME NEW p \in OtherPlaces
      PROVE  x[p] \in Int /\ y[p] \in Int /\ z[p] \in Int /\ x[p] >= y[p] /\ y[p] >= z[p]
  BY BitlinesAreParts, CoversBySums DEF AmountOfBoth
<1>2. ASSUME NEW which \in Arrays
      PROVE  /\ BitlineDelay(x, which) \in Int /\ BitlineDelay(y, which) \in Int
             /\ BitlineDelay(z, which) \in Int
             /\ BitlineDelay(x, which) >= BitlineDelay(y, which)
             /\ BitlineDelay(y, which) >= BitlineDelay(z, which)
  BY CountsBitlines, CoversBySums
<1>3. \A p \in OtherPlaces : x[p] >= z[p]
  BY <1>1
<1>4. \A which \in Arrays : BitlineDelay(x, which) >= BitlineDelay(z, which)
  BY <1>2
<1> QED
  BY <1>3, <1>4, CoversBySums

\* What is added to both sides is covered by itself.
LEMMA CoversTogether ==
  ASSUME NEW x \in AmountOfBoth, NEW y \in AmountOfBoth, NEW z \in AmountOfBoth,
         Covers(x, y)
  PROVE  Covers(Both!Plus(x, z), Both!Plus(z, y))
<1>1. Both!Plus(x, z) \in AmountOfBoth /\ Both!Plus(z, y) \in AmountOfBoth
  BY PlusOfBoth
<1>2. ASSUME NEW p \in OtherPlaces
      PROVE  Both!Plus(x, z)[p] >= Both!Plus(z, y)[p]
  <2>1. x[p] \in Int /\ y[p] \in Int /\ z[p] \in Int /\ x[p] >= y[p] /\ p \in Places
    BY BitlinesAreParts, CoversBySums DEF AmountOfBoth
  <2>2. Both!Plus(x, z)[p] = x[p] + z[p] /\ Both!Plus(z, y)[p] = z[p] + y[p]
    BY <2>1, PlusOfBoth
  <2> QED
    BY <2>1, <2>2
<1>3. ASSUME NEW which \in Arrays
      PROVE  BitlineDelay(Both!Plus(x, z), which) >= BitlineDelay(Both!Plus(z, y), which)
  <2>1. /\ BitlineDelay(x, which) \in Int /\ BitlineDelay(y, which) \in Int
        /\ BitlineDelay(z, which) \in Int
        /\ BitlineDelay(x, which) >= BitlineDelay(y, which)
    BY CountsBitlines, CoversBySums
  <2>2. /\ BitlineDelay(Both!Plus(x, z), which) = BitlineDelay(x, which) + BitlineDelay(z, which)
        /\ BitlineDelay(Both!Plus(z, y), which) = BitlineDelay(z, which) + BitlineDelay(y, which)
    BY PlusOfBoth
  <2> QED
    BY <2>1, <2>2
<1> QED
  BY <1>1, <1>2, <1>3, CoversBySums

\* Latencies that can be spent, and take nothing back.
Waiting == {L \in SUBSET AmountOfBoth : L # {} /\ \A path \in L : Waits(path)}

LEMMA WaitForBoth ==
  ASSUME NEW L \in Waiting, NEW M \in Waiting
  PROVE  /\ Both!Then(L, M) \in Waiting
         /\ CoveredBy(L, Both!Then(L, M)) /\ CoveredBy(M, Both!Then(L, M))
<1>1. \A x \in L, y \in M : /\ Both!Plus(x, y) \in Both!Then(L, M)
                            /\ Waits(Both!Plus(x, y))
                            /\ Covers(Both!Plus(x, y), x) /\ Covers(Both!Plus(x, y), y)
  BY CoversLonger DEF Waiting, Both!Then
<1>2. \A path \in Both!Then(L, M) : \E x \in L, y \in M : path = Both!Plus(x, y)
  BY DEF Both!Then
<1>3. L # {} /\ M # {}
  BY DEF Waiting
<1>4. Both!Then(L, M) # {} /\ \A path \in Both!Then(L, M) : Waits(path) /\ path \in AmountOfBoth
  BY <1>1, <1>2, <1>3 DEF Waits
<1>5. CoveredBy(L, Both!Then(L, M)) /\ CoveredBy(M, Both!Then(L, M))
  BY <1>1, <1>3 DEF CoveredBy
<1> QED
  BY <1>4, <1>5 DEF Waiting

LEMMA WaitForLater ==
  ASSUME NEW L \in Waiting, NEW M \in Waiting
  PROVE  /\ Both!Later(L, M) \in Waiting
         /\ CoveredBy(L, Both!Later(L, M)) /\ CoveredBy(M, Both!Later(L, M))
<1> DEFINE paths == (L \cup M) \ Both!Instant
           none == Both!Nothing
<1>1. none \in AmountOfBoth /\ (\A p \in Places : none[p] = 0) /\ Both!Instant = {none}
  BY DEF Both!Nothing, Both!Instant, AmountOfBoth, Places
<1>2. \A which \in Arrays : BitlineDelay(none, which) = 0
  <2>1. ASSUME NEW which \in Arrays, NEW p \in Bitlines PROVE none[<<which, p>>] = 0
    BY <1>1, BitlinesAreParts DEF Places
  <2> HIDE DEF none
  <2>2. ASSUME NEW which \in Arrays PROVE BitlineDelay(none, which) = 0 + (0 + 0)
    BY <2>1, BitlinesAreParts DEF BitlineDelay
  <2> QED
    BY <2>2
<1>3. Both!Later(L, M) = IF paths = {} THEN Both!Instant ELSE paths
  BY DEF Both!Later
<1> HIDE DEF none
<1>4. \A x \in L \cup M : x \in AmountOfBoth /\ Waits(x)
  BY DEF Waiting
<1>5. ASSUME NEW x \in L \cup M PROVE Covers(x, none) /\ Covers(x, x)
  <2>1. \A p \in OtherPlaces : x[p] >= none[p]
    BY <1>1, <1>4, BitlinesAreParts DEF Waits
  <2>2. \A which \in Arrays : BitlineDelay(x, which) >= BitlineDelay(none, which)
    BY <1>2, <1>4 DEF Waits
  <2> QED
    BY <1>1, <1>4, <2>1, <2>2, CoversBySums, CoversItself
<1>6. Waits(none)
  BY <1>1, <1>2, BitlinesAreParts DEF Waits
<1>7. ASSUME NEW x \in L \cup M PROVE \E l \in Both!Later(L, M) : Covers(l, x)
  <2>1. CASE paths = {}
    BY <1>1, <1>3, <1>5, <2>1
  <2>2. CASE x \in paths
    BY <1>3, <1>5, <2>2
  <2>3. CASE paths # {} /\ x \notin paths
    BY <1>1, <1>3, <1>5, <2>3
  <2> QED
    BY <2>1, <2>2, <2>3
<1>8. Both!Later(L, M) # {} /\ \A l \in Both!Later(L, M) : Waits(l) /\ l \in AmountOfBoth
  BY <1>1, <1>3, <1>4, <1>6
<1>9. Both!Later(L, M) \in Waiting
  BY <1>8 DEF Waiting
<1>10. CoveredBy(L, Both!Later(L, M)) /\ CoveredBy(M, Both!Later(L, M))
  BY <1>7 DEF CoveredBy
<1> QED
  BY <1>9, <1>10

LEMMA CoveredOnward ==
  ASSUME NEW L \in SUBSET AmountOfBoth, NEW M \in SUBSET AmountOfBoth,
         NEW N \in SUBSET AmountOfBoth, CoveredBy(L, M), CoveredBy(M, N)
  PROVE  CoveredBy(L, N)
<1>1. ASSUME NEW x \in L PROVE \E z \in N : Covers(z, x)
  <2>1. PICK y \in M : Covers(y, x)
    BY DEF CoveredBy
  <2>2. PICK z \in N : Covers(z, y)
    BY DEF CoveredBy
  <2> QED
    BY <2>1, <2>2, CoversOnward
<1> QED
  BY <1>1 DEF CoveredBy

-----------------------------------------------------------------------------
\* The amounts of one array among those of both.
LEMMA InBoth ==
  ASSUME NEW which \in Arrays, NEW x \in Amount
  PROVE  /\ In(which, x) \in AmountOfBoth
         /\ \A p \in Places : In(which, x)[p] = IF p[1] = which THEN x[p[2]] ELSE 0
         /\ \A other \in Arrays :
              BitlineDelay(In(which, x), other)
                = IF other = which THEN x["bitline"] + (x["bitlineOn"] + x["bitlineOff"]) ELSE 0
<1>1. \A p \in Places : p[1] \in Arrays /\ p[2] \in Parts /\ x[p[2]] \in Int
  BY DEF Places, Amount
<1>2. /\ In(which, x) \in AmountOfBoth
      /\ \A p \in Places : In(which, x)[p] = IF p[1] = which THEN x[p[2]] ELSE 0
  BY <1>1 DEF In, AmountOfBoth, Places
<1>3. ASSUME NEW other \in Arrays, NEW p \in Bitlines
      PROVE  In(which, x)[<<other, p>>] = IF other = which THEN x[p] ELSE 0
  BY <1>2, BitlinesAreParts DEF Places
<1>4. ASSUME NEW other \in Arrays
      PROVE  BitlineDelay(In(which, x), other)
               = IF other = which THEN x["bitline"] + (x["bitlineOn"] + x["bitlineOff"]) ELSE 0
  <2>1. /\ In(which, x)[<<other, "bitline">>] = IF other = which THEN x["bitline"] ELSE 0
        /\ In(which, x)[<<other, "bitlineOn">>] = IF other = which THEN x["bitlineOn"] ELSE 0
        /\ In(which, x)[<<other, "bitlineOff">>] = IF other = which THEN x["bitlineOff"] ELSE 0
    BY <1>3, BitlinesAreParts
  <2> QED
    BY <2>1 DEF BitlineDelay
<1> QED
  BY <1>2, <1>4

LEMMA InAdds ==
  ASSUME NEW which \in Arrays, NEW x \in Amount, NEW y \in Amount
  PROVE  /\ In(which, Plus(x, y)) = Both!Plus(In(which, x), In(which, y))
         /\ Both!Minus(In(which, Plus(x, y)), In(which, y)) = In(which, x)
<1> DEFINE sum == In(which, Plus(x, y))
           sums == Both!Plus(In(which, x), In(which, y))
           rest == Both!Minus(sum, In(which, y))
<1>1. Plus(x, y) \in Amount /\ \A p \in Parts : Plus(x, y)[p] = x[p] + y[p]
  BY AmountsAdd
<1>2. ASSUME NEW p \in Places
      PROVE  /\ sum[p] = In(which, x)[p] + In(which, y)[p]
             /\ In(which, x)[p] \in Int /\ In(which, y)[p] \in Int
  <2>1. p[2] \in Parts /\ x[p[2]] \in Int /\ y[p[2]] \in Int
    BY DEF Places, Amount
  <2>2. /\ sum[p] = IF p[1] = which THEN x[p[2]] + y[p[2]] ELSE 0
        /\ In(which, x)[p] = IF p[1] = which THEN x[p[2]] ELSE 0
        /\ In(which, y)[p] = IF p[1] = which THEN y[p[2]] ELSE 0
    BY <1>1, <2>1, InBoth
  <2> QED
    BY <2>1, <2>2
<1>3. sums = [p \in Places |-> In(which, x)[p] + In(which, y)[p]]
  BY DEF Both!Plus, Places
<1>4. rest = [p \in Places |-> sum[p] - In(which, y)[p]]
  BY DEF Both!Minus, Places
<1>5. sum \in AmountOfBoth /\ In(which, x) \in AmountOfBoth
  BY <1>1, InBoth
<1> HIDE DEF sum, sums, rest
<1>6. sum = [p \in Places |-> sum[p]] /\ In(which, x) = [p \in Places |-> In(which, x)[p]]
  BY <1>5 DEF AmountOfBoth
<1>7. sum = sums
  BY <1>2, <1>3, <1>6
<1>8. \A p \in Places : sum[p] - In(which, y)[p] = In(which, x)[p]
  BY <1>2
<1>9. rest = In(which, x)
  BY <1>4, <1>6, <1>8
<1> QED
  BY <1>7, <1>9 DEF sum, sums, rest

\* What a mat or a circuit waits for, and a way from outside to the mats.
LEMMA InWaits ==
  ASSUME NEW which \in Arrays, NEW x \in Amount,
         \A p \in Parts \ Bitlines : x[p] >= 0,
         x["bitline"] + (x["bitlineOn"] + x["bitlineOff"]) >= 0
  PROVE  Waits(In(which, x))
<1>1. \A p \in OtherPlaces : In(which, x)[p] >= 0
  <2>1. ASSUME NEW p \in OtherPlaces PROVE In(which, x)[p] >= 0
    <3>1. p \in Places /\ p[2] \in Parts \ Bitlines
      BY BitlinesAreParts DEF OtherPlaces
    <3>2. In(which, x)[p] = IF p[1] = which THEN x[p[2]] ELSE 0
      BY <3>1, InBoth
    <3> QED
      BY <3>1, <3>2
  <2> QED
    BY <2>1
<1>2. \A other \in Arrays : BitlineDelay(In(which, x), other) >= 0
  BY InBoth
<1> QED
  BY <1>1, <1>2, InBoth DEF Waits

LEMMA SpentWaits ==
  ASSUME NEW which \in Arrays, NEW S, NEW L \in Spent(S)
  PROVE  InAll(which, L) \in Waiting /\ \A x \in L : Waits(In(which, x))
<1>1. ASSUME NEW x \in L PROVE Waits(In(which, x))
  <2>1. x \in Amount
    BY DEF Spent, Paths
  <2>2. \A p \in Parts : x[p] \in Int /\ x[p] >= 0
    BY <2>1, NothingIsAmount DEF Spent, AtLeast, Amount
  <2>3. /\ x["bitline"] \in Int /\ x["bitlineOn"] \in Int /\ x["bitlineOff"] \in Int
        /\ x["bitline"] >= 0 /\ x["bitlineOn"] >= 0 /\ x["bitlineOff"] >= 0
    BY <2>2, BitlinesAreParts
  <2> QED
    BY <2>1, <2>2, <2>3, InWaits
<1>2. L # {}
  BY DEF Spent
<1> QED
  BY <1>1, <1>2 DEF InAll, Waiting, Waits

LEMMA RouteWaits ==
  ASSUME NEW which \in Arrays, NEW x \in Amount, SharedBitline(x), AddsDelay(x)
  PROVE  Waits(In(which, x))
<1>1. PICK line \in Bitlines : \A p \in Bitlines : x[p] = Once(p, line) - Once(p, "bitline")
  BY DEF SharedBitline
<1>2. line \in {"bitline", "bitlineOn", "bitlineOff"} /\ Unit \in Int
  BY BitlinesAreParts, UnitAssumption
<1>3. /\ x["bitline"] = Once("bitline", line) - Unit
      /\ x["bitlineOn"] = Once("bitlineOn", line) - 0
      /\ x["bitlineOff"] = Once("bitlineOff", line) - 0
  BY <1>1, BitlinesAreParts DEF Once
<1>4. /\ Once("bitline", line) = IF line = "bitline" THEN Unit ELSE 0
      /\ Once("bitlineOn", line) = IF line = "bitlineOn" THEN Unit ELSE 0
      /\ Once("bitlineOff", line) = IF line = "bitlineOff" THEN Unit ELSE 0
  BY DEF Once
<1>5. x["bitline"] + (x["bitlineOn"] + x["bitlineOff"]) = 0
  BY <1>2, <1>3, <1>4
<1> QED
  BY <1>5, InWaits DEF AddsDelay

\* The reads of an evaluated bank: the routing R, which waits, and the mats.
LEMMA ReadsWait ==
  ASSUME NEW a, NEW s, NEW m, NEW b, IsCosted(a, s, m, b), NEW which \in Arrays
  PROVE  \E R \in Paths :
           /\ R # {} /\ \A r \in R : Waits(In(which, r))
           /\ m.readLatency \in Spent(Finite)
           /\ b.readLatency = Then(R, m.readLatency)
           /\ InAll(which, b.readLatency) \in Waiting
<1> DEFINE R == Routing(a).readLatency
<1>1. IsArray(a) /\ b.readLatency = Then(R, m.readLatency)
  BY DEF IsCosted, IsRouted
<1>2. R \in Paths /\ R # {}
  BY <1>1, RoutingCosts DEF IsRoutingCost, RoutingPaths
<1>3. \A r \in R : RouteCounts(a, r)
  BY <1>1, RoutePaths
<1> HIDE DEF R
<1>4. \A r \in R : Waits(In(which, r)) /\ r \in Amount
  BY <1>2, <1>3, RouteWaits DEF Paths, RouteCounts
<1>5. m.readLatency \in Spent(Finite)
  <2>1. m.readLatency = MatLatency(a).readLatency
    BY PowerFields DEF IsCosted, Has
  <2> QED
    BY <1>1, <2>1, MatTime DEF LatencyNames
<1>6. ASSUME NEW x \in b.readLatency PROVE Waits(In(which, x)) /\ In(which, x) \in AmountOfBoth
  <2>1. PICK r \in R, n \in m.readLatency : x = Plus(r, n)
    BY <1>1, ThenJoins
  <2>2. Waits(In(which, r)) /\ Waits(In(which, n)) /\ r \in Amount /\ n \in Amount
    BY <1>4, <1>5, SpentWaits, SpentIsPaths DEF Paths
  <2>3. In(which, x) = Both!Plus(In(which, r), In(which, n))
    BY <2>1, <2>2, InAdds
  <2>4. Waits(In(which, x))
    BY <2>2, <2>3, CoversLonger
  <2> QED
    BY <2>4 DEF Waits
<1>7. b.readLatency # {}
  BY <1>1, <1>2, <1>5, SpentIsPaths DEF Then
<1>8. InAll(which, b.readLatency) \in Waiting
  BY <1>6, <1>7 DEF InAll, Waiting
<1> QED
  BY <1>1, <1>2, <1>4, <1>5, <1>8

-----------------------------------------------------------------------------
(***************************************************************************)
(* HitCoversTagAndData: each mode.                                         *)
(***************************************************************************)

\* In normal mode a hit is the maximum of tags and mats, the columns, and what the
\* data have more than their mats: the way in and out, among other differences.
LEMMA NormalHit ==
  ASSUME NEW T \in Waiting, NEW C \in Waiting,
         NEW R \in Paths, R # {}, \A r \in R : Waits(In("data", r)),
         NEW M \in Spent(Finite)
  PROVE  LET data == InAll("data", Then(R, M))
             mats == InAll("data", M)
             hit == Both!Then(Both!Then(Both!Later(T, mats), C), Both!Without(data, mats))
         IN  CoveredBy(T, hit) /\ CoveredBy(data, hit)
<1> DEFINE data == InAll("data", Then(R, M))
           mats == InAll("data", M)
           first == Both!Then(Both!Later(T, mats), C)
           b == CHOOSE m \in mats : TRUE
           rests == {Both!Minus(x, b) : x \in data}
           left == {d \in rests : Both!Then(mats, {d}) \subseteq data}
           hit == Both!Then(first, left)
<1>1. "data" \in Arrays
  BY DEF Arrays
<1>2. mats \in Waiting /\ \A m \in M : m \in Amount
  BY <1>1, SpentWaits, SpentIsPaths DEF Paths
<1>3. \A r \in R : r \in Amount
  BY DEF Paths
<1>4. ASSUME NEW r \in R, NEW m \in M
      PROVE  /\ Both!Plus(In("data", r), In("data", m)) \in data
             /\ Both!Plus(In("data", m), In("data", r)) \in data
             /\ Both!Minus(Both!Plus(In("data", r), In("data", m)), In("data", m)) = In("data", r)
  <2>1. r \in Amount /\ m \in Amount
    BY <1>2, <1>3
  <2>2. /\ In("data", Plus(r, m)) = Both!Plus(In("data", r), In("data", m))
        /\ In("data", Plus(m, r)) = Both!Plus(In("data", m), In("data", r))
        /\ Both!Minus(In("data", Plus(r, m)), In("data", m)) = In("data", r)
    BY <1>1, <2>1, InAdds
  <2>3. Plus(r, m) \in Then(R, M) /\ Plus(m, r) = Plus(r, m)
    BY <2>1, PlusCommutes DEF Then
  <2>4. In("data", Plus(r, m)) \in data
    BY <2>3 DEF InAll
  <2> QED
    BY <2>2, <2>3, <2>4
<1>5. ASSUME NEW r \in R PROVE In("data", r) \in left
  <2>1. PICK m \in M : b = In("data", m)
    <3>1. mats # {}
      BY <1>2 DEF Waiting
    <3>2. b \in mats
      BY <3>1
    <3> QED
      BY <3>2 DEF InAll
  <2> HIDE DEF b
  <2>2. In("data", r) \in rests
    BY <1>4, <2>1
  <2>3. ASSUME NEW x \in Both!Then(mats, {In("data", r)}) PROVE x \in data
    <3>1. PICK y \in mats : x = Both!Plus(y, In("data", r))
      BY DEF Both!Then
    <3>2. PICK n \in M : y = In("data", n)
      BY DEF InAll
    <3> QED
      BY <1>4, <3>1, <3>2
  <2> QED
    BY <2>2, <2>3
<1>6. Both!Without(data, mats) = left
  BY DEF Both!Without
<1>7. /\ Both!Later(T, mats) \in Waiting
      /\ CoveredBy(T, Both!Later(T, mats)) /\ CoveredBy(mats, Both!Later(T, mats))
  BY <1>2, WaitForLater
<1>8. /\ first \in Waiting
      /\ CoveredBy(Both!Later(T, mats), first)
  BY <1>7, WaitForBoth
<1> HIDE DEF first, left, data, mats, b, rests
<1>9. CoveredBy(T, first) /\ CoveredBy(mats, first)
  BY <1>2, <1>7, <1>8, CoveredOnward DEF Waiting
<1>10. ASSUME NEW x \in T PROVE \E h \in hit : Covers(h, x)
  <2>1. PICK f \in first : Covers(f, x)
    BY <1>9 DEF CoveredBy
  <2>2. PICK r \in R : TRUE
    OBVIOUS
  <2>3. Both!Plus(f, In("data", r)) \in hit
    BY <1>5 DEF Both!Then
  <2>4. Waits(f) /\ Waits(In("data", r)) /\ Waits(x)
    BY <1>8 DEF Waiting
  <2>5. Covers(Both!Plus(f, In("data", r)), f) /\ Waits(Both!Plus(f, In("data", r)))
    BY <2>4, CoversLonger
  <2>6. Covers(Both!Plus(f, In("data", r)), x)
    BY <2>1, <2>4, <2>5, CoversOnward DEF Waits
  <2> QED
    BY <2>3, <2>6
<1>11. ASSUME NEW x \in data PROVE \E h \in hit : Covers(h, x)
  <2>1. PICK r \in R, m \in M : x = Both!Plus(In("data", r), In("data", m))
    <3>1. PICK y \in Then(R, M) : x = In("data", y)
      BY DEF InAll, data
    <3>2. PICK r \in R, m \in M : y = Plus(r, m)
      BY <3>1, ThenJoins
    <3>3. r \in Amount /\ m \in Amount
      BY <1>2, <1>3
    <3> QED
      BY <1>1, <3>1, <3>2, <3>3, InAdds
  <2>2. In("data", m) \in mats
    BY DEF InAll, mats
  <2>3. PICK f \in first : Covers(f, In("data", m))
    BY <1>9, <2>2 DEF CoveredBy
  <2>4. Both!Plus(f, In("data", r)) \in hit
    BY <1>5 DEF Both!Then
  <2>5. f \in AmountOfBoth /\ In("data", r) \in AmountOfBoth /\ In("data", m) \in AmountOfBoth
    BY <1>1, <1>2, <1>3, <1>8, InBoth DEF Waiting
  <2>6. Covers(Both!Plus(f, In("data", r)), x)
    BY <2>1, <2>3, <2>5, CoversTogether
  <2> QED
    BY <2>4, <2>6
<1>12. CoveredBy(T, hit) /\ CoveredBy(data, hit)
  BY <1>10, <1>11 DEF CoveredBy
<1> QED
  BY <1>6, <1>12 DEF first, data, mats

\* The energies: those of both arrays, or of the tags.
LEMMA ReadEnergyIsCharged ==
  ASSUME NEW a, NEW s, NEW m, NEW b, IsCosted(a, s, m, b)
  PROVE  b.readDynamicEnergy \in Charged(Parts)
<1>1. IsArray(a) /\ "readDynamicEnergy" \in EnergyNames
  BY DEF IsCosted, EnergyNames
<1>2. m.readDynamicEnergy = MatPower(a).readDynamicEnergy
  BY PowerFields DEF IsCosted, Has
<1>3. SubArrayPower(a).readDynamicEnergy \in Charged(Parts)
  BY <1>1, SubArrayEnergy
<1>4. PICK own \in Charged(OfMatOnly) :
        \A p \in Parts : /\ MatPower(a).readDynamicEnergy \in Amount
                         /\ MatPower(a).readDynamicEnergy[p]
                              = own[p] + a.activeSubarrays * SubArrayPower(a).readDynamicEnergy[p]
  BY <1>1, MatEnergy
<1>5. m.readDynamicEnergy \in Charged(Parts)
  <2>1. MatPower(a).readDynamicEnergy \in Amount
    BY <1>4, KindsOfParts
  <2>2. \A p \in Parts : own[p] \in Nat /\ SubArrayPower(a).readDynamicEnergy[p] \in Nat
    BY <1>3, ChargedIsNatural
  <2>3. a.activeSubarrays \in Nat
    BY <1>1 DEF IsArray
  <2>4. \A y, z \in Nat : y * z \in Nat
    OBVIOUS
  <2>5. ASSUME NEW p \in Parts PROVE MatPower(a).readDynamicEnergy[p] \in Nat
    <3>1. a.activeSubarrays * SubArrayPower(a).readDynamicEnergy[p] \in Nat
      BY <2>2, <2>3, <2>4
    <3> QED
      BY <1>4, <2>2, <3>1
  <2> QED
    BY <1>2, <2>1, <2>5, NaturalIsCharged
<1>6. Routing(a).readDynamicEnergy \in Charged(Parts)
  BY <1>1, RoutingCosts DEF IsRoutingCost, RoutingAmounts, Charged, Only
<1>7. ActiveMats(a) \in Nat
  BY <1>1 DEF IsArray
<1>8. Times(ActiveMats(a), m.readDynamicEnergy) \in Charged(Parts)
  BY <1>5, <1>7, ChargedTimes
<1>9. b.readDynamicEnergy = Plus(Routing(a).readDynamicEnergy,
                                 Times(ActiveMats(a), m.readDynamicEnergy))
  BY DEF IsCosted, IsRouted
<1> QED
  BY <1>6, <1>8, <1>9, ChargedPlus

LEMMA EnergyOfBoth ==
  ASSUME NEW x \in Charged(Parts), NEW y \in Charged(Parts)
  PROVE  LET both == Both!Plus(In("tag", x), In("data", y))
         IN  /\ Both!AtLeast(both, both) /\ Both!AtLeast(both, In("tag", x))
             /\ Both!Only(In("tag", x), {"tag"} \X Parts)
<1> DEFINE both == Both!Plus(In("tag", x), In("data", y))
<1>1. "tag" \in Arrays /\ "data" \in Arrays
  BY DEF Arrays
<1>2. x \in Amount /\ y \in Amount /\ \A p \in Parts : x[p] \in Nat /\ y[p] \in Nat
  BY ChargedIsNatural
<1>3. ASSUME NEW p \in Places
      PROVE  /\ both[p] = In("tag", x)[p] + In("data", y)[p]
             /\ In("tag", x)[p] \in Nat /\ In("data", y)[p] \in Nat
             /\ p[1] # "tag" => In("tag", x)[p] = 0
  <2>1. p[2] \in Parts
    BY DEF Places
  <2>2. /\ In("tag", x)[p] = IF p[1] = "tag" THEN x[p[2]] ELSE 0
        /\ In("data", y)[p] = IF p[1] = "data" THEN y[p[2]] ELSE 0
        /\ In("tag", x) \in AmountOfBoth /\ In("data", y) \in AmountOfBoth
    BY <1>1, <1>2, InBoth
  <2>3. both[p] = In("tag", x)[p] + In("data", y)[p]
    BY <2>2, PlusOfBoth
  <2> QED
    BY <1>2, <2>1, <2>2, <2>3
<1> HIDE DEF both
<1>4. \A p \in Places : both[p] >= both[p] /\ both[p] >= In("tag", x)[p]
  BY <1>3
<1>5. \A p \in Places \ ({"tag"} \X Parts) : In("tag", x)[p] = 0
  BY <1>3 DEF Places
<1>6. Both!AtLeast(both, both) /\ Both!AtLeast(both, In("tag", x))
  BY <1>4 DEF Both!AtLeast, Places
<1>7. Both!Only(In("tag", x), {"tag"} \X Parts)
  BY <1>5 DEF Both!Only, Places
<1> QED
  BY <1>6, <1>7 DEF both

LEMMA CostedHits ==
  ASSUME NEW a, NEW t, NEW d, NEW c, IsCosted(c, t.subarray, t.mat, t.bank),
         IsCosted(a, d.subarray, d.mat, d.bank)
  PROVE  LET s == PrintAsCache(a, t, d)
             tagRead == InAll("tag", t.bank.readLatency)
             dataRead == InAll("data", d.bank.readLatency)
             sequential == a.cacheAccessMode = "sequential"
         IN  /\ CoveredBy(tagRead, s.hitLatency) /\ CoveredBy(dataRead, s.hitLatency)
             /\ CoveredBy(s.missLatency, s.hitLatency)
             /\ sequential => CoveredBy(Both!Then(tagRead, dataRead), s.hitLatency)
             /\ Both!AtLeast(s.hitEnergy, s.missEnergy)
             /\ sequential => Both!Only(s.missEnergy, {"tag"} \X Parts)
<1> DEFINE s == PrintAsCache(a, t, d)
           tagRead == InAll("tag", t.bank.readLatency)
           dataRead == InAll("data", d.bank.readLatency)
           mats == InAll("data", d.mat.readLatency)
           columns == InAll("data", ColumnDecoderLatency(a))
           tagEnergy == In("tag", t.bank.readDynamicEnergy)
           dataEnergy == In("data", d.bank.readDynamicEnergy)
           mode == a.cacheAccessMode
<1>1. "tag" \in Arrays /\ "data" \in Arrays
  BY DEF Arrays
<1>2. tagRead \in Waiting
  BY <1>1, ReadsWait
<1>3. PICK R \in Paths :
        /\ R # {} /\ \A r \in R : Waits(In("data", r))
        /\ d.mat.readLatency \in Spent(Finite)
        /\ d.bank.readLatency = Then(R, d.mat.readLatency)
        /\ InAll("data", d.bank.readLatency) \in Waiting
  BY <1>1, ReadsWait, Zenon
<1>4. columns \in Waiting
  BY <1>1, DecoderTime, SpentWaits
<1>5. /\ s.missLatency = tagRead
      /\ s.hitLatency = CASE mode = "normal" -> Both!Then(Both!Then(Both!Later(tagRead, mats), columns),
                                                          Both!Without(dataRead, mats))
                          [] mode = "fast" -> Both!Later(tagRead, dataRead)
                          [] OTHER -> Both!Then(tagRead, dataRead)
      /\ s.hitEnergy = Both!Plus(tagEnergy, dataEnergy)
      /\ s.missEnergy = IF mode \in {"normal", "fast"}
                        THEN Both!Plus(tagEnergy, dataEnergy) ELSE tagEnergy
  BY DEF PrintAsCache, CacheHitLatency
<1>6. /\ t.bank.readDynamicEnergy \in Charged(Parts)
      /\ d.bank.readDynamicEnergy \in Charged(Parts)
  BY ReadEnergyIsCharged
<1>7. /\ Both!AtLeast(Both!Plus(tagEnergy, dataEnergy), Both!Plus(tagEnergy, dataEnergy))
      /\ Both!AtLeast(Both!Plus(tagEnergy, dataEnergy), tagEnergy)
      /\ Both!Only(tagEnergy, {"tag"} \X Parts)
  BY <1>6, EnergyOfBoth
<1>8. dataRead \in Waiting
  BY <1>3
<1>9. LET hit == Both!Then(Both!Then(Both!Later(tagRead, mats), columns),
                           Both!Without(dataRead, mats))
      IN  CoveredBy(tagRead, hit) /\ CoveredBy(dataRead, hit)
  <2> HIDE DEF tagRead, columns
  <2>1. LET data == InAll("data", Then(R, d.mat.readLatency))
            hit == Both!Then(Both!Then(Both!Later(tagRead, mats), columns), Both!Without(data, mats))
        IN  CoveredBy(tagRead, hit) /\ CoveredBy(data, hit)
    BY <1>2, <1>3, <1>4, NormalHit
  <2> QED
    BY <1>3, <2>1
<1> HIDE DEF s, tagRead, dataRead, mats, columns, tagEnergy, dataEnergy, mode
<1>10. /\ CoveredBy(tagRead, Both!Later(tagRead, dataRead))
       /\ CoveredBy(dataRead, Both!Later(tagRead, dataRead))
  BY <1>2, <1>8, WaitForLater
<1>11. /\ CoveredBy(tagRead, Both!Then(tagRead, dataRead))
       /\ CoveredBy(dataRead, Both!Then(tagRead, dataRead))
       /\ Both!Then(tagRead, dataRead) \in Waiting
  BY <1>2, <1>8, WaitForBoth
<1>12. CoveredBy(Both!Then(tagRead, dataRead), Both!Then(tagRead, dataRead))
  BY <1>11, CoversItself DEF CoveredBy, Waiting
<1>13. /\ CoveredBy(tagRead, s.hitLatency) /\ CoveredBy(dataRead, s.hitLatency)
       /\ mode = "sequential" => CoveredBy(Both!Then(tagRead, dataRead), s.hitLatency)
  <2>1. CASE mode = "normal"
    BY <1>5, <1>9, <2>1
  <2>2. CASE mode = "fast"
    BY <1>5, <1>10, <2>2
  <2>3. CASE mode \notin {"normal", "fast"}
    BY <1>5, <1>11, <1>12, <2>3
  <2> QED
    BY <2>1, <2>2, <2>3
<1>14. /\ Both!AtLeast(s.hitEnergy, s.missEnergy)
       /\ mode = "sequential" => Both!Only(s.missEnergy, {"tag"} \X Parts)
  BY <1>5, <1>7
<1> QED
  BY <1>5, <1>13, <1>14 DEF s, tagRead, dataRead, mode

\* The summary is that of the two banks that were kept.
SummaryInv ==
  /\ pc = "summary" => DOMAIN kept = {1, 2}
  /\ summary.known =>
       pc = "done" /\ DOMAIN kept = {1, 2} /\ summary = PrintAsCache(call[2], kept[1], kept[2])

LEMMA InitSummary == Init => SummaryInv
BY DEF Init, SummaryInv, NoSummary

LEMMA SummaryStep ==
  ReadInv /\ SummaryInv /\ [Next]_vars => SummaryInv'
<1> SUFFICES ASSUME ReadInv, SummaryInv, [Next]_vars PROVE SummaryInv'
  OBVIOUS
<1>1. ASSUME pc # "done", pc' # "summary", UNCHANGED <<call, kept, summary>> PROVE SummaryInv'
  BY <1>1 DEF SummaryInv
<1>2. CASE BankInitialize \/ MatBeforeSubArray \/ SubArrayLegality \/ SenseVoltage \/ DeriveCells
           \/ MatAfterSubArray \/ BankAfterMat \/ CalculateArea \/ CalculateRC
           \/ CalculateLatencyAndPower \/ Drop
  BY <1>1, <1>2, ChainPlaces
  DEF BankInitialize, MatBeforeSubArray, SubArrayLegality, SenseVoltage, DeriveCells, MatAfterSubArray,
      BankAfterMat, CalculateArea, CalculateRC, CalculateLatencyAndPower, Drop
<1>3. CASE \E i \in DOMAIN Chain : InitializeCircuit(Chain[i])
  <2>1. PICK i \in DOMAIN Chain : InitializeCircuit(Chain[i])
    BY <1>3
  <2>2. Effect(i, Chain[i]) /\ i \in 1 .. 9 /\ Len(Chain) = 9
    BY <2>1, CircuitEffect, ChainPlaces DEF Chain
  <2>3. pc # "done" /\ UNCHANGED <<call, kept, summary>>
    BY <2>1, <2>2, ChainPlaces DEF InitializeCircuit
  <2>4. pc' # "summary"
    <3>1. pc' = "afterSubArray" \/ (pc' = Chain[i + 1] /\ i + 1 \in 1 .. 9)
      BY <2>2 DEF Effect
    <3> QED
      BY <3>1, ChainPlaces
  <2> QED
    BY <1>1, <2>3, <2>4
<1>4. CASE Keep
  <2>1. /\ pc = "evaluated" /\ kept' = Append(kept, Evaluated) /\ UNCHANGED summary
        /\ IF Len(kept') < Len(call) THEN pc' = "bank"
           ELSE pc' = IF Len(call) = 2 THEN "summary" ELSE "done"
    BY <1>4 DEF Keep
  <2>2. ~summary.known
    BY <2>1 DEF SummaryInv
  <2>3. CASE kept = <<>>
    <3>1. Len(kept') = 1 /\ Len(call) \in {1, 2}
      BY <2>1, <2>3, CallsHaveArrays DEF ReadInv, ArrayInv
    <3> QED
      BY <2>1, <2>2, <3>1 DEF SummaryInv
  <2>4. CASE \E x : kept = <<x>>
    <3>1. PICK x : kept = <<x>>
      BY <2>4
    <3>2. DOMAIN kept' = {1, 2}
      BY <2>1, <3>1, AppendSecond, Zenon
    <3> QED
      BY <2>1, <2>2, <3>2 DEF SummaryInv
  <2> QED
    BY <2>1, <2>3, <2>4 DEF ReadInv, ArrayInv
<1>5. CASE PrintSummary
  BY <1>5 DEF PrintSummary, SummaryInv
<1>6. CASE Finished \/ UNCHANGED vars
  BY <1>6 DEF Finished, vars, units, SummaryInv
<1> QED
  BY <1>2, <1>3, <1>4, <1>5, <1>6 DEF Next

\* For every pair of arrays and each access mode: a hit contains the ways to read the
\* tags and those to read the data, also where it is put together from the mats, the
\* columns and a difference, and a miss costs no more energy than a hit.
THEOREM HitsContainReads == Spec => []HitCoversTagAndData
<1>1. CostInv /\ SummaryInv => HitCoversTagAndData
  <2> SUFFICES ASSUME CostInv, SummaryInv, summary.known PROVE HitCoversTagAndData
    BY DEF HitCoversTagAndData
  <2>1. DOMAIN kept = {1, 2} /\ summary = PrintAsCache(call[2], kept[1], kept[2])
    BY DEF SummaryInv
  <2>2. /\ IsCosted(call[1], kept[1].subarray, kept[1].mat, kept[1].bank)
        /\ IsCosted(call[2], kept[2].subarray, kept[2].mat, kept[2].bank)
    BY <2>1 DEF CostInv
  <2> QED
    BY <2>1, <2>2, CostedHits DEF HitCoversTagAndData
<1> QED
  BY <1>1, InitRead, InitRefuse, InitCosts, InitSummary, ReadStep, RefuseStep, CostStep, SummaryStep,
     PTL DEF Spec
=============================================================================
