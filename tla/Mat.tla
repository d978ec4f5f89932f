-------------------------------- MODULE Mat ---------------------------------
(***************************************************************************)
(* What Mat::CalculateLatency and Mat::CalculatePower add to the subarrays *)
(* of a mat (Mat.cpp): the predecoder blocks in front of them and, for     *)
(* tags that are sensed inside, a comparator for each way.                 *)
(*                                                                         *)
(* Further fields of an array: numWay, subarrays and activeSubarrays.      *)
(***************************************************************************)
EXTENDS SubArray

HasComparator(a) == a.memoryType = "tag" /\ a.internalSenseAmp

\* The predecoder blocks in front of each decoder, and the bits they decode:
\* "Block 2 is needed" for more than three.
BlocksOf ==
  [row |-> <<"rowPredecoderBlock1", "rowPredecoderBlock2">>,
   bitlineMux |-> <<"bitlineMuxPredecoderBlock1", "bitlineMuxPredecoderBlock2">>,
   senseAmpMuxLev1 |->
     <<"senseAmpMuxLev1PredecoderBlock1", "senseAmpMuxLev1PredecoderBlock2">>,
   senseAmpMuxLev2 |->
     <<"senseAmpMuxLev2PredecoderBlock1", "senseAmpMuxLev2PredecoderBlock2">>]

AddressBitsOf(a, role) == IF role = "row" THEN a.rowBits ELSE a.muxBits[role]

NumAddressBit(a, block) ==
  LET role == CHOOSE r \in DOMAIN BlocksOf : \E i \in {1, 2} : BlocksOf[r][i] = block
      bits == AddressBitsOf(a, role)
      second == IF bits > 3 THEN bits \div 2 ELSE 0
  IN  IF block = BlocksOf[role][1] THEN bits - second ELSE second

PredecoderOf(a, block) == PredecodeBlockCost(block, NumAddressBit(a, block))

-----------------------------------------------------------------------------
PredecoderLatency(a) == LatestOf([p \in Predecoders |-> PredecoderOf(a, p).readLatency])

\* Mutant: a read waits for no comparator.
MatLatencyUncompared(a) ==
  LET sub == SubArrayLatency(a)
  IN  [readLatency |-> Then(PredecoderLatency(a), sub.readLatency),
       writeLatency |-> Then(PredecoderLatency(a), sub.writeLatency),
       resetLatency |-> Then(PredecoderLatency(a), sub.resetLatency),
       setLatency |-> Then(PredecoderLatency(a), sub.setLatency)]

MatLatency(a) ==
  LET sub == SubArrayLatency(a)
      read == Then(PredecoderLatency(a), sub.readLatency)
  IN  [readLatency |-> IF HasComparator(a)
                       THEN Then(read, ComparatorCost("comparator").readLatency) ELSE read,
       writeLatency |-> Then(PredecoderLatency(a), sub.writeLatency),
       resetLatency |-> Then(PredecoderLatency(a), sub.resetLatency),
       setLatency |-> Then(PredecoderLatency(a), sub.setLatency)]

PredecoderRead(a) == SumOver([p \in Predecoders |-> PredecoderOf(a, p).readDynamicEnergy])
PredecoderWrite(a) ==
  SumOver([p \in Predecoders |-> PredecoderOf(a, p).writeDynamicEnergy])
PredecoderLeakage(a) == SumOver([p \in Predecoders |-> PredecoderOf(a, p).leakage])

\* The comparators of all ways; they do not work for RESET and SET.
Comparators(a, energy) == IF HasComparator(a) THEN Times(a.numWay, energy) ELSE Nothing

\* Mutant: only the active subarrays leak.
MatLeakageOfActive(a) ==
  Plus(PredecoderLeakage(a),
       Plus(Times(a.activeSubarrays, SubArrayPower(a).leakage),
            Comparators(a, ComparatorCost("comparator").leakage)))

MatLeakage(a) ==
  Plus(PredecoderLeakage(a),
       Plus(Times(a.subarrays, SubArrayPower(a).leakage),
            Comparators(a, ComparatorCost("comparator").leakage)))

\* All active subarrays work at the same time.
MatPower(a) ==
  LET sub == SubArrayPower(a)
      Active(energy) == Times(a.activeSubarrays, energy)
      compare == ComparatorCost("comparator")
  IN  [readDynamicEnergy |-> Plus(Plus(PredecoderRead(a), Active(sub.readDynamicEnergy)),
                                  Comparators(a, compare.readDynamicEnergy)),
       writeDynamicEnergy |-> Plus(Plus(PredecoderWrite(a), Active(sub.writeDynamicEnergy)),
                                   Comparators(a, compare.writeDynamicEnergy)),
       resetDynamicEnergy |-> Plus(PredecoderWrite(a), Active(sub.resetDynamicEnergy)),
       setDynamicEnergy |-> Plus(PredecoderWrite(a), Active(sub.setDynamicEnergy)),
       leakage |-> MatLeakage(a),
       cellReadEnergy |-> Active(sub.cellReadEnergy),
       cellResetEnergy |-> Active(sub.cellResetEnergy),
       cellSetEnergy |-> Active(sub.cellSetEnergy)]
=============================================================================
