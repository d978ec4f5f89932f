----------------------------- MODULE MCDecoding -----------------------------
(***************************************************************************)
(* Small instances of DecoderDrivers: every number of address bits up to 13 with *)
(* several ways, rows of a set, mux degrees and subarrays, and the largest *)
(* addresses.  Drivers have four units to a factor of 4: a maximum of 64   *)
(* times the minimum, loads of up to a million gates.                      *)
(***************************************************************************)
EXTENDS DecoderDrivers

Call(muxes, rowPerSet, subarrays) ==
  [numRowMat |-> 1, numColumnMat |-> 1, capacity |-> 64, blockSize |-> 64,
   associativity |-> 1, numRowPerSet |-> rowPerSet,
   numActiveMatPerRow |-> 1, numActiveMatPerColumn |-> 1,
   muxSenseAmp |-> muxes[1], internalSenseAmp |-> TRUE,
   muxOutputLev1 |-> muxes[2], muxOutputLev2 |-> muxes[3],
   numRowSubarray |-> subarrays, numColumnSubarray |-> 2,
   numActiveSubarrayPerRow |-> 1, numActiveSubarrayPerColumn |-> 1,
   memoryType |-> "data", cellType |-> "SRAM", waysPerColumn |-> 0, pageCount |-> 1,
   feasible |-> TRUE, repeatedGlobalWire |-> FALSE, globalSenseFits |-> TRUE]

Muxes == {<<1, 1, 1>>, <<2, 4, 1>>, <<8, 1, 16>>, <<32, 64, 1>>}

\* Pairs of ways and rows of a set.
Spreads == {<<1, 1>>, <<2, 2>>, <<4, 2>>, <<8, 1>>, <<8, 8>>}

Request(call, bits, ways) == [call |-> call, addressBit |-> bits, numWay |-> ways]

MCRequests ==
  {Request(Call(m, s[2], subarrays), bits, s[1]) :
     m \in Muxes, s \in Spreads, subarrays \in {1, 2}, bits \in 1 .. 13}
    \cup {Request(Call(m, 1, 1), bits, 1) : m \in Muxes, bits \in 14 .. MaxAddressBit}

MCInputCaps == {0, 1, 4}
MCOutputCaps == {-4, 0, 6, 10, 14, 22, 30, 40}
MCDriverWidths == {-3, 0, 6, 12, 13}
=============================================================================
