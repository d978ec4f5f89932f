------------------------------- MODULE Array --------------------------------
(***************************************************************************)
(* Mat::Initialize and SubArray::Initialize: from the bits that a bank     *)
(* routes to a mat to the rows and columns of a subarray, with every test  *)
(* that rejects an organisation.                                           *)
(*                                                                         *)
(* A call is the argument list of Bank::Initialize with what the tests     *)
(* read from the globals: the cell type, the ways each column has to hold  *)
(* part of (0 when the test does not apply), the pages of a flash block,   *)
(* and whether the physical tests of SubArray::Initialize pass (bitline    *)
(* leakage, wordline and bitline currents, sense voltage, drivers, sense   *)
(* amplifier pitch), whether the global wire has repeaters, and whether a  *)
(* global sense amplifier fits its pitch.                                  *)
(***************************************************************************)
EXTENDS Bits

CallType ==
  [numRowMat : Nat, numColumnMat : Nat, capacity : Nat, blockSize : Nat,
   associativity : Nat, numRowPerSet : Nat,
   numActiveMatPerRow : Nat, numActiveMatPerColumn : Nat,
   muxSenseAmp : Nat, internalSenseAmp : BOOLEAN,
   muxOutputLev1 : Nat, muxOutputLev2 : Nat,
   numRowSubarray : Nat, numColumnSubarray : Nat,
   numActiveSubarrayPerRow : Nat, numActiveSubarrayPerColumn : Nat,
   memoryType : {"data", "tag", "CAM"},
   cellType : {"SRAM", "DRAM", "eDRAM", "MRAM", "PCRAM", "memristor", "FBRAM",
               "SLCNAND"},
   waysPerColumn : Nat, pageCount : Nat, feasible : BOOLEAN,
   repeatedGlobalWire : BOOLEAN, globalSenseFits : BOOLEAN]

\* The three mux degrees, as a tuple: before the sense amplifiers, and the two
\* levels after them.
Mux(call) == <<call.muxSenseAmp, call.muxOutputLev1, call.muxOutputLev2>>
Degree(mux) == mux[1] * mux[2] * mux[3]

\* SubArray::Initialize.
SubArrayIsLegal(call, mux, numRow, numColumn) ==
  /\ numColumn >= call.waysPerColumn
  /\ call.cellType \in {"DRAM", "eDRAM"} => mux[1] <= 1
  /\ call.cellType = "SLCNAND" => numRow >= call.pageCount
  /\ call.cellType \in {"SLCNAND", "memristor", "FBRAM"} /\ call.internalSenseAmp
       => mux[1] >= 2
  /\ call.feasible

InvalidMat == [invalid |-> TRUE, numRow |-> 0, numColumn |-> 0]

ActivePerRow(call) == AtMost(call.numActiveSubarrayPerRow, call.numColumnSubarray)
ActivePerColumn(call) == AtMost(call.numActiveSubarrayPerColumn, call.numRowSubarray)

\* Mutant: the ways that a data array puts below each other are forgotten.
OneWayRowsOf(call, addressBit, numWay) == 2 ^ addressBit

\* The words of a mat: a data array puts the rows of a set below each other.
RowsOf(call, addressBit, numWay) ==
  2 ^ addressBit * (IF call.memoryType = "data" THEN numWay ELSE 1)

\* The address bits of a mat without those that gate its inactive subarrays.
EffectiveBits(call, addressBit) ==
  addressBit - Log2((call.numRowSubarray * call.numColumnSubarray)
                      \div (ActivePerRow(call) * ActivePerColumn(call)), 1)

\* The address bits that are left for the rows.
RowBits(call, addressBit, mux) ==
  EffectiveBits(call, addressBit) - Log2(Degree(mux), 1)

\* Mat::Initialize, given the address and data bits routed to the mat, the
\* ways assigned to it and the mux degrees.
MatInitialize(call, addressBit, dataBit, numWay, mux) ==
  LET active == ActivePerRow(call) * ActivePerColumn(call)
      effective == EffectiveBits(call, addressBit)
      numRow == RowsOf(call, effective, numWay) \div Degree(mux)
      share == dataBit \div active
      numColumn == share * Degree(mux)
                     * (IF call.memoryType = "tag" THEN numWay ELSE 1)
  IN  IF /\ effective > 0
         /\ numRow # 0
         /\ share # 0
         /\ SubArrayIsLegal(call, mux, numRow, numColumn)
         /\ RowBits(call, addressBit, mux) >= 0
      THEN [invalid |-> FALSE, numRow |-> numRow, numColumn |-> numColumn]
      ELSE InvalidMat

\* The mux degrees that let a row hold several ways: for DRAM the two output
\* levels share them, otherwise all three levels do.
MuxForWays(call, numWay) ==
  LET perRow == numWay \div call.numRowPerSet
      lev2 == 2 ^ (Log2(perRow, 1) \div
                     (IF call.cellType \in {"DRAM", "eDRAM"} THEN 2 ELSE 3))
      mux == Mux(call)
  IN  IF perRow <= 1 THEN mux
      ELSE IF call.cellType \in {"DRAM", "eDRAM"}
           THEN <<mux[1], mux[2] * (perRow \div lev2), mux[3] * lev2>>
           ELSE <<mux[1] * (perRow \div (lev2 * lev2)), mux[2] * lev2, mux[3] * lev2>>

\* What VERIFY_DATA_CAPACITY and VERIFY_TAG_CAPACITY compare with capacity.
BitsIn(call, mat) ==
  mat.numColumn * mat.numRow * call.numColumnMat * call.numRowMat
    * call.numColumnSubarray * call.numRowSubarray
=============================================================================
