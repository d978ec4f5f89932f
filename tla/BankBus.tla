------------------------------ MODULE BankBus -------------------------------
(***************************************************************************)
(* BankWithoutHtree::Initialize: the bits of a mat by division instead of  *)
(* by routing.                                                             *)
(***************************************************************************)
EXTENDS Array

ActiveMats(call) ==
  AtMost(call.numActiveMatPerRow, call.numColumnMat)
    * AtMost(call.numActiveMatPerColumn, call.numRowMat)

\* Address bits of the whole array.
NumAddressBit(call) == Log2(call.capacity, call.blockSize * call.associativity)

AddressBitRouteToMat(call) ==
  NumAddressBit(call)
    - Log2((call.numRowMat * call.numColumnMat) \div ActiveMats(call), 1)

\* The mat of a data array holds a share of the block in all ways, the mat of
\* a tag array whole tags in a share of the ways.
DataMat(call) ==
  IF call.numRowPerSet > call.associativity THEN InvalidMat
  ELSE MatInitialize(call, AddressBitRouteToMat(call),
         call.blockSize \div ActiveMats(call),
         call.associativity, MuxForWays(call, call.associativity))

TagMat(call) ==
  LET numWay == call.associativity \div ActiveMats(call)
  IN  IF call.numRowPerSet > 1 \/ numWay < 1 THEN InvalidMat
      ELSE MatInitialize(call, AddressBitRouteToMat(call), call.blockSize,
                         numWay, Mux(call))

\* External sensing is refused for DRAM, with repeaters on the global wire,
\* and when the global sense amplifiers do not fit.
SensingIsLegal(call) ==
  \/ call.internalSenseAmp
  \/ /\ call.cellType \notin {"DRAM", "eDRAM"}
     /\ ~call.repeatedGlobalWire
     /\ call.globalSenseFits

BusMat(call) ==
  IF ~SensingIsLegal(call) THEN InvalidMat
  ELSE CASE call.memoryType = "data" -> DataMat(call)
         [] call.memoryType = "tag" -> TagMat(call)
         [] OTHER -> MatInitialize(call, AddressBitRouteToMat(call),
                                   call.blockSize, 1, Mux(call))
=============================================================================
