--------------------------- MODULE DecoderProofs ----------------------------
(***************************************************************************)
(* The decoders of a mat, for all mats, sizes, loads and currents: each    *)
(* address bit is decoded once, the lines multiply from stage to stage,    *)
(* every circuit is sized for what it drives, and the chains of inverters  *)
(* are complete and drive their loads.                                     *)
(***************************************************************************)
EXTENDS DecoderDrivers, CommonProofs

USE DEF MaxLog, MaxPower

(***************************************************************************)
(* A block of up to MaxBlockBits bits, by its number of basic decoders.    *)
(***************************************************************************)
\* The decoders of a block of two bits or more.
LEMMA DecodersOfBits ==
  ASSUME NEW bits \in 2 .. 18
  PROVE  /\ NumDecoder12(bits) = 0
         /\ NumDecoder24(bits) \in 0 .. 2 /\ NumDecoder38(bits) \in 0 .. 6
         /\ 2 * NumDecoder24(bits) + 3 * NumDecoder38(bits) = bits
         /\ NumBasicDecoder(bits) = NumDecoder24(bits) + NumDecoder38(bits)
BY DEF NumDecoder12, NumDecoder24, NumDecoder38, NumBasicDecoder

\* The basic decoders in front of a row decoder: as many as its gates have inputs,
\* with a load that makes up for the bits of the others.
Fits(group, nand, bits) ==
  /\ NumDecoders(group) = nand
  /\ NumBits(group) = bits
  /\ \A size \in 1 .. 3 :
       /\ group[size].count > 0 \/ group[size] = None
       /\ group[size].count > 0 => group[size].load * 2 ^ size = 2 ^ bits

\* Group A may have smaller decoders, group B has 3-8 decoders only.
LEMMA GroupAFits ==
  ASSUME NEW bits, NEW nand \in 2 .. 3, NumDecoder24(bits) \in 0 .. 2
  PROVE  Fits(GroupA(bits, nand), nand, 3 * nand - NumDecoder24(bits))
<1> DEFINE small == NumDecoder24(bits)
<1>1. CASE nand = 2
  <2>1. CASE small = 0
    BY <1>1, <2>1 DEF GroupA, Fits, NumDecoders, NumBits, Basic, None, External
  <2>2. CASE small = 1
    BY <1>1, <2>2 DEF GroupA, Fits, NumDecoders, NumBits, Basic, None, External
  <2>3. CASE small = 2
    BY <1>1, <2>3 DEF GroupA, TwoSmallInGroupA, Fits, NumDecoders, NumBits, Basic, None, External
  <2> QED
    BY <2>1, <2>2, <2>3
<1>2. CASE nand = 3
  <2>1. CASE small = 0
    BY <1>2, <2>1 DEF GroupA, Fits, NumDecoders, NumBits, Basic, None, External
  <2>2. CASE small = 1
    BY <1>2, <2>2 DEF GroupA, Fits, NumDecoders, NumBits, Basic, None, External
  <2>3. CASE small = 2
    BY <1>2, <2>3 DEF GroupA, TwoSmallInGroupA, Fits, NumDecoders, NumBits, Basic, None, External
  <2> QED
    BY <2>1, <2>2, <2>3
<1> QED
  BY <1>1, <1>2

LEMMA GroupBFits ==
  ASSUME NEW nand \in 2 .. 3
  PROVE  Fits(GroupB(nand), nand, 3 * nand)
<1>1. CASE nand = 2
  BY <1>1 DEF GroupB, Fits, NumDecoders, NumBits, Basic, None, External
<1>2. CASE nand = 3
  BY <1>2 DEF GroupB, Fits, NumDecoders, NumBits, Basic, None, External
<1> QED
  BY <1>1, <1>2

\* More than three bits are more than the eight outputs of one decoder.
LEMMA AboveEight == ~ \E n \in 4 .. 30 : ~ (2 ^ n \in Nat /\ 2 ^ n > 8)
BY SMT

LEMMA PowerAboveEight ==
  ASSUME NEW n \in Nat, n > 3, n <= 30 PROVE 2 ^ n \in Nat /\ 2 ^ n > 8
<1>1. n \in 4 .. 30
  OBVIOUS
<1> QED
  BY <1>1, AboveEight, Zenon

\* What the properties ask of a block.
BlockFits(b) == LinesMultiplyIn(b) /\ LoadsAreFanOutIn(b) /\ BitsDecoded(b) = b.bits

\* A block without row decoders has one basic decoder.
LEMMA OnlyDecoderFits ==
  ASSUME NEW bits \in 1 .. 3
  PROVE  /\ NumBasicDecoder(bits) = 1
         /\ NumDecoders(OnlyDecoder(bits)) = 1 /\ NumBits(OnlyDecoder(bits)) = bits
         /\ \A size \in 1 .. 3 :
              /\ OnlyDecoder(bits)[size].count > 0 \/ OnlyDecoder(bits)[size] = None
              /\ OnlyDecoder(bits)[size].load = External
<1>1. CASE bits = 1
  <2>1. OnlyDecoder(bits) = <<Basic(1, External), None, None>> /\ NumBasicDecoder(bits) = 1
    BY <1>1 DEF OnlyDecoder, NumBasicDecoder, NumDecoder12, NumDecoder24, NumDecoder38
  <2> QED
    BY <1>1, <2>1 DEF NumDecoders, NumBits, Basic, None
<1>2. CASE bits = 2
  <2>1. OnlyDecoder(bits) = <<None, Basic(1, External), None>> /\ NumBasicDecoder(bits) = 1
    BY <1>2 DEF OnlyDecoder, NumBasicDecoder, NumDecoder12, NumDecoder24, NumDecoder38
  <2> QED
    BY <1>2, <2>1 DEF NumDecoders, NumBits, Basic, None
<1>3. CASE bits = 3
  <2>1. OnlyDecoder(bits) = <<None, None, Basic(1, External)>> /\ NumBasicDecoder(bits) = 1
    BY <1>3 DEF OnlyDecoder, NumBasicDecoder, NumDecoder12, NumDecoder24, NumDecoder38
  <2> QED
    BY <1>3, <2>1 DEF NumDecoders, NumBits, Basic, None
<1>4. bits = 1 \/ bits = 2 \/ bits = 3
  OBVIOUS
<1> QED
  BY <1>1, <1>2, <1>3, <1>4, Zenon

\* A block of no bits has no circuits.
LEMMA EmptyBlock == Block(0) = [bits |-> 0, basic |-> NoCircuits, rows |-> NoCircuits]
<1>1. NumBasicDecoder(0) = 0
  BY DEF NumBasicDecoder, NumDecoder12, NumDecoder24, NumDecoder38
<1> QED
  BY <1>1 DEF Block, BasicDecoders

LEMMA EmptyBlockFits == BlockFits(Block(0)) /\ Block(0).bits = 0
BY EmptyBlock DEF BlockFits, LinesMultiplyIn, LoadsAreFanOutIn, BitsDecoded, NoCircuits,
                  MaxBlockBits

LEMMA SmallBlockFits ==
  ASSUME NEW bits \in 1 .. 3
  PROVE  BlockFits(Block(bits)) /\ Block(bits).bits = bits
<1>1. NumBasicDecoder(bits) = 1 /\ bits # 0
  BY OnlyDecoderFits
<1>2. Block(bits) = [bits |-> bits, basic |-> [A |-> OnlyDecoder(bits)], rows |-> NoCircuits]
  BY <1>1 DEF Block, BasicDecoders, RowDecoders
<1>3. PICK b : b = Block(bits)
  OBVIOUS
<1>4. PICK g : g = OnlyDecoder(bits)
  OBVIOUS
<1>5. DOMAIN b.basic = {"A"} /\ b.basic["A"] = g /\ DOMAIN b.rows = {} /\ b.bits = bits
  BY <1>2, <1>3, <1>4 DEF NoCircuits
<1>6. /\ NumDecoders(g) = 1 /\ NumBits(g) = bits
      /\ \A size \in 1 .. 3 :
           /\ g[size].count > 0 \/ g[size] = None
           /\ g[size].load = External
  BY <1>4, OnlyDecoderFits
<1>7. BitsDecoded(b) = bits
  BY <1>5, <1>6 DEF BitsDecoded
<1>8. LinesMultiplyIn(b)
  BY <1>5, <1>6 DEF LinesMultiplyIn, MaxBlockBits
<1>9. LoadsAreFanOutIn(b)
  BY <1>5, <1>6 DEF LoadsAreFanOutIn
<1> QED
  BY <1>3, <1>5, <1>7, <1>8, <1>9 DEF BlockFits

\* A block with one row decoder.
LEMMA MediumBlockFits ==
  ASSUME NEW bits \in 4 .. 9
  PROVE  BlockFits(Block(bits)) /\ Block(bits).bits = bits
<1>1. PICK n : n = NumBasicDecoder(bits)
  OBVIOUS
<1>2. /\ n \in 2 .. 3 /\ NumDecoder24(bits) \in 0 .. 2
      /\ 3 * n - NumDecoder24(bits) = bits
  BY <1>1, DecodersOfBits
<1>3. NumNandA(bits) = n
  BY <1>1, <1>2 DEF NumNandA, NumNandB
<1>4. PICK g : g = GroupA(bits, n)
  OBVIOUS
<1>5. Fits(g, n, bits)
  BY <1>2, <1>4, GroupAFits
<1>6. 2 ^ bits \in Nat /\ 2 ^ bits > 8
  BY PowerAboveEight
<1>7. BasicDecoders(bits) = [A |-> g]
  BY <1>1, <1>2, <1>3, <1>4 DEF BasicDecoders
<1>8. RowDecoders(bits) = [A |-> Row(n = 3, 2 ^ bits, External)]
  BY <1>1, <1>2 DEF RowDecoders, NumOutput
<1>9. Row(n = 3, 2 ^ bits, External) = [nand |-> n, outputs |-> 2 ^ bits, load |-> External]
  BY <1>2, <1>6 DEF Row, NandInput
<1>10. PICK b : b = Block(bits)
  OBVIOUS
<1>11. b = [bits |-> bits, basic |-> [A |-> g],
            rows |-> [A |-> [nand |-> n, outputs |-> 2 ^ bits, load |-> External]]]
  BY <1>7, <1>8, <1>9, <1>10 DEF Block
<1>12. /\ DOMAIN b.basic = {"A"} /\ b.basic["A"] = g /\ b.bits = bits
       /\ DOMAIN b.rows = {"A"}
       /\ b.rows["A"].nand = n /\ b.rows["A"].outputs = 2 ^ bits /\ b.rows["A"].load = External
  BY <1>11
<1>13. BitsDecoded(b) = bits
  BY <1>5, <1>12 DEF BitsDecoded, Fits
<1>14. LinesMultiplyIn(b)
  BY <1>2, <1>5, <1>12 DEF LinesMultiplyIn, MaxBlockBits, Fits
<1>15. LoadsAreFanOutIn(b)
  BY <1>5, <1>12 DEF LoadsAreFanOutIn, Fits
<1> QED
  BY <1>10, <1>12, <1>13, <1>14, <1>15 DEF BlockFits

\* A block with two groups of decoders and a second stage.
LEMMA LargeBlockFits ==
  ASSUME NEW bits \in 10 .. 18
  PROVE  BlockFits(Block(bits)) /\ Block(bits).bits = bits
<1>1. PICK n : n = NumBasicDecoder(bits)
  OBVIOUS
<1>2. PICK small : small = NumDecoder24(bits)
  OBVIOUS
<1>3. n \in 4 .. 6 /\ small \in 0 .. 2 /\ 3 * n - small = bits
  BY <1>1, <1>2, DecodersOfBits
<1>4. PICK nandA, nandB : nandA = NumNandA(bits) /\ nandB = NumNandB(bits)
  OBVIOUS
<1>5. nandA \in 2 .. 3 /\ nandB \in 2 .. 3 /\ nandA + nandB = n
  BY <1>1, <1>3, <1>4 DEF NumNandA, NumNandB
<1>6. PICK a, b : a = 3 * nandA - small /\ b = 3 * nandB
  OBVIOUS
<1>7. a \in 4 .. 9 /\ b \in 6 .. 9 /\ a + b = bits
  BY <1>3, <1>5, <1>6
<1>8. PICK g, h : g = GroupA(bits, nandA) /\ h = GroupB(nandB)
  OBVIOUS
<1>9. Fits(g, nandA, a) /\ Fits(h, nandB, b)
  BY <1>2, <1>3, <1>5, <1>6, <1>8, GroupAFits, GroupBFits
<1>10. PICK linesA, linesB, lines : linesA = 2 ^ a /\ linesB = 2 ^ b /\ lines = 2 ^ bits
  OBVIOUS
<1>11. /\ linesA \in Nat /\ linesA > 8 /\ linesB \in Nat /\ linesB > 8
       /\ lines \in Nat /\ lines > 8
  BY <1>7, <1>10, PowerAboveEight
<1>12. linesA * linesB = lines
  BY <1>7, <1>10, PowersMultiply
<1>13. BasicDecoders(bits) = [A |-> g, B |-> h]
  BY <1>1, <1>3, <1>4, <1>8 DEF BasicDecoders
<1>14. PICK rowA, rowB, second :
         /\ rowA = Row(nandA = 3, linesA, linesB) /\ rowB = Row(nandB = 3, linesB, linesA)
         /\ second = Row(FALSE, lines, External)
  OBVIOUS
<1>15. RowDecoders(bits) = [A |-> rowA, B |-> rowB, Second |-> second]
  BY <1>1, <1>2, <1>3, <1>4, <1>6, <1>10, <1>14 DEF RowDecoders, NumOutput
<1>16. /\ rowA = [nand |-> nandA, outputs |-> linesA, load |-> linesB]
       /\ rowB = [nand |-> nandB, outputs |-> linesB, load |-> linesA]
       /\ second = [nand |-> 2, outputs |-> lines, load |-> External]
  BY <1>5, <1>11, <1>14 DEF Row, NandInput
<1>17. PICK block : block = Block(bits)
  OBVIOUS
<1>18. /\ DOMAIN block.basic = {"A", "B"} /\ block.basic["A"] = g /\ block.basic["B"] = h
       /\ block.bits = bits
       /\ DOMAIN block.rows = {"A", "B", "Second"}
       /\ block.rows["A"].nand = nandA /\ block.rows["A"].outputs = linesA
       /\ block.rows["A"].load = linesB
       /\ block.rows["B"].nand = nandB /\ block.rows["B"].outputs = linesB
       /\ block.rows["B"].load = linesA
       /\ block.rows["Second"].nand = 2 /\ block.rows["Second"].outputs = lines
       /\ block.rows["Second"].load = External
  <2>1. block = [bits |-> bits, basic |-> [A |-> g, B |-> h],
                 rows |-> [A |-> rowA, B |-> rowB, Second |-> second]]
    BY <1>13, <1>15, <1>17 DEF Block
  <2> QED
    BY <2>1, <1>16
<1>19. BitsDecoded(block) = bits
  BY <1>7, <1>9, <1>18 DEF BitsDecoded, Fits
<1>20. LinesMultiplyIn(block)
  BY <1>5, <1>7, <1>9, <1>10, <1>11, <1>12, <1>18 DEF LinesMultiplyIn, MaxBlockBits, Fits
<1>21. LoadsAreFanOutIn(block)
  <2>1. linesB * linesA = lines
    BY <1>11, <1>12
  <2>2. ASSUME NEW group \in DOMAIN block.basic, NEW size \in 1 .. 3,
               block.basic[group][size].count > 0
        PROVE  block.basic[group][size].load * 2 ^ size = block.rows[group].outputs
    BY <2>2, <1>9, <1>10, <1>18 DEF Fits
  <2> QED
    BY <1>12, <1>18, <2>1, <2>2 DEF LoadsAreFanOutIn
<1> QED
  BY <1>17, <1>18, <1>19, <1>20, <1>21 DEF BlockFits

\* The blocks that Initialize can build are right.
LEMMA EveryBlockFits ==
  ASSUME NEW bits \in 0 .. MaxBlockBits
  PROVE  BlockFits(Block(bits)) /\ Block(bits).bits = bits
<1>1. bits = 0 \/ bits \in 1 .. 3 \/ bits \in 4 .. 9 \/ bits \in 10 .. 18
  BY DEF MaxBlockBits
<1> QED
  BY <1>1, EmptyBlockFits, SmallBlockFits, MediumBlockFits, LargeBlockFits

-----------------------------------------------------------------------------
(***************************************************************************)
(* The bits of a request.  Its mux degrees, ways and rows of a set are     *)
(* powers of two, and so are the mux degrees that the mat gets.            *)
(***************************************************************************)
LEMMA AtMostIsPositive ==
  ASSUME NEW n \in Nat, n > 0, NEW most \in Nat, most > 0
  PROVE  AtMost(n, most) \in 1 .. most
BY DEF AtMost

\* Inactive subarrays gate address bits and never add any.
LEMMA EffectiveIsBounded ==
  ASSUME NEW r \in Requests
  PROVE  EffectiveBits(r.call, r.addressBit) \in Int /\ EffectiveBits(r.call, r.addressBit) <= 30
<1>1. /\ r.addressBit \in 0 .. 30
      /\ r.call.numRowSubarray \in Nat /\ r.call.numColumnSubarray \in Nat
      /\ r.call.numActiveSubarrayPerRow \in Nat /\ r.call.numActiveSubarrayPerColumn \in Nat
      /\ r.call.numRowSubarray * r.call.numColumnSubarray \in 1 .. 2 ^ 30
      /\ r.call.numActiveSubarrayPerRow > 0 /\ r.call.numActiveSubarrayPerColumn > 0
  BY RequestsAssumption DEF CallType, MaxAddressBit, MaxLog
<1>2. PICK n, m : n = r.call.numRowSubarray /\ m = r.call.numColumnSubarray
  OBVIOUS
<1>3. n \in Nat /\ m \in Nat /\ n * m \in 1 .. 2 ^ 30
  BY <1>1, <1>2
<1>4. n > 0 /\ m > 0
  BY <1>3
<1>5. PICK x, y : x = ActivePerRow(r.call) /\ y = ActivePerColumn(r.call)
  OBVIOUS
<1>6. x \in 1 .. m /\ y \in 1 .. n
  BY <1>1, <1>2, <1>4, <1>5, AtMostIsPositive DEF ActivePerRow, ActivePerColumn
<1>7. x * y \in Nat \ {0} /\ x * y <= n * m
  <2>1. x * y <= m * y /\ m * y <= m * n
    BY <1>3, <1>4, <1>6
  <2> QED
    BY <1>3, <1>6, <2>1
<1>8. (n * m) \div (x * y) \in 1 .. 2 ^ 30
  <2>1. PICK d, e : d = n * m /\ e = x * y
    OBVIOUS
  <2>2. d \in 1 .. 2 ^ 30 /\ e \in Nat \ {0} /\ e <= d
    BY <1>3, <1>7, <2>1
  <2>3. d \div e \in 1 .. 2 ^ 30
    BY <2>2
  <2> QED
    BY <2>1, <2>3
<1>9. Log2((n * m) \div (x * y), 1) \in 0 .. 30
  BY <1>8, LogExists
<1> QED
  BY <1>1, <1>2, <1>5, <1>9 DEF EffectiveBits

\* The two halves are what is shared, each within MaxBlockBits.
LEMMA HalvesAddUp ==
  ASSUME NEW bits \in 0 .. 30
  PROVE  /\ Halves(bits)[1] \in 0 .. MaxBlockBits /\ Halves(bits)[2] \in 0 .. MaxBlockBits
         /\ Halves(bits)[1] + Halves(bits)[2] = bits
         /\ Halves(bits)[2] > 0 <=> bits > 3
         /\ Halves(bits)[1] > 0 <=> bits > 0
<1>1. CASE bits > 3
  <2>1. Halves(bits) = <<bits - bits \div 2, bits \div 2>>
    BY <1>1 DEF Halves
  <2>2. bits \div 2 \in 1 .. 15 /\ bits - bits \div 2 \in 1 .. 18
    BY <1>1
  <2> QED
    BY <1>1, <2>1, <2>2 DEF MaxBlockBits
<1>2. CASE ~ (bits > 3)
  <2>1. Halves(bits) = <<bits, 0>>
    BY <1>2 DEF Halves
  <2> QED
    BY <1>2, <2>1 DEF MaxBlockBits
<1> QED
  BY <1>1, <1>2

\* The four roles, in their order.
LEMMA RoleFacts ==
  /\ Len(Roles) = 4
  /\ Roles[1] = "row" /\ Roles[2] = "bitlineMux"
  /\ Roles[3] = "senseAmpMuxLev1" /\ Roles[4] = "senseAmpMuxLev2"
  /\ Role = {"row", "bitlineMux", "senseAmpMuxLev1", "senseAmpMuxLev2"}
  /\ IndexOf("row") = 1 /\ IndexOf("bitlineMux") = 2
  /\ IndexOf("senseAmpMuxLev1") = 3 /\ IndexOf("senseAmpMuxLev2") = 4
<1>1. /\ Len(Roles) = 4 /\ DOMAIN Roles = 1 .. 4
      /\ Roles[1] = "row" /\ Roles[2] = "bitlineMux"
      /\ Roles[3] = "senseAmpMuxLev1" /\ Roles[4] = "senseAmpMuxLev2"
  BY DEF Roles
<1>2. Role = {"row", "bitlineMux", "senseAmpMuxLev1", "senseAmpMuxLev2"}
  BY <1>1 DEF Role
<1> QED
  BY <1>1, <1>2 DEF IndexOf

\* The bits that the roles of a legal mat share.
LEMMA BitsOfRoles ==
  ASSUME request \in Requests, ~subarray.invalid
  PROVE  \E a, b, c \in Nat :
           /\ Exponents(mux, a, b, c)
           /\ AddressBits("bitlineMux") = a /\ AddressBits("senseAmpMuxLev1") = b
           /\ AddressBits("senseAmpMuxLev2") = c
           /\ AddressBits("row") \in 0 .. 30
           /\ AddressBits("row") = EffectiveBits(request.call, request.addressBit) - (a + b + c)
<1>1. PICK a, b, c \in Nat : Exponents(mux, a, b, c)
  <2>1. /\ IsPow2(request.numWay) /\ IsPow2(request.call.numRowPerSet)
        /\ request.call.numRowPerSet <= request.numWay
        /\ \A i \in 1 .. 3 : IsPow2(Mux(request.call)[i])
        /\ Degree(Mux(request.call)) * request.numWay <= 2 ^ MaxLog
    BY RequestsAssumption
  <2> HIDE DEF MaxLog
  <2> QED
    BY <2>1, MuxExponents DEF mux
<1>2. /\ a + b + c <= 30 /\ mux = <<2 ^ a, 2 ^ b, 2 ^ c>>
      /\ a \in 0 .. 30 /\ b \in 0 .. 30 /\ c \in 0 .. 30 /\ a + b + c \in 0 .. 30
  BY <1>1 DEF Exponents
<1>3. Degree(mux) = 2 ^ (a + b + c)
  BY <1>2, DegreeIsPower
<1>4. /\ Log2(mux[1], 1) = a /\ Log2(mux[2], 1) = b /\ Log2(mux[3], 1) = c
      /\ Log2(Degree(mux), 1) = a + b + c
  <2>1. mux[1] = 2 ^ a /\ mux[2] = 2 ^ b /\ mux[3] = 2 ^ c
    BY <1>2
  <2> QED
    BY <1>2, <1>3, <2>1, LogOfPower
<1>5. /\ AddressBits("bitlineMux") = a /\ AddressBits("senseAmpMuxLev1") = b
      /\ AddressBits("senseAmpMuxLev2") = c
      /\ AddressBits("row") = RowBits(request.call, request.addressBit, mux)
  BY <1>4, RoleFacts DEF AddressBits
<1>6. RowBits(request.call, request.addressBit, mux)
        = EffectiveBits(request.call, request.addressBit) - (a + b + c)
  BY <1>4 DEF RowBits
<1>7. RowBits(request.call, request.addressBit, mux) >= 0
  BY DEF subarray, MatInitialize, InvalidMat
<1>8. /\ EffectiveBits(request.call, request.addressBit) \in Int
      /\ EffectiveBits(request.call, request.addressBit) <= 30
  BY EffectiveIsBounded
<1>9. /\ AddressBits("row") = EffectiveBits(request.call, request.addressBit) - (a + b + c)
      /\ AddressBits("row") \in 0 .. 30
  BY <1>2, <1>5, <1>6, <1>7, <1>8
<1> QED
  BY <1>1, <1>5, <1>9

-----------------------------------------------------------------------------
(***************************************************************************)
(* The inductive invariant: each role that had its turn has the blocks of  *)
(* its bits.                                                               *)
(***************************************************************************)
Built(role) ==
  blocks[role] = <<Block(Halves(AddressBits(role))[1]), Block(Halves(AddressBits(role))[2])>>

DecodingInv ==
  /\ request \in Requests
  /\ pc \in {"subarray", "blocks", "done", "invalid"}
  /\ DOMAIN blocks = Role
  /\ initialized \in 0 .. 4
  /\ pc \in {"blocks", "done"} =>
       /\ ~subarray.invalid
       /\ nandInput = [role \in Role |-> NandInput(NumRow(role), MultipleRowPerSet(role))]
  /\ pc = "blocks" => initialized < 4
  /\ pc = "done" => initialized = 4
  /\ pc = "subarray" => initialized = 0
  /\ initialized > 0 => ~subarray.invalid
  /\ \A i \in 1 .. 4 :
       IF i <= initialized THEN Built(Roles[i])
                           ELSE blocks[Roles[i]] = <<Block(0), Block(0)>>

\* What is computed from the request stays with it.
LEMMA RequestDecides ==
  ASSUME request' = request
  PROVE  /\ subarray' = subarray
         /\ \A role : /\ AddressBits(role)' = AddressBits(role)
                      /\ NumRow(role)' = NumRow(role)
                      /\ MultipleRowPerSet(role)' = MultipleRowPerSet(role)
<1>1. mux' = mux
  BY DEF mux
<1>2. subarray' = subarray
  BY <1>1 DEF subarray
<1> QED
  BY <1>1, <1>2 DEF AddressBits, NumRow, MultipleRowPerSet

LEMMA DecodingStart == DrivenInit => DecodingInv
<1> SUFFICES ASSUME DrivenInit PROVE DecodingInv
  OBVIOUS
<1>1. \A i \in 1 .. 4 : blocks[Roles[i]] = <<Block(0), Block(0)>>
  <2>1. blocks = [role \in Role |-> <<Block(0), Block(0)>>]
    BY DEF DrivenInit, Init
  <2>2. \A i \in 1 .. 4 : Roles[i] \in Role
    BY RoleFacts DEF Role
  <2> QED
    BY <2>1, <2>2
<1>2. /\ request \in Requests /\ pc = "subarray" /\ initialized = 0
      /\ DOMAIN blocks = Role
  BY DEF DrivenInit, Init
<1> QED
  BY <1>1, <1>2 DEF DecodingInv

\* The next role gets its blocks, the others keep theirs.
LEMMA NextBlocks ==
  ASSUME DecodingInv, InitializeBlocks PROVE DecodingInv'
<1>1. initialized \in 0 .. 3 /\ pc = "blocks" /\ ~subarray.invalid
  BY DEF DecodingInv, InitializeBlocks
<1>2. PICK next : next = initialized + 1
  OBVIOUS
<1>3. next \in 1 .. 4 /\ initialized' = next
  BY <1>1, <1>2 DEF InitializeBlocks
<1>4. request' = request /\ nandInput' = nandInput
      /\ pc' = IF next = 4 THEN "done" ELSE "blocks"
  BY <1>3, RoleFacts DEF InitializeBlocks
<1>5. subarray' = subarray
      /\ \A role : /\ AddressBits(role)' = AddressBits(role)
                   /\ NumRow(role)' = NumRow(role)
                   /\ MultipleRowPerSet(role)' = MultipleRowPerSet(role)
  BY <1>4, RequestDecides
<1>6. blocks' = [blocks EXCEPT ![Roles[next]] =
                   <<Block(Halves(AddressBits(Roles[next]))[1]),
                     Block(Halves(AddressBits(Roles[next]))[2])>>]
  BY <1>2 DEF InitializeBlocks
<1>7. \A i \in 1 .. 4 : Roles[i] \in DOMAIN blocks
  BY RoleFacts DEF DecodingInv, Role
<1>8. \A i \in 1 .. 4 : i # next => Roles[i] # Roles[next]
  BY <1>3, RoleFacts
<1>9. \A i \in 1 .. 4 :
        IF i <= next THEN Built(Roles[i])' ELSE blocks'[Roles[i]] = <<Block(0), Block(0)>>
  <2> SUFFICES ASSUME NEW i \in 1 .. 4
               PROVE  IF i <= next THEN Built(Roles[i])'
                      ELSE blocks'[Roles[i]] = <<Block(0), Block(0)>>
    OBVIOUS
  <2>1. CASE i = next
    <3>1. blocks'[Roles[i]] = <<Block(Halves(AddressBits(Roles[i]))[1]),
                                Block(Halves(AddressBits(Roles[i]))[2])>>
      BY <1>6, <1>7, <2>1
    <3>2. AddressBits(Roles[i])' = AddressBits(Roles[i])
      BY <1>5
    <3> QED
      BY <2>1, <3>1, <3>2, <1>3 DEF Built
  <2>2. CASE i # next
    <3>1. blocks'[Roles[i]] = blocks[Roles[i]]
      BY <1>6, <1>7, <1>8, <2>2
    <3>2. AddressBits(Roles[i])' = AddressBits(Roles[i])
      BY <1>5
    <3>3. i <= next <=> i <= initialized
      BY <1>1, <1>2, <2>2
    <3>4. CASE i <= next
      BY <3>1, <3>2, <3>3, <3>4 DEF Built, DecodingInv
    <3>5. CASE ~ (i <= next)
      BY <3>1, <3>3, <3>5 DEF DecodingInv
    <3> QED
      BY <3>4, <3>5
  <2> QED
    BY <2>1, <2>2
<1>10. request' \in Requests /\ DOMAIN blocks' = Role
  BY <1>4, <1>6 DEF DecodingInv
<1>11. nandInput' = [role \in Role |-> NandInput(NumRow(role)', MultipleRowPerSet(role)')]
  BY <1>1, <1>4, <1>5 DEF DecodingInv
<1> QED
  BY <1>1, <1>3, <1>4, <1>5, <1>9, <1>10, <1>11 DEF DecodingInv

LEMMA DecodingStep == DecodingInv /\ [DrivenNext]_allVars => DecodingInv'
<1> SUFFICES ASSUME DecodingInv, [DrivenNext]_allVars PROVE DecodingInv'
  OBVIOUS
<1>1. ASSUME UNCHANGED <<request, nandInput, blocks, initialized>>,
             pc' = pc \/ pc' = "invalid"
      PROVE  DecodingInv'
  <2>1. subarray' = subarray
        /\ \A role : /\ AddressBits(role)' = AddressBits(role)
                     /\ NumRow(role)' = NumRow(role)
                     /\ MultipleRowPerSet(role)' = MultipleRowPerSet(role)
    BY <1>1, RequestDecides
  <2>2. \A role : Built(role)' <=> Built(role)
    BY <1>1, <2>1 DEF Built
  <2> QED
    BY <1>1, <2>1, <2>2 DEF DecodingInv
<1>2. CASE InitializeDriver \/ SizeDriver \/ UNCHANGED allVars
  BY <1>1, <1>2 DEF InitializeDriver, SizeDriver, allVars, vars
<1>3. CASE DriverReturns
  BY <1>1, <1>3 DEF DriverReturns
<1>4. CASE DecodersInitialized
  <2>1. /\ pc = "subarray" /\ ~subarray.invalid /\ pc' = "blocks"
        /\ nandInput' = [role \in Role |-> NandInput(NumRow(role), MultipleRowPerSet(role))]
        /\ UNCHANGED <<request, blocks, initialized>>
    BY <1>4 DEF DecodersInitialized, InitializeSubArray
  <2>2. subarray' = subarray
        /\ \A role : /\ AddressBits(role)' = AddressBits(role)
                     /\ NumRow(role)' = NumRow(role)
                     /\ MultipleRowPerSet(role)' = MultipleRowPerSet(role)
    BY <2>1, RequestDecides
  <2>3. \A role : Built(role)' <=> Built(role)
    BY <2>1, <2>2 DEF Built
  <2> QED
    BY <2>1, <2>2, <2>3 DEF DecodingInv
<1>5. CASE MatGoesOn
  <2>1. CASE Reject
    BY <1>1, <2>1 DEF Reject
  <2>2. CASE Finished
    BY <1>1, <2>2 DEF Finished, vars
  <2> QED
    BY <1>5, <2>1, <2>2, NextBlocks DEF MatGoesOn
<1> QED
  BY <1>2, <1>3, <1>4, <1>5 DEF DrivenNext

-----------------------------------------------------------------------------
LEMMA RolesCount == \A role \in Role : \E i \in 1 .. 4 : role = Roles[i]
BY RoleFacts

\* No role has more bits than the blocks can decode.
LEMMA BitsFit ==
  ASSUME request \in Requests, ~subarray.invalid, NEW role \in Role
  PROVE  AddressBits(role) \in 0 .. 30
<1>1. PICK a, b, c \in Nat :
         /\ Exponents(mux, a, b, c)
         /\ AddressBits("bitlineMux") = a /\ AddressBits("senseAmpMuxLev1") = b
         /\ AddressBits("senseAmpMuxLev2") = c
         /\ AddressBits("row") \in 0 .. 30
  BY BitsOfRoles
<1>2. a \in 0 .. 30 /\ b \in 0 .. 30 /\ c \in 0 .. 30
  BY <1>1 DEF Exponents
<1> QED
  BY <1>1, <1>2, RoleFacts

\* The blocks of the roles are empty or those of at most MaxBlockBits.
LEMMA AllBlocksFit ==
  ASSUME DecodingInv, NEW b \in AllBlocks PROVE BlockFits(b)
<1>1. PICK role \in Role, j \in {1, 2} : b = blocks[role][j]
  BY DEF AllBlocks
<1>2. PICK i \in 1 .. 4 : role = Roles[i]
  BY RolesCount
<1>3. CASE i <= initialized
  <2>1. ~subarray.invalid /\ request \in Requests
    BY <1>3 DEF DecodingInv
  <2>2. AddressBits(role) \in 0 .. 30
    BY <2>1, BitsFit
  <2>3. Halves(AddressBits(role))[j] \in 0 .. MaxBlockBits
    BY <2>2, HalvesAddUp
  <2>4. b = Block(Halves(AddressBits(role))[j])
    BY <1>1, <1>2, <1>3 DEF DecodingInv, Built
  <2> QED
    BY <2>3, <2>4, EveryBlockFits
<1>4. CASE ~ (i <= initialized)
  <2>1. b = Block(0)
    BY <1>1, <1>2, <1>4 DEF DecodingInv
  <2> QED
    BY <2>1, EmptyBlockFits
<1> QED
  BY <1>3, <1>4

\* When all roles have their blocks, the two blocks of each decode its bits.
LEMMA RoleIsDecoded ==
  ASSUME DecodingInv, pc = "done", NEW role \in Role
  PROVE  /\ BitsDecoded(blocks[role][1]) + BitsDecoded(blocks[role][2]) = AddressBits(role)
         /\ AddressBits(role) \in 0 .. 30
         /\ blocks[role][1].bits > 0 <=> AddressBits(role) > 0
         /\ blocks[role][2].bits > 0 <=> AddressBits(role) > 3
<1>1. ~subarray.invalid /\ request \in Requests /\ initialized = 4
  BY DEF DecodingInv
<1>2. AddressBits(role) \in 0 .. 30
  BY <1>1, BitsFit
<1>3. blocks[role] = <<Block(Halves(AddressBits(role))[1]),
                       Block(Halves(AddressBits(role))[2])>>
  BY <1>1, RolesCount DEF DecodingInv, Built
<1>4. PICK h1, h2 : h1 = Halves(AddressBits(role))[1] /\ h2 = Halves(AddressBits(role))[2]
  OBVIOUS
<1>5. /\ h1 \in 0 .. MaxBlockBits /\ h2 \in 0 .. MaxBlockBits /\ h1 + h2 = AddressBits(role)
      /\ h2 > 0 <=> AddressBits(role) > 3
      /\ h1 > 0 <=> AddressBits(role) > 0
  BY <1>2, <1>4, HalvesAddUp
<1>6. blocks[role][1] = Block(h1) /\ blocks[role][2] = Block(h2)
  BY <1>3, <1>4
<1>7. /\ BitsDecoded(Block(h1)) = h1 /\ Block(h1).bits = h1
      /\ BitsDecoded(Block(h2)) = h2 /\ Block(h2).bits = h2
  BY <1>5, EveryBlockFits DEF BlockFits
<1> QED
  BY <1>2, <1>5, <1>6, <1>7

\* The row has the bits that the muxes leave.
LEMMA DecodedOnce == DecodingInv => AddressDecodedOnce
<1> SUFFICES ASSUME DecodingInv, pc = "done" PROVE AddressDecodedOnce
  BY DEF AddressDecodedOnce
<1>1. ~subarray.invalid /\ request \in Requests
  BY DEF DecodingInv
<1>2. PICK a, b, c \in Nat :
         /\ AddressBits("bitlineMux") = a /\ AddressBits("senseAmpMuxLev1") = b
         /\ AddressBits("senseAmpMuxLev2") = c
         /\ AddressBits("row") \in 0 .. 30
         /\ AddressBits("row") = EffectiveBits(request.call, request.addressBit) - (a + b + c)
  BY <1>1, BitsOfRoles
<1>3. EffectiveBits(request.call, request.addressBit) \in Int
  BY <1>1, EffectiveIsBounded
<1>4. \A role \in Role :
        BitsDecoded(blocks[role][1]) + BitsDecoded(blocks[role][2]) = AddressBits(role)
  BY RoleIsDecoded
<1>5. \A role \in {"row", "bitlineMux", "senseAmpMuxLev1", "senseAmpMuxLev2"} :
        BitsDecoded(blocks[role][1]) + BitsDecoded(blocks[role][2]) = AddressBits(role)
  BY <1>4, RoleFacts
<1> QED
  BY <1>2, <1>3, <1>5 DEF AddressDecodedOnce

\* The subarray asks for more than 8 rows, the mat for more than 3 bits.
LEMMA AboveEightExactly ==
  ASSUME NEW k \in Nat, k <= 30 PROVE 2 ^ k \in Nat /\ (2 ^ k > 8 <=> k > 3)
<1>1. CASE k > 3
  BY <1>1, PowerAboveEight
<1>2. CASE ~ (k > 3)
  <2>1. k = 0 \/ k = 1 \/ k = 2 \/ k = 3
    BY <1>2
  <2>2. 2 ^ 0 = 1 /\ 2 ^ 1 = 2 /\ 2 ^ 2 = 4 /\ 2 ^ 3 = 8
    BY SMT
  <2>3. 2 ^ k \in {1, 2, 4, 8}
    BY <2>1, <2>2
  <2> QED
    BY <1>2, <2>3
<1> QED
  BY <1>1, <1>2

\* As many outputs as its bits select, for the muxes, and for the rows of one way.
LEMMA RowsOfBits ==
  ASSUME request \in Requests, ~subarray.invalid, NEW role \in Role,
         role # "row" \/ request.numWay = 1
  PROVE  NumRow(role) = 2 ^ AddressBits(role) /\ ~MultipleRowPerSet(role)
<1>1. PICK a, b, c \in Nat :
         /\ Exponents(mux, a, b, c)
         /\ AddressBits("bitlineMux") = a /\ AddressBits("senseAmpMuxLev1") = b
         /\ AddressBits("senseAmpMuxLev2") = c
         /\ AddressBits("row") \in 0 .. 30
         /\ AddressBits("row") = EffectiveBits(request.call, request.addressBit) - (a + b + c)
  BY BitsOfRoles
<1>2. mux = <<2 ^ a, 2 ^ b, 2 ^ c>> /\ a + b + c <= 30
  BY <1>1 DEF Exponents
<1>3. CASE role # "row"
  <2>1. NumRow(role) = mux[IndexOf(role) - 1] /\ ~MultipleRowPerSet(role)
    BY <1>3 DEF NumRow, MultipleRowPerSet
  <2>2. mux[1] = 2 ^ a /\ mux[2] = 2 ^ b /\ mux[3] = 2 ^ c
    BY <1>2
  <2>3. CASE role = "bitlineMux"
    BY <1>1, <2>1, <2>2, <2>3, RoleFacts
  <2>4. CASE role = "senseAmpMuxLev1"
    BY <1>1, <2>1, <2>2, <2>4, RoleFacts
  <2>5. CASE role = "senseAmpMuxLev2"
    BY <1>1, <2>1, <2>2, <2>5, RoleFacts
  <2> QED
    BY <1>3, <2>3, <2>4, <2>5, RoleFacts
<1>4. CASE role = "row"
  <2>1. request.numWay = 1 /\ request.call.memoryType = "data"
    BY <1>4, RequestsAssumption
  <2>2. PICK e : e = EffectiveBits(request.call, request.addressBit)
    OBVIOUS
  <2>3. e \in Int /\ e <= 30 /\ e - (a + b + c) \in 0 .. 30 /\ AddressBits("row") = e - (a + b + c)
    BY <1>1, <2>2, EffectiveIsBounded
  <2>4. e \in Nat /\ a + b + c \in Nat /\ a + b + c <= e
    BY <2>3
  <2>5. Degree(mux) = 2 ^ (a + b + c)
    BY <1>2, DegreeIsPower
  <2>6. 2 ^ e \in Nat
    BY <2>3, <2>4, PowerIsPositive
  <2>7. RowsOf(request.call, e, 1) = 2 ^ e
    BY <2>1, <2>6 DEF RowsOf
  <2>8. 2 ^ e \div 2 ^ (a + b + c) = 2 ^ (e - (a + b + c))
    BY <2>3, <2>4, PowersDivide
  <2>9. subarray.numRow = RowsOf(request.call, e, 1) \div Degree(mux)
    BY <2>1, <2>2 DEF subarray, MatInitialize, InvalidMat
  <2>10. NumRow(role) = 2 ^ AddressBits(role)
    BY <1>4, <2>3, <2>5, <2>7, <2>8, <2>9 DEF NumRow
  <2>11. ~MultipleRowPerSet(role)
    <3>1. request.call.numRowPerSet <= 1
      BY <2>1, RequestsAssumption
    <3>2. request.call.numRowPerSet \in Nat
      BY RequestsAssumption DEF CallType
    <3> QED
      BY <3>1, <3>2 DEF MultipleRowPerSet
  <2> QED
    BY <2>10, <2>11
<1> QED
  BY <1>3, <1>4

LEMMA NandsMatch == DecodingInv => NandsMatchBlocks
<1> SUFFICES ASSUME DecodingInv, pc = "done", NEW role \in Role,
                    role # "row" \/ request.numWay = 1
             PROVE  nandInput[role] = InputsOf(role)
  BY DEF NandsMatchBlocks
<1>1. ~subarray.invalid /\ request \in Requests
  BY DEF DecodingInv
<1>2. PICK k : k = AddressBits(role)
  OBVIOUS
<1>3. /\ k \in 0 .. 30
      /\ blocks[role][1].bits > 0 <=> k > 0
      /\ blocks[role][2].bits > 0 <=> k > 3
  BY <1>2, RoleIsDecoded
<1>4. NumRow(role) = 2 ^ k /\ ~MultipleRowPerSet(role)
  BY <1>1, <1>2, RowsOfBits
<1>5. 2 ^ k \in Nat /\ (2 ^ k > 8 <=> k > 3)
  BY <1>3, AboveEightExactly
<1>6. nandInput[role] = NandInput(NumRow(role), FALSE)
  <2>1. nandInput[role] = NandInput(NumRow(role), MultipleRowPerSet(role))
    BY DEF DecodingInv
  <2>2. MultipleRowPerSet(role) = FALSE
    BY <1>4 DEF MultipleRowPerSet
  <2> QED
    BY <2>1, <2>2
<1>7. nandInput[role] = IF k > 3 THEN 2 ELSE 0
  BY <1>4, <1>5, <1>6 DEF NandInput
<1>8. InputsOf(role) = IF k > 3 THEN 2 ELSE 0
  BY <1>3, <1>4 DEF InputsOf
<1> QED
  BY <1>7, <1>8

-----------------------------------------------------------------------------
\* Each address bit of a legal mat is decoded once.
THEOREM DecodesOnce == DrivenSpec => []AddressDecodedOnce
BY DecodingStart, DecodingStep, DecodedOnce, PTL DEF DrivenSpec

\* In every block the lines multiply from stage to stage and no block has more bits
\* than the code handles.
THEOREM BlocksMultiply == DrivenSpec => []LinesMultiply
<1>1. DecodingInv => LinesMultiply
  BY AllBlocksFit DEF LinesMultiply, BlockFits
<1> QED
  BY <1>1, DecodingStart, DecodingStep, PTL DEF DrivenSpec

\* Every circuit of a block is sized for the gates that it drives.
THEOREM LoadsFanOut == DrivenSpec => []LoadsAreFanOut
<1>1. DecodingInv => LoadsAreFanOut
  BY AllBlocksFit DEF LoadsAreFanOut, BlockFits
<1> QED
  BY <1>1, DecodingStart, DecodingStep, PTL DEF DrivenSpec

\* The subarray, which counts rows, and the mat, which counts address bits, choose
\* gates with as many inputs as there are predecoder blocks.
THEOREM NandsAgree == DrivenSpec => []NandsMatchBlocks
BY DecodingStart, DecodingStep, NandsMatch, PTL DEF DrivenSpec

-----------------------------------------------------------------------------
(***************************************************************************)
(* Division with symbolic divisors, and the chain that tapers.             *)
(***************************************************************************)
LEMMA QuotientIsNatural ==
  ASSUME NEW a \in Nat, NEW b \in Nat \ {0}
  PROVE  a \div b \in Nat
OBVIOUS

LEMMA QuotientIsBelow ==
  ASSUME NEW a \in Nat, NEW b \in Nat \ {0}, NEW m \in Nat, a < b * m
  PROVE  a \div b < m
OBVIOUS

LEMMA ParityChosen ==
  ASSUME NEW n \in Nat, NEW odd \in BOOLEAN
  PROVE  LET m == Driver!WithParity(n, odd)
         IN  m \in n .. n + 1 /\ (m % 2 = 1) = odd
BY DEF Driver!WithParity

\* The best number of stages leaves two places in the arrays.
LEMMA StagesFit ==
  ASSUME NEW effort \in Nat, effort <= Unit * (MaxInvChainLen - 1)
  PROVE  Driver!OptimalStages(effort) \in 0 .. MaxInvChainLen - 2
<1>1. 2 * effort + Unit \in Nat /\ 2 * Unit \in Nat \ {0}
  BY DriverAssumption
<1>2. 2 * effort + Unit < 2 * Unit * MaxInvChainLen
  BY DriverAssumption
<1>3. (2 * effort + Unit) \div (2 * Unit) \in Nat
  BY <1>1, QuotientIsNatural
<1>4. (2 * effort + Unit) \div (2 * Unit) < MaxInvChainLen
  BY <1>1, <1>2, QuotientIsBelow, DriverAssumption
<1> QED
  BY <1>3, <1>4, DriverAssumption DEF Driver!OptimalStages, Driver!Larger

\* Widths up to the last stage that never decrease towards the load.
IsChain(t, last, w) ==
  /\ DOMAIN t = 0 .. last /\ t[last] = w
  /\ \A i \in 0 .. last : t[i] \in 0 .. MaxNmosSize
  /\ \A i \in 1 .. last : t[i - 1] <= t[i]

LEMMA TaperGrows ==
  ASSUME NEW last \in Nat, NEW w \in 0 .. MaxNmosSize, NEW factor \in Nat
  PROVE  IsChain(Driver!Taper(last, w, factor), last, w)
<1> DEFINE t == Driver!Taper(last, w, factor)
<1>1. DOMAIN t = 0 .. last /\ t[last] = w
  BY DEF Driver!Taper
<1>2. ASSUME NEW i \in 0 .. last - 1
      PROVE  t[i] = Driver!Larger(0, w - (last - i) * factor) /\ (last - i) * factor \in Nat
  BY DEF Driver!Taper
<1>3. \A i \in 0 .. last : t[i] \in 0 .. w
  BY <1>1, <1>2, DriverAssumption DEF Driver!Larger
<1>4. ASSUME NEW i \in 1 .. last
      PROVE  t[i - 1] <= t[i]
  <2>1. (last - (i - 1)) * factor = (last - i) * factor + factor
    OBVIOUS
  <2>2. CASE i = last
    BY <1>1, <1>3, <2>2
  <2>3. CASE i # last
    <3> DEFINE x == (last - i) * factor
               y == (last - (i - 1)) * factor
    <3>1. t[i] = Driver!Larger(0, w - x) /\ x \in Nat
      BY <1>2, <2>3
    <3>2. t[i - 1] = Driver!Larger(0, w - y) /\ y \in Nat
      <4>1. i - 1 \in 0 .. last - 1
        OBVIOUS
      <4> QED
        BY <1>2, <4>1
    <3>3. y = x + factor
      BY <2>1
    <3> HIDE DEF x, y
    <3> QED
      BY <3>1, <3>2, <3>3 DEF Driver!Larger
  <2> QED
    BY <2>2, <2>3
<1>5. \A i \in 0 .. last : t[i] \in 0 .. MaxNmosSize
  BY <1>3, DriverAssumption
<1> QED
  BY <1>1, <1>4, <1>5 DEF IsChain

-----------------------------------------------------------------------------
(***************************************************************************)
(* OutputDriver::Initialize.                                               *)
(***************************************************************************)
\* While it runs, its arguments are those of a call; a driver that is sized can
\* carry the current within the maximum, and one that is done drives its load.
DriverInv ==
  /\ stage \in {"idle", "minimum", "done"} \cup BufferDesignTarget
  /\ stage # "idle" => input \in DriverInputs /\ level \in BufferDesignTarget
  /\ stage \in BufferDesignTarget => Driver!MinDriver <= MaxNmosSize
  /\ ChainDrives

LEMMA ArgumentTypes ==
  ASSUME NEW i \in DriverInputs
  PROVE  /\ i.logicEffort \in Efforts /\ i.logicEffort \in Nat
         /\ i.inputCap \in Nat /\ i.inputCap <= MaxNmosSize
         /\ i.outputCap \in OutputCaps /\ i.outputCap \in Int
         /\ i.minDriver \in Int
         /\ i.level \in BufferDesignTarget
<1>1. /\ i.logicEffort \in Efforts /\ i.inputCap \in InputCaps /\ i.outputCap \in OutputCaps
      /\ i.minDriver \in DriverWidths
  BY DEF DriverInputs
<1>2. i.level \in BufferDesignTarget
  BY DEF DriverInputs
<1>3. i.inputCap \in Nat /\ i.inputCap <= MaxNmosSize
  <2>1. i.inputCap \in 0 .. MaxNmosSize /\ MaxNmosSize \in Nat
    BY <1>1, DriverAssumption, Zenon
  <2> QED
    BY <2>1
<1>4. i.logicEffort \in Nat /\ i.outputCap \in Int /\ i.minDriver \in Int
  BY <1>1, DriverAssumption
<1> QED
  BY <1>1, <1>2, <1>3, <1>4

\* Every caller wants an inversion.
LEMMA AlwaysInverts ==
  ASSUME NEW i \in DriverInputs PROVE i.inv = TRUE
<1>1. i.inv \in Inversions
  BY DEF DriverInputs
<1> QED
  BY <1>1, InversionAssumption, Zenon

\* The effort of a load that is expected.
LEMMA EffortFits ==
  ASSUME input \in DriverInputs, NEW c \in OutputCaps \cup 0 .. MaxNmosSize
  PROVE  Driver!Effort(c) \in Nat /\ Driver!Effort(c) <= Unit * (MaxInvChainLen - 1)
<1>1. input.logicEffort \in Efforts /\ input.logicEffort \in Nat /\ input.inputCap \in Nat
  BY ArgumentTypes
<1>2. c \in Int /\ MaxNmosSize \in Nat
  BY DriverAssumption
<1> DEFINE most == Unit * (MaxInvChainLen - 1)
<1>3. most \in Nat
  BY DriverAssumption
<1>4. input.logicEffort + c <= most
  BY <1>1, <1>2, <1>3, LoadAssumption
<1> HIDE DEF most
<1>5. Driver!Effort(c) \in Nat /\ Driver!Effort(c) <= most
  BY <1>1, <1>2, <1>3, <1>4 DEF Driver!Effort, Driver!Larger
<1> QED
  BY <1>5 DEF most

\* The statement about a finished driver, for the stages and widths it has.
Inverting(stages) == (stages % 2 = 1) = input.inv

Driving(stages, widths) ==
  /\ stages \in 1 .. MaxInvChainLen
  /\ 0 .. stages - 1 \subseteq DOMAIN widths
  /\ \A i \in 0 .. stages - 1 :
       /\ widths[i] \in 0 .. MaxNmosSize
       /\ i > 0 => widths[i - 1] <= widths[i]
  /\ widths[stages - 1] >= Driver!MinDriver

Drives(stages, widths) == Inverting(stages) /\ Driving(stages, widths)

LEMMA TaperDrives ==
  ASSUME input \in DriverInputs,
         NEW last \in 0 .. MaxInvChainLen - 1, last % 2 = 0,
         NEW w \in 0 .. MaxNmosSize, NEW factor \in Nat, w >= Driver!MinDriver
  PROVE  Drives(last + 1, Driver!Taper(last, w, factor))
<1> DEFINE t == Driver!Taper(last, w, factor)
<1>0. last \in Nat
  BY DriverAssumption
<1>1. IsChain(t, last, w)
  BY <1>0, TaperGrows, Zenon
<1>2. (last + 1) % 2 = 1
  BY <1>0
<1>6. ((last + 1) % 2 = 1) = input.inv
  BY <1>2, AlwaysInverts, Zenon
<1>3. last + 1 \in 1 .. MaxInvChainLen /\ last + 1 - 1 = last
  BY DriverAssumption
<1> HIDE DEF t
<1>4. \A i \in 0 .. last + 1 - 1 :
        t[i] \in 0 .. MaxNmosSize /\ (i > 0 => t[i - 1] <= t[i])
  BY <1>1, <1>3 DEF IsChain
<1>5. Drives(last + 1, t)
  <2>1. 0 .. last + 1 - 1 \subseteq DOMAIN t /\ t[last + 1 - 1] >= Driver!MinDriver
    BY <1>1, <1>3 DEF IsChain
  <2>2. Driving(last + 1, t)
    BY <1>3, <1>4, <2>1 DEF Driving
  <2> QED
    BY <1>6, <2>2, Zenon DEF Drives, Inverting
<1> QED
  BY <1>5 DEF t

LEMMA MinDriverIsNatural ==
  ASSUME input \in DriverInputs PROVE Driver!MinDriver \in Nat
BY ArgumentTypes DEF Driver!MinDriver, Driver!Larger

\* The last stage of a fast chain is within the maximum.
LEMMA LatencyFirstDrives ==
  ASSUME DriverInv, Driver!LatencyFirst
  PROVE  \/ stage' = "done" /\ Drives(numStage', width')
         \/ stage' = "latency_area_trade_off" /\ level' = stage'
<1> DEFINE effort == Driver!Effort(input.outputCap)
           optimal == Driver!OptimalStages(effort)
           odd == Driver!WithParity(optimal, input.inv)
           stages == Driver!Smaller(odd, MaxInvChainLen)
           wanted == Driver!Larger(0, input.outputCap - effort \div (stages + 1))
           isCut == wanted > MaxNmosSize
           last == IF isCut THEN MaxNmosSize ELSE wanted
           factor == IF isCut
                     THEN (input.logicEffort + MaxNmosSize - input.inputCap) \div stages
                     ELSE effort \div (stages + 1)
<1>1. input \in DriverInputs
  BY DEF DriverInv, Driver!LatencyFirst
<1>2. effort \in Nat /\ effort <= Unit * (MaxInvChainLen - 1) /\ input.outputCap \in Int
  BY <1>1, ArgumentTypes, EffortFits
<1> HIDE DEF effort
<1>3. optimal \in 0 .. MaxInvChainLen - 2 /\ optimal \in Nat
  BY <1>2, StagesFit, DriverAssumption
<1> HIDE DEF optimal
<1>4. odd \in optimal .. optimal + 1 /\ odd % 2 = 1
  <2>1. input.inv = TRUE
    BY <1>1, AlwaysInverts
  <2> QED
    BY <1>3, <2>1, ParityChosen
<1> HIDE DEF odd
<1>5. stages = odd /\ stages \in 1 .. MaxInvChainLen - 1 /\ stages % 2 = 1
  BY <1>3, <1>4, DriverAssumption DEF Driver!Smaller
<1> HIDE DEF stages
<1>6. effort \div (stages + 1) \in Nat
  BY <1>2, <1>5, QuotientIsNatural
<1>7. (input.logicEffort + MaxNmosSize - input.inputCap) \div stages \in Nat
  <2>1. input.logicEffort + MaxNmosSize - input.inputCap \in Nat
    BY <1>1, ArgumentTypes, DriverAssumption
  <2> QED
    BY <1>5, <2>1, QuotientIsNatural
<1>8. factor \in Nat
  BY <1>6, <1>7
<1>9. wanted \in Nat
  BY <1>2, <1>6 DEF Driver!Larger
<1> HIDE DEF factor, wanted
<1>10. last \in 0 .. MaxNmosSize
  BY <1>9, DriverAssumption
<1> HIDE DEF last
<1>11. /\ numStage' = stages
       /\ IF Driver!LastSuffices(last)
          THEN /\ width' = Driver!Taper(stages - 1, last, factor)
               /\ stage' = "done"
          ELSE /\ level' = "latency_area_trade_off"
               /\ stage' = level'
  BY DEF Driver!LatencyFirst, effort, optimal, odd, stages, wanted, last, factor
<1>12. CASE Driver!LastSuffices(last)
  <2>1. stages - 1 \in 0 .. MaxInvChainLen - 1 /\ (stages - 1) % 2 = 0 /\ stages - 1 + 1 = stages
    BY <1>5, DriverAssumption
  <2>2. last >= Driver!MinDriver
    BY <1>12 DEF Driver!LastSuffices
  <2>3. Drives(stages - 1 + 1, Driver!Taper(stages - 1, last, factor))
    BY <1>1, <1>8, <1>10, <2>1, <2>2, TaperDrives
  <2>4. numStage' = stages /\ width' = Driver!Taper(stages - 1, last, factor) /\ stage' = "done"
    BY <1>11, <1>12
  <2> QED
    BY <2>1, <2>3, <2>4
<1>13. CASE ~Driver!LastSuffices(last)
  BY <1>11, <1>13
<1> QED
  BY <1>12, <1>13

LEMMA TradeOffDrives ==
  ASSUME DriverInv, Driver!TradeOff
  PROVE  stage' = "done" /\ Drives(numStage', width')
<1> DEFINE effort == Driver!Effort(Driver!MinDriver)
           optimal == Driver!OptimalStages(effort)
           even == Driver!WithParity(optimal, ~input.inv)
           stages == Driver!Smaller(even, MaxInvChainLen)
<1>1. input \in DriverInputs /\ Driver!MinDriver <= MaxNmosSize
  BY DEF DriverInv, Driver!TradeOff, BufferDesignTarget
<1>2. Driver!MinDriver \in 0 .. MaxNmosSize
  BY <1>1, MinDriverIsNatural, DriverAssumption
<1>3. effort \in Nat /\ effort <= Unit * (MaxInvChainLen - 1)
  BY <1>1, <1>2, EffortFits
<1> HIDE DEF effort
<1>4. optimal \in 0 .. MaxInvChainLen - 2 /\ optimal \in Nat
  BY <1>3, StagesFit, DriverAssumption
<1> HIDE DEF optimal
<1>5. even \in optimal .. optimal + 1 /\ ~(even % 2 = 1)
  <2>1. (~input.inv) = FALSE
    BY <1>1, AlwaysInverts, Zenon
  <2>2. even = Driver!WithParity(optimal, FALSE)
    BY <2>1, Zenon
  <2>3. (Driver!WithParity(optimal, FALSE) % 2 = 1) = FALSE /\ Driver!WithParity(optimal, FALSE) \in optimal .. optimal + 1
    BY <1>4, ParityChosen
  <2> QED
    BY <2>2, <2>3
<1> HIDE DEF even
<1>6. stages = even /\ stages \in 0 .. MaxInvChainLen - 1 /\ stages % 2 = 0
  BY <1>4, <1>5, DriverAssumption DEF Driver!Smaller
<1> HIDE DEF stages
<1>7. effort \div (stages + 1) \in Nat
  BY <1>3, <1>6, QuotientIsNatural
<1>8. /\ numStage' = stages + 1 /\ stage' = "done"
      /\ width' = Driver!Taper(stages, Driver!MinDriver, effort \div (stages + 1))
  BY DEF Driver!TradeOff, effort, optimal, even, stages
<1>9. Drives(stages + 1, Driver!Taper(stages, Driver!MinDriver, effort \div (stages + 1)))
  BY <1>1, <1>2, <1>6, <1>7, TaperDrives
<1> QED
  BY <1>8, <1>9

LEMMA AreaFirstDrives ==
  ASSUME DriverInv, Driver!AreaFirst
  PROVE  stage' = "done" /\ Drives(numStage', width')
<1>1. input \in DriverInputs /\ Driver!MinDriver <= MaxNmosSize
  BY DEF DriverInv, Driver!AreaFirst, BufferDesignTarget
<1>2. Driver!MinDriver \in 0 .. MaxNmosSize
  BY <1>1, MinDriverIsNatural, DriverAssumption
<1>3. numStage' = 1 /\ width' = [i \in {0} |-> Driver!MinDriver] /\ stage' = "done"
  BY DEF Driver!AreaFirst
<1>4. Drives(1, [i \in {0} |-> Driver!MinDriver])
  <2> DEFINE w == [i \in {0} |-> Driver!MinDriver]
  <2>1. DOMAIN w = {0} /\ w[0] = Driver!MinDriver /\ 0 .. 1 - 1 = {0} /\ 1 - 1 = 0
    OBVIOUS
  <2> HIDE DEF w
  <2>2. (1 % 2 = 1) = input.inv
    <3>1. 1 % 2 = 1
      OBVIOUS
    <3> QED
      BY <1>1, <3>1, AlwaysInverts, Zenon
  <2>3. 1 \in 1 .. MaxInvChainLen /\ w[1 - 1] >= Driver!MinDriver
    BY <1>2, <2>1, DriverAssumption
  <2>4. \A i \in 0 .. 1 - 1 : w[i] \in 0 .. MaxNmosSize /\ (i > 0 => w[i - 1] <= w[i])
    BY <1>2, <2>1
  <2>5. Drives(1, w)
    BY <2>1, <2>2, <2>3, <2>4, Zenon DEF Drives, Driving, Inverting
  <2> QED
    BY <2>5 DEF w
<1> QED
  BY <1>3, <1>4

-----------------------------------------------------------------------------
LEMMA SizeDriverKeepsInv == DriverInv /\ SizeDriver => DriverInv'
<1> SUFFICES ASSUME DriverInv, SizeDriver PROVE DriverInv'
  OBVIOUS
<1>1. CASE Driver!TooWide
  BY <1>1 DEF DriverInv, Driver!TooWide, ChainDrives, Driver!ChainDrives, BufferDesignTarget
<1>2. CASE Driver!PassMinimum
  <2>1. stage' = level /\ level \in BufferDesignTarget /\ UNCHANGED <<input, level>>
    BY <1>2 DEF DriverInv, Driver!PassMinimum
  <2>2. Driver!MinDriver' = Driver!MinDriver /\ Driver!MinDriver <= MaxNmosSize
    BY <1>2, <2>1 DEF Driver!PassMinimum, Driver!MinDriver, Driver!Larger
  <2>3. input \in DriverInputs /\ stage' # "done"
    BY <1>2, <2>1 DEF DriverInv, Driver!PassMinimum, BufferDesignTarget
  <2> QED
    BY <2>1, <2>2, <2>3 DEF DriverInv, ChainDrives, Driver!ChainDrives
<1>3. ASSUME stage \in BufferDesignTarget, UNCHANGED input, stage' = "done", level' \in BufferDesignTarget,
             Drives(numStage', width')
      PROVE  DriverInv'
  <2>1. Driver!MinDriver' = Driver!MinDriver
    BY <1>3 DEF Driver!MinDriver
  <2>2. ChainDrives'
    BY <1>3, <2>1 DEF ChainDrives, Driver!ChainDrives, Drives, Driving, Inverting
  <2> QED
    BY <1>3, <2>2 DEF DriverInv, BufferDesignTarget
<1>4. CASE Driver!LatencyFirst
  <2>1. UNCHANGED input /\ stage \in BufferDesignTarget /\ level' \in BufferDesignTarget
    BY <1>4 DEF Driver!LatencyFirst, DriverInv, BufferDesignTarget
  <2>2. CASE stage' = "done" /\ Drives(numStage', width')
    BY <1>3, <2>1, <2>2
  <2>3. CASE stage' = "latency_area_trade_off"
    <3>1. Driver!MinDriver' = Driver!MinDriver
      BY <2>1 DEF Driver!MinDriver
    <3> QED
      BY <2>1, <2>3, <3>1 DEF DriverInv, BufferDesignTarget, ChainDrives, Driver!ChainDrives
  <2> QED
    BY <1>4, <2>2, <2>3, LatencyFirstDrives
<1>5. CASE Driver!TradeOff
  <2>1. UNCHANGED <<input, level>> /\ stage \in BufferDesignTarget /\ level \in BufferDesignTarget
    BY <1>5 DEF Driver!TradeOff, BufferDesignTarget, DriverInv
  <2> QED
    BY <1>3, <1>5, <2>1, TradeOffDrives
<1>6. CASE Driver!AreaFirst
  <2>1. UNCHANGED <<input, level>> /\ stage \in BufferDesignTarget /\ level \in BufferDesignTarget
    BY <1>6 DEF Driver!AreaFirst, BufferDesignTarget, DriverInv
  <2> QED
    BY <1>3, <1>6, <2>1, AreaFirstDrives
<1> QED
  BY <1>1, <1>2, <1>4, <1>5, <1>6 DEF SizeDriver

LEMMA DriverStep == DriverInv /\ [DrivenNext]_allVars => DriverInv'
<1> SUFFICES ASSUME DriverInv, [DrivenNext]_allVars PROVE DriverInv'
  OBVIOUS
<1>1. CASE InitializeDriver
  <2>1. input' \in DriverInputs /\ level' \in BufferDesignTarget /\ stage' = "minimum"
    BY <1>1, ArgumentTypes DEF InitializeDriver
  <2> QED
    BY <2>1 DEF DriverInv, BufferDesignTarget, ChainDrives, Driver!ChainDrives
<1>2. CASE DriverReturns
  BY <1>2 DEF DriverReturns, DriverInv, BufferDesignTarget, ChainDrives, Driver!ChainDrives
<1>3. CASE DecodersInitialized \/ MatGoesOn \/ UNCHANGED allVars
  <2>1. UNCHANGED driver
    BY <1>3 DEF DecodersInitialized, MatGoesOn, allVars
  <2> QED
    BY <2>1 DEF driver, DriverInv, ChainDrives, Driver!ChainDrives, Driver!MinDriver
<1> QED
  BY <1>1, <1>2, <1>3, SizeDriverKeepsInv DEF DrivenNext

\* Every driver that a decoder of a mat gets has all its inverters, of the right
\* parity and in growing sizes, and carries the current.
THEOREM ChainsDrive == DrivenSpec => []ChainDrives
<1>1. DrivenInit => DriverInv
  BY DEF DrivenInit, DriverInv, BufferDesignTarget, ChainDrives, Driver!ChainDrives
<1>2. DriverInv => ChainDrives
  BY DEF DriverInv
<1> QED
  BY <1>1, <1>2, DriverStep, PTL DEF DrivenSpec
=============================================================================
