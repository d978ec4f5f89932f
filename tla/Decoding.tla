------------------------------ MODULE Decoding ------------------------------
(***************************************************************************)
(* The decoders of a mat.  Mat::Initialize lets its subarray choose the    *)
(* NAND gates in front of the row decoder and of the three mux decoders,   *)
(* then gives each of the four a share of the address bits, in one or two  *)
(* predecoder blocks, and PredecodeBlock::Initialize builds each block of  *)
(* 1-2, 2-4 and 3-8 decoders and up to two stages of row decoders.         *)
(*                                                                         *)
(* Capacitive loads are counted in the gate inputs that one output drives. *)
(***************************************************************************)
EXTENDS Array, Sequences

CONSTANT Requests   \* the calls of Mat::Initialize

\* An address that a 32-bit shift (1 << _numAddressBit) can count.
MaxAddressBit == 30

\* The loops of main() double the mux degrees and the rows of a set, main() refuses
\* an associativity that is not a power of two, and the banks refuse more rows of a
\* set than ways.
ASSUME RequestsAssumption ==
  \A r \in Requests :
    /\ r.call \in CallType /\ r.call.memoryType = "data"
    /\ r.addressBit \in 0 .. MaxAddressBit
    /\ r.numWay \in Nat \ {0} /\ IsPow2(r.numWay)
    /\ IsPow2(r.call.numRowPerSet) /\ r.call.numRowPerSet <= r.numWay
    /\ \A i \in 1 .. 3 : IsPow2(Mux(r.call)[i])
    /\ Degree(Mux(r.call)) * r.numWay <= 2 ^ MaxLog
    /\ r.call.numRowSubarray * r.call.numColumnSubarray \in 1 .. 2 ^ MaxLog
    /\ r.call.numActiveSubarrayPerRow > 0 /\ r.call.numActiveSubarrayPerColumn > 0

VARIABLES
  request,
  pc,
  nandInput,    \* for each decoder of the subarray, the inputs of its NAND gates
  blocks,       \* for each of them, its two predecoder blocks
  initialized   \* how many of them have their blocks

vars == <<request, pc, nandInput, blocks, initialized>>

\* What is decoded, in the order of Mat::Initialize.
Roles == <<"row", "bitlineMux", "senseAmpMuxLev1", "senseAmpMuxLev2">>
Role == {Roles[i] : i \in DOMAIN Roles}
IndexOf(role) == CHOOSE i \in DOMAIN Roles : Roles[i] = role

mux == MuxForWays(request.call, request.numWay)
subarray == MatInitialize(request.call, request.addressBit, request.call.blockSize,
                          request.numWay, mux)

\* The outputs of a decoder of the subarray.
NumRow(role) == IF role = "row" THEN subarray.numRow ELSE mux[IndexOf(role) - 1]

\* Only the row decoder selects one of several rows of a set.
MultipleRowPerSet(role) == role = "row" /\ request.call.numRowPerSet > 1

\* RowDecoder::Initialize: up to 8 rows "the predecoder output is used directly",
\* more need NAND gates, and the choice among the rows of a set is one more input.
\* No gate is 0.
NandInput(numRow, multipleRowPerSet) ==
  CASE numRow <= 8 /\ ~multipleRowPerSet -> 0
    [] numRow > 8 /\ multipleRowPerSet -> 3
    [] OTHER -> 2

\* The address bits of a role.
AddressBits(role) ==
  IF role = "row" THEN RowBits(request.call, request.addressBit, mux)
                  ELSE Log2(mux[IndexOf(role) - 1], 1)

\* Mutants: equal halves of an odd number, and a third bit that splits.
EqualHalves(bits) == IF bits > 3 THEN <<bits \div 2, bits \div 2>> ELSE <<bits, 0>>
EagerHalves(bits) ==
  IF bits > 2 THEN <<bits - bits \div 2, bits \div 2>> ELSE <<bits, 0>>

\* "Block 2 is needed" for more than three bits.
Halves(bits) ==
  IF bits > 3 THEN <<bits - bits \div 2, bits \div 2>> ELSE <<bits, 0>>

-----------------------------------------------------------------------------
(***************************************************************************)
(* PredecodeBlock::Initialize.                                             *)
(***************************************************************************)

\* What the load of a circuit is when it drives the outputs of the block.
External == 0

\* Basic decoders of one size: how many there are, and the load of an output.  A
\* group is a triple of the 1-2, the 2-4 and the 3-8 decoders.
Basic(count, load) == [count |-> count, load |-> load]
None == Basic(0, External)
\* A row decoder used as a stage: the inputs of its gates are chosen as for rows,
\* a third input standing for the choice among rows.
Row(three, outputs, load) ==
  [nand |-> NandInput(outputs, three), outputs |-> outputs, load |-> load]

NumDecoder12(bits) == IF bits = 1 THEN 1 ELSE 0

\* Mutant: the remainders are exchanged.
NumDecoder24Exchanged(bits) == IF bits = 1 THEN 0 ELSE bits % 3

\* Two left-over bits make one 2-4 decoder, one left-over bit and three others
\* make two.
NumDecoder24(bits) == IF bits = 1 THEN 0 ELSE (3 - (bits % 3)) % 3

NumDecoder38(bits) == IF bits = 1 THEN 0 ELSE (bits - 2 * NumDecoder24(bits)) \div 3
NumBasicDecoder(bits) == NumDecoder12(bits) + NumDecoder24(bits) + NumDecoder38(bits)

NumOutput(bits) == 2 ^ bits

\* The basic decoders of the groups A and B: numNandInputStage1A and ...1B.
NumNandB(bits) ==
  IF NumBasicDecoder(bits) <= 3 THEN 0 ELSE NumBasicDecoder(bits) \div 2
NumNandA(bits) == NumBasicDecoder(bits) - NumNandB(bits)

NoCircuits == [group \in {} |-> External]

\* The row decoders: none, one that combines all basic decoders, or two groups
\* A and B of two or three basic decoders that a second stage combines.  (The
\* code goes on to three groups from 19 bits on: LinesMultiply shows that no
\* block has so many.)
RowDecoders(bits) ==
  LET n == NumBasicDecoder(bits)
      outputsA == 2 ^ (3 * NumNandA(bits) - NumDecoder24(bits))
      outputsB == 2 ^ (3 * NumNandB(bits))
  IN  CASE n <= 1 -> NoCircuits
        [] n \in 2 .. 3 -> [A |-> Row(n = 3, NumOutput(bits), External)]
        [] OTHER -> [A |-> Row(NumNandA(bits) = 3, outputsA, outputsB),
                     B |-> Row(NumNandB(bits) = 3, outputsB, outputsA),
                     Second |-> Row(FALSE, NumOutput(bits), External)]

\* Mutant: the loads of the two kinds of decoders of group A are exchanged.
MixedGroupAExchanged(nand) ==
  IF nand = 2 THEN <<None, Basic(2, 4), None>> ELSE <<None, Basic(2, 16), Basic(1, 32)>>

\* Two 2-4 decoders in group A, with a 3-8 decoder if there are three.
TwoSmallInGroupA(nand) ==
  IF nand = 2 THEN <<None, Basic(2, 4), None>> ELSE <<None, Basic(2, 32), Basic(1, 16)>>

\* The basic decoders in front of group A; capLoadBasicDecoderA1 and ...A2.
GroupA(bits, nand) ==
  CASE NumDecoder24(bits) = 0 -> <<None, None, Basic(nand, 2 ^ (3 * (nand - 1)))>>
    [] NumDecoder24(bits) = 1 ->
         <<None, Basic(1, 2 ^ (3 * (nand - 1))), Basic(nand - 1, 2 ^ (2 + 3 * (nand - 2)))>>
    [] OTHER -> TwoSmallInGroupA(nand)

GroupB(nand) == <<None, None, Basic(nand, IF nand = 2 THEN 8 ELSE 64)>>

OnlyDecoder(bits) ==
  CASE NumDecoder12(bits) = 1 -> <<Basic(1, External), None, None>>
    [] NumDecoder24(bits) = 1 -> <<None, Basic(1, External), None>>
    [] OTHER -> <<None, None, Basic(1, External)>>

\* The groups of basic decoders; a block of no bits has no circuits.
BasicDecoders(bits) ==
  CASE bits = 0 -> NoCircuits
    [] NumBasicDecoder(bits) = 1 -> [A |-> OnlyDecoder(bits)]
    [] NumBasicDecoder(bits) \in 2 .. 3 -> [A |-> GroupA(bits, NumNandA(bits))]
    [] OTHER -> [A |-> GroupA(bits, NumNandA(bits)), B |-> GroupB(NumNandB(bits))]

Block(bits) ==
  [bits |-> bits, basic |-> BasicDecoders(bits),
   rows |-> IF bits = 0 THEN NoCircuits ELSE RowDecoders(bits)]

-----------------------------------------------------------------------------
Init ==
  /\ request \in Requests
  /\ pc = "subarray"
  /\ nandInput = [role \in Role |-> 0]
  /\ blocks = [role \in Role |-> <<Block(0), Block(0)>>]
  /\ initialized = 0

\* The subarray is legal and has its decoders.
InitializeSubArray ==
  /\ pc = "subarray" /\ ~subarray.invalid
  /\ nandInput' = [role \in Role |-> NandInput(NumRow(role), MultipleRowPerSet(role))]
  /\ pc' = "blocks"
  /\ UNCHANGED <<request, blocks, initialized>>

Reject ==
  /\ pc = "subarray" /\ subarray.invalid
  /\ pc' = "invalid"
  /\ UNCHANGED <<request, nandInput, blocks, initialized>>

\* The two predecoder blocks of the next role.
InitializeBlocks ==
  /\ pc = "blocks"
  /\ LET role == Roles[initialized + 1]
         halves == Halves(AddressBits(role))
     IN  blocks' = [blocks EXCEPT ![role] = <<Block(halves[1]), Block(halves[2])>>]
  /\ initialized' = initialized + 1
  /\ pc' = IF initialized' = Len(Roles) THEN "done" ELSE "blocks"
  /\ UNCHANGED <<request, nandInput>>

Finished == pc \in {"done", "invalid"} /\ UNCHANGED vars

Next == InitializeSubArray \/ Reject \/ InitializeBlocks \/ Finished

Spec == Init /\ [][Next]_vars

-----------------------------------------------------------------------------
(***************************************************************************)
(* Properties.                                                             *)
(***************************************************************************)
AllBlocks == {blocks[role][i] : role \in Role, i \in {1, 2}}

\* The basic decoders of a group, and the bits that they decode.
NumDecoders(group) == group[1].count + group[2].count + group[3].count
NumBits(group) == group[1].count + 2 * group[2].count + 3 * group[3].count

\* More bits than the first two branches of PredecodeBlock::Initialize handle
\* lead to the last one, which shifts numAddressBitStage1A without having set it.
MaxBlockBits == 18

BitsDecoded(b) ==
  CASE DOMAIN b.basic = {} -> 0
    [] DOMAIN b.basic = {"A"} -> NumBits(b.basic["A"])
    [] OTHER -> NumBits(b.basic["A"]) + NumBits(b.basic["B"])

\* Each address bit of a legal mat is decoded in exactly one place: none is lost
\* or used twice when the bits are shared out over four roles by separate
\* logarithms, halved, and divided among decoders of three sizes.
AddressDecodedOnce ==
  LET decoded(role) == BitsDecoded(blocks[role][1]) + BitsDecoded(blocks[role][2])
  IN  pc = "done" =>
        decoded("row") + decoded("bitlineMux")
          + decoded("senseAmpMuxLev1") + decoded("senseAmpMuxLev2")
            = EffectiveBits(request.call, request.addressBit)

LinesMultiplyIn(b) ==
  /\ b.bits <= MaxBlockBits
  /\ \A g \in DOMAIN b.basic :
       /\ NumDecoders(b.basic[g]) > 0
       /\ \A size \in 1 .. 3 : b.basic[g][size].count > 0 \/ b.basic[g][size] = None
  /\ \A g \in DOMAIN b.basic \cap DOMAIN b.rows :
       /\ b.rows[g].nand = NumDecoders(b.basic[g])
       /\ b.rows[g].outputs = 2 ^ NumBits(b.basic[g])
  /\ "Second" \in DOMAIN b.rows =>
       /\ b.rows["Second"].nand = 2
       /\ b.rows["Second"].outputs = b.rows["A"].outputs * b.rows["B"].outputs
       /\ b.rows["Second"].outputs = 2 ^ b.bits

\* In every block the lines multiply from stage to stage: a row decoder has one
\* gate for each choice of an output of each decoder in front of it, as many of
\* them as its gates have inputs, and the last stage has 2^bits outputs.  No
\* circuit is built zero times, and no block has more than MaxBlockBits.
LinesMultiply == \A b \in AllBlocks : LinesMultiplyIn(b)

LoadsAreFanOutIn(b) ==
  /\ \A g \in DOMAIN b.basic, size \in 1 .. 3 :
       LET d == b.basic[g][size]
       IN  d.count > 0 => IF g \in DOMAIN b.rows
                          THEN d.load * 2 ^ size = b.rows[g].outputs
                          ELSE d.load = External
  /\ \A g \in DOMAIN b.rows :
       IF g # "Second" /\ "Second" \in DOMAIN b.rows
       THEN b.rows[g].load * b.rows[g].outputs = b.rows["Second"].outputs
       ELSE b.rows[g].load = External

\* The load that each circuit is sized for is what it drives: an output of a
\* decoder enters the same number of the gates behind it as every other output,
\* and all of them together enter each gate once.  The code has a number for
\* each combination of sizes.
LoadsAreFanOut == \A b \in AllBlocks : LoadsAreFanOutIn(b)

\* The gates that a decoder of the subarray needs for its blocks and for the
\* choice among rows.
InputsOf(role) ==
  LET used(i) == IF blocks[role][i].bits > 0 THEN 1 ELSE 0
      inputs == used(1) + used(2) + (IF MultipleRowPerSet(role) THEN 1 ELSE 0)
  IN  IF inputs <= 1 THEN 0 ELSE inputs

\* The subarray and the mat decide separately how many predecoder outputs meet
\* in a gate, one from the number of rows ("just NAND two predecoder outputs"),
\* the other from the number of address bits ("Block 2 is needed").  They agree
\* for the mux decoders of every mat, and for the row decoder of a mat with one
\* way.
NandsMatchBlocks ==
  pc = "done" =>
    \A role \in Role :
      role # "row" \/ request.numWay = 1 => nandInput[role] = InputsOf(role)
=============================================================================
