----------------------------- MODULE BankHtree -----------------------------
(***************************************************************************)
(* BankWithHtree: a bank whose address and data wires form a binary tree   *)
(* of levelHorizontal + levelVertical levels.  Initialize routes the bits  *)
(* from the root to the mats, writing one entry of six arrays a level;     *)
(* CalculateArea walks the levels back to measure the wires.  Then the     *)
(* exploration keeps the bank as a result and rebuilds it from the stored  *)
(* fields when it refines the wires.                                       *)
(*                                                                         *)
(* The arrays of one direction are one function from levels to records, an *)
(* array cell that nobody wrote is Unwritten, reading outside an array     *)
(* gives Unwritten and writing outside it is lost.  Lengths are counted in *)
(* half mats, and a wire with repeaters takes a track of one such unit for *)
(* each bit.                                                               *)
(***************************************************************************)
EXTENDS BankBus, FiniteSetsExt

CONSTANT Calls    \* the calls of Initialize that an exploration makes

ASSUME CallsAssumption ==
  /\ Calls \subseteq CallType
  /\ \A c \in Calls : Log2(c.numColumnMat, 1) \in Nat /\ Log2(c.numRowMat, 1) \in Nat

\* What is doubled, from 1, by the loops of main(): mats, subarrays, the active
\* ones among them, mux degrees and the rows of a set.  applyConstraint() refuses
\* ways that are no power of two, and a CAM.  Capacity and block may be odd.
Doubled(c) ==
  {c.numRowMat, c.numColumnMat, c.numActiveMatPerColumn, c.numActiveMatPerRow,
   c.numRowSubarray, c.numColumnSubarray,
   c.numActiveSubarrayPerColumn, c.numActiveSubarrayPerRow,
   c.muxSenseAmp, c.muxOutputLev1, c.muxOutputLev2, c.numRowPerSet, c.associativity}

IsRegular(c) ==
  /\ c.memoryType # "CAM"
  /\ \A n \in Doubled(c) : IsPow2(n)
  /\ c.numRowMat * c.numColumnMat <= 2 ^ MaxLog
  /\ c.numRowSubarray * c.numColumnSubarray <= 2 ^ MaxLog
  /\ Degree(Mux(c)) * c.associativity <= 2 ^ MaxLog
  /\ c.blockSize > 0 /\ NumAddressBit(c) \in 0 .. MaxLog

ASSUME RegularCallsAssumption == \A c \in Calls : IsRegular(c)

VARIABLES
  call,               \* the arguments of the current Initialize
  pc,                 \* where the bank is
  bank,               \* the stored fields, in the form of a call
  h, v,               \* horizontal and vertical levels left
  hTemp, vTemp,       \* wires side by side on the next levels
  rowToActive, columnToActive,
  route,              \* the bits still to route
  horizontal, vertical,               \* the wires of each level
  lengthHorizontal, lengthVertical,   \* and their lengths
  mat,                \* the mat of the bank
  initialized, invalid,
  result              \* the best result kept so far: call and mat

loop == <<h, v, hTemp, vTemp, rowToActive, columnToActive>>
tree == <<horizontal, vertical>>
lengths == <<lengthHorizontal, lengthVertical>>
flags == <<initialized, invalid>>
vars == <<call, pc, bank, loop, route, tree, lengths, mat, flags, result>>

levelHorizontal == Log2(call.numColumnMat, 1)
levelVertical == Log2(call.numRowMat, 1)

NoRoute == [address |-> 0, distribute |-> 0, broadcast |-> 0]
Unwritten == [bits |-> NoRoute, wire |-> 0, sum |-> 0, active |-> 0]
NoResult == [kept |-> FALSE]

\* An array of n cells that nobody wrote.
NewArray(n, cell) == [i \in 0 .. n - 1 |-> cell]
At(array, i) == IF i \in DOMAIN array THEN array[i] ELSE Unwritten
LengthAt(array, i) == IF i \in DOMAIN array THEN array[i] ELSE 0

\* Bits that travel together on one wire bundle.
Width(bits) == bits.address + bits.distribute + bits.broadcast

\* "numDataDistributeBitToRoute + numDataBroadcastBitToRoute == 0 ||
\* numAddressBitToRoute == 0": nothing is left to distinguish mats by.
Exhausted == route.distribute + route.broadcast = 0 \/ route.address = 0

Init ==
  /\ call \in Calls
  /\ pc = "start"
  /\ bank = call
  /\ h = 0 /\ v = 0 /\ hTemp = 0 /\ vTemp = 0
  /\ rowToActive = 0 /\ columnToActive = 0
  /\ route = NoRoute
  /\ horizontal = NewArray(0, Unwritten) /\ vertical = NewArray(0, Unwritten)
  /\ lengthHorizontal = NewArray(0, 0) /\ lengthVertical = NewArray(0, 0)
  /\ mat = InvalidMat
  /\ initialized = FALSE /\ invalid = FALSE
  /\ result = NoResult

-----------------------------------------------------------------------------
(***************************************************************************)
(* Initialize.                                                             *)
(***************************************************************************)

\* An H-tree needs sense amplifiers in the mats.  The bank stays
\* uninitialized, and only its flag says that it is invalid.  (applyConstraint()
\* refuses such an input before the exploration begins.)
RejectExternalSense ==
  /\ pc = "start" /\ ~call.internalSenseAmp
  /\ invalid' = TRUE
  /\ pc' = "done"
  /\ UNCHANGED <<call, bank, loop, route, tree, lengths, mat, initialized, result>>

\* The bits that enter the tree: a data array distributes the block and
\* broadcasts the way number, a tag array distributes the ways and broadcasts
\* the tag, a CAM broadcasts the key.
FirstRoute(c) ==
  [address |-> NumAddressBit(c),
   distribute |-> CASE c.memoryType = "data" -> c.blockSize
                    [] c.memoryType = "tag" -> c.associativity
                    [] OTHER -> 0,
   broadcast |-> IF c.memoryType = "data" THEN FloorLog2(c.associativity)
                 ELSE c.blockSize]

\* The fields that Initialize stores: active counts are cut to what exists.
Stored(c) ==
  [c EXCEPT !.numActiveMatPerRow = AtMost(@, c.numColumnMat),
            !.numActiveMatPerColumn = AtMost(@, c.numRowMat),
            !.numActiveSubarrayPerRow = ActivePerRow(c),
            !.numActiveSubarrayPerColumn = ActivePerColumn(c)]

Begin ==
  /\ pc = "start" /\ call.internalSenseAmp
  /\ bank' = Stored(call)
  /\ h' = levelHorizontal /\ v' = levelVertical
  /\ hTemp' = 1 /\ vTemp' = 1
  /\ rowToActive' = bank'.numActiveMatPerColumn
  /\ columnToActive' = bank'.numActiveMatPerRow
  /\ route' = FirstRoute(call)
  /\ horizontal' = NewArray(levelHorizontal, Unwritten)
  /\ vertical' = NewArray(levelVertical, Unwritten)
  /\ lengthHorizontal' = NewArray(levelHorizontal, 0)
  /\ lengthVertical' = NewArray(levelVertical, 0)
  /\ pc' = "first"
  /\ UNCHANGED <<call, mat, flags, result>>

\* The root of the tree is horizontal, when there is any horizontal level.
FirstHorizontal ==
  /\ pc = "first" /\ h > 0 /\ ~Exhausted
  /\ horizontal' = [horizontal EXCEPT
       ![0] = [bits |-> route, wire |-> 1, sum |-> 1, active |-> 1]]
  /\ h' = h - 1
  /\ pc' = "route"
  /\ UNCHANGED <<call, bank, v, hTemp, vTemp, rowToActive, columnToActive, route,
                 vertical, lengths, mat, flags, result>>

NoHorizontal ==
  /\ pc = "first" /\ ~(h > 0)
  /\ pc' = "route"
  /\ UNCHANGED <<call, bank, loop, route, tree, lengths, mat, flags, result>>

\* Every level, and the last column, first checks that there are bits left.
GiveUp ==
  /\ \/ pc = "first" /\ h > 0
     \/ pc \in {"route", "half"}
  /\ Exhausted
  /\ invalid' = TRUE /\ initialized' = TRUE
  /\ pc' = "done"
  /\ UNCHANGED <<call, bank, loop, route, tree, lengths, mat, result>>

\* A level halves the data when several of its subtrees are active, otherwise
\* one address bit chooses the active subtree.
Split(toActive) ==
  route' = IF toActive > 1 THEN [route EXCEPT !.distribute = @ \div 2]
                           ELSE [route EXCEPT !.address = @ - 1]
Rest(toActive) == IF toActive > 1 THEN toActive \div 2 ELSE toActive

\* Mutant: a level with active subtrees on both sides activates one bundle.
OneActiveLevel(parent, toActive, wire) ==
  [bits |-> route', wire |-> wire, sum |-> 2 * parent.sum, active |-> parent.active]

Level(parent, toActive, wire) ==
  [bits |-> route', wire |-> wire, sum |-> 2 * parent.sum,
   active |-> (IF toActive > 1 THEN 2 ELSE 1) * parent.active]

\* The wire that feeds a first vertical level without horizontal levels.
Root == [bits |-> NoRoute, wire |-> 1, sum |-> 1, active |-> 1]

\* while (h > v)
ReduceHorizontal ==
  /\ pc = "route" /\ h > v /\ ~Exhausted
  /\ Split(columnToActive)
  /\ columnToActive' = Rest(columnToActive)
  /\ horizontal' = [horizontal EXCEPT ![levelHorizontal - h] =
       Level(At(horizontal, levelHorizontal - h - 1), columnToActive, 1)]
  /\ h' = h - 1 /\ vTemp' = 2 * vTemp
  /\ UNCHANGED <<call, pc, bank, v, hTemp, rowToActive, vertical, lengths, mat,
                 flags, result>>

\* Mutant: the first vertical level has no case of its own.
ReduceVerticalWithoutRoot ==
  /\ pc = "route" /\ v > h /\ ~Exhausted
  /\ Split(rowToActive)
  /\ rowToActive' = Rest(rowToActive)
  /\ vertical' = [vertical EXCEPT ![levelVertical - v] =
       Level(At(vertical, levelVertical - v - 1), rowToActive, 1)]
  /\ v' = v - 1 /\ hTemp' = 2 * hTemp
  /\ UNCHANGED <<call, pc, bank, h, vTemp, columnToActive, horizontal, lengths, mat,
                 flags, result>>

\* while (v > h)
ReduceVertical ==
  /\ pc = "route" /\ v > h /\ ~Exhausted
  /\ Split(rowToActive)
  /\ rowToActive' = Rest(rowToActive)
  /\ vertical' = [vertical EXCEPT ![levelVertical - v] =
       Level(IF v = levelVertical THEN Root ELSE At(vertical, levelVertical - v - 1),
             rowToActive, 1)]
  /\ v' = v - 1 /\ hTemp' = 2 * hTemp
  /\ UNCHANGED <<call, pc, bank, h, vTemp, columnToActive, horizontal, lengths, mat,
                 flags, result>>

\* while (h > 0): a horizontal level, fed by the vertical level before it,
BothHorizontal ==
  /\ pc = "route" /\ h = v /\ h > 0 /\ ~Exhausted
  /\ Split(columnToActive)
  /\ columnToActive' = Rest(columnToActive)
  /\ horizontal' = [horizontal EXCEPT ![levelHorizontal - h] =
       Level(IF v = levelVertical THEN At(horizontal, levelHorizontal - h - 1)
                                  ELSE At(vertical, levelVertical - v - 1),
             columnToActive, hTemp)]
  /\ pc' = "half"
  /\ UNCHANGED <<call, bank, h, v, hTemp, vTemp, rowToActive, vertical, lengths, mat,
                 flags, result>>

\* and a vertical level fed by that horizontal one.
BothVertical ==
  /\ pc = "half" /\ ~Exhausted
  /\ Split(rowToActive)
  /\ rowToActive' = Rest(rowToActive)
  /\ vertical' = [vertical EXCEPT ![levelVertical - v] =
       Level(At(horizontal, levelHorizontal - h), rowToActive,
             IF levelHorizontal = 2 THEN vTemp ELSE 2 * vTemp)]
  /\ h' = h - 1 /\ v' = v - 1
  /\ hTemp' = 2 * hTemp /\ vTemp' = 2 * vTemp
  /\ pc' = "route"
  /\ UNCHANGED <<call, bank, columnToActive, horizontal, lengths, mat, flags, result>>

\* The last horizontal wire runs between two mats.
LastColumn ==
  /\ pc = "route" /\ h = v /\ ~(h > 0) /\ ~Exhausted
  /\ IF columnToActive > 1 \/ levelHorizontal > 0 THEN Split(columnToActive)
                                                  ELSE UNCHANGED route
  /\ columnToActive' = Rest(columnToActive)
  /\ pc' = "ways"
  /\ UNCHANGED <<call, bank, h, v, hTemp, vTemp, rowToActive, tree, lengths, mat,
                 flags, result>>

\* Mutant: a tag array may get a mat without a way.
EnoughRows ==
  CASE call.memoryType = "data" -> call.numRowPerSet <= 2 ^ route.broadcast
    [] call.memoryType = "tag" -> call.numRowPerSet <= 1
    [] OTHER -> TRUE

\* The ways that reach a mat must fill the rows of a set; a tag array keeps a
\* set in one row and needs a whole way.
EnoughWays ==
  CASE call.memoryType = "data" -> call.numRowPerSet <= 2 ^ route.broadcast
    [] call.memoryType = "tag" -> call.numRowPerSet <= 1 /\ route.distribute # 0
    [] OTHER -> TRUE

RejectWays ==
  /\ pc = "ways" /\ ~EnoughWays
  /\ invalid' = TRUE /\ initialized' = TRUE
  /\ pc' = "done"
  /\ UNCHANGED <<call, bank, loop, route, tree, lengths, mat, result>>

NumWay ==
  CASE call.memoryType = "data" -> 2 ^ route.broadcast
    [] call.memoryType = "tag" -> route.distribute
    [] OTHER -> 1
MatBlockSize == IF call.memoryType = "data" THEN route.distribute ELSE route.broadcast
MatMux == IF call.memoryType = "data" THEN MuxForWays(call, NumWay) ELSE Mux(call)

WithMux(fields, mux) ==
  [fields EXCEPT !.muxSenseAmp = mux[1], !.muxOutputLev1 = mux[2],
                 !.muxOutputLev2 = mux[3]]

\* Mutant: the mux degrees that the mat got stay in the fields.
MatMuxAfter(legal) == MatMux

\* The mux degrees in the fields at the end: those of the mat if it is illegal,
\* otherwise reset to the arguments.
MuxAfter(legal) == IF legal THEN Mux(call) ELSE MatMux

InitializeMat ==
  /\ pc = "ways" /\ EnoughWays
  /\ mat' = MatInitialize(bank, route.address, MatBlockSize, NumWay, MatMux)
  /\ bank' = WithMux(bank, MuxAfter(~mat'.invalid))
  /\ invalid' = (invalid \/ mat'.invalid) /\ initialized' = TRUE
  /\ pc' = IF mat'.invalid THEN "done" ELSE "area"
  /\ UNCHANGED <<call, loop, route, tree, lengths, result>>

-----------------------------------------------------------------------------
(***************************************************************************)
(* CalculateArea: the deepest vertical wire is half a mat high, the        *)
(* deepest horizontal one a mat wide, and each wire is twice the next one  *)
(* plus the tracks between them.                                           *)
(***************************************************************************)

\* A data array that is too long and narrow is invalid.
RejectAspectRatio ==
  /\ pc = "area" /\ call.memoryType = "data"
  /\ invalid' = TRUE
  /\ pc' = "done"
  /\ UNCHANGED <<call, bank, loop, route, tree, lengths, mat, initialized, result>>

BeginLengths ==
  /\ pc = "area"
  /\ h' = levelHorizontal - 1 /\ v' = levelVertical - 1
  /\ pc' = "lengths"
  /\ UNCHANGED <<call, bank, hTemp, vTemp, rowToActive, columnToActive, route, tree,
                 lengths, mat, flags, result>>

Track(cell) == IF call.repeatedGlobalWire THEN Width(cell.bits) ELSE 0

\* Mutant: a wire is only as long as the next one.
NextVertical ==
  IF v = levelVertical - 1 THEN 1 ELSE LengthAt(lengthVertical, v + 1)

TwiceNextVertical ==
  IF v = levelVertical - 1 THEN 1 ELSE 2 * LengthAt(lengthVertical, v + 1)
TwiceNextHorizontal ==
  IF h = levelHorizontal - 1 THEN 2 ELSE 2 * LengthAt(lengthHorizontal, h + 1)

\* while (v > h)
LengthVertical ==
  /\ pc = "lengths" /\ v > h
  /\ lengthVertical' = [lengthVertical EXCEPT ![v] = TwiceNextVertical]
  /\ v' = v - 1
  /\ UNCHANGED <<call, pc, bank, h, hTemp, vTemp, rowToActive, columnToActive, route,
                 tree, lengthHorizontal, mat, flags, result>>

\* while (v >= 0)
LengthBoth ==
  /\ pc = "lengths" /\ ~(v > h) /\ v >= 0
  /\ lengthVertical' = [lengthVertical EXCEPT ![v] = TwiceNextVertical +
       (IF v = levelVertical - 1 \/ h = levelHorizontal - 1 THEN 0
        ELSE Track(At(horizontal, h + 1)))]
  /\ lengthHorizontal' = [lengthHorizontal EXCEPT ![h] = TwiceNextHorizontal +
       (IF h = levelHorizontal - 1
        THEN MapThenSumSet(LAMBDA i : Track(At(vertical, i)), v .. levelVertical - 1)
        ELSE Track(At(vertical, v)))]
  /\ h' = h - 1 /\ v' = v - 1
  /\ UNCHANGED <<call, pc, bank, hTemp, vTemp, rowToActive, columnToActive, route,
                 tree, mat, flags, result>>

\* Mutant: the level counter of the loop is not decremented.
LengthHorizontalForever ==
  /\ pc = "lengths" /\ v < 0 /\ h >= 0
  /\ lengthHorizontal' = [lengthHorizontal EXCEPT ![h] = TwiceNextHorizontal]
  /\ UNCHANGED <<call, pc, bank, h, v, hTemp, vTemp, rowToActive, columnToActive, route,
                 tree, lengthVertical, mat, flags, result>>

\* while (h >= 0)
LengthHorizontal ==
  /\ pc = "lengths" /\ v < 0 /\ h >= 0
  /\ lengthHorizontal' = [lengthHorizontal EXCEPT ![h] = TwiceNextHorizontal]
  /\ h' = h - 1
  /\ UNCHANGED <<call, pc, bank, v, hTemp, vTemp, rowToActive, columnToActive, route,
                 tree, lengthVertical, mat, flags, result>>

EndLengths ==
  /\ pc = "lengths" /\ v < 0 /\ h < 0
  /\ pc' = "done"
  /\ UNCHANGED <<call, bank, loop, route, tree, lengths, mat, flags, result>>

-----------------------------------------------------------------------------
(***************************************************************************)
(* The exploration keeps a valid bank (Bank::operator=), and the           *)
(* refinement builds a new one from the kept fields (TRY_AND_UPDATE),      *)
(* perhaps with another global wire.                                       *)
(***************************************************************************)

\* Bank::operator=: the fields of a bank and its mat.
Copied == [kept |-> TRUE, fields |-> bank, mat |-> mat]

Rebuild ==
  /\ pc = "done" /\ ~invalid /\ ~result.kept
  /\ result' = Copied
  /\ \E repeated \in BOOLEAN : call' = [bank EXCEPT !.repeatedGlobalWire = repeated]
  /\ initialized' = FALSE /\ invalid' = FALSE
  /\ mat' = InvalidMat
  /\ pc' = "start"
  /\ UNCHANGED <<bank, loop, route, tree, lengths>>

Finished == pc = "done" /\ (invalid \/ result.kept) /\ UNCHANGED vars

Route ==
  \/ RejectExternalSense \/ Begin \/ FirstHorizontal \/ NoHorizontal \/ GiveUp
  \/ ReduceHorizontal \/ ReduceVertical \/ BothHorizontal \/ BothVertical
  \/ LastColumn \/ RejectWays \/ InitializeMat
Measure ==
  \/ RejectAspectRatio \/ BeginLengths \/ LengthVertical \/ LengthBoth
  \/ LengthHorizontal \/ EndLengths
Next == Route \/ Measure \/ Rebuild \/ Finished

Spec == Init /\ [][Next]_vars /\ WF_vars(Route \/ Measure)

-----------------------------------------------------------------------------
(***************************************************************************)
(* Properties.                                                             *)
(***************************************************************************)

IsWritten(level) == level.wire > 0 /\ level.sum > 0 /\ level.active > 0

\* The levels not written yet.
HorizontalLeft ==
  CASE pc = "route" -> h [] pc = "half" -> h - 1 [] OTHER -> 0
VerticalLeft == IF pc \in {"route", "half"} THEN v ELSE 0

\* No level is computed from a cell outside its array or from one that nobody
\* wrote: the levels written so far are exactly the first ones of each array,
\* and each has real wires.  A wrong index in Initialize, which works on six
\* arrays through levelHorizontal - h and levelVertical - v, breaks it.
LevelsWrittenInOrder ==
  \/ pc \in {"route", "half", "ways", "area", "lengths"}
  \/ pc = "done" /\ ~invalid
  => /\ \A i \in DOMAIN horizontal :
          i < levelHorizontal - HorizontalLeft <=> IsWritten(horizontal[i])
     /\ \A i \in DOMAIN vertical :
          i < levelVertical - VerticalLeft <=> IsWritten(vertical[i])

\* CalculateLatencyAndPower, which reads every cell of every array, finds them
\* all written when the bank is valid, and the wires of every level at least
\* as long as what they cross: the root spans its side of the bank, exactly
\* so when the wires take no room.
WiresReachTheMats ==
  pc = "done" /\ ~invalid =>
    /\ \A i \in DOMAIN horizontal :
         IsWritten(horizontal[i]) /\ lengthHorizontal[i] >= 2 ^ (levelHorizontal - i)
    /\ \A i \in DOMAIN vertical :
         IsWritten(vertical[i]) /\ 2 * lengthVertical[i] >= 2 ^ (levelVertical - i)
    /\ ~call.repeatedGlobalWire =>
         /\ levelHorizontal > 0 => lengthHorizontal[0] = call.numColumnMat
         /\ levelVertical > 0 => 2 * lengthVertical[0] = call.numRowMat

\* On each level the address bits used so far choose among the bundles that are
\* not active together: bundles = active bundles * 2 ^ (address bits used).
\* Energy is charged for the active bundles and leakage for all of them, in
\* CalculateLatencyAndPower, from two arrays that are doubled separately.  When the
\* routing ends, the address bits that are gone choose the active mats among all
\* mats, and each active mat has its share of the distributed bits: no mat is
\* without wires and none is reached twice.
ActiveOfSum(level) ==
  IsWritten(level) =>
    level.sum = level.active * 2 ^ (FirstRoute(call).address - level.bits.address)
MatsAreReached ==
  /\ 2 ^ (FirstRoute(call).address - route.address) * ActiveMats(call)
       = call.numRowMat * call.numColumnMat
  /\ route.distribute = FirstRoute(call).distribute \div ActiveMats(call)
  /\ rowToActive = 1 /\ columnToActive = 1
LoadsAreShared ==
  /\ \A i \in DOMAIN horizontal : ActiveOfSum(horizontal[i])
  /\ \A i \in DOMAIN vertical : ActiveOfSum(vertical[i])
  /\ pc = "ways" => MatsAreReached

\* Both routing modes build the same mats: routing bit by bit through the
\* levels agrees with the divisions of BankWithoutHtree, also in what they
\* reject.  (RejectAspectRatio comes later.)
SameAsBus ==
  /\ pc = "area" => mat = BusMat(call)
  /\ pc = "done" /\ initialized /\ mat.invalid => BusMat(call).invalid

\* A bank that is built again from the fields of a kept one, to try another
\* wire, has the same mats: nothing that Initialize changes for its own use
\* (mux degrees, active counts) is left in the fields.
RebuildsSameBank ==
  result.kept =>
    /\ pc = "area" => mat = result.mat
    /\ pc = "done" => bank.muxSenseAmp = result.fields.muxSenseAmp
    /\ pc = "done" => ~mat.invalid

\* "ERROR: DATA capacity violation. Shouldn't happen" (macros.h): a legal bank
\* holds exactly the bits asked for.
CapacityNeverViolated ==
  pc = "area" => BitsIn(call, mat) = call.capacity

\* A call that divides evenly: the sets are a power of two, and the bits of a
\* row of subarrays, or the ways of a tag array, are shared without rest.
IsEven(c) ==
  /\ \E k \in 0 .. MaxLog : c.capacity = c.blockSize * c.associativity * 2 ^ k
  /\ c.memoryType = "data" =>
       c.blockSize % (ActiveMats(c) * ActivePerRow(c) * ActivePerColumn(c)) = 0
  /\ c.memoryType # "data" =>
       c.blockSize % (ActivePerRow(c) * ActivePerColumn(c)) = 0

\* A legal bank of an even call holds exactly the bits asked for, whatever the
\* tree, the mux degrees and the rows that a set is spread over.
EvenCallsFit == IsEven(call) => CapacityNeverViolated

\* Every Initialize and CalculateArea ends, in a valid or an invalid bank.
AlwaysEnds == pc = "start" ~> pc = "done"
=============================================================================
