-------------------------- MODULE BankHtreeProofs ---------------------------
(***************************************************************************)
(* The H-tree, for every number of levels and every set of calls:          *)
(*   - its arrays are written in order and completely (LevelsInv);         *)
(*   - the routing of bits shares the address and the data among the mats  *)
(*     (ArgsInv, LoadsInv);                                                *)
(*   - the mats are those of BankWithoutHtree, a bank that is built again  *)
(*     gets the same ones, and together they hold the capacity (MatInv);   *)
(*   - the wires of a level are as long as the mats they span (WidthsInv,  *)
(*     LengthsInv).                                                        *)
(***************************************************************************)
EXTENDS BankHtree, CommonProofs

-----------------------------------------------------------------------------
(***************************************************************************)
(* The arrays.                                                             *)
(***************************************************************************)

Positive == Nat \ {0}

IsProper(cell) == cell.wire \in Positive /\ cell.sum \in Positive /\ cell.active \in Positive

\* An array of n cells of which the first k are written.
FirstWritten(array, n, k) ==
  /\ array = [i \in 0 .. n - 1 |-> array[i]]
  /\ \A i \in 0 .. n - 1 : IF i < k THEN IsProper(array[i]) ELSE array[i] = Unwritten

\* The inductive invariant.  The loops keep one cell written for each level
\* done; the root is there before the loops; and horizontal and vertical
\* levels are equally many once they alternate.
Shape ==
  /\ pc \in {"start", "first", "route", "half", "ways", "area", "lengths", "done"}
  /\ levelHorizontal \in Nat /\ levelVertical \in Nat
  /\ bank.numColumnMat = call.numColumnMat /\ bank.numRowMat = call.numRowMat
  /\ {"numColumnMat", "numRowMat"} \subseteq DOMAIN call \cap DOMAIN bank

Written(left, up) ==
  /\ FirstWritten(horizontal, levelHorizontal, levelHorizontal - left)
  /\ FirstWritten(vertical, levelVertical, levelVertical - up)

AtFirst ==
  pc = "first" =>
    /\ h = levelHorizontal /\ v = levelVertical
    /\ hTemp = 1 /\ vTemp = 1
    /\ Written(levelHorizontal, levelVertical)
AtRoute ==
  pc = "route" =>
    /\ h \in 0 .. levelHorizontal /\ v \in 0 .. levelVertical
    /\ levelHorizontal > 0 => h < levelHorizontal
    /\ hTemp \in Positive /\ vTemp \in Positive
    /\ Written(h, v)
AtHalf ==
  pc = "half" =>
    /\ h \in 1 .. levelHorizontal - 1 /\ v = h /\ v \in 1 .. levelVertical
    /\ hTemp \in Positive /\ vTemp \in Positive
    /\ Written(h - 1, v)
AtEnd ==
  pc \in {"ways", "area", "lengths"} \/ (pc = "done" /\ ~invalid) => Written(0, 0)

LevelsInv == Shape /\ AtFirst /\ AtRoute /\ AtHalf /\ AtEnd

-----------------------------------------------------------------------------

LEMMA NothingWritten ==
  ASSUME NEW n \in Nat
  PROVE  FirstWritten(NewArray(n, Unwritten), n, n - n)
BY DEF FirstWritten, NewArray

\* Writing the first free cell with a proper level.
LEMMA WriteNext ==
  ASSUME NEW n \in Nat, NEW k \in 0 .. n - 1, NEW array, FirstWritten(array, n, k),
         NEW cell, IsProper(cell)
  PROVE  FirstWritten([array EXCEPT ![k] = cell], n, k + 1)
BY DEF FirstWritten

LEMMA ReadWritten ==
  ASSUME NEW n \in Nat, NEW k \in 0 .. n, NEW array, FirstWritten(array, n, k),
         NEW i \in 0 .. k - 1
  PROVE  IsProper(At(array, i))
<1>1. DOMAIN array = 0 .. n - 1
  BY DEF FirstWritten
<1>2. i \in 0 .. n - 1 /\ i < k
  OBVIOUS
<1> QED
  BY <1>1, <1>2 DEF FirstWritten, At

\* A level fed by a proper one is proper.
LEMMA LevelIsProper ==
  ASSUME NEW parent, IsProper(parent), NEW toActive, NEW wire \in Positive
  PROVE  IsProper(Level(parent, toActive, wire))
<1>1. 2 * parent.sum \in Positive /\ 1 * parent.active \in Positive
        /\ 2 * parent.active \in Positive
  BY DEF IsProper, Positive
<1> QED
  BY <1>1 DEF IsProper, Level

LEMMA RootIsProper == IsProper(Root)
BY DEF IsProper, Root, Positive

LEMMA DoubleIsPositive ==
  ASSUME NEW n \in Positive
  PROVE  2 * n \in Positive
BY DEF Positive

\* Fields survive the updates of bank and call.
LEMMA FieldsKept ==
  ASSUME NEW fields, {"numColumnMat", "numRowMat"} \subseteq DOMAIN fields
  PROVE  /\ DOMAIN Stored(fields) = DOMAIN fields
         /\ Stored(fields).numColumnMat = fields.numColumnMat
         /\ Stored(fields).numRowMat = fields.numRowMat
         /\ \A mux : /\ DOMAIN WithMux(fields, mux) = DOMAIN fields
                     /\ WithMux(fields, mux).numColumnMat = fields.numColumnMat
                     /\ WithMux(fields, mux).numRowMat = fields.numRowMat
         /\ \A b : LET new == [fields EXCEPT !.repeatedGlobalWire = b]
                   IN  /\ DOMAIN new = DOMAIN fields
                       /\ new.numColumnMat = fields.numColumnMat
                       /\ new.numRowMat = fields.numRowMat
BY DEF Stored, WithMux

LEMMA InitShape == Init => LevelsInv
<1> SUFFICES ASSUME Init PROVE LevelsInv
  OBVIOUS
<1>1. call \in CallType /\ levelHorizontal \in Nat /\ levelVertical \in Nat
  BY CallsAssumption DEF Init, levelHorizontal, levelVertical
<1>2. {"numColumnMat", "numRowMat"} \subseteq DOMAIN call
  BY <1>1 DEF CallType
<1> QED
  BY <1>1, <1>2 DEF Init, LevelsInv, Shape, AtFirst, AtRoute, AtHalf, AtEnd

-----------------------------------------------------------------------------
\* The invariant is preserved, action by action.

\* Shape survives every step that leaves the call and the counts of mats alone.
LEMMA ShapeKept ==
  ASSUME Shape, UNCHANGED <<call, bank>>,
         pc' \in {"start", "first", "route", "half", "ways", "area", "lengths", "done"}
  PROVE  Shape' /\ levelHorizontal' = levelHorizontal /\ levelVertical' = levelVertical
BY DEF Shape, levelHorizontal, levelVertical

LEMMA RejectExternalSenseStep == LevelsInv /\ RejectExternalSense => LevelsInv'
<1> SUFFICES ASSUME LevelsInv, RejectExternalSense PROVE LevelsInv'
  OBVIOUS
<1>1. Shape'
  BY ShapeKept DEF LevelsInv, RejectExternalSense
<1> QED
  BY <1>1 DEF LevelsInv, RejectExternalSense, AtFirst, AtRoute, AtHalf, AtEnd

LEMMA BeginStep == LevelsInv /\ Begin => LevelsInv'
<1> SUFFICES ASSUME LevelsInv, Begin PROVE LevelsInv'
  OBVIOUS
<1>1. levelHorizontal \in Nat /\ levelVertical \in Nat
  BY DEF LevelsInv, Shape
<1>2. /\ bank' = Stored(call) /\ call' = call /\ pc' = "first"
      /\ h' = levelHorizontal /\ v' = levelVertical /\ hTemp' = 1 /\ vTemp' = 1
      /\ horizontal' = NewArray(levelHorizontal, Unwritten)
      /\ vertical' = NewArray(levelVertical, Unwritten)
  BY DEF Begin
<1>3. {"numColumnMat", "numRowMat"} \subseteq DOMAIN call
  BY DEF LevelsInv, Shape
<1>4. levelHorizontal' = levelHorizontal /\ levelVertical' = levelVertical
  BY <1>2 DEF levelHorizontal, levelVertical
<1>5. Shape'
  BY <1>1, <1>2, <1>3, <1>4, FieldsKept DEF Shape
<1>6. Written(levelHorizontal, levelVertical)'
  <2>1. FirstWritten(horizontal', levelHorizontal, levelHorizontal - levelHorizontal)
    BY <1>1, <1>2, NothingWritten
  <2>2. FirstWritten(vertical', levelVertical, levelVertical - levelVertical)
    BY <1>1, <1>2, NothingWritten
  <2> QED
    BY <1>4, <2>1, <2>2 DEF Written
<1> QED
  BY <1>2, <1>4, <1>5, <1>6 DEF LevelsInv, AtFirst, AtRoute, AtHalf, AtEnd

LEMMA FirstHorizontalStep == LevelsInv /\ FirstHorizontal => LevelsInv'
<1> SUFFICES ASSUME LevelsInv, FirstHorizontal PROVE LevelsInv'
  OBVIOUS
<1>1. /\ levelHorizontal \in Nat /\ levelVertical \in Nat
      /\ h = levelHorizontal /\ v = levelVertical /\ hTemp = 1 /\ vTemp = 1
      /\ h > 0 /\ Written(levelHorizontal, levelVertical)
  BY DEF LevelsInv, Shape, AtFirst, FirstHorizontal
<1> DEFINE root == [bits |-> route, wire |-> 1, sum |-> 1, active |-> 1]
<1>2. /\ horizontal' = [horizontal EXCEPT ![0] = root] /\ vertical' = vertical
      /\ h' = h - 1 /\ v' = v /\ hTemp' = hTemp /\ vTemp' = vTemp
      /\ pc' = "route" /\ UNCHANGED <<call, bank>>
  BY DEF FirstHorizontal
<1>3. IsProper(root)
  BY DEF IsProper, Positive
<1> HIDE DEF root
<1>4. Shape' /\ levelHorizontal' = levelHorizontal /\ levelVertical' = levelVertical
  BY <1>2, ShapeKept DEF LevelsInv
<1>5. FirstWritten(horizontal', levelHorizontal, 0 + 1)
  <2>1. FirstWritten(horizontal, levelHorizontal, 0) /\ 0 \in 0 .. levelHorizontal - 1
    BY <1>1 DEF Written
  <2> QED
    BY <1>1, <1>2, <1>3, <2>1, WriteNext
<1>6. Written(h, v)'
  BY <1>1, <1>2, <1>4, <1>5 DEF Written
<1>7. AtRoute'
  BY <1>1, <1>2, <1>4, <1>6 DEF AtRoute, Positive
<1> QED
  BY <1>2, <1>4, <1>7 DEF LevelsInv, AtFirst, AtHalf, AtEnd

LEMMA NoHorizontalStep == LevelsInv /\ NoHorizontal => LevelsInv'
<1> SUFFICES ASSUME LevelsInv, NoHorizontal PROVE LevelsInv'
  OBVIOUS
<1>1. /\ levelHorizontal = 0 /\ levelVertical \in Nat
      /\ h = levelHorizontal /\ v = levelVertical /\ hTemp = 1 /\ vTemp = 1
      /\ Written(h, v)
  BY DEF LevelsInv, Shape, AtFirst, NoHorizontal
<1>2. /\ pc' = "route" /\ UNCHANGED <<call, bank>>
      /\ UNCHANGED <<h, v, hTemp, vTemp, horizontal, vertical>>
  BY DEF NoHorizontal, loop, tree
<1>3. Shape' /\ levelHorizontal' = levelHorizontal /\ levelVertical' = levelVertical
  BY <1>2, ShapeKept DEF LevelsInv
<1>4. Written(h, v)'
  BY <1>1, <1>2, <1>3 DEF Written
<1>5. AtRoute'
  BY <1>1, <1>2, <1>3, <1>4 DEF AtRoute, Positive
<1> QED
  BY <1>2, <1>3, <1>5 DEF LevelsInv, AtFirst, AtHalf, AtEnd

\* The steps that end with an invalid bank.
LEMMA RejectStep ==
  LevelsInv /\ (GiveUp \/ RejectWays \/ RejectAspectRatio) => LevelsInv'
<1> SUFFICES ASSUME LevelsInv, GiveUp \/ RejectWays \/ RejectAspectRatio PROVE LevelsInv'
  OBVIOUS
<1>1. pc' = "done" /\ invalid' /\ UNCHANGED <<call, bank>>
  BY DEF GiveUp, RejectWays, RejectAspectRatio
<1>2. Shape'
  BY <1>1, ShapeKept DEF LevelsInv
<1> QED
  BY <1>1, <1>2 DEF LevelsInv, AtFirst, AtRoute, AtHalf, AtEnd

LEMMA ReduceHorizontalStep == LevelsInv /\ ReduceHorizontal => LevelsInv'
<1> SUFFICES ASSUME LevelsInv, ReduceHorizontal PROVE LevelsInv'
  OBVIOUS
<1>1. /\ levelHorizontal \in Nat /\ levelVertical \in Nat
      /\ h \in 0 .. levelHorizontal - 1 /\ v \in 0 .. levelVertical /\ h > v
      /\ hTemp \in Positive /\ vTemp \in Positive /\ Written(h, v)
  BY DEF LevelsInv, Shape, AtRoute, ReduceHorizontal
<1> DEFINE parent == At(horizontal, levelHorizontal - h - 1)
           cell == Level(parent, columnToActive, 1)
<1>2. /\ horizontal' = [horizontal EXCEPT ![levelHorizontal - h] = cell]
      /\ vertical' = vertical
      /\ h' = h - 1 /\ v' = v /\ hTemp' = hTemp /\ vTemp' = 2 * vTemp
      /\ pc' = "route" /\ UNCHANGED <<call, bank>>
  BY DEF ReduceHorizontal
<1>3. FirstWritten(horizontal, levelHorizontal, levelHorizontal - h)
  BY <1>1 DEF Written
<1>4. IsProper(cell)
  <2>1. /\ levelHorizontal - h \in 0 .. levelHorizontal
        /\ levelHorizontal - h - 1 \in 0 .. (levelHorizontal - h) - 1
    BY <1>1
  <2>2. IsProper(parent)
    BY <1>1, <1>3, <2>1, ReadWritten
  <2> HIDE DEF parent
  <2>3. 1 \in Positive
    BY DEF Positive
  <2> QED
    BY <2>2, <2>3, LevelIsProper
<1> HIDE DEF cell
<1>5. Shape' /\ levelHorizontal' = levelHorizontal /\ levelVertical' = levelVertical
  BY <1>2, ShapeKept DEF LevelsInv
<1>6. FirstWritten(horizontal', levelHorizontal, levelHorizontal - h')
  <2>1. /\ levelHorizontal - h \in 0 .. levelHorizontal - 1
        /\ (levelHorizontal - h) + 1 = levelHorizontal - h'
    BY <1>1, <1>2
  <2>2. FirstWritten(horizontal', levelHorizontal, (levelHorizontal - h) + 1)
    BY <1>1, <1>2, <1>3, <1>4, <2>1, WriteNext
  <2> QED
    BY <2>1, <2>2
<1>7. Written(h, v)'
  BY <1>1, <1>2, <1>5, <1>6 DEF Written
<1>8. AtRoute'
  BY <1>1, <1>2, <1>5, <1>7, DoubleIsPositive DEF AtRoute
<1> QED
  BY <1>2, <1>5, <1>8 DEF LevelsInv, AtFirst, AtHalf, AtEnd

LEMMA ReduceVerticalStep == LevelsInv /\ ReduceVertical => LevelsInv'
<1> SUFFICES ASSUME LevelsInv, ReduceVertical PROVE LevelsInv'
  OBVIOUS
<1>1. /\ levelHorizontal \in Nat /\ levelVertical \in Nat
      /\ h \in 0 .. levelHorizontal /\ v \in 1 .. levelVertical /\ v > h
      /\ levelHorizontal > 0 => h < levelHorizontal
      /\ hTemp \in Positive /\ vTemp \in Positive /\ Written(h, v)
  BY DEF LevelsInv, Shape, AtRoute, ReduceVertical
<1> DEFINE parent == IF v = levelVertical THEN Root
                     ELSE At(vertical, levelVertical - v - 1)
           cell == Level(parent, rowToActive, 1)
<1>2. /\ vertical' = [vertical EXCEPT ![levelVertical - v] = cell]
      /\ horizontal' = horizontal
      /\ h' = h /\ v' = v - 1 /\ hTemp' = 2 * hTemp /\ vTemp' = vTemp
      /\ pc' = "route" /\ UNCHANGED <<call, bank>>
  BY DEF ReduceVertical
<1>3. FirstWritten(vertical, levelVertical, levelVertical - v)
  BY <1>1 DEF Written
<1>4. IsProper(cell)
  <2>1. CASE v = levelVertical
    BY <2>1, RootIsProper, LevelIsProper DEF Positive
  <2>2. CASE v # levelVertical
    <3>1. /\ levelVertical - v \in 0 .. levelVertical
          /\ levelVertical - v - 1 \in 0 .. (levelVertical - v) - 1
      BY <1>1, <2>2
    <3>2. IsProper(parent)
      BY <1>1, <1>3, <2>2, <3>1, ReadWritten
    <3> HIDE DEF parent
    <3>3. 1 \in Positive
      BY DEF Positive
    <3> QED
      BY <3>2, <3>3, LevelIsProper
  <2> QED
    BY <2>1, <2>2
<1> HIDE DEF cell
<1>5. Shape' /\ levelHorizontal' = levelHorizontal /\ levelVertical' = levelVertical
  BY <1>2, ShapeKept DEF LevelsInv
<1>6. FirstWritten(vertical', levelVertical, levelVertical - v')
  <2>1. /\ levelVertical - v \in 0 .. levelVertical - 1
        /\ (levelVertical - v) + 1 = levelVertical - v'
    BY <1>1, <1>2
  <2>2. FirstWritten(vertical', levelVertical, (levelVertical - v) + 1)
    BY <1>1, <1>2, <1>3, <1>4, <2>1, WriteNext
  <2> QED
    BY <2>1, <2>2
<1>7. Written(h, v)'
  BY <1>1, <1>2, <1>5, <1>6 DEF Written
<1>8. AtRoute'
  BY <1>1, <1>2, <1>5, <1>7, DoubleIsPositive DEF AtRoute
<1> QED
  BY <1>2, <1>5, <1>8 DEF LevelsInv, AtFirst, AtHalf, AtEnd

LEMMA BothHorizontalStep == LevelsInv /\ BothHorizontal => LevelsInv'
<1> SUFFICES ASSUME LevelsInv, BothHorizontal PROVE LevelsInv'
  OBVIOUS
<1>1. /\ levelHorizontal \in Nat /\ levelVertical \in Nat
      /\ h \in 1 .. levelHorizontal - 1 /\ v \in 1 .. levelVertical /\ h = v
      /\ hTemp \in Positive /\ vTemp \in Positive /\ Written(h, v)
  BY DEF LevelsInv, Shape, AtRoute, BothHorizontal
<1> DEFINE parent == IF v = levelVertical
                     THEN At(horizontal, levelHorizontal - h - 1)
                     ELSE At(vertical, levelVertical - v - 1)
           cell == Level(parent, columnToActive, hTemp)
<1>2. /\ horizontal' = [horizontal EXCEPT ![levelHorizontal - h] = cell]
      /\ vertical' = vertical
      /\ UNCHANGED <<h, v, hTemp, vTemp>>
      /\ pc' = "half" /\ UNCHANGED <<call, bank>>
  BY DEF BothHorizontal
<1>3. /\ FirstWritten(horizontal, levelHorizontal, levelHorizontal - h)
      /\ FirstWritten(vertical, levelVertical, levelVertical - v)
  BY <1>1 DEF Written
<1>4. IsProper(cell)
  <2>1. IsProper(parent)
    <3>1. CASE v = levelVertical
      <4>1. /\ levelHorizontal - h \in 0 .. levelHorizontal
            /\ levelHorizontal - h - 1 \in 0 .. (levelHorizontal - h) - 1
        BY <1>1
      <4> QED
        BY <1>1, <1>3, <3>1, <4>1, ReadWritten
    <3>2. CASE v # levelVertical
      <4>1. /\ levelVertical - v \in 0 .. levelVertical
            /\ levelVertical - v - 1 \in 0 .. (levelVertical - v) - 1
        BY <1>1, <3>2
      <4> QED
        BY <1>1, <1>3, <3>2, <4>1, ReadWritten
    <3> QED
      BY <3>1, <3>2
  <2> HIDE DEF parent
  <2> QED
    BY <1>1, <2>1, LevelIsProper
<1> HIDE DEF cell
<1>5. Shape' /\ levelHorizontal' = levelHorizontal /\ levelVertical' = levelVertical
  BY <1>2, ShapeKept DEF LevelsInv
<1>6. FirstWritten(horizontal', levelHorizontal, levelHorizontal - (h - 1))
  <2>1. /\ levelHorizontal - h \in 0 .. levelHorizontal - 1
        /\ (levelHorizontal - h) + 1 = levelHorizontal - (h - 1)
    BY <1>1
  <2>2. FirstWritten(horizontal', levelHorizontal, (levelHorizontal - h) + 1)
    BY <1>1, <1>2, <1>3, <1>4, <2>1, WriteNext
  <2> QED
    BY <2>1, <2>2
<1>7. Written(h - 1, v)'
  BY <1>2, <1>3, <1>5, <1>6 DEF Written
<1>8. AtHalf'
  BY <1>1, <1>2, <1>5, <1>7 DEF AtHalf
<1> QED
  BY <1>2, <1>5, <1>8 DEF LevelsInv, AtFirst, AtRoute, AtEnd

LEMMA BothVerticalStep == LevelsInv /\ BothVertical => LevelsInv'
<1> SUFFICES ASSUME LevelsInv, BothVertical PROVE LevelsInv'
  OBVIOUS
<1>1. /\ levelHorizontal \in Nat /\ levelVertical \in Nat
      /\ h \in 1 .. levelHorizontal - 1 /\ v \in 1 .. levelVertical /\ v = h
      /\ hTemp \in Positive /\ vTemp \in Positive /\ Written(h - 1, v)
  BY DEF LevelsInv, Shape, AtHalf, BothVertical
<1> DEFINE parent == At(horizontal, levelHorizontal - h)
           wire == IF levelHorizontal = 2 THEN vTemp ELSE 2 * vTemp
           cell == Level(parent, rowToActive, wire)
<1>2. /\ vertical' = [vertical EXCEPT ![levelVertical - v] = cell]
      /\ horizontal' = horizontal
      /\ h' = h - 1 /\ v' = v - 1 /\ hTemp' = 2 * hTemp /\ vTemp' = 2 * vTemp
      /\ pc' = "route" /\ UNCHANGED <<call, bank>>
  BY DEF BothVertical
<1>3. /\ FirstWritten(horizontal, levelHorizontal, levelHorizontal - (h - 1))
      /\ FirstWritten(vertical, levelVertical, levelVertical - v)
  BY <1>1 DEF Written
<1>4. IsProper(cell)
  <2>1. IsProper(parent)
    <3>1. /\ levelHorizontal - (h - 1) \in 0 .. levelHorizontal
          /\ levelHorizontal - h \in 0 .. (levelHorizontal - (h - 1)) - 1
      BY <1>1
    <3> QED
      BY <1>1, <1>3, <3>1, ReadWritten
  <2>2. wire \in Positive
    BY <1>1, DoubleIsPositive
  <2> HIDE DEF parent, wire
  <2> QED
    BY <2>1, <2>2, LevelIsProper
<1> HIDE DEF cell
<1>5. Shape' /\ levelHorizontal' = levelHorizontal /\ levelVertical' = levelVertical
  BY <1>2, ShapeKept DEF LevelsInv
<1>6. FirstWritten(vertical', levelVertical, levelVertical - (v - 1))
  <2>1. /\ levelVertical - v \in 0 .. levelVertical - 1
        /\ (levelVertical - v) + 1 = levelVertical - (v - 1)
    BY <1>1
  <2>2. FirstWritten(vertical', levelVertical, (levelVertical - v) + 1)
    BY <1>1, <1>2, <1>3, <1>4, <2>1, WriteNext
  <2> QED
    BY <2>1, <2>2
<1>7. Written(h, v)'
  BY <1>2, <1>3, <1>5, <1>6 DEF Written
<1>8. AtRoute'
  BY <1>1, <1>2, <1>5, <1>7, DoubleIsPositive DEF AtRoute
<1> QED
  BY <1>2, <1>5, <1>8 DEF LevelsInv, AtFirst, AtHalf, AtEnd

LEMMA LastColumnStep == LevelsInv /\ LastColumn => LevelsInv'
<1> SUFFICES ASSUME LevelsInv, LastColumn PROVE LevelsInv'
  OBVIOUS
<1>1. h = 0 /\ v = 0 /\ Written(h, v)
  BY DEF LevelsInv, Shape, AtRoute, LastColumn
<1>2. pc' = "ways" /\ UNCHANGED <<call, bank, horizontal, vertical>>
  BY DEF LastColumn, tree
<1>3. Shape' /\ levelHorizontal' = levelHorizontal /\ levelVertical' = levelVertical
  BY <1>2, ShapeKept DEF LevelsInv
<1>4. Written(0, 0)'
  BY <1>1, <1>2, <1>3 DEF Written
<1> QED
  BY <1>2, <1>3, <1>4 DEF LevelsInv, AtFirst, AtRoute, AtHalf, AtEnd

LEMMA InitializeMatStep == LevelsInv /\ InitializeMat => LevelsInv'
<1> SUFFICES ASSUME LevelsInv, InitializeMat PROVE LevelsInv'
  OBVIOUS
<1>1. Shape /\ Written(0, 0)
  BY DEF LevelsInv, AtEnd, InitializeMat
<1>2. /\ bank' = WithMux(bank, MuxAfter(~mat'.invalid))
      /\ pc' = "area" \/ (pc' = "done" /\ mat'.invalid)
      /\ invalid' = (invalid \/ mat'.invalid)
      /\ UNCHANGED <<call, horizontal, vertical>>
  BY DEF InitializeMat, tree
<1>3. levelHorizontal' = levelHorizontal /\ levelVertical' = levelVertical
  BY <1>2 DEF levelHorizontal, levelVertical
<1>4. Shape'
  <2>1. {"numColumnMat", "numRowMat"} \subseteq DOMAIN bank
    BY <1>1 DEF Shape
  <2>2. /\ DOMAIN bank' = DOMAIN bank
        /\ bank'.numColumnMat = bank.numColumnMat /\ bank'.numRowMat = bank.numRowMat
    BY <1>2, <2>1, FieldsKept
  <2> QED
    BY <1>1, <1>2, <1>3, <2>2 DEF Shape
<1>5. Written(0, 0)'
  BY <1>1, <1>2, <1>3 DEF Written
<1> QED
  BY <1>2, <1>4, <1>5 DEF LevelsInv, AtFirst, AtRoute, AtHalf, AtEnd

\* Measuring the wires leaves the levels alone.
LEMMA MeasureStep ==
  LevelsInv /\ (BeginLengths \/ LengthVertical \/ LengthBoth \/ LengthHorizontal
                  \/ EndLengths) => LevelsInv'
<1> SUFFICES ASSUME LevelsInv, BeginLengths \/ LengthVertical \/ LengthBoth
                                 \/ LengthHorizontal \/ EndLengths
             PROVE  LevelsInv'
  OBVIOUS
<1>1. /\ pc \in {"area", "lengths"} /\ pc' \in {"lengths", "done"}
      /\ UNCHANGED <<call, bank, horizontal, vertical>>
  BY DEF BeginLengths, LengthVertical, LengthBoth, LengthHorizontal, EndLengths, tree
<1>2. Shape' /\ levelHorizontal' = levelHorizontal /\ levelVertical' = levelVertical
  BY <1>1, ShapeKept DEF LevelsInv
<1>3. Written(0, 0)'
  BY <1>1, <1>2 DEF LevelsInv, AtEnd, Written
<1> QED
  BY <1>1, <1>2, <1>3 DEF LevelsInv, AtFirst, AtRoute, AtHalf, AtEnd

LEMMA RebuildStep == LevelsInv /\ Rebuild => LevelsInv'
<1> SUFFICES ASSUME LevelsInv, Rebuild PROVE LevelsInv'
  OBVIOUS
<1>1. PICK repeated \in BOOLEAN : call' = [bank EXCEPT !.repeatedGlobalWire = repeated]
  BY DEF Rebuild
<1>2. bank' = bank /\ pc' = "start"
  BY DEF Rebuild
<1>3. Shape
  BY DEF LevelsInv
<1>4. {"numColumnMat", "numRowMat"} \subseteq DOMAIN bank
  BY <1>3 DEF Shape
<1>5. /\ DOMAIN call' = DOMAIN bank
      /\ call'.numColumnMat = bank.numColumnMat /\ call'.numRowMat = bank.numRowMat
  BY <1>1, <1>4, FieldsKept
<1>6. Shape'
  BY <1>2, <1>3, <1>5 DEF Shape, levelHorizontal, levelVertical
<1> QED
  BY <1>2, <1>6 DEF LevelsInv, AtFirst, AtRoute, AtHalf, AtEnd

LEMMA StutterStep == LevelsInv /\ UNCHANGED vars => LevelsInv'
<1> SUFFICES ASSUME LevelsInv, UNCHANGED vars PROVE LevelsInv'
  OBVIOUS
<1>1. /\ UNCHANGED <<call, bank, pc, h, v, hTemp, vTemp, horizontal, vertical, invalid>>
  BY DEF vars, loop, tree, flags
<1>2. Shape' /\ levelHorizontal' = levelHorizontal /\ levelVertical' = levelVertical
  BY <1>1, ShapeKept DEF LevelsInv, Shape
<1> QED
  BY <1>1, <1>2 DEF LevelsInv, AtFirst, AtRoute, AtHalf, AtEnd, Written

LEMMA NextStep == LevelsInv /\ [Next]_vars => LevelsInv'
BY RejectExternalSenseStep, BeginStep, FirstHorizontalStep, NoHorizontalStep,
   RejectStep, ReduceHorizontalStep, ReduceVerticalStep, BothHorizontalStep,
   BothVerticalStep, LastColumnStep, InitializeMatStep, MeasureStep, RebuildStep,
   StutterStep
   DEF Next, Route, Measure, Finished

LEMMA LevelsInvImplies == LevelsInv => LevelsWrittenInOrder
<1> SUFFICES ASSUME LevelsInv,
                    pc \in {"route", "half", "ways", "area", "lengths"}
                      \/ (pc = "done" /\ ~invalid)
             PROVE  /\ \A i \in DOMAIN horizontal :
                         i < levelHorizontal - HorizontalLeft <=> IsWritten(horizontal[i])
                    /\ \A i \in DOMAIN vertical :
                         i < levelVertical - VerticalLeft <=> IsWritten(vertical[i])
  BY DEF LevelsWrittenInOrder
<1>1. Written(HorizontalLeft, VerticalLeft)
  BY DEF LevelsInv, Shape, AtRoute, AtHalf, AtEnd, HorizontalLeft, VerticalLeft
<1>2. ASSUME NEW array, NEW n, NEW k, FirstWritten(array, n, k)
      PROVE  \A i \in DOMAIN array : i < k <=> IsWritten(array[i])
  <2>1. DOMAIN array = 0 .. n - 1
    BY <1>2 DEF FirstWritten
  <2>2. ASSUME NEW i \in 0 .. n - 1, i < k PROVE IsWritten(array[i])
    BY <1>2, <2>2 DEF FirstWritten, IsProper, IsWritten, Positive
  <2>3. ASSUME NEW i \in 0 .. n - 1, ~(i < k) PROVE ~IsWritten(array[i])
    BY <1>2, <2>3 DEF FirstWritten, IsWritten, Unwritten
  <2> QED
    BY <2>1, <2>2, <2>3
<1> QED
  BY <1>1, <1>2 DEF Written

\* In every reachable state the levels written so far are the first ones of
\* their arrays, and a bank that is valid has written them all: Initialize
\* indexes its arrays rightly for every number of levels, every routing of bits
\* and every rebuilding.
THEOREM TreeIsWritten == Spec => []LevelsWrittenInOrder
<1>1. Spec => []LevelsInv
  BY InitShape, NextStep, PTL DEF Spec
<1> QED
  BY <1>1, LevelsInvImplies, PTL

-----------------------------------------------------------------------------
(***************************************************************************)
(* The arguments.  From Begin on the fields are those that Initialize      *)
(* stores for the call; the mux degrees of a legal mat are put back; so    *)
(* a rebuilt bank is called with arguments that store the same again.      *)
(***************************************************************************)
Rewired(c, repeated) == [c EXCEPT !.repeatedGlobalWire = repeated]

IsRouting == pc \in {"first", "route", "half", "ways"}
IsLegal == pc \in {"area", "lengths"} \/ (pc = "done" /\ ~invalid)

ArgsInv ==
  /\ call \in CallType /\ IsRegular(call)
  /\ IsRouting \/ IsLegal => bank = Stored(call) /\ call.internalSenseAmp

LEMMA AtMostIsOne == ASSUME NEW n, NEW most PROVE AtMost(n, most) \in {n, most}
BY DEF AtMost

LEMMA StoredIsCall ==
  ASSUME NEW c \in CallType
  PROVE  /\ Stored(c) \in CallType
         /\ \A f \in {"numRowMat", "numColumnMat", "capacity", "blockSize", "associativity",
                      "numRowPerSet", "muxSenseAmp", "internalSenseAmp", "muxOutputLev1",
                      "muxOutputLev2", "numRowSubarray", "numColumnSubarray", "memoryType",
                      "cellType", "waysPerColumn", "pageCount", "feasible",
                      "repeatedGlobalWire", "globalSenseFits"} : Stored(c)[f] = c[f]
         /\ Stored(c).numActiveMatPerRow = AtMost(c.numActiveMatPerRow, c.numColumnMat)
         /\ Stored(c).numActiveMatPerColumn = AtMost(c.numActiveMatPerColumn, c.numRowMat)
         /\ Stored(c).numActiveSubarrayPerRow = ActivePerRow(c)
         /\ Stored(c).numActiveSubarrayPerColumn = ActivePerColumn(c)
<1>1. /\ AtMost(c.numActiveMatPerRow, c.numColumnMat) \in Nat
      /\ AtMost(c.numActiveMatPerColumn, c.numRowMat) \in Nat
      /\ ActivePerRow(c) \in Nat /\ ActivePerColumn(c) \in Nat
  BY DEF CallType, AtMost, ActivePerRow, ActivePerColumn
<1> QED
  BY <1>1 DEF Stored, CallType

LEMMA RewiredIsCall ==
  ASSUME NEW c \in CallType, NEW repeated \in BOOLEAN
  PROVE  /\ Rewired(c, repeated) \in CallType
         /\ \A f \in DOMAIN c \ {"repeatedGlobalWire"} : Rewired(c, repeated)[f] = c[f]
BY DEF Rewired, CallType

LEMMA StoredIsRegular ==
  ASSUME NEW c \in CallType, IsRegular(c), NEW repeated \in BOOLEAN
  PROVE  IsRegular(Rewired(Stored(c), repeated))
<1> DEFINE d == Rewired(Stored(c), repeated)
<1>1. /\ d.numRowMat = c.numRowMat /\ d.numColumnMat = c.numColumnMat
      /\ d.capacity = c.capacity /\ d.blockSize = c.blockSize
      /\ d.associativity = c.associativity /\ d.numRowPerSet = c.numRowPerSet
      /\ d.memoryType = c.memoryType
      /\ d.muxSenseAmp = c.muxSenseAmp /\ d.muxOutputLev1 = c.muxOutputLev1
      /\ d.muxOutputLev2 = c.muxOutputLev2
      /\ d.numRowSubarray = c.numRowSubarray /\ d.numColumnSubarray = c.numColumnSubarray
      /\ d.numActiveMatPerRow = AtMost(c.numActiveMatPerRow, c.numColumnMat)
      /\ d.numActiveMatPerColumn = AtMost(c.numActiveMatPerColumn, c.numRowMat)
      /\ d.numActiveSubarrayPerRow = ActivePerRow(c)
      /\ d.numActiveSubarrayPerColumn = ActivePerColumn(c)
  <2>1. Stored(c) \in CallType
    BY StoredIsCall
  <2>2. \A f \in DOMAIN Stored(c) \ {"repeatedGlobalWire"} : d[f] = Stored(c)[f]
    BY <2>1, RewiredIsCall
  <2> HIDE DEF d
  <2> QED
    BY <2>1, <2>2, StoredIsCall DEF CallType
<1> HIDE DEF d
<1>2. Doubled(d) \subseteq Doubled(c)
  BY <1>1, AtMostIsOne DEF Doubled, ActivePerRow, ActivePerColumn
<1>3. Mux(d) = Mux(c) /\ NumAddressBit(d) = NumAddressBit(c)
  BY <1>1 DEF Mux, NumAddressBit
<1> QED
  BY <1>1, <1>2, <1>3 DEF IsRegular, d

LEMMA MuxPutBack ==
  ASSUME NEW c \in CallType
  PROVE  WithMux(Stored(c), Mux(c)) = Stored(c)
<1>1. /\ Stored(c) \in CallType /\ Stored(c).muxSenseAmp = c.muxSenseAmp
      /\ Stored(c).muxOutputLev1 = c.muxOutputLev1
      /\ Stored(c).muxOutputLev2 = c.muxOutputLev2
  BY StoredIsCall
<1> QED
  BY <1>1 DEF WithMux, Mux, CallType

LEMMA ArgsStart == Init => ArgsInv
BY CallsAssumption, RegularCallsAssumption DEF Init, ArgsInv, IsRouting, IsLegal

LEMMA ArgsStep == ArgsInv /\ [Next]_vars => ArgsInv'
<1> SUFFICES ASSUME ArgsInv, [Next]_vars PROVE ArgsInv'
  OBVIOUS
<1>1. CASE RejectExternalSense
  BY <1>1 DEF RejectExternalSense, ArgsInv, IsRouting, IsLegal
<1>2. CASE Begin
  BY <1>2 DEF Begin, ArgsInv, IsRouting, IsLegal
<1>3. ASSUME UNCHANGED <<call, bank>>, IsRouting \/ IsLegal
      PROVE  ArgsInv'
  BY <1>3 DEF ArgsInv
<1>4. CASE FirstHorizontal \/ NoHorizontal \/ GiveUp \/ ReduceHorizontal \/ ReduceVertical
             \/ BothHorizontal \/ BothVertical \/ LastColumn \/ RejectWays
  <2>1. UNCHANGED <<call, bank>> /\ IsRouting
    BY <1>4 DEF FirstHorizontal, NoHorizontal, GiveUp, ReduceHorizontal, ReduceVertical,
                BothHorizontal, BothVertical, LastColumn, RejectWays, IsRouting
  <2> QED
    BY <1>3, <2>1
<1>5. CASE InitializeMat
  <2>1. bank = Stored(call) /\ call.internalSenseAmp /\ call' = call /\ call \in CallType
    BY <1>5 DEF InitializeMat, ArgsInv, IsRouting
  <2>2. CASE mat'.invalid
    BY <1>5, <2>1, <2>2 DEF InitializeMat, ArgsInv, IsRouting, IsLegal
  <2>3. CASE ~mat'.invalid
    <3>1. bank' = Stored(call)
      BY <1>5, <2>1, <2>3, MuxPutBack DEF InitializeMat, MuxAfter
    <3> QED
      BY <2>1, <3>1 DEF ArgsInv
  <2> QED
    BY <2>2, <2>3
<1>6. CASE Measure
  BY <1>3, <1>6 DEF Measure, RejectAspectRatio, BeginLengths, LengthVertical, LengthBoth,
                    LengthHorizontal, EndLengths, IsLegal
<1>7. CASE Rebuild
  <2>1. PICK repeated \in BOOLEAN : call' = Rewired(bank, repeated)
    BY <1>7 DEF Rebuild, Rewired
  <2>2. bank = Stored(call) /\ call \in CallType /\ IsRegular(call)
    BY <1>7 DEF Rebuild, ArgsInv, IsLegal
  <2>3. call' \in CallType /\ IsRegular(call')
    BY <2>1, <2>2, StoredIsCall, RewiredIsCall, StoredIsRegular
  <2>4. pc' = "start"
    BY <1>7 DEF Rebuild
  <2> QED
    BY <2>3, <2>4 DEF ArgsInv, IsRouting, IsLegal
<1>8. CASE UNCHANGED vars
  BY <1>8 DEF vars, flags, ArgsInv, IsRouting, IsLegal
<1> QED
  BY <1>1, <1>2, <1>4, <1>5, <1>6, <1>7, <1>8 DEF Next, Route, Finished

-----------------------------------------------------------------------------
(***************************************************************************)
(* The routing of bits, for one call.  X of the columns and Y of the rows  *)
(* of mats are active.  After some splits, x and y of them are still on    *)
(* the way together, with lx and ly levels to go: each split so far has    *)
(* halved the data, or else used an address bit.                           *)
(***************************************************************************)
RoutedBy(first, bits, splits, X, x, lx, Y, y, ly, a, i, b, j) ==
  LET halved == (a - i) + (b - j)
  IN  /\ X = 2 ^ a /\ x = 2 ^ i /\ i <= a /\ i <= lx
      /\ Y = 2 ^ b /\ y = 2 ^ j /\ j <= b /\ j <= ly
      /\ a + b <= MaxLog
      /\ splits - halved \in 0 .. first.address
      /\ bits = [address |-> first.address - (splits - halved),
                 distribute |-> first.distribute \div 2 ^ halved,
                 broadcast |-> first.broadcast]
Routed(first, bits, splits, X, x, lx, Y, y, ly) ==
  \E a, i, b, j \in 0 .. MaxLog :
    RoutedBy(first, bits, splits, X, x, lx, Y, y, ly, a, i, b, j)

SplitBits(bits, toActive) ==
  IF toActive > 1 THEN [bits EXCEPT !.distribute = @ \div 2]
                  ELSE [bits EXCEPT !.address = @ - 1]

LEMMA AboveOne ==
  ASSUME NEW i \in 0 .. MaxLog
  PROVE  /\ 2 ^ i \in Nat
         /\ 2 ^ i > 1 <=> i > 0
         /\ i = 0 => 2 ^ i = 1
         /\ i > 0 => 2 ^ i \div 2 = 2 ^ (i - 1)
<1>1. 2 ^ 0 = 1 /\ 2 ^ 1 = 2
  OBVIOUS
<1>2. CASE i = 0
  BY <1>1, <1>2
<1>3. CASE i > 0
  <2>1. i - 1 \in Nat /\ i - 1 < 30 /\ (i - 1) + 1 = i
    BY <1>3 DEF MaxLog
  <2>2. 2 ^ i = 2 * 2 ^ (i - 1) /\ 2 ^ (i - 1) \in Nat \ {0}
    BY <2>1, TwiceAsMuch, PowerIsPositive DEF MaxPower
  <2> QED
    BY <1>3, <2>2
<1> QED
  BY <1>2, <1>3

\* A split of the columns (or, with the roles exchanged, of the rows).
LEMMA SplitRouted ==
  ASSUME NEW first, first.address \in 0 .. MaxLog, first.distribute \in Nat,
         NEW bits, NEW splits \in Nat, NEW X, NEW x, NEW lx \in Nat \ {0},
         NEW Y, NEW y, NEW ly \in Nat,
         Routed(first, bits, splits, X, x, lx, Y, y, ly), bits.address # 0
  PROVE  Routed(first, SplitBits(bits, x), splits + 1, X, Rest(x), lx - 1, Y, y, ly)
<1>1. PICK a \in 0 .. MaxLog, i \in 0 .. MaxLog, b \in 0 .. MaxLog, j \in 0 .. MaxLog :
         RoutedBy(first, bits, splits, X, x, lx, Y, y, ly, a, i, b, j)
  BY Zenon DEF Routed
<1>2. PICK n : n = (a - i) + (b - j)
  OBVIOUS
<1>3. /\ X = 2 ^ a /\ x = 2 ^ i /\ i <= a /\ i <= lx
      /\ Y = 2 ^ b /\ y = 2 ^ j /\ j <= b /\ j <= ly
      /\ a + b <= 30 /\ MaxLog = 30 /\ n \in 0 .. 30
      /\ splits - n \in 0 .. first.address
      /\ bits = [address |-> first.address - (splits - n),
                 distribute |-> first.distribute \div 2 ^ n,
                 broadcast |-> first.broadcast]
  BY <1>1, <1>2 DEF RoutedBy, MaxLog
<1>4. CASE i > 0
  <2>1. x > 1 /\ Rest(x) = 2 ^ (i - 1)
    BY <1>3, <1>4, AboveOne DEF Rest
  <2>2. (first.distribute \div 2 ^ n) \div 2 = first.distribute \div 2 ^ (n + 1)
    <3>1. n \in Nat /\ n < MaxPower
      BY <1>3 DEF MaxPower
    <3> QED
      BY <3>1, HalfOfQuotient
  <2>3. (a - (i - 1)) + (b - j) = n + 1 /\ (splits + 1) - (n + 1) = splits - n
    BY <1>2, <1>3
  <2>4. SplitBits(bits, x) = [address |-> first.address - (splits - n),
                              distribute |-> first.distribute \div 2 ^ (n + 1),
                              broadcast |-> first.broadcast]
    BY <1>3, <2>1, <2>2 DEF SplitBits
  <2>5. i - 1 \in 0 .. MaxLog /\ i - 1 <= a /\ i - 1 <= lx - 1
    BY <1>3, <1>4
  <2>6. RoutedBy(first, SplitBits(bits, x), splits + 1, X, Rest(x), lx - 1, Y, y, ly,
                 a, i - 1, b, j)
    BY <1>3, <2>1, <2>3, <2>4, <2>5 DEF RoutedBy
  <2> QED
    BY <2>5, <2>6, Zenon DEF Routed
<1>5. CASE i = 0
  <2>1. ~(x > 1) /\ Rest(x) = x
    BY <1>3, <1>5, AboveOne DEF Rest
  <2>2. first.address - (splits - n) # 0 /\ first.address \in Nat
    BY <1>3
  <2>3. /\ (splits + 1) - n \in 0 .. first.address
        /\ first.address - (splits - n) - 1 = first.address - ((splits + 1) - n)
    BY <1>3, <2>2
  <2>4. SplitBits(bits, x) = [address |-> first.address - ((splits + 1) - n),
                              distribute |-> first.distribute \div 2 ^ n,
                              broadcast |-> first.broadcast]
    BY <1>3, <2>1, <2>3 DEF SplitBits
  <2>5. i <= lx - 1
    BY <1>5
  <2>6. RoutedBy(first, SplitBits(bits, x), splits + 1, X, Rest(x), lx - 1, Y, y, ly,
                 a, i, b, j)
    BY <1>2, <1>3, <2>1, <2>3, <2>4, <2>5 DEF RoutedBy
  <2> QED
    BY <2>6, Zenon DEF Routed
<1> QED
  BY <1>4, <1>5

\* Columns and rows play the same part.
LEMMA RoutedIsSymmetric ==
  ASSUME NEW first, NEW bits, NEW splits, NEW X, NEW x, NEW lx, NEW Y, NEW y, NEW ly,
         Routed(first, bits, splits, X, x, lx, Y, y, ly)
  PROVE  Routed(first, bits, splits, Y, y, ly, X, x, lx)
<1>1. PICK a \in 0 .. MaxLog, i \in 0 .. MaxLog, b \in 0 .. MaxLog, j \in 0 .. MaxLog :
         RoutedBy(first, bits, splits, X, x, lx, Y, y, ly, a, i, b, j)
  BY Zenon DEF Routed
<1>2. (a - i) + (b - j) = (b - j) + (a - i) /\ a + b = b + a
  OBVIOUS
<1>3. RoutedBy(first, bits, splits, Y, y, ly, X, x, lx, b, j, a, i)
  BY <1>1, <1>2, Zenon DEF RoutedBy
<1> QED
  BY <1>3, Zenon DEF Routed

\* When there is no level left, the address bits used choose among the mats
\* that are not active together, and each active one has its share of the data.
LEMMA RoutedAtEnd ==
  ASSUME NEW first, first.address \in 0 .. MaxLog, first.distribute \in Nat,
         NEW bits, NEW splits \in 0 .. MaxLog, NEW X, NEW x, NEW Y, NEW y,
         Routed(first, bits, splits, X, x, 0, Y, y, 0)
  PROVE  /\ x = 1 /\ y = 1
         /\ bits.distribute = first.distribute \div (X * Y)
         /\ bits.broadcast = first.broadcast
         /\ 2 ^ (first.address - bits.address) * (X * Y) = 2 ^ splits
<1>1. PICK a \in 0 .. MaxLog, i \in 0 .. MaxLog, b \in 0 .. MaxLog, j \in 0 .. MaxLog :
         RoutedBy(first, bits, splits, X, x, 0, Y, y, 0, a, i, b, j)
  BY Zenon DEF Routed
<1>2. i = 0 /\ j = 0
  BY <1>1 DEF RoutedBy
<1>3. PICK n : n = a + b
  OBVIOUS
<1>4. /\ n \in 0 .. MaxLog /\ (a - i) + (b - j) = n /\ MaxLog = 30
      /\ splits - n \in 0 .. first.address
      /\ X = 2 ^ a /\ Y = 2 ^ b /\ x = 2 ^ 0 /\ y = 2 ^ 0
      /\ bits = [address |-> first.address - (splits - n),
                 distribute |-> first.distribute \div 2 ^ n,
                 broadcast |-> first.broadcast]
  <2>1. (a - i) + (b - j) = n
    BY <1>2, <1>3
  <2> QED
    BY <1>1, <1>2, <1>3, <2>1 DEF RoutedBy, MaxLog
<1>5. X * Y = 2 ^ n
  <2>1. a \in Nat /\ b \in Nat /\ a + b <= MaxPower
    BY <1>1, <1>3, <1>4 DEF MaxLog, MaxPower
  <2> QED
    BY <1>3, <1>4, <2>1, PowersMultiply
<1>6. first.address - bits.address = splits - n
  BY <1>4
<1>7. 2 ^ (splits - n) * 2 ^ n = 2 ^ splits
  <2>1. /\ splits - n \in Nat /\ n \in Nat /\ (splits - n) + n = splits
        /\ splits <= MaxPower
    BY <1>4 DEF MaxPower
  <2> QED
    BY <2>1, PowersMultiply
<1> QED
  BY <1>4, <1>5, <1>6, <1>7

\* A wire bundle is balanced when its copies that are not active together are
\* chosen by the address bits used so far.
Balanced(sum, active, used) == active \in Nat /\ sum = active * 2 ^ used

LEMMA RoutedBits ==
  ASSUME NEW first, first.address \in 0 .. MaxLog,
         NEW bits, NEW splits \in Nat, NEW X, NEW x, NEW lx, NEW Y, NEW y, NEW ly,
         Routed(first, bits, splits, X, x, lx, Y, y, ly), NEW z
  PROVE  /\ bits.address \in 0 .. first.address
         /\ splits = 0 => bits.address = first.address
         /\ SplitBits(bits, z).address = IF z > 1 THEN bits.address ELSE bits.address - 1
<1>1. PICK a \in 0 .. MaxLog, i \in 0 .. MaxLog, b \in 0 .. MaxLog, j \in 0 .. MaxLog :
         RoutedBy(first, bits, splits, X, x, lx, Y, y, ly, a, i, b, j)
  BY Zenon DEF Routed
<1>2. PICK n : n = (a - i) + (b - j)
  OBVIOUS
<1>3. /\ n \in Nat /\ splits - n \in 0 .. first.address /\ first.address \in Nat
      /\ bits = [address |-> first.address - (splits - n),
                 distribute |-> first.distribute \div 2 ^ n,
                 broadcast |-> first.broadcast]
  BY <1>1, <1>2 DEF RoutedBy, MaxLog
<1> QED
  BY <1>3 DEF SplitBits

LEMMA SplitBalanced ==
  ASSUME NEW first \in 0 .. MaxLog, NEW address \in 1 .. first,
         NEW sum, NEW active, Balanced(sum, active, first - address), NEW x
  PROVE  Balanced(2 * sum, (IF x > 1 THEN 2 ELSE 1) * active,
                  first - (IF x > 1 THEN address ELSE address - 1))
<1>1. PICK used : used = first - address
  OBVIOUS
<1>2. used \in 0 .. MaxLog /\ first - (address - 1) = used + 1
  BY <1>1 DEF MaxLog
<1>3. 2 ^ (used + 1) = 2 * 2 ^ used /\ 2 ^ used \in Nat
  BY <1>2, TwiceAsMuch, PowerIsPositive DEF MaxPower, MaxLog
<1>4. active \in Nat /\ sum = active * 2 ^ used
  BY <1>1 DEF Balanced
<1>5. PICK p : p = 2 ^ used
  OBVIOUS
<1>6. p \in Nat /\ sum = active * p
  BY <1>3, <1>4, <1>5
<1>7. 2 * (active * p) = (2 * active) * p /\ 2 * (active * p) = (1 * active) * (2 * p)
  BY <1>4, <1>6
<1>8. CASE x > 1
  BY <1>1, <1>4, <1>5, <1>6, <1>7, <1>8 DEF Balanced
<1>9. CASE ~(x > 1)
  BY <1>2, <1>3, <1>4, <1>5, <1>6, <1>7, <1>9 DEF Balanced
<1> QED
  BY <1>8, <1>9

-----------------------------------------------------------------------------
(***************************************************************************)
(* The routing of the bits of a call.                                      *)
(***************************************************************************)
LevelsAcross(c) == Log2(c.numColumnMat, 1)
LevelsDown(c) == Log2(c.numRowMat, 1)
ActiveColumns(c) == AtMost(c.numActiveMatPerRow, c.numColumnMat)
ActiveRows(c) == AtMost(c.numActiveMatPerColumn, c.numRowMat)

RoutedFor(c, bits, column, row, across, down) ==
  Routed(FirstRoute(c), bits, across + down,
         ActiveColumns(c), column, LevelsAcross(c) - across,
         ActiveRows(c), row, LevelsDown(c) - down)

LEMMA ActivePower ==
  ASSUME NEW n, NEW most, IsPow2(n), IsPow2(most)
  PROVE  \E a, p \in 0 .. MaxLog :
           AtMost(n, most) = 2 ^ a /\ most = 2 ^ p /\ a <= p
<1>1. PICK k \in 0 .. MaxLog : n = 2 ^ k
  BY PowerOfTwo
<1>2. PICK p \in 0 .. MaxLog : most = 2 ^ p
  BY PowerOfTwo
<1>3. CASE n > most
  BY <1>2, <1>3 DEF AtMost
<1>4. CASE ~(n > most)
  <2>1. 2 ^ k \in Nat /\ 2 ^ p \in Nat
    BY PowerIsPositive DEF MaxPower, MaxLog
  <2>2. 2 ^ k <= 2 ^ p
    BY <1>1, <1>2, <1>4, <2>1
  <2>3. k <= p
    BY <2>2, PowersInOrder
  <2> QED
    BY <1>1, <1>2, <1>4, <2>3 DEF AtMost
<1> QED
  BY <1>3, <1>4

\* The levels and the active mats of a regular call.
LEMMA CallLevels ==
  ASSUME NEW c, IsRegular(c)
  PROVE  /\ LevelsAcross(c) \in 0 .. MaxLog /\ LevelsDown(c) \in 0 .. MaxLog
         /\ LevelsAcross(c) + LevelsDown(c) <= MaxLog
         /\ c.numColumnMat = 2 ^ LevelsAcross(c) /\ c.numRowMat = 2 ^ LevelsDown(c)
         /\ \E a, b \in 0 .. MaxLog : /\ a <= LevelsAcross(c) /\ b <= LevelsDown(c)
                                    /\ ActiveColumns(c) = 2 ^ a /\ ActiveRows(c) = 2 ^ b
<1>1. /\ IsPow2(c.numColumnMat) /\ IsPow2(c.numRowMat)
      /\ IsPow2(c.numActiveMatPerRow) /\ IsPow2(c.numActiveMatPerColumn)
      /\ c.numRowMat * c.numColumnMat <= 2 ^ MaxLog
  BY DEF IsRegular, Doubled
<1>2. PICK a \in 0 .. MaxLog, p \in 0 .. MaxLog :
         ActiveColumns(c) = 2 ^ a /\ c.numColumnMat = 2 ^ p /\ a <= p
  BY <1>1, ActivePower DEF ActiveColumns
<1>3. PICK b \in 0 .. MaxLog, q \in 0 .. MaxLog :
         ActiveRows(c) = 2 ^ b /\ c.numRowMat = 2 ^ q /\ b <= q
  BY <1>1, ActivePower DEF ActiveRows
<1>4. LevelsAcross(c) = p /\ LevelsDown(c) = q
  BY <1>2, <1>3, LogOfPower DEF LevelsAcross, LevelsDown
<1>5. q + p <= MaxLog
  BY <1>1, <1>2, <1>3, BoundedProduct
<1>6. p + q <= MaxLog
  BY <1>5 DEF MaxLog
<1>7. \E k, l \in 0 .. MaxLog : /\ k <= LevelsAcross(c) /\ l <= LevelsDown(c)
                              /\ ActiveColumns(c) = 2 ^ k /\ ActiveRows(c) = 2 ^ l
  BY <1>2, <1>3, <1>4, Zenon
<1> QED
  BY <1>2, <1>3, <1>4, <1>6, <1>7, Zenon

LEMMA CallBits ==
  ASSUME NEW c \in CallType, IsRegular(c)
  PROVE  FirstRoute(c).address \in 0 .. MaxLog /\ FirstRoute(c).distribute \in Nat
<1>1. NumAddressBit(c) \in 0 .. MaxLog
  BY DEF IsRegular
<1>2. c.blockSize \in Nat /\ c.associativity \in Nat
  BY DEF CallType
<1> QED
  BY <1>1, <1>2 DEF FirstRoute

LEMMA RoutedFirst ==
  ASSUME NEW c \in CallType, IsRegular(c)
  PROVE  RoutedFor(c, FirstRoute(c), ActiveColumns(c), ActiveRows(c), 0, 0)
<1>1. PICK a \in 0 .. MaxLog, b \in 0 .. MaxLog :
         /\ a <= LevelsAcross(c) /\ b <= LevelsDown(c)
         /\ ActiveColumns(c) = 2 ^ a /\ ActiveRows(c) = 2 ^ b
  BY CallLevels
<1>2. /\ LevelsAcross(c) \in Nat /\ LevelsDown(c) \in Nat /\ MaxLog = 30
      /\ LevelsAcross(c) + LevelsDown(c) <= MaxLog
  BY CallLevels DEF MaxLog
<1>3. (a - a) + (b - b) = 0 /\ 0 + 0 = 0 /\ 0 - 0 = 0 /\ a + b <= MaxLog
  BY <1>1, <1>2
<1>4. PICK f : f = FirstRoute(c)
  OBVIOUS
<1>5. f.address \in 0 .. 30 /\ f.distribute \in Nat
  BY <1>2, <1>4, CallBits
<1>6. f = [address |-> f.address - 0, distribute |-> f.distribute \div 2 ^ 0,
           broadcast |-> f.broadcast]
  <2>1. f.address - 0 = f.address /\ f.distribute \div 2 ^ 0 = f.distribute
    BY <1>5
  <2>2. f = [address |-> f.address, distribute |-> f.distribute, broadcast |-> f.broadcast]
    BY <1>4 DEF FirstRoute
  <2> QED
    BY <2>1, <2>2
<1>7. RoutedBy(f, f, 0 + 0, ActiveColumns(c), ActiveColumns(c), LevelsAcross(c) - 0,
               ActiveRows(c), ActiveRows(c), LevelsDown(c) - 0, a, a, b, b)
  <2>1. LevelsAcross(c) - 0 = LevelsAcross(c) /\ LevelsDown(c) - 0 = LevelsDown(c)
    BY <1>2
  <2>2. PICK n : n = (a - a) + (b - b)
    OBVIOUS
  <2>3. n = 0 /\ (0 + 0) - n = 0 /\ 0 \in 0 .. f.address
    BY <1>3, <1>5, <2>2
  <2>4. f = [address |-> f.address - ((0 + 0) - n), distribute |-> f.distribute \div 2 ^ n,
             broadcast |-> f.broadcast]
    BY <1>6, <2>3
  <2>5. a <= a /\ b <= b
    OBVIOUS
  <2> QED
    BY <1>1, <1>3, <2>1, <2>2, <2>3, <2>4, <2>5, Zenon DEF RoutedBy
<1> QED
  BY <1>4, <1>7, Zenon DEF RoutedFor, Routed

\* A split of the columns, or of the rows, on the way to a new level.
LEMMA SplitColumn ==
  ASSUME NEW c \in CallType, IsRegular(c), NEW bits, NEW column, NEW row,
         NEW across \in Nat, NEW down \in Nat, across < LevelsAcross(c), down <= LevelsDown(c),
         RoutedFor(c, bits, column, row, across, down), bits.address # 0
  PROVE  RoutedFor(c, SplitBits(bits, column), Rest(column), row, across + 1, down)
<1>1. /\ LevelsAcross(c) \in Nat /\ LevelsDown(c) \in Nat
      /\ FirstRoute(c).address \in 0 .. MaxLog /\ FirstRoute(c).distribute \in Nat
  BY CallLevels, CallBits
<1>2. PICK lx, ly : lx = LevelsAcross(c) - across /\ ly = LevelsDown(c) - down
  OBVIOUS
<1>3. lx \in Nat \ {0} /\ ly \in Nat /\ across + down \in Nat
  BY <1>1, <1>2
<1>4. Routed(FirstRoute(c), bits, across + down, ActiveColumns(c), column, lx,
             ActiveRows(c), row, ly)
  BY <1>2 DEF RoutedFor
<1>5. Routed(FirstRoute(c), SplitBits(bits, column), (across + down) + 1,
             ActiveColumns(c), Rest(column), lx - 1, ActiveRows(c), row, ly)
  BY <1>1, <1>3, <1>4, SplitRouted
<1>6. (across + down) + 1 = (across + 1) + down /\ lx - 1 = LevelsAcross(c) - (across + 1)
  BY <1>1, <1>2
<1> QED
  BY <1>2, <1>5, <1>6 DEF RoutedFor

LEMMA SplitRow ==
  ASSUME NEW c \in CallType, IsRegular(c), NEW bits, NEW column, NEW row,
         NEW across \in Nat, NEW down \in Nat, across <= LevelsAcross(c), down < LevelsDown(c),
         RoutedFor(c, bits, column, row, across, down), bits.address # 0
  PROVE  RoutedFor(c, SplitBits(bits, row), column, Rest(row), across, down + 1)
<1>1. /\ LevelsAcross(c) \in Nat /\ LevelsDown(c) \in Nat
      /\ FirstRoute(c).address \in 0 .. MaxLog /\ FirstRoute(c).distribute \in Nat
  BY CallLevels, CallBits
<1>2. PICK lx, ly : lx = LevelsAcross(c) - across /\ ly = LevelsDown(c) - down
  OBVIOUS
<1>3. lx \in Nat /\ ly \in Nat \ {0} /\ across + down \in Nat
  BY <1>1, <1>2
<1>4. Routed(FirstRoute(c), bits, across + down, ActiveRows(c), row, ly,
             ActiveColumns(c), column, lx)
  BY <1>2, RoutedIsSymmetric DEF RoutedFor
<1>5. Routed(FirstRoute(c), SplitBits(bits, row), (across + down) + 1,
             ActiveRows(c), Rest(row), ly - 1, ActiveColumns(c), column, lx)
  BY <1>1, <1>3, <1>4, SplitRouted
<1>6. (across + down) + 1 = across + (down + 1) /\ ly - 1 = LevelsDown(c) - (down + 1)
  BY <1>1, <1>2
<1> QED
  BY <1>2, <1>5, <1>6, RoutedIsSymmetric DEF RoutedFor

\* The new level is as balanced as the one that feeds it.
LEMMA LevelBalanced ==
  ASSUME NEW c \in CallType, IsRegular(c), NEW bits, NEW column, NEW row,
         NEW across \in Nat, NEW down \in Nat,
         RoutedFor(c, bits, column, row, across, down), bits.address # 0,
         NEW sum, NEW active,
         Balanced(sum, active, FirstRoute(c).address - bits.address), NEW x
  PROVE  Balanced(2 * sum, (IF x > 1 THEN 2 ELSE 1) * active,
                  FirstRoute(c).address - SplitBits(bits, x).address)
<1>1. PICK f : f = FirstRoute(c)
  OBVIOUS
<1>2. f.address \in 0 .. MaxLog /\ across + down \in Nat
  BY <1>1, CallBits
<1>3. /\ bits.address \in 0 .. f.address
      /\ SplitBits(bits, x).address = IF x > 1 THEN bits.address ELSE bits.address - 1
  BY <1>1, <1>2, RoutedBits DEF RoutedFor
<1>4. bits.address \in 1 .. f.address
  BY <1>2, <1>3
<1> QED
  BY <1>1, <1>2, <1>3, <1>4, SplitBalanced

CellBalanced(c, cell) ==
  IsWritten(cell) =>
    cell.sum = cell.active * 2 ^ (FirstRoute(c).address - cell.bits.address)
AllBalanced(c, array) == \A i \in DOMAIN array : CellBalanced(c, array[i])

LEMMA WriteBalanced ==
  ASSUME NEW c, NEW array, AllBalanced(c, array), NEW k, NEW cell, CellBalanced(c, cell)
  PROVE  AllBalanced(c, [array EXCEPT ![k] = cell])
BY DEF AllBalanced

LEMMA NewIsBalanced ==
  ASSUME NEW c, NEW n PROVE AllBalanced(c, NewArray(n, Unwritten))
BY DEF AllBalanced, CellBalanced, NewArray, IsWritten, Unwritten

-----------------------------------------------------------------------------
(***************************************************************************)
(* The invariant: every level is balanced, what is left to route fits the  *)
(* splits done, and the level that feeds the next one has the address bits *)
(* that are left.                                                          *)
(***************************************************************************)
SplitsAcross == IF levelHorizontal > 0 THEN levelHorizontal - 1 - h ELSE 0
RoutedTo(across, down) ==
  RoutedFor(call, route, columnToActive, rowToActive, across, down)
Feeds(cell) ==
  Balanced(cell.sum, cell.active, FirstRoute(call).address - route.address)

\* The level that feeds the next one: the last one written.
Parent ==
  IF v < levelVertical THEN At(vertical, levelVertical - v - 1)
  ELSE IF levelHorizontal > 0 THEN At(horizontal, levelHorizontal - h - 1)
  ELSE Root

\* One direction begins when the other has as many levels left.
InTurn ==
  /\ h > v => v = levelVertical
  /\ v > h => levelHorizontal = 0 \/ h = levelHorizontal - 1

LoadsAtFirst ==
  pc = "first" => /\ route = FirstRoute(call)
                  /\ columnToActive = ActiveColumns(call) /\ rowToActive = ActiveRows(call)
LoadsAtRoute ==
  pc = "route" => InTurn /\ RoutedTo(SplitsAcross, levelVertical - v) /\ Feeds(Parent)
LoadsAtHalf ==
  pc = "half" => /\ RoutedTo(levelHorizontal - h, levelVertical - v)
                 /\ Feeds(At(horizontal, levelHorizontal - h))
LoadsAtWays == pc = "ways" => RoutedTo(levelHorizontal, levelVertical)

LoadsInv ==
  /\ AllBalanced(call, horizontal) /\ AllBalanced(call, vertical)
  /\ LoadsAtFirst /\ LoadsAtRoute /\ LoadsAtHalf /\ LoadsAtWays

LEMMA LoadsStart == Init => LoadsInv
BY NewIsBalanced DEF Init, LoadsInv, LoadsAtFirst, LoadsAtRoute, LoadsAtHalf, LoadsAtWays

\* Before the first split the wire is the only one.
LEMMA RootFeeds ==
  ASSUME NEW first \in Nat
  PROVE  Balanced(1, 1, first - first)
<1>1. first - first = 0 /\ 1 = 1 * 2 ^ 0
  OBVIOUS
<1> QED
  BY <1>1 DEF Balanced

LEMMA BeginLoads == ArgsInv /\ Begin => LoadsInv'
<1> SUFFICES ASSUME ArgsInv, Begin PROVE LoadsInv'
  OBVIOUS
<1>1. /\ call' = call /\ pc' = "first" /\ route' = FirstRoute(call)
      /\ rowToActive' = Stored(call).numActiveMatPerColumn
      /\ columnToActive' = Stored(call).numActiveMatPerRow
      /\ horizontal' = NewArray(levelHorizontal, Unwritten)
      /\ vertical' = NewArray(levelVertical, Unwritten)
  BY DEF Begin
<1>2. rowToActive' = ActiveRows(call) /\ columnToActive' = ActiveColumns(call)
  BY <1>1, StoredIsCall DEF ActiveRows, ActiveColumns, ArgsInv
<1>3. AllBalanced(call, horizontal') /\ AllBalanced(call, vertical')
  BY <1>1, NewIsBalanced
<1> QED
  BY <1>1, <1>2, <1>3
     DEF LoadsInv, LoadsAtFirst, LoadsAtRoute, LoadsAtHalf, LoadsAtWays

LEMMA FirstLoads ==
  ArgsInv /\ LevelsInv /\ LoadsInv /\ (FirstHorizontal \/ NoHorizontal) => LoadsInv'
<1> SUFFICES ASSUME ArgsInv, LevelsInv, LoadsInv, FirstHorizontal \/ NoHorizontal
             PROVE  LoadsInv'
  OBVIOUS
<1>1. /\ levelHorizontal \in Nat /\ levelVertical \in Nat
      /\ h = levelHorizontal /\ v = levelVertical
      /\ route = FirstRoute(call)
      /\ columnToActive = ActiveColumns(call) /\ rowToActive = ActiveRows(call)
      /\ call \in CallType /\ IsRegular(call)
      /\ AllBalanced(call, horizontal) /\ AllBalanced(call, vertical)
  BY DEF LevelsInv, Shape, AtFirst, LoadsInv, LoadsAtFirst, ArgsInv, FirstHorizontal,
         NoHorizontal
<1>2. /\ UNCHANGED <<call, v, route, columnToActive, rowToActive, vertical>>
      /\ pc' = "route"
  BY DEF FirstHorizontal, NoHorizontal, loop, tree
<1>3. levelHorizontal' = levelHorizontal /\ levelVertical' = levelVertical
  BY <1>2 DEF levelHorizontal, levelVertical
<1>4. Balanced(1, 1, FirstRoute(call).address - route.address)
  BY <1>1, CallBits, RootFeeds DEF MaxLog
<1>5. RoutedFor(call, route, columnToActive, rowToActive, 0, 0)
  BY <1>1, RoutedFirst
<1>6. levelVertical - v = 0 /\ ~(v < levelVertical) /\ v' = v
  BY <1>1, <1>2
<1>7. CASE FirstHorizontal
  <2> DEFINE root == [bits |-> route, wire |-> 1, sum |-> 1, active |-> 1]
  <2>1. /\ horizontal' = [horizontal EXCEPT ![0] = root] /\ h' = h - 1 /\ h > 0
    BY <1>7 DEF FirstHorizontal
  <2>2. CellBalanced(call, root)
    BY <1>4 DEF CellBalanced, Balanced
  <2>3. AllBalanced(call, horizontal')
    BY <1>1, <2>1, <2>2, WriteBalanced
  <2>4. 0 \in DOMAIN horizontal
    <3>1. horizontal = [i \in 0 .. levelHorizontal - 1 |-> horizontal[i]]
      BY <1>1, <1>7 DEF FirstHorizontal, LevelsInv, AtFirst, Written, FirstWritten
    <3> QED
      BY <1>1, <2>1, <3>1
  <2>5. horizontal'[0] = root /\ 0 \in DOMAIN horizontal'
    BY <2>1, <2>4
  <2>6. SplitsAcross' = 0 /\ levelHorizontal - h' - 1 = 0 /\ levelHorizontal > 0
    BY <1>1, <1>3, <2>1 DEF SplitsAcross
  <2>7. Parent' = root
    <3>1. Parent' = At(horizontal', levelHorizontal - h' - 1)
      BY <1>3, <1>6, <2>6 DEF Parent
    <3> QED
      BY <2>5, <2>6, <3>1 DEF At
  <2>8. InTurn'
    BY <1>1, <1>2, <1>3, <2>1 DEF InTurn
  <2>9. Feeds(Parent)'
    BY <1>2, <1>4, <2>7 DEF Feeds
  <2>10. RoutedTo(SplitsAcross, levelVertical - v)'
    BY <1>2, <1>3, <1>5, <1>6, <2>6 DEF RoutedTo
  <2> QED
    BY <1>1, <1>2, <2>3, <2>8, <2>9, <2>10
       DEF LoadsInv, LoadsAtFirst, LoadsAtRoute, LoadsAtHalf, LoadsAtWays
<1>8. CASE NoHorizontal
  <2>1. horizontal' = horizontal /\ h' = h /\ levelHorizontal = 0
    BY <1>1, <1>8 DEF NoHorizontal, loop, tree
  <2>2. SplitsAcross' = 0
    BY <1>3, <2>1 DEF SplitsAcross
  <2>3. Parent' = Root
    BY <1>3, <1>6, <2>1 DEF Parent
  <2>4. InTurn'
    BY <1>1, <1>2, <1>3, <2>1 DEF InTurn
  <2>5. Feeds(Parent)'
    BY <1>2, <1>4, <2>3 DEF Feeds, Root
  <2>6. RoutedTo(SplitsAcross, levelVertical - v)'
    BY <1>2, <1>3, <1>5, <1>6, <2>2 DEF RoutedTo
  <2> QED
    BY <1>1, <1>2, <2>1, <2>4, <2>5, <2>6
       DEF LoadsInv, LoadsAtFirst, LoadsAtRoute, LoadsAtHalf, LoadsAtWays
<1> QED
  BY <1>7, <1>8

LEMMA ReduceHorizontalLoads ==
  ArgsInv /\ LevelsInv /\ LoadsInv /\ ReduceHorizontal => LoadsInv'
<1> SUFFICES ASSUME ArgsInv, LevelsInv, LoadsInv, ReduceHorizontal PROVE LoadsInv'
  OBVIOUS
<1>1. /\ levelHorizontal \in Nat /\ levelVertical \in Nat
      /\ h \in 0 .. levelHorizontal - 1 /\ v = levelVertical /\ h > v
      /\ RoutedTo(SplitsAcross, levelVertical - v) /\ Feeds(Parent)
      /\ call \in CallType /\ IsRegular(call)
      /\ AllBalanced(call, horizontal) /\ AllBalanced(call, vertical)
      /\ route.address # 0
  BY DEF LevelsInv, Shape, AtRoute, LoadsInv, LoadsAtRoute, InTurn, ArgsInv, ReduceHorizontal,
         Exhausted
<1>2. PICK across : across = levelHorizontal - 1 - h
  OBVIOUS
<1>3. PICK parent : parent = At(horizontal, levelHorizontal - h - 1)
  OBVIOUS
<1>4. PICK cell : cell = Level(parent, columnToActive, 1)
  OBVIOUS
<1>5. /\ UNCHANGED <<call, v, rowToActive, vertical>> /\ pc' = "route"
      /\ route' = SplitBits(route, columnToActive) /\ columnToActive' = Rest(columnToActive)
      /\ horizontal' = [horizontal EXCEPT ![levelHorizontal - h] = cell] /\ h' = h - 1
  BY <1>3, <1>4 DEF ReduceHorizontal, Split, SplitBits
<1>6. levelHorizontal' = levelHorizontal /\ levelVertical' = levelVertical
  BY <1>5 DEF levelHorizontal, levelVertical
<1>7. /\ across \in Nat /\ across < levelHorizontal /\ levelVertical - v = 0
      /\ SplitsAcross = across /\ SplitsAcross' = across + 1 /\ levelHorizontal > 0
      /\ Parent = parent
  BY <1>1, <1>2, <1>3, <1>5, <1>6 DEF SplitsAcross, Parent
<1>8. /\ RoutedFor(call, route, columnToActive, rowToActive, across, 0)
      /\ LevelsAcross(call) = levelHorizontal /\ LevelsDown(call) = levelVertical
  BY <1>1, <1>7 DEF RoutedTo, LevelsAcross, LevelsDown, levelHorizontal, levelVertical
<1>9. RoutedFor(call, route', columnToActive', rowToActive, across + 1, 0)
  BY <1>1, <1>5, <1>7, <1>8, SplitColumn
<1>10. /\ Balanced(cell.sum, cell.active, FirstRoute(call).address - route'.address)
       /\ cell.bits = route'
  <2>1. Balanced(parent.sum, parent.active, FirstRoute(call).address - route.address)
    BY <1>1, <1>7 DEF Feeds
  <2>2. Balanced(2 * parent.sum, (IF columnToActive > 1 THEN 2 ELSE 1) * parent.active,
                 FirstRoute(call).address - SplitBits(route, columnToActive).address)
    <3>1. 0 \in Nat
      OBVIOUS
    <3> QED
      BY <1>1, <1>7, <1>8, <2>1, <3>1, LevelBalanced, Zenon
  <2> QED
    BY <1>4, <1>5, <2>2 DEF Level
<1>11. CellBalanced(call, cell)
  BY <1>10 DEF CellBalanced, Balanced
<1>12. AllBalanced(call, horizontal')
  BY <1>1, <1>5, <1>11, WriteBalanced
<1>13. Parent' = cell
  <2>1. levelHorizontal - h \in DOMAIN horizontal
    <3>1. horizontal = [i \in 0 .. levelHorizontal - 1 |-> horizontal[i]]
      BY DEF ReduceHorizontal, LevelsInv, AtRoute, Written, FirstWritten
    <3> QED
      BY <1>1, <3>1
  <2>2. At(horizontal', levelHorizontal - h) = cell
    BY <1>5, <2>1 DEF At
  <2>3. Parent' = At(horizontal', levelHorizontal - h' - 1)
    BY <1>1, <1>5, <1>6, <1>7 DEF Parent
  <2> QED
    BY <1>1, <1>5, <2>2, <2>3
<1>14. InTurn'
  BY <1>1, <1>5, <1>6 DEF InTurn
<1>15. Feeds(Parent)'
  BY <1>5, <1>10, <1>13 DEF Feeds
<1>16. RoutedTo(SplitsAcross, levelVertical - v)'
  BY <1>5, <1>6, <1>7, <1>9 DEF RoutedTo
<1> QED
  BY <1>1, <1>5, <1>12, <1>14, <1>15, <1>16
     DEF LoadsInv, LoadsAtFirst, LoadsAtRoute, LoadsAtHalf, LoadsAtWays

LEMMA ReduceVerticalLoads ==
  ArgsInv /\ LevelsInv /\ LoadsInv /\ ReduceVertical => LoadsInv'
<1> SUFFICES ASSUME ArgsInv, LevelsInv, LoadsInv, ReduceVertical PROVE LoadsInv'
  OBVIOUS
<1>1. /\ levelHorizontal \in Nat /\ levelVertical \in Nat
      /\ h \in 0 .. levelHorizontal /\ v \in 1 .. levelVertical /\ v > h
      /\ levelHorizontal > 0 => h < levelHorizontal
      /\ InTurn /\ RoutedTo(SplitsAcross, levelVertical - v) /\ Feeds(Parent)
      /\ call \in CallType /\ IsRegular(call)
      /\ AllBalanced(call, horizontal) /\ AllBalanced(call, vertical)
      /\ route.address # 0
  BY DEF LevelsInv, Shape, AtRoute, LoadsInv, LoadsAtRoute, ArgsInv, ReduceVertical, Exhausted
<1>2. PICK across : across = SplitsAcross
  OBVIOUS
<1>3. PICK down : down = levelVertical - v
  OBVIOUS
<1>4. PICK parent : parent = IF v = levelVertical THEN Root
                             ELSE At(vertical, levelVertical - v - 1)
  OBVIOUS
<1>5. PICK cell : cell = Level(parent, rowToActive, 1)
  OBVIOUS
<1>6. /\ UNCHANGED <<call, h, columnToActive, horizontal>> /\ pc' = "route"
      /\ route' = SplitBits(route, rowToActive) /\ rowToActive' = Rest(rowToActive)
      /\ vertical' = [vertical EXCEPT ![levelVertical - v] = cell] /\ v' = v - 1
  BY <1>4, <1>5 DEF ReduceVertical, Split, SplitBits
<1>7. levelHorizontal' = levelHorizontal /\ levelVertical' = levelVertical
  BY <1>6 DEF levelHorizontal, levelVertical
<1>8. /\ across = 0 /\ down \in Nat /\ down < levelVertical /\ levelVertical' - v' = down + 1
      /\ SplitsAcross' = across
  BY <1>1, <1>2, <1>3, <1>6, <1>7 DEF SplitsAcross, InTurn
<1>9. /\ RoutedFor(call, route, columnToActive, rowToActive, across, down)
      /\ LevelsAcross(call) = levelHorizontal /\ LevelsDown(call) = levelVertical
  BY <1>1, <1>2, <1>3 DEF RoutedTo, LevelsAcross, LevelsDown, levelHorizontal, levelVertical
<1>10. RoutedFor(call, route', columnToActive, rowToActive', across, down + 1)
  <2>1. across \in Nat /\ across <= levelHorizontal
    BY <1>1, <1>8
  <2> QED
    BY <1>1, <1>6, <1>8, <1>9, <2>1, SplitRow
<1>11. Balanced(parent.sum, parent.active, FirstRoute(call).address - route.address)
  <2>1. CASE v = levelVertical
    <3>1. across + down = 0 /\ across + down \in Nat
      BY <1>1, <1>3, <1>8, <2>1
    <3>2. route.address = FirstRoute(call).address
      BY <1>1, <1>9, <3>1, CallBits, RoutedBits DEF RoutedFor
    <3>3. FirstRoute(call).address \in Nat
      BY <1>1, CallBits DEF MaxLog
    <3> QED
      BY <1>4, <2>1, <3>2, <3>3, RootFeeds DEF Root
  <2>2. CASE v # levelVertical
    <3>1. Parent = parent
      BY <1>1, <1>4, <2>2 DEF Parent
    <3> QED
      BY <1>1, <3>1 DEF Feeds
  <2> QED
    BY <2>1, <2>2
<1>12. /\ Balanced(cell.sum, cell.active, FirstRoute(call).address - route'.address)
       /\ cell.bits = route'
  <2>1. across \in Nat
    BY <1>8
  <2>2. Balanced(2 * parent.sum, (IF rowToActive > 1 THEN 2 ELSE 1) * parent.active,
                 FirstRoute(call).address - SplitBits(route, rowToActive).address)
    BY <1>1, <1>8, <1>9, <1>11, <2>1, LevelBalanced, Zenon
  <2> QED
    BY <1>5, <1>6, <2>2 DEF Level
<1>13. CellBalanced(call, cell)
  BY <1>12 DEF CellBalanced, Balanced
<1>14. AllBalanced(call, vertical')
  BY <1>1, <1>6, <1>13, WriteBalanced
<1>15. Parent' = cell
  <2>1. levelVertical - v \in DOMAIN vertical
    <3>1. vertical = [i \in 0 .. levelVertical - 1 |-> vertical[i]]
      BY DEF ReduceVertical, LevelsInv, AtRoute, Written, FirstWritten
    <3> QED
      BY <1>1, <3>1
  <2>2. At(vertical', levelVertical - v) = cell
    BY <1>6, <2>1 DEF At
  <2>3. Parent' = At(vertical', levelVertical - v' - 1)
    BY <1>1, <1>6, <1>7 DEF Parent
  <2> QED
    BY <1>1, <1>6, <2>2, <2>3
<1>16. InTurn'
  BY <1>1, <1>6, <1>7 DEF InTurn
<1>17. Feeds(Parent)'
  BY <1>6, <1>12, <1>15 DEF Feeds
<1>18. RoutedTo(SplitsAcross, levelVertical - v)'
  BY <1>6, <1>8, <1>10, Zenon DEF RoutedTo
<1> QED
  BY <1>1, <1>6, <1>14, <1>16, <1>17, <1>18
     DEF LoadsInv, LoadsAtFirst, LoadsAtRoute, LoadsAtHalf, LoadsAtWays

LEMMA BothHorizontalLoads ==
  ArgsInv /\ LevelsInv /\ LoadsInv /\ BothHorizontal => LoadsInv'
<1> SUFFICES ASSUME ArgsInv, LevelsInv, LoadsInv, BothHorizontal PROVE LoadsInv'
  OBVIOUS
<1>1. /\ levelHorizontal \in Nat /\ levelVertical \in Nat
      /\ h \in 1 .. levelHorizontal - 1 /\ v \in 1 .. levelVertical /\ h = v
      /\ RoutedTo(SplitsAcross, levelVertical - v) /\ Feeds(Parent)
      /\ call \in CallType /\ IsRegular(call)
      /\ AllBalanced(call, horizontal) /\ AllBalanced(call, vertical)
      /\ route.address # 0
  BY DEF LevelsInv, Shape, AtRoute, LoadsInv, LoadsAtRoute, ArgsInv, BothHorizontal,
         Exhausted
<1>2. PICK across : across = levelHorizontal - 1 - h
  OBVIOUS
<1>3. PICK down : down = levelVertical - v
  OBVIOUS
<1>4. PICK parent : parent = IF v = levelVertical
                             THEN At(horizontal, levelHorizontal - h - 1)
                             ELSE At(vertical, levelVertical - v - 1)
  OBVIOUS
<1>5. PICK cell : cell = Level(parent, columnToActive, hTemp)
  OBVIOUS
<1>6. /\ UNCHANGED <<call, h, v, rowToActive, vertical>> /\ pc' = "half"
      /\ route' = SplitBits(route, columnToActive) /\ columnToActive' = Rest(columnToActive)
      /\ horizontal' = [horizontal EXCEPT ![levelHorizontal - h] = cell]
  BY <1>4, <1>5 DEF BothHorizontal, Split, SplitBits
<1>7. levelHorizontal' = levelHorizontal /\ levelVertical' = levelVertical
  BY <1>6 DEF levelHorizontal, levelVertical
<1>8. /\ across \in Nat /\ across < levelHorizontal
      /\ down \in Nat /\ down <= levelVertical
      /\ SplitsAcross = across /\ levelHorizontal - h = across + 1
      /\ Parent = parent
  BY <1>1, <1>2, <1>3, <1>4 DEF SplitsAcross, Parent
<1>9. /\ RoutedFor(call, route, columnToActive, rowToActive, across, down)
      /\ LevelsAcross(call) = levelHorizontal /\ LevelsDown(call) = levelVertical
  BY <1>1, <1>3, <1>8 DEF RoutedTo, LevelsAcross, LevelsDown, levelHorizontal, levelVertical
<1>10. RoutedFor(call, route', columnToActive', rowToActive, across + 1, down)
  BY <1>1, <1>6, <1>8, <1>9, SplitColumn
<1>11. /\ Balanced(cell.sum, cell.active, FirstRoute(call).address - route'.address)
       /\ cell.bits = route'
  <2>1. Balanced(parent.sum, parent.active, FirstRoute(call).address - route.address)
    BY <1>1, <1>8 DEF Feeds
  <2>2. Balanced(2 * parent.sum, (IF columnToActive > 1 THEN 2 ELSE 1) * parent.active,
                 FirstRoute(call).address - SplitBits(route, columnToActive).address)
    BY <1>1, <1>8, <1>9, <2>1, LevelBalanced, Zenon
  <2> QED
    BY <1>5, <1>6, <2>2 DEF Level
<1>12. CellBalanced(call, cell)
  BY <1>11 DEF CellBalanced, Balanced
<1>13. AllBalanced(call, horizontal')
  BY <1>1, <1>6, <1>12, WriteBalanced
<1>14. At(horizontal', levelHorizontal - h) = cell
  <2>1. levelHorizontal - h \in DOMAIN horizontal
    <3>1. horizontal = [i \in 0 .. levelHorizontal - 1 |-> horizontal[i]]
      BY DEF BothHorizontal, LevelsInv, AtRoute, Written, FirstWritten
    <3> QED
      BY <1>1, <3>1
  <2> QED
    BY <1>6, <2>1 DEF At
<1>15. Feeds(At(horizontal, levelHorizontal - h))'
  BY <1>6, <1>7, <1>11, <1>14 DEF Feeds
<1>16. RoutedTo(levelHorizontal - h, levelVertical - v)'
  BY <1>3, <1>6, <1>7, <1>8, <1>10 DEF RoutedTo
<1> QED
  BY <1>1, <1>6, <1>13, <1>15, <1>16
     DEF LoadsInv, LoadsAtFirst, LoadsAtRoute, LoadsAtHalf, LoadsAtWays

LEMMA BothVerticalLoads ==
  ArgsInv /\ LevelsInv /\ LoadsInv /\ BothVertical => LoadsInv'
<1> SUFFICES ASSUME ArgsInv, LevelsInv, LoadsInv, BothVertical PROVE LoadsInv'
  OBVIOUS
<1>1. /\ levelHorizontal \in Nat /\ levelVertical \in Nat
      /\ h \in 1 .. levelHorizontal - 1 /\ v \in 1 .. levelVertical /\ h = v
      /\ RoutedTo(levelHorizontal - h, levelVertical - v)
      /\ Feeds(At(horizontal, levelHorizontal - h))
      /\ call \in CallType /\ IsRegular(call)
      /\ AllBalanced(call, horizontal) /\ AllBalanced(call, vertical)
      /\ route.address # 0
  BY DEF LevelsInv, Shape, AtHalf, LoadsInv, LoadsAtHalf, ArgsInv, BothVertical, Exhausted
<1>2. PICK across : across = levelHorizontal - h
  OBVIOUS
<1>3. PICK down : down = levelVertical - v
  OBVIOUS
<1>4. PICK parent : parent = At(horizontal, levelHorizontal - h)
  OBVIOUS
<1>5. PICK cell : cell = Level(parent, rowToActive,
                               IF levelHorizontal = 2 THEN vTemp ELSE 2 * vTemp)
  OBVIOUS
<1>6. /\ UNCHANGED <<call, columnToActive, horizontal>> /\ pc' = "route"
      /\ route' = SplitBits(route, rowToActive) /\ rowToActive' = Rest(rowToActive)
      /\ vertical' = [vertical EXCEPT ![levelVertical - v] = cell]
      /\ h' = h - 1 /\ v' = v - 1
  BY <1>4, <1>5 DEF BothVertical, Split, SplitBits
<1>7. levelHorizontal' = levelHorizontal /\ levelVertical' = levelVertical
  BY <1>6 DEF levelHorizontal, levelVertical
<1>8. /\ across \in Nat /\ across <= levelHorizontal
      /\ down \in Nat /\ down < levelVertical /\ levelVertical' - v' = down + 1
      /\ SplitsAcross' = across
  BY <1>1, <1>2, <1>3, <1>6, <1>7 DEF SplitsAcross
<1>9. /\ RoutedFor(call, route, columnToActive, rowToActive, across, down)
      /\ LevelsAcross(call) = levelHorizontal /\ LevelsDown(call) = levelVertical
  BY <1>1, <1>2, <1>3 DEF RoutedTo, LevelsAcross, LevelsDown, levelHorizontal, levelVertical
<1>10. RoutedFor(call, route', columnToActive, rowToActive', across, down + 1)
  BY <1>1, <1>6, <1>8, <1>9, SplitRow
<1>11. /\ Balanced(cell.sum, cell.active, FirstRoute(call).address - route'.address)
       /\ cell.bits = route'
  <2>1. Balanced(parent.sum, parent.active, FirstRoute(call).address - route.address)
    BY <1>1, <1>4 DEF Feeds
  <2>2. Balanced(2 * parent.sum, (IF rowToActive > 1 THEN 2 ELSE 1) * parent.active,
                 FirstRoute(call).address - SplitBits(route, rowToActive).address)
    BY <1>1, <1>8, <1>9, <2>1, LevelBalanced, Zenon
  <2> QED
    BY <1>5, <1>6, <2>2 DEF Level
<1>12. CellBalanced(call, cell)
  BY <1>11 DEF CellBalanced, Balanced
<1>13. AllBalanced(call, vertical')
  BY <1>1, <1>6, <1>12, WriteBalanced
<1>14. Parent' = cell
  <2>1. levelVertical - v \in DOMAIN vertical
    <3>1. vertical = [i \in 0 .. levelVertical - 1 |-> vertical[i]]
      BY DEF BothVertical, LevelsInv, AtHalf, Written, FirstWritten
    <3> QED
      BY <1>1, <3>1
  <2>2. At(vertical', levelVertical - v) = cell
    BY <1>6, <2>1 DEF At
  <2>3. Parent' = At(vertical', levelVertical - v' - 1)
    BY <1>1, <1>6, <1>7 DEF Parent
  <2> QED
    BY <1>1, <1>6, <2>2, <2>3
<1>15. InTurn'
  BY <1>1, <1>6, <1>7 DEF InTurn
<1>16. Feeds(Parent)'
  BY <1>6, <1>11, <1>14 DEF Feeds
<1>17. RoutedTo(SplitsAcross, levelVertical - v)'
  BY <1>6, <1>8, <1>10, Zenon DEF RoutedTo
<1> QED
  BY <1>1, <1>6, <1>13, <1>15, <1>16, <1>17
     DEF LoadsInv, LoadsAtFirst, LoadsAtRoute, LoadsAtHalf, LoadsAtWays

LEMMA LastColumnLoads ==
  ArgsInv /\ LevelsInv /\ LoadsInv /\ LastColumn => LoadsInv'
<1> SUFFICES ASSUME ArgsInv, LevelsInv, LoadsInv, LastColumn PROVE LoadsInv'
  OBVIOUS
<1>1. /\ levelHorizontal \in Nat /\ levelVertical \in Nat /\ h = 0 /\ v = 0
      /\ RoutedTo(SplitsAcross, levelVertical - v)
      /\ call \in CallType /\ IsRegular(call)
      /\ AllBalanced(call, horizontal) /\ AllBalanced(call, vertical)
      /\ route.address # 0
  BY DEF LevelsInv, Shape, AtRoute, LoadsInv, LoadsAtRoute, ArgsInv, LastColumn, Exhausted
<1>2. /\ UNCHANGED <<call, rowToActive, horizontal, vertical>> /\ pc' = "ways"
      /\ columnToActive' = Rest(columnToActive)
      /\ route' = IF columnToActive > 1 \/ levelHorizontal > 0
                  THEN SplitBits(route, columnToActive) ELSE route
  BY DEF LastColumn, Split, SplitBits, tree
<1>3. levelHorizontal' = levelHorizontal /\ levelVertical' = levelVertical
  BY <1>2 DEF levelHorizontal, levelVertical
<1>4. PICK across : across = SplitsAcross
  OBVIOUS
<1>5. /\ RoutedFor(call, route, columnToActive, rowToActive, across, levelVertical)
      /\ LevelsAcross(call) = levelHorizontal /\ LevelsDown(call) = levelVertical
  <2>1. levelVertical - v = levelVertical
    BY <1>1
  <2> QED
    BY <1>1, <1>4, <2>1
       DEF RoutedTo, LevelsAcross, LevelsDown, levelHorizontal, levelVertical
<1>6. RoutedFor(call, route', columnToActive', rowToActive, levelHorizontal, levelVertical)
  <2>1. CASE levelHorizontal > 0
    <3>1. across \in Nat /\ across < levelHorizontal /\ across + 1 = levelHorizontal
      BY <1>1, <1>4, <2>1 DEF SplitsAcross
    <3>2. RoutedFor(call, SplitBits(route, columnToActive), Rest(columnToActive), rowToActive,
                    across + 1, levelVertical)
      BY <1>1, <1>5, <3>1, SplitColumn
    <3> QED
      BY <1>2, <2>1, <3>1, <3>2
  <2>2. CASE ~(levelHorizontal > 0)
    <3>1. across = 0 /\ levelHorizontal = 0
      BY <1>1, <1>4, <2>2 DEF SplitsAcross
    <3>2. ~(columnToActive > 1) /\ Rest(columnToActive) = columnToActive
      <4>1. PICK a \in 0 .. MaxLog, i \in 0 .. MaxLog, b \in 0 .. MaxLog, j \in 0 .. MaxLog :
               RoutedBy(FirstRoute(call), route, across + levelVertical,
                        ActiveColumns(call), columnToActive, LevelsAcross(call) - across,
                        ActiveRows(call), rowToActive, LevelsDown(call) - levelVertical,
                        a, i, b, j)
        BY <1>5, Zenon DEF RoutedFor, Routed
      <4>2. i = 0 /\ columnToActive = 2 ^ i
        BY <1>5, <3>1, <4>1 DEF RoutedBy
      <4> QED
        BY <4>2, AboveOne DEF Rest
    <3> QED
      BY <1>2, <1>5, <2>2, <3>1, <3>2
  <2> QED
    BY <2>1, <2>2
<1>7. RoutedTo(levelHorizontal, levelVertical)'
  BY <1>2, <1>3, <1>6 DEF RoutedTo
<1> QED
  BY <1>1, <1>2, <1>7 DEF LoadsInv, LoadsAtFirst, LoadsAtRoute, LoadsAtHalf, LoadsAtWays

\* The steps that leave the levels and the call alone and end the routing.
LEMMA OtherLoads ==
  ASSUME LoadsInv, UNCHANGED <<call, horizontal, vertical>>,
         pc' \in {"start", "area", "lengths", "done"}
  PROVE  LoadsInv'
BY DEF LoadsInv, LoadsAtFirst, LoadsAtRoute, LoadsAtHalf, LoadsAtWays

LEMMA RebuildLoads == ArgsInv /\ LoadsInv /\ Rebuild => LoadsInv'
<1> SUFFICES ASSUME ArgsInv, LoadsInv, Rebuild PROVE LoadsInv'
  OBVIOUS
<1>1. PICK repeated \in BOOLEAN : call' = Rewired(bank, repeated)
  BY DEF Rebuild, Rewired
<1>2. bank = Stored(call) /\ call \in CallType
  BY DEF Rebuild, ArgsInv, IsLegal
<1>3. FirstRoute(call').address = FirstRoute(call).address
  <2>1. /\ call'.capacity = call.capacity /\ call'.blockSize = call.blockSize
        /\ call'.associativity = call.associativity
    <3>1. bank \in CallType
      BY <1>2, StoredIsCall
    <3>2. \A f \in DOMAIN bank \ {"repeatedGlobalWire"} : call'[f] = bank[f]
      BY <1>1, <3>1, RewiredIsCall
    <3> QED
      BY <1>2, <3>1, <3>2, StoredIsCall DEF CallType
  <2> QED
    BY <2>1 DEF FirstRoute, NumAddressBit
<1>4. /\ UNCHANGED <<horizontal, vertical>> /\ pc' = "start"
      /\ AllBalanced(call, horizontal) /\ AllBalanced(call, vertical)
  BY DEF Rebuild, tree, LoadsInv
<1>5. AllBalanced(call', horizontal) /\ AllBalanced(call', vertical)
  BY <1>3, <1>4, Zenon DEF AllBalanced, CellBalanced
<1> QED
  BY <1>4, <1>5 DEF LoadsInv, LoadsAtFirst, LoadsAtRoute, LoadsAtHalf, LoadsAtWays

LEMMA StutterLoads == LoadsInv /\ UNCHANGED vars => LoadsInv'
<1> SUFFICES ASSUME LoadsInv, UNCHANGED vars PROVE LoadsInv'
  OBVIOUS
<1>1. UNCHANGED <<call, pc, h, v, rowToActive, columnToActive, route, horizontal, vertical>>
  BY DEF vars, loop, tree
<1>2. levelHorizontal' = levelHorizontal /\ levelVertical' = levelVertical
  BY <1>1 DEF levelHorizontal, levelVertical
<1> QED
  BY <1>1, <1>2
     DEF LoadsInv, LoadsAtFirst, LoadsAtRoute, LoadsAtHalf, LoadsAtWays, InTurn, RoutedTo,
         SplitsAcross, Parent, Feeds

LEMMA LoadsStep == ArgsInv /\ LevelsInv /\ LoadsInv /\ [Next]_vars => LoadsInv'
<1> SUFFICES ASSUME ArgsInv, LevelsInv, LoadsInv, [Next]_vars PROVE LoadsInv'
  OBVIOUS
<1>1. CASE RejectExternalSense \/ GiveUp \/ RejectWays \/ InitializeMat \/ Measure
  <2>1. /\ UNCHANGED <<call, horizontal, vertical>>
        /\ pc' \in {"start", "area", "lengths", "done"}
    BY <1>1 DEF RejectExternalSense, GiveUp, RejectWays, InitializeMat, Measure,
                RejectAspectRatio, BeginLengths, LengthVertical, LengthBoth,
                LengthHorizontal, EndLengths, tree
  <2> QED
    BY <2>1, OtherLoads
<1> QED
  BY <1>1, BeginLoads, FirstLoads, ReduceHorizontalLoads, ReduceVerticalLoads,
     BothHorizontalLoads, BothVerticalLoads, LastColumnLoads, RebuildLoads, StutterLoads
     DEF Next, Route, Finished

\* What has been routed when the ways are counted.
LEMMA RoutedToMats ==
  ASSUME ArgsInv, LoadsInv, pc = "ways"
  PROVE  /\ 2 ^ (FirstRoute(call).address - route.address) * ActiveMats(call)
              = call.numRowMat * call.numColumnMat
         /\ route.distribute = FirstRoute(call).distribute \div ActiveMats(call)
         /\ route.broadcast = FirstRoute(call).broadcast
         /\ rowToActive = 1 /\ columnToActive = 1
<1>1. /\ call \in CallType /\ IsRegular(call)
      /\ RoutedFor(call, route, columnToActive, rowToActive, levelHorizontal, levelVertical)
  BY DEF ArgsInv, LoadsInv, LoadsAtWays, RoutedTo
<1>2. /\ LevelsAcross(call) \in 0 .. MaxLog /\ LevelsDown(call) \in 0 .. MaxLog
      /\ LevelsAcross(call) + LevelsDown(call) <= MaxLog
      /\ call.numColumnMat = 2 ^ LevelsAcross(call) /\ call.numRowMat = 2 ^ LevelsDown(call)
      /\ levelHorizontal = LevelsAcross(call) /\ levelVertical = LevelsDown(call)
  BY <1>1, CallLevels DEF LevelsAcross, LevelsDown, levelHorizontal, levelVertical
<1>3. PICK splits : splits = levelHorizontal + levelVertical
  OBVIOUS
<1>4. /\ splits \in 0 .. MaxLog
      /\ levelHorizontal - levelHorizontal = 0 /\ levelVertical - levelVertical = 0
  BY <1>2, <1>3 DEF MaxLog
<1>5. Routed(FirstRoute(call), route, splits, ActiveColumns(call), columnToActive, 0,
             ActiveRows(call), rowToActive, 0)
  BY <1>1, <1>2, <1>3, <1>4, Zenon DEF RoutedFor
<1>6. /\ columnToActive = 1 /\ rowToActive = 1
      /\ route.distribute
           = FirstRoute(call).distribute \div (ActiveColumns(call) * ActiveRows(call))
      /\ route.broadcast = FirstRoute(call).broadcast
      /\ 2 ^ (FirstRoute(call).address - route.address)
            * (ActiveColumns(call) * ActiveRows(call)) = 2 ^ splits
  BY <1>1, <1>4, <1>5, CallBits, RoutedAtEnd
<1>7. ActiveMats(call) = ActiveColumns(call) * ActiveRows(call)
  BY DEF ActiveMats, ActiveColumns, ActiveRows
<1>8. 2 ^ splits = call.numRowMat * call.numColumnMat
  <2>1. levelVertical + levelHorizontal = splits
    BY <1>2, <1>3 DEF MaxLog
  <2>2. 2 ^ levelVertical * 2 ^ levelHorizontal = 2 ^ splits
    <3>1. /\ levelVertical \in Nat /\ levelHorizontal \in Nat
          /\ levelVertical + levelHorizontal <= MaxPower
      BY <1>2 DEF MaxLog, MaxPower
    <3> QED
      BY <2>1, <3>1, PowersMultiply
  <2> QED
    BY <1>2, <2>2
<1> QED
  BY <1>6, <1>7, <1>8

LEMMA LoadsInvImplies == ArgsInv /\ LoadsInv => LoadsAreShared
<1> SUFFICES ASSUME ArgsInv, LoadsInv PROVE LoadsAreShared
  OBVIOUS
<1>1. /\ \A i \in DOMAIN horizontal : ActiveOfSum(horizontal[i])
      /\ \A i \in DOMAIN vertical : ActiveOfSum(vertical[i])
  BY DEF LoadsInv, AllBalanced, CellBalanced, ActiveOfSum
<1>2. pc = "ways" => MatsAreReached
  BY RoutedToMats DEF MatsAreReached
<1> QED
  BY <1>1, <1>2 DEF LoadsAreShared

\* On every level, the address bits that Initialize has used so far choose among
\* the wire bundles that are not active together, and at the mats the bits are
\* shared out exactly: the two arrays that CalculateLatencyAndPower reads for
\* energy and for leakage agree, for every tree, active part and data width.
THEOREM BundlesAreShared == Spec => []LoadsAreShared
<1>1. Init => ArgsInv /\ LevelsInv /\ LoadsInv
  BY ArgsStart, InitShape, LoadsStart
<1>2. ArgsInv /\ LevelsInv /\ LoadsInv /\ [Next]_vars => (ArgsInv /\ LevelsInv /\ LoadsInv)'
  BY ArgsStep, NextStep, LoadsStep
<1>3. Spec => [](ArgsInv /\ LevelsInv /\ LoadsInv)
  BY <1>1, <1>2, PTL DEF Spec
<1> QED
  BY <1>3, LoadsInvImplies, PTL

-----------------------------------------------------------------------------
(***************************************************************************)
(* The mats.  The routing through the levels ends with what the divisions  *)
(* of BankWithoutHtree give, and rejects what they reject.                 *)
(***************************************************************************)
\* Of m * n parts, AtMost(k, m) * AtMost(l, n) are active; the logarithm of the
\* quotient is exact.
LEMMA InactiveBits ==
  ASSUME NEW k, NEW m, NEW l, NEW n, IsPow2(k), IsPow2(m), IsPow2(l), IsPow2(n),
         n * m <= 2 ^ MaxLog,
         NEW active, active = AtMost(k, m) * AtMost(l, n),
         NEW bits, bits = Log2((n * m) \div active, 1)
  PROVE  /\ active \in Nat \ {0} /\ bits \in 0 .. MaxLog
         /\ 2 ^ bits * active = n * m
<1>1. PICK a \in 0 .. MaxLog, p \in 0 .. MaxLog : AtMost(k, m) = 2 ^ a /\ m = 2 ^ p /\ a <= p
  BY ActivePower
<1>2. PICK b \in 0 .. MaxLog, q \in 0 .. MaxLog : AtMost(l, n) = 2 ^ b /\ n = 2 ^ q /\ b <= q
  BY ActivePower
<1>3. q + p <= MaxLog
  BY <1>1, <1>2, BoundedProduct
<1>4. PICK all, some : all = q + p /\ some = a + b
  OBVIOUS
<1>5. /\ all \in 0 .. MaxLog /\ some \in 0 .. MaxLog /\ some <= all
      /\ all - some \in 0 .. MaxLog /\ all <= MaxPower /\ all - some + some = all
  BY <1>1, <1>2, <1>3, <1>4 DEF MaxLog, MaxPower
<1>6. n * m = 2 ^ all
  <2>1. q \in Nat /\ p \in Nat /\ q + p <= MaxPower
    BY <1>4, <1>5 DEF MaxLog
  <2> QED
    BY <1>1, <1>2, <1>4, <2>1, PowersMultiply
<1>7. active = 2 ^ some
  <2>1. a \in Nat /\ b \in Nat /\ a + b <= MaxPower
    BY <1>4, <1>5 DEF MaxLog, MaxPower
  <2> QED
    BY <1>1, <1>2, <1>4, <2>1, PowersMultiply
<1>8. 2 ^ all \div 2 ^ some = 2 ^ (all - some)
  BY <1>5, PowersDivide DEF MaxLog
<1>9. bits = all - some
  BY <1>5, <1>6, <1>7, <1>8, LogOfPower
<1>10. 2 ^ (all - some) * 2 ^ some = 2 ^ all
  BY <1>5, PowersMultiply DEF MaxLog
<1>11. 2 ^ some \in Nat \ {0}
  BY <1>5, PowerIsPositive DEF MaxLog, MaxPower
<1> QED
  BY <1>5, <1>6, <1>7, <1>9, <1>10, <1>11

MatBits(c) == Log2((c.numRowMat * c.numColumnMat) \div ActiveMats(c), 1)
SubarrayBits(c) ==
  Log2((c.numRowSubarray * c.numColumnSubarray)
         \div (ActivePerRow(c) * ActivePerColumn(c)), 1)

LEMMA InactiveMats ==
  ASSUME NEW c, IsRegular(c)
  PROVE  /\ ActiveMats(c) \in Nat \ {0} /\ MatBits(c) \in 0 .. MaxLog
         /\ 2 ^ MatBits(c) * ActiveMats(c) = c.numRowMat * c.numColumnMat
<1>1. /\ IsPow2(c.numColumnMat) /\ IsPow2(c.numRowMat)
      /\ IsPow2(c.numActiveMatPerRow) /\ IsPow2(c.numActiveMatPerColumn)
      /\ c.numRowMat * c.numColumnMat <= 2 ^ MaxLog
  BY DEF IsRegular, Doubled
<1> QED
  BY <1>1, InactiveBits DEF ActiveMats, MatBits

LEMMA InactiveSubarrays ==
  ASSUME NEW c, IsRegular(c)
  PROVE  /\ ActivePerRow(c) * ActivePerColumn(c) \in Nat \ {0}
         /\ SubarrayBits(c) \in 0 .. MaxLog
         /\ 2 ^ SubarrayBits(c) * (ActivePerRow(c) * ActivePerColumn(c))
              = c.numRowSubarray * c.numColumnSubarray
<1>1. /\ IsPow2(c.numColumnSubarray) /\ IsPow2(c.numRowSubarray)
      /\ IsPow2(c.numActiveSubarrayPerRow) /\ IsPow2(c.numActiveSubarrayPerColumn)
      /\ c.numRowSubarray * c.numColumnSubarray <= 2 ^ MaxLog
  BY DEF IsRegular, Doubled
<1> QED
  BY <1>1, InactiveBits DEF ActivePerRow, ActivePerColumn, SubarrayBits

\* A mat without address bits or without data is refused.
LEMMA StarvedMat ==
  ASSUME NEW c, IsRegular(c), NEW addressBit \in Int, NEW dataBit, NEW numWay, NEW m,
         addressBit <= 0 \/ dataBit = 0
  PROVE  MatInitialize(c, addressBit, dataBit, numWay, m) = InvalidMat
<1>1. CASE addressBit <= 0
  <2>1. ~(EffectiveBits(c, addressBit) > 0)
    BY <1>1, InactiveSubarrays DEF EffectiveBits, SubarrayBits, MaxLog
  <2> QED
    BY <2>1, Zenon DEF MatInitialize
<1>2. CASE dataBit = 0
  <2>1. dataBit \div (ActivePerRow(c) * ActivePerColumn(c)) = 0
    BY <1>2, InactiveSubarrays
  <2> QED
    BY <2>1, Zenon DEF MatInitialize
<1> QED
  BY <1>1, <1>2

\* What the mat of a bank depends on.
Agree(c, d) ==
  /\ \A f \in {"numRowMat", "numColumnMat", "capacity", "blockSize", "associativity",
               "numRowPerSet", "muxSenseAmp", "internalSenseAmp", "muxOutputLev1",
               "muxOutputLev2", "numRowSubarray", "numColumnSubarray", "memoryType",
               "cellType", "waysPerColumn", "pageCount", "feasible"} : d[f] = c[f]
  /\ ActiveColumns(d) = ActiveColumns(c) /\ ActiveRows(d) = ActiveRows(c)
  /\ ActivePerRow(d) = ActivePerRow(c) /\ ActivePerColumn(d) = ActivePerColumn(c)

LEMMA AtMostTwice ==
  ASSUME NEW n \in Nat, NEW most \in Nat
  PROVE  AtMost(AtMost(n, most), most) = AtMost(n, most)
BY DEF AtMost

LEMMA StoredAgrees ==
  ASSUME NEW c \in CallType
  PROVE  Agree(c, Stored(c))
         /\ \A repeated \in BOOLEAN : Agree(c, Rewired(Stored(c), repeated))
<1>1. ASSUME NEW d,
             \A f \in DOMAIN Stored(c) \ {"repeatedGlobalWire"} : d[f] = Stored(c)[f]
      PROVE  Agree(c, d)
  <2>1. /\ d.numRowMat = c.numRowMat /\ d.numColumnMat = c.numColumnMat
        /\ d.numRowSubarray = c.numRowSubarray /\ d.numColumnSubarray = c.numColumnSubarray
        /\ d.numActiveMatPerRow = AtMost(c.numActiveMatPerRow, c.numColumnMat)
        /\ d.numActiveMatPerColumn = AtMost(c.numActiveMatPerColumn, c.numRowMat)
        /\ d.numActiveSubarrayPerRow
              = AtMost(c.numActiveSubarrayPerRow, c.numColumnSubarray)
        /\ d.numActiveSubarrayPerColumn
              = AtMost(c.numActiveSubarrayPerColumn, c.numRowSubarray)
    BY <1>1, StoredIsCall DEF CallType, ActivePerRow, ActivePerColumn
  <2>2. \A f \in {"numRowMat", "numColumnMat", "capacity", "blockSize", "associativity",
                  "numRowPerSet", "muxSenseAmp", "internalSenseAmp", "muxOutputLev1",
                  "muxOutputLev2", "numRowSubarray", "numColumnSubarray", "memoryType",
                  "cellType", "waysPerColumn", "pageCount", "feasible"} : d[f] = c[f]
    BY <1>1, StoredIsCall DEF CallType
  <2>3. /\ c.numActiveMatPerRow \in Nat /\ c.numColumnMat \in Nat
        /\ c.numActiveMatPerColumn \in Nat /\ c.numRowMat \in Nat
        /\ c.numActiveSubarrayPerRow \in Nat /\ c.numColumnSubarray \in Nat
        /\ c.numActiveSubarrayPerColumn \in Nat /\ c.numRowSubarray \in Nat
    BY DEF CallType
  <2>4. /\ ActiveColumns(d) = ActiveColumns(c) /\ ActiveRows(d) = ActiveRows(c)
        /\ ActivePerRow(d) = ActivePerRow(c) /\ ActivePerColumn(d) = ActivePerColumn(c)
    BY <2>1, <2>3, AtMostTwice DEF ActiveColumns, ActiveRows, ActivePerRow, ActivePerColumn
  <2> QED
    BY <2>2, <2>4 DEF Agree
<1>2. Stored(c) \in CallType
  BY StoredIsCall
<1> QED
  BY <1>1, <1>2, RewiredIsCall

LEMMA AgreeingMats ==
  ASSUME NEW c, NEW d, Agree(c, d), NEW addressBit, NEW dataBit, NEW numWay, NEW m
  PROVE  MatInitialize(d, addressBit, dataBit, numWay, m)
           = MatInitialize(c, addressBit, dataBit, numWay, m)
BY Zenon DEF Agree, MatInitialize, EffectiveBits, RowBits, RowsOf, SubArrayIsLegal

LEMMA AgreeingBanks ==
  ASSUME NEW c, NEW d, Agree(c, d), c.internalSenseAmp
  PROVE  BusMat(d) = BusMat(c)
<1>1. /\ d.memoryType = c.memoryType /\ d.numRowPerSet = c.numRowPerSet
      /\ d.associativity = c.associativity /\ d.blockSize = c.blockSize
      /\ d.capacity = c.capacity /\ d.cellType = c.cellType
      /\ d.numRowMat = c.numRowMat /\ d.numColumnMat = c.numColumnMat
      /\ d.internalSenseAmp = c.internalSenseAmp
      /\ d.muxSenseAmp = c.muxSenseAmp /\ d.muxOutputLev1 = c.muxOutputLev1
      /\ d.muxOutputLev2 = c.muxOutputLev2
  BY DEF Agree
<1>2. Mux(d) = Mux(c)
  BY <1>1, Zenon DEF Mux
<1>3. MuxForWays(d, c.associativity) = MuxForWays(c, c.associativity)
  BY <1>1, <1>2, Zenon DEF MuxForWays
<1>4. ActiveMats(d) = ActiveMats(c)
  BY Zenon DEF Agree, ActiveMats, ActiveColumns, ActiveRows
<1>5. AddressBitRouteToMat(d) = AddressBitRouteToMat(c)
  BY <1>1, <1>4, Zenon DEF AddressBitRouteToMat, NumAddressBit
<1>6. \A addressBit, dataBit, numWay, m :
        MatInitialize(d, addressBit, dataBit, numWay, m)
          = MatInitialize(c, addressBit, dataBit, numWay, m)
  BY AgreeingMats
<1>7. DataMat(d) = DataMat(c)
  BY <1>1, <1>3, <1>4, <1>5, <1>6, SMT DEF DataMat
<1>8. TagMat(d) = TagMat(c)
  BY <1>1, <1>2, <1>4, <1>5, <1>6, SMT DEF TagMat
<1>9. SensingIsLegal(d) /\ SensingIsLegal(c)
  BY <1>1 DEF SensingIsLegal
<1> QED
  BY <1>1, <1>2, <1>5, <1>6, <1>7, <1>8, <1>9, SMT DEF BusMat

\* The exponents of a routing under way, and of the address bits that the bus
\* routes to a mat.
LEMMA BusAddress ==
  ASSUME NEW c \in CallType, IsRegular(c), NEW bits, NEW column, NEW row,
         NEW across \in Nat, NEW down \in Nat,
         across <= LevelsAcross(c), down <= LevelsDown(c),
         RoutedFor(c, bits, column, row, across, down)
  PROVE  /\ AddressBitRouteToMat(c) \in Int /\ AddressBitRouteToMat(c) <= bits.address
         /\ across = LevelsAcross(c) /\ down = LevelsDown(c)
              => AddressBitRouteToMat(c) = bits.address
         /\ \E n, m \in 0 .. MaxLog :
              /\ n <= m /\ ActiveMats(c) = 2 ^ m
              /\ bits.distribute = FirstRoute(c).distribute \div 2 ^ n
         /\ bits.broadcast = FirstRoute(c).broadcast
<1>1. PICK f : f = FirstRoute(c)
  OBVIOUS
<1>2. PICK a \in 0 .. MaxLog, i \in 0 .. MaxLog, b \in 0 .. MaxLog, j \in 0 .. MaxLog :
         RoutedBy(f, bits, across + down, ActiveColumns(c), column, LevelsAcross(c) - across,
                  ActiveRows(c), row, LevelsDown(c) - down, a, i, b, j)
  BY <1>1, Zenon DEF RoutedFor, Routed
<1>3. PICK n : n = (a - i) + (b - j)
  OBVIOUS
<1>4. PICK p, q : p = LevelsAcross(c) /\ q = LevelsDown(c)
  OBVIOUS
<1>5. /\ p \in 0 .. 30 /\ q \in 0 .. 30 /\ p + q <= 30 /\ MaxLog = 30 /\ MaxPower = 31
      /\ c.numColumnMat = 2 ^ p /\ c.numRowMat = 2 ^ q
  BY <1>4, CallLevels DEF MaxLog, MaxPower
<1>6. /\ ActiveColumns(c) = 2 ^ a /\ i <= a /\ i <= p - across
      /\ ActiveRows(c) = 2 ^ b /\ j <= b /\ j <= q - down
      /\ a + b <= 30
      /\ (across + down) - n \in 0 .. f.address
      /\ bits = [address |-> f.address - ((across + down) - n),
                 distribute |-> f.distribute \div 2 ^ n,
                 broadcast |-> f.broadcast]
  BY <1>2, <1>3, <1>4, <1>5 DEF RoutedBy
<1>7. PICK m : m = a + b
  OBVIOUS
<1>8. m \in 0 .. 30 /\ n \in 0 .. 30 /\ n <= m
  BY <1>3, <1>5, <1>6, <1>7
<1>9. ActiveMats(c) = 2 ^ m
  <2>1. 2 ^ a * 2 ^ b = 2 ^ m
    BY <1>5, <1>6, <1>7, PowersMultiply
  <2> QED
    BY <1>6, <2>1 DEF ActiveMats, ActiveColumns, ActiveRows
<1>10. PICK left : left = (across + down) - n
  OBVIOUS
<1>11. PICK all : all = q + p
  OBVIOUS
<1>12. PICK over : over = all - m
  OBVIOUS
<1>13. LevelsAcross(c) = p /\ LevelsDown(c) = q
  BY <1>4
<1>14. across <= p /\ down <= q
  BY <1>4
<1>15. /\ all \in 0 .. 30 /\ left <= over /\ left \in Nat
       /\ across = p /\ down = q => left = over
  <2>1. left = (across - (a - i)) + (down - (b - j))
    BY <1>3, <1>5, <1>10
  <2>2. across - (a - i) <= p - a /\ down - (b - j) <= q - b
    BY <1>5, <1>6, <1>14
  <2>3. over = (p - a) + (q - b)
    BY <1>5, <1>7, <1>11, <1>12
  <2>4. across = p /\ down = q => i = 0 /\ j = 0
    BY <1>5, <1>6
  <2>5. left \in Nat
    <3>1. f.address \in Nat
      BY <1>1, CallBits DEF MaxLog
    <3> QED
      BY <1>6, <1>10, <3>1
  <2> QED
    BY <1>5, <1>11, <2>1, <2>2, <2>3, <2>4, <2>5
<1>16. over \in 0 .. 30
  BY <1>8, <1>12, <1>15
<1>17. AddressBitRouteToMat(c) = f.address - over
  <2>1. c.numRowMat * c.numColumnMat = 2 ^ all
    BY <1>5, <1>11, PowersMultiply
  <2>2. 2 ^ all \div 2 ^ m = 2 ^ over
    <3>1. m <= all
      BY <1>8, <1>12, <1>15, <1>16
    <3> QED
      BY <1>5, <1>8, <1>12, <1>15, <3>1, PowersDivide
  <2>3. Log2(2 ^ over, 1) = over
    BY <1>5, <1>16, LogOfPower
  <2>4. f.address = NumAddressBit(c)
    BY <1>1 DEF FirstRoute
  <2> QED
    BY <1>9, <2>1, <2>2, <2>3, <2>4 DEF AddressBitRouteToMat
<1>18. f.address \in Nat /\ bits.address = f.address - left
  BY <1>1, <1>6, <1>10, CallBits DEF MaxLog
<1>19. \E k, l \in 0 .. MaxLog :
         /\ k <= l /\ ActiveMats(c) = 2 ^ l
         /\ bits.distribute = FirstRoute(c).distribute \div 2 ^ k
  BY <1>1, <1>5, <1>6, <1>8, <1>9
<1> QED
  BY <1>1, <1>6, <1>13, <1>15, <1>16, <1>17, <1>18, <1>19

\* When the tree has nothing left to tell mats apart by, the bus has no mat.
LEMMA StarvedBank ==
  ASSUME NEW c \in CallType, IsRegular(c), NEW bits, NEW column, NEW row,
         NEW across \in Nat, NEW down \in Nat,
         across <= LevelsAcross(c), down <= LevelsDown(c),
         RoutedFor(c, bits, column, row, across, down),
         bits.distribute + bits.broadcast = 0 \/ bits.address = 0
  PROVE  BusMat(c).invalid
<1>1. /\ AddressBitRouteToMat(c) \in Int /\ AddressBitRouteToMat(c) <= bits.address
      /\ bits.broadcast = FirstRoute(c).broadcast
  BY BusAddress
<1>2. PICK n \in 0 .. MaxLog, m \in 0 .. MaxLog :
         /\ n <= m /\ ActiveMats(c) = 2 ^ m
         /\ bits.distribute = FirstRoute(c).distribute \div 2 ^ n
  BY BusAddress
<1>3. InvalidMat.invalid
  BY DEF InvalidMat
<1>4. CASE bits.address = 0
  <2>1. \A dataBit, numWay, m1 :
          MatInitialize(c, AddressBitRouteToMat(c), dataBit, numWay, m1) = InvalidMat
    BY <1>1, <1>4, StarvedMat
  <2> QED
    BY <1>3, <2>1, Zenon DEF BusMat, DataMat, TagMat
<1>5. CASE bits.distribute + bits.broadcast = 0
  <2>1. /\ c.blockSize \in Nat \ {0} /\ c.associativity \in Nat
        /\ c.memoryType \in {"data", "tag", "CAM"}
    BY DEF CallType, IsRegular
  <2>2. 2 ^ n \in Nat \ {0} /\ 2 ^ m \in Nat \ {0} /\ 2 ^ n <= 2 ^ m
    <3>1. 2 ^ n \in Nat \ {0} /\ 2 ^ (m - n) \in Nat \ {0} /\ 2 ^ m \in Nat \ {0}
      BY <1>2, PowerIsPositive DEF MaxLog, MaxPower
    <3>2. 2 ^ n * 2 ^ (m - n) = 2 ^ m
      <4>1. n \in Nat /\ m - n \in Nat /\ n + (m - n) = m /\ m <= MaxPower
        BY <1>2 DEF MaxLog, MaxPower
      <4> QED
        BY <4>1, PowersMultiply
    <3>3. 2 ^ n <= 2 ^ n * 2 ^ (m - n)
      BY <3>1, ProductGrows
    <3> QED
      BY <3>1, <3>2, <3>3
  <2>3. FirstRoute(c).distribute \in Nat
    BY CallBits
  <2>4. bits.distribute \in Nat
    BY <1>2, <2>2, <2>3
  <2>5. CASE c.memoryType # "data"
    <3>1. bits.broadcast = c.blockSize
      BY <1>1, <2>5 DEF FirstRoute
    <3> QED
      BY <1>5, <2>1, <2>4, <3>1
  <2>6. CASE c.memoryType = "data"
    <3>1. FirstRoute(c).distribute = c.blockSize
      BY <2>6 DEF FirstRoute
    <3>2. bits.broadcast \in Nat
      <4>1. PICK w \in 0 .. MaxLog : c.associativity = 2 ^ w
        BY PowerOfTwo DEF IsRegular, Doubled
      <4>2. FloorLog2(c.associativity) = w
        BY <4>1, FloorLogOfPower
      <4>3. FirstRoute(c).broadcast = FloorLog2(c.associativity)
        BY <2>6 DEF FirstRoute
      <4> QED
        BY <1>1, <4>2, <4>3
    <3>3. c.blockSize \div 2 ^ n = 0
      BY <1>2, <1>5, <2>4, <3>1, <3>2
    <3>4. c.blockSize \div 2 ^ m = 0
      BY <2>1, <2>2, <3>3
    <3>5. \A numWay, m1 :
            MatInitialize(c, AddressBitRouteToMat(c), c.blockSize \div ActiveMats(c),
                          numWay, m1) = InvalidMat
      BY <1>1, <1>2, <3>4, StarvedMat
    <3>6. DataMat(c) = InvalidMat
      BY <3>5, Zenon DEF DataMat
    <3> QED
      BY <1>3, <2>6, <3>6, Zenon DEF BusMat
  <2> QED
    BY <2>5, <2>6
<1> QED
  BY <1>4, <1>5

\* When the tree reaches the mats, it gives them what the bus gives them.
LEMMA RoutedMat ==
  ASSUME ArgsInv, LoadsInv, pc = "ways"
  PROVE  /\ EnoughWays => MatInitialize(bank, route.address, MatBlockSize, NumWay, MatMux)
                            = BusMat(call)
         /\ ~EnoughWays => BusMat(call).invalid
<1>1. /\ call \in CallType /\ IsRegular(call) /\ bank = Stored(call) /\ call.internalSenseAmp
      /\ RoutedFor(call, route, columnToActive, rowToActive, levelHorizontal, levelVertical)
  BY DEF ArgsInv, IsRouting, LoadsInv, LoadsAtWays, RoutedTo
<1>2. AddressBitRouteToMat(call) = route.address
  <2>1. /\ levelHorizontal = LevelsAcross(call) /\ levelVertical = LevelsDown(call)
        /\ LevelsAcross(call) \in Nat /\ LevelsDown(call) \in Nat
    BY <1>1, CallLevels
       DEF levelHorizontal, levelVertical, LevelsAcross, LevelsDown, MaxLog
  <2>2. levelHorizontal <= LevelsAcross(call) /\ levelVertical <= LevelsDown(call)
    BY <2>1
  <2> QED
    BY <1>1, <2>1, <2>2, BusAddress
<1>3. /\ route.distribute = FirstRoute(call).distribute \div ActiveMats(call)
      /\ route.broadcast = FirstRoute(call).broadcast
  BY RoutedToMats
<1>4. \A addressBit, dataBit, numWay, m :
        MatInitialize(bank, addressBit, dataBit, numWay, m)
          = MatInitialize(call, addressBit, dataBit, numWay, m)
  BY <1>1, StoredAgrees, AgreeingMats
<1>5. SensingIsLegal(call) /\ InvalidMat.invalid
  BY <1>1 DEF SensingIsLegal, InvalidMat
<1>6. CASE call.memoryType = "data"
  <2>1. PICK w \in 0 .. MaxLog : call.associativity = 2 ^ w
    BY <1>1, PowerOfTwo DEF IsRegular, Doubled
  <2>2. FloorLog2(call.associativity) = w
    BY <2>1, FloorLogOfPower
  <2>3. route.broadcast = w /\ route.distribute = call.blockSize \div ActiveMats(call)
    BY <1>3, <1>6, <2>2 DEF FirstRoute
  <2>4. /\ NumWay = call.associativity
        /\ MatBlockSize = call.blockSize \div ActiveMats(call)
        /\ MatMux = MuxForWays(call, call.associativity)
    BY <1>6, <2>1, <2>3 DEF NumWay, MatBlockSize, MatMux
  <2>5. /\ EnoughWays <=> call.numRowPerSet <= call.associativity
        /\ BusMat(call) = DataMat(call)
    BY <1>5, <1>6, <2>1, <2>3 DEF EnoughWays, BusMat
  <2>6. call.numRowPerSet \in Nat /\ call.associativity \in Nat
    BY <1>1 DEF CallType
  <2>7. EnoughWays <=> ~(call.numRowPerSet > call.associativity)
    BY <2>5, <2>6
  <2> QED
    BY <1>2, <1>4, <1>5, <2>4, <2>5, <2>7, SMT DEF DataMat
<1>7. CASE call.memoryType = "tag"
  <2>1. /\ route.broadcast = call.blockSize
        /\ route.distribute = call.associativity \div ActiveMats(call)
    BY <1>3, <1>7 DEF FirstRoute
  <2>2. /\ NumWay = call.associativity \div ActiveMats(call)
        /\ MatBlockSize = call.blockSize /\ MatMux = Mux(call)
    BY <1>7, <2>1 DEF NumWay, MatBlockSize, MatMux
  <2>3. /\ EnoughWays <=> call.numRowPerSet <= 1 /\ route.distribute # 0
        /\ BusMat(call) = TagMat(call)
    BY <1>5, <1>7 DEF EnoughWays, BusMat
  <2>4. call.numRowPerSet \in Nat /\ route.distribute \in Nat
    <3>1. call.numRowPerSet \in Nat /\ call.associativity \in Nat
      BY <1>1 DEF CallType
    <3>2. ActiveMats(call) \in Nat \ {0}
      <4>1. PICK a \in 0 .. MaxLog, b \in 0 .. MaxLog :
               ActiveColumns(call) = 2 ^ a /\ ActiveRows(call) = 2 ^ b
        BY <1>1, CallLevels
      <4>2. ActiveColumns(call) \in Nat \ {0} /\ ActiveRows(call) \in Nat \ {0}
        BY <4>1, PowerIsPositive DEF MaxLog, MaxPower
      <4> QED
        BY <4>2 DEF ActiveMats, ActiveColumns, ActiveRows
    <3> QED
      BY <2>1, <3>1, <3>2
  <2>5. EnoughWays <=> ~(call.numRowPerSet > 1 \/ NumWay < 1)
    BY <2>1, <2>2, <2>3, <2>4
  <2> QED
    BY <1>2, <1>4, <1>5, <2>2, <2>3, <2>5, SMT DEF TagMat
<1> QED
  BY <1>1, <1>6, <1>7 DEF CallType, IsRegular

\* And when it gives up on the way, the bus has no mat either.
LEMMA GivenUp ==
  ASSUME ArgsInv, LevelsInv, LoadsInv, GiveUp
  PROVE  BusMat(call).invalid
<1>1. /\ call \in CallType /\ IsRegular(call)
      /\ levelHorizontal \in Nat /\ levelVertical \in Nat
      /\ levelHorizontal = LevelsAcross(call) /\ levelVertical = LevelsDown(call)
  BY DEF ArgsInv, LevelsInv, Shape, levelHorizontal, levelVertical, LevelsAcross, LevelsDown
<1>2. route.distribute + route.broadcast = 0 \/ route.address = 0
  BY DEF GiveUp, Exhausted
<1>3. CASE pc = "first"
  <2>1. RoutedFor(call, route, columnToActive, rowToActive, 0, 0)
    BY <1>1, <1>3, RoutedFirst DEF LoadsInv, LoadsAtFirst
  <2>2. 0 \in Nat /\ 0 <= levelHorizontal /\ 0 <= levelVertical
    BY <1>1
  <2> QED
    BY <1>1, <1>2, <2>1, <2>2, StarvedBank
<1>4. CASE pc = "route"
  <2>1. PICK across : across = SplitsAcross
    OBVIOUS
  <2>2. PICK down : down = levelVertical - v
    OBVIOUS
  <2>3. across \in 0 .. levelHorizontal /\ down \in 0 .. levelVertical
    BY <1>1, <1>4, <2>1, <2>2 DEF LevelsInv, AtRoute, SplitsAcross
  <2>4. RoutedFor(call, route, columnToActive, rowToActive, across, down)
    BY <1>4, <2>1, <2>2 DEF LoadsInv, LoadsAtRoute, RoutedTo
  <2>5. across \in Nat /\ down \in Nat /\ across <= levelHorizontal /\ down <= levelVertical
    BY <1>1, <2>3
  <2> QED
    BY <1>1, <1>2, <2>4, <2>5, StarvedBank
<1>5. CASE pc = "half"
  <2>1. PICK across : across = levelHorizontal - h
    OBVIOUS
  <2>2. PICK down : down = levelVertical - v
    OBVIOUS
  <2>3. across \in 0 .. levelHorizontal /\ down \in 0 .. levelVertical
    BY <1>1, <1>5, <2>1, <2>2 DEF LevelsInv, AtHalf
  <2>4. RoutedFor(call, route, columnToActive, rowToActive, across, down)
    BY <1>5, <2>1, <2>2 DEF LoadsInv, LoadsAtHalf, RoutedTo
  <2>5. across \in Nat /\ down \in Nat /\ across <= levelHorizontal /\ down <= levelVertical
    BY <1>1, <2>3
  <2> QED
    BY <1>1, <1>2, <2>4, <2>5, StarvedBank
<1> QED
  BY <1>3, <1>4, <1>5 DEF GiveUp

-----------------------------------------------------------------------------
(***************************************************************************)
(* The invariant of the mat and of the kept result.                        *)
(***************************************************************************)
MatBefore == IsRouting \/ pc = "start" => mat = InvalidMat /\ ~initialized
MatAfter == pc \in {"area", "lengths"} => mat = BusMat(call) /\ ~mat.invalid
MatAtEnd ==
  pc = "done" =>
    /\ ~invalid => ~mat.invalid
    /\ ~mat.invalid => mat = BusMat(call) /\ bank.muxSenseAmp = call.muxSenseAmp
    /\ mat.invalid => IF initialized THEN BusMat(call).invalid ELSE ~call.internalSenseAmp
KeptMat ==
  result.kept =>
    /\ result.mat = BusMat(call) /\ ~result.mat.invalid
    /\ result.fields.muxSenseAmp = call.muxSenseAmp
    /\ call.internalSenseAmp

MatInv == MatBefore /\ MatAfter /\ MatAtEnd /\ KeptMat

LEMMA MatStart == Init => MatInv
BY DEF Init, MatInv, MatBefore, MatAfter, MatAtEnd, KeptMat, IsRouting, NoResult

\* Steps of the routing that leave the mat alone.
LEMMA RoutingMats ==
  ASSUME MatInv, UNCHANGED <<call, mat, initialized, result>>,
         IsRouting \/ pc = "start", pc' \in {"first", "route", "half", "ways"}
  PROVE  MatInv'
BY DEF MatInv, MatBefore, MatAfter, MatAtEnd, KeptMat, IsRouting

LEMMA RejectMats ==
  ASSUME MatInv, UNCHANGED <<call, mat, result>>, IsRouting, pc' = "done",
         BusMat(call).invalid, initialized', invalid'
  PROVE  MatInv'
<1>1. mat'.invalid
  BY DEF MatInv, MatBefore, InvalidMat
<1> QED
  BY <1>1 DEF MatInv, MatBefore, MatAfter, MatAtEnd, KeptMat, IsRouting

\* Measuring leaves the mat alone.
LEMMA MeasureMats ==
  ASSUME ArgsInv, MatInv, UNCHANGED <<call, bank, mat, initialized, result>>,
         pc \in {"area", "lengths"}, pc' \in {"area", "lengths", "done"}
  PROVE  MatInv'
<1>1. bank.muxSenseAmp = call.muxSenseAmp
  BY StoredIsCall DEF ArgsInv, IsLegal
<1> QED
  BY <1>1 DEF MatInv, MatBefore, MatAfter, MatAtEnd, KeptMat, IsRouting

LEMMA InitializeMats == ArgsInv /\ LoadsInv /\ MatInv /\ InitializeMat => MatInv'
<1> SUFFICES ASSUME ArgsInv, LoadsInv, MatInv, InitializeMat PROVE MatInv'
  OBVIOUS
<1>1. /\ call' = call /\ result' = result /\ initialized'
      /\ mat' = BusMat(call)
      /\ invalid' = (invalid \/ mat'.invalid)
      /\ pc' = IF mat'.invalid THEN "done" ELSE "area"
  BY RoutedMat DEF InitializeMat
<1> QED
  BY <1>1 DEF MatInv, MatBefore, MatAfter, MatAtEnd, KeptMat, IsRouting

LEMMA RebuildMats == ArgsInv /\ MatInv /\ Rebuild => MatInv'
<1> SUFFICES ASSUME ArgsInv, MatInv, Rebuild PROVE MatInv'
  OBVIOUS
<1>1. PICK repeated \in BOOLEAN : call' = Rewired(bank, repeated)
  BY DEF Rebuild, Rewired
<1>2. /\ bank = Stored(call) /\ call \in CallType /\ call.internalSenseAmp
      /\ mat = BusMat(call) /\ ~mat.invalid
      /\ result' = [kept |-> TRUE, fields |-> bank, mat |-> mat]
      /\ ~initialized' /\ mat' = InvalidMat /\ pc' = "start"
  BY DEF Rebuild, ArgsInv, IsLegal, MatInv, MatAtEnd, Copied
<1>3. Agree(call, call')
  BY <1>1, <1>2, StoredAgrees
<1>4. /\ BusMat(call') = BusMat(call) /\ call'.muxSenseAmp = call.muxSenseAmp
      /\ call'.internalSenseAmp = call.internalSenseAmp
      /\ bank.muxSenseAmp = call.muxSenseAmp
  <2>1. /\ call'.muxSenseAmp = call.muxSenseAmp
        /\ call'.internalSenseAmp = call.internalSenseAmp
    BY <1>3 DEF Agree
  <2>2. BusMat(call') = BusMat(call)
    BY <1>2, <1>3, AgreeingBanks
  <2> QED
    BY <1>2, <2>1, <2>2, StoredIsCall
<1>5. /\ result'.mat = mat /\ result'.fields = bank /\ result'.kept
  BY <1>2
<1> QED
  BY <1>2, <1>4, <1>5 DEF MatInv, MatBefore, MatAfter, MatAtEnd, KeptMat, IsRouting

LEMMA MatStep == ArgsInv /\ LevelsInv /\ LoadsInv /\ MatInv /\ [Next]_vars => MatInv'
<1> SUFFICES ASSUME ArgsInv, LevelsInv, LoadsInv, MatInv, [Next]_vars PROVE MatInv'
  OBVIOUS
<1>1. CASE RejectExternalSense
  BY <1>1 DEF RejectExternalSense, MatInv, MatBefore, MatAfter, MatAtEnd, KeptMat, IsRouting,
              InvalidMat
<1>2. CASE Begin \/ FirstHorizontal \/ NoHorizontal \/ ReduceHorizontal \/ ReduceVertical
             \/ BothHorizontal \/ BothVertical \/ LastColumn
  <2>1. /\ UNCHANGED <<call, mat, initialized, result>>
        /\ IsRouting \/ pc = "start"
    BY <1>2 DEF Begin, FirstHorizontal, NoHorizontal, ReduceHorizontal, ReduceVertical,
                BothHorizontal, BothVertical, LastColumn, flags, IsRouting
  <2>2. pc' \in {"first", "route", "half", "ways"}
    BY <1>2 DEF Begin, FirstHorizontal, NoHorizontal, ReduceHorizontal, ReduceVertical,
                BothHorizontal, BothVertical, LastColumn
  <2> QED
    BY <2>1, <2>2, RoutingMats
<1>3. CASE GiveUp
  <2>1. /\ UNCHANGED <<call, mat, result>> /\ IsRouting /\ pc' = "done"
        /\ initialized' /\ invalid'
    BY <1>3 DEF GiveUp, IsRouting
  <2> QED
    BY <1>3, <2>1, GivenUp, RejectMats
<1>4. CASE RejectWays
  <2>1. /\ UNCHANGED <<call, mat, result>> /\ IsRouting /\ pc' = "done"
        /\ initialized' /\ invalid'
    BY <1>4 DEF RejectWays, IsRouting
  <2>2. BusMat(call).invalid
    BY <1>4, RoutedMat DEF RejectWays
  <2> QED
    BY <2>1, <2>2, RejectMats
<1>5. CASE Measure
  <2>1. /\ UNCHANGED <<call, bank, mat, initialized, result>>
        /\ pc \in {"area", "lengths"} /\ pc' \in {"area", "lengths", "done"}
    BY <1>5 DEF Measure, RejectAspectRatio, BeginLengths, LengthVertical, LengthBoth,
                LengthHorizontal, EndLengths, flags
  <2> QED
    BY <2>1, MeasureMats
<1>6. CASE UNCHANGED vars
  BY <1>6 DEF vars, flags, MatInv, MatBefore, MatAfter, MatAtEnd, KeptMat, IsRouting
<1> QED
  BY <1>1, <1>2, <1>3, <1>4, <1>5, <1>6, InitializeMats, RebuildMats
     DEF Next, Route, Finished

\* The inductive invariant of the bank.
BankInv == ArgsInv /\ LevelsInv /\ LoadsInv /\ MatInv

LEMMA BankInvHolds == Spec => []BankInv
<1>1. Init => BankInv
  BY ArgsStart, InitShape, LoadsStart, MatStart DEF BankInv
<1>2. BankInv /\ [Next]_vars => BankInv'
  BY ArgsStep, NextStep, LoadsStep, MatStep DEF BankInv
<1> QED
  BY <1>1, <1>2, PTL DEF Spec

\* The bit-by-bit routing of BankWithHtree::Initialize builds the mat that the
\* divisions of BankWithoutHtree::Initialize give, and gives up only on calls that
\* those reject.
THEOREM RoutesLikeTheBus == Spec => []SameAsBus
<1>1. BankInv => SameAsBus
  BY DEF BankInv, MatInv, MatAfter, MatAtEnd, SameAsBus
<1> QED
  BY <1>1, BankInvHolds, PTL

\* A bank that the exploration builds again from the fields of a kept one has the
\* same mat, is legal, and has the same mux degree in its fields: nothing that
\* Initialize changes for its own use gets into the next call.
THEOREM RebuiltAlike == Spec => []RebuildsSameBank
<1>1. BankInv => RebuildsSameBank
  BY DEF BankInv, MatInv, MatAfter, MatAtEnd, KeptMat, RebuildsSameBank
<1> QED
  BY <1>1, BankInvHolds, PTL

-----------------------------------------------------------------------------
(***************************************************************************)
(* The capacity of a legal bank whose call divides evenly.                 *)
(***************************************************************************)
\* A legal mat has natural numbers of rows and columns.
LEMMA MatIsNatural ==
  ASSUME NEW c, IsRegular(c),
         NEW addressBit \in 0 .. MaxLog, NEW dataBit \in Nat, NEW numWay \in Nat, NEW m,
         NEW e \in 0 .. MaxLog, Degree(m) = 2 ^ e,
         NEW built, built = MatInitialize(c, addressBit, dataBit, numWay, m), ~built.invalid
  PROVE  built.numRow \in Nat /\ built.numColumn \in Nat
<1>1. PICK act, eff, d : /\ act = ActivePerRow(c) * ActivePerColumn(c)
                         /\ eff = EffectiveBits(c, addressBit) /\ d = Degree(m)
  OBVIOUS
<1>2. act \in Nat \ {0} /\ eff \in Int /\ eff <= MaxLog /\ d \in Nat \ {0}
  <2>1. act \in Nat \ {0} /\ eff \in Int /\ eff <= MaxLog
    BY <1>1, InactiveSubarrays DEF EffectiveBits, SubarrayBits, MaxLog
  <2>2. d \in Nat \ {0}
    BY <1>1, PowerIsPositive DEF MaxLog, MaxPower
  <2> QED
    BY <2>1, <2>2
<1>3. /\ eff > 0 /\ built.numRow = RowsOf(c, eff, numWay) \div d
      /\ built.numColumn = (dataBit \div act) * d * (IF c.memoryType = "tag" THEN numWay ELSE 1)
  BY <1>1 DEF MatInitialize, InvalidMat
<1>4. 2 ^ eff \in Nat
  BY <1>2, <1>3, PowerIsPositive DEF MaxLog, MaxPower
<1>5. RowsOf(c, eff, numWay) \in Nat
  BY <1>4 DEF RowsOf
<1>6. dataBit \div act \in Nat
  BY <1>2
<1> QED
  BY <1>2, <1>3, <1>5, <1>6

\* The bits that a legal mat keeps in its active subarrays: its share of the data
\* for every word.
LEMMA BitsOfMat ==
  ASSUME NEW c, IsRegular(c), c.memoryType \in {"data", "tag"},
         NEW addressBit \in 0 .. MaxLog, NEW dataBit \in Nat, NEW numWay \in Nat, NEW m,
         NEW e \in 0 .. MaxLog, Degree(m) = 2 ^ e,
         NEW built, built = MatInitialize(c, addressBit, dataBit, numWay, m), ~built.invalid
  PROVE  /\ addressBit - SubarrayBits(c) \in 0 .. MaxLog
         /\ built.numRow * built.numColumn
              = (2 ^ (addressBit - SubarrayBits(c)) * numWay)
                  * (dataBit \div (ActivePerRow(c) * ActivePerColumn(c)))
<1>1. PICK eff : eff = addressBit - SubarrayBits(c)
  OBVIOUS
<1>2. SubarrayBits(c) \in 0 .. MaxLog /\ ActivePerRow(c) * ActivePerColumn(c) \in Nat \ {0}
  BY InactiveSubarrays
<1>3. EffectiveBits(c, addressBit) = eff
  BY <1>1 DEF EffectiveBits, SubarrayBits
<1>4. PICK share : share = dataBit \div (ActivePerRow(c) * ActivePerColumn(c))
  OBVIOUS
<1>5. share \in Nat
  BY <1>2, <1>4
<1>6. PICK d : d = 2 ^ e
  OBVIOUS
<1>7. /\ eff > 0 /\ eff - Log2(d, 1) >= 0
      /\ built.numRow = RowsOf(c, eff, numWay) \div d
      /\ built.numColumn = share * d * (IF c.memoryType = "tag" THEN numWay ELSE 1)
  BY <1>3, <1>4, <1>6 DEF MatInitialize, InvalidMat, RowBits
<1>8. Log2(d, 1) = e /\ d \in Nat \ {0}
  <2>1. e \in Nat /\ e <= MaxPower
    BY DEF MaxLog, MaxPower
  <2>2. Log2(d, 1) = e
    BY <1>6, LogOfPower
  <2> QED
    BY <1>6, <2>1, <2>2, PowerIsPositive
<1>9. eff \in 0 .. MaxLog /\ e <= eff
  BY <1>1, <1>2, <1>7, <1>8 DEF MaxLog
<1>10. PICK rest : rest = 2 ^ (eff - e)
  OBVIOUS
<1>11. rest \in Nat \ {0} /\ 2 ^ eff = rest * d
  <2>1. eff - e \in Nat /\ e \in Nat /\ (eff - e) + e = eff /\ eff <= MaxPower
        /\ eff - e <= MaxPower
    BY <1>9 DEF MaxLog, MaxPower
  <2> QED
    BY <1>6, <1>10, <2>1, PowersMultiply, PowerIsPositive
<1>12. CASE c.memoryType = "data"
  <2>1. RowsOf(c, eff, numWay) = (rest * numWay) * d
    <3>1. RowsOf(c, eff, numWay) = (rest * d) * numWay
      BY <1>11, <1>12 DEF RowsOf
    <3> QED
      BY <1>8, <1>11, <3>1
  <2>2. built.numRow = rest * numWay
    <3>1. rest * numWay \in Nat
      BY <1>11
    <3> QED
      BY <1>7, <1>8, <2>1, <3>1, ExactQuotient
  <2>3. built.numColumn = share * d
    BY <1>5, <1>7, <1>8, <1>12
  <2>4. (rest * numWay) * (share * d) = ((rest * d) * numWay) * share
    BY <1>5, <1>8, <1>11
  <2> QED
    BY <1>1, <1>4, <1>9, <1>11, <2>2, <2>3, <2>4
<1>13. CASE c.memoryType = "tag"
  <2>1. RowsOf(c, eff, numWay) = rest * d
    BY <1>8, <1>11, <1>13 DEF RowsOf
  <2>2. built.numRow = rest
    BY <1>7, <1>8, <1>11, <2>1, ExactQuotient
  <2>3. built.numColumn = (share * d) * numWay
    BY <1>7, <1>13
  <2>4. rest * ((share * d) * numWay) = ((rest * d) * numWay) * share
    BY <1>5, <1>8, <1>11
  <2> QED
    BY <1>1, <1>4, <1>9, <1>11, <2>2, <2>3, <2>4
<1> QED
  BY <1>12, <1>13

\* The bits of all mats, in terms of the address bits, the ways, the active mats
\* and the active subarrays.
LEMMA BitsOfBank ==
  ASSUME NEW col \in Nat, NEW row \in Nat, NEW cm \in Nat, NEW rm \in Nat, NEW cs \in Nat,
         NEW rs \in Nat, NEW p \in Nat, NEW w \in Nat, NEW t \in Nat, NEW x \in Nat,
         NEW am \in Nat, NEW y \in Nat, NEW act \in Nat,
         row * col = (p * w) * t, x * am = rm * cm, y * act = rs * cs
  PROVE  col * row * cm * rm * cs * rs = ((p * x) * y) * ((w * am) * (t * act))
<1>1. col * row * cm * rm * cs * rs = ((row * col) * (rm * cm)) * (rs * cs)
  OBVIOUS
<1>2. @ = (((p * w) * t) * (x * am)) * (y * act)
  OBVIOUS
<1>3. @ = ((p * x) * y) * ((w * am) * (t * act))
  OBVIOUS
<1> QED
  BY <1>1, <1>2, <1>3

\* The mux degrees of a mat that gets as many ways as a set has rows.
LEMMA MuxOfMat ==
  ASSUME NEW c \in CallType, IsRegular(c), c.numRowPerSet <= c.associativity
  PROVE  /\ \E e \in 0 .. MaxLog : Degree(MuxForWays(c, c.associativity)) = 2 ^ e
         /\ \E e \in 0 .. MaxLog : Degree(Mux(c)) = 2 ^ e
<1>1. /\ IsPow2(c.associativity) /\ IsPow2(c.numRowPerSet)
      /\ \A i \in 1 .. 3 : IsPow2(Mux(c)[i])
      /\ Degree(Mux(c)) * c.associativity <= 2 ^ MaxLog
  BY DEF IsRegular, Doubled, Mux
<1>2. PICK a \in Nat, b \in Nat, d \in Nat :
         a + b + d <= 30 /\ MuxForWays(c, c.associativity) = <<2 ^ a, 2 ^ b, 2 ^ d>>
  BY <1>1, MuxExponents DEF Exponents
<1>3. PICK f \in Nat, g \in Nat, i \in Nat :
         f + g + i <= 30 /\ Mux(c) = <<2 ^ f, 2 ^ g, 2 ^ i>>
  <2>1. PICK f \in Nat, g \in Nat, i \in Nat, w \in Nat, s \in Nat :
           /\ f + g + i + w <= 30 /\ s <= w
           /\ Mux(c) = <<2 ^ f, 2 ^ g, 2 ^ i>>
           /\ c.associativity = 2 ^ w /\ c.numRowPerSet = 2 ^ s
    BY <1>1, CallExponents
  <2> QED
    BY <2>1
<1>4. Degree(MuxForWays(c, c.associativity)) = 2 ^ (a + b + d)
  BY <1>2, DegreeIsPower
<1>5. Degree(Mux(c)) = 2 ^ (f + g + i)
  BY <1>3, DegreeIsPower
<1>6. a + b + d \in 0 .. MaxLog /\ f + g + i \in 0 .. MaxLog
  BY <1>2, <1>3 DEF MaxLog
<1> QED
  BY <1>4, <1>5, <1>6, Zenon

\* The mats of an even call: what each of them gets from the bus, and that the
\* active ones get all ways and all of the block.
LEMMA EvenShares ==
  ASSUME NEW c \in CallType, IsRegular(c), IsEven(c), NEW built, built = BusMat(c),
         ~built.invalid
  PROVE  \E dataBit \in Nat, numWay \in Nat :
           /\ \E m : /\ built = MatInitialize(c, AddressBitRouteToMat(c), dataBit, numWay, m)
                    /\ \E e \in 0 .. MaxLog : Degree(m) = 2 ^ e
           /\ (numWay * ActiveMats(c))
                * ((dataBit \div (ActivePerRow(c) * ActivePerColumn(c)))
                     * (ActivePerRow(c) * ActivePerColumn(c)))
                = c.blockSize * c.associativity
<1>1. PICK am, act : am = ActiveMats(c) /\ act = ActivePerRow(c) * ActivePerColumn(c)
  OBVIOUS
<1>2. am \in Nat \ {0} /\ act \in Nat \ {0}
  BY <1>1, InactiveMats, InactiveSubarrays
<1>3. c.blockSize \in Nat /\ c.associativity \in Nat /\ c.numRowPerSet \in Nat
  BY DEF CallType
<1>4. ~(built = InvalidMat) /\ c.memoryType \in {"data", "tag"}
  BY DEF InvalidMat, IsRegular, CallType
<1>5. CASE c.memoryType = "data"
  <2>1. built = DataMat(c)
    BY <1>4, <1>5 DEF BusMat
  <2>2. /\ ~(c.numRowPerSet > c.associativity)
        /\ built = MatInitialize(c, AddressBitRouteToMat(c), c.blockSize \div am,
                                 c.associativity, MuxForWays(c, c.associativity))
    BY <1>1, <1>4, <2>1 DEF DataMat
  <2>3. PICK q \in Nat : c.blockSize = (q * act) * am
    <3>1. c.blockSize % (am * act) = 0
      <4>1. c.blockSize % (ActiveMats(c) * ActivePerRow(c) * ActivePerColumn(c)) = 0
        BY <1>5 DEF IsEven
      <4>2. /\ ActivePerRow(c) \in Nat /\ ActivePerColumn(c) \in Nat
        BY DEF CallType, ActivePerRow, ActivePerColumn, AtMost
      <4>3. ActiveMats(c) * ActivePerRow(c) * ActivePerColumn(c) = am * act
        BY <1>1, <1>2, <4>2
      <4> QED
        BY <4>1, <4>3
    <3>2. PICK d : d = am * act
      OBVIOUS
    <3>3. d \in Nat \ {0}
      BY <1>2, <3>2
    <3>4. PICK q : q = c.blockSize \div d
      OBVIOUS
    <3>5. q \in Nat /\ c.blockSize = d * q
      BY <1>3, <3>1, <3>2, <3>3, <3>4
    <3>6. d * q = (q * act) * am
      BY <1>2, <3>2, <3>5
    <3> QED
      BY <3>5, <3>6
  <2>4. c.blockSize \div am = q * act
    <3>1. q * act \in Nat
      BY <1>2, <2>3
    <3> QED
      BY <1>2, <2>3, <3>1, ExactQuotient
  <2>5. (c.blockSize \div am) \div act = q
    BY <1>2, <2>3, <2>4, ExactQuotient
  <2>6. (c.associativity * am) * (q * act) = c.blockSize * c.associativity
    BY <1>2, <1>3, <2>3
  <2>7. c.blockSize \div am \in Nat
    BY <1>2, <2>3, <2>4
  <2>8. \E e \in 0 .. MaxLog : Degree(MuxForWays(c, c.associativity)) = 2 ^ e
    BY <1>3, <2>2, MuxOfMat
  <2> QED
    BY <1>1, <1>3, <2>2, <2>5, <2>6, <2>7, <2>8
<1>6. CASE c.memoryType = "tag"
  <2>1. PICK w : w = c.associativity \div am
    OBVIOUS
  <2>2. /\ ~(c.numRowPerSet > 1) /\ ~(w < 1)
        /\ built = MatInitialize(c, AddressBitRouteToMat(c), c.blockSize, w, Mux(c))
    <3>1. built = TagMat(c)
      BY <1>4, <1>6 DEF BusMat
    <3> QED
      BY <1>1, <1>4, <2>1, <3>1 DEF TagMat
  <2>3. w \in Nat \ {0} /\ am <= c.associativity
    BY <1>2, <1>3, <2>1, <2>2
  <2>4. w * am = c.associativity
    <3>1. PICK a \in 0 .. MaxLog : c.associativity = 2 ^ a
      <4>1. IsPow2(c.associativity)
        BY DEF IsRegular, Doubled
      <4> QED
        BY <4>1, PowerOfTwo
    <3>2. PICK i \in 0 .. MaxLog, j \in 0 .. MaxLog :
             /\ i <= LevelsAcross(c) /\ j <= LevelsDown(c)
             /\ ActiveColumns(c) = 2 ^ i /\ ActiveRows(c) = 2 ^ j
      BY CallLevels
    <3>3. i + j \in 0 .. MaxLog
      <4>1. LevelsAcross(c) \in 0 .. MaxLog /\ LevelsDown(c) \in 0 .. MaxLog
            /\ LevelsAcross(c) + LevelsDown(c) <= MaxLog
        BY CallLevels
      <4> QED
        BY <3>2, <4>1 DEF MaxLog
    <3>4. am = 2 ^ (i + j)
      <4>1. am = 2 ^ i * 2 ^ j
        BY <1>1, <3>2 DEF ActiveMats, ActiveColumns, ActiveRows
      <4>2. i \in Nat /\ j \in Nat /\ i + j <= MaxPower
        BY <3>3 DEF MaxLog, MaxPower
      <4> QED
        BY <4>1, <4>2, PowersMultiply
    <3>5. i + j <= a
      BY <2>3, <3>1, <3>3, <3>4, PowersInOrder
    <3>6. PICK n : n = i + j
      OBVIOUS
    <3>7. n \in Nat /\ a \in Nat /\ n <= a /\ a <= MaxPower /\ a - n \in Nat
          /\ (a - n) + n = a
      BY <3>3, <3>5, <3>6 DEF MaxLog, MaxPower
    <3>8. w = 2 ^ (a - n)
      BY <2>1, <3>1, <3>4, <3>6, <3>7, PowersDivide
    <3>9. 2 ^ (a - n) * 2 ^ n = 2 ^ a
      BY <3>7, PowersMultiply
    <3> QED
      BY <3>1, <3>4, <3>6, <3>8, <3>9
  <2>5. PICK q \in Nat : q = c.blockSize \div act /\ q * act = c.blockSize
    <3>1. c.blockSize % act = 0
      BY <1>1, <1>6 DEF IsEven
    <3>2. PICK q : q = c.blockSize \div act
      OBVIOUS
    <3>3. q \in Nat /\ c.blockSize = act * q
      BY <1>2, <1>3, <3>1, <3>2
    <3> QED
      BY <1>2, <3>2, <3>3
  <2>6. (w * am) * (q * act) = c.blockSize * c.associativity
    BY <1>3, <2>4, <2>5
  <2>7. \E e \in 0 .. MaxLog : Degree(Mux(c)) = 2 ^ e
    <3>1. c.numRowPerSet <= c.associativity
      BY <1>2, <1>3, <2>2, <2>3
    <3> QED
      BY <3>1, MuxOfMat
  <2>8. w \in Nat
    BY <2>3
  <2> QED
    BY <1>1, <1>3, <2>2, <2>5, <2>6, <2>7, <2>8
<1> QED
  BY <1>4, <1>5, <1>6

\* A legal bank of an even call holds its capacity.
LEMMA EvenBank ==
  ASSUME NEW c \in CallType, IsRegular(c), IsEven(c), ~BusMat(c).invalid
  PROVE  BitsIn(c, BusMat(c)) = c.capacity
<1>1. PICK built : built = BusMat(c)
  OBVIOUS
<1>2. PICK am, act, x, y : /\ am = ActiveMats(c) /\ act = ActivePerRow(c) * ActivePerColumn(c)
                           /\ x = MatBits(c) /\ y = SubarrayBits(c)
  OBVIOUS
<1>3. /\ am \in Nat \ {0} /\ act \in Nat \ {0} /\ x \in 0 .. MaxLog /\ y \in 0 .. MaxLog
      /\ 2 ^ x * am = c.numRowMat * c.numColumnMat
      /\ 2 ^ y * act = c.numRowSubarray * c.numColumnSubarray
  BY <1>2, InactiveMats, InactiveSubarrays
<1>4. PICK k \in 0 .. MaxLog : c.capacity = c.blockSize * c.associativity * 2 ^ k
  BY DEF IsEven
<1>5. PICK den : den = c.blockSize * c.associativity
  OBVIOUS
<1>6. den \in Nat \ {0}
  <2>1. c.blockSize \in Nat /\ c.blockSize > 0
    BY DEF CallType, IsRegular
  <2>2. PICK a \in 0 .. MaxLog : c.associativity = 2 ^ a
    <3>1. IsPow2(c.associativity)
      BY DEF IsRegular, Doubled
    <3> QED
      BY <3>1, PowerOfTwo
  <2>3. c.associativity \in Nat \ {0}
    BY <2>2, PowerIsPositive DEF MaxLog, MaxPower
  <2> QED
    BY <1>5, <2>1, <2>3
<1>7. NumAddressBit(c) = k
  <2>1. 2 ^ k \in 1 .. 2 ^ MaxLog
    BY <1>4, PowersBounded
  <2> QED
    BY <1>4, <1>5, <1>6, <2>1, LogOfQuotient, LogOfPower DEF NumAddressBit
<1>8. PICK addressBit : addressBit = AddressBitRouteToMat(c)
  OBVIOUS
<1>9. addressBit = k - x /\ addressBit \in Int
  BY <1>2, <1>3, <1>7, <1>8 DEF AddressBitRouteToMat, MatBits, MaxLog
<1>10. PICK dataBit \in Nat, numWay \in Nat :
         /\ \E m : /\ built = MatInitialize(c, addressBit, dataBit, numWay, m)
                  /\ \E e \in 0 .. MaxLog : Degree(m) = 2 ^ e
         /\ (numWay * am) * ((dataBit \div act) * act) = den
  BY <1>1, <1>2, <1>5, <1>8, EvenShares
<1>11. PICK m : /\ built = MatInitialize(c, addressBit, dataBit, numWay, m)
                /\ \E e \in 0 .. MaxLog : Degree(m) = 2 ^ e
  BY <1>10
<1>12. PICK e \in 0 .. MaxLog : Degree(m) = 2 ^ e
  BY <1>11
<1>13. ~built.invalid /\ c.memoryType \in {"data", "tag"}
  BY <1>1 DEF IsRegular, CallType
<1>14. addressBit \in 0 .. MaxLog
  <2>1. ~(addressBit <= 0)
    <3>1. SUFFICES ASSUME addressBit <= 0 PROVE FALSE
      OBVIOUS
    <3>2. built = InvalidMat
      BY <1>9, <1>11, <3>1, StarvedMat
    <3> QED
      BY <1>13, <3>2 DEF InvalidMat
  <2> QED
    BY <1>3, <1>9, <2>1 DEF MaxLog
<1>15. PICK eff : eff = addressBit - y
  OBVIOUS
<1>16. PICK t : t = dataBit \div act
  OBVIOUS
<1>17. /\ eff \in 0 .. MaxLog
       /\ built.numRow * built.numColumn = (2 ^ eff * numWay) * t
  BY <1>2, <1>11, <1>12, <1>13, <1>14, <1>15, <1>16, BitsOfMat
<1>18. 2 ^ eff \in Nat /\ 2 ^ x \in Nat /\ 2 ^ y \in Nat /\ t \in Nat
  BY <1>3, <1>16, <1>17, PowerIsPositive DEF MaxLog, MaxPower
<1>19. (2 ^ eff * 2 ^ x) * 2 ^ y = 2 ^ k
  <2>1. eff + x \in Nat /\ (eff + x) + y = k /\ k <= MaxPower /\ eff \in Nat /\ x \in Nat
        /\ y \in Nat /\ eff + x <= MaxPower
    BY <1>3, <1>4, <1>9, <1>15, <1>17 DEF MaxLog, MaxPower
  <2>2. 2 ^ eff * 2 ^ x = 2 ^ (eff + x)
    BY <2>1, PowersMultiply
  <2>3. 2 ^ (eff + x) * 2 ^ y = 2 ^ k
    BY <2>1, PowersMultiply
  <2> QED
    BY <2>2, <2>3
<1>20. built.numRow \in Nat /\ built.numColumn \in Nat
  BY <1>11, <1>12, <1>13, <1>14, MatIsNatural
<1>21. BitsIn(c, built) = ((2 ^ eff * 2 ^ x) * 2 ^ y) * ((numWay * am) * (t * act))
  <2>1. /\ c.numColumnMat \in Nat /\ c.numRowMat \in Nat
        /\ c.numColumnSubarray \in Nat /\ c.numRowSubarray \in Nat
    BY DEF CallType
  <2>2. PICK p2, x2, y2 : p2 = 2 ^ eff /\ x2 = 2 ^ x /\ y2 = 2 ^ y
    OBVIOUS
  <2>3. p2 \in Nat /\ x2 \in Nat /\ y2 \in Nat /\ am \in Nat /\ act \in Nat
    BY <1>3, <1>18, <2>2
  <2>4. PICK row, col : row = built.numRow /\ col = built.numColumn
    OBVIOUS
  <2>5. PICK cm, rm, cs, rs : /\ cm = c.numColumnMat /\ rm = c.numRowMat
                             /\ cs = c.numColumnSubarray /\ rs = c.numRowSubarray
    OBVIOUS
  <2>6. row * col = (p2 * numWay) * t /\ x2 * am = rm * cm /\ y2 * act = rs * cs
    BY <1>3, <1>17, <2>2, <2>4, <2>5
  <2>7. /\ row \in Nat /\ col \in Nat /\ cm \in Nat /\ rm \in Nat /\ cs \in Nat /\ rs \in Nat
    BY <1>20, <2>1, <2>4, <2>5
  <2>8. col * row * cm * rm * cs * rs = ((p2 * x2) * y2) * ((numWay * am) * (t * act))
    BY <1>18, <2>3, <2>6, <2>7, BitsOfBank
  <2> QED
    BY <2>2, <2>4, <2>5, <2>8 DEF BitsIn
<1>22. BitsIn(c, built) = 2 ^ k * den
  BY <1>10, <1>16, <1>19, <1>21
<1>23. 2 ^ k \in Nat
  BY PowerIsPositive DEF MaxLog, MaxPower
<1> QED
  BY <1>1, <1>4, <1>5, <1>6, <1>22, <1>23

\* VERIFY_DATA_CAPACITY and VERIFY_TAG_CAPACITY cannot fail for a legal bank whose
\* call divides evenly: its mats hold the capacity of the call bit for bit.
THEOREM EvenCallsAreFull == Spec => []EvenCallsFit
<1>1. BankInv => EvenCallsFit
  BY EvenBank DEF BankInv, ArgsInv, MatInv, MatAfter, EvenCallsFit, CapacityNeverViolated
<1> QED
  BY <1>1, BankInvHolds, PTL

-----------------------------------------------------------------------------
(***************************************************************************)
(* The lengths of the wires.                                               *)
(***************************************************************************)
IsWidth(bits) == bits.address \in Nat /\ bits.distribute \in Nat /\ bits.broadcast \in Nat
AllWidths(array) == \A i \in DOMAIN array : IsWidth(array[i].bits)

\* Every level has natural numbers of bits, so that tracks have widths.
WidthsInv == IsWidth(route) /\ AllWidths(horizontal) /\ AllWidths(vertical)

\* A length covers what is below it, exactly when the tracks take no room.
Spans(length, levels) ==
  /\ length \in Nat /\ length >= 2 ^ levels
  /\ ~call.repeatedGlobalWire => length = 2 ^ levels

HorizontalDone(from) ==
  \A i \in from .. levelHorizontal - 1 : Spans(lengthHorizontal[i], levelHorizontal - i)
VerticalDone(from) ==
  \A i \in from .. levelVertical - 1 : Spans(lengthVertical[i], levelVertical - 1 - i)

LengthsInv ==
  /\ IsRouting \/ IsLegal =>
       DOMAIN lengthHorizontal = 0 .. levelHorizontal - 1
       /\ DOMAIN lengthVertical = 0 .. levelVertical - 1
  /\ pc = "lengths" => /\ h \in -1 .. levelHorizontal - 1 /\ v \in -1 .. levelVertical - 1
                       /\ HorizontalDone(h + 1) /\ VerticalDone(v + 1)
  /\ pc = "done" /\ ~invalid => HorizontalDone(0) /\ VerticalDone(0)

LEMMA WidthsStart == Init => WidthsInv
BY DEF Init, WidthsInv, IsWidth, AllWidths, NoRoute, NewArray, Unwritten

LEMMA FirstIsWidth ==
  ASSUME NEW c \in CallType, IsRegular(c)
  PROVE  IsWidth(FirstRoute(c))
<1>1. FirstRoute(c).address \in Nat /\ FirstRoute(c).distribute \in Nat
  BY CallBits DEF MaxLog
<1>2. c.blockSize \in Nat
  BY DEF CallType
<1>3. FloorLog2(c.associativity) \in Nat
  <2>1. PICK a \in 0 .. MaxLog : c.associativity = 2 ^ a
    <3>1. IsPow2(c.associativity)
      BY DEF IsRegular, Doubled
    <3> QED
      BY <3>1, PowerOfTwo
  <2>2. FloorLog2(2 ^ a) = a
    BY FloorLogOfPower
  <2>3. a \in Nat
    BY DEF MaxLog
  <2> QED
    BY <2>1, <2>2, <2>3
<1> QED
  BY <1>1, <1>2, <1>3 DEF IsWidth, FirstRoute

\* A split leaves natural numbers of bits.
LEMMA SplitIsWidth ==
  ASSUME IsWidth(route), ~Exhausted, NEW toActive, Split(toActive)
  PROVE  IsWidth(route')
<1>1. route.address \in Nat /\ route.address # 0 /\ route.distribute \in Nat
      /\ route.broadcast \in Nat
  BY DEF IsWidth, Exhausted
<1>2. route.address - 1 \in Nat /\ route.distribute \div 2 \in Nat
  BY <1>1
<1>3. CASE toActive > 1
  <2>1. route' = [route EXCEPT !.distribute = @ \div 2]
    BY <1>3 DEF Split
  <2> QED
    BY <1>1, <1>2, <2>1 DEF IsWidth
<1>4. CASE ~(toActive > 1)
  <2>1. route' = [route EXCEPT !.address = @ - 1]
    BY <1>4 DEF Split
  <2> QED
    BY <1>1, <1>2, <2>1 DEF IsWidth
<1> QED
  BY <1>3, <1>4

LEMMA WriteWidths ==
  ASSUME NEW array, AllWidths(array), NEW k, NEW cell, IsWidth(cell.bits)
  PROVE  AllWidths([array EXCEPT ![k] = cell])
BY DEF AllWidths

LEMMA LevelWidths ==
  ASSUME NEW array, AllWidths(array), IsWidth(route'), NEW k, NEW parent, NEW toActive, NEW wire
  PROVE  AllWidths([array EXCEPT ![k] = Level(parent, toActive, wire)])
<1>1. IsWidth(Level(parent, toActive, wire).bits)
  BY DEF Level
<1> QED
  BY <1>1, WriteWidths

LEMMA WidthsStep == ArgsInv /\ WidthsInv /\ [Next]_vars => WidthsInv'
<1> SUFFICES ASSUME ArgsInv, WidthsInv, [Next]_vars PROVE WidthsInv'
  OBVIOUS
<1>1. CASE Begin
  <2>1. /\ route' = FirstRoute(call) /\ call \in CallType /\ IsRegular(call)
        /\ horizontal' = NewArray(levelHorizontal, Unwritten)
        /\ vertical' = NewArray(levelVertical, Unwritten)
    BY <1>1 DEF Begin, ArgsInv
  <2>2. IsWidth(NoRoute)
    BY DEF IsWidth, NoRoute
  <2>3. \A n : AllWidths(NewArray(n, Unwritten))
    BY <2>2 DEF AllWidths, NewArray, Unwritten
  <2> QED
    BY <2>1, <2>3, FirstIsWidth DEF WidthsInv
<1>2. CASE FirstHorizontal
  BY <1>2, WriteWidths DEF FirstHorizontal, WidthsInv
<1>3. CASE ReduceHorizontal
  <2>1. IsWidth(route') /\ vertical' = vertical
    BY <1>3, SplitIsWidth DEF ReduceHorizontal, WidthsInv
  <2> QED
    BY <1>3, <2>1, LevelWidths DEF ReduceHorizontal, WidthsInv
<1>4. CASE ReduceVertical
  <2>1. IsWidth(route') /\ horizontal' = horizontal
    BY <1>4, SplitIsWidth DEF ReduceVertical, WidthsInv
  <2> QED
    BY <1>4, <2>1, LevelWidths DEF ReduceVertical, WidthsInv
<1>5. CASE BothHorizontal
  <2>1. IsWidth(route') /\ vertical' = vertical
    BY <1>5, SplitIsWidth DEF BothHorizontal, WidthsInv
  <2> QED
    BY <1>5, <2>1, LevelWidths DEF BothHorizontal, WidthsInv
<1>6. CASE BothVertical
  <2>1. IsWidth(route') /\ horizontal' = horizontal
    BY <1>6, SplitIsWidth DEF BothVertical, WidthsInv
  <2> QED
    BY <1>6, <2>1, LevelWidths DEF BothVertical, WidthsInv
<1>7. CASE LastColumn
  <2>1. IsWidth(route')
    BY <1>7, SplitIsWidth DEF LastColumn, WidthsInv
  <2> QED
    BY <1>7, <2>1 DEF LastColumn, WidthsInv, tree
<1>8. CASE UNCHANGED <<route, tree>>
  BY <1>8 DEF tree, WidthsInv
<1>9. CASE RejectExternalSense \/ NoHorizontal \/ GiveUp \/ RejectWays \/ InitializeMat
             \/ Measure \/ Rebuild \/ UNCHANGED vars
  BY <1>8, <1>9 DEF RejectExternalSense, NoHorizontal, GiveUp, RejectWays, InitializeMat,
        Measure, RejectAspectRatio, BeginLengths, LengthVertical, LengthBoth, LengthHorizontal,
        EndLengths, Rebuild, vars, tree
<1> QED
  BY <1>1, <1>2, <1>3, <1>4, <1>5, <1>6, <1>7, <1>9 DEF Next, Route, Finished

\* The sum of the tracks of some levels, by induction over the set of levels.
LEMMA TracksAdd ==
  ASSUME NEW S, IsFiniteSet(S), \A i \in S : Track(At(vertical, i)) \in Nat
  PROVE  LET sum == MapThenSumSet(LAMBDA i : Track(At(vertical, i)), S)
         IN  /\ sum \in Nat
             /\ (\A i \in S : Track(At(vertical, i)) = 0) => sum = 0
<1> DEFINE E(i) == Track(At(vertical, i))
           step == [p \in (SUBSET S) \X Nat |-> IF p[1] = {} THEN 0 ELSE E(Pick(p[1])) + p[2]]
           Adds(it) == it = [s \in SUBSET S |-> IF s = {} THEN 0
                                                ELSE E(Pick(s)) + it[s \ {Pick(s)}]]
           sum == MapThenSumSet(LAMBDA i : Track(At(vertical, i)), S)
<1>1. step \in [(SUBSET S) \X Nat -> Nat]
  <2>1. ASSUME NEW p \in (SUBSET S) \X Nat, p[1] # {} PROVE E(Pick(p[1])) \in Nat
    <3>1. Pick(p[1]) \in S
      BY <2>1, PickIsIn
    <3> HIDE DEF E
    <3> QED
      BY <3>1 DEF E
  <2> HIDE DEF E
  <2> QED
    BY <2>1
<1>2. \E it : Adds(it)
  <2>1. PICK it \in [SUBSET S -> Nat] : FoldsTo(it, S, 0, step)
    <3> HIDE DEF step
    <3> QED
      BY <1>1, FoldExists
  <2> HIDE DEF E
  <2>2. ASSUME NEW s \in SUBSET S, s # {}
        PROVE  step[<<s, it[s \ {Pick(s)}]>>] = E(Pick(s)) + it[s \ {Pick(s)}]
    <3>1. it[s \ {Pick(s)}] \in Nat
      BY <2>1
    <3> QED
      BY <2>2, <3>1
  <2>3. Adds(it)
    <3> HIDE DEF step
    <3> QED
      BY <2>1, <2>2 DEF FoldsTo
  <2> QED
    BY <2>3
<1>3. sum = (CHOOSE it : Adds(it))[S]
  BY DEF MapThenSumSet, MapThenFoldSet, Pick
<1>4. PICK it : Adds(it) /\ sum = it[S]
  <2> HIDE DEF Adds
  <2> QED
    BY <1>2, <1>3
<1> HIDE DEF E, step, sum
<1>5. ASSUME NEW V, V \subseteq Nat, 0 \in V,
             \A s \in SUBSET S : s # {} => \A n \in V : E(Pick(s)) + n \in V
      PROVE  sum \in V
  <2> DEFINE R == {s \in SUBSET S : it[s] \in V}
  <2>1. {} \in R
    BY <1>4, <1>5
  <2>2. ASSUME NEW s \in SUBSET S, s # {}, s \ {Pick(s)} \in R PROVE s \in R
    BY <1>4, <1>5, <2>2
  <2>3. S \in R
    <3> HIDE DEF R
    <3> QED
      BY <2>1, <2>2, FoldInduction
  <2> QED
    BY <1>4, <2>3
<1>6. ASSUME NEW s \in SUBSET S, s # {} PROVE Pick(s) \in S
  BY <1>6, PickIsIn
<1>7. sum \in Nat
  <2>1. ASSUME NEW s \in SUBSET S, s # {}, NEW n \in Nat PROVE E(Pick(s)) + n \in Nat
    <3>1. E(Pick(s)) \in Nat
      BY <1>6, <2>1 DEF E
    <3> QED
      BY <3>1
  <2>2. \A s \in SUBSET S : s # {} => \A n \in Nat : E(Pick(s)) + n \in Nat
    BY <2>1
  <2>3. Nat \subseteq Nat /\ 0 \in Nat
    OBVIOUS
  <2> QED
    BY <1>5, <2>2, <2>3, Zenon
<1>8. ASSUME \A i \in S : Track(At(vertical, i)) = 0 PROVE sum = 0
  <2>1. ASSUME NEW s \in SUBSET S, s # {}, NEW n \in {0} PROVE E(Pick(s)) + n \in {0}
    <3>1. E(Pick(s)) = 0
      BY <1>6, <1>8, <2>1 DEF E
    <3> QED
      BY <3>1
  <2>2. \A s \in SUBSET S : s # {} => \A n \in {0} : E(Pick(s)) + n \in {0}
    BY <2>1
  <2>3. {0} \subseteq Nat /\ 0 \in {0}
    OBVIOUS
  <2>4. sum \in {0}
    BY <1>5, <2>2, <2>3, Zenon
  <2> QED
    BY <2>4
<1> QED
  BY <1>7, <1>8 DEF sum

\* A track is there for repeated wires only.
IsTrack(t) == t \in Nat /\ (~call.repeatedGlobalWire => t = 0)

LEMMA TrackOfLevel ==
  ASSUME NEW array, AllWidths(array), NEW i
  PROVE  IsTrack(Track(At(array, i)))
<1>1. IsWidth(At(array, i).bits)
  BY DEF At, AllWidths, Unwritten, NoRoute, IsWidth
<1> QED
  BY <1>1 DEF IsTrack, Track, Width, IsWidth

LEMMA TracksOfLevels ==
  ASSUME AllWidths(vertical), NEW from \in Int, NEW to \in Int
  PROVE  IsTrack(MapThenSumSet(LAMBDA i : Track(At(vertical, i)), from .. to))
<1>1. IsFiniteSet(from .. to)
  BY FS_Interval
<1>2. \A i \in from .. to : IsTrack(Track(At(vertical, i)))
  BY TrackOfLevel
<1> QED
  BY <1>1, <1>2, TracksAdd DEF IsTrack

LEMMA SpansMore ==
  ASSUME NEW length, NEW levels \in 0 .. MaxLog, Spans(length, levels), NEW t, IsTrack(t)
  PROVE  Spans(length + t, levels)
<1>1. 2 ^ levels \in Nat
  BY PowerIsPositive DEF MaxLog, MaxPower
<1> QED
  BY <1>1 DEF Spans, IsTrack

LEMMA SpansTwice ==
  ASSUME NEW length, NEW levels \in 0 .. MaxLog, Spans(length, levels)
  PROVE  Spans(2 * length, levels + 1)
<1>1. 2 ^ levels \in Nat
  BY PowerIsPositive DEF MaxLog, MaxPower
<1>2. 2 ^ (levels + 1) = 2 * 2 ^ levels
  BY TwiceAsMuch DEF MaxLog, MaxPower
<1> QED
  BY <1>1, <1>2 DEF Spans

LEMMA SpansLeaf == Spans(1, 0) /\ Spans(2, 1)
BY DEF Spans

\* The deepest wire, or twice the next one, spans its levels.
LEMMA NextVerticalSpans ==
  ASSUME levelVertical \in 0 .. MaxLog, v \in 0 .. levelVertical - 1, VerticalDone(v + 1),
         DOMAIN lengthVertical = 0 .. levelVertical - 1
  PROVE  Spans(TwiceNextVertical, levelVertical - 1 - v)
<1>1. CASE v = levelVertical - 1
  <2>1. levelVertical - 1 - v = 0
    BY <1>1 DEF MaxLog
  <2> QED
    BY <1>1, <2>1, SpansLeaf DEF TwiceNextVertical
<1>2. CASE v # levelVertical - 1
  <2>1. PICK levels : levels = levelVertical - 1 - (v + 1)
    OBVIOUS
  <2>2. /\ v + 1 \in v + 1 .. levelVertical - 1 /\ v + 1 \in 0 .. levelVertical - 1
        /\ levels \in 0 .. MaxLog /\ levels + 1 = levelVertical - 1 - v
    BY <1>2, <2>1 DEF MaxLog
  <2>3. Spans(lengthVertical[v + 1], levels)
    BY <2>1, <2>2 DEF VerticalDone
  <2>4. Spans(2 * lengthVertical[v + 1], levels + 1)
    BY <2>2, <2>3, SpansTwice
  <2>5. TwiceNextVertical = 2 * lengthVertical[v + 1]
    BY <1>2, <2>2 DEF TwiceNextVertical, LengthAt
  <2> QED
    BY <2>2, <2>4, <2>5
<1> QED
  BY <1>1, <1>2

LEMMA NextHorizontalSpans ==
  ASSUME levelHorizontal \in 0 .. MaxLog, h \in 0 .. levelHorizontal - 1, HorizontalDone(h + 1),
         DOMAIN lengthHorizontal = 0 .. levelHorizontal - 1
  PROVE  Spans(TwiceNextHorizontal, levelHorizontal - h)
<1>1. CASE h = levelHorizontal - 1
  <2>1. levelHorizontal - h = 1
    BY <1>1 DEF MaxLog
  <2> QED
    BY <1>1, <2>1, SpansLeaf DEF TwiceNextHorizontal
<1>2. CASE h # levelHorizontal - 1
  <2>1. PICK levels : levels = levelHorizontal - (h + 1)
    OBVIOUS
  <2>2. /\ h + 1 \in h + 1 .. levelHorizontal - 1 /\ h + 1 \in 0 .. levelHorizontal - 1
        /\ levels \in 0 .. MaxLog /\ levels + 1 = levelHorizontal - h
    BY <1>2, <2>1 DEF MaxLog
  <2>3. Spans(lengthHorizontal[h + 1], levels)
    BY <2>1, <2>2 DEF HorizontalDone
  <2>4. Spans(2 * lengthHorizontal[h + 1], levels + 1)
    BY <2>2, <2>3, SpansTwice
  <2>5. TwiceNextHorizontal = 2 * lengthHorizontal[h + 1]
    BY <1>2, <2>2 DEF TwiceNextHorizontal, LengthAt
  <2> QED
    BY <2>2, <2>4, <2>5
<1> QED
  BY <1>1, <1>2

\* One wire measured.
LEMMA MeasureVertical ==
  ASSUME levelVertical \in 0 .. MaxLog, v \in 0 .. levelVertical - 1, VerticalDone(v + 1),
         DOMAIN lengthVertical = 0 .. levelVertical - 1, call' = call, v' = v - 1,
         NEW length, Spans(length, levelVertical - 1 - v),
         lengthVertical' = [lengthVertical EXCEPT ![v] = length]
  PROVE  VerticalDone(v + 1)' /\ v' \in -1 .. levelVertical - 1
         /\ DOMAIN lengthVertical' = 0 .. levelVertical - 1
<1>1. levelVertical' = levelVertical
  BY DEF levelVertical
<1>2. v' + 1 = v /\ v' \in -1 .. levelVertical - 1
  BY DEF MaxLog
<1>3. ASSUME NEW i \in v .. levelVertical - 1
      PROVE  Spans(lengthVertical'[i], levelVertical - 1 - i)
  <2>1. CASE i = v
    BY <2>1
  <2>2. CASE i # v
    <3>1. i \in v + 1 .. levelVertical - 1
      BY <2>2 DEF MaxLog
    <3>2. lengthVertical'[i] = lengthVertical[i]
      BY <2>2, <3>1
    <3> QED
      BY <3>1, <3>2 DEF VerticalDone
  <2> QED
    BY <2>1, <2>2
<1> QED
  BY <1>1, <1>2, <1>3 DEF VerticalDone, Spans

LEMMA MeasureHorizontal ==
  ASSUME levelHorizontal \in 0 .. MaxLog, h \in 0 .. levelHorizontal - 1, HorizontalDone(h + 1),
         DOMAIN lengthHorizontal = 0 .. levelHorizontal - 1, call' = call, h' = h - 1,
         NEW length, Spans(length, levelHorizontal - h),
         lengthHorizontal' = [lengthHorizontal EXCEPT ![h] = length]
  PROVE  HorizontalDone(h + 1)' /\ h' \in -1 .. levelHorizontal - 1
         /\ DOMAIN lengthHorizontal' = 0 .. levelHorizontal - 1
<1>1. levelHorizontal' = levelHorizontal
  BY DEF levelHorizontal
<1>2. h' + 1 = h /\ h' \in -1 .. levelHorizontal - 1
  BY DEF MaxLog
<1>3. ASSUME NEW i \in h .. levelHorizontal - 1
      PROVE  Spans(lengthHorizontal'[i], levelHorizontal - i)
  <2>1. CASE i = h
    BY <2>1
  <2>2. CASE i # h
    <3>1. i \in h + 1 .. levelHorizontal - 1
      BY <2>2 DEF MaxLog
    <3>2. lengthHorizontal'[i] = lengthHorizontal[i]
      BY <2>2, <3>1
    <3> QED
      BY <3>1, <3>2 DEF HorizontalDone
  <2> QED
    BY <2>1, <2>2
<1> QED
  BY <1>1, <1>2, <1>3 DEF HorizontalDone, Spans

LEMMA LengthsStart == Init => LengthsInv
BY DEF Init, LengthsInv, IsRouting, IsLegal

\* The levels of a call are bounded.
LEMMA LevelsBounded ==
  ASSUME ArgsInv
  PROVE  /\ levelHorizontal \in 0 .. MaxLog /\ levelVertical \in 0 .. MaxLog
         /\ call.numColumnMat = 2 ^ levelHorizontal /\ call.numRowMat = 2 ^ levelVertical
BY CallLevels DEF ArgsInv, LevelsAcross, LevelsDown, levelHorizontal, levelVertical

LEMMA BeginDomains == Begin => LengthsInv'
<1> SUFFICES ASSUME Begin PROVE LengthsInv'
  OBVIOUS
<1>1. /\ pc' = "first" /\ levelHorizontal' = levelHorizontal /\ levelVertical' = levelVertical
      /\ lengthHorizontal' = NewArray(levelHorizontal, 0)
      /\ lengthVertical' = NewArray(levelVertical, 0)
  BY DEF Begin, levelHorizontal, levelVertical
<1> QED
  BY <1>1 DEF LengthsInv, NewArray

LEMMA BeginLengthsStep == ArgsInv /\ LengthsInv /\ BeginLengths => LengthsInv'
<1> SUFFICES ASSUME ArgsInv, LengthsInv, BeginLengths PROVE LengthsInv'
  OBVIOUS
<1>1. /\ pc = "area" /\ pc' = "lengths" /\ levelHorizontal' = levelHorizontal
      /\ levelVertical' = levelVertical /\ lengthHorizontal' = lengthHorizontal
      /\ lengthVertical' = lengthVertical
      /\ h' = levelHorizontal - 1 /\ v' = levelVertical - 1
  BY DEF BeginLengths, levelHorizontal, levelVertical, lengths
<1>2. levelHorizontal \in 0 .. MaxLog /\ levelVertical \in 0 .. MaxLog
  BY LevelsBounded
<1>3. h' \in -1 .. levelHorizontal - 1 /\ v' \in -1 .. levelVertical - 1
      /\ h' + 1 = levelHorizontal /\ v' + 1 = levelVertical
  BY <1>1, <1>2 DEF MaxLog
<1>4. HorizontalDone(h + 1)' /\ VerticalDone(v + 1)'
  BY <1>1, <1>2, <1>3 DEF HorizontalDone, VerticalDone, MaxLog
<1> QED
  BY <1>1, <1>3, <1>4 DEF LengthsInv, IsLegal

\* The place of the counters while the wires are measured.
LEMMA Measuring ==
  ASSUME LengthsInv, pc = "lengths"
  PROVE  /\ h \in -1 .. levelHorizontal - 1 /\ v \in -1 .. levelVertical - 1
         /\ HorizontalDone(h + 1) /\ VerticalDone(v + 1)
         /\ DOMAIN lengthHorizontal = 0 .. levelHorizontal - 1
         /\ DOMAIN lengthVertical = 0 .. levelVertical - 1
BY DEF LengthsInv, IsLegal

\* It is enough to look at the lengths while they are measured.
LEMMA StillMeasuring ==
  ASSUME pc' = "lengths",
         (h \in -1 .. levelHorizontal - 1 /\ v \in -1 .. levelVertical - 1)',
         HorizontalDone(h + 1)', VerticalDone(v + 1)',
         (DOMAIN lengthHorizontal = 0 .. levelHorizontal - 1)',
         (DOMAIN lengthVertical = 0 .. levelVertical - 1)'
  PROVE  LengthsInv'
BY DEF LengthsInv

LEMMA LengthVerticalStep == ArgsInv /\ LengthsInv /\ LengthVertical => LengthsInv'
<1> SUFFICES ASSUME ArgsInv, LengthsInv, LengthVertical PROVE LengthsInv'
  OBVIOUS
<1>1. /\ pc = "lengths" /\ v > h /\ pc' = pc /\ call' = call /\ h' = h /\ v' = v - 1
      /\ lengthHorizontal' = lengthHorizontal
      /\ lengthVertical' = [lengthVertical EXCEPT ![v] = TwiceNextVertical]
  BY DEF LengthVertical
<1>2. levelHorizontal \in 0 .. MaxLog /\ levelVertical \in 0 .. MaxLog
  BY LevelsBounded
<1>3. /\ h \in -1 .. levelHorizontal - 1 /\ v \in -1 .. levelVertical - 1
      /\ HorizontalDone(h + 1) /\ VerticalDone(v + 1)
      /\ DOMAIN lengthHorizontal = 0 .. levelHorizontal - 1
      /\ DOMAIN lengthVertical = 0 .. levelVertical - 1
  BY <1>1, Measuring
<1>4. v \in 0 .. levelVertical - 1
  BY <1>1, <1>2, <1>3 DEF MaxLog
<1>5. Spans(TwiceNextVertical, levelVertical - 1 - v)
  BY <1>2, <1>3, <1>4, NextVerticalSpans
<1>6. VerticalDone(v + 1)' /\ v' \in -1 .. levelVertical - 1
      /\ DOMAIN lengthVertical' = 0 .. levelVertical - 1
  BY <1>1, <1>2, <1>3, <1>4, <1>5, MeasureVertical
<1>7. levelHorizontal' = levelHorizontal /\ levelVertical' = levelVertical
  BY <1>1 DEF levelHorizontal, levelVertical
<1>8. HorizontalDone(h + 1)'
  BY <1>1, <1>3, <1>7 DEF HorizontalDone, Spans
<1> QED
  BY <1>1, <1>3, <1>6, <1>7, <1>8, StillMeasuring

LEMMA LengthBothStep == ArgsInv /\ WidthsInv /\ LengthsInv /\ LengthBoth => LengthsInv'
<1> SUFFICES ASSUME ArgsInv, WidthsInv, LengthsInv, LengthBoth PROVE LengthsInv'
  OBVIOUS
<1> DEFINE trackV == IF v = levelVertical - 1 \/ h = levelHorizontal - 1 THEN 0
                     ELSE Track(At(horizontal, h + 1))
           trackH == IF h = levelHorizontal - 1
                     THEN MapThenSumSet(LAMBDA i : Track(At(vertical, i)), v .. levelVertical - 1)
                     ELSE Track(At(vertical, v))
<1>1. /\ pc = "lengths" /\ ~(v > h) /\ v >= 0 /\ pc' = pc /\ call' = call
      /\ h' = h - 1 /\ v' = v - 1
      /\ lengthVertical' = [lengthVertical EXCEPT ![v] = TwiceNextVertical + trackV]
      /\ lengthHorizontal' = [lengthHorizontal EXCEPT ![h] = TwiceNextHorizontal + trackH]
  BY DEF LengthBoth
<1>2. levelHorizontal \in 0 .. MaxLog /\ levelVertical \in 0 .. MaxLog
  BY LevelsBounded
<1>3. /\ h \in -1 .. levelHorizontal - 1 /\ v \in -1 .. levelVertical - 1
      /\ HorizontalDone(h + 1) /\ VerticalDone(v + 1)
      /\ DOMAIN lengthHorizontal = 0 .. levelHorizontal - 1
      /\ DOMAIN lengthVertical = 0 .. levelVertical - 1
  BY <1>1, Measuring
<1>4. v \in 0 .. levelVertical - 1 /\ h \in 0 .. levelHorizontal - 1
  BY <1>1, <1>2, <1>3 DEF MaxLog
<1>5. IsTrack(trackV) /\ IsTrack(trackH)
  <2>1. AllWidths(horizontal) /\ AllWidths(vertical)
    BY DEF WidthsInv
  <2>2. IsTrack(0) /\ v \in Int /\ levelVertical - 1 \in Int
    BY <1>2, <1>4 DEF IsTrack, MaxLog
  <2>3. IsTrack(MapThenSumSet(LAMBDA i : Track(At(vertical, i)), v .. levelVertical - 1))
    BY <2>1, <2>2, TracksOfLevels
  <2>4. IsTrack(Track(At(horizontal, h + 1))) /\ IsTrack(Track(At(vertical, v)))
    BY <2>1, TrackOfLevel
  <2> QED
    BY <2>2, <2>3, <2>4
<1> HIDE DEF trackV, trackH
<1>6. levelVertical - 1 - v \in 0 .. MaxLog /\ levelHorizontal - h \in 0 .. MaxLog
  BY <1>2, <1>4 DEF MaxLog
<1>7. Spans(TwiceNextVertical + trackV, levelVertical - 1 - v)
  <2>1. Spans(TwiceNextVertical, levelVertical - 1 - v)
    BY <1>2, <1>3, <1>4, NextVerticalSpans
  <2> QED
    BY <1>5, <1>6, <2>1, SpansMore
<1>8. Spans(TwiceNextHorizontal + trackH, levelHorizontal - h)
  <2>1. Spans(TwiceNextHorizontal, levelHorizontal - h)
    BY <1>2, <1>3, <1>4, NextHorizontalSpans
  <2> QED
    BY <1>5, <1>6, <2>1, SpansMore
<1>9. VerticalDone(v + 1)' /\ v' \in -1 .. levelVertical - 1
      /\ DOMAIN lengthVertical' = 0 .. levelVertical - 1
  BY <1>1, <1>2, <1>3, <1>4, <1>7, MeasureVertical
<1>10. HorizontalDone(h + 1)' /\ h' \in -1 .. levelHorizontal - 1
       /\ DOMAIN lengthHorizontal' = 0 .. levelHorizontal - 1
  BY <1>1, <1>2, <1>3, <1>4, <1>8, MeasureHorizontal
<1>11. levelHorizontal' = levelHorizontal /\ levelVertical' = levelVertical
  BY <1>1 DEF levelHorizontal, levelVertical
<1> QED
  BY <1>1, <1>9, <1>10, <1>11, StillMeasuring

LEMMA LengthHorizontalStep == ArgsInv /\ LengthsInv /\ LengthHorizontal => LengthsInv'
<1> SUFFICES ASSUME ArgsInv, LengthsInv, LengthHorizontal PROVE LengthsInv'
  OBVIOUS
<1>1. /\ pc = "lengths" /\ h >= 0 /\ pc' = pc /\ call' = call /\ h' = h - 1 /\ v' = v
      /\ lengthVertical' = lengthVertical
      /\ lengthHorizontal' = [lengthHorizontal EXCEPT ![h] = TwiceNextHorizontal]
  BY DEF LengthHorizontal
<1>2. levelHorizontal \in 0 .. MaxLog /\ levelVertical \in 0 .. MaxLog
  BY LevelsBounded
<1>3. /\ h \in -1 .. levelHorizontal - 1 /\ v \in -1 .. levelVertical - 1
      /\ HorizontalDone(h + 1) /\ VerticalDone(v + 1)
      /\ DOMAIN lengthHorizontal = 0 .. levelHorizontal - 1
      /\ DOMAIN lengthVertical = 0 .. levelVertical - 1
  BY <1>1, Measuring
<1>4. h \in 0 .. levelHorizontal - 1
  BY <1>1, <1>2, <1>3 DEF MaxLog
<1>5. Spans(TwiceNextHorizontal, levelHorizontal - h)
  BY <1>2, <1>3, <1>4, NextHorizontalSpans
<1>6. HorizontalDone(h + 1)' /\ h' \in -1 .. levelHorizontal - 1
      /\ DOMAIN lengthHorizontal' = 0 .. levelHorizontal - 1
  BY <1>1, <1>2, <1>3, <1>4, <1>5, MeasureHorizontal
<1>7. levelHorizontal' = levelHorizontal /\ levelVertical' = levelVertical
  BY <1>1 DEF levelHorizontal, levelVertical
<1>8. VerticalDone(v + 1)'
  BY <1>1, <1>3, <1>7 DEF VerticalDone, Spans
<1> QED
  BY <1>1, <1>3, <1>6, <1>7, <1>8, StillMeasuring

LEMMA EndLengthsStep == ArgsInv /\ LengthsInv /\ EndLengths => LengthsInv'
<1> SUFFICES ASSUME ArgsInv, LengthsInv, EndLengths PROVE LengthsInv'
  OBVIOUS
<1>1. /\ pc = "lengths" /\ v < 0 /\ h < 0 /\ pc' = "done" /\ call' = call
      /\ lengthHorizontal' = lengthHorizontal /\ lengthVertical' = lengthVertical
  BY DEF EndLengths, lengths
<1>2. levelHorizontal \in 0 .. MaxLog /\ levelVertical \in 0 .. MaxLog
  BY LevelsBounded
<1>3. /\ h \in -1 .. levelHorizontal - 1 /\ v \in -1 .. levelVertical - 1
      /\ HorizontalDone(h + 1) /\ VerticalDone(v + 1)
      /\ DOMAIN lengthHorizontal = 0 .. levelHorizontal - 1
      /\ DOMAIN lengthVertical = 0 .. levelVertical - 1
  BY <1>1, Measuring
<1>4. h + 1 = 0 /\ v + 1 = 0
  BY <1>1, <1>2, <1>3 DEF MaxLog
<1>5. levelHorizontal' = levelHorizontal /\ levelVertical' = levelVertical
  BY <1>1 DEF levelHorizontal, levelVertical
<1>6. HorizontalDone(0)' /\ VerticalDone(0)'
  BY <1>1, <1>3, <1>4, <1>5 DEF HorizontalDone, VerticalDone, Spans
<1> QED
  BY <1>1, <1>3, <1>5, <1>6 DEF LengthsInv

\* The other steps leave the lengths alone.
LEMMA LengthsKept ==
  ASSUME LengthsInv, UNCHANGED <<call, lengths>>,
         \/ (IsRouting \/ pc = "area") /\ pc' \in {"first", "route", "half", "ways", "area"}
         \/ pc' = "done" /\ invalid'
         \/ UNCHANGED <<pc, invalid, h, v>>
  PROVE  LengthsInv'
<1>1. /\ levelHorizontal' = levelHorizontal /\ levelVertical' = levelVertical
      /\ lengthHorizontal' = lengthHorizontal /\ lengthVertical' = lengthVertical
  BY DEF levelHorizontal, levelVertical, lengths
<1>2. CASE (IsRouting \/ pc = "area") /\ pc' \in {"first", "route", "half", "ways", "area"}
  BY <1>1, <1>2 DEF LengthsInv, IsLegal
<1>3. CASE pc' = "done" /\ invalid'
  BY <1>1, <1>3 DEF LengthsInv, IsRouting, IsLegal
<1>4. CASE UNCHANGED <<pc, invalid, h, v>>
  <2>1. \A i : HorizontalDone(i)' = HorizontalDone(i) /\ VerticalDone(i)' = VerticalDone(i)
    BY <1>1 DEF HorizontalDone, VerticalDone, Spans
  <2> QED
    BY <1>1, <1>4, <2>1 DEF LengthsInv, IsRouting, IsLegal
<1> QED
  BY <1>2, <1>3, <1>4

LEMMA LengthsStep == ArgsInv /\ WidthsInv /\ LengthsInv /\ [Next]_vars => LengthsInv'
<1> SUFFICES ASSUME ArgsInv, WidthsInv, LengthsInv, [Next]_vars PROVE LengthsInv'
  OBVIOUS
<1>1. CASE RejectExternalSense \/ GiveUp \/ RejectWays \/ RejectAspectRatio
  BY <1>1, LengthsKept DEF RejectExternalSense, GiveUp, RejectWays, RejectAspectRatio
<1>2. CASE FirstHorizontal \/ NoHorizontal \/ ReduceHorizontal \/ ReduceVertical
             \/ BothHorizontal \/ BothVertical \/ LastColumn
  <2>1. UNCHANGED <<call, lengths>> /\ IsRouting /\ pc' \in {"first", "route", "half", "ways"}
    BY <1>2 DEF FirstHorizontal, NoHorizontal, ReduceHorizontal, ReduceVertical,
                BothHorizontal, BothVertical, LastColumn, IsRouting
  <2> QED
    BY <2>1, LengthsKept
<1>3. CASE InitializeMat
  <2>1. UNCHANGED <<call, lengths>> /\ IsRouting
    BY <1>3 DEF InitializeMat, IsRouting
  <2>2. pc' = "area" \/ (pc' = "done" /\ invalid')
    BY <1>3 DEF InitializeMat
  <2> QED
    BY <2>1, <2>2, LengthsKept
<1>4. CASE Rebuild
  BY <1>4 DEF Rebuild, LengthsInv, IsRouting, IsLegal
<1>5. CASE UNCHANGED vars
  BY <1>5, LengthsKept DEF vars, loop, flags
<1> QED
  BY <1>1, <1>2, <1>3, <1>4, <1>5, BeginDomains, BeginLengthsStep, LengthVerticalStep,
     LengthBothStep, LengthHorizontalStep, EndLengthsStep
     DEF Next, Route, Measure, Finished

LEMMA WiresReach == ArgsInv /\ LevelsInv /\ LengthsInv => WiresReachTheMats
<1> SUFFICES ASSUME ArgsInv, LevelsInv, LengthsInv, pc = "done", ~invalid
             PROVE  /\ \A i \in DOMAIN horizontal :
                         IsWritten(horizontal[i])
                         /\ lengthHorizontal[i] >= 2 ^ (levelHorizontal - i)
                    /\ \A i \in DOMAIN vertical :
                         IsWritten(vertical[i]) /\ 2 * lengthVertical[i] >= 2 ^ (levelVertical - i)
                    /\ ~call.repeatedGlobalWire =>
                         /\ levelHorizontal > 0 => lengthHorizontal[0] = call.numColumnMat
                         /\ levelVertical > 0 => 2 * lengthVertical[0] = call.numRowMat
  BY DEF WiresReachTheMats
<1>1. /\ levelHorizontal \in 0 .. MaxLog /\ levelVertical \in 0 .. MaxLog
      /\ call.numColumnMat = 2 ^ levelHorizontal /\ call.numRowMat = 2 ^ levelVertical
  BY LevelsBounded
<1>2. /\ \A i \in DOMAIN horizontal : i \in 0 .. levelHorizontal - 1 /\ IsWritten(horizontal[i])
      /\ \A i \in DOMAIN vertical : i \in 0 .. levelVertical - 1 /\ IsWritten(vertical[i])
  <2>1. Written(0, 0)
    BY DEF LevelsInv, AtEnd
  <2>2. /\ DOMAIN horizontal = 0 .. levelHorizontal - 1
        /\ DOMAIN vertical = 0 .. levelVertical - 1
    BY <2>1 DEF Written, FirstWritten
  <2>3. /\ \A i \in DOMAIN horizontal : i < levelHorizontal /\ IsWritten(horizontal[i])
        /\ \A i \in DOMAIN vertical : i < levelVertical /\ IsWritten(vertical[i])
    <3>1. levelHorizontal \in Nat /\ levelVertical \in Nat
      BY <1>1 DEF MaxLog
    <3>2. /\ \A i \in 0 .. levelHorizontal - 1 : IsProper(horizontal[i])
          /\ \A i \in 0 .. levelVertical - 1 : IsProper(vertical[i])
      BY <2>1, <3>1 DEF Written, FirstWritten
    <3> QED
      BY <2>2, <3>1, <3>2 DEF IsProper, IsWritten, Positive
  <2> QED
    BY <2>2, <2>3
<1>3. HorizontalDone(0) /\ VerticalDone(0)
  BY DEF LengthsInv
<1>4. ASSUME NEW i \in 0 .. levelHorizontal - 1
      PROVE  /\ lengthHorizontal[i] >= 2 ^ (levelHorizontal - i)
             /\ ~call.repeatedGlobalWire => lengthHorizontal[i] = 2 ^ (levelHorizontal - i)
  BY <1>3 DEF HorizontalDone, Spans
<1>5. ASSUME NEW i \in 0 .. levelVertical - 1
      PROVE  /\ 2 * lengthVertical[i] >= 2 ^ (levelVertical - i)
             /\ ~call.repeatedGlobalWire => 2 * lengthVertical[i] = 2 ^ (levelVertical - i)
  <2>1. PICK levels : levels = levelVertical - 1 - i
    OBVIOUS
  <2>2. levels \in 0 .. MaxLog /\ levels + 1 = levelVertical - i
    BY <1>1, <2>1 DEF MaxLog
  <2>3. Spans(lengthVertical[i], levels)
    BY <1>3, <2>1 DEF VerticalDone
  <2>4. Spans(2 * lengthVertical[i], levels + 1)
    BY <2>2, <2>3, SpansTwice
  <2> QED
    BY <2>2, <2>4 DEF Spans
<1>6. /\ levelHorizontal - 0 = levelHorizontal /\ levelVertical - 0 = levelVertical
      /\ levelHorizontal > 0 => 0 \in 0 .. levelHorizontal - 1
      /\ levelVertical > 0 => 0 \in 0 .. levelVertical - 1
  BY <1>1 DEF MaxLog
<1> QED
  BY <1>1, <1>2, <1>4, <1>5, <1>6

\* CalculateLatencyAndPower reads only cells that Initialize has written, and
\* CalculateArea makes no wire shorter than the mats it spans: the root is
\* exactly as long as its side of the bank when the tracks take no room.
THEOREM WiresSpanTheBank == Spec => []WiresReachTheMats
<1>1. Init => WidthsInv /\ LengthsInv
  BY WidthsStart, LengthsStart
<1>2. BankInv /\ WidthsInv /\ LengthsInv /\ [Next]_vars => (WidthsInv /\ LengthsInv)'
  BY WidthsStep, LengthsStep DEF BankInv
<1>3. BankInv /\ LengthsInv => WiresReachTheMats
  BY WiresReach DEF BankInv
<1> QED
  BY <1>1, <1>2, <1>3, BankInvHolds, PTL DEF Spec
=============================================================================
