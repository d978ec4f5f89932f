------------------------- MODULE SearchSpaceProofs -------------------------
(***************************************************************************)
(* For every configuration file and all limits of the macros: reading the  *)
(* file a second time gives back the ranges of the first reading, the last *)
(* choices of the file hold in the search of the data array, tag and data  *)
(* arrays agree on the index, and the thirteen loops come to every         *)
(* organisation of the ranges exactly once.                                *)
(***************************************************************************)
EXTENDS SearchSpace, CommonProofs, FunctionTheorems

\* The places of main() where the ranges are those of the file.
Searching == {"data setup", "data", "data end", "constrained"}

\* The ranges after a line, computed from the ranges before it.
AfterLine(lines, i, ranges) ==
  Narrow(ranges, Fixed(lines[i].option, lines[i].value, ranges))

\* How far the first reading has come.
LinesRead == IF readings = 1 /\ pc = "read" THEN line ELSE Len(file) + 1

Counters ==
  /\ Len(file) \in Nat
  /\ readings \in {1, 2}
  /\ line \in 1 .. Len(file) + 1

\* The record of the first reading begins with the restored ranges and follows
\* the lines.
RecordFollowsFile ==
  /\ SameExceptRowPerSet(firstRead[1], Restored(1, Constructed))
  /\ \A i \in 1 .. LinesRead - 1 : firstRead[i + 1] = AfterLine(file, i, firstRead[i])

\* During the first reading the ranges are the last ones recorded.
RecordIsCurrent == readings = 1 /\ pc = "read" => space = firstRead[line]

\* After a reading, the tag search is that of the first reading, and other
\* searches have the ranges the first reading ended with.
ReadingIsOver ==
  /\ pc \in {"tag setup", "tag", "tag end"} => readings = 1
  /\ pc \in Searching => SameExceptRowPerSet(space, firstRead[Len(file) + 1])

ReadingInv ==
  /\ Counters
  /\ RecordFollowsFile
  /\ RecordIsCurrent
  /\ ReadingIsOver
  /\ RangesRestored

-----------------------------------------------------------------------------
\* What a line does to the ranges, rows per set apart, depends on those ranges
\* only.
LEMMA LineAgrees ==
  ASSUME NEW option, NEW value, NEW ranges, NEW other,
         SameExceptRowPerSet(ranges, other)
  PROVE  SameExceptRowPerSet(Narrow(ranges, Fixed(option, value, ranges)),
                             Narrow(other, Fixed(option, value, other)))
<1>1. ranges["NumColumnMat"] = other["NumColumnMat"]
  BY DEF SameExceptRowPerSet, Dim, LoopDim, Loops
<1>2. Fixed(option, value, ranges) = Fixed(option, value, other)
  BY <1>1 DEF Fixed, FixCacti
<1> QED
  BY <1>2 DEF SameExceptRowPerSet, Narrow

\* RESTORE_SEARCH_SIZE, rows per set apart, gives the same ranges whatever they
\* were before and whatever the associativity is.
LEMMA RestoredAgrees ==
  ASSUME NEW a, NEW b, NEW ranges, NEW other
  PROVE  SameExceptRowPerSet(Restored(a, ranges), Restored(b, other))
BY DEF SameExceptRowPerSet, Restored, Ranges

LEMMA SameTransitive ==
  ASSUME NEW p, NEW q, NEW r, SameExceptRowPerSet(p, q), SameExceptRowPerSet(r, q)
  PROVE  SameExceptRowPerSet(p, r)
BY DEF SameExceptRowPerSet

\* The invariant holds at the start.
LEMMA InitReading == Init => ReadingInv
<1> SUFFICES ASSUME Init PROVE ReadingInv
  OBVIOUS
<1> USE DEF Init
<1>1. Counters
  BY FilesAssumption DEF Counters
<1>2. RecordFollowsFile
  BY DEF RecordFollowsFile, LinesRead, SameExceptRowPerSet
<1>3. RecordIsCurrent /\ ReadingIsOver /\ RangesRestored
  BY DEF RecordIsCurrent, ReadingIsOver, RangesRestored, Searching
<1> QED
  BY <1>1, <1>2, <1>3 DEF ReadingInv

\* A line of the first reading is recorded, a line of the second one repeats it.
LEMMA ReadLinePreserves == ReadingInv /\ ReadLine => ReadingInv'
<1> SUFFICES ASSUME ReadingInv, ReadLine PROVE ReadingInv'
  OBVIOUS
<1>1. /\ pc = "read" /\ pc' = "read" /\ line' = line + 1 /\ line <= Len(file)
      /\ readings' = readings /\ file' = file
      /\ space' = AfterLine(file, line, space)
      /\ firstRead' = Recorded(TRUE)
  BY DEF ReadLine, input, AfterLine
<1>2. Counters'
  BY <1>1 DEF ReadingInv, Counters
<1>3. CASE readings = 1
  <2>1. /\ \A i \in 1 .. line : firstRead'[i] = firstRead[i]
        /\ firstRead'[line + 1] = space'
    BY <1>1, <1>3 DEF Recorded, ReadingInv, Counters
  <2>2. space = firstRead[line]
    BY <1>1, <1>3 DEF ReadingInv, RecordIsCurrent
  <2>3. RecordFollowsFile'
    <3>1. \A i \in 1 .. line - 1 : firstRead[i + 1] = AfterLine(file, i, firstRead[i])
      BY <1>1, <1>3 DEF ReadingInv, RecordFollowsFile, LinesRead
    <3>2. ASSUME NEW i \in 1 .. line PROVE firstRead'[i + 1] = AfterLine(file, i, firstRead'[i])
      <4>1. line \in Nat /\ i \in Nat /\ firstRead'[i] = firstRead[i]
        BY <2>1 DEF ReadingInv, Counters
      <4>2. CASE i = line
        BY <1>1, <2>1, <2>2, <4>1, <4>2
      <4>3. CASE i \in 1 .. line - 1
        <5>1. firstRead'[i + 1] = firstRead[i + 1]
          BY <2>1, <4>1, <4>3
        <5> QED
          BY <3>1, <4>1, <4>3, <5>1
      <4> QED
        BY <4>1, <4>2, <4>3
    <3>3. SameExceptRowPerSet(firstRead'[1], Restored(1, Constructed))
      BY <2>1 DEF ReadingInv, Counters, RecordFollowsFile
    <3>4. LinesRead' - 1 = line
      BY <1>1, <1>3 DEF LinesRead, ReadingInv, Counters
    <3> QED
      BY <1>1, <3>2, <3>3, <3>4 DEF RecordFollowsFile
  <2>4. RecordIsCurrent'
    BY <1>1, <2>1 DEF RecordIsCurrent
  <2>5. (ReadingIsOver /\ RangesRestored)'
    BY <1>1, <1>3 DEF ReadingIsOver, RangesRestored, Searching
  <2> QED
    BY <1>2, <2>3, <2>4, <2>5 DEF ReadingInv
<1>4. CASE readings = 2
  <2>1. firstRead' = firstRead
    BY <1>1, <1>4 DEF Recorded
  <2>2. RecordFollowsFile'
    <3>1. LinesRead' = LinesRead
      BY <1>1, <1>4 DEF LinesRead
    <3> QED
      BY <1>1, <2>1, <3>1 DEF ReadingInv, RecordFollowsFile, AfterLine
  <2>3. SameExceptRowPerSet(space', firstRead[line + 1])
    <3>1. SameExceptRowPerSet(space, firstRead[line])
      BY <1>1, <1>4 DEF ReadingInv, RangesRestored
    <3>2. firstRead[line + 1] = AfterLine(file, line, firstRead[line])
      BY <1>1, <1>4 DEF ReadingInv, RecordFollowsFile, LinesRead, Counters
    <3> QED
      BY <1>1, <3>1, <3>2, LineAgrees DEF AfterLine
  <2>4. (RecordIsCurrent /\ ReadingIsOver)'
    BY <1>1, <1>4 DEF RecordIsCurrent, ReadingIsOver, Searching
  <2>5. RangesRestored'
    BY <1>1, <2>1, <2>3 DEF RangesRestored
  <2> QED
    BY <1>2, <2>2, <2>4, <2>5 DEF ReadingInv
<1> QED
  BY <1>3, <1>4 DEF ReadingInv, Counters

\* A step that leaves file, ranges, readings and record alone, and does not
\* begin a reading or claim more about the ranges than is known.
LEMMA QuietPreserves ==
  ASSUME ReadingInv,
         UNCHANGED <<file, line, readings, space, firstRead>>,
         pc' # "read", LinesRead' = LinesRead,
         pc' \in {"tag setup", "tag", "tag end"} => readings = 1,
         pc' \in Searching => SameExceptRowPerSet(space, firstRead[Len(file) + 1])
  PROVE  ReadingInv'
<1>1. Counters' /\ RecordFollowsFile'
  BY DEF ReadingInv, Counters, RecordFollowsFile
<1>2. RecordIsCurrent' /\ ReadingIsOver' /\ RangesRestored'
  BY DEF RecordIsCurrent, ReadingIsOver, RangesRestored, Searching
<1> QED
  BY <1>1, <1>2 DEF ReadingInv

\* The end of a reading: the last recorded ranges, or theirs again.
LEMMA ApplyConstraintPreserves == ReadingInv /\ ApplyConstraint => ReadingInv'
<1> SUFFICES ASSUME ReadingInv, ApplyConstraint PROVE ReadingInv'
  OBVIOUS
<1>1. /\ pc = "read" /\ line > Len(file)
      /\ UNCHANGED <<file, line, readings, space, firstRead>>
      /\ pc' # "read"
      /\ pc' \in {"tag setup", "tag", "tag end"} => readings = 1
  BY DEF ApplyConstraint, input
<1>2. line = Len(file) + 1 /\ readings \in {1, 2}
  <2>1. Len(file) \in Nat /\ line \in 1 .. Len(file) + 1 /\ readings \in {1, 2}
    BY DEF ReadingInv, Counters
  <2>2. ASSUME NEW n \in Nat, NEW k \in 1 .. n + 1, k > n PROVE k = n + 1
    BY <2>2
  <2> QED
    BY <1>1, <2>1, <2>2
<1>3. LinesRead' = LinesRead
  BY <1>1, <1>2 DEF LinesRead
<1>4. SameExceptRowPerSet(space, firstRead[Len(file) + 1])
  <2>1. CASE readings = 1
    BY <1>1, <1>2, <2>1 DEF ReadingInv, RecordIsCurrent, SameExceptRowPerSet
  <2>2. CASE readings = 2
    BY <1>1, <1>2, <2>2 DEF ReadingInv, RangesRestored
  <2> QED
    BY <1>2, <2>1, <2>2
<1> QED
  BY <1>1, <1>3, <1>4, QuietPreserves

\* The tag search has its own ranges, in the first pass only.
LEMMA StartTagPreserves == ReadingInv /\ StartTag => ReadingInv'
<1> SUFFICES ASSUME ReadingInv, StartTag PROVE ReadingInv'
  OBVIOUS
<1>1. /\ pc = "tag setup" /\ pc' \in {"tag", "exit"}
      /\ UNCHANGED <<file, line, readings, firstRead>>
  BY DEF StartTag, BeginSearch, input
<1>2. readings = 1
  BY <1>1 DEF ReadingInv, ReadingIsOver
<1>3. LinesRead' = LinesRead
  BY <1>1 DEF LinesRead
<1>4. Counters' /\ RecordFollowsFile'
  BY <1>1, <1>3 DEF ReadingInv, Counters, RecordFollowsFile
<1>5. RecordIsCurrent' /\ ReadingIsOver' /\ RangesRestored'
  BY <1>1, <1>2 DEF RecordIsCurrent, ReadingIsOver, RangesRestored, Searching
<1> QED
  BY <1>4, <1>5 DEF ReadingInv

\* Reading again begins where reading began.
LEMMA ReadAgainPreserves == ReadingInv /\ ReadAgain => ReadingInv'
<1> SUFFICES ASSUME ReadingInv, ReadAgain PROVE ReadingInv'
  OBVIOUS
<1>1. /\ pc = "tag end" /\ pc' = "read" /\ line' = 1 /\ readings' = 2
      /\ file' = file /\ firstRead' = firstRead
      /\ space' = Restored(param.Associativity, space)
  BY DEF ReadAgain, input
<1> readings' # 1
  <2>1. 2 # 1
    OBVIOUS
  <2> QED
    BY <1>1, <2>1
<1>2. Counters'
  <2>1. Len(file') \in Nat
    BY <1>1 DEF ReadingInv, Counters
  <2>2. line' \in 1 .. Len(file') + 1 /\ readings' \in {1, 2}
    <3>1. ASSUME NEW n \in Nat PROVE 1 \in 1 .. n + 1
      OBVIOUS
    <3> QED
      BY <1>1, <2>1, <3>1
  <2> QED
    BY <2>1, <2>2 DEF Counters
<1>3. RecordFollowsFile'
  <2>1. LinesRead' = Len(file) + 1
    <3>1. (IF readings' = 1 /\ pc' = "read" THEN line' ELSE Len(file') + 1) = Len(file) + 1
      BY <1>1
    <3> QED
      BY <3>1 DEF LinesRead
  <2>2. LinesRead = Len(file) + 1
    BY <1>1 DEF LinesRead
  <2> QED
    BY <1>1, <2>1, <2>2 DEF ReadingInv, RecordFollowsFile
<1>4. SameExceptRowPerSet(space', firstRead[1])
  <2>1. SameExceptRowPerSet(space', Restored(1, Constructed))
    BY <1>1, RestoredAgrees
  <2>2. SameExceptRowPerSet(firstRead[1], Restored(1, Constructed))
    BY DEF ReadingInv, RecordFollowsFile
  <2> QED
    BY <2>1, <2>2, SameTransitive
<1>5. RecordIsCurrent' /\ ReadingIsOver'
  BY <1>1 DEF RecordIsCurrent, ReadingIsOver, Searching
<1>6. RangesRestored'
  BY <1>1, <1>4 DEF RangesRestored
<1> QED
  BY <1>2, <1>3, <1>5, <1>6 DEF ReadingInv

\* The data search changes nothing but rows per set.
LEMMA StartDataPreserves == ReadingInv /\ StartData => ReadingInv'
<1> SUFFICES ASSUME ReadingInv, StartData PROVE ReadingInv'
  OBVIOUS
<1>1. /\ pc = "data setup" /\ pc' \in {"data", "exit"}
      /\ UNCHANGED <<file, line, readings, firstRead>>
      /\ space' = DataRanges
  BY DEF StartData, BeginSearch, input
<1>2. LinesRead' = LinesRead
  BY <1>1 DEF LinesRead
<1>3. SameExceptRowPerSet(space, firstRead[Len(file) + 1])
  BY <1>1 DEF ReadingInv, ReadingIsOver, Searching
<1>4. SameExceptRowPerSet(DataRanges, space)
  <2>1. CASE DataRanges = space
    BY <2>1 DEF SameExceptRowPerSet
  <2>2. CASE DataRanges = [space EXCEPT !["NumRowPerSet"] = From(1, 1)]
    <3>1. \A d : d # "NumRowPerSet" =>
            [space EXCEPT !["NumRowPerSet"] = From(1, 1)][d] = space[d]
      OBVIOUS
    <3> QED
      BY <2>2, <3>1 DEF SameExceptRowPerSet
  <2> QED
    BY <2>1, <2>2 DEF DataRanges
<1>5. SameExceptRowPerSet(space', firstRead[Len(file) + 1])
  BY <1>1, <1>3, <1>4 DEF SameExceptRowPerSet
<1>6. Counters' /\ RecordFollowsFile'
  BY <1>1, <1>2 DEF ReadingInv, Counters, RecordFollowsFile
<1>7. RecordIsCurrent' /\ ReadingIsOver' /\ RangesRestored'
  BY <1>1, <1>5 DEF RecordIsCurrent, ReadingIsOver, RangesRestored, Searching
<1> QED
  BY <1>6, <1>7 DEF ReadingInv

\* The steps of a search, and those between searches, leave the ranges alone.
LEMMA SearchPreserves ==
  ASSUME ReadingInv,
         \/ TryTag \/ NoTagSolution \/ TryData \/ StartConstrained \/ TryConstrained
         \/ FinishData
  PROVE  ReadingInv'
<1>1. /\ UNCHANGED <<file, line, readings, space, firstRead>>
      /\ pc # "read" /\ pc' # "read"
      /\ pc' \in {"tag setup", "tag", "tag end"} => pc = "tag"
      /\ pc' \in Searching => pc \in Searching
  <2>1. CASE TryTag
    BY <2>1 DEF TryTag, Iterate, Searching, input
  <2>2. CASE NoTagSolution \/ FinishData
    BY <2>2 DEF NoTagSolution, FinishData, Searching, input
  <2>3. CASE TryData \/ TryConstrained
    BY <2>3 DEF TryData, TryConstrained, Iterate, Searching, input
  <2>4. CASE StartConstrained
    BY <2>4 DEF StartConstrained, BeginSearch, Searching, input
  <2> QED
    BY <2>1, <2>2, <2>3, <2>4
<1>2. LinesRead' = LinesRead
  BY <1>1 DEF LinesRead
<1>3. /\ pc' \in {"tag setup", "tag", "tag end"} => readings = 1
      /\ pc' \in Searching => SameExceptRowPerSet(space, firstRead[Len(file) + 1])
  BY <1>1 DEF ReadingInv, ReadingIsOver
<1> QED
  BY <1>1, <1>2, <1>3, QuietPreserves

\* Nothing changes when nothing happens.
LEMMA StutterPreserves == ReadingInv /\ UNCHANGED vars => ReadingInv'
BY DEF vars, ReadingInv, Counters, RecordFollowsFile, LinesRead, RecordIsCurrent,
       ReadingIsOver, RangesRestored

\* The step lemma.
LEMMA NextReading == ReadingInv /\ [Next]_vars => ReadingInv'
<1> SUFFICES ASSUME ReadingInv, [Next]_vars PROVE ReadingInv'
  OBVIOUS
<1>1. CASE ReadLine \/ ApplyConstraint
  BY <1>1, ReadLinePreserves, ApplyConstraintPreserves
<1>2. CASE StartTag \/ ReadAgain \/ StartData
  BY <1>2, StartTagPreserves, ReadAgainPreserves, StartDataPreserves
<1>3. CASE \/ TryTag \/ NoTagSolution \/ TryData \/ StartConstrained \/ TryConstrained
           \/ FinishData
  BY <1>3, SearchPreserves
<1>4. CASE Finished \/ UNCHANGED vars
  BY <1>4, StutterPreserves DEF Finished
<1> QED
  BY <1>1, <1>2, <1>3, <1>4 DEF Next

\* For every configuration file and all limits of the macros, the second reading
\* repeats the first, and the data array is searched in the ranges that the first
\* reading ended with, rows per set apart (main.cpp:250-251).
THEOREM SearchRangesRestored == Spec => []RangesRestored
<1>1. ReadingInv => RangesRestored
  BY DEF ReadingInv
<1> QED
  BY <1>1, InitReading, NextReading, PTL DEF Spec
-----------------------------------------------------------------------------
(***************************************************************************)
(* The loops of BIGFOR.                                                    *)
(***************************************************************************)
LEMMA LoopsAreDistinct ==
  /\ DOMAIN Loops = 1 .. 13
  /\ \A i, j \in 1 .. 13 : Loops[i] = Loops[j] => i = j
<1>1. DOMAIN Loops = 1 .. 13
  BY DEF Loops
<1>2. ASSUME NEW i \in 1 .. 13, NEW j \in 1 .. 13, i < j
      PROVE  Loops[i] # Loops[j]
  BY <1>2 DEF Loops
<1> QED
  BY <1>1, <1>2

LEMMA PositionOfLoop ==
  ASSUME NEW i \in 1 .. 13
  PROVE  Position(Loops[i]) = i /\ Loops[i] \in LoopDim
<1>1. \A j \in DOMAIN Loops : Loops[j] = Loops[i] <=> j = i
  BY LoopsAreDistinct
<1> QED
  BY <1>1, LoopsAreDistinct DEF Position, LoopDim

LEMMA DimHasPosition ==
  ASSUME NEW d \in LoopDim
  PROVE  Position(d) \in 1 .. 13 /\ Loops[Position(d)] = d
<1>1. PICK i \in 1 .. 13 : d = Loops[i]
  BY LoopsAreDistinct DEF LoopDim
<1> QED
  BY <1>1, PositionOfLoop

\* What is activated comes after what there is.
LEMMA TotalIsOuter ==
  ASSUME NEW d \in ActiveDim
  PROVE  /\ d \in LoopDim /\ TotalOf[d] \in LoopDim \ ActiveDim
         /\ Position(TotalOf[d]) < Position(d)
         /\ d # "AreaOptimizationLevel" /\ TotalOf[d] # "AreaOptimizationLevel"
<1>1. /\ Position("NumRowMat") = 1 /\ Position("NumColumnMat") = 2
      /\ Position("NumActiveMatPerRow") = 3 /\ Position("NumActiveMatPerColumn") = 4
      /\ Position("NumRowSubarray") = 5 /\ Position("NumColumnSubarray") = 6
      /\ Position("NumActiveSubarrayPerRow") = 7 /\ Position("NumActiveSubarrayPerColumn") = 8
  <2>1. \A i \in 1 .. 13 : Position(Loops[i]) = i
    BY PositionOfLoop
  <2>2. /\ Loops[1] = "NumRowMat" /\ Loops[2] = "NumColumnMat"
        /\ Loops[3] = "NumActiveMatPerRow" /\ Loops[4] = "NumActiveMatPerColumn"
        /\ Loops[5] = "NumRowSubarray" /\ Loops[6] = "NumColumnSubarray"
        /\ Loops[7] = "NumActiveSubarrayPerRow" /\ Loops[8] = "NumActiveSubarrayPerColumn"
    BY DEF Loops
  <2> QED
    BY <2>1, <2>2
<1>2. d \in {"NumActiveMatPerRow", "NumActiveMatPerColumn", "NumActiveSubarrayPerRow",
             "NumActiveSubarrayPerColumn"}
  BY DEF ActiveDim, TotalOf
<1>3. /\ d \in LoopDim /\ TotalOf[d] \in LoopDim \ ActiveDim
      /\ d # "AreaOptimizationLevel" /\ TotalOf[d] # "AreaOptimizationLevel"
  BY <1>2 DEF ActiveDim, TotalOf, LoopDim, Loops
<1>4. Position(TotalOf[d]) < Position(d)
  BY <1>1, <1>2 DEF TotalOf
<1> QED
  BY <1>3, <1>4

\* Some loop is the innermost of those that can step.
LEMMA InnermostExists ==
  ASSUME NEW S, S \subseteq 1 .. 13, S # {}
  PROVE  \E i \in S : \A j \in S : j <= i
<1> SUFFICES ASSUME \A i \in S : \E j \in S : j > i
             PROVE  FALSE
  BY S \subseteq Int
<1>1. ASSUME NEW n \in 1 .. 13, \A i \in S : i <= n
      PROVE  \A i \in S : i <= n - 1
  <2>1. n \notin S
    BY <1>1
  <2> QED
    BY <1>1, <2>1
<1>2. \A i \in S : i <= 9
  <2>1. \A i \in S : i <= 13
    OBVIOUS
  <2>2. \A i \in S : i <= 11
    BY <2>1, <1>1
  <2> QED
    BY <2>2, <1>1
<1>3. \A i \in S : i <= 5
  BY <1>1, <1>2
<1>4. \A i \in S : i <= 1
  BY <1>1, <1>3
<1>5. \A i \in S : i <= 0
  BY <1>1, <1>4
<1>6. PICK i \in S : TRUE
  OBVIOUS
<1>7. i \in 1 .. 13 /\ i <= 0
  BY <1>5
<1> QED
  BY <1>7

\* A step of the loops: the innermost loop that can takes its next value, the
\* loops outside it keep theirs, and those inside begin again.
Steps(k) ==
  /\ k \in 1 .. 13 /\ NextValue(Loops[k]) <= Limit(Loops[k])
  /\ \A j \in k + 1 .. 13 : ~ (NextValue(Loops[j]) <= Limit(Loops[j]))
  /\ \A d \in LoopDim :
       /\ Position(d) < k => NextPoint[d] = point[d]
       /\ Position(d) = k => NextPoint[d] = NextValue(d)
       /\ Position(d) > k =>
            NextPoint[d] = IF d \in ActiveDim THEN MinOf(NextPoint[TotalOf[d]], space[d].min)
                           ELSE space[d].min

LEMMA SomeLoopSteps ==
  ASSUME Steppable # {}
  PROVE  \E k \in 1 .. 13 : Steps(k)
<1> DEFINE k == CHOOSE i \in Steppable : \A j \in Steppable : j <= i
           least == [d \in LoopDim |->
                      IF Position(d) < k THEN point[d]
                      ELSE IF Position(d) = k THEN NextValue(d) ELSE space[d].min]
<1>1. Steppable \subseteq 1 .. 13
  BY LoopsAreDistinct DEF Steppable
<1>2. k \in Steppable
  BY <1>1, InnermostExists
<1>3. k \in 1 .. 13 /\ NextValue(Loops[k]) <= Limit(Loops[k])
  BY <1>1, <1>2 DEF Steppable
<1>8. \A j \in k + 1 .. 13 : j \notin Steppable
  <2>1. \A j \in Steppable : j <= k
    BY <1>1, <1>2, InnermostExists
  <2> HIDE DEF k
  <2> QED
    BY <1>3, <2>1
<1>9. \A j \in k + 1 .. 13 : ~ (NextValue(Loops[j]) <= Limit(Loops[j]))
  <2> HIDE DEF k
  <2> QED
    BY <1>3, <1>8, LoopsAreDistinct DEF Steppable
<1>4. NextPoint = [d \in LoopDim |-> IF Position(d) > k THEN Start(d, least, space) ELSE least[d]]
  BY DEF NextPoint
<1> HIDE DEF k
<1>5. ASSUME NEW d \in LoopDim
      PROVE  /\ Position(d) < k => NextPoint[d] = point[d]
             /\ Position(d) = k => NextPoint[d] = NextValue(d)
             /\ Position(d) > k => NextPoint[d] = Start(d, least, space)
  BY <1>3, <1>4, DimHasPosition
<1>6. ASSUME NEW d \in LoopDim \ ActiveDim
      PROVE  NextPoint[d] = least[d]
  BY <1>3, <1>4, DimHasPosition DEF Start
<1>7. ASSUME NEW d \in LoopDim, Position(d) > k
      PROVE  NextPoint[d] = IF d \in ActiveDim THEN MinOf(NextPoint[TotalOf[d]], space[d].min)
                            ELSE space[d].min
  <2>1. CASE d \in ActiveDim
    <3>1. NextPoint[TotalOf[d]] = least[TotalOf[d]]
      BY <1>6, <2>1, TotalIsOuter
    <3>2. NextPoint[d] = MinOf(least[TotalOf[d]], space[d].min)
      BY <1>5, <1>7, <2>1 DEF Start
    <3> QED
      BY <2>1, <3>1, <3>2
  <2>2. CASE d \notin ActiveDim
    BY <1>5, <1>7, <2>2 DEF Start
  <2> QED
    BY <2>1, <2>2
<1> QED
  BY <1>3, <1>5, <1>7, <1>9 DEF Steps

-----------------------------------------------------------------------------
(***************************************************************************)
(* What the lines of a file say about the loops.                           *)
(***************************************************************************)
LoopFacts ==
  /\ MuxDim \subseteq LoopDim /\ LoopDim \subseteq Dim
  /\ WireDim \cap LoopDim = {}
  /\ ActiveDim \subseteq LoopDim
  /\ {"ForceBank", "ForceMat", "UseCactiAssumption", "DesignTarget"} \cap Dim = {}
  /\ DOMAIN DefaultParam \cap (Dim \cup {"ForceBank", "ForceMat", "UseCactiAssumption"}) = {}

\* Options and dimensions have different names.
LEMMA NamesDiffer == LoopFacts
<1>1. LoopDim = {"NumRowMat", "NumColumnMat", "NumActiveMatPerRow",
           "NumActiveMatPerColumn", "NumRowSubarray", "NumColumnSubarray",
           "NumActiveSubarrayPerRow", "NumActiveSubarrayPerColumn",
           "MuxSenseAmp", "MuxOutputLev1", "MuxOutputLev2", "NumRowPerSet",
           "AreaOptimizationLevel"}
  BY DEF LoopDim, Loops
<1>2. WireDim = {"LocalWireType", "LocalWireRepeaterType", "IsLocalWireLowSwing",
                 "GlobalWireType", "GlobalWireRepeaterType", "IsGlobalWireLowSwing"}
  BY DEF WireDim, WireRole, WireDims
<1>3. DOMAIN DefaultParam =
        {"DesignTarget", "Associativity", "CacheAccessMode", "Routing", "InternalSensing",
         "Capacity", "WordWidth", "FlashPageSize", "Constrained"}
  BY DEF DefaultParam
<1> QED
  BY <1>1, <1>2, <1>3 DEF LoopFacts, MuxDim, Dim, ActiveDim, TotalOf

BankDim == {"NumRowMat", "NumColumnMat", "NumActiveMatPerColumn", "NumActiveMatPerRow"}
MatDim == {"NumRowSubarray", "NumColumnSubarray", "NumActiveSubarrayPerColumn",
           "NumActiveSubarrayPerRow"}
CactiDim == MatDim \cup {"NumActiveMatPerRow", "NumActiveMatPerColumn"}

\* The dimensions that a line fixes, which depend on the line only.
Touched(l) ==
  IF l.option \in Dim THEN {l.option}
  ELSE IF l.option = "ForceBank" THEN BankDim
  ELSE IF l.option = "ForceMat" THEN MatDim
  ELSE IF l.option = "UseCactiAssumption" /\ l.value THEN CactiDim
  ELSE IF l.option = "DesignTarget" /\ l.value # "cache" THEN {"NumRowPerSet"}
  ELSE {}

LEMMA FixedTouches ==
  ASSUME NEW l, IsLine(l), NEW ranges
  PROVE  DOMAIN Fixed(l.option, l.value, ranges) = Touched(l)
<1>1. CASE l.option \in Dim
  BY <1>1, NamesDiffer DEF Fixed, Touched, One, LoopFacts
<1>2. CASE l.option = "ForceBank"
  BY <1>2, NamesDiffer DEF Fixed, Touched, FixBank, BankDim, LoopFacts
<1>3. CASE l.option = "ForceMat"
  BY <1>3, NamesDiffer DEF Fixed, Touched, FixMat, MatDim, LoopFacts
<1>4. CASE l.option = "UseCactiAssumption" /\ l.value
  BY <1>4, NamesDiffer DEF Fixed, Touched, FixCacti, CactiDim, MatDim, LoopFacts
<1>5. CASE l.option = "DesignTarget" /\ l.value # "cache"
  BY <1>5, NamesDiffer DEF Fixed, Touched, One, LoopFacts
<1>6. CASE /\ l.option \notin Dim \cup {"ForceBank", "ForceMat"}
           /\ ~(l.option = "UseCactiAssumption" /\ l.value)
           /\ ~(l.option = "DesignTarget" /\ l.value # "cache")
  BY <1>6 DEF Fixed, Touched, Nothing
<1> QED
  BY <1>1, <1>2, <1>3, <1>4, <1>5, <1>6

\* Only the assumption of Cacti depends on the ranges before the line.
LEMMA FixedIsOwn ==
  ASSUME NEW l, l.option # "UseCactiAssumption", NEW ranges, NEW other
  PROVE  Fixed(l.option, l.value, ranges) = Fixed(l.option, l.value, other)
BY DEF Fixed

\* Ranges that a loop can go through: there is a least value, a most, and they
\* are in order.
IsRange(d, range) ==
  range.min \in Numbers(d) /\ range.max \in Numbers(d) /\ range.min <= range.max
IsSpace(ranges) == \A d \in LoopDim : IsRange(d, ranges[d])

LEMMA NumbersAreNatural ==
  ASSUME NEW d
  PROVE  /\ Numbers(d) \subseteq Nat
         /\ d # "AreaOptimizationLevel" => Numbers(d) = Nat \ {0}
BY DEF Numbers

\* What a line fixes is a number its loop can take.
LEMMA FixedIsNumber ==
  ASSUME NEW l, IsLine(l), NEW ranges, IsSpace(ranges),
         NEW d \in LoopDim, d \in DOMAIN Fixed(l.option, l.value, ranges)
  PROVE  Fixed(l.option, l.value, ranges)[d] \in Numbers(d)
<1>1. CASE l.option \in Dim
  <2>1. Fixed(l.option, l.value, ranges) = One(l.option, l.value)
    BY <1>1, NamesDiffer DEF Fixed, LoopFacts
  <2>2. d = l.option /\ One(l.option, l.value)[d] = l.value
    BY <2>1 DEF One
  <2>3. l.value \in Numbers(l.option)
    <3>1. /\ l.option \in LoopDim \cap Dim
          /\ l.option \notin WireDim /\ l.option \notin DOMAIN DefaultParam
          /\ l.option \notin {"ForceBank", "ForceMat", "UseCactiAssumption"}
      BY <2>2, NamesDiffer DEF LoopFacts
    <3>2. l.option # "Associativity"
      BY <3>1 DEF DefaultParam
    <3> QED
      BY <3>1, <3>2 DEF IsLine
  <2> QED
    BY <2>1, <2>2, <2>3
<1>2. CASE l.option = "ForceBank"
  <2>1. Fixed(l.option, l.value, ranges) = FixBank(l.value)
    BY <1>2, NamesDiffer DEF Fixed, LoopFacts
  <2>2. l.value \in [1 .. 4 -> Nat \ {0}]
    BY <1>2, NamesDiffer DEF IsLine, LoopFacts, Dim
  <2> QED
    BY <2>1, <2>2 DEF FixBank, Numbers
<1>3. CASE l.option = "ForceMat"
  <2>1. Fixed(l.option, l.value, ranges) = FixMat(l.value)
    BY <1>3, NamesDiffer DEF Fixed, LoopFacts
  <2>2. l.value \in [1 .. 4 -> Nat \ {0}]
    BY <1>3, NamesDiffer DEF IsLine, LoopFacts, Dim
  <2> QED
    BY <2>1, <2>2 DEF FixMat, Numbers
<1>4. CASE l.option = "UseCactiAssumption" /\ l.value
  <2>1. Fixed(l.option, l.value, ranges) = FixCacti(ranges)
    BY <1>4, NamesDiffer DEF Fixed, LoopFacts
  <2>2. ranges["NumColumnMat"].max \in Nat \ {0}
    <3>1. "NumColumnMat" \in LoopDim
      BY DEF LoopDim, Loops
    <3> QED
      BY <3>1 DEF IsSpace, IsRange, Numbers
  <2> QED
    BY <2>1, <2>2 DEF FixCacti, Numbers
<1>5. CASE l.option = "DesignTarget" /\ l.value # "cache"
  <2>1. Fixed(l.option, l.value, ranges) = One("NumRowPerSet", 1)
    BY <1>5, NamesDiffer DEF Fixed, LoopFacts
  <2> QED
    BY <2>1 DEF One, Numbers
<1>6. CASE /\ l.option \notin Dim \cup {"ForceBank", "ForceMat"}
           /\ ~(l.option = "UseCactiAssumption" /\ l.value)
           /\ ~(l.option = "DesignTarget" /\ l.value # "cache")
  BY <1>6 DEF Fixed, Nothing
<1> QED
  BY <1>1, <1>2, <1>3, <1>4, <1>5, <1>6

\* A line keeps the ranges in order.
LEMMA NarrowIsSpace ==
  ASSUME NEW l, IsLine(l), NEW ranges, IsSpace(ranges)
  PROVE  IsSpace(Narrow(ranges, Fixed(l.option, l.value, ranges)))
<1> DEFINE fixed == Fixed(l.option, l.value, ranges)
<1>1. ASSUME NEW d \in LoopDim
      PROVE  IsRange(d, Narrow(ranges, fixed)[d])
  <2>1. CASE d \in DOMAIN fixed
    <3>1. Narrow(ranges, fixed)[d] = From(fixed[d], fixed[d])
      BY <2>1, NamesDiffer DEF Narrow, LoopFacts
    <3>2. fixed[d] \in Numbers(d) /\ fixed[d] <= fixed[d]
      BY <2>1, FixedIsNumber, NumbersAreNatural
    <3> QED
      BY <3>1, <3>2 DEF IsRange, From
  <2>2. CASE d \notin DOMAIN fixed
    BY <2>2, NamesDiffer DEF Narrow, LoopFacts, IsSpace
  <2> QED
    BY <2>1, <2>2
<1> QED
  BY <1>1 DEF IsSpace

\* The ranges of the macros are in order.
LEMMA RangesAreSpace ==
  ASSUME NEW mat \in Nat \ {0}, NEW mux \in Nat \ {0}, NEW rows \in Nat \ {0},
         NEW local, NEW global, NEW repeater
  PROVE  IsSpace(Ranges(mat, mux, rows, local, global, repeater))
<1>1. ASSUME NEW d \in LoopDim
      PROVE  IsRange(d, Ranges(mat, mux, rows, local, global, repeater)[d])
  <2>1. d \in Dim
    BY NamesDiffer DEF LoopFacts
  <2>2. CASE d \in {"NumRowMat", "NumColumnMat", "NumActiveMatPerRow", "NumActiveMatPerColumn"}
    BY <2>1, <2>2 DEF Ranges, IsRange, From, Numbers
  <2>3. CASE d \in MuxDim
    BY <2>1, <2>3 DEF Ranges, IsRange, From, Numbers, MuxDim
  <2>4. CASE d = "NumRowPerSet"
    BY <2>1, <2>4 DEF Ranges, IsRange, From, Numbers, MuxDim
  <2>5. CASE d = "AreaOptimizationLevel"
    BY <2>1, <2>5 DEF Ranges, IsRange, From, Numbers, MuxDim
  <2>6. CASE d \in MatDim
    BY <2>1, <2>6 DEF Ranges, IsRange, From, Numbers, MuxDim, MatDim
  <2> QED
    BY <2>2, <2>3, <2>4, <2>5, <2>6 DEF LoopDim, Loops, MuxDim, MatDim
<1> QED
  BY <1>1 DEF IsSpace

\* Where the loop variables have values.
Looping == {"tag", "tag end", "data", "data end", "constrained"}

\* The loop variables: numbers within the ranges, and where a range is one value
\* that value, cut to what there is.
IsPoint(p, ranges) ==
  /\ \A d \in LoopDim : p[d] \in Numbers(d)
  /\ \A d \in LoopDim \ ActiveDim : p[d] <= ranges[d].max
  /\ \A d \in LoopDim : ranges[d].min = ranges[d].max => p[d] = Start(d, p, ranges)

\* A loop whose range is one value has that value.
LEMMA SettledPoint ==
  ASSUME NEW p, NEW ranges, IsPoint(p, ranges), NEW d \in LoopDim, NEW value,
         ranges[d] = From(value, value)
  PROVE  p[d] = IF d \in ActiveDim THEN MinOf(p[TotalOf[d]], value) ELSE value
<1>1. ranges[d].min = value /\ ranges[d].max = value
  BY DEF From
<1>2. p[d] = Start(d, p, ranges)
  BY <1>1 DEF IsPoint
<1> QED
  BY <1>1, <1>2 DEF Start

LEMMA SmallerIsNumber ==
  ASSUME NEW a \in Nat \ {0}, NEW b \in Nat \ {0}
  PROVE  MinOf(a, b) \in Nat \ {0} /\ MinOf(a, b) <= a /\ MinOf(a, b) <= b
BY DEF MinOf

\* Where the loops begin.
LEMMA FirstPointIsPoint ==
  ASSUME NEW ranges, IsSpace(ranges)
  PROVE  IsPoint(FirstPoint(ranges), ranges)
<1> DEFINE first == FirstPoint(ranges)
<1>1. ASSUME NEW d \in LoopDim \ ActiveDim PROVE first[d] = ranges[d].min
  BY DEF FirstPoint, Start
<1>2. ASSUME NEW d \in ActiveDim
      PROVE  first[d] = MinOf(first[TotalOf[d]], ranges[d].min)
  BY <1>1, TotalIsOuter DEF FirstPoint, Start
<1> HIDE DEF first
<1>3. ASSUME NEW d \in LoopDim PROVE IsRange(d, ranges[d])
  BY DEF IsSpace
<1>4. ASSUME NEW d \in LoopDim \ ActiveDim
      PROVE  first[d] \in Numbers(d) /\ first[d] <= ranges[d].max
  BY <1>1, <1>3 DEF IsRange
<1>5. ASSUME NEW d \in ActiveDim PROVE first[d] \in Numbers(d)
  <2>1. first[TotalOf[d]] \in Nat \ {0} /\ ranges[d].min \in Nat \ {0}
    BY <1>3, <1>4, TotalIsOuter, NumbersAreNatural DEF IsRange
  <2> QED
    BY <1>2, <2>1, SmallerIsNumber, TotalIsOuter, NumbersAreNatural
<1>6. ASSUME NEW d \in LoopDim PROVE first[d] = Start(d, first, ranges)
  BY <1>1, <1>2 DEF Start
<1> QED
  BY <1>4, <1>5, <1>6 DEF IsPoint, first

\* The limit of a loop is within its range.
LEMMA LimitIsBounded ==
  ASSUME NEW d \in LoopDim, IsSpace(space), IsPoint(point, space),
         param.Associativity \in Nat \ {0}
  PROVE  /\ Limit(d) \in Nat /\ Limit(d) <= space[d].max
         /\ space[d].min \in Numbers(d) /\ space[d].max \in Numbers(d)
         /\ d \in ActiveDim => Limit(d) = MinOf(point[TotalOf[d]], space[d].max)
<1>1. space[d].min \in Numbers(d) /\ space[d].max \in Numbers(d) /\ space[d].max \in Nat
  BY NumbersAreNatural DEF IsSpace, IsRange
<1>2. CASE d \in ActiveDim
  <2>1. point[TotalOf[d]] \in Nat \ {0} /\ space[d].max \in Nat \ {0}
    BY <1>1, <1>2, TotalIsOuter, NumbersAreNatural DEF IsPoint
  <2>2. d # "NumRowPerSet"
    BY <1>2 DEF ActiveDim, TotalOf
  <2>3. Limit(d) = MinOf(point[TotalOf[d]], space[d].max)
    BY <1>2, <2>2 DEF Limit
  <2> QED
    BY <1>1, <2>1, <2>3, SmallerIsNumber
<1>3. CASE d = "NumRowPerSet"
  <2>1. d \notin ActiveDim
    BY <1>3 DEF ActiveDim, TotalOf
  <2>2. Limit(d) = MinOf(space[d].max, param.Associativity)
    BY <1>3, <2>1 DEF Limit
  <2>3. space[d].max \in Nat \ {0}
    BY <1>1, <1>3 DEF Numbers
  <2> QED
    BY <1>1, <2>1, <2>2, <2>3, SmallerIsNumber
<1>4. CASE d \notin ActiveDim \cup {"NumRowPerSet"}
  BY <1>1, <1>4 DEF Limit
<1> QED
  BY <1>2, <1>3, <1>4

\* The next value of a loop is larger, and if it is within the limit the range of
\* the loop is more than one value.
LEMMA NextValueGrows ==
  ASSUME NEW d \in LoopDim, IsSpace(space), IsPoint(point, space),
         param.Associativity \in Nat \ {0}, NextValue(d) <= Limit(d)
  PROVE  /\ point[d] < NextValue(d) /\ NextValue(d) \in Numbers(d)
         /\ NextValue(d) <= space[d].max
         /\ space[d].min # space[d].max
<1>1. point[d] \in Numbers(d) /\ point[d] \in Nat
  BY NumbersAreNatural DEF IsPoint
<1>2. NextValue(d) \in Nat /\ point[d] < NextValue(d)
  BY <1>1 DEF NextValue, Numbers
<1>3. NextValue(d) <= space[d].max /\ space[d].max \in Numbers(d) /\ space[d].max \in Nat
  BY <1>2, LimitIsBounded, NumbersAreNatural
<1>4. NextValue(d) \in Numbers(d)
  BY <1>1, <1>2, <1>3 DEF Numbers
<1>5. ASSUME space[d].min = space[d].max PROVE FALSE
  <2>1. point[d] = Start(d, point, space)
    BY <1>5 DEF IsPoint
  <2>2. CASE d \in ActiveDim
    BY <1>2, <1>5, <2>1, <2>2, LimitIsBounded, <1>1 DEF Start
  <2>3. CASE d \notin ActiveDim
    BY <1>1, <1>2, <1>3, <1>5, <2>1, <2>3 DEF Start
  <2> QED
    BY <2>2, <2>3
<1> QED
  BY <1>2, <1>3, <1>4, <1>5

\* A step of the loops leads from a point of the ranges to a point.
LEMMA NextPointIsPoint ==
  ASSUME IsSpace(space), IsPoint(point, space),
         param.Associativity \in Nat \ {0}, Steppable # {}
  PROVE  IsPoint(NextPoint, space)
<1>1. PICK k \in 1 .. 13 : Steps(k)
  BY SomeLoopSteps
<1>2. Position(Loops[k]) = k /\ Loops[k] \in LoopDim
  BY PositionOfLoop
<1>3. ASSUME NEW d \in LoopDim, Position(d) = k
      PROVE  d = Loops[k] /\ NextPoint[d] = NextValue(d) /\ NextValue(d) <= Limit(d)
  BY <1>1, <1>3, DimHasPosition DEF Steps
<1>4. ASSUME NEW d \in LoopDim, Position(d) < k
      PROVE  NextPoint[d] = point[d]
  BY <1>1, <1>4 DEF Steps
<1>5. ASSUME NEW d \in LoopDim, Position(d) > k
      PROVE  NextPoint[d] = Start(d, NextPoint, space)
  BY <1>1, <1>5 DEF Steps, Start
<1>6. ASSUME NEW d \in LoopDim
      PROVE  Position(d) < k \/ Position(d) = k \/ Position(d) > k
  BY DimHasPosition
<1>7. ASSUME NEW d \in LoopDim
      PROVE  space[d].min \in Numbers(d) /\ space[d].max \in Numbers(d)
             /\ space[d].min <= space[d].max
  BY DEF IsSpace, IsRange
<1>8. ASSUME NEW d \in LoopDim \ ActiveDim
      PROVE  NextPoint[d] \in Numbers(d) /\ NextPoint[d] <= space[d].max
  <2>1. CASE Position(d) < k
    BY <1>4, <2>1 DEF IsPoint
  <2>2. CASE Position(d) = k
    BY <1>3, <2>2, NextValueGrows
  <2>3. CASE Position(d) > k
    BY <1>5, <1>7, <2>3 DEF Start
  <2> QED
    BY <1>6, <2>1, <2>2, <2>3
<1>9. ASSUME NEW d \in ActiveDim PROVE NextPoint[d] \in Numbers(d)
  <2> d \in LoopDim /\ TotalOf[d] \in LoopDim \ ActiveDim
    BY TotalIsOuter
  <2>1. CASE Position(d) < k
    BY <1>4, <2>1 DEF IsPoint
  <2>2. CASE Position(d) = k
    BY <1>3, <2>2, NextValueGrows
  <2>3. CASE Position(d) > k
    <3>1. NextPoint[d] = MinOf(NextPoint[TotalOf[d]], space[d].min)
      BY <1>5, <2>3 DEF Start
    <3>2. NextPoint[TotalOf[d]] \in Nat \ {0} /\ space[d].min \in Nat \ {0}
      BY <1>7, <1>8, TotalIsOuter, NumbersAreNatural
    <3> QED
      BY <3>1, <3>2, SmallerIsNumber, TotalIsOuter, NumbersAreNatural
  <2> QED
    BY <1>6, <2>1, <2>2, <2>3
<1>10. ASSUME NEW d \in LoopDim, space[d].min = space[d].max
       PROVE  NextPoint[d] = Start(d, NextPoint, space)
  <2>1. CASE Position(d) < k
    <3>1. NextPoint[d] = point[d] /\ point[d] = Start(d, point, space)
      BY <1>4, <1>10, <2>1 DEF IsPoint
    <3>2. ASSUME d \in ActiveDim PROVE NextPoint[TotalOf[d]] = point[TotalOf[d]]
      <4>1. Position(TotalOf[d]) < k
        <5>1. Position(TotalOf[d]) < Position(d) /\ TotalOf[d] \in LoopDim
          BY <3>2, TotalIsOuter
        <5>2. Position(TotalOf[d]) \in Int /\ Position(d) \in Int /\ k \in Int
          BY <5>1, DimHasPosition
        <5> QED
          BY <2>1, <5>1, <5>2
      <4> QED
        BY <1>4, <3>2, <4>1, TotalIsOuter
    <3> QED
      BY <3>1, <3>2 DEF Start
  <2>2. CASE Position(d) = k
    BY <1>3, <1>10, <2>2, NextValueGrows
  <2>3. CASE Position(d) > k
    BY <1>5, <2>3
  <2> QED
    BY <1>6, <2>1, <2>2, <2>3
<1> QED
  BY <1>8, <1>9, <1>10 DEF IsPoint

\* The innermost loop that steps makes the point larger in the order of the loops.
LEMMA NextPointIsLater ==
  ASSUME IsSpace(space), IsPoint(point, space),
         param.Associativity \in Nat \ {0}, Steppable # {}
  PROVE  Before(point, NextPoint)
<1>1. PICK k \in 1 .. 13 : Steps(k)
  BY SomeLoopSteps
<1>2. point[Loops[k]] < NextPoint[Loops[k]]
  <2>1. Position(Loops[k]) = k /\ Loops[k] \in LoopDim
    BY PositionOfLoop
  <2>2. NextPoint[Loops[k]] = NextValue(Loops[k]) /\ NextValue(Loops[k]) <= Limit(Loops[k])
    BY <1>1, <2>1 DEF Steps
  <2> QED
    BY <2>1, <2>2, NextValueGrows
<1>3. ASSUME NEW j \in 1 .. k - 1 PROVE point[Loops[j]] = NextPoint[Loops[j]]
  <2>1. j \in 1 .. 13 /\ j < k
    OBVIOUS
  <2>2. Position(Loops[j]) = j /\ Loops[j] \in LoopDim
    BY <2>1, PositionOfLoop
  <2> QED
    BY <1>1, <2>1, <2>2 DEF Steps
<1> QED
  BY <1>2, <1>3, LoopsAreDistinct DEF Before

-----------------------------------------------------------------------------
(***************************************************************************)
(* The choices of the file.                                                *)
(***************************************************************************)

\* What a choice for a dimension leaves in the ranges until another line fixes
\* the dimension.
Kept(l, d, ranges) ==
  IF l.option = "UseCactiAssumption"
  THEN d = "NumActiveMatPerRow" =>
         LET columns == ranges["NumColumnMat"].max
         IN  /\ ranges["NumActiveMatPerRow"] = From(columns, columns)
             /\ ranges["NumActiveMatPerColumn"] = From(1, 1)
  ELSE LET value == Fixed(l.option, l.value, ranges)[d] IN ranges[d] = From(value, value)

\* Among the first n lines, line i is the last that fixes dimension d.
Decides(i, d, n) ==
  /\ i \in 1 .. n /\ d \in Touched(file[i])
  /\ \A j \in i + 1 .. n : d \notin Touched(file[j])

\* Who fixes the columns of mats or the active mats of a column also fixes the
\* active mats of a row.
LEMMA RowsGoWithColumns ==
  ASSUME NEW l, IsLine(l), "NumActiveMatPerRow" \notin Touched(l)
  PROVE  "NumColumnMat" \notin Touched(l) /\ "NumActiveMatPerColumn" \notin Touched(l)
<1>1. CASE l.option \in Dim
  <2>1. Touched(l) = {l.option}
    BY <1>1 DEF Touched
  <2>2. l.option \in MuxDim \cup {"AreaOptimizationLevel"} \cup WireDim
    <3>1. /\ l.option \notin DOMAIN DefaultParam
          /\ l.option \notin {"ForceBank", "ForceMat", "UseCactiAssumption"}
      BY <1>1, NamesDiffer DEF LoopFacts
    <3>2. l.option # "Associativity"
      BY <3>1 DEF DefaultParam
    <3> QED
      BY <3>1, <3>2 DEF IsLine
  <2>3. {"NumColumnMat", "NumActiveMatPerColumn"} \cap WireDim = {}
    <3>1. "NumColumnMat" \in LoopDim /\ "NumActiveMatPerColumn" \in LoopDim
      BY DEF LoopDim, Loops
    <3> QED
      BY <3>1, NamesDiffer DEF LoopFacts
  <2> QED
    BY <2>1, <2>2, <2>3 DEF MuxDim
<1>2. CASE l.option \notin Dim
  BY <1>2 DEF Touched, BankDim, MatDim, CactiDim
<1> QED
  BY <1>1, <1>2

\* A line keeps its own choices.
LEMMA OwnChoiceKept ==
  ASSUME NEW l, IsLine(l), NEW ranges, NEW d \in LoopDim, d \in Touched(l)
  PROVE  Kept(l, d, Narrow(ranges, Fixed(l.option, l.value, ranges)))
<1> DEFINE fixed == Fixed(l.option, l.value, ranges)
           new == Narrow(ranges, fixed)
<1>1. \A e \in Dim : new[e] = IF e \in Touched(l) THEN From(fixed[e], fixed[e]) ELSE ranges[e]
  BY FixedTouches DEF Narrow
<1>2. CASE l.option = "UseCactiAssumption"
  <2>1. ~(l.option \in Dim)
    BY <1>2, NamesDiffer DEF LoopFacts
  <2>2. l.value /\ Touched(l) = CactiDim
    BY <1>2, <2>1 DEF Touched
  <2>3. fixed = FixCacti(ranges)
    BY <1>2, <2>1, <2>2, NamesDiffer DEF Fixed, LoopFacts
  <2>4. /\ {"NumActiveMatPerRow", "NumActiveMatPerColumn"} \subseteq CactiDim
        /\ "NumColumnMat" \notin CactiDim
        /\ {"NumActiveMatPerRow", "NumActiveMatPerColumn", "NumColumnMat"} \subseteq Dim
    BY DEF CactiDim, MatDim, Dim, LoopDim, Loops
  <2>5. /\ fixed["NumActiveMatPerRow"] = ranges["NumColumnMat"].max
        /\ fixed["NumActiveMatPerColumn"] = 1
    BY <2>3 DEF FixCacti
  <2> HIDE DEF fixed, new
  <2>6. /\ new["NumColumnMat"] = ranges["NumColumnMat"]
        /\ new["NumActiveMatPerRow"] =
             From(fixed["NumActiveMatPerRow"], fixed["NumActiveMatPerRow"])
        /\ new["NumActiveMatPerColumn"] =
             From(fixed["NumActiveMatPerColumn"], fixed["NumActiveMatPerColumn"])
    BY <1>1, <2>2, <2>4
  <2>7. Kept(l, d, new)
    BY <1>2, <2>5, <2>6 DEF Kept
  <2> QED
    BY <2>7 DEF new, fixed
<1>3. CASE l.option # "UseCactiAssumption"
  <2>1. new[d] = From(fixed[d], fixed[d])
    BY <1>1, NamesDiffer DEF LoopFacts
  <2>2. Fixed(l.option, l.value, new) = fixed
    BY <1>3, FixedIsOwn
  <2> HIDE DEF fixed, new
  <2>3. Kept(l, d, new)
    BY <1>3, <2>1, <2>2 DEF Kept
  <2> QED
    BY <2>3 DEF new, fixed
<1> QED
  BY <1>2, <1>3

\* A line keeps the choices of others for what it does not fix.
LEMMA OtherChoiceKept ==
  ASSUME NEW l, IsLine(l), NEW o, NEW ranges, NEW d \in LoopDim, d \notin Touched(l),
         Kept(o, d, ranges)
  PROVE  Kept(o, d, Narrow(ranges, Fixed(l.option, l.value, ranges)))
<1> DEFINE new == Narrow(ranges, Fixed(l.option, l.value, ranges))
<1>1. \A e \in Dim : e \notin Touched(l) => new[e] = ranges[e]
  BY FixedTouches DEF Narrow
<1> HIDE DEF new
<1>2. CASE o.option = "UseCactiAssumption"
  <2>1. ASSUME d = "NumActiveMatPerRow"
        PROVE  /\ new["NumColumnMat"] = ranges["NumColumnMat"]
               /\ new["NumActiveMatPerRow"] = ranges["NumActiveMatPerRow"]
               /\ new["NumActiveMatPerColumn"] = ranges["NumActiveMatPerColumn"]
    <3>1. {"NumActiveMatPerRow", "NumActiveMatPerColumn", "NumColumnMat"} \subseteq Dim
      BY DEF Dim, LoopDim, Loops
    <3> QED
      BY <1>1, <2>1, <3>1, RowsGoWithColumns
  <2>2. Kept(o, d, new)
    BY <1>2, <2>1 DEF Kept
  <2> QED
    BY <2>2 DEF new
<1>3. CASE o.option # "UseCactiAssumption"
  <2>1. new[d] = ranges[d]
    BY <1>1, NamesDiffer DEF LoopFacts
  <2>2. Fixed(o.option, o.value, new) = Fixed(o.option, o.value, ranges)
    BY <1>3, FixedIsOwn
  <2>3. Kept(o, d, new)
    BY <1>3, <2>1, <2>2 DEF Kept
  <2> QED
    BY <2>3 DEF new
<1> QED
  BY <1>2, <1>3

\* The rows of a set that normal access is allowed are those a file may fix.
LEMMA OneRowKept ==
  ASSUME NEW l, IsLine(l), NEW d \in LoopDim, d \in Touched(l), NEW ranges,
         Kept(l, d, ranges), DOMAIN ranges = Dim
  PROVE  Kept(l, d, [ranges EXCEPT !["NumRowPerSet"] = From(1, 1)])
<1> DEFINE new == [ranges EXCEPT !["NumRowPerSet"] = From(1, 1)]
<1>1. \A e \in Dim : new[e] = IF e = "NumRowPerSet" THEN From(1, 1) ELSE ranges[e]
  OBVIOUS
<1>2. d \in Dim
  BY NamesDiffer DEF LoopFacts
<1> HIDE DEF new
<1>3. CASE l.option = "UseCactiAssumption"
  <2>1. {"NumActiveMatPerRow", "NumActiveMatPerColumn", "NumColumnMat"} \subseteq Dim
    BY DEF Dim, LoopDim, Loops
  <2>2. Kept(l, d, new)
    BY <1>1, <1>3, <2>1 DEF Kept
  <2> QED
    BY <2>2 DEF new
<1>4. CASE l.option # "UseCactiAssumption"
  <2>1. Fixed(l.option, l.value, new) = Fixed(l.option, l.value, ranges)
    BY <1>4, FixedIsOwn
  <2>2. CASE d = "NumRowPerSet"
    <3>1. l.option \notin Dim
      <4>1. ASSUME l.option \in Dim PROVE FALSE
        <5>1. l.option = "NumRowPerSet"
          BY <2>2, <4>1 DEF Touched
        <5>2. "NumRowPerSet" \in LoopDim
          BY DEF LoopDim, Loops
        <5>3. "NumRowPerSet" \notin WireDim
          BY <5>2, NamesDiffer DEF LoopFacts
        <5> QED
          BY <5>1, <5>3 DEF IsLine, MuxDim, DefaultParam
      <4> QED
        BY <4>1
    <3>2. l.option = "DesignTarget" /\ l.value # "cache"
      BY <2>2, <3>1 DEF Touched, BankDim, MatDim, CactiDim
    <3>3. Fixed(l.option, l.value, ranges) = One("NumRowPerSet", 1)
      BY <3>2, NamesDiffer DEF Fixed, LoopFacts
    <3>4. Fixed(l.option, l.value, new)[d] = 1
      BY <2>1, <2>2, <3>3 DEF One
    <3>5. Kept(l, d, new)
      BY <1>1, <1>2, <1>4, <2>2, <3>4 DEF Kept
    <3> QED
      BY <3>5 DEF new
  <2>3. CASE d # "NumRowPerSet"
    <3>1. Kept(l, d, new)
      BY <1>1, <1>2, <1>4, <2>1, <2>3 DEF Kept
    <3> QED
      BY <3>1 DEF new
  <2> QED
    BY <2>2, <2>3
<1> QED
  BY <1>3, <1>4

-----------------------------------------------------------------------------
(***************************************************************************)
(* The invariant of the search.                                            *)
(***************************************************************************)
FileIsRead ==
  /\ file \in Files /\ line \in 1 .. Len(file) + 1
  /\ pc # "read" => line = Len(file) + 1

WaysAreCounted == "Associativity" \in DOMAIN param /\ param.Associativity \in Nat \ {0}

RangesInOrder == DOMAIN space = Dim /\ IsSpace(space)

PointsInRange == pc \in Looping => IsPoint(point, space)

\* The choices of the lines that have been read.
ChoicesKept(n) ==
  \A i \in 1 .. n : \A d \in LoopDim : Decides(i, d, n) => Kept(file[i], d, space)

SearchInv ==
  /\ FileIsRead
  /\ WaysAreCounted
  /\ RangesInOrder
  /\ PointsInRange
  /\ pc \in {"read"} \cup Searching => ChoicesKept(line - 1)

LEMMA LinesAreLines ==
  ASSUME FileIsRead
  PROVE  /\ Len(file) \in Nat /\ DOMAIN file = 1 .. Len(file)
         /\ \A i \in 1 .. Len(file) : IsLine(file[i])
BY FilesAssumption DEF FileIsRead

LEMMA RestoredIsSpace ==
  ASSUME NEW a \in Nat \ {0}, NEW old
  PROVE  DOMAIN Restored(a, old) = Dim /\ IsSpace(Restored(a, old))
<1>1. DOMAIN Restored(a, old) = Dim
  BY DEF Restored, Ranges
<1> QED
  BY <1>1, LimitsAssumption, RangesAreSpace DEF Restored

LEMMA InitSearch == Init => SearchInv
<1> SUFFICES ASSUME Init PROVE SearchInv
  OBVIOUS
<1>1. FileIsRead
  BY FilesAssumption DEF Init, FileIsRead
<1>2. WaysAreCounted
  BY DEF Init, WaysAreCounted, DefaultParam
<1>3. RangesInOrder
  BY RestoredIsSpace DEF Init, RangesInOrder
<1>4. PointsInRange
  BY DEF Init, PointsInRange, Looping
<1>5. line - 1 = 0
  BY DEF Init
<1> QED
  BY <1>1, <1>2, <1>3, <1>4, <1>5 DEF SearchInv, ChoicesKept

LEMMA ReadLineSearches == SearchInv /\ ReadLine => SearchInv'
<1> SUFFICES ASSUME SearchInv, ReadLine PROVE SearchInv'
  OBVIOUS
<1> USE DEF SearchInv
<1>1. /\ pc = "read" /\ pc' = "read" /\ line' = line + 1 /\ line <= Len(file)
      /\ file' = file
      /\ param' = Set(param, file[line].option, file[line].value)
      /\ space' = Narrow(space, Fixed(file[line].option, file[line].value, space))
  BY DEF ReadLine, input
<1>2. line \in 1 .. Len(file) /\ Len(file) \in Nat /\ IsLine(file[line])
  BY <1>1, LinesAreLines DEF FileIsRead
<1>3. FileIsRead'
  BY <1>1, <1>2 DEF FileIsRead
<1>4. WaysAreCounted'
  <2>1. file[line].option = "Associativity" => file[line].value \in Nat \ {0}
    <3>1. "Associativity" \in DOMAIN DefaultParam
      BY DEF DefaultParam
    <3>2. "Associativity" \notin Dim
      BY <3>1, NamesDiffer DEF LoopFacts
    <3> QED
      BY <1>2, <3>2, NamesDiffer DEF IsLine, LoopFacts, Dim
  <2>2. "Associativity" \in DOMAIN param /\ param["Associativity"] \in Nat \ {0}
    BY DEF WaysAreCounted
  <2> QED
    BY <1>1, <2>1, <2>2 DEF WaysAreCounted, Set
<1>5. RangesInOrder'
  BY <1>1, <1>2, NarrowIsSpace DEF RangesInOrder, Narrow
<1>6. PointsInRange'
  BY <1>1 DEF PointsInRange, Looping
<1>7. ASSUME NEW i \in 1 .. line, NEW d \in LoopDim, Decides(i, d, line)
      PROVE  Kept(file[i], d, space')
  <2>1. CASE i = line
    BY <1>1, <1>2, <1>7, <2>1, OwnChoiceKept DEF Decides
  <2>2. CASE i # line
    <3>1. i \in 1 .. line - 1 /\ line \in i + 1 .. line
      BY <1>2, <2>2
    <3>2. Decides(i, d, line - 1) /\ d \notin Touched(file[line])
      BY <1>2, <1>7, <3>1 DEF Decides
    <3>3. Kept(file[i], d, space)
      BY <1>1, <3>1, <3>2 DEF ChoicesKept
    <3> QED
      BY <1>1, <1>2, <3>2, <3>3, OtherChoiceKept
  <2> QED
    BY <2>1, <2>2
<1>8. line' - 1 = line
  BY <1>1, <1>2
<1>9. ChoicesKept(line - 1)'
  BY <1>1, <1>7, <1>8 DEF ChoicesKept, Decides
<1> QED
  BY <1>3, <1>4, <1>5, <1>6, <1>9

\* A step that leaves file and ranges alone and keeps the loops in them.
LEMMA QuietSearches ==
  ASSUME SearchInv, UNCHANGED <<file, line, param, space>>,
         line = Len(file) + 1,
         pc' \in Looping => IsPoint(point', space),
         pc' \in Searching => pc \in {"read"} \cup Searching,
         pc' # "read"
  PROVE  SearchInv'
BY DEF SearchInv, FileIsRead, WaysAreCounted, RangesInOrder, PointsInRange,
       ChoicesKept, Decides

LEMMA ApplyConstraintSearches == SearchInv /\ ApplyConstraint => SearchInv'
<1> SUFFICES ASSUME SearchInv, ApplyConstraint PROVE SearchInv'
  OBVIOUS
<1> USE DEF SearchInv
<1>1. /\ pc = "read" /\ line > Len(file)
      /\ UNCHANGED <<file, line, space>>
      /\ pc' \in {"exit", "tag setup", "data setup"}
      /\ \/ param' = param
         \/ param' = [param EXCEPT !.Associativity = Ways]
  BY DEF ApplyConstraint, input
<1>2. Len(file) \in Nat /\ line = Len(file) + 1
  <2>1. Len(file) \in Nat
    BY LinesAreLines
  <2>2. ASSUME NEW n \in Nat, NEW k \in 1 .. n + 1, k > n PROVE k = n + 1
    BY <2>2
  <2> QED
    BY <1>1, <2>1, <2>2 DEF FileIsRead
<1>3. FileIsRead'
  BY <1>1, <1>2 DEF FileIsRead
<1>4. WaysAreCounted'
  <2>1. Ways \in Nat \ {0}
    BY DEF WaysAreCounted, Ways
  <2> QED
    BY <1>1, <2>1 DEF WaysAreCounted
<1>5. (RangesInOrder /\ PointsInRange)'
  BY <1>1 DEF RangesInOrder, PointsInRange, Looping
<1>6. ChoicesKept(line - 1)'
  BY <1>1 DEF ChoicesKept, Decides
<1> QED
  BY <1>3, <1>4, <1>5, <1>6

LEMMA StartTagSearches == SearchInv /\ StartTag => SearchInv'
<1> SUFFICES ASSUME SearchInv, StartTag PROVE SearchInv'
  OBVIOUS
<1> USE DEF SearchInv
<1>1. /\ pc = "tag setup" /\ pc' \in {"tag", "exit"}
      /\ UNCHANGED <<file, line, param>>
      /\ space' = Reduced /\ point' = FirstPoint(Reduced)
  BY DEF StartTag, BeginSearch, input
<1>2. DOMAIN Reduced = Dim /\ IsSpace(Reduced)
  <2>1. DOMAIN Reduced = Dim
    BY DEF Reduced, Ranges
  <2> QED
    BY <2>1, LimitsAssumption, RangesAreSpace DEF Reduced
<1>3. (FileIsRead /\ WaysAreCounted)'
  BY <1>1 DEF FileIsRead, WaysAreCounted
<1>4. (RangesInOrder /\ PointsInRange)'
  BY <1>1, <1>2, FirstPointIsPoint DEF RangesInOrder, PointsInRange
<1> QED
  BY <1>1, <1>3, <1>4 DEF Searching

LEMMA ReadAgainSearches == SearchInv /\ ReadAgain => SearchInv'
<1> SUFFICES ASSUME SearchInv, ReadAgain PROVE SearchInv'
  OBVIOUS
<1> USE DEF SearchInv
<1>1. /\ pc = "tag end" /\ pc' = "read" /\ line' = 1
      /\ UNCHANGED <<file, param>>
      /\ space' = Restored(param.Associativity, space)
  BY DEF ReadAgain, input
<1>2. FileIsRead'
  <2>1. Len(file) \in Nat
    BY LinesAreLines
  <2>2. \A n \in Nat : 1 \in 1 .. n + 1
    OBVIOUS
  <2> QED
    BY <1>1, <2>1, <2>2 DEF FileIsRead
<1>3. (WaysAreCounted /\ RangesInOrder /\ PointsInRange)'
  BY <1>1, RestoredIsSpace DEF WaysAreCounted, RangesInOrder, PointsInRange, Looping
<1>4. line' - 1 = 0
  <2>1. \A n : n = 1 => n - 1 = 0
    OBVIOUS
  <2> QED
    BY <1>1, <2>1
<1> QED
  BY <1>2, <1>3, <1>4 DEF ChoicesKept

LEMMA StartDataSearches == SearchInv /\ StartData => SearchInv'
<1> SUFFICES ASSUME SearchInv, StartData PROVE SearchInv'
  OBVIOUS
<1> USE DEF SearchInv
<1>1. /\ pc = "data setup" /\ pc' \in {"data", "exit"}
      /\ UNCHANGED <<file, line, param>>
      /\ space' = DataRanges /\ point' = FirstPoint(space')
  BY DEF StartData, BeginSearch, input
<1>2. (FileIsRead /\ WaysAreCounted)'
  BY <1>1 DEF FileIsRead, WaysAreCounted
<1>3. ChoicesKept(line - 1)
  BY <1>1 DEF Searching
<1>4. /\ RangesInOrder'
      /\ \A i \in 1 .. line - 1 : \A d \in LoopDim :
           Decides(i, d, line - 1) => Kept(file[i], d, space')
  <2>1. CASE DataRanges = space
    BY <1>1, <1>3, <2>1 DEF RangesInOrder, ChoicesKept
  <2>2. CASE DataRanges = [space EXCEPT !["NumRowPerSet"] = From(1, 1)]
    <3>1. ASSUME NEW d \in LoopDim PROVE IsRange(d, space'[d])
      <4>1. d \in Dim
        BY NamesDiffer DEF LoopFacts
      <4>2. CASE d = "NumRowPerSet"
        <5>1. space'[d] = From(1, 1)
          BY <1>1, <2>2, <4>1, <4>2 DEF RangesInOrder
        <5> QED
          BY <4>2, <5>1 DEF IsRange, From, Numbers
      <4>3. CASE d # "NumRowPerSet"
        <5>1. space'[d] = space[d]
          BY <1>1, <2>2, <4>1, <4>3 DEF RangesInOrder
        <5> QED
          BY <5>1 DEF RangesInOrder, IsSpace
      <4> QED
        BY <4>2, <4>3
    <3>2. RangesInOrder'
      BY <1>1, <2>2, <3>1 DEF RangesInOrder, IsSpace
    <3>3. ASSUME NEW i \in 1 .. line - 1, NEW d \in LoopDim, Decides(i, d, line - 1)
          PROVE  Kept(file[i], d, space')
      <4>1. IsLine(file[i])
        <5>1. line = Len(file) + 1 /\ Len(file) \in Nat
          BY <1>1, LinesAreLines DEF FileIsRead
        <5>2. i \in 1 .. Len(file)
          BY <5>1
        <5> QED
          BY <5>2, LinesAreLines
      <4>2. Kept(file[i], d, space) /\ d \in Touched(file[i])
        BY <1>3, <3>3 DEF ChoicesKept, Decides
      <4> QED
        BY <1>1, <2>2, <4>1, <4>2, OneRowKept DEF RangesInOrder
    <3> QED
      BY <3>2, <3>3
  <2> QED
    BY <2>1, <2>2 DEF DataRanges
<1>5. PointsInRange'
  BY <1>1, <1>4, FirstPointIsPoint DEF PointsInRange, RangesInOrder
<1>6. ChoicesKept(line - 1)'
  BY <1>1, <1>4 DEF ChoicesKept, Decides
<1> QED
  BY <1>2, <1>4, <1>5, <1>6

LEMMA IterateSearches ==
  ASSUME SearchInv, NEW end, NEW blockSize, Iterate(end, blockSize),
         <<pc, end>> \in {<<"tag", "tag end">>, <<"data", "data end">>,
                          <<"constrained", "done">>}
  PROVE  SearchInv'
<1>1. /\ UNCHANGED <<file, line, param, space>>
      /\ \/ pc' = end /\ point' = point
         \/ pc' = pc /\ Steppable # {} /\ point' = NextPoint
  BY DEF Iterate, input
<1>2. pc \in Looping /\ pc # "read" /\ end # "read" /\ (end \in Searching => pc \in Searching)
  BY DEF Looping, Searching
<1>3. IsPoint(point, space)
  BY <1>2 DEF SearchInv, PointsInRange
<1>4. IsPoint(point', space)
  BY <1>1, <1>3, NextPointIsPoint DEF SearchInv, WaysAreCounted, RangesInOrder
<1>5. line = Len(file) + 1
  BY <1>2 DEF SearchInv, FileIsRead
<1> QED
  BY <1>1, <1>2, <1>4, <1>5, QuietSearches

LEMMA StartConstrainedSearches == SearchInv /\ StartConstrained => SearchInv'
<1> SUFFICES ASSUME SearchInv, StartConstrained PROVE SearchInv'
  OBVIOUS
<1>1. /\ pc = "data end" /\ pc' \in {"constrained", "exit"}
      /\ UNCHANGED <<file, line, param, space>> /\ point' = FirstPoint(space)
  BY DEF StartConstrained, BeginSearch, input
<1>2. IsPoint(point', space) /\ line = Len(file) + 1
  BY <1>1, FirstPointIsPoint DEF SearchInv, RangesInOrder, FileIsRead
<1> QED
  BY <1>1, <1>2, QuietSearches DEF Searching

LEMMA NextSearch == SearchInv /\ [Next]_vars => SearchInv'
<1> SUFFICES ASSUME SearchInv, [Next]_vars PROVE SearchInv'
  OBVIOUS
<1>1. CASE ReadLine \/ ApplyConstraint
  BY <1>1, ReadLineSearches, ApplyConstraintSearches
<1>2. CASE StartTag \/ ReadAgain \/ StartData \/ StartConstrained
  BY <1>2, StartTagSearches, ReadAgainSearches, StartDataSearches, StartConstrainedSearches
<1>3. CASE TryTag \/ TryData \/ TryConstrained
  BY <1>3, IterateSearches DEF TryTag, TryData, TryConstrained
<1>4. CASE NoTagSolution \/ FinishData
  <2>1. /\ UNCHANGED <<file, line, param, space>> /\ pc # "read" /\ pc' = "done"
    BY <1>4 DEF NoTagSolution, FinishData, input
  <2>2. line = Len(file) + 1
    BY <2>1 DEF SearchInv, FileIsRead
  <2> QED
    BY <2>1, <2>2, QuietSearches DEF Looping, Searching
<1>5. CASE Finished \/ UNCHANGED vars
  BY <1>5 DEF Finished, vars, SearchInv, FileIsRead, WaysAreCounted, RangesInOrder,
              PointsInRange, ChoicesKept, Decides
<1> QED
  BY <1>1, <1>2, <1>3, <1>4, <1>5 DEF Next

\* Where ChoicesHold speaks of the loop variables.
InData == pc \in {"data", "data end", "constrained"}

\* The choices that the ranges keep hold for the loop variables.
LEMMA KeptChoicesHold == SearchInv => ChoicesHold
<1> SUFFICES ASSUME SearchInv, InData PROVE ChoicesHold
  BY DEF ChoicesHold, InData
<1>0. pc \in Looping /\ pc \in Searching /\ pc # "read"
  BY DEF InData, Looping, Searching
<1>1. /\ line = Len(file) + 1 /\ Len(file) \in Nat /\ DOMAIN file = 1 .. Len(file)
      /\ \A i \in 1 .. Len(file) : IsLine(file[i])
  BY <1>0, LinesAreLines DEF SearchInv, FileIsRead
<1>2. IsPoint(point, space)
  BY <1>0 DEF SearchInv, PointsInRange
<1>3. ChoicesKept(Len(file))
  <2>1. \A n \in Nat : (n + 1) - 1 = n
    OBVIOUS
  <2>2. Len(file) = line - 1
    BY <1>1, <2>1
  <2> QED
    BY <1>0, <2>2 DEF SearchInv
<1>4. ASSUME NEW i \in DOMAIN file, NEW d \in LoopDim, HasLastWord(i, d)
      PROVE  Kept(file[i], d, space)
  <2>1. \A j \in 1 .. Len(file) : Fixes(j, d) <=> d \in Touched(file[j])
    BY <1>1, FixedTouches DEF Fixes
  <2>2. \A j \in i + 1 .. Len(file) : j \in 1 .. Len(file)
    <3>1. ASSUME NEW n \in Nat, NEW m \in 1 .. n, NEW j \in m + 1 .. n PROVE j \in 1 .. n
      OBVIOUS
    <3> QED
      BY <1>1, <3>1
  <2>3. Decides(i, d, Len(file))
    BY <1>1, <1>4, <2>1, <2>2 DEF HasLastWord, Decides
  <2> QED
    BY <1>1, <1>3, <2>3 DEF ChoicesKept
<1>5. ASSUME NEW i \in DOMAIN file, file[i].option = "UseCactiAssumption",
             HasLastWord(i, "NumActiveMatPerRow")
      PROVE  /\ point["NumActiveMatPerRow"] = point["NumColumnMat"]
             /\ point["NumActiveMatPerColumn"] = 1
  <2>1. /\ "NumActiveMatPerRow" \in ActiveDim /\ "NumActiveMatPerColumn" \in ActiveDim
        /\ TotalOf["NumActiveMatPerRow"] = "NumColumnMat"
        /\ TotalOf["NumActiveMatPerColumn"] = "NumRowMat"
    BY DEF ActiveDim, TotalOf
  <2>2. /\ "NumActiveMatPerRow" \in LoopDim /\ "NumActiveMatPerColumn" \in LoopDim
        /\ "NumColumnMat" \in LoopDim \ ActiveDim /\ "NumRowMat" \in LoopDim \ ActiveDim
    BY <2>1, TotalIsOuter
  <2>3. /\ space["NumActiveMatPerRow"] =
             From(space["NumColumnMat"].max, space["NumColumnMat"].max)
        /\ space["NumActiveMatPerColumn"] = From(1, 1)
    BY <1>4, <1>5, <2>2 DEF Kept
  <2>4. /\ point["NumActiveMatPerRow"] =
             MinOf(point["NumColumnMat"], space["NumColumnMat"].max)
        /\ point["NumActiveMatPerColumn"] = MinOf(point["NumRowMat"], 1)
    BY <1>2, <2>1, <2>2, <2>3, SettledPoint
  <2>5. /\ point["NumColumnMat"] \in Nat \ {0} /\ point["NumRowMat"] \in Nat \ {0}
        /\ point["NumColumnMat"] <= space["NumColumnMat"].max
    BY <1>2, <2>2 DEF IsPoint, Numbers
  <2>6. space["NumColumnMat"].max \in Nat
    BY <2>2, NumbersAreNatural DEF SearchInv, RangesInOrder, IsSpace, IsRange
  <2> QED
    BY <2>4, <2>5, <2>6 DEF MinOf
<1>6. ASSUME NEW i \in DOMAIN file, file[i].option # "UseCactiAssumption",
             NEW d \in LoopDim, HasLastWord(i, d)
      PROVE  LET value == Fixed(file[i].option, file[i].value, space)[d]
             IN  point[d] = IF d \in ActiveDim THEN MinOf(point[TotalOf[d]], value) ELSE value
  <2> DEFINE value == Fixed(file[i].option, file[i].value, space)[d]
  <2>1. space[d] = From(value, value)
    BY <1>4, <1>6 DEF Kept
  <2> HIDE DEF value
  <2>2. point[d] = IF d \in ActiveDim THEN MinOf(point[TotalOf[d]], value) ELSE value
    BY <1>2, <2>1, SettledPoint
  <2> QED
    BY <2>2 DEF value
<1> QED
  BY <1>5, <1>6 DEF ChoicesHold

\* For every configuration file, the data array is searched among the choices of
\* the last lines for each dimension, -UseCactiAssumption included, although the
\* tag search has overwritten them (InputParameter.cpp:460, main.cpp:250-251).
THEOREM SearchKeepsChoices == Spec => []ChoicesHold
BY InitSearch, NextSearch, KeptChoicesHold, PTL DEF Spec

\* For every range of every loop, the iterations of a search increase in the order
\* of the loops, so none tries an organisation again (BIGFOR).
THEOREM SearchPointsIncrease == Spec => PointsIncrease
<1>1. SearchInv /\ [Next]_vars
        => [(pc \in {"tag", "data", "constrained"} /\ pc' = pc) => Before(point, point')]_vars
  <2> SUFFICES ASSUME SearchInv, Next, pc \in {"tag", "data", "constrained"}, pc' = pc
               PROVE  Before(point, point') \/ UNCHANGED vars
    OBVIOUS
  <2>1. CASE TryTag \/ TryData \/ TryConstrained
    <3>1. Steppable # {} /\ point' = NextPoint
      BY <2>1 DEF TryTag, TryData, TryConstrained, Iterate
    <3>2. /\ IsPoint(point, space) /\ IsSpace(space) /\ param.Associativity \in Nat \ {0}
      BY DEF SearchInv, PointsInRange, Looping, RangesInOrder, WaysAreCounted
    <3> QED
      BY <3>1, <3>2, NextPointIsLater
  <2>2. CASE ~(TryTag \/ TryData \/ TryConstrained)
    BY <2>2 DEF Next, ReadLine, ApplyConstraint, StartTag, NoTagSolution, ReadAgain,
                StartData, StartConstrained, FinishData, Finished
  <2> QED
    BY <2>1, <2>2
<1> QED
  BY <1>1, InitSearch, NextSearch, PTL DEF Spec, PointsIncrease

-----------------------------------------------------------------------------
(***************************************************************************)
(* Tags and data.                                                          *)
(***************************************************************************)
Sizes == {"Capacity", "WordWidth"}

\* The value of an option is that of one of its lines.
IsGiven(option) ==
  \E i \in 1 .. Len(file) : file[i].option = option /\ param[option] = file[i].value

\* The lines that have been read in any of the readings.
LineSeen(i) == readings = 2 \/ pc # "read" \/ i < line

SizesAreGiven ==
  \A option \in Sizes :
    (\E i \in 1 .. Len(file) : LineSeen(i) /\ file[i].option = option) => IsGiven(option)

WaysArePower == pc \in {"tag setup", "data setup"} \cup Looping => IsPow2(param.Associativity)

DataIsBlock == pc = "data" => array = DataArray

SizedInv ==
  /\ DOMAIN param = DOMAIN DefaultParam
  /\ SizesAreGiven
  /\ WaysArePower
  /\ DataIsBlock

LEMMA InitSized == Init => SizedInv
<1> SUFFICES ASSUME Init PROVE SizedInv
  OBVIOUS
<1>1. Len(file) \in Nat
  BY FilesAssumption DEF Init
<1>2. \A i \in 1 .. Len(file) : ~LineSeen(i)
  BY <1>1 DEF Init, LineSeen
<1> QED
  BY <1>2 DEF Init, SizedInv, SizesAreGiven, WaysArePower, DataIsBlock, Looping

LEMMA ReadLineSized == SearchInv /\ SizedInv /\ ReadLine => SizedInv'
<1> SUFFICES ASSUME SearchInv, SizedInv, ReadLine PROVE SizedInv'
  OBVIOUS
<1>1. /\ pc = "read" /\ pc' = "read" /\ line' = line + 1 /\ line <= Len(file)
      /\ file' = file /\ readings' = readings
      /\ param' = Set(param, file[line].option, file[line].value)
  BY DEF ReadLine, input
<1>2. line \in 1 .. Len(file) /\ Len(file) \in Nat
  BY <1>1, LinesAreLines DEF SearchInv, FileIsRead
<1>3. DOMAIN param' = DOMAIN DefaultParam
  BY <1>1 DEF SizedInv, Set
<1>4. ASSUME NEW option \in Sizes,
             NEW i \in 1 .. Len(file), LineSeen(i)', file[i].option = option
      PROVE  IsGiven(option)'
  <2>1. option \in DOMAIN param
    BY DEF SizedInv, Sizes, DefaultParam
  <2>2. CASE file[line].option = option
    BY <1>1, <1>2, <2>1, <2>2 DEF IsGiven, Set
  <2>3. CASE file[line].option # option
    <3>1. LineSeen(i)
      BY <1>1, <1>2, <1>4, <2>3 DEF LineSeen
    <3>2. IsGiven(option)
      BY <1>4, <3>1 DEF SizedInv, SizesAreGiven
    <3>3. param'[option] = param[option]
      BY <1>1, <2>1, <2>3 DEF Set
    <3> QED
      BY <1>1, <3>2, <3>3 DEF IsGiven
  <2> QED
    BY <2>2, <2>3
<1>5. SizesAreGiven'
  BY <1>1, <1>4 DEF SizesAreGiven
<1> QED
  BY <1>1, <1>3, <1>5 DEF SizedInv, WaysArePower, DataIsBlock, Looping

LEMMA ApplyConstraintSized == SearchInv /\ SizedInv /\ ApplyConstraint => SizedInv'
<1> SUFFICES ASSUME SearchInv, SizedInv, ApplyConstraint PROVE SizedInv'
  OBVIOUS
<1>1. /\ pc = "read" /\ line > Len(file) /\ UNCHANGED <<file, line, readings>>
      /\ pc' \in {"exit", "tag setup", "data setup"}
      /\ \/ pc' = "exit" /\ param' = param
         \/ ~IsRefused /\ param' = [param EXCEPT !.Associativity = Ways]
  BY DEF ApplyConstraint, input
<1>2. Len(file) \in Nat /\ \A i \in 1 .. Len(file) : LineSeen(i)
  <2>1. Len(file) \in Nat /\ line \in 1 .. Len(file) + 1
    BY LinesAreLines DEF SearchInv, FileIsRead
  <2>2. \A n \in Nat : \A k \in 1 .. n + 1 : \A i \in 1 .. n : k > n => i < k
    OBVIOUS
  <2> QED
    BY <1>1, <2>1, <2>2 DEF LineSeen
<1>3. DOMAIN param' = DOMAIN DefaultParam
  BY <1>1 DEF SizedInv
<1>4. SizesAreGiven'
  <2>1. \A option \in Sizes : param'[option] = param[option]
    BY <1>1 DEF Sizes, SizedInv, DefaultParam
  <2> QED
    BY <1>1, <1>2, <2>1 DEF SizedInv, SizesAreGiven, IsGiven
<1>5. WaysArePower'
  <2>1. pc' # "exit" => param'.Associativity = Ways /\ IsPow2(Ways)
    BY <1>1 DEF IsRefused, SizedInv, DefaultParam
  <2> QED
    BY <1>1, <2>1 DEF WaysArePower, Looping
<1> QED
  BY <1>1, <1>3, <1>4, <1>5 DEF SizedInv, DataIsBlock

\* The other steps leave the options alone.
LEMMA QuietSized ==
  ASSUME SizedInv, UNCHANGED <<file, param>>,
         pc # "read",
         pc' # "read" \/ readings' = 2,
         pc' \in {"tag setup", "data setup"} \cup Looping
           => pc \in {"tag setup", "data setup"} \cup Looping,
         DataIsBlock'
  PROVE  SizedInv'
<1>1. \A i \in 1 .. Len(file) : LineSeen(i)
  BY DEF LineSeen
<1> QED
  BY <1>1 DEF SizedInv, SizesAreGiven, IsGiven, WaysArePower

LEMMA NextSized == SearchInv /\ SizedInv /\ [Next]_vars => SizedInv'
<1> SUFFICES ASSUME SearchInv, SizedInv, [Next]_vars PROVE SizedInv'
  OBVIOUS
<1>1. CASE ReadLine \/ ApplyConstraint
  BY <1>1, ReadLineSized, ApplyConstraintSized
<1>2. CASE StartData
  <2>1. /\ pc = "data setup" /\ pc' \in {"data", "exit"} /\ UNCHANGED <<input, param>>
        /\ array' = DataArray
    BY <1>2 DEF StartData, BeginSearch
  <2>2. DataArray' = DataArray
    BY <2>1 DEF DataArray, Block, IsFlash, input
  <2> QED
    BY <2>1, <2>2, QuietSized DEF DataIsBlock, Looping, input
<1>3. CASE StartTag \/ ReadAgain \/ StartConstrained \/ NoTagSolution \/ FinishData
  <2>1. /\ UNCHANGED <<file, param>> /\ pc # "read" /\ pc' # "data"
        /\ pc \in {"tag setup", "data setup"} \cup Looping
        /\ pc' # "read" \/ readings' = 2
    BY <1>3 DEF StartTag, ReadAgain, StartConstrained, NoTagSolution, FinishData, BeginSearch,
                Looping, input
  <2> QED
    BY <2>1, QuietSized DEF DataIsBlock
<1>4. CASE TryTag \/ TryData \/ TryConstrained
  <2>1. /\ UNCHANGED <<input, param>> /\ pc \in {"tag", "data", "constrained"}
        /\ pc' = pc \/ pc' \in {"tag end", "data end", "done"}
        /\ pc = "data" => array' = array
    BY <1>4 DEF TryTag, TryData, TryConstrained, Iterate
  <2>2. DataArray' = DataArray
    BY <2>1 DEF DataArray, Block, IsFlash, input
  <2>3. DataIsBlock'
    BY <2>1, <2>2 DEF SizedInv, DataIsBlock
  <2>4. UNCHANGED <<file, param>> /\ pc # "read" /\ pc' # "read" /\ pc \in Looping
    BY <2>1 DEF Looping, input
  <2> QED
    BY <2>3, <2>4, QuietSized
<1>5. CASE Finished \/ UNCHANGED vars
  <2>1. UNCHANGED <<file, cellType, pc, line, readings, param, array>>
    BY <1>5 DEF Finished, vars
  <2>2. SizesAreGiven'
    BY <2>1 DEF SizedInv, SizesAreGiven, IsGiven, LineSeen
  <2>3. (WaysArePower /\ DataIsBlock)'
    BY <2>1 DEF SizedInv, WaysArePower, DataIsBlock, DataArray, Block, IsFlash
  <2> QED
    BY <2>1, <2>2, <2>3 DEF SizedInv
<1> QED
  BY <1>1, <1>2, <1>3, <1>4, <1>5 DEF Next

\* The sizes of a search.
LEMMA SizesOfSearch ==
  ASSUME SearchInv, SizedInv, pc \in Looping
  PROVE  /\ param.Capacity \in Nat \ {0} /\ param.WordWidth \in 1 .. 2 ^ MaxLog
         /\ param.Capacity \div param.WordWidth <= 2 ^ MaxLog
         /\ \E a \in 0 .. MaxLog : param.Associativity = 2 ^ a
<1>1. file \in Files /\ DOMAIN file = 1 .. Len(file)
  BY LinesAreLines DEF SearchInv, FileIsRead
<1>2. pc # "read"
  BY DEF Looping
<1>3. ASSUME NEW option \in Sizes PROVE IsGiven(option)
  <2>1. \E i \in DOMAIN file : file[i].option = option
    BY <1>1, SizesAssumption DEF Sizes
  <2> QED
    BY <1>1, <1>2, <2>1 DEF SizedInv, SizesAreGiven, LineSeen
<1>4. PICK i \in DOMAIN file : file[i].option = "Capacity" /\ param.Capacity = file[i].value
  BY <1>1, <1>3 DEF IsGiven, Sizes
<1>5. PICK j \in DOMAIN file : file[j].option = "WordWidth" /\ param.WordWidth = file[j].value
  BY <1>1, <1>3 DEF IsGiven, Sizes
<1>6. /\ param.Capacity \in Nat \ {0} /\ param.WordWidth \in Nat \ {0}
      /\ param.WordWidth <= 2 ^ MaxLog /\ param.Capacity \div param.WordWidth <= 2 ^ MaxLog
  BY <1>1, <1>4, <1>5, SizesAssumption
<1>7. IsPow2(param.Associativity)
  BY DEF SizedInv, WaysArePower
<1> QED
  BY <1>6, <1>7, PowerOfTwo DEF MaxLog

LEMMA PartsAreCounted ==
  ASSUME SearchInv, pc \in Looping
  PROVE  ActiveParts(point) \in Nat \ {0}
<1>1. ASSUME NEW d \in ActiveDim PROVE point[d] \in Nat \ {0}
  BY NumbersAreNatural, TotalIsOuter DEF SearchInv, PointsInRange, IsPoint
<1>2. {"NumActiveMatPerRow", "NumActiveMatPerColumn", "NumActiveSubarrayPerRow",
       "NumActiveSubarrayPerColumn"} \subseteq ActiveDim
  BY DEF ActiveDim, TotalOf
<1>3. PICK a, b, c, d : /\ a = point["NumActiveMatPerRow"] /\ b = point["NumActiveMatPerColumn"]
                       /\ c = point["NumActiveSubarrayPerRow"]
                       /\ d = point["NumActiveSubarrayPerColumn"]
  OBVIOUS
<1>4. a \in Nat \ {0} /\ b \in Nat \ {0} /\ c \in Nat \ {0} /\ d \in Nat \ {0}
  BY <1>1, <1>2, <1>3
<1>5. a * b \in Nat \ {0} /\ a * b * c \in Nat \ {0} /\ a * b * c * d \in Nat \ {0}
  BY <1>4
<1> QED
  BY <1>3, <1>5 DEF ActiveParts

\* A multiple of the active parts that is not smaller than the tag.
LEMMA Padded ==
  ASSUME NEW bits \in Nat, NEW parts \in Nat \ {0}, NEW block,
         block = IF bits % parts # 0 THEN (bits \div parts + 1) * parts ELSE bits
  PROVE  block \in Nat /\ block % parts = 0 /\ block >= bits /\ block - bits < parts
<1>1. PICK q, r : q = bits \div parts /\ r = bits % parts
  OBVIOUS
<1>2. q \in Nat /\ r \in 0 .. parts - 1 /\ bits = parts * q + r
  BY <1>1
<1>3. CASE r = 0
  BY <1>1, <1>2, <1>3
<1>4. CASE r # 0
  <2>1. block = (q + 1) * parts
    BY <1>1, <1>4
  <2>2. (q + 1) * parts = parts * q + parts
    BY <1>2
  <2>3. block \in Nat /\ block >= bits /\ block - bits < parts
    BY <1>2, <1>4, <2>1, <2>2
  <2>4. \A n \in Nat : (n * parts) % parts = 0
    OBVIOUS
  <2>5. block % parts = 0
    BY <1>2, <2>1, <2>4
  <2> QED
    BY <2>3, <2>5
<1> QED
  BY <1>2, <1>3, <1>4

\* The number of sets.
LEMMA WholeSets ==
  ASSUME SearchInv, SizedInv, pc \in Looping, HasTags, HasWholeSets
  PROVE  \E n \in 1 .. 2 ^ MaxLog, a \in 0 .. MaxLog, w \in Nat \ {0} :
           /\ param.WordWidth = w /\ param.Associativity = 2 ^ a /\ n * 2 ^ a <= 2 ^ MaxLog
           /\ param.Capacity = w * (n * 2 ^ a)
           /\ param.Capacity \div w = n * 2 ^ a
           /\ NumDataSet = n
<1>1. PICK c, w, a : /\ c = param.Capacity /\ w = param.WordWidth
                    /\ a \in 0 .. MaxLog /\ param.Associativity = 2 ^ a
  BY SizesOfSearch
<1>2. c \in Nat \ {0} /\ w \in Nat \ {0} /\ c \div w <= 2 ^ MaxLog
  BY <1>1, SizesOfSearch DEF MaxLog
<1>3. PICK p : p = 2 ^ a
  OBVIOUS
<1>4. p \in Nat \ {0}
  BY <1>1, <1>3, PowerIsPositive DEF MaxLog, MaxPower
<1>5. PICK d : d = w * p
  OBVIOUS
<1>6. d \in Nat \ {0} /\ c % d = 0
  BY <1>1, <1>2, <1>3, <1>4, <1>5 DEF HasWholeSets
<1>7. PICK n : n = c \div d
  OBVIOUS
<1>8. n \in Nat \ {0} /\ c = d * n
  BY <1>2, <1>6, <1>7
<1>9. n * p \in Nat \ {0} /\ c = (n * p) * w /\ n <= n * p
  BY <1>2, <1>4, <1>5, <1>8
<1>10. c \div w = n * p
  BY <1>2, <1>9, ExactQuotient
<1>11. (n * p) \div p = n
  BY <1>4, <1>8, ExactQuotient
<1>12. n \in 1 .. 2 ^ MaxLog /\ c = w * (n * p)
  BY <1>2, <1>4, <1>8, <1>9, <1>10 DEF MaxLog
<1>13. NumDataSet = n
  BY <1>1, <1>3, <1>10, <1>11 DEF NumDataSet
<1> QED
  BY <1>1, <1>2, <1>3, <1>10, <1>12, <1>13

\* The logarithms of a cache are numbers.
LEMMA TagIsNumber ==
  ASSUME SearchInv, SizedInv, pc \in Looping, HasTags
  PROVE  TagBits \in Nat \ {0}
<1>1. PICK c, w, a : /\ c = param.Capacity /\ w = param.WordWidth
                    /\ a \in 0 .. MaxLog /\ param.Associativity = 2 ^ a
  BY SizesOfSearch
<1>2. /\ c \in Nat \ {0} /\ w \in 8 .. 2 ^ MaxLog /\ c \div w <= 2 ^ MaxLog
      /\ 2 ^ a \in Nat \ {0}
  BY <1>1, SizesOfSearch, PowerIsPositive DEF MaxLog, MaxPower, HasTags
<1>3. NumDataSet \in 1 .. 2 ^ MaxLog
  <2>1. PICK q : q = c \div w
    OBVIOUS
  <2>2. q \in Nat /\ q <= 2 ^ 30
    BY <1>2, <2>1 DEF MaxLog
  <2>3. NumDataSet = q \div 2 ^ a /\ NumDataSet > 0
    BY <1>1, <2>1 DEF NumDataSet, HasTags
  <2>4. \A m \in Nat \ {0} : q \div m \in Int /\ q \div m <= q
    BY <2>2
  <2> QED
    BY <1>2, <2>2, <2>3, <2>4 DEF MaxLog
<1>4. w \div 8 \in 1 .. 2 ^ MaxLog
  BY <1>2 DEF MaxLog
<1>5. NumIndexBit \in Int /\ NumOffsetBit \in Int
  <2>1. Log2(NumDataSet, 1) \in 0 .. MaxLog /\ Log2(w \div 8, 1) \in 0 .. MaxLog
    BY <1>3, <1>4, LogExists
  <2> QED
    BY <1>1, <2>1 DEF NumIndexBit, NumOffsetBit
<1> QED
  BY <1>5, LimitsAssumption DEF TagBits, HasTags

\* The tag array under trial.
LEMMA TagFits ==
  ASSUME SearchInv, SizedInv, pc = "tag", HasTags
  PROVE  /\ TagBlock % ActiveParts(point) = 0 /\ TagBlock >= TagBits
         /\ TagBlock - TagBits < ActiveParts(point)
         /\ HasWholeSets => NumAddressBit(TagArray) = NumIndexBit
<1>1. pc \in Looping
  BY DEF Looping
<1>2. PICK parts, bits : parts = ActiveParts(point) /\ bits = TagBits
  OBVIOUS
<1>3. parts \in Nat \ {0} /\ bits \in Nat \ {0}
  BY <1>1, <1>2, PartsAreCounted, TagIsNumber
<1>4. TagBlock = IF bits % parts # 0 THEN (bits \div parts + 1) * parts ELSE bits
  BY <1>2 DEF TagBlock
<1>5. /\ TagBlock \in Nat /\ TagBlock % parts = 0 /\ TagBlock >= bits
      /\ TagBlock - bits < parts
  BY <1>3, <1>4, Padded
<1>6. ASSUME HasWholeSets PROVE NumAddressBit(TagArray) = NumIndexBit
  <2>1. PICK n \in 1 .. 2 ^ MaxLog, a \in 0 .. MaxLog, w \in Nat \ {0} :
           /\ param.WordWidth = w /\ param.Associativity = 2 ^ a /\ n * 2 ^ a <= 2 ^ MaxLog
           /\ param.Capacity \div w = n * 2 ^ a
           /\ NumDataSet = n
    BY <1>1, <1>6, WholeSets
  <2>2. PICK b, p : b = TagBlock /\ p = 2 ^ a
    OBVIOUS
  <2>3. b \in Nat \ {0} /\ p \in Nat \ {0} /\ n \in Nat
    BY <1>3, <1>5, <2>2, PowerIsPositive DEF MaxLog, MaxPower
  <2>4. b * p \in Nat \ {0} /\ (n * p) * b = (b * p) * n
    BY <2>3
  <2>5. NumAddressBit(TagArray) = Log2((n * p) * b, b * p)
    BY <2>1, <2>2 DEF NumAddressBit, TagArray
  <2> QED
    BY <2>1, <2>4, <2>5, LogOfQuotient DEF NumIndexBit
<1> QED
  BY <1>2, <1>5, <1>6

\* The data array of a cache, in each access mode.
LEMMA DataFits ==
  ASSUME SearchInv, SizedInv, pc \in Looping, HasTags, HasWholeSets
  PROVE  NumAddressBit(DataArray)
           = NumIndexBit + (IF param.CacheAccessMode = "Sequential"
                            THEN Log2(param.Associativity, 1) ELSE 0)
<1>1. PICK n \in 1 .. 2 ^ MaxLog, a \in 0 .. MaxLog, w \in Nat \ {0} :
         /\ param.WordWidth = w /\ param.Associativity = 2 ^ a /\ n * 2 ^ a <= 2 ^ MaxLog
         /\ param.Capacity = w * (n * 2 ^ a)
         /\ NumDataSet = n
  BY WholeSets
<1>2. PICK p : p = 2 ^ a
  OBVIOUS
<1>3. p \in Nat \ {0} /\ n \in Nat \ {0} /\ n * p \in Nat \ {0}
  BY <1>2, PowerIsPositive DEF MaxLog, MaxPower
<1>4. param.DesignTarget = "cache"
  BY DEF HasTags
<1>5. NumIndexBit = Log2(n, 1) /\ Log2(n, 1) \in Int
  <2>1. Log2(n, 1) \in 0 .. MaxLog
    BY LogExists
  <2> QED
    BY <1>1, <2>1 DEF NumIndexBit
<1>6. CASE param.CacheAccessMode = "Sequential"
  <2>1. NumAddressBit(DataArray) = Log2(w * (n * p), w * 1)
    BY <1>1, <1>2, <1>4, <1>6 DEF DataArray, IsFlash, Block, NumAddressBit
  <2>2. w * 1 = w /\ n * p \in 1 .. 2 ^ MaxLog
    BY <1>1, <1>2, <1>3 DEF MaxLog
  <2>3. NumAddressBit(DataArray) = Log2(n * p, 1)
    BY <2>1, <2>2, LogOfQuotient
  <2>4. Log2(n * p, 1) = Log2(n, 1) + a
    BY <1>1, <1>2, <1>3, LogOfProduct
  <2>5. Log2(p, 1) = a
    BY <1>2, LogOfPower
  <2> QED
    BY <1>1, <1>2, <1>5, <1>6, <2>3, <2>4, <2>5
<1>7. CASE param.CacheAccessMode # "Sequential"
  <2>1. \/ NumAddressBit(DataArray) = Log2(w * (n * p), (w * p) * 1)
        \/ NumAddressBit(DataArray) = Log2(w * (n * p), w * p)
    BY <1>1, <1>2, <1>4, <1>7 DEF DataArray, IsFlash, Block, NumAddressBit
  <2>2. w * p \in Nat \ {0} /\ (w * p) * 1 = w * p /\ w * (n * p) = (w * p) * n
    BY <1>3
  <2>3. NumAddressBit(DataArray) = Log2(n, 1)
    BY <2>1, <2>2, LogOfQuotient
  <2> QED
    BY <1>5, <1>7, <2>3
<1> QED
  BY <1>6, <1>7

MatchInv == SearchInv /\ SizedInv /\ DataMatchesTags

LEMMA TryTagMatches == MatchInv /\ TryTag => DataMatchesTags'
<1> SUFFICES ASSUME MatchInv, TryTag, bank'.built, HasTags' PROVE DataMatchesTags'
  BY DEF DataMatchesTags
<1>1. /\ pc = "tag" /\ pc' \in {"tag", "tag end"} /\ UNCHANGED <<input, param>>
      /\ bank' = IF TooAggressive(TagBits) THEN NoBank
                 ELSE [built |-> TRUE, organisation |-> point, array |-> array']
      /\ ~TooAggressive(TagBits) => array' = TagArray
  BY DEF TryTag, Iterate
<1>2. bank' = [built |-> TRUE, organisation |-> point, array |-> TagArray]
  BY <1>1 DEF NoBank
<1>3. /\ HasTags' = HasTags /\ HasWholeSets' = HasWholeSets /\ TagBits' = TagBits
      /\ NumIndexBit' = NumIndexBit
  BY <1>1 DEF HasTags, HasWholeSets, TagBits, NumIndexBit, NumOffsetBit, NumDataSet
<1>4. TagArray.blockSize = TagBlock
  BY DEF TagArray
<1>5. /\ TagBlock % ActiveParts(point) = 0 /\ TagBlock >= TagBits
      /\ TagBlock - TagBits < ActiveParts(point)
      /\ HasWholeSets => NumAddressBit(TagArray) = NumIndexBit
  BY <1>1, <1>3, TagFits DEF MatchInv
<1>6. bank'.organisation = point /\ bank'.array = TagArray
  BY <1>2
<1>7. pc' \notin {"data", "data end"}
  BY <1>1
<1>8. /\ bank'.array.blockSize % ActiveParts(bank'.organisation) = 0
      /\ bank'.array.blockSize >= TagBits'
      /\ bank'.array.blockSize - TagBits' < ActiveParts(bank'.organisation)
      /\ HasWholeSets' => NumAddressBit(bank'.array) = NumIndexBit'
  BY <1>3, <1>4, <1>5, <1>6
<1> HIDE DEF HasTags
<1> QED
  BY <1>7, <1>8, Zenon DEF DataMatchesTags, ActiveParts

LEMMA TryDataMatches == MatchInv /\ TryData => DataMatchesTags'
<1> SUFFICES ASSUME MatchInv, TryData, bank'.built, HasTags' PROVE DataMatchesTags'
  BY DEF DataMatchesTags
<1>1. /\ pc = "data" /\ pc' \in {"data", "data end"} /\ UNCHANGED <<input, param>>
      /\ bank' = NoBank \/ bank' = [built |-> TRUE, organisation |-> point, array |-> array]
  BY DEF TryData, Iterate
<1>2. bank'.array = array /\ array = DataArray
  <2>1. bank' # NoBank
    BY DEF NoBank
  <2>2. array = DataArray
    BY <1>1 DEF MatchInv, SizedInv, DataIsBlock
  <2>3. bank' = [built |-> TRUE, organisation |-> point, array |-> array]
    BY <1>1, <2>1
  <2> QED
    BY <2>2, <2>3
<1>3. HasTags /\ HasWholeSets' = HasWholeSets /\ NumIndexBit' = NumIndexBit
  BY <1>1 DEF HasTags, HasWholeSets, TagBits, NumIndexBit, NumOffsetBit, NumDataSet
<1>4. pc \in Looping /\ pc' \notin {"tag", "tag end"}
  BY <1>1 DEF Looping
<1>5. HasWholeSets => NumAddressBit(bank'.array)
        = NumIndexBit + (IF param.CacheAccessMode = "Sequential"
                         THEN Log2(param.Associativity, 1) ELSE 0)
  BY <1>2, <1>3, <1>4, DataFits DEF MatchInv
<1>6. HasWholeSets' => NumAddressBit(bank'.array)
        = NumIndexBit' + (IF param'.CacheAccessMode = "Sequential"
                          THEN Log2(param'.Associativity, 1) ELSE 0)
  BY <1>1, <1>3, <1>5
<1> HIDE DEF HasTags
<1> QED
  BY <1>4, <1>6, Zenon DEF DataMatchesTags

\* The other steps build no bank while the property looks.
LEMMA NextMatches == MatchInv /\ [Next]_vars => DataMatchesTags'
<1> SUFFICES ASSUME MatchInv, [Next]_vars PROVE DataMatchesTags'
  OBVIOUS
<1>1. CASE TryTag \/ TryData
  BY <1>1, TryTagMatches, TryDataMatches
<1>2. CASE StartTag \/ StartData
  <2>1. bank' = NoBank
    BY <1>2 DEF StartTag, StartData, BeginSearch
  <2>2. ~bank'.built
    BY <2>1 DEF NoBank
  <2> QED
    BY <2>2 DEF DataMatchesTags
<1>3. CASE ReadLine \/ ApplyConstraint \/ ReadAgain \/ StartConstrained \/ TryConstrained
           \/ NoTagSolution \/ FinishData \/ Finished
  <2>1. pc' \notin {"tag", "tag end", "data", "data end"}
    BY <1>3 DEF ReadLine, ApplyConstraint, ReadAgain, StartConstrained, TryConstrained,
                NoTagSolution, FinishData, Finished, vars, BeginSearch, Iterate
  <2> QED
    BY <2>1 DEF DataMatchesTags
<1>4. CASE UNCHANGED vars
  BY <1>4 DEF MatchInv, vars, DataMatchesTags, HasTags, HasWholeSets, TagBits, NumIndexBit,
              NumOffsetBit, NumDataSet
<1> QED
  BY <1>1, <1>2, <1>3, <1>4 DEF Next

\* For every configuration file that gives the sizes, and all limits: main() computes
\* index and offset bits once, for the tags, and each bank computes its address bits
\* again from a capacity that contains the padding of the tags; they agree in every
\* access mode (main.cpp:188-206, 256-283).
THEOREM TagsMatchData == Spec => []DataMatchesTags
<1>1. Init => MatchInv
  BY InitSearch, InitSized DEF MatchInv, DataMatchesTags, Init, NoBank
<1>2. MatchInv /\ [Next]_vars => MatchInv'
  BY NextSearch, NextSized, NextMatches DEF MatchInv
<1> QED
  BY <1>1, <1>2, PTL DEF Spec, MatchInv

-----------------------------------------------------------------------------
(***************************************************************************)
(* The number of iterations.  The loops visit the organisations of the     *)
(* ranges in the order of Before, one after the other; so the iterations   *)
(* done so far are as many as there are organisations before the present.  *)
(***************************************************************************)

\* Ranges of more than one value end at 2 ^ MaxLog at the latest; that of the rows
\* of a set is cut by the number of ways, which does.
IsBounded(ranges) ==
  /\ \A d \in LoopDim \ {"NumRowPerSet"} :
       ranges[d].min = ranges[d].max \/ ranges[d].max <= 2 ^ MaxLog
  /\ ranges["NumRowPerSet"].min = 1

Area == "AreaOptimizationLevel"

\* The values of a loop from lo to hi, and the value after one.
Chain(d, lo, hi) == IF d = Area THEN lo .. hi ELSE Doublings(lo, hi)
After(d, n) == IF d = Area THEN n + 1 ELSE 2 * n

\* Limit, for any organisation, ranges and number of ways.
Most(d, p, ranges, ways) ==
  CASE d \in ActiveDim -> MinOf(p[TotalOf[d]], ranges[d].max)
    [] d = "NumRowPerSet" -> MinOf(ranges[d].max, ways)
    [] OTHER -> ranges[d].max
Values(d, p, ranges, ways) == Chain(d, Start(d, p, ranges), Most(d, p, ranges, ways))

\* The organisations of the ranges.
Points(ranges, ways) ==
  {p \in [LoopDim -> Nat] : \A d \in LoopDim : p[d] \in Values(d, p, ranges, ways)}

\* What a search is given.
CanSearch(ranges, ways) ==
  IsSpace(ranges) /\ IsBounded(ranges) /\ ways \in 1 .. 2 ^ MaxLog

\* A search is given ranges and ways.
LEMMA GivenToSearch ==
  ASSUME NEW ranges, NEW ways, CanSearch(ranges, ways)
  PROVE  IsSpace(ranges) /\ ways \in Nat \ {0}
<1>1. 2 ^ MaxLog \in Int
  BY DEF MaxLog
<1> QED
  BY <1>1 DEF CanSearch

\* No doubling falls between a value and its double.
LEMMA NothingBetween ==
  ~ \E j \in 0 .. 30 : \E k \in 0 .. 30 : 2 ^ j < 2 * 2 ^ k /\ ~ (2 ^ j <= 2 ^ k)
BY SMT

LEMMA ChainInOrder ==
  ASSUME NEW d \in LoopDim, NEW lo \in Numbers(d), NEW hi \in Numbers(d), lo <= hi,
         lo = hi \/ hi <= 2 ^ MaxLog
  PROVE  /\ lo \in Chain(d, lo, hi)
         /\ \A n \in Chain(d, lo, hi) :
              /\ n \in Numbers(d) /\ lo <= n /\ n <= hi /\ n < After(d, n)
              /\ After(d, n) <= hi => After(d, n) \in Chain(d, lo, hi)
              /\ \A m \in Chain(d, lo, hi) : m < After(d, n) => m <= n
<1>1. CASE d = Area
  <2>1. lo \in Nat /\ hi \in Nat /\ Numbers(d) = 0 .. 2
    BY <1>1 DEF Numbers, Area
  <2> QED
    BY <1>1, <2>1 DEF Chain, After
<1>2. CASE d # Area
  <2>1. lo \in Nat \ {0} /\ hi \in Nat \ {0} /\ Numbers(d) = Nat \ {0}
    BY <1>2 DEF Numbers, Area
  <2>2. Chain(d, lo, hi) = Doublings(lo, hi)
    BY <1>2 DEF Chain
  <2>3. lo \in Doublings(lo, hi)
    <3>1. 0 \in 0 .. MaxLog /\ lo \in lo .. hi
      BY <2>1 DEF MaxLog
    <3>2. lo = lo * 2 ^ 0
      BY <2>1
    <3>3. \E k \in 0 .. MaxLog : lo = lo * 2 ^ k
      BY <3>1, <3>2
    <3> QED
      BY <3>1, <3>3 DEF Doublings
  <2>4. ASSUME NEW n \in Doublings(lo, hi)
        PROVE  \E k \in 0 .. MaxLog : \E p \in Nat \ {0} : p = 2 ^ k /\ n = lo * p
    <3>1. PICK k \in 0 .. MaxLog : n = lo * 2 ^ k
      BY DEF Doublings
    <3>2. 2 ^ k \in Nat \ {0}
      BY PowerIsPositive DEF MaxLog, MaxPower
    <3> QED
      BY <3>1, <3>2
  <2>5. ASSUME NEW n \in Doublings(lo, hi)
        PROVE  n \in Nat \ {0} /\ lo <= n /\ n <= hi
    BY <2>1 DEF Doublings
  <2>6. ASSUME NEW n \in Doublings(lo, hi), 2 * n <= hi PROVE 2 * n \in Doublings(lo, hi)
    <3>1. PICK k \in 0 .. MaxLog, p \in Nat \ {0} : p = 2 ^ k /\ n = lo * p
      BY <2>4
    <3>2. 2 * n = lo * (2 * p) /\ 2 * p = 2 ^ (k + 1)
      BY <2>1, <3>1, TwiceAsMuch DEF MaxLog, MaxPower
    <3>3. k + 1 \in 0 .. MaxLog
      <4>1. hi <= 2 ^ 30
        BY <2>1, <2>5, <2>6 DEF MaxLog
      <4>2. 2 * p <= lo * (2 * p)
        BY <2>1, <3>1
      <4>3. 2 * p <= 2 ^ 30
        BY <2>1, <2>6, <3>1, <3>2, <4>1, <4>2
      <4>4. ~ \E i \in 0 .. 30 : 2 * 2 ^ i <= 2 ^ 30 /\ ~ (i + 1 <= 30)
        BY SMT
      <4>5. k + 1 <= 30
        BY <3>1, <4>3, <4>4, Zenon DEF MaxLog
      <4> QED
        BY <4>5 DEF MaxLog
    <3>4. 2 * n \in lo .. hi
      BY <2>1, <2>5, <2>6
    <3> QED
      BY <3>2, <3>3, <3>4 DEF Doublings
  <2>7. ASSUME NEW n \in Doublings(lo, hi), NEW m \in Doublings(lo, hi), m < 2 * n PROVE m <= n
    <3>1. PICK k \in 0 .. MaxLog, p \in Nat \ {0} : p = 2 ^ k /\ n = lo * p
      BY <2>4
    <3>2. PICK j \in 0 .. MaxLog, q \in Nat \ {0} : q = 2 ^ j /\ m = lo * q
      BY <2>4
    <3>3. q < 2 * p
      <4>1. 2 * n = lo * (2 * p)
        BY <2>1, <3>1
      <4>2. \A x, y \in Nat : lo * x < lo * y => x < y
        BY <2>1
      <4> QED
        BY <2>7, <3>1, <3>2, <4>1, <4>2
    <3>4. q <= p
      BY <3>1, <3>2, <3>3, NothingBetween, Zenon DEF MaxLog
    <3>5. lo * q <= lo * p
      BY <2>1, <3>1, <3>2, <3>4
    <3> QED
      BY <3>1, <3>2, <3>5
  <2>8. \A n : After(d, n) = 2 * n
    BY <1>2 DEF After
  <2>9. \A n \in Doublings(lo, hi) : n < After(d, n)
    BY <2>5, <2>8
  <2> QED
    BY <2>1, <2>2, <2>3, <2>5, <2>6, <2>7, <2>8, <2>9
<1> QED
  BY <1>1, <1>2

\* The values of a loop, given the loops outside it.
LEMMA ValuesInOrder ==
  ASSUME NEW ranges, NEW ways, CanSearch(ranges, ways), NEW p, NEW d \in LoopDim,
         d \in ActiveDim => p[TotalOf[d]] \in Nat \ {0}
  PROVE  LET values == Values(d, p, ranges, ways)
             most == Most(d, p, ranges, ways)
         IN  /\ Start(d, p, ranges) \in values /\ most \in Nat
             /\ \A n \in values :
                  /\ n \in Numbers(d) /\ Start(d, p, ranges) <= n /\ n < After(d, n)
                  /\ After(d, n) \in Nat
                  /\ n <= most
                  /\ After(d, n) <= most => After(d, n) \in values
                  /\ \A m \in values : m < After(d, n) => m <= n
<1> DEFINE lo == Start(d, p, ranges)
           hi == Most(d, p, ranges, ways)
<1>1. IsRange(d, ranges[d]) /\ ways \in Nat \ {0} /\ ways <= 2 ^ MaxLog
  BY DEF CanSearch, IsSpace
<1>2. ranges[d].min \in Nat /\ ranges[d].max \in Nat /\ ranges[d].min <= ranges[d].max
  BY <1>1, NumbersAreNatural DEF IsRange
<1>3. /\ lo \in Numbers(d) /\ hi \in Numbers(d) /\ lo <= hi
      /\ lo = hi \/ hi <= 2 ^ MaxLog
  <2>1. CASE d \in ActiveDim
    <3>1. d # "AreaOptimizationLevel" /\ d # "NumRowPerSet" /\ Numbers(d) = Nat \ {0}
      BY <2>1, NumbersAreNatural DEF ActiveDim, TotalOf
    <3>2. lo = MinOf(p[TotalOf[d]], ranges[d].min) /\ hi = MinOf(p[TotalOf[d]], ranges[d].max)
      <4>1. lo = MinOf(p[TotalOf[d]], ranges[d].min)
        BY <2>1 DEF Start
      <4>2. hi = MinOf(p[TotalOf[d]], ranges[d].max)
        BY <2>1, <3>1 DEF Most
      <4> QED
        BY <4>1, <4>2
    <3>3. ranges[d].min = ranges[d].max \/ ranges[d].max <= 2 ^ MaxLog
      BY <3>1 DEF CanSearch, IsBounded
    <3>4. ranges[d].min \in Nat \ {0} /\ ranges[d].max \in Nat \ {0}
      BY <1>1, <3>1 DEF IsRange
    <3>5. 2 ^ MaxLog \in Nat
      BY DEF MaxLog
    <3> HIDE DEF lo, hi
    <3> QED
      BY <1>2, <2>1, <3>1, <3>2, <3>3, <3>4, <3>5 DEF MinOf
  <2>2. CASE d = "NumRowPerSet"
    <3>1. d \notin ActiveDim /\ Numbers(d) = Nat \ {0}
      BY <2>2 DEF ActiveDim, TotalOf, Numbers
    <3>2. lo = ranges[d].min /\ hi = MinOf(ranges[d].max, ways)
      BY <2>2, <3>1 DEF Start, Most
    <3>3. ranges[d].min = 1
      BY <2>2 DEF CanSearch, IsBounded
    <3>4. ranges[d].max \in Nat \ {0}
      BY <1>1, <3>1 DEF IsRange
    <3>5. 2 ^ MaxLog \in Nat
      BY DEF MaxLog
    <3> HIDE DEF lo, hi
    <3> QED
      BY <1>1, <3>1, <3>2, <3>3, <3>4, <3>5 DEF MinOf
  <2>3. CASE d \notin ActiveDim /\ d # "NumRowPerSet"
    <3>1. lo = ranges[d].min /\ hi = ranges[d].max
      BY <2>3 DEF Start, Most
    <3>2. ranges[d].min = ranges[d].max \/ ranges[d].max <= 2 ^ MaxLog
      BY <2>3 DEF CanSearch, IsBounded
    <3> QED
      BY <1>1, <3>1, <3>2 DEF IsRange
  <2> QED
    BY <2>1, <2>2, <2>3
<1>4. Values(d, p, ranges, ways) = Chain(d, lo, hi)
  BY DEF Values
<1>5. lo \in Nat /\ hi \in Nat
  BY <1>3, NumbersAreNatural
<1>6. \A n \in Numbers(d) : After(d, n) \in Nat
  BY NumbersAreNatural DEF After
<1> HIDE DEF lo, hi
<1>7. /\ lo \in Chain(d, lo, hi)
      /\ \A n \in Chain(d, lo, hi) :
           /\ n \in Numbers(d) /\ lo <= n /\ n <= hi /\ n < After(d, n)
           /\ After(d, n) <= hi => After(d, n) \in Chain(d, lo, hi)
           /\ \A m \in Chain(d, lo, hi) : m < After(d, n) => m <= n
  BY <1>3, ChainInOrder
<1> QED
  <2>1. hi \in Nat /\ Chain(d, lo, hi) = Values(d, p, ranges, ways)
    BY <1>4, <1>5
  <2>2. ASSUME NEW n \in Values(d, p, ranges, ways)
        PROVE  /\ n \in Numbers(d) /\ lo <= n /\ n < After(d, n)
               /\ After(d, n) \in Nat
               /\ n <= hi
               /\ After(d, n) <= hi => After(d, n) \in Values(d, p, ranges, ways)
               /\ \A m \in Values(d, p, ranges, ways) : m < After(d, n) => m <= n
    <3>1. n \in Chain(d, lo, hi)
      BY <2>1
    <3>2. n \in Numbers(d) /\ lo <= n /\ n < After(d, n) /\ n <= hi
      BY <1>7, <3>1
    <3>3. After(d, n) <= hi => After(d, n) \in Values(d, p, ranges, ways)
      BY <1>7, <2>1, <3>1
    <3>4. ASSUME NEW m \in Values(d, p, ranges, ways), m < After(d, n) PROVE m <= n
      BY <1>7, <2>1, <3>1, <3>4
    <3> QED
      BY <1>6, <3>2, <3>3, <3>4
  <2>3. lo \in Values(d, p, ranges, ways)
    BY <1>7, <2>1
  <2> QED
    BY <2>1, <2>2, <2>3, Zenon DEF lo, hi

\* What a point of the ranges is made of.
LEMMA PointsAreCounted ==
  ASSUME NEW ranges, NEW ways, CanSearch(ranges, ways), NEW p \in Points(ranges, ways),
         NEW d \in LoopDim
  PROVE  /\ p \in [LoopDim -> Nat] /\ p[d] \in Values(d, p, ranges, ways)
         /\ p[d] \in Numbers(d)
         /\ d \in ActiveDim => p[TotalOf[d]] \in Nat \ {0}
<1>1. /\ p \in [LoopDim -> Nat]
      /\ \A c \in LoopDim : p[c] \in Values(c, p, ranges, ways)
  BY DEF Points
<1>2. ASSUME NEW c \in LoopDim \ ActiveDim PROVE p[c] \in Numbers(c)
  BY <1>1, ValuesInOrder
<1>3. ASSUME d \in ActiveDim PROVE p[TotalOf[d]] \in Nat \ {0}
  BY <1>2, <1>3, TotalIsOuter, NumbersAreNatural
<1> QED
  BY <1>1, <1>3, ValuesInOrder

\* Two points with the same outer loops.
Agree(p, q, i) == \A j \in 1 .. i - 1 : p[Loops[j]] = q[Loops[j]]

\* The values of a loop depend on the loops outside it only.
LEMMA SameValues ==
  ASSUME NEW ranges, NEW ways, NEW p, NEW q, NEW i \in 1 .. 13, Agree(p, q, i)
  PROVE  /\ Start(Loops[i], p, ranges) = Start(Loops[i], q, ranges)
         /\ Most(Loops[i], p, ranges, ways) = Most(Loops[i], q, ranges, ways)
         /\ Values(Loops[i], p, ranges, ways) = Values(Loops[i], q, ranges, ways)
<1>1. Loops[i] \in LoopDim /\ Position(Loops[i]) = i
  BY PositionOfLoop
<1>2. ASSUME Loops[i] \in ActiveDim PROVE p[TotalOf[Loops[i]]] = q[TotalOf[Loops[i]]]
  <2>1. TotalOf[Loops[i]] \in LoopDim /\ Position(TotalOf[Loops[i]]) < i
    BY <1>1, <1>2, TotalIsOuter
  <2>2. PICK j \in 1 .. 13 : j < i /\ Loops[j] = TotalOf[Loops[i]]
    BY <2>1, DimHasPosition
  <2> QED
    BY <2>2 DEF Agree
<1>3. Start(Loops[i], p, ranges) = Start(Loops[i], q, ranges)
  BY <1>2 DEF Start
<1>4. Most(Loops[i], p, ranges, ways) = Most(Loops[i], q, ranges, ways)
  BY <1>2, Zenon DEF Most
<1> QED
  BY <1>3, <1>4 DEF Values

\* Two points that differ do so in an outermost loop.
LEMMA FirstDifference ==
  ASSUME NEW p \in [LoopDim -> Nat], NEW q \in [LoopDim -> Nat], p # q
  PROVE  \E i \in 1 .. 13 : p[Loops[i]] # q[Loops[i]] /\ Agree(p, q, i)
<1> DEFINE differ == {i \in 1 .. 13 : p[Loops[i]] # q[Loops[i]]}
<1>1. PICK d \in LoopDim : p[d] # q[d]
  OBVIOUS
<1>2. Position(d) \in differ
  BY <1>1, DimHasPosition
<1>3. PICK i \in differ : \A j \in differ : i <= j
  BY <1>2, LeastNatural
<1>4. \A j \in 1 .. i - 1 : j \in 1 .. 13 /\ ~ (i <= j)
  OBVIOUS
<1> QED
  BY <1>3, <1>4 DEF Agree

\* If a point has a larger value than another in the outermost loop where they
\* differ, that loop can still step.
LEMMA CanStep ==
  ASSUME NEW ranges, NEW ways, CanSearch(ranges, ways),
         NEW p \in Points(ranges, ways), NEW q \in Points(ranges, ways),
         NEW i \in 1 .. 13, Agree(p, q, i), p[Loops[i]] < q[Loops[i]]
  PROVE  After(Loops[i], p[Loops[i]]) <= Most(Loops[i], p, ranges, ways)
<1> DEFINE d == Loops[i]
           most == Most(d, p, ranges, ways)
           after == After(d, p[d])
<1>1. d \in LoopDim
  BY PositionOfLoop
<1>2. p[d] \in Values(d, p, ranges, ways) /\ q[d] \in Values(d, p, ranges, ways)
  <2>1. p[d] \in Values(d, p, ranges, ways) /\ q[d] \in Values(d, q, ranges, ways)
    BY <1>1, PointsAreCounted
  <2>2. Values(d, p, ranges, ways) = Values(d, q, ranges, ways)
    BY SameValues
  <2> QED
    BY <2>1, <2>2
<1>3. d \in ActiveDim => p[TotalOf[d]] \in Nat \ {0}
  BY <1>1, PointsAreCounted
<1>4. /\ most \in Nat /\ after \in Nat /\ q[d] <= most
      /\ q[d] < after => q[d] <= p[d]
  BY <1>1, <1>2, <1>3, ValuesInOrder
<1>5. p[d] \in Nat /\ q[d] \in Nat
  BY <1>1, PointsAreCounted
<1> HIDE DEF d, most, after
<1>6. p[d] < q[d]
  BY DEF d
<1>7. after <= most
  BY <1>4, <1>5, <1>6
<1> QED
  BY <1>7 DEF d, most, after

\* The loops begin with the first point.
LEMMA FirstIsFirst ==
  ASSUME NEW ranges, NEW ways, CanSearch(ranges, ways)
  PROVE  /\ FirstPoint(ranges) \in Points(ranges, ways)
         /\ \A q \in Points(ranges, ways) : ~ Before(q, FirstPoint(ranges))
<1> DEFINE first == FirstPoint(ranges)
<1>1. IsSpace(ranges)
  BY DEF CanSearch
<1>2. IsPoint(first, ranges)
  BY <1>1, FirstPointIsPoint
<1>3. ASSUME NEW d \in LoopDim PROVE first[d] = Start(d, first, ranges)
  <2>1. ASSUME NEW c \in LoopDim \ ActiveDim PROVE first[c] = ranges[c].min
    BY DEF FirstPoint, Start
  <2>2. ASSUME d \in ActiveDim PROVE first[d] = MinOf(first[TotalOf[d]], ranges[d].min)
    BY <2>1, <2>2, TotalIsOuter DEF FirstPoint, Start
  <2> QED
    BY <2>1, <2>2 DEF Start
<1>4. first \in [LoopDim -> Nat]
  <2>1. first = [d \in LoopDim |-> first[d]]
    BY DEF FirstPoint
  <2>2. \A d \in LoopDim : first[d] \in Nat
    BY <1>2, NumbersAreNatural DEF IsPoint
  <2> QED
    BY <2>1, <2>2
<1> HIDE DEF first
<1>5. ASSUME NEW d \in LoopDim, d \in ActiveDim PROVE first[TotalOf[d]] \in Nat \ {0}
  BY <1>2, <1>5, TotalIsOuter, NumbersAreNatural DEF IsPoint
<1>6. first \in Points(ranges, ways)
  BY <1>3, <1>4, <1>5, ValuesInOrder DEF Points
<1>7. ASSUME NEW q \in Points(ranges, ways), Before(q, first) PROVE FALSE
  <2>1. PICK i \in 1 .. 13 : q[Loops[i]] < first[Loops[i]] /\ Agree(q, first, i)
    BY <1>7, LoopsAreDistinct DEF Before, Agree
  <2>2. Loops[i] \in LoopDim
    BY PositionOfLoop
  <2>3. first[Loops[i]] = Start(Loops[i], q, ranges)
    BY <1>3, <2>1, <2>2, SameValues
  <2>4. Start(Loops[i], q, ranges) <= q[Loops[i]]
    BY <2>2, PointsAreCounted, ValuesInOrder
  <2>5. q[Loops[i]] \in Nat /\ first[Loops[i]] \in Nat
    BY <1>4, <2>2, PointsAreCounted
  <2> QED
    BY <2>1, <2>3, <2>4, <2>5
<1> QED
  BY <1>6, <1>7 DEF first

\* In the outermost loop where the loop variables differ from a later point, they can
\* still step.
LEMMA LoopCanStep ==
  ASSUME CanSearch(space, param.Associativity),
         point \in Points(space, param.Associativity),
         NEW q \in Points(space, param.Associativity),
         NEW i \in 1 .. 13, Agree(point, q, i), point[Loops[i]] < q[Loops[i]]
  PROVE  NextValue(Loops[i]) <= Limit(Loops[i])
<1>1. NextValue(Loops[i]) = After(Loops[i], point[Loops[i]])
  BY DEF NextValue, After, Area
<1>2. Limit(Loops[i]) = Most(Loops[i], point, space, param.Associativity)
  BY DEF Limit, Most
<1> QED
  BY <1>1, <1>2, CanStep

\* A later point differs from the loop variables in a loop that can still step.
LEMMA LaterIsAhead ==
  ASSUME CanSearch(space, param.Associativity),
         point \in Points(space, param.Associativity),
         NEW q \in Points(space, param.Associativity), q # point, ~ Before(q, point)
  PROVE  \E i \in 1 .. 13 : NextValue(Loops[i]) <= Limit(Loops[i]) /\ Agree(point, q, i)
                            /\ point[Loops[i]] # q[Loops[i]]
<1>1. point \in [LoopDim -> Nat] /\ q \in [LoopDim -> Nat]
  BY DEF Points
<1>2. PICK i \in 1 .. 13 : point[Loops[i]] # q[Loops[i]] /\ Agree(point, q, i)
  BY <1>1, FirstDifference
<1>3. point[Loops[i]] \in Nat /\ q[Loops[i]] \in Nat
  BY <1>1, PositionOfLoop
<1>4. ~ (q[Loops[i]] < point[Loops[i]])
  BY <1>2, LoopsAreDistinct DEF Before, Agree
<1> QED
  BY <1>2, <1>3, <1>4, LoopCanStep

\* The loops end with the last point.
LEMMA LastIsLast ==
  ASSUME CanSearch(space, param.Associativity),
         point \in Points(space, param.Associativity), Steppable = {},
         NEW q \in Points(space, param.Associativity)
  PROVE  q = point \/ Before(q, point)
BY LaterIsAhead, LoopsAreDistinct DEF Steppable

\* A step of the loops leads to the next point.
LEMMA NextIsPoint ==
  ASSUME CanSearch(space, param.Associativity),
         point \in Points(space, param.Associativity), Steppable # {}
  PROVE  NextPoint \in Points(space, param.Associativity)
<1> DEFINE ways == param.Associativity
           next == NextPoint
<1>1. PICK k \in 1 .. 13 : Steps(k)
  BY SomeLoopSteps
<1>2. ASSUME NEW d \in LoopDim
      PROVE  /\ Position(d) < k => next[d] = point[d]
             /\ Position(d) = k => next[d] = NextValue(d)
             /\ Position(d) > k => next[d] = Start(d, next, space)
  BY <1>1 DEF Steps, Start
<1>3. next = [d \in LoopDim |-> next[d]]
  BY DEF NextPoint
<1> HIDE DEF next
<1>4. ASSUME NEW d \in LoopDim, d \in ActiveDim => next[TotalOf[d]] \in Nat \ {0}
      PROVE  next[d] \in Values(d, next, space, ways)
  <2>1. Position(d) \in 1 .. 13 /\ Loops[Position(d)] = d
    BY DimHasPosition
  <2>2. CASE Position(d) > k
    BY <1>2, <1>4, <2>2, ValuesInOrder
  <2>3. CASE Position(d) <= k
    <3>1. Agree(point, next, Position(d))
      <4>1. ASSUME NEW j \in 1 .. Position(d) - 1 PROVE point[Loops[j]] = next[Loops[j]]
        <5>1. j \in 1 .. 13 /\ j < k
          BY <2>1, <2>3
        <5> QED
          BY <1>2, <5>1, PositionOfLoop
      <4> QED
        BY <4>1 DEF Agree
    <3>2. Values(d, next, space, ways) = Values(d, point, space, ways)
      BY <2>1, <3>1, SameValues
    <3>3. point[d] \in Values(d, point, space, ways)
      BY PointsAreCounted
    <3>4. CASE Position(d) < k
      BY <1>2, <3>2, <3>3, <3>4
    <3>5. CASE Position(d) = k
      <4>1. d = Loops[k] /\ next[d] = After(d, point[d])
        BY <1>2, <2>1, <3>5 DEF NextValue, After, Area
      <4>2. After(d, point[d]) <= Most(d, point, space, ways)
        <5>1. NextValue(d) <= Limit(d)
          BY <1>1, <4>1 DEF Steps
        <5> QED
          BY <5>1 DEF NextValue, After, Area, Limit, Most
      <4>3. d \in ActiveDim => point[TotalOf[d]] \in Nat \ {0}
        BY PointsAreCounted
      <4>4. After(d, point[d]) \in Values(d, point, space, ways)
        BY <3>3, <4>2, <4>3, ValuesInOrder
      <4> QED
        BY <3>2, <4>1, <4>4
    <3> QED
      BY <1>1, <2>1, <2>3, <3>4, <3>5
  <2> QED
    BY <1>1, <2>1, <2>2, <2>3
<1>5. ASSUME NEW d \in LoopDim \ ActiveDim
      PROVE  next[d] \in Values(d, next, space, ways) /\ next[d] \in Numbers(d)
  BY <1>4, ValuesInOrder
<1>6. ASSUME NEW d \in LoopDim, d \in ActiveDim PROVE next[TotalOf[d]] \in Nat \ {0}
  BY <1>5, <1>6, TotalIsOuter, NumbersAreNatural
<1>7. ASSUME NEW d \in LoopDim
      PROVE  next[d] \in Values(d, next, space, ways) /\ next[d] \in Nat
  <2>1. next[d] \in Values(d, next, space, ways)
    BY <1>4, <1>6
  <2>2. next[d] \in Numbers(d)
    BY <1>6, <2>1, ValuesInOrder
  <2> QED
    BY <2>1, <2>2, NumbersAreNatural
<1>8. next \in Points(space, ways)
  BY <1>3, <1>7 DEF Points
<1> QED
  BY <1>8 DEF next

\* Before the next point are the present one and those before it, and no others.
LEMMA NextIsNext ==
  ASSUME CanSearch(space, param.Associativity),
         point \in Points(space, param.Associativity), Steppable # {},
         NEW q \in Points(space, param.Associativity)
  PROVE  Before(q, NextPoint) <=> q = point \/ Before(q, point)
<1> DEFINE ways == param.Associativity
           next == NextPoint
<1>1. PICK k \in 1 .. 13 : Steps(k)
  BY SomeLoopSteps
<1>2. ASSUME NEW j \in 1 .. 13
      PROVE  /\ j < k => next[Loops[j]] = point[Loops[j]]
             /\ j = k => next[Loops[j]] = After(Loops[j], point[Loops[j]])
             /\ j > k => next[Loops[j]] = Start(Loops[j], next, space)
  <2>1. Loops[j] \in LoopDim /\ Position(Loops[j]) = j
    BY PositionOfLoop
  <2> QED
    BY <1>1, <2>1 DEF Steps, Start, NextValue, After, Area
<1>3. next \in Points(space, ways)
  BY NextIsPoint
<1> HIDE DEF next
<1>4. ASSUME NEW j \in 1 .. 13
      PROVE  point[Loops[j]] \in Nat /\ next[Loops[j]] \in Nat /\ q[Loops[j]] \in Nat
  BY <1>3, PositionOfLoop, PointsAreCounted
<1>5. point[Loops[k]] < next[Loops[k]]
  <2>1. Loops[k] \in LoopDim
    BY <1>1, PositionOfLoop DEF Steps
  <2>2. point[Loops[k]] < After(Loops[k], point[Loops[k]])
    BY <2>1, PointsAreCounted, ValuesInOrder
  <2> QED
    BY <1>1, <1>2, <2>2
<1>6. ASSUME q = point \/ Before(q, point) PROVE Before(q, next)
  <2>1. CASE q = point
    BY <1>1, <1>2, <1>5, <2>1, LoopsAreDistinct DEF Before, Steps
  <2>2. CASE Before(q, point)
    <3>1. PICK i \in 1 .. 13 : q[Loops[i]] < point[Loops[i]] /\ Agree(q, point, i)
      BY <2>2, LoopsAreDistinct DEF Before, Agree
    <3>2. CASE i <= k
      <4>1. \A j \in 1 .. i - 1 : q[Loops[j]] = next[Loops[j]]
        BY <1>1, <1>2, <3>1, <3>2 DEF Agree, Steps
      <4>2. q[Loops[i]] < next[Loops[i]]
        BY <1>1, <1>2, <1>4, <1>5, <3>1, <3>2 DEF Steps
      <4> QED
        BY <4>1, <4>2, LoopsAreDistinct DEF Before
    <3>3. CASE i > k
      <4>1. \A j \in 1 .. k - 1 : q[Loops[j]] = next[Loops[j]]
        BY <1>1, <1>2, <3>1, <3>3 DEF Agree, Steps
      <4>2. q[Loops[k]] < next[Loops[k]]
        BY <1>1, <1>5, <3>1, <3>3 DEF Agree, Steps
      <4> QED
        BY <1>1, <4>1, <4>2, LoopsAreDistinct DEF Before, Steps
    <3> QED
      BY <1>1, <3>2, <3>3 DEF Steps
  <2> QED
    BY <1>6, <2>1, <2>2
<1>7. ASSUME Before(q, next), q # point, ~ Before(q, point) PROVE FALSE
  <2>1. PICK i \in 1 .. 13 : q[Loops[i]] < next[Loops[i]] /\ Agree(q, next, i)
    BY <1>7, LoopsAreDistinct DEF Before, Agree
  <2>2. PICK j \in 1 .. 13 : /\ NextValue(Loops[j]) <= Limit(Loops[j])
                             /\ Agree(point, q, j) /\ point[Loops[j]] # q[Loops[j]]
    BY <1>7, LaterIsAhead
  <2>3. j <= k
    BY <1>1, <2>2 DEF Steps
  <2>4. point[Loops[j]] < q[Loops[j]]
    <3>1. ~ (q[Loops[j]] < point[Loops[j]])
      BY <1>7, <2>2, LoopsAreDistinct DEF Before, Agree
    <3> QED
      BY <1>4, <2>2, <3>1
  <2>5. CASE i < j
    <3>1. next[Loops[i]] = point[Loops[i]] /\ point[Loops[i]] = q[Loops[i]]
      BY <1>1, <1>2, <2>2, <2>3, <2>5 DEF Agree, Steps
    <3> QED
      BY <1>4, <2>1, <3>1
  <2>6. CASE i = j /\ j < k
    <3>1. next[Loops[i]] = point[Loops[i]]
      BY <1>2, <2>6
    <3> QED
      BY <1>4, <2>1, <2>4, <2>6, <3>1
  <2>7. CASE i = j /\ j = k
    <3>1. Loops[k] \in LoopDim
      BY <2>7, PositionOfLoop
    <3>2. /\ q[Loops[k]] \in Values(Loops[k], q, space, ways)
          /\ point[Loops[k]] \in Values(Loops[k], point, space, ways)
          /\ Loops[k] \in ActiveDim => point[TotalOf[Loops[k]]] \in Nat \ {0}
      BY <3>1, PointsAreCounted
    <3>3. Values(Loops[k], q, space, ways) = Values(Loops[k], point, space, ways)
      BY <2>2, <2>7, SameValues
    <3>4. q[Loops[k]] < After(Loops[k], point[Loops[k]])
      BY <1>2, <2>1, <2>7
    <3>5. q[Loops[k]] <= point[Loops[k]]
      BY <3>1, <3>2, <3>3, <3>4, ValuesInOrder
    <3> QED
      BY <1>4, <2>4, <2>7, <3>5
  <2>8. CASE i > j /\ j < k
    <3>1. q[Loops[j]] = next[Loops[j]] /\ next[Loops[j]] = point[Loops[j]]
      BY <1>2, <2>1, <2>8 DEF Agree
    <3> QED
      BY <2>2, <3>1
  <2>9. CASE i > j /\ j = k
    <3>1. Loops[i] \in LoopDim
      BY PositionOfLoop
    <3>2. next[Loops[i]] = Start(Loops[i], next, space)
      BY <1>2, <2>9
    <3>3. Start(Loops[i], next, space) = Start(Loops[i], q, space)
      BY <2>1, SameValues
    <3>4. Start(Loops[i], q, space) <= q[Loops[i]]
      BY <3>1, PointsAreCounted, ValuesInOrder
    <3> QED
      BY <1>4, <2>1, <3>2, <3>3, <3>4
  <2> QED
    BY <1>1, <2>3, <2>5, <2>6, <2>7, <2>8, <2>9 DEF Steps
<1> QED
  BY <1>6, <1>7 DEF next

(***************************************************************************)
(* The number of points.  A point is a choice of a pair for each kind of   *)
(* parts and of a value for each other loop.                               *)
(***************************************************************************)
SingleDim == MuxDim \cup {"NumRowPerSet", Area}

\* The values of a loop that no other loop cuts.
Single(d, ranges, ways) ==
  Chain(d, ranges[d].min,
        IF d = "NumRowPerSet" THEN MinOf(ranges[d].max, ways) ELSE ranges[d].max)

\* Pairs, for any ranges.
PairsOf(active, ranges) ==
  LET total == ranges[TotalOf[active]]
  IN  UNION {{t} \X Doublings(MinOf(t, ranges[active].min), MinOf(t, ranges[active].max)) :
               t \in Doublings(total.min, total.max)}

\* The choices, grouped like the product of SearchIsComplete.
PairGrid(ranges) ==
  (PairsOf("NumActiveMatPerColumn", ranges) \X PairsOf("NumActiveSubarrayPerColumn", ranges))
  \X (PairsOf("NumActiveMatPerRow", ranges) \X PairsOf("NumActiveSubarrayPerRow", ranges))
MuxGrid(ranges, ways) ==
  (Single("MuxSenseAmp", ranges, ways) \X Single("MuxOutputLev1", ranges, ways))
  \X Single("MuxOutputLev2", ranges, ways)
RestGrid(ranges, ways) ==
  Single("NumRowPerSet", ranges, ways) \X Single(Area, ranges, ways)
Grid(ranges, ways) == (PairGrid(ranges) \X MuxGrid(ranges, ways)) \X RestGrid(ranges, ways)

\* The place of a point in the grid.
PairIn(p, active) == <<p[TotalOf[active]], p[active]>>
Place(p) ==
  LET pairs == <<<<PairIn(p, "NumActiveMatPerColumn"), PairIn(p, "NumActiveSubarrayPerColumn")>>,
                 <<PairIn(p, "NumActiveMatPerRow"), PairIn(p, "NumActiveSubarrayPerRow")>>>>
      muxes == <<<<p["MuxSenseAmp"], p["MuxOutputLev1"]>>, p["MuxOutputLev2"]>>
  IN  <<<<pairs, muxes>>, <<p["NumRowPerSet"], p[Area]>>>>

LEMMA KindsOfLoops ==
  /\ ActiveDim = {"NumActiveMatPerRow", "NumActiveMatPerColumn", "NumActiveSubarrayPerRow",
                  "NumActiveSubarrayPerColumn"}
  /\ TotalOf["NumActiveMatPerRow"] = "NumColumnMat"
  /\ TotalOf["NumActiveMatPerColumn"] = "NumRowMat"
  /\ TotalOf["NumActiveSubarrayPerRow"] = "NumColumnSubarray"
  /\ TotalOf["NumActiveSubarrayPerColumn"] = "NumRowSubarray"
  /\ SingleDim = {"MuxSenseAmp", "MuxOutputLev1", "MuxOutputLev2", "NumRowPerSet",
                  "AreaOptimizationLevel"}
  /\ LoopDim = ActiveDim \cup {TotalOf[a] : a \in ActiveDim} \cup SingleDim
<1>1. LoopDim = {"NumRowMat", "NumColumnMat", "NumActiveMatPerRow",
           "NumActiveMatPerColumn", "NumRowSubarray", "NumColumnSubarray",
           "NumActiveSubarrayPerRow", "NumActiveSubarrayPerColumn",
           "MuxSenseAmp", "MuxOutputLev1", "MuxOutputLev2", "NumRowPerSet",
           "AreaOptimizationLevel"}
  BY DEF LoopDim, Loops
<1>2. ActiveDim = {"NumActiveMatPerRow", "NumActiveMatPerColumn", "NumActiveSubarrayPerRow",
                   "NumActiveSubarrayPerColumn"}
  BY DEF ActiveDim, TotalOf
<1>3. /\ TotalOf["NumActiveMatPerRow"] = "NumColumnMat"
      /\ TotalOf["NumActiveMatPerColumn"] = "NumRowMat"
      /\ TotalOf["NumActiveSubarrayPerRow"] = "NumColumnSubarray"
      /\ TotalOf["NumActiveSubarrayPerColumn"] = "NumRowSubarray"
  BY DEF TotalOf
<1>4. {TotalOf[a] : a \in ActiveDim}
        = {"NumColumnMat", "NumRowMat", "NumColumnSubarray", "NumRowSubarray"}
  BY <1>2, <1>3
<1>5. SingleDim = {"MuxSenseAmp", "MuxOutputLev1", "MuxOutputLev2", "NumRowPerSet",
                   "AreaOptimizationLevel"}
  BY DEF SingleDim, MuxDim, Area
<1> QED
  BY <1>1, <1>2, <1>3, <1>4, <1>5

LEMMA PairsArePairs ==
  ASSUME NEW a, NEW ranges
  PROVE  /\ \A t, n : <<t, n>> \in PairsOf(a, ranges) <=>
              /\ t \in Doublings(ranges[TotalOf[a]].min, ranges[TotalOf[a]].max)
              /\ n \in Doublings(MinOf(t, ranges[a].min), MinOf(t, ranges[a].max))
         /\ \A x \in PairsOf(a, ranges) : x = <<x[1], x[2]>>
BY DEF PairsOf

LEMMA PointsByParts ==
  ASSUME NEW ranges, NEW ways, NEW p \in [LoopDim -> Nat]
  PROVE  p \in Points(ranges, ways) <=>
           /\ \A a \in ActiveDim : PairIn(p, a) \in PairsOf(a, ranges)
           /\ \A d \in SingleDim : p[d] \in Single(d, ranges, ways)
<1>1. ASSUME NEW a \in ActiveDim
      PROVE  PairIn(p, a) \in PairsOf(a, ranges) <=>
               /\ p[TotalOf[a]] \in Values(TotalOf[a], p, ranges, ways)
               /\ p[a] \in Values(a, p, ranges, ways)
  <2> DEFINE t == TotalOf[a]
  <2>1. t \notin ActiveDim /\ t # Area /\ t # "NumRowPerSet" /\ a # Area /\ a # "NumRowPerSet"
    BY KindsOfLoops DEF Area
  <2>2. Values(t, p, ranges, ways) = Doublings(ranges[t].min, ranges[t].max)
    <3> HIDE DEF t
    <3> QED
      BY <2>1 DEF Values, Chain, Start, Most
  <2>3. Values(a, p, ranges, ways)
          = Doublings(MinOf(p[t], ranges[a].min), MinOf(p[t], ranges[a].max))
    BY <2>1 DEF Values, Chain, Start, Most
  <2> QED
    BY <2>2, <2>3, PairsArePairs DEF PairIn
<1>2. ASSUME NEW d \in SingleDim
      PROVE  Values(d, p, ranges, ways) = Single(d, ranges, ways)
  <2>1. d \notin ActiveDim
    BY KindsOfLoops
  <2> QED
    BY <2>1 DEF Values, Start, Most, Single
<1>3. p \in Points(ranges, ways) <=> \A d \in LoopDim : p[d] \in Values(d, p, ranges, ways)
  BY DEF Points
<1>4. LoopDim = ActiveDim \cup {TotalOf[a] : a \in ActiveDim} \cup SingleDim
  BY KindsOfLoops
<1>5. (\A d \in LoopDim : p[d] \in Values(d, p, ranges, ways)) <=>
        /\ \A a \in ActiveDim : /\ p[TotalOf[a]] \in Values(TotalOf[a], p, ranges, ways)
                                /\ p[a] \in Values(a, p, ranges, ways)
        /\ \A d \in SingleDim : p[d] \in Values(d, p, ranges, ways)
  BY <1>4
<1> QED
  BY <1>1, <1>2, <1>3, <1>5, Zenon

\* The values of a loop are finitely many numbers.
LEMMA DoublingsAreFinite ==
  ASSUME NEW lo \in Nat, NEW hi \in Nat
  PROVE  IsFiniteSet(Doublings(lo, hi)) /\ Doublings(lo, hi) \subseteq Nat
<1>1. Doublings(lo, hi) \in SUBSET (lo .. hi)
  BY DEF Doublings
<1>2. IsFiniteSet(lo .. hi)
  BY FS_Interval
<1> QED
  BY <1>1, <1>2, FS_Subset

LEMMA SinglesAreFinite ==
  ASSUME NEW ranges, IsSpace(ranges), NEW ways \in Nat \ {0}, NEW d \in SingleDim
  PROVE  IsFiniteSet(Single(d, ranges, ways)) /\ Single(d, ranges, ways) \subseteq Nat
<1> DEFINE lo == ranges[d].min
           hi == IF d = "NumRowPerSet" THEN MinOf(ranges[d].max, ways) ELSE ranges[d].max
<1>1. lo \in Nat /\ ranges[d].max \in Nat
  <2>1. d \in LoopDim
    BY KindsOfLoops
  <2> QED
    BY <2>1, NumbersAreNatural DEF IsSpace, IsRange
<1>2. hi \in Nat
  BY <1>1 DEF MinOf
<1> HIDE DEF lo, hi
<1>3. IsFiniteSet(lo .. hi) /\ lo .. hi \subseteq Nat
  BY <1>1, <1>2, FS_Interval
<1>4. IsFiniteSet(Chain(d, lo, hi)) /\ Chain(d, lo, hi) \subseteq Nat
  BY <1>1, <1>2, <1>3, DoublingsAreFinite DEF Chain
<1> QED
  BY <1>4 DEF Single, lo, hi

LEMMA PairsAreFinite ==
  ASSUME NEW ranges, IsSpace(ranges), NEW a \in ActiveDim
  PROVE  IsFiniteSet(PairsOf(a, ranges)) /\ PairsOf(a, ranges) \subseteq Nat \X Nat
<1> DEFINE t == TotalOf[a]
           totals == Doublings(ranges[t].min, ranges[t].max)
           most == 0 .. ranges[a].max
<1>1. /\ ranges[t].min \in Nat /\ ranges[t].max \in Nat
      /\ ranges[a].min \in Nat /\ ranges[a].max \in Nat
  BY TotalIsOuter, NumbersAreNatural DEF IsSpace, IsRange
<1>2. IsFiniteSet(totals) /\ totals \subseteq Nat
  BY <1>1, DoublingsAreFinite
<1>3. IsFiniteSet(most)
  <2>1. 0 \in Int /\ ranges[a].max \in Int
    BY <1>1
  <2> QED
    BY <2>1, FS_Interval
<1>4. ASSUME NEW x \in PairsOf(a, ranges) PROVE x \in totals \X most
  <2>1. /\ x = <<x[1], x[2]>> /\ x[1] \in totals
        /\ x[2] \in Doublings(MinOf(x[1], ranges[a].min), MinOf(x[1], ranges[a].max))
    BY PairsArePairs
  <2>2. x[1] \in Nat
    BY <1>2, <2>1
  <2>3. x[2] \in MinOf(x[1], ranges[a].min) .. MinOf(x[1], ranges[a].max)
    BY <2>1 DEF Doublings
  <2>4. x[2] \in most
    BY <1>1, <2>2, <2>3 DEF MinOf
  <2> QED
    BY <2>1, <2>4
<1>5. PairsOf(a, ranges) \in SUBSET (totals \X most) /\ most \subseteq Nat
  BY <1>1, <1>4
<1>6. IsFiniteSet(totals \X most)
  BY <1>2, <1>3, FS_Product
<1>7. IsFiniteSet(PairsOf(a, ranges))
  BY <1>5, <1>6, FS_Subset
<1> QED
  BY <1>2, <1>5, <1>7

\* What a place of the grid is made of.
LEMMA GridIsMadeOf ==
  ASSUME NEW ranges, NEW ways, NEW x
  PROVE  x \in Grid(ranges, ways) <=>
           \E x1 \in PairsOf("NumActiveMatPerColumn", ranges),
              x2 \in PairsOf("NumActiveSubarrayPerColumn", ranges),
              x3 \in PairsOf("NumActiveMatPerRow", ranges),
              x4 \in PairsOf("NumActiveSubarrayPerRow", ranges),
              x5 \in Single("MuxSenseAmp", ranges, ways),
              x6 \in Single("MuxOutputLev1", ranges, ways),
              x7 \in Single("MuxOutputLev2", ranges, ways),
              x8 \in Single("NumRowPerSet", ranges, ways),
              x9 \in Single(Area, ranges, ways) :
             x = <<<<<<<<x1, x2>>, <<x3, x4>>>>, <<<<x5, x6>>, x7>>>>, <<x8, x9>>>>
<1> DEFINE Made ==
      \E x1 \in PairsOf("NumActiveMatPerColumn", ranges),
         x2 \in PairsOf("NumActiveSubarrayPerColumn", ranges),
         x3 \in PairsOf("NumActiveMatPerRow", ranges),
         x4 \in PairsOf("NumActiveSubarrayPerRow", ranges),
         x5 \in Single("MuxSenseAmp", ranges, ways),
         x6 \in Single("MuxOutputLev1", ranges, ways),
         x7 \in Single("MuxOutputLev2", ranges, ways),
         x8 \in Single("NumRowPerSet", ranges, ways),
         x9 \in Single(Area, ranges, ways) :
        x = <<<<<<<<x1, x2>>, <<x3, x4>>>>, <<<<x5, x6>>, x7>>>>, <<x8, x9>>>>
<1>1. \A y : y \in PairGrid(ranges) <=>
        \E x1 \in PairsOf("NumActiveMatPerColumn", ranges),
           x2 \in PairsOf("NumActiveSubarrayPerColumn", ranges),
           x3 \in PairsOf("NumActiveMatPerRow", ranges),
           x4 \in PairsOf("NumActiveSubarrayPerRow", ranges) :
          y = <<<<x1, x2>>, <<x3, x4>>>>
  BY DEF PairGrid
<1>2. \A y : y \in MuxGrid(ranges, ways) <=>
        \E x5 \in Single("MuxSenseAmp", ranges, ways),
           x6 \in Single("MuxOutputLev1", ranges, ways),
           x7 \in Single("MuxOutputLev2", ranges, ways) :
          y = <<<<x5, x6>>, x7>>
  BY DEF MuxGrid
<1>3. \A y : y \in RestGrid(ranges, ways) <=>
        \E x8 \in Single("NumRowPerSet", ranges, ways), x9 \in Single(Area, ranges, ways) :
          y = <<x8, x9>>
  BY DEF RestGrid
<1>4. x \in Grid(ranges, ways) <=>
        \E y1 \in PairGrid(ranges), y2 \in MuxGrid(ranges, ways), y3 \in RestGrid(ranges, ways) :
          x = <<<<y1, y2>>, y3>>
  BY DEF Grid
<1>5. ASSUME x \in Grid(ranges, ways) PROVE Made
  <2>1. PICK y1 \in PairGrid(ranges), y2 \in MuxGrid(ranges, ways), y3 \in RestGrid(ranges, ways) :
               x = <<<<y1, y2>>, y3>>
    BY <1>4, <1>5
  <2>2. PICK x1 \in PairsOf("NumActiveMatPerColumn", ranges),
             x2 \in PairsOf("NumActiveSubarrayPerColumn", ranges),
             x3 \in PairsOf("NumActiveMatPerRow", ranges),
             x4 \in PairsOf("NumActiveSubarrayPerRow", ranges) :
               y1 = <<<<x1, x2>>, <<x3, x4>>>>
    BY <1>1
  <2>3. PICK x5 \in Single("MuxSenseAmp", ranges, ways),
             x6 \in Single("MuxOutputLev1", ranges, ways),
             x7 \in Single("MuxOutputLev2", ranges, ways) :
               y2 = <<<<x5, x6>>, x7>>
    BY <1>2
  <2>4. PICK x8 \in Single("NumRowPerSet", ranges, ways), x9 \in Single(Area, ranges, ways) :
               y3 = <<x8, x9>>
    BY <1>3
  <2>5. x = <<<<<<<<x1, x2>>, <<x3, x4>>>>, <<<<x5, x6>>, x7>>>>, <<x8, x9>>>>
    BY <2>1, <2>2, <2>3, <2>4
  <2> QED
    BY <2>5
<1>6. ASSUME Made PROVE x \in Grid(ranges, ways)
  <2>1. PICK x1 \in PairsOf("NumActiveMatPerColumn", ranges),
             x2 \in PairsOf("NumActiveSubarrayPerColumn", ranges),
             x3 \in PairsOf("NumActiveMatPerRow", ranges),
             x4 \in PairsOf("NumActiveSubarrayPerRow", ranges),
             x5 \in Single("MuxSenseAmp", ranges, ways),
             x6 \in Single("MuxOutputLev1", ranges, ways),
             x7 \in Single("MuxOutputLev2", ranges, ways),
             x8 \in Single("NumRowPerSet", ranges, ways),
             x9 \in Single(Area, ranges, ways) :
             x = <<<<<<<<x1, x2>>, <<x3, x4>>>>, <<<<x5, x6>>, x7>>>>, <<x8, x9>>>>
    BY <1>6
  <2>2. /\ <<<<x1, x2>>, <<x3, x4>>>> \in PairGrid(ranges)
        /\ <<<<x5, x6>>, x7>> \in MuxGrid(ranges, ways)
        /\ <<x8, x9>> \in RestGrid(ranges, ways)
    BY <1>1, <1>2, <1>3
  <2> QED
    BY <1>4, <2>1, <2>2
<1> QED
  BY <1>5, <1>6

\* Points and places correspond to each other.
LEMMA PointsFillGrid ==
  ASSUME NEW ranges, IsSpace(ranges), NEW ways \in Nat \ {0}
  PROVE  ExistsBijection(Points(ranges, ways), Grid(ranges, ways))
<1> DEFINE points == Points(ranges, ways)
           grid == Grid(ranges, ways)
           place == [p \in points |-> Place(p)]
<1>1. points \subseteq [LoopDim -> Nat]
  BY DEF Points
<1>2. ASSUME NEW p \in points PROVE Place(p) \in grid
  <2>1. /\ \A a \in ActiveDim : PairIn(p, a) \in PairsOf(a, ranges)
        /\ \A d \in SingleDim : p[d] \in Single(d, ranges, ways)
    BY <1>1, PointsByParts
  <2>2. /\ PairIn(p, "NumActiveMatPerColumn") \in PairsOf("NumActiveMatPerColumn", ranges)
        /\ PairIn(p, "NumActiveSubarrayPerColumn") \in PairsOf("NumActiveSubarrayPerColumn", ranges)
        /\ PairIn(p, "NumActiveMatPerRow") \in PairsOf("NumActiveMatPerRow", ranges)
        /\ PairIn(p, "NumActiveSubarrayPerRow") \in PairsOf("NumActiveSubarrayPerRow", ranges)
    BY <2>1, KindsOfLoops
  <2>3. /\ p["MuxSenseAmp"] \in Single("MuxSenseAmp", ranges, ways)
        /\ p["MuxOutputLev1"] \in Single("MuxOutputLev1", ranges, ways)
        /\ p["MuxOutputLev2"] \in Single("MuxOutputLev2", ranges, ways)
        /\ p["NumRowPerSet"] \in Single("NumRowPerSet", ranges, ways)
        /\ p[Area] \in Single(Area, ranges, ways)
    BY <2>1, KindsOfLoops DEF Area
  <2> QED
    BY <2>2, <2>3, GridIsMadeOf, Zenon DEF Place
<1>3. ASSUME NEW p \in points, NEW q \in points, Place(p) = Place(q) PROVE p = q
  <2>1. ASSUME NEW a \in ActiveDim PROVE PairIn(p, a) = PairIn(q, a)
    BY <1>3, KindsOfLoops DEF Place
  <2>2. ASSUME NEW a \in ActiveDim PROVE p[a] = q[a] /\ p[TotalOf[a]] = q[TotalOf[a]]
    BY <2>1 DEF PairIn
  <2>3. ASSUME NEW d \in SingleDim PROVE p[d] = q[d]
    BY <1>3, KindsOfLoops DEF Place, Area
  <2>4. \A d \in LoopDim : p[d] = q[d]
    <3>1. LoopDim = ActiveDim \cup {TotalOf[a] : a \in ActiveDim} \cup SingleDim
      BY KindsOfLoops
    <3> QED
      BY <2>2, <2>3, <3>1
  <2> QED
    BY <1>1, <2>4
<1>4. ASSUME NEW x \in grid PROVE \E p \in points : Place(p) = x
  <2>1. PICK x1 \in PairsOf("NumActiveMatPerColumn", ranges),
             x2 \in PairsOf("NumActiveSubarrayPerColumn", ranges),
             x3 \in PairsOf("NumActiveMatPerRow", ranges),
             x4 \in PairsOf("NumActiveSubarrayPerRow", ranges),
             x5 \in Single("MuxSenseAmp", ranges, ways),
             x6 \in Single("MuxOutputLev1", ranges, ways),
             x7 \in Single("MuxOutputLev2", ranges, ways),
             x8 \in Single("NumRowPerSet", ranges, ways),
             x9 \in Single(Area, ranges, ways) :
             x = <<<<<<<<x1, x2>>, <<x3, x4>>>>, <<<<x5, x6>>, x7>>>>, <<x8, x9>>>>
    BY <1>4, GridIsMadeOf
  <2> DEFINE p == [d \in LoopDim |->
                     CASE d = "NumRowMat" -> x1[1]
                       [] d = "NumActiveMatPerColumn" -> x1[2]
                       [] d = "NumRowSubarray" -> x2[1]
                       [] d = "NumActiveSubarrayPerColumn" -> x2[2]
                       [] d = "NumColumnMat" -> x3[1]
                       [] d = "NumActiveMatPerRow" -> x3[2]
                       [] d = "NumColumnSubarray" -> x4[1]
                       [] d = "NumActiveSubarrayPerRow" -> x4[2]
                       [] d = "MuxSenseAmp" -> x5
                       [] d = "MuxOutputLev1" -> x6
                       [] d = "MuxOutputLev2" -> x7
                       [] d = "NumRowPerSet" -> x8
                       [] OTHER -> x9]
  <2>2. LoopDim = {"NumRowMat", "NumColumnMat", "NumActiveMatPerRow",
           "NumActiveMatPerColumn", "NumRowSubarray", "NumColumnSubarray",
           "NumActiveSubarrayPerRow", "NumActiveSubarrayPerColumn",
           "MuxSenseAmp", "MuxOutputLev1", "MuxOutputLev2", "NumRowPerSet",
           "AreaOptimizationLevel"}
    BY DEF LoopDim, Loops
  <2>3. /\ p["NumRowMat"] = x1[1] /\ p["NumActiveMatPerColumn"] = x1[2]
        /\ p["NumRowSubarray"] = x2[1] /\ p["NumActiveSubarrayPerColumn"] = x2[2]
        /\ p["NumColumnMat"] = x3[1] /\ p["NumActiveMatPerRow"] = x3[2]
        /\ p["NumColumnSubarray"] = x4[1] /\ p["NumActiveSubarrayPerRow"] = x4[2]
        /\ p["MuxSenseAmp"] = x5 /\ p["MuxOutputLev1"] = x6 /\ p["MuxOutputLev2"] = x7
        /\ p["NumRowPerSet"] = x8 /\ p["AreaOptimizationLevel"] = x9
    BY <2>2
  <2>4. p = [d \in LoopDim |-> p[d]]
    OBVIOUS
  <2> HIDE DEF p
  <2>5. /\ PairIn(p, "NumActiveMatPerColumn") = x1 /\ PairIn(p, "NumActiveSubarrayPerColumn") = x2
        /\ PairIn(p, "NumActiveMatPerRow") = x3 /\ PairIn(p, "NumActiveSubarrayPerRow") = x4
    <3>1. /\ x1 = <<x1[1], x1[2]>> /\ x2 = <<x2[1], x2[2]>>
          /\ x3 = <<x3[1], x3[2]>> /\ x4 = <<x4[1], x4[2]>>
      BY PairsArePairs
    <3> QED
      BY <2>3, <3>1, KindsOfLoops DEF PairIn
  <2>6. Place(p) = x
    BY <2>1, <2>3, <2>5 DEF Place, Area
  <2>7. p \in [LoopDim -> Nat]
    <3>1. /\ x1 \in Nat \X Nat /\ x2 \in Nat \X Nat /\ x3 \in Nat \X Nat /\ x4 \in Nat \X Nat
      BY PairsAreFinite, KindsOfLoops
    <3>2. x5 \in Nat /\ x6 \in Nat /\ x7 \in Nat /\ x8 \in Nat /\ x9 \in Nat
      BY SinglesAreFinite, KindsOfLoops DEF Area
    <3>3. \A d \in LoopDim : p[d] \in Nat
      BY <2>2, <2>3, <3>1, <3>2
    <3> QED
      BY <2>4, <3>3
  <2>8. \A a \in ActiveDim : PairIn(p, a) \in PairsOf(a, ranges)
    BY <2>5, KindsOfLoops
  <2>9. \A d \in SingleDim : p[d] \in Single(d, ranges, ways)
    BY <2>3, KindsOfLoops DEF Area
  <2> QED
    BY <2>6, <2>7, <2>8, <2>9, PointsByParts
<1> HIDE DEF points, grid
<1>5. place \in [points -> grid]
  BY <1>2
<1>6. place \in Bijection(points, grid)
  BY <1>2, <1>3, <1>4, <1>5, Fun_IsBij
<1> QED
  BY <1>6 DEF ExistsBijection, points, grid

\* The number of points.
LEMMA PointsAreProduct ==
  ASSUME NEW ranges, IsSpace(ranges), NEW ways \in Nat \ {0}
  PROVE  /\ IsFiniteSet(Points(ranges, ways))
         /\ Cardinality(Points(ranges, ways)) =
              (((Cardinality(PairsOf("NumActiveMatPerColumn", ranges))
                  * Cardinality(PairsOf("NumActiveSubarrayPerColumn", ranges)))
                * (Cardinality(PairsOf("NumActiveMatPerRow", ranges))
                  * Cardinality(PairsOf("NumActiveSubarrayPerRow", ranges))))
               * ((Cardinality(Single("MuxSenseAmp", ranges, ways))
                  * Cardinality(Single("MuxOutputLev1", ranges, ways)))
                  * Cardinality(Single("MuxOutputLev2", ranges, ways))))
              * (Cardinality(Single("NumRowPerSet", ranges, ways))
                  * Cardinality(Single(Area, ranges, ways)))
<1>1. /\ IsFiniteSet(PairsOf("NumActiveMatPerColumn", ranges))
      /\ IsFiniteSet(PairsOf("NumActiveSubarrayPerColumn", ranges))
      /\ IsFiniteSet(PairsOf("NumActiveMatPerRow", ranges))
      /\ IsFiniteSet(PairsOf("NumActiveSubarrayPerRow", ranges))
  BY PairsAreFinite, KindsOfLoops
<1>2. /\ IsFiniteSet(Single("MuxSenseAmp", ranges, ways))
      /\ IsFiniteSet(Single("MuxOutputLev1", ranges, ways))
      /\ IsFiniteSet(Single("MuxOutputLev2", ranges, ways))
      /\ IsFiniteSet(Single("NumRowPerSet", ranges, ways))
      /\ IsFiniteSet(Single(Area, ranges, ways))
  BY SinglesAreFinite, KindsOfLoops DEF Area
<1>3. /\ IsFiniteSet(PairGrid(ranges))
      /\ Cardinality(PairGrid(ranges)) =
           (Cardinality(PairsOf("NumActiveMatPerColumn", ranges))
              * Cardinality(PairsOf("NumActiveSubarrayPerColumn", ranges)))
           * (Cardinality(PairsOf("NumActiveMatPerRow", ranges))
              * Cardinality(PairsOf("NumActiveSubarrayPerRow", ranges)))
  <2>1. /\ IsFiniteSet(PairsOf("NumActiveMatPerColumn", ranges)
                          \X PairsOf("NumActiveSubarrayPerColumn", ranges))
        /\ Cardinality(PairsOf("NumActiveMatPerColumn", ranges)
                          \X PairsOf("NumActiveSubarrayPerColumn", ranges))
             = Cardinality(PairsOf("NumActiveMatPerColumn", ranges))
                 * Cardinality(PairsOf("NumActiveSubarrayPerColumn", ranges))
    BY <1>1, FS_Product
  <2>2. /\ IsFiniteSet(PairsOf("NumActiveMatPerRow", ranges)
                          \X PairsOf("NumActiveSubarrayPerRow", ranges))
        /\ Cardinality(PairsOf("NumActiveMatPerRow", ranges)
                          \X PairsOf("NumActiveSubarrayPerRow", ranges))
             = Cardinality(PairsOf("NumActiveMatPerRow", ranges))
                 * Cardinality(PairsOf("NumActiveSubarrayPerRow", ranges))
    BY <1>1, FS_Product
  <2> QED
    BY <2>1, <2>2, FS_Product DEF PairGrid
<1>4. /\ IsFiniteSet(MuxGrid(ranges, ways))
      /\ Cardinality(MuxGrid(ranges, ways)) =
           (Cardinality(Single("MuxSenseAmp", ranges, ways))
              * Cardinality(Single("MuxOutputLev1", ranges, ways)))
           * Cardinality(Single("MuxOutputLev2", ranges, ways))
  <2>1. /\ IsFiniteSet(Single("MuxSenseAmp", ranges, ways)
                          \X Single("MuxOutputLev1", ranges, ways))
        /\ Cardinality(Single("MuxSenseAmp", ranges, ways)
                          \X Single("MuxOutputLev1", ranges, ways))
             = Cardinality(Single("MuxSenseAmp", ranges, ways))
                 * Cardinality(Single("MuxOutputLev1", ranges, ways))
    BY <1>2, FS_Product
  <2> QED
    BY <1>2, <2>1, FS_Product DEF MuxGrid
<1>5. /\ IsFiniteSet(RestGrid(ranges, ways))
      /\ Cardinality(RestGrid(ranges, ways)) =
           Cardinality(Single("NumRowPerSet", ranges, ways))
             * Cardinality(Single(Area, ranges, ways))
  BY <1>2, FS_Product, Zenon DEF RestGrid
<1>6. /\ IsFiniteSet(Grid(ranges, ways))
      /\ Cardinality(Grid(ranges, ways)) =
           (Cardinality(PairGrid(ranges)) * Cardinality(MuxGrid(ranges, ways)))
             * Cardinality(RestGrid(ranges, ways))
  <2>1. /\ IsFiniteSet(PairGrid(ranges) \X MuxGrid(ranges, ways))
        /\ Cardinality(PairGrid(ranges) \X MuxGrid(ranges, ways))
             = Cardinality(PairGrid(ranges)) * Cardinality(MuxGrid(ranges, ways))
    BY <1>3, <1>4, FS_Product
  <2> QED
    BY <1>5, <2>1, FS_Product DEF Grid
<1>7. ExistsBijection(Grid(ranges, ways), Points(ranges, ways))
  BY PointsFillGrid, Fun_ExistsBijSymmetric
<1>8. /\ IsFiniteSet(Points(ranges, ways))
      /\ Cardinality(Points(ranges, ways)) = Cardinality(Grid(ranges, ways))
  BY <1>6, <1>7, FS_Bijection
<1> QED
  BY <1>3, <1>4, <1>5, <1>6, <1>8, Zenon

\* SearchIsComplete multiplies the choices of the grid.
LEMMA ChoicesAreCounted ==
  ASSUME IsSpace(space), param.Associativity \in Nat \ {0}
  PROVE  Cardinality(Points(space, param.Associativity))
           = RowPairs * ColumnPairs * Muxes
               * (Choices("NumRowPerSet") * Choices("AreaOptimizationLevel"))
<1> DEFINE ways == param.Associativity
<1>1. ASSUME NEW a \in ActiveDim PROVE Choices(a) = Cardinality(PairsOf(a, space))
  BY KindsOfLoops DEF Choices, Pairs, PairsOf
<1>2. ASSUME NEW d \in MuxDim PROVE Choices(d) = Cardinality(Single(d, space, ways))
  <2>1. d \notin ActiveDim /\ d # "NumRowPerSet" /\ d # Area
    BY KindsOfLoops DEF MuxDim, Area
  <2> QED
    BY <2>1 DEF Choices, Single, Chain, Area
<1>3. Choices("NumRowPerSet") = Cardinality(Single("NumRowPerSet", space, ways))
  BY KindsOfLoops DEF Choices, Single, Chain, Area
<1>4. Choices("AreaOptimizationLevel") = Cardinality(Single(Area, space, ways))
  <2>1. /\ space[Area].min \in Int /\ space[Area].max \in Int
        /\ space[Area].min <= space[Area].max
    BY KindsOfLoops, NumbersAreNatural DEF IsSpace, IsRange, Area
  <2>2. Cardinality(space[Area].min .. space[Area].max) = space[Area].max - space[Area].min + 1
    BY <2>1, FS_Interval
  <2>3. Single(Area, space, ways) = space[Area].min .. space[Area].max
    BY DEF Single, Chain, Area
  <2>4. Choices("AreaOptimizationLevel") = space[Area].max - space[Area].min + 1
    BY KindsOfLoops DEF Choices, Area
  <2> QED
    BY <2>2, <2>3, <2>4
<1>5. /\ RowPairs = Cardinality(PairsOf("NumActiveMatPerColumn", space))
                      * Cardinality(PairsOf("NumActiveSubarrayPerColumn", space))
      /\ ColumnPairs = Cardinality(PairsOf("NumActiveMatPerRow", space))
                         * Cardinality(PairsOf("NumActiveSubarrayPerRow", space))
  BY <1>1, KindsOfLoops DEF RowPairs, ColumnPairs
<1>6. Muxes = (Cardinality(Single("MuxSenseAmp", space, ways))
                 * Cardinality(Single("MuxOutputLev1", space, ways)))
                * Cardinality(Single("MuxOutputLev2", space, ways))
  BY <1>2 DEF Muxes, MuxDim
<1> QED
  BY <1>3, <1>4, <1>5, <1>6, PointsAreProduct

-----------------------------------------------------------------------------
(***************************************************************************)
(* The search is complete.                                                 *)
(***************************************************************************)
Stepping == {"tag", "data", "constrained"}

Reached == Points(space, param.Associativity)
Visited == {q \in Reached : Before(q, point)}

\* The iterations so far are as many as the points before the present one.
CountInv ==
  /\ IsBounded(space)
  /\ pc \in Stepping => point \in Reached /\ tried = Cardinality(Visited)
  /\ pc \in {"tag end", "data end"} => tried = Cardinality(Reached)

CompleteInv == SearchInv /\ SizedInv /\ CountInv

\* The ranges of the macros are bounded, and so are those a line of the file leaves.
LEMMA RangesAreBounded ==
  ASSUME NEW mat \in 1 .. 2 ^ MaxLog, NEW mux \in 1 .. 2 ^ MaxLog, NEW rows,
         NEW local, NEW global, NEW repeater
  PROVE  IsBounded(Ranges(mat, mux, rows, local, global, repeater))
<1> DEFINE ranges == Ranges(mat, mux, rows, local, global, repeater)
<1>1. LoopDim \subseteq Dim
  BY NamesDiffer DEF LoopFacts
<1>2. "NumRowPerSet" \in LoopDim
  BY KindsOfLoops
<1>3. ranges["NumRowPerSet"].min = 1
  BY <1>1, <1>2 DEF Ranges, From, MuxDim
<1>4. ASSUME NEW d \in LoopDim \ {"NumRowPerSet"} PROVE ranges[d].max \in {mat, mux, 2}
  BY <1>1 DEF Ranges, From, LoopDim, Loops, MuxDim
<1>5. 2 <= 2 ^ MaxLog /\ mat <= 2 ^ MaxLog /\ mux <= 2 ^ MaxLog
  BY DEF MaxLog
<1>6. ASSUME NEW d \in LoopDim \ {"NumRowPerSet"} PROVE ranges[d].max <= 2 ^ MaxLog
  BY <1>4, <1>5
<1> QED
  BY <1>3, <1>6 DEF IsBounded

LEMMA RestoredIsBounded ==
  ASSUME NEW a, NEW old PROVE IsBounded(Restored(a, old)) /\ IsBounded(Reduced)
<1>1. ASSUME NEW limit \in {FullMat, FullMux, ReducedMat, ReducedMux}
      PROVE  limit \in 1 .. 2 ^ MaxLog
  <2>1. limit \in Nat \ {0} /\ limit <= 2 ^ MaxLog
    BY LimitsAssumption
  <2>2. 2 ^ MaxLog \in Int
    BY DEF MaxLog
  <2> QED
    BY <2>1, <2>2
<1> QED
  BY <1>1, RangesAreBounded DEF Restored, Reduced

LEMMA NarrowIsBounded ==
  ASSUME NEW l, IsLine(l), NEW ranges, IsBounded(ranges)
  PROVE  IsBounded(Narrow(ranges, Fixed(l.option, l.value, ranges)))
<1> DEFINE fixed == Fixed(l.option, l.value, ranges)
<1>1. ASSUME NEW d \in LoopDim
      PROVE  Narrow(ranges, fixed)[d]
               = IF d \in DOMAIN fixed THEN From(fixed[d], fixed[d]) ELSE ranges[d]
  BY NamesDiffer DEF Narrow, LoopFacts
<1>2. ASSUME "NumRowPerSet" \in DOMAIN fixed PROVE fixed["NumRowPerSet"] = 1
  <2>1. "NumRowPerSet" \in Touched(l)
    BY <1>2, FixedTouches
  <2>2. l.option # "NumRowPerSet"
    BY DEF IsLine, MuxDim, WireDim, WireRole, WireDims, DefaultParam
  <2>3. l.option = "DesignTarget" /\ l.value # "cache"
    BY <2>1, <2>2 DEF Touched, BankDim, MatDim, CactiDim
  <2>4. "DesignTarget" \notin Dim
    BY NamesDiffer DEF LoopFacts
  <2>5. fixed = One("NumRowPerSet", 1)
    BY <2>3, <2>4 DEF Fixed
  <2> QED
    BY <2>5 DEF One
<1> HIDE DEF fixed
<1>3. Narrow(ranges, fixed)["NumRowPerSet"].min = 1
  <2>1. "NumRowPerSet" \in LoopDim
    BY KindsOfLoops
  <2>2. Narrow(ranges, fixed)["NumRowPerSet"] \in {From(1, 1), ranges["NumRowPerSet"]}
    BY <1>1, <1>2, <2>1
  <2> QED
    BY <2>2 DEF IsBounded, From
<1>4. ASSUME NEW d \in LoopDim \ {"NumRowPerSet"}
      PROVE  LET range == Narrow(ranges, fixed)[d]
             IN  range.min = range.max \/ range.max <= 2 ^ MaxLog
  <2>1. CASE d \in DOMAIN fixed
    <3>1. Narrow(ranges, fixed)[d] = From(fixed[d], fixed[d])
      BY <1>1, <2>1
    <3> QED
      BY <3>1 DEF From
  <2>2. CASE d \notin DOMAIN fixed
    <3>1. Narrow(ranges, fixed)[d] = ranges[d]
      BY <1>1, <2>2
    <3> QED
      BY <3>1 DEF IsBounded
  <2> QED
    BY <2>1, <2>2
<1> QED
  BY <1>3, <1>4 DEF IsBounded, fixed

\* A search has what it needs.
LEMMA SearchIsGiven ==
  ASSUME SearchInv, SizedInv, IsBounded(space),
         pc \in {"tag setup", "data setup"} \cup Looping
  PROVE  CanSearch(space, param.Associativity)
<1>1. PICK a \in 0 .. MaxLog : param.Associativity = 2 ^ a
  BY PowerOfTwo DEF SizedInv, WaysArePower
<1>2. param.Associativity \in 1 .. 2 ^ MaxLog
  BY <1>1, PowersBounded
<1> QED
  BY <1>2 DEF SearchInv, RangesInOrder, CanSearch

\* A search that begins has visited no point.
LEMMA BeginCounts ==
  ASSUME NEW ranges, NEW ways, CanSearch(ranges, ways)
  PROVE  /\ FirstPoint(ranges) \in Points(ranges, ways)
         /\ Cardinality({q \in Points(ranges, ways) : Before(q, FirstPoint(ranges))}) = 0
<1>1. {q \in Points(ranges, ways) : Before(q, FirstPoint(ranges))} = {}
  BY FirstIsFirst
<1> QED
  BY <1>1, FirstIsFirst, FS_EmptySet

LEMMA StartTagCounts == CompleteInv /\ StartTag => CountInv'
<1> SUFFICES ASSUME CompleteInv, StartTag PROVE CountInv'
  OBVIOUS
<1>1. /\ pc = "tag setup" /\ pc' \in {"tag", "exit"} /\ UNCHANGED param
      /\ space' = Reduced /\ point' = FirstPoint(space') /\ tried' = 0
  BY DEF StartTag, BeginSearch
<1>2. IsBounded(space')
  BY <1>1, RestoredIsBounded
<1>3. CanSearch(space', param'.Associativity)
  <2>1. CanSearch(space, param.Associativity)
    BY <1>1, SearchIsGiven DEF CompleteInv, CountInv
  <2>2. IsSpace(space')
    BY StartTagSearches DEF CompleteInv, SearchInv, RangesInOrder
  <2> QED
    BY <1>1, <1>2, <2>1, <2>2 DEF CanSearch
<1> QED
  BY <1>1, <1>2, <1>3, BeginCounts DEF CountInv, Stepping, Reached, Visited

LEMMA StartDataCounts == CompleteInv /\ StartData => CountInv'
<1> SUFFICES ASSUME CompleteInv, StartData PROVE CountInv'
  OBVIOUS
<1>1. /\ pc = "data setup" /\ pc' \in {"data", "exit"} /\ UNCHANGED param
      /\ space' = DataRanges /\ point' = FirstPoint(space') /\ tried' = 0
  BY DEF StartData, BeginSearch
<1>2. CanSearch(space, param.Associativity)
  BY <1>1, SearchIsGiven DEF CompleteInv, CountInv
<1>3. IsBounded(space')
  <2>1. DOMAIN space = Dim /\ LoopDim \subseteq Dim /\ "NumRowPerSet" \in LoopDim
    BY NamesDiffer, KindsOfLoops DEF CompleteInv, SearchInv, RangesInOrder, LoopFacts
  <2>2. space' = space \/ space' = [space EXCEPT !["NumRowPerSet"] = From(1, 1)]
    BY <1>1 DEF DataRanges
  <2> QED
    BY <1>2, <2>1, <2>2 DEF CanSearch, IsBounded, From
<1>4. IsSpace(space')
  BY StartDataSearches DEF CompleteInv, SearchInv, RangesInOrder
<1>5. CanSearch(space', param'.Associativity)
  BY <1>1, <1>2, <1>3, <1>4 DEF CanSearch
<1> QED
  BY <1>1, <1>3, <1>5, BeginCounts DEF CountInv, Stepping, Reached, Visited

LEMMA StartConstrainedCounts == CompleteInv /\ StartConstrained => CountInv'
<1> SUFFICES ASSUME CompleteInv, StartConstrained PROVE CountInv'
  OBVIOUS
<1>1. /\ pc = "data end" /\ pc' \in {"constrained", "exit"} /\ UNCHANGED <<param, space>>
      /\ point' = FirstPoint(space) /\ tried' = 0
  BY DEF StartConstrained, BeginSearch
<1>2. CanSearch(space, param.Associativity)
  BY <1>1, SearchIsGiven DEF CompleteInv, CountInv, Looping
<1> QED
  BY <1>1, <1>2, BeginCounts DEF CountInv, Stepping, Reached, Visited, CompleteInv

LEMMA NotBeforeItself ==
  ASSUME NEW p, \A i \in 1 .. 13 : p[Loops[i]] \in Nat
  PROVE  ~ Before(p, p)
<1>1. \A n \in Nat : ~ (n < n)
  OBVIOUS
<1> QED
  BY <1>1, LoopsAreDistinct, Zenon DEF Before

\* An iteration visits the present point: the next one comes right after it, and at
\* the end of the loops it was the last.
LEMMA IterateCounts ==
  ASSUME CompleteInv, NEW end, NEW blockSize, Iterate(end, blockSize),
         <<pc, end>> \in {<<"tag", "tag end">>, <<"data", "data end">>,
                          <<"constrained", "done">>}
  PROVE  CountInv'
<1>1. /\ UNCHANGED <<param, space>> /\ tried' = tried + 1
      /\ \/ Steppable = {} /\ pc' = end /\ point' = point
         \/ pc' = pc /\ Steppable # {} /\ point' = NextPoint
  BY DEF Iterate
<1>2. /\ pc \in Looping /\ pc \in Stepping /\ end \notin Stepping
      /\ pc \notin {"tag end", "data end"}
  BY DEF Looping, Stepping
<1>3. CanSearch(space, param.Associativity) /\ IsBounded(space)
  BY <1>2, SearchIsGiven DEF CompleteInv, CountInv
<1>4. point \in Reached /\ tried = Cardinality(Visited)
  BY <1>2 DEF CompleteInv, CountInv
<1>5. IsFiniteSet(Visited) /\ point \notin Visited
  <2>1. IsSpace(space) /\ param.Associativity \in Nat \ {0}
    BY <1>3, GivenToSearch
  <2>2. IsFiniteSet(Reached)
    BY <2>1, PointsAreProduct DEF Reached
  <2>3. IsFiniteSet(Visited)
    BY <2>2, FS_Subset DEF Visited
  <2>4. ~ Before(point, point)
    <3>1. \A i \in 1 .. 13 : point[Loops[i]] \in Nat
      BY <1>4, PositionOfLoop DEF Reached, Points
    <3> QED
      BY <3>1, NotBeforeItself
  <2> QED
    BY <2>3, <2>4 DEF Visited
<1>6. Cardinality(Visited \cup {point}) = tried + 1
  BY <1>4, <1>5, FS_AddElement
<1>7. CASE Steppable = {} /\ pc' = end /\ point' = point
  <2>1. Reached = Visited \cup {point}
    BY <1>3, <1>4, <1>7, LastIsLast DEF Reached, Visited
  <2> QED
    BY <1>1, <1>2, <1>3, <1>6, <1>7, <2>1 DEF CountInv, Reached
<1>8. CASE pc' = pc /\ Steppable # {} /\ point' = NextPoint
  <2>1. NextPoint \in Reached
    BY <1>3, <1>4, <1>8, NextIsPoint DEF Reached
  <2>2. {q \in Reached : Before(q, NextPoint)} = Visited \cup {point}
    BY <1>3, <1>4, <1>8, NextIsNext DEF Reached, Visited
  <2> QED
    BY <1>1, <1>2, <1>3, <1>6, <1>8, <2>1, <2>2 DEF CountInv, Reached, Visited
<1> QED
  BY <1>1, <1>7, <1>8

LEMMA NextCounts == CompleteInv /\ [Next]_vars => CountInv'
<1> SUFFICES ASSUME CompleteInv, [Next]_vars PROVE CountInv'
  OBVIOUS
<1>1. CASE ReadLine
  <2>1. /\ pc = "read" /\ pc' = "read"
        /\ space' = Narrow(space, Fixed(file[line].option, file[line].value, space))
        /\ IsLine(file[line])
    <3>1. line \in 1 .. Len(file)
      BY <1>1, LinesAreLines DEF ReadLine, CompleteInv, SearchInv, FileIsRead
    <3> QED
      BY <1>1, <3>1, LinesAreLines DEF ReadLine, CompleteInv, SearchInv
  <2> QED
    BY <2>1, NarrowIsBounded DEF CompleteInv, CountInv, Stepping
<1>2. CASE ReadAgain
  <2>1. pc' = "read" /\ space' = Restored(param.Associativity, space)
    BY <1>2 DEF ReadAgain
  <2> QED
    BY <2>1, RestoredIsBounded DEF CountInv, Stepping
<1>3. CASE ApplyConstraint \/ NoTagSolution \/ FinishData
  <2>1. space' = space /\ pc' \in {"exit", "done", "tag setup", "data setup"}
    BY <1>3 DEF ApplyConstraint, NoTagSolution, FinishData
  <2> QED
    BY <2>1 DEF CompleteInv, CountInv, Stepping
<1>4. CASE TryTag \/ TryData \/ TryConstrained
  BY <1>4, IterateCounts DEF TryTag, TryData, TryConstrained
<1>5. CASE Finished \/ UNCHANGED vars
  BY <1>5 DEF Finished, vars, CompleteInv, CountInv, Reached, Visited
<1> QED
  BY <1>1, <1>2, <1>3, <1>4, <1>5, StartTagCounts, StartDataCounts, StartConstrainedCounts
  DEF Next

\* For every configuration file and all limits: thirteen nested loops whose starts and
\* ends depend on each other (macros.h:129-149) come to every organisation of the
\* ranges, none of them is left out and none counted twice, whatever dimensions the file
\* has fixed and to whatever values.
THEOREM SearchesEverything == Spec => []SearchIsComplete
<1>1. Init => CompleteInv
  <2>1. Init => CountInv
    BY RestoredIsBounded DEF Init, CountInv, Stepping
  <2> QED
    BY <2>1, InitSearch, InitSized DEF CompleteInv
<1>2. CompleteInv /\ [Next]_vars => CompleteInv'
  BY NextSearch, NextSized, NextCounts DEF CompleteInv
<1>3. CompleteInv => SearchIsComplete
  <2> SUFFICES ASSUME CompleteInv, pc \in {"tag end", "data end"} PROVE SearchIsComplete
    BY DEF SearchIsComplete
  <2>1. CanSearch(space, param.Associativity)
    BY SearchIsGiven DEF CompleteInv, CountInv, Looping
  <2>2. tried = Cardinality(Points(space, param.Associativity))
    BY DEF CompleteInv, CountInv, Reached
  <2> QED
    BY <2>1, <2>2, GivenToSearch, ChoicesAreCounted DEF SearchIsComplete
<1> QED
  BY <1>1, <1>2, <1>3, PTL DEF Spec
=============================================================================
