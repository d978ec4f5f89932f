---------------------------- MODULE SearchSpace ----------------------------
(***************************************************************************)
(* The ranges an exploration searches: how the configuration file sets     *)
(* them, how main() replaces them for the tag array and restores them for  *)
(* the data array, and how the thirteen loops of BIGFOR go through them.   *)
(*                                                                         *)
(* A dimension is a pair min.../max... of InputParameter, under the name   *)
(* after the prefix.  Enumerations are their numbers in typedef.h.  The    *)
(* evaluation of an organisation and the wire refinements do not touch the *)
(* ranges; they are the subject of module Explorer, which takes what is    *)
(* found here as constants.                                                *)
(***************************************************************************)
EXTENDS BankBus, Sequences, FiniteSets, TLC

CONSTANTS
  FullMat, FullMux,         \* 512 and 256: the limits of RESTORE_SEARCH_SIZE
  ReducedMat, ReducedMux,   \* 64 and 64: the limits of REDUCE_SEARCH_SIZE
  TotalAddressBit,          \* 48: the bits of an address
  Files,                    \* configuration files: sequences of option lines
  CellTypes                 \* cells that the cell file may describe

ASSUME LimitsAssumption ==
  /\ {FullMat, FullMux, ReducedMat, ReducedMux} \subseteq Nat \ {0}
  /\ \A limit \in {FullMat, FullMux, ReducedMat, ReducedMux} : limit <= 2 ^ MaxLog
  /\ TotalAddressBit \in Nat

\* The loops of BIGFOR, from the outermost to the innermost.
Loops == <<"NumRowMat", "NumColumnMat", "NumActiveMatPerRow",
           "NumActiveMatPerColumn", "NumRowSubarray", "NumColumnSubarray",
           "NumActiveSubarrayPerRow", "NumActiveSubarrayPerColumn",
           "MuxSenseAmp", "MuxOutputLev1", "MuxOutputLev2", "NumRowPerSet",
           "AreaOptimizationLevel">>
LoopDim == {Loops[i] : i \in DOMAIN Loops}

\* The dimensions of a wire: type, repeater and low swing.
WireRole == {"Local", "Global"}
WireDims(role) ==
  IF role = "Local"
  THEN <<"LocalWireType", "LocalWireRepeaterType", "IsLocalWireLowSwing">>
  ELSE <<"GlobalWireType", "GlobalWireRepeaterType", "IsGlobalWireLowSwing">>
WireDim == {WireDims(role)[i] : role \in WireRole, i \in 1 .. 3}
Dim == LoopDim \cup WireDim

MuxDim == {"MuxSenseAmp", "MuxOutputLev1", "MuxOutputLev2"}

\* How many there are of what a loop activates.
TotalOf ==
  [NumActiveMatPerRow |-> "NumColumnMat", NumActiveMatPerColumn |-> "NumRowMat",
   NumActiveSubarrayPerRow |-> "NumColumnSubarray",
   NumActiveSubarrayPerColumn |-> "NumRowSubarray"]
ActiveDim == DOMAIN TotalOf

From(min, max) == [min |-> min, max |-> max]

LocalAggressive == 0
SemiAggressive == 2
SemiConservative == 3
LocalConservative == 1
GlobalAggressive == 4
GlobalConservative == 5

VARIABLES
  file,          \* the lines of the configuration file
  cellType,
  pc,            \* where main() is
  line,          \* the next line to read
  readings,      \* how often the file has been opened
  param,         \* the options that are not ranges
  space,         \* the range of each dimension
  basic,         \* the wires INITIAL_BASIC_WIRE loads
  array,         \* capacity, block size and ways of the array searched
  point,         \* the loop variables of BIGFOR
  bank,          \* the arguments of the last bank that was built
  firstRead,     \* history: the ranges before each line of the first reading
  tried          \* history: iterations of the current BIGFOR

vars == <<file, cellType, pc, line, readings, param, space, basic, array, point, bank,
          firstRead, tried>>
input == <<file, cellType>>

MinOf(a, b) == IF a < b THEN a ELSE b

(***************************************************************************)
(* The ranges.                                                             *)
(***************************************************************************)

\* What the constructor and the two macros have in common, given the limits that
\* differ.
Ranges(mat, mux, rowPerSet, local, global, repeater) ==
  [d \in Dim |->
     CASE d \in {"NumRowMat", "NumColumnMat", "NumActiveMatPerRow",
                 "NumActiveMatPerColumn"} -> From(1, mat)
       [] d \in MuxDim -> From(1, mux)
       [] d = "NumRowPerSet" -> From(1, rowPerSet)
       [] d = "AreaOptimizationLevel" -> From(0, 2)
       [] d = "LocalWireType" -> local
       [] d = "GlobalWireType" -> global
       [] d \in {"LocalWireRepeaterType", "GlobalWireRepeaterType"} -> From(0, repeater)
       [] d \in {"IsLocalWireLowSwing", "IsGlobalWireLowSwing"} -> From(0, 1)
       [] OTHER -> From(1, 2)]

\* The constructor: repeated_50 is 7.
Constructed == Ranges(FullMat, FullMux, FullMux, From(LocalAggressive, LocalConservative),
                      From(GlobalAggressive, GlobalConservative), 7)

\* REDUCE_SEARCH_SIZE: repeated_opt is 1.
Reduced == Ranges(ReducedMat, ReducedMux, 1, From(LocalAggressive, LocalConservative),
                  From(GlobalAggressive, GlobalConservative), 1)

\* Mutant: a macro that leaves the mux degrees of the tag search.
RestoredWithoutMux(associativity, old) ==
  LET new == Ranges(FullMat, FullMux, associativity,
               From(LocalAggressive, SemiConservative),
               From(SemiAggressive, GlobalConservative), 7)
  IN  [new EXCEPT !["MuxSenseAmp"] = old["MuxSenseAmp"]]

\* RESTORE_SEARCH_SIZE writes every range, whatever it was.
Restored(associativity, old) ==
  Ranges(FullMat, FullMux, associativity, From(LocalAggressive, SemiConservative),
         From(SemiAggressive, GlobalConservative), 7)

(***************************************************************************)
(* The configuration file.  A line is an option and its value; a dimension *)
(* that an option sets is fixed to one value.                              *)
(***************************************************************************)
FixBank(v) ==
  [NumRowMat |-> v[1], NumColumnMat |-> v[2],
   NumActiveMatPerColumn |-> v[3], NumActiveMatPerRow |-> v[4]]
FixMat(v) ==
  [NumRowSubarray |-> v[1], NumColumnSubarray |-> v[2],
   NumActiveSubarrayPerColumn |-> v[3], NumActiveSubarrayPerRow |-> v[4]]

\* -UseCactiAssumption: all mats of one row are active, in whatever number of
\* columns is the most when the line is read, and the mats are full and 2 x 2.
FixCacti(ranges) ==
  [NumActiveMatPerRow |-> ranges["NumColumnMat"].max, NumActiveMatPerColumn |-> 1,
   NumRowSubarray |-> 2, NumColumnSubarray |-> 2,
   NumActiveSubarrayPerRow |-> 2, NumActiveSubarrayPerColumn |-> 2]

Nothing == [d \in {} |-> 0]
One(dim, value) == [d \in {dim} |-> value]

Fixed(option, value, ranges) ==
  CASE option \in Dim -> One(option, value)
    [] option = "ForceBank" -> FixBank(value)
    [] option = "ForceMat" -> FixMat(value)
    [] option = "UseCactiAssumption" /\ value -> FixCacti(ranges)
    [] option = "DesignTarget" /\ value # "cache" -> One("NumRowPerSet", 1)
    [] OTHER -> Nothing

Narrow(ranges, fixed) ==
  [d \in Dim |-> IF d \in DOMAIN fixed THEN From(fixed[d], fixed[d]) ELSE ranges[d]]

\* What the constructor sets.  Capacity (in bits), word width and page size
\* have no default: the file has to set what the search reads.  Constrained is
\* set by any limit, when there is one optimization target.
DefaultParam ==
  [DesignTarget |-> "cache", Associativity |-> 1, CacheAccessMode |-> "Normal",
   Routing |-> "H-tree", InternalSensing |-> TRUE,
   Capacity |-> 0, WordWidth |-> 0, FlashPageSize |-> 0, Constrained |-> FALSE]

\* What a dimension of the loops may be: a level of optimisation, or a count.
Numbers(d) == IF d = "AreaOptimizationLevel" THEN 0 .. 2 ELSE Nat \ {0}

\* The options that ReadInputParameterFromFile knows.  Of the loops, single
\* dimensions have an option for the mux degrees and the buffer design only.
IsLine(l) ==
  \/ l.option \in MuxDim \cup {"AreaOptimizationLevel"} /\ l.value \in Numbers(l.option)
  \/ l.option \in WireDim /\ l.value \in Nat
  \/ l.option \in {"ForceBank", "ForceMat"} /\ l.value \in [1 .. 4 -> Nat \ {0}]
  \/ l.option = "UseCactiAssumption" /\ l.value \in BOOLEAN
  \/ l.option = "Associativity" /\ l.value \in Nat \ {0}
  \/ l.option \in DOMAIN DefaultParam \ {"Associativity"}

\* A file has finitely many lines, and no count in it is zero.
ASSUME FilesAssumption ==
  \A f \in Files :
    /\ Len(f) \in Nat /\ DOMAIN f = 1 .. Len(f)
    /\ \A i \in DOMAIN f : IsLine(f[i])

\* A file gives the capacity and the word width, which have no default.
ASSUME SizesAssumption ==
  \A f \in Files :
    /\ \A option \in {"Capacity", "WordWidth"} : \E i \in DOMAIN f : f[i].option = option
    /\ \A i \in DOMAIN f : f[i].option \in {"Capacity", "WordWidth"} =>
         f[i].value \in Nat \ {0}
    /\ \A i, j \in DOMAIN f :
         f[i].option = "Capacity" /\ f[j].option = "WordWidth" =>
           f[j].value <= 2 ^ MaxLog /\ f[i].value \div f[j].value <= 2 ^ MaxLog

Set(options, option, value) ==
  [p \in DOMAIN options |-> IF p = option THEN value ELSE options[p]]

NoPoint == [d \in LoopDim |-> 0]
NoWires == [role \in WireRole |-> <<0, 0, 0>>]
NoArray == [capacity |-> 0, blockSize |-> 0, associativity |-> 1]
NoBank == [built |-> FALSE]

\* main() begins with the constructor and RESTORE_SEARCH_SIZE, where the
\* associativity is still its default.
Init ==
  /\ file \in Files /\ cellType \in CellTypes
  /\ pc = "read" /\ line = 1 /\ readings = 1
  /\ param = DefaultParam
  /\ space = Restored(1, Constructed)
  /\ basic = NoWires
  /\ array = NoArray /\ point = NoPoint /\ bank = NoBank
  /\ firstRead = <<space>>
  /\ tried = 0

\* The ranges before each line, with those after the current line.
Recorded(isNew) ==
  IF readings = 1 /\ isNew
  THEN [i \in 1 .. line + 1 |-> IF i = line + 1 THEN space' ELSE firstRead[i]]
  ELSE firstRead

ReadLine ==
  /\ pc = "read" /\ line <= Len(file)
  /\ param' = Set(param, file[line].option, file[line].value)
  /\ space' = Narrow(space, Fixed(file[line].option, file[line].value, space))
  /\ line' = line + 1
  /\ firstRead' = Recorded(TRUE)
  /\ UNCHANGED <<input, pc, readings, basic, array, point, bank, tried>>

(***************************************************************************)
(* applyConstraint(), after each reading.                                  *)
(***************************************************************************)
Ways == IF param.DesignTarget # "cache" THEN 1 ELSE param.Associativity
IsRefused ==
  \/ param.DesignTarget = "CAM"
  \/ cellType \in {"DRAM", "MLCNAND"}
  \/ ~IsPow2(Ways)
  \/ param.Routing = "H-tree" /\ ~param.InternalSensing

ApplyConstraint ==
  /\ pc = "read" /\ line > Len(file)
  /\ IF IsRefused THEN pc' = "exit" /\ UNCHANGED param
     ELSE /\ param' = [param EXCEPT !.Associativity = Ways]
          /\ pc' = IF readings = 1 /\ param.DesignTarget = "cache"
                   THEN "tag setup" ELSE "data setup"
  /\ UNCHANGED <<input, line, readings, space, basic, array, point, bank, firstRead, tried>>

(***************************************************************************)
(* BIGFOR.                                                                 *)
(***************************************************************************)
Position(d) == CHOOSE i \in DOMAIN Loops : Loops[i] = d

\* Where a loop begins, given the outer loop variables.
Start(d, outer, ranges) ==
  IF d \in ActiveDim THEN MinOf(outer[TotalOf[d]], ranges[d].min) ELSE ranges[d].min

\* Mutant: the rows of a set stay below the number of ways.
LimitBelowWays(d) ==
  CASE d \in ActiveDim -> MinOf(point[TotalOf[d]], space[d].max)
    [] d = "NumRowPerSet" -> MinOf(space[d].max, param.Associativity - 1)
    [] OTHER -> space[d].max

\* The last value a loop may take.
Limit(d) ==
  CASE d \in ActiveDim -> MinOf(point[TotalOf[d]], space[d].max)
    [] d = "NumRowPerSet" -> MinOf(space[d].max, param.Associativity)
    [] OTHER -> space[d].max

\* Mutant: all loops double their variable.
Doubled(d) == 2 * point[d]

NextValue(d) == IF d = "AreaOptimizationLevel" THEN point[d] + 1 ELSE 2 * point[d]

FirstPoint(ranges) ==
  LET least == [d \in LoopDim |-> ranges[d].min]
  IN  [d \in LoopDim |-> Start(d, least, ranges)]

\* The loops that can still step; the innermost of them does, and the loops
\* inside it begin again.
Steppable == {i \in DOMAIN Loops : NextValue(Loops[i]) <= Limit(Loops[i])}

NextPoint ==
  LET k == CHOOSE i \in Steppable : \A j \in Steppable : j <= i
      least == [d \in LoopDim |->
                 IF Position(d) < k THEN point[d]
                 ELSE IF Position(d) = k THEN NextValue(d) ELSE space[d].min]
  IN  [d \in LoopDim |-> IF Position(d) > k THEN Start(d, least, space) ELSE least[d]]

ActiveParts(organisation) ==
  organisation["NumActiveMatPerRow"] * organisation["NumActiveMatPerColumn"]
    * organisation["NumActiveSubarrayPerRow"] * organisation["NumActiveSubarrayPerColumn"]

(***************************************************************************)
(* INITIAL_BASIC_WIRE: a dimension with one value has that value, others   *)
(* the most aggressive type without repeaters or low swing.                *)
(***************************************************************************)
Aggressive(role) == IF role = "Local" THEN LocalAggressive ELSE GlobalAggressive

BasicWire(role, ranges) ==
  [i \in 1 .. 3 |->
     LET range == ranges[WireDims(role)[i]]
     IN  IF range.min = range.max THEN range.min
         ELSE IF i = 1 THEN Aggressive(role) ELSE 0]

\* Wire::Initialize ends the program for low swing with repeaters.
WireIsLegal(wire) == wire[2] = 0 \/ wire[3] = 0

\* INITIAL_BASIC_WIRE and the head of BIGFOR.
BeginSearch(ranges, search) ==
  /\ basic' = [role \in WireRole |-> BasicWire(role, ranges)]
  /\ pc' = IF \A role \in WireRole : WireIsLegal(basic'[role]) THEN search ELSE "exit"
  /\ point' = FirstPoint(ranges)
  /\ bank' = NoBank
  /\ tried' = 0

(***************************************************************************)
(* The tag array.                                                          *)
(***************************************************************************)
NumDataSet == (param.Capacity \div param.WordWidth) \div param.Associativity
NumIndexBit == Log2(NumDataSet, 1)
NumOffsetBit == Log2(param.WordWidth \div 8, 1)

\* The tag, a dirty bit and a valid bit.
TagBits == TotalAddressBit - NumIndexBit - NumOffsetBit + 2

StartTag ==
  /\ pc = "tag setup"
  /\ space' = Reduced
  /\ BeginSearch(Reduced, "tag")
  /\ UNCHANGED <<input, line, readings, param, array, firstRead>>

\* A tag is padded to a multiple of the active parts.
TagBlock ==
  LET parts == ActiveParts(point)
  IN  IF TagBits % parts # 0 THEN (TagBits \div parts + 1) * parts ELSE TagBits

TagArray ==
  [capacity |-> (param.Capacity \div param.WordWidth) * TagBlock,
   blockSize |-> TagBlock, associativity |-> param.Associativity]

\* Partitioned too aggressively: the active parts get no bit.
TooAggressive(blockSize) == blockSize \div ActiveParts(point) = 0

\* An iteration builds a bank or continues, then the loops step or end.
Iterate(end, blockSize) ==
  /\ bank' = IF TooAggressive(blockSize) THEN NoBank
             ELSE [built |-> TRUE, organisation |-> point, array |-> array']
  /\ tried' = tried + 1
  /\ IF Steppable = {} THEN pc' = end /\ UNCHANGED point
     ELSE point' = NextPoint /\ UNCHANGED pc
  /\ UNCHANGED <<input, line, readings, param, space, basic, firstRead>>

TryTag ==
  /\ pc = "tag"
  /\ array' = IF TooAggressive(TagBits) THEN [array EXCEPT !.blockSize = TagBits]
              ELSE TagArray
  /\ Iterate("tag end", TagBits)

\* main() ends without a solution for tags.
NoTagSolution ==
  /\ pc = "tag end"
  /\ pc' = "done"
  /\ UNCHANGED <<input, line, readings, param, space, basic, array, point, bank,
                 firstRead, tried>>

\* Mutant: the ranges are restored, and the file is not read again.
RestoreOnly ==
  /\ pc = "tag end"
  /\ space' = Restored(param.Associativity, space)
  /\ pc' = "data setup" /\ readings' = 2
  /\ UNCHANGED <<input, line, param, basic, array, point, bank, firstRead, tried>>

\* Otherwise the file is read again, "just for restoring the search space".
ReadAgain ==
  /\ pc = "tag end"
  /\ space' = Restored(param.Associativity, space)
  /\ pc' = "read" /\ line' = 1 /\ readings' = 2
  /\ UNCHANGED <<input, param, basic, array, point, bank, firstRead, tried>>

(***************************************************************************)
(* The data array, and the memory array of a chip.                         *)
(***************************************************************************)
Block(blockSize, associativity) ==
  [capacity |-> param.Capacity, blockSize |-> blockSize, associativity |-> associativity]

IsFlash == param.DesignTarget # "cache" /\ cellType = "SLCNAND"

\* Mutant: in all modes the way is taken as known.
DataArrayOneWay == Block(param.WordWidth, 1)

\* The way of a sequential access is known, a fast access loads all ways as one
\* word, and flash is read in pages.
DataArray ==
  IF IsFlash THEN Block(param.FlashPageSize, 1)
  ELSE IF param.DesignTarget # "cache" THEN Block(param.WordWidth, param.Associativity)
  ELSE CASE param.CacheAccessMode = "Sequential" -> Block(param.WordWidth, 1)
         [] param.CacheAccessMode = "Fast" -> Block(param.WordWidth * param.Associativity, 1)
         [] OTHER -> Block(param.WordWidth, param.Associativity)

\* Normal access does not allow one set to be spread over several rows.
DataRanges ==
  IF param.DesignTarget = "cache" /\ param.CacheAccessMode = "Normal"
  THEN [space EXCEPT !["NumRowPerSet"] = From(1, 1)] ELSE space

StartData ==
  /\ pc = "data setup"
  /\ array' = DataArray
  /\ space' = DataRanges
  /\ BeginSearch(space', "data")
  /\ UNCHANGED <<input, line, readings, param, firstRead>>

TryData ==
  /\ pc = "data"
  /\ UNCHANGED array
  /\ Iterate("data end", array.blockSize)

\* With limits, the data array is searched once more.
StartConstrained ==
  /\ pc = "data end" /\ param.Constrained
  /\ BeginSearch(space, "constrained")
  /\ UNCHANGED <<input, line, readings, param, space, array, firstRead>>

TryConstrained ==
  /\ pc = "constrained"
  /\ UNCHANGED array
  /\ Iterate("done", array.blockSize)

FinishData ==
  /\ pc = "data end" /\ ~param.Constrained
  /\ pc' = "done"
  /\ UNCHANGED <<input, line, readings, param, space, basic, array, point, bank,
                 firstRead, tried>>

Finished == pc \in {"done", "exit"} /\ UNCHANGED vars

Next ==
  \/ ReadLine \/ ApplyConstraint
  \/ StartTag \/ TryTag \/ NoTagSolution \/ ReadAgain
  \/ StartData \/ TryData \/ StartConstrained \/ TryConstrained \/ FinishData
  \/ Finished

Spec == Init /\ [][Next]_vars

-----------------------------------------------------------------------------
(***************************************************************************)
(* Properties.                                                             *)
(***************************************************************************)
SameExceptRowPerSet(ranges, other) ==
  \A d \in Dim \ {"NumRowPerSet"} : ranges[d] = other[d]

\* Reading the file a second time, after the tag search has replaced every
\* range (RESTORE_SEARCH_SIZE, main.cpp:250-251), repeats the first reading line
\* by line, so that the data array is searched in the ranges the file gave in
\* the first place.  Rows per set are the exception: RESTORE_SEARCH_SIZE reads
\* an associativity that is still the default the first time.
RangesRestored ==
  readings = 2 =>
    /\ pc = "read" => SameExceptRowPerSet(space, firstRead[line])
    /\ pc \in {"data setup", "data", "data end", "constrained"}
         => SameExceptRowPerSet(space, firstRead[Len(file) + 1])

Fixes(i, d) == d \in DOMAIN Fixed(file[i].option, file[i].value, space)
HasLastWord(i, d) == Fixes(i, d) /\ \A j \in i + 1 .. Len(file) : ~Fixes(j, d)

\* A choice in the configuration file holds for every bank of the data array,
\* although it is overwritten for the tag array: the last line that fixes a
\* dimension decides, and what is active is cut to what there is.
\* -UseCactiAssumption, which depends on the lines before it
\* (InputParameter.cpp:460), activates exactly one full row of mats.
ChoicesHold ==
  pc \in {"data", "data end", "constrained"} =>
    \A i \in DOMAIN file :
      IF file[i].option = "UseCactiAssumption"
      THEN HasLastWord(i, "NumActiveMatPerRow") =>
             /\ point["NumActiveMatPerRow"] = point["NumColumnMat"]
             /\ point["NumActiveMatPerColumn"] = 1
      ELSE \A d \in LoopDim : HasLastWord(i, d) =>
             LET value == Fixed(file[i].option, file[i].value, space)[d]
             IN  point[d] = IF d \in ActiveDim THEN MinOf(point[TotalOf[d]], value) ELSE value

\* The numbers lo, 2 lo, 4 lo ... up to hi.
Doublings(lo, hi) == {n \in lo .. hi : \E k \in 0 .. MaxLog : n = lo * 2 ^ k}

\* The pairs of a number of parts and a number of active parts among them.
Pairs(active) ==
  LET ranges == space[TotalOf[active]]
  IN  UNION {{total} \X Doublings(MinOf(total, space[active].min),
                                  MinOf(total, space[active].max)) :
               total \in Doublings(ranges.min, ranges.max)}
Choices(d) ==
  CASE d \in ActiveDim -> Cardinality(Pairs(d))
    [] d = "NumRowPerSet" ->
         Cardinality(Doublings(space[d].min, MinOf(space[d].max, param.Associativity)))
    [] d = "AreaOptimizationLevel" -> space[d].max - space[d].min + 1
    [] OTHER -> Cardinality(Doublings(space[d].min, space[d].max))
RowPairs == Choices("NumActiveMatPerColumn") * Choices("NumActiveSubarrayPerColumn")
ColumnPairs == Choices("NumActiveMatPerRow") * Choices("NumActiveSubarrayPerRow")
Muxes == Choices("MuxSenseAmp") * Choices("MuxOutputLev1") * Choices("MuxOutputLev2")

\* The thirteen nested loops make as many iterations as there are ways to choose
\* a pair of total and active parts for each of the four kinds of parts, three
\* mux degrees, the rows of a set and the buffer design.  With PointsIncrease:
\* the search tries each organisation exactly once.
SearchIsComplete ==
  pc \in {"tag end", "data end"} =>
    tried = RowPairs * ColumnPairs * Muxes
              * (Choices("NumRowPerSet") * Choices("AreaOptimizationLevel"))

Before(p, q) ==
  \E i \in DOMAIN Loops :
    /\ p[Loops[i]] < q[Loops[i]]
    /\ \A j \in 1 .. i - 1 : p[Loops[j]] = q[Loops[j]]

\* No organisation is tried twice in one search: the loop variables increase in
\* the order of the loops (BIGFOR).
PointsIncrease ==
  [][(pc \in {"tag", "data", "constrained"} /\ pc' = pc) => Before(point, point')]_vars

\* A cache has tags if it has sets, of words of bytes, and its addresses are longer
\* than index and offset.
HasTags ==
  param.DesignTarget = "cache" /\ NumDataSet > 0 /\ param.WordWidth >= 8 /\ TagBits > 0

\* The capacity is a whole number of sets.
HasWholeSets == param.Capacity % (param.WordWidth * param.Associativity) = 0

\* Tags and data of a cache agree on its sets.  Every tag bank has room for
\* the tag, is shared evenly by the active parts and wastes less than one bit of
\* each of them; if no part of a set is left over, it has as many sets as the index
\* that the tag leaves out can address (main.cpp:188-206).  The data array is then
\* addressed by the same index, and by the way number as well when the access is
\* sequential (main.cpp:256-283).
DataMatchesTags ==
  bank.built /\ HasTags =>
    LET parts == ActiveParts(bank.organisation)
        block == bank.array.blockSize
        wayBit == IF param.CacheAccessMode = "Sequential" THEN Log2(param.Associativity, 1) ELSE 0
    IN  /\ pc \in {"tag", "tag end"} =>
             /\ block % parts = 0 /\ block >= TagBits /\ block - TagBits < parts
             /\ HasWholeSets => NumAddressBit(bank.array) = NumIndexBit
        /\ pc \in {"data", "data end"} /\ HasWholeSets =>
             NumAddressBit(bank.array) = NumIndexBit + wayBit
=============================================================================
