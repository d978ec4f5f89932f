----------------------------- MODULE WireProofs -----------------------------
(***************************************************************************)
(* What is read of a wire is current, no sense amplifier has two owners,   *)
(* and a repeated wire keeps the promise of its type, however often it is  *)
(* initialised: for all wire types, repeaters, penalties and circuits.     *)
(***************************************************************************)
EXTENDS WireRepeaters, TLAPS

\* What the repeaters of a wire are computed from.
Repeating == [type : Types, repeater : Repeated]

WireState ==
  [initialized : BOOLEAN, setting : Setting \cup {Unset}, geometry : Types \cup {Unset},
   repeaters : Repeating \cup {Unset}, senseAmp : Nat \cup {NoAmp}]

\* What an initialised wire holds belongs to its setting.
Current(w) ==
  w.initialized =>
    /\ w.setting \in Setting
    /\ w.geometry = w.setting.type
    /\ w.setting.repeater # None =>
         w.repeaters = [type |-> w.setting.type, repeater |-> w.setting.repeater]

\* Only the working wire owns a sense amplifier, one that is allocated and not
\* deleted.
WireInv ==
  /\ pc \in {"run", "exit", "deleted"}
  /\ wire \in [Slots -> WireState]
  /\ allocated \in Nat
  /\ freed \subseteq 1 .. allocated
  /\ \A s \in Slots : Current(wire[s])
  /\ \A s \in Slots \ {Working} : wire[s].senseAmp = NoAmp
  /\ Owned(wire[Working]) \subseteq 1 .. allocated
  /\ pc = "run" => Owned(wire[Working]) \cap freed = {}
  /\ ~wire[Working].initialized => wire[Working].senseAmp = NoAmp

-----------------------------------------------------------------------------
LEMMA InitWireInv == Init => WireInv
<1> SUFFICES ASSUME Init PROVE WireInv
  OBVIOUS
<1>1. Constructed \in WireState
  BY DEF Constructed, WireState
<1>2. \A s \in Slots : wire[s] = Constructed
  BY DEF Init
<1>3. Working \in Slots /\ Owned(Constructed) = {} /\ Current(Constructed)
  BY DEF Slots, Owned, Constructed, Current
<1>4. wire[Working].senseAmp = NoAmp
  BY <1>2, <1>3 DEF Constructed
<1>5. wire \in [Slots -> WireState]
  BY <1>1 DEF Init
<1>6. allocated = 0 /\ freed = {} /\ pc = "run"
  BY DEF Init
<1>7. \A s \in Slots : Current(wire[s]) /\ wire[s].senseAmp = NoAmp
  BY <1>2, <1>3 DEF Constructed
<1> QED
  BY <1>2, <1>3, <1>5, <1>6, <1>7 DEF WireInv

\* Copying a wire keeps the sense amplifier of the copy.
LEMMA AssignIsCurrent ==
  ASSUME NEW to \in WireState, NEW from \in WireState, Current(from)
  PROVE  /\ Assign(to, from) \in WireState
         /\ Current(Assign(to, from))
         /\ Assign(to, from).senseAmp = to.senseAmp
BY DEF Assign, WireState, Current

LEMMA InitializeKeepsInv ==
  ASSUME WireInv, pc = "run", NEW given \in Setting, Initialize(given)
  PROVE  WireInv'
<1> DEFINE old == wire[Working]
           new == wire'[Working]
<1>1. Working \in Slots /\ old \in WireState
  BY DEF WireInv, Slots
<1>2. \A s \in Slots \ {Working} : wire'[s] = wire[s]
  BY DEF Initialize, WireInv
<1>3. old.senseAmp \in Nat \cup {NoAmp} /\ old.repeaters \in Repeating \cup {Unset}
  BY <1>1 DEF WireState
<1>4. RepeatersOf(old, given) \in Repeating \cup {Unset}
  BY <1>3 DEF RepeatersOf, Setting, Repeating
<1>5. given.type \in Types
  BY DEF Setting
<1>6. /\ new \in WireState /\ Current(new) /\ new.senseAmp = NoAmp
      /\ wire' \in [Slots -> WireState] /\ pc' \in {"run", "exit"}
  <2>1. CASE Supported(given)
    <3>1. new = [initialized |-> TRUE, setting |-> given, geometry |-> given.type,
                 repeaters |-> RepeatersOf(old, given),
                 senseAmp |-> IF old.initialized THEN NoAmp ELSE old.senseAmp]
      BY <1>1, <2>1 DEF Initialize, WireInv
    <3>2. new.senseAmp = NoAmp
      BY <3>1 DEF WireInv
    <3>3. Current(new)
      BY <3>1 DEF Current, RepeatersOf
    <3>4. new \in WireState
      BY <3>1, <3>2, <1>4, <1>5 DEF WireState
    <3> QED
      BY <2>1, <3>2, <3>3, <3>4 DEF Initialize, WireInv
  <2>2. CASE ~Supported(given)
    <3>1. new = [old EXCEPT !.initialized = FALSE, !.setting = given, !.senseAmp = NoAmp]
      BY <1>1, <2>2 DEF Initialize, WireInv
    <3>2. new \in WireState /\ new.senseAmp = NoAmp /\ Current(new)
      BY <3>1, <1>1 DEF WireState, Current
    <3> QED
      BY <2>2, <3>2 DEF Initialize, WireInv
  <2> QED
    BY <2>1, <2>2
<1>7. freed' \subseteq 1 .. allocated /\ allocated' = allocated
  BY DEF Initialize, WireInv
<1>8. Owned(new) = {}
  BY <1>6 DEF Owned
<1> QED
  BY <1>1, <1>2, <1>6, <1>7, <1>8 DEF WireInv

LEMMA NextWireInv == WireInv /\ [Next]_vars => WireInv'
<1> SUFFICES ASSUME WireInv, [Next]_vars PROVE WireInv'
  OBVIOUS
<1> DEFINE new == wire'[Working]
<1>0. Working \in Slots /\ Temp \in Slots /\ Temp # Working /\ Working \notin Results
  BY WireAssumption DEF Slots, Working, Temp
<1>1. CASE SetWire
  BY <1>1, InitializeKeepsInv DEF SetWire
<1>2. CASE LoadWire
  <2>1. PICK r \in Results : wire[r].initialized /\ Initialize(wire[r].setting)
    BY <1>2 DEF LoadWire
  <2>2. wire[r].setting \in Setting
    BY <2>1 DEF WireInv, Current, Slots
  <2> QED
    BY <1>2, <2>1, <2>2, InitializeKeepsInv DEF LoadWire
<1>3. CASE CalculateLatencyAndPower
  <2>1. CASE wire[Working].setting.lowSwing
    <3>1. allocated' = allocated + 1 /\ allocated \in Nat
      BY <1>3, <2>1 DEF CalculateLatencyAndPower, WireInv
    <3>2. /\ new = [wire[Working] EXCEPT !.senseAmp = allocated + 1]
          /\ \A s \in Slots \ {Working} : wire'[s] = wire[s]
          /\ DOMAIN wire' = Slots
      BY <1>0, <1>3, <2>1 DEF CalculateLatencyAndPower, WireInv
    <3>3. wire[Working] \in WireState /\ Current(wire[Working]) /\ wire[Working].initialized
      BY <1>0, <1>3 DEF CalculateLatencyAndPower, WireInv
    <3>4. new \in WireState /\ Current(new) /\ new.senseAmp = allocated + 1 /\ new.initialized
      BY <3>1, <3>2, <3>3 DEF WireState, Current
    <3>5. Owned(new) \subseteq {allocated + 1}
      BY <3>4 DEF Owned
    <3>6. wire' \in [Slots -> WireState]
      BY <1>0, <1>3, <2>1, <3>2, <3>4 DEF CalculateLatencyAndPower, WireInv
    <3>7. freed' = freed /\ pc' = pc
      BY <1>3 DEF CalculateLatencyAndPower
    <3>8. /\ freed' \subseteq 1 .. allocated' /\ Owned(new) \subseteq 1 .. allocated'
          /\ Owned(new) \cap freed' = {}
      BY <3>1, <3>5, <3>7 DEF WireInv
    <3>9. \A s \in Slots :
            /\ Current(wire'[s])
            /\ s # Working => wire'[s].senseAmp = NoAmp
      BY <3>2, <3>4 DEF WireInv
    <3>10. /\ pc' \in {"run", "exit", "deleted"}
           /\ pc' = "run" => Owned(wire'[Working]) \cap freed' = {}
           /\ ~wire'[Working].initialized => wire'[Working].senseAmp = NoAmp
      BY <3>4, <3>7, <3>8 DEF WireInv
    <3>11. Owned(wire'[Working]) = Owned(wire[Working])'
      BY DEF Owned
    <3> QED
      BY <3>1, <3>6, <3>8, <3>9, <3>10, <3>11 DEF WireInv
  <2>2. CASE ~wire[Working].setting.lowSwing
    BY <1>3, <2>2 DEF CalculateLatencyAndPower, WireInv, Owned, Current
  <2> QED
    BY <2>1, <2>2
<1>4. ASSUME NEW s \in Slots \ {Working}, NEW t \in Slots,
             wire' = [wire EXCEPT ![s] = Assign(@, wire[t])], UNCHANGED <<allocated, freed, pc>>
      PROVE  WireInv'
  <2>1. wire[s] \in WireState /\ wire[t] \in WireState /\ Current(wire[t])
    BY <1>4 DEF WireInv
  <2>2. wire'[s] = Assign(wire[s], wire[t]) /\ \A u \in Slots \ {s} : wire'[u] = wire[u]
    BY <1>4 DEF WireInv
  <2>3. wire'[s] \in WireState /\ Current(wire'[s]) /\ wire'[s].senseAmp = NoAmp
    BY <1>4, <2>1, <2>2, AssignIsCurrent DEF WireInv
  <2>4. wire' \in [Slots -> WireState] /\ wire'[Working] = wire[Working]
    BY <1>0, <1>4, <2>2, <2>3 DEF WireInv
  <2> QED
    BY <1>4, <2>2, <2>3, <2>4 DEF WireInv
<1>5. CASE CopyToTemp
  BY <1>0, <1>4, <1>5 DEF CopyToTemp
<1>6. CASE Keep
  BY <1>0, <1>4, <1>6 DEF Keep, Slots
<1>7. CASE RenewTemp
  <2>1. Constructed \in WireState /\ Current(Constructed) /\ Constructed.senseAmp = NoAmp
    BY DEF Constructed, WireState, Current
  <2>2. Owned(wire[Temp]) = {}
    BY <1>0 DEF WireInv, Owned
  <2>3. /\ wire'[Temp] = Constructed /\ wire'[Working] = wire[Working]
        /\ \A s \in Slots \ {Temp} : wire'[s] = wire[s]
        /\ wire' \in [Slots -> WireState]
    BY <1>0, <1>7, <2>1 DEF RenewTemp, WireInv
  <2> QED
    BY <1>0, <1>7, <2>1, <2>2, <2>3 DEF RenewTemp, WireInv
<1>8. CASE Delete
  <2>1. \A s \in Slots : Owned(wire[s]) \subseteq 1 .. allocated
    BY DEF WireInv, Owned
  <2> QED
    BY <1>8, <2>1 DEF Delete, WireInv
<1>9. CASE UNCHANGED vars
  BY <1>9 DEF vars, WireInv, Current, Owned
<1> QED
  BY <1>1, <1>2, <1>3, <1>5, <1>6, <1>7, <1>8, <1>9 DEF Next, Ended

LEMMA WireInvariant == Spec => []WireInv
BY InitWireInv, NextWireInv, PTL DEF Spec

\* What the banks read of a wire was computed from its present setting, however
\* the object was used before (Wire::Initialize and Wire::operator=).
THEOREM WiresAreCurrent == Spec => []ReadsAreCurrent
<1>1. WireInv => ReadsAreCurrent
  BY DEF WireInv, Current, ReadsAreCurrent
<1> QED
  BY <1>1, WireInvariant, PTL

\* No sense amplifier is deleted twice (Wire::~Wire and Wire::Initialize).
THEOREM AmpsOwnedOnce == Spec => []OwnedOnce
<1>1. WireInv => OwnedOnce
  <2> SUFFICES ASSUME WireInv, pc = "run", NEW s \in Slots
               PROVE  /\ Owned(wire[s]) \cap freed = {}
                      /\ \A t \in Slots \ {s} : Owned(wire[s]) \cap Owned(wire[t]) = {}
    BY DEF OwnedOnce
  <2>1. \A t \in Slots \ {Working} : Owned(wire[t]) = {}
    BY DEF WireInv, Owned
  <2> QED
    BY <2>1 DEF WireInv
<1> QED
  BY <1>1, WireInvariant, PTL

-----------------------------------------------------------------------------
(***************************************************************************)
(* The search of Repeater inside Wire::Initialize.                         *)
(***************************************************************************)
\* While a search runs, the target is a repeater in the table that is fast enough
\* (the optimum is), and the one its energy and leakage were recorded for.
SearchInv ==
  /\ IsPenalised
  /\ Circuit \in Circuits /\ Overhead \in Penalties /\ LastSize \in -1 .. MaxSize
  /\ stage \in {"search", "done"}
  /\ spacing \in 0 .. LastSpacing + 1 /\ size \in 0 .. MaxSize + 1
  /\ target \in Repeaters /\ current = target
  /\ Search!FastEnough(target)
  /\ stage = "done" => target = <<spacing, size>>

\* The search has its starting values between two calls, and its invariant
\* during a call.
ComposedInv ==
  /\ WireInv
  /\ fabric \in Fabrics
  /\ stage \in {"idle", "search", "done"}
  /\ stage = "idle" =>
       spacing = 0 /\ size = 0 /\ target = Optimum /\ current = Optimum /\ tried = {}
  /\ stage # "idle" => SearchInv

-----------------------------------------------------------------------------
\* The search starts from the optimum of the grid.
LEMMA SameGrid == Search!Optimum = Optimum
BY DEF Search!Optimum, Optimum

\* The tables of a circuit hold positive numbers.
LEMMA Tables ==
  ASSUME SearchInv, NEW r \in Repeaters
  PROVE  /\ Circuit.delay[r] \in Positive
         /\ Circuit.energy[r] \in Positive
         /\ Circuit.leakage[r] \in Positive
BY RepeaterAssumption DEF SearchInv, CircuitType

LEMMA OptimumIsRepeater == Optimum \in Repeaters
BY RepeaterAssumption DEF Optimum, Repeaters

\* A wire with a penalty has a circuit of its type and a penalty of the code.
LEMMA PenalisedWire ==
  ASSUME WireInv, fabric \in Fabrics, IsPenalised
  PROVE  Circuit \in Circuits /\ Overhead \in Penalties /\ LastSize \in -1 .. MaxSize
<1>1. Working \in Slots
  BY DEF Slots
<1>2. setting \in Setting
  BY <1>1 DEF WireInv, Current, IsPenalised, setting
<1>3. fabric[setting.type] \in [circuit : Circuits, lastSize : -1 .. MaxSize]
  BY <1>2, WireRepeatersAssumption DEF Setting
<1> QED
  BY <1>3, WireRepeatersAssumption DEF Circuit, Overhead, LastSize, IsPenalised

\* Every step of the composition is a step of the wire or leaves it alone.
LEMMA StepOfWire == [RepeatersNext]_allVars => [Next]_vars
BY DEF RepeatersNext, allVars, InitializeWire, SearchRepeaters, Return, UseWire, Next

\* A wire whose search has not taken a step.
Begun ==
  /\ WireInv /\ fabric \in Fabrics /\ IsPenalised /\ stage = "search"
  /\ spacing = 0 /\ size = 0 /\ target = Optimum /\ current = Optimum

\* A call of Initialize begins the search with the optimum.
LEMMA SearchBegins ==
  Begun => SearchInv
<1> SUFFICES ASSUME Begun PROVE SearchInv
  OBVIOUS
<1> USE DEF Begun
<1>1. Circuit \in Circuits /\ Overhead \in Penalties /\ LastSize \in -1 .. MaxSize
  BY PenalisedWire
<1>2. Optimum \in Repeaters
  BY RepeaterAssumption DEF Optimum, Repeaters
<1>3. Circuit.delay[Optimum] \in Positive /\ Overhead \in Nat
  BY <1>1, <1>2, RepeaterAssumption DEF CircuitType
<1>4. Search!FastEnough(Optimum)
  BY <1>3, SameGrid DEF Search!FastEnough, Positive
<1> QED
  BY <1>1, <1>2, <1>4, SameGrid, RepeaterAssumption DEF SearchInv

\* A step of the search keeps its invariant: only a repeater that is fast enough
\* becomes the target.
LEMMA SearchKeepsInv == SearchInv /\ SearchRepeaters => SearchInv'
<1> SUFFICES ASSUME SearchInv, SearchRepeaters PROVE SearchInv'
  OBVIOUS
<1> USE RepeaterAssumption
<1>1. /\ Circuit' = Circuit /\ Overhead' = Overhead /\ LastSize' = LastSize
      /\ IsPenalised' = IsPenalised
  BY DEF SearchRepeaters, vars, Circuit, Overhead, LastSize, IsPenalised, setting
<1>2. CASE Search!Try
  <2> DEFINE here == <<spacing, size>>
  <2>1. here \in Repeaters /\ size' \in 0 .. MaxSize + 1
    BY <1>2 DEF Search!Try, SearchInv, Repeaters
  <2>2. target' \in Repeaters /\ current' = target'
    BY <1>2, <2>1 DEF Search!Try, SearchInv
  <2>3. Search!FastEnough(target)'
    BY <1>1, <1>2 DEF Search!Try, SearchInv, Search!FastEnough
  <2> QED
    BY <1>1, <1>2, <2>1, <2>2, <2>3 DEF Search!Try, SearchInv
<1>3. CASE Search!NextSpacing
  BY <1>1, <1>3 DEF Search!NextSpacing, SearchInv, Search!FastEnough
<1>4. CASE Search!Finish
  BY <1>1, <1>4 DEF Search!Finish, SearchInv, Search!FastEnough, Repeaters
<1> QED
  BY <1>2, <1>3, <1>4 DEF SearchRepeaters

LEMMA InitComposed == RepeatersInit => ComposedInv
<1> SUFFICES ASSUME RepeatersInit PROVE ComposedInv
  OBVIOUS
<1> QED
  BY InitWireInv DEF RepeatersInit, ComposedInv

LEMMA NextComposed == ComposedInv /\ [RepeatersNext]_allVars => ComposedInv'
<1> SUFFICES ASSUME ComposedInv, [RepeatersNext]_allVars PROVE ComposedInv'
  OBVIOUS
<1>1. WireInv /\ WireInv' /\ fabric \in Fabrics /\ fabric' \in Fabrics
  BY StepOfWire, NextWireInv
     DEF ComposedInv, RepeatersNext, allVars, InitializeWire, SearchRepeaters, Return, UseWire
<1>2. CASE InitializeWire
  <2>1. /\ stage = "idle" /\ stage' \in {"idle", "search"}
        /\ stage' # "idle" => IsPenalised'
        /\ spacing' = 0 /\ size' = 0 /\ target' = Optimum /\ current' = Optimum
        /\ tried' = {}
    BY <1>2 DEF InitializeWire, ComposedInv
  <2>2. CASE stage' = "idle"
    BY <1>1, <2>1, <2>2 DEF ComposedInv
  <2>3. CASE stage' = "search"
    <3>1. IsPenalised'
      BY <2>1, <2>3
    <3>2. SearchInv'
      <4>1. Begun'
        BY <1>1, <2>1, <2>3, <3>1 DEF Begun
      <4>2. Begun' => SearchInv'
        BY SearchBegins, PTL
      <4> QED
        BY <4>1, <4>2
    <3> QED
      BY <1>1, <2>1, <2>3, <3>1, <3>2 DEF ComposedInv
  <2> QED
    BY <2>1, <2>2, <2>3
<1>3. CASE SearchRepeaters
  <2>1. stage = "search" /\ stage' \in {"search", "done"}
    BY <1>3 DEF SearchRepeaters, Search!Try, Search!NextSpacing, Search!Finish
  <2>2. SearchInv'
    BY <1>3, <2>1, SearchKeepsInv DEF ComposedInv
  <2> QED
    BY <1>1, <2>1, <2>2 DEF ComposedInv
<1>4. CASE Return
  BY <1>1, <1>4 DEF Return, ComposedInv
<1>5. CASE UseWire
  BY <1>1, <1>5 DEF UseWire, ComposedInv, search
<1>6. CASE UNCHANGED allVars
  <2>1. UNCHANGED <<fabric, stage, spacing, size, target, current, tried, wire>>
    BY <1>6 DEF allVars, search, vars
  <2>2. Circuit' = Circuit /\ Overhead' = Overhead /\ LastSize' = LastSize
        /\ IsPenalised' = IsPenalised
    BY <2>1 DEF Circuit, Overhead, LastSize, IsPenalised, setting
  <2>3. SearchInv' <=> SearchInv
    BY <2>1, <2>2 DEF SearchInv, Search!FastEnough
  <2> QED
    BY <1>1, <2>1, <2>2, <2>3 DEF ComposedInv
<1> QED
  BY <1>2, <1>3, <1>4, <1>5, <1>6 DEF RepeatersNext

LEMMA ComposedInvariant == RepeatersSpec => []ComposedInv
BY InitComposed, NextComposed, PTL DEF RepeatersSpec

-----------------------------------------------------------------------------
\* With the search inside, Wire::Initialize is still what Wire says of it: the
\* composition implements the wire.
THEOREM ComposedIsWire == RepeatersSpec => Spec
<1>1. RepeatersInit => Init
  BY DEF RepeatersInit
<1> QED
  BY <1>1, StepOfWire, PTL DEF RepeatersSpec, Spec

\* What is read of a wire is current, and no sense amplifier has two owners, with
\* the search inside.
THEOREM ComposedWires == RepeatersSpec => [](ReadsAreCurrent /\ OwnedOnce)
BY ComposedIsWire, WiresAreCurrent, AmpsOwnedOnce, PTL

\* When findPenalizedRepeater returns to Wire::Initialize, its repeaters are no
\* slower than the type of the wire promises.
THEOREM ComposedWithinPenalty == RepeatersSpec => []WithinPenalty
<1>1. ComposedInv => WithinPenalty
  <2> SUFFICES ASSUME ComposedInv, stage = "done"
               PROVE  100 * (Circuit.delay[<<spacing, size>>] - Circuit.delay[Optimum])
                        <= Overhead * Circuit.delay[Optimum]
    BY SameGrid DEF WithinPenalty, Search!WithinPenalty
  <2>1. SearchInv /\ Search!FastEnough(<<spacing, size>>) /\ <<spacing, size>> \in Repeaters
    BY DEF ComposedInv, SearchInv
  <2>2. Circuit.delay[<<spacing, size>>] \in Nat /\ Circuit.delay[Optimum] \in Nat
    BY <2>1, Tables, OptimumIsRepeater DEF Positive
  <2>3. Overhead \in Nat
    BY <2>1, RepeaterAssumption DEF SearchInv
  <2> QED
    BY <2>1, <2>2, <2>3, SameGrid DEF Search!FastEnough
<1> QED
  BY <1>1, ComposedInvariant, PTL

\* If two ratios are together below 2, their product is below 1.
LEMMA SumBoundsProduct ==
  ASSUME NEW e \in Positive, NEW l \in Positive, NEW x \in Positive, NEW y \in Positive,
         x * l + y * e < 2 * e * l
  PROVE  x * y < e * l
<1> DEFINE a == x * l
           b == y * e
           c == e * l
<1>1. a \in Nat /\ b \in Nat /\ c \in Positive
  BY DEF Positive
<1>2. a + b < 2 * c
  BY DEF Positive
<1>3. a * b < c * c
  <2> HIDE DEF a, b, c
  <2>1. (a + b) * (a + b) < (2 * c) * (2 * c)
    BY <1>1, <1>2 DEF Positive
  <2>2. 0 <= (a - b) * (a - b)
    BY <1>1
  <2>3. (a + b) * (a + b) - (a - b) * (a - b) = 4 * (a * b)
    BY <1>1
  <2>4. (2 * c) * (2 * c) = 4 * (c * c)
    BY <1>1 DEF Positive
  <2> QED
    BY <1>1, <2>1, <2>2, <2>3, <2>4 DEF Positive
<1>4. a * b = (x * y) * c /\ x * y \in Nat
  BY DEF Positive
<1>5. (x * y) * c < c * c
  BY <1>3, <1>4
<1> HIDE DEF c
<1>6. x * y < c
  BY <1>1, <1>4, <1>5 DEF Positive
<1> QED
  BY <1>6 DEF c

\* Each repeater that the search of a wire prefers has a smaller product of energy
\* and leakage than the one before.
THEOREM ComposedCostFalls == RepeatersSpec => CostFalls
<1>1. ComposedInv /\ [RepeatersNext]_allVars
        => [stage = "search" /\ target' # target
              => Search!Cost(target') < Search!Cost(target)]_allVars
  <2> SUFFICES ASSUME ComposedInv, SearchRepeaters, stage = "search", target' # target
               PROVE  Search!Cost(target') < Search!Cost(target)
    BY DEF RepeatersNext, InitializeWire, Return, UseWire, search, allVars
  <2> DEFINE here == <<spacing, size>>
  <2>1. SearchInv
    BY DEF ComposedInv
  <2>2. Search!Try
    BY DEF SearchRepeaters, Search!NextSpacing, Search!Finish
  <2>3. target' = here /\ here \in Repeaters /\ Search!Cheaper(here, target)
    BY <2>1, <2>2, RepeaterAssumption DEF Search!Try, SearchInv, Repeaters
  <2>4. target \in Repeaters
    BY <2>1 DEF SearchInv
  <2>5. /\ Circuit.energy[here] \in Positive /\ Circuit.leakage[here] \in Positive
        /\ Circuit.energy[target] \in Positive /\ Circuit.leakage[target] \in Positive
    BY <2>1, <2>3, <2>4, Tables
  <2> HIDE DEF here
  <2> QED
    BY <2>3, <2>5, SumBoundsProduct DEF Search!Cheaper, Search!Cost
<1> QED
  BY <1>1, ComposedInvariant, PTL DEF RepeatersSpec, CostFalls
=============================================================================
