------------------------------ MODULE Explorer ------------------------------
(***************************************************************************)
(* The design-space exploration of main(): the tag search, the data        *)
(* search, the two wire refinements, the constrained search and the        *)
(* report, with the eight best-so-far results of each memory array.        *)
(*                                                                         *)
(* Abstractions.  A design is one point of the thirteen nested loops of    *)
(* BIGFOR, numbered in loop order.  What the circuit model computes for a  *)
(* design under a pair of wires is the rigid variable physics; it is       *)
(* chosen among the tables in Physics and never changes, because the code  *)
(* that computes it reads nothing that the exploration writes except the   *)
(* global variables localWire and globalWire.  The user's .cfg is the      *)
(* rigid variable config.                                                  *)
(***************************************************************************)
EXTENDS Result, Sequences, FiniteSets

CONSTANTS
  NumDesigns,    \* [Memory -> Nat], the iterations of BIGFOR for each array
  Wires,         \* wire configurations <type, repeater, low swing>
  LocalRange,    \* [Memory -> Seq(Wires)], what REFINE_LOCAL_WIRE_FORLOOP visits
  GlobalRange,   \* [Memory -> Seq(Wires)], what REFINE_GLOBAL_WIRE_FORLOOP visits
  BasicLocal,    \* [Memory -> Wires], the local wire of INITIAL_BASIC_WIRE
  BasicGlobal,   \* [Memory -> Wires], the global wire of INITIAL_BASIC_WIRE
  LastTarget,    \* area_optimized, the last index of the loops over targets
  FullExploration, \* the target that is not one of Targets
  Invalid,       \* the outcome of a bank whose invalid flag is set
  Unset,         \* a field or variable nobody has written
  Physics,       \* the tables of the circuit model that are explored
  Configs        \* the configurations that are explored

Memory == {"tag", "data"}
Design(m) == 1 .. NumDesigns[m]
AnyDesign == Design("tag") \cup Design("data")

ASSUME SpaceAssumption ==
  /\ NumDesigns \in [Memory -> Nat]
  /\ LocalRange \in [Memory -> Seq(Wires)]
  /\ GlobalRange \in [Memory -> Seq(Wires)]
  /\ BasicLocal \in [Memory -> Wires]
  /\ BasicGlobal \in [Memory -> Wires]
  /\ LastTarget \in Targets
  /\ FullExploration \notin Targets
  /\ Unset \notin Wires
  /\ Unset \notin AnyDesign
  /\ Invalid \notin Costs

(***************************************************************************)
(* A table says, for each array, which designs pass the "too aggressive    *)
(* partitioning" test, which pass the capacity check, and what each design *)
(* costs under each pair of wires.                                         *)
(***************************************************************************)
PhysicsType ==
  [divisible : [Memory -> SUBSET Nat],
   fits      : [Memory -> SUBSET Nat],
   outcome   : [Memory -> [AnyDesign \X Wires \X Wires -> Costs \cup {Invalid}]]]

ConfigType ==
  [cache       : BOOLEAN,                          \* designTarget == cache
   target      : Targets \cup {FullExploration},   \* optimizationTarget
   pruning     : BOOLEAN,                          \* isPruningEnabled
   constrained : BOOLEAN,                          \* isConstraintApplied
   slack       : [Targets -> Nat]]                 \* the constraints, in percent

ASSUME PhysicsAssumption == Physics \subseteq PhysicsType
ASSUME ConfigAssumption == Configs \subseteq ConfigType

VARIABLES
  config,        \* *inputParameter, as far as main() branches on it
  physics,       \* what Initialize and the Calculate functions return
  phase,         \* where main() is
  mem,           \* the array being designed
  cursor,        \* the loop position: a design, or an index of a wire range
  localWire,     \* the global variable localWire
  globalWire,    \* the global variable globalWire
  best,          \* bestTagResults and bestDataResults
  limit,         \* the limits of bestDataResults
  numSolution,   \* the counter of valid designs
  csv,           \* the results handed to OUTPUT_TO_FILE
  printed,       \* what main() has reported
  offered        \* history: what each result has been compared with, since reset

rigid == <<config, physics>>
vars == <<config, physics, phase, mem, cursor, localWire, globalWire, best,
          limit, numSolution, csv, printed, offered>>

-----------------------------------------------------------------------------
(* Evaluating one bank.                                                    *)

Outcome(m, d, l, g) == physics.outcome[m][<<d, l, g>>]

\* Mutant: the local wire is copied before it is loaded.
TrialStaleWire(m, d, l, g) ==
  [design |-> d, local |-> localWire, global |-> g,
   cost |-> IF Outcome(m, d, l, g) = Invalid THEN WorstCost
            ELSE Outcome(m, d, l, g)]

\* CALCULATE and TRY_AND_UPDATE fill tempResult from the bank and from the
\* wires the bank was calculated with.  An invalid bank has all metrics 1e41.
Trial(m, d, l, g) ==
  [design |-> d, local |-> l, global |-> g,
   cost |-> IF Outcome(m, d, l, g) = Invalid THEN WorstCost
            ELSE Outcome(m, d, l, g)]

\* A Result that was only constructed: metrics 1e41, everything else unset.
FreshResult ==
  [design |-> Unset, local |-> Unset, global |-> Unset, cost |-> WorstCost]

IsValid(m, d, l, g) ==
  d \in physics.divisible[m] /\ Outcome(m, d, l, g) # Invalid

LimitOf(m) == IF m = "data" THEN limit ELSE NoLimit

\* compareAndUpdate of each of the eight results of an array with its trial.
Record(m, trials) ==
  /\ best' = [best EXCEPT ![m] =
       [t \in Targets |->
          CompareAndUpdate(best[m][t], trials[t], LimitOf(m), t)]]
  /\ offered' = [offered EXCEPT ![m] =
       [t \in Targets |-> offered[m][t] \cup {trials[t]}]]

\* UPDATE_BEST_DATA and UPDATE_BEST_TAG: one trial for all eight results.
UpdateBest(m, trial) == Record(m, [t \in Targets |-> trial])

WritesCsv == config.target = FullExploration /\ ~config.pruning

-----------------------------------------------------------------------------
Init ==
  /\ config \in Configs
  /\ physics \in Physics
  /\ phase = IF config.cache THEN "start" ELSE "startData"
  /\ mem = IF config.cache THEN "tag" ELSE "data"
  /\ cursor = 0
  /\ localWire = Unset
  /\ globalWire = Unset
  /\ best = [m \in Memory |-> [t \in Targets |-> FreshResult]]
  /\ limit = NoLimit
  /\ numSolution = 0
  /\ csv = << >>
  /\ printed = "nothing"
  /\ offered = [m \in Memory |-> [t \in Targets |-> {}]]

\* INITIAL_BASIC_WIRE and the head of a BIGFOR over the designs of m.
BeginSearch(m, p) ==
  /\ phase' = p
  /\ mem' = m
  /\ cursor' = 1
  /\ localWire' = BasicLocal[m]
  /\ globalWire' = BasicGlobal[m]

StartTag ==
  /\ phase = "start"
  /\ BeginSearch("tag", "search")
  /\ UNCHANGED <<rigid, best, limit, numSolution, csv, printed, offered>>

StartData ==
  /\ phase = "startData"
  /\ BeginSearch("data", "search")
  /\ UNCHANGED <<rigid, best, limit, numSolution, csv, printed, offered>>

-----------------------------------------------------------------------------
(* BIGFOR: one action for each way an iteration can go.                    *)

InSearch == phase = "search" /\ cursor \in Design(mem)

\* Mutant: continue comes before the increment.
SkipDesignStuck ==
  /\ InSearch
  /\ ~IsValid(mem, cursor, localWire, globalWire)
  /\ UNCHANGED vars

\* continue, or a bank whose invalid flag is set: nothing is recorded.
SkipDesign ==
  /\ InSearch
  /\ ~IsValid(mem, cursor, localWire, globalWire)
  /\ cursor' = cursor + 1
  /\ UNCHANGED <<rigid, phase, mem, localWire, globalWire, best, limit,
                 numSolution, csv, printed, offered>>

\* VERIFY_DATA_CAPACITY and VERIFY_TAG_CAPACITY: exit(-1).
CapacityViolation ==
  /\ phase \in {"search", "constrain"} /\ cursor \in Design(mem)
  /\ IsValid(mem, cursor, localWire, globalWire)
  /\ phase = "constrain" =>
       WithinLimit(Outcome(mem, cursor, localWire, globalWire), limit)
  /\ cursor \notin physics.fits[mem]
  /\ phase' = "aborted"
  /\ UNCHANGED <<rigid, mem, cursor, localWire, globalWire, best, limit,
                 numSolution, csv, printed, offered>>

\* Mutant: the capacity is not verified.
AcceptUnverified ==
  /\ InSearch
  /\ IsValid(mem, cursor, localWire, globalWire)
  /\ UpdateBest(mem, Trial(mem, cursor, localWire, globalWire))
  /\ numSolution' = numSolution + 1
  /\ cursor' = cursor + 1
  /\ UNCHANGED <<rigid, phase, mem, localWire, globalWire, limit, csv, printed>>

AcceptDesign ==
  /\ InSearch
  /\ IsValid(mem, cursor, localWire, globalWire)
  /\ cursor \in physics.fits[mem]
  /\ LET trial == Trial(mem, cursor, localWire, globalWire)
     IN  /\ UpdateBest(mem, trial)
         /\ csv' = IF mem = "data" /\ WritesCsv THEN Append(csv, trial) ELSE csv
  /\ numSolution' = numSolution + 1
  /\ cursor' = cursor + 1
  /\ UNCHANGED <<rigid, phase, mem, localWire, globalWire, limit, printed>>

\* Mutant: the loop can end one design early.
EndSearchEarly ==
  /\ phase = "search" /\ cursor \notin 1 .. NumDesigns[mem] - 1
  /\ phase' = IF numSolution > 0 THEN "refineLocal" ELSE "wrapUp"
  /\ cursor' = 1
  /\ UNCHANGED <<rigid, mem, localWire, globalWire, best, limit, numSolution,
                 csv, printed, offered>>

EndSearch ==
  /\ phase = "search" /\ cursor \notin Design(mem)
  /\ phase' = IF numSolution > 0 THEN "refineLocal" ELSE "wrapUp"
  /\ cursor' = 1
  /\ UNCHANGED <<rigid, mem, localWire, globalWire, best, limit, numSolution,
                 csv, printed, offered>>

-----------------------------------------------------------------------------
(***************************************************************************)
(* The refinements.  One step is the body of the loop over wire            *)
(* configurations: one wire is initialised from the loop, then for each    *)
(* target the other wire is loaded from the result and the result's        *)
(* organisation is evaluated again.  The eight trials are independent of   *)
(* each other; the last one stays in tempResult and in the loaded wire.    *)
(* A result that was never updated has an organisation nobody wrote: its   *)
(* trial is one of an arbitrary organisation, or the program crashes.      *)
(***************************************************************************)
UnsetTargets(m) == {t \in Targets : best[m][t].design = Unset}

TryAndUpdate(trials) ==
  /\ Record(mem, trials)
  /\ csv' = IF mem = "data" /\ WritesCsv THEN Append(csv, trials[LastTarget])
            ELSE csv

RefineLocal ==
  /\ phase = "refineLocal" /\ cursor <= Len(LocalRange[mem])
  /\ localWire' = LocalRange[mem][cursor]
  /\ \E junk \in [UnsetTargets(mem) -> Design(mem) \X Wires] :
       LET trials == [t \in Targets |->
             IF t \in UnsetTargets(mem)
             THEN Trial(mem, junk[t][1], localWire', junk[t][2])
             ELSE Trial(mem, best[mem][t].design, localWire', best[mem][t].global)]
       IN  TryAndUpdate(trials) /\ globalWire' = trials[LastTarget].global
  /\ cursor' = cursor + 1
  /\ UNCHANGED <<rigid, phase, mem, limit, numSolution, printed>>

EndRefineLocal ==
  /\ phase = "refineLocal" /\ cursor > Len(LocalRange[mem])
  /\ phase' = "refineGlobal"
  /\ cursor' = 1
  /\ UNCHANGED <<rigid, mem, localWire, globalWire, best, limit, numSolution,
                 csv, printed, offered>>

RefineGlobal ==
  /\ phase = "refineGlobal" /\ cursor <= Len(GlobalRange[mem])
  /\ globalWire' = GlobalRange[mem][cursor]
  /\ \E junk \in [UnsetTargets(mem) -> Design(mem) \X Wires] :
       LET trials == [t \in Targets |->
             IF t \in UnsetTargets(mem)
             THEN Trial(mem, junk[t][1], junk[t][2], globalWire')
             ELSE Trial(mem, best[mem][t].design, best[mem][t].local, globalWire')]
       IN  TryAndUpdate(trials) /\ localWire' = trials[LastTarget].local
  /\ cursor' = cursor + 1
  /\ UNCHANGED <<rigid, phase, mem, limit, numSolution, printed>>

\* Mutant: the loop leaves out the last wire.
EndRefineGlobalEarly ==
  /\ phase = "refineGlobal" /\ cursor >= Len(GlobalRange[mem])
  /\ phase' = "wrapUp"
  /\ UNCHANGED <<rigid, mem, cursor, localWire, globalWire, best, limit,
                 numSolution, csv, printed, offered>>

EndRefineGlobal ==
  /\ phase = "refineGlobal" /\ cursor > Len(GlobalRange[mem])
  /\ phase' = "wrapUp"
  /\ UNCHANGED <<rigid, mem, cursor, localWire, globalWire, best, limit,
                 numSolution, csv, printed, offered>>

CrashOnUnset ==
  /\ \/ phase = "refineLocal" /\ cursor <= Len(LocalRange[mem])
     \/ phase = "refineGlobal" /\ cursor <= Len(GlobalRange[mem])
  /\ UnsetTargets(mem) # {}
  /\ phase' = "crashed"
  /\ UNCHANGED <<rigid, mem, cursor, localWire, globalWire, best, limit,
                 numSolution, csv, printed, offered>>

-----------------------------------------------------------------------------
(* After a search.                                                         *)

NoTagSolution ==
  /\ phase = "wrapUp" /\ mem = "tag" /\ numSolution = 0
  /\ printed' = "noTag"
  /\ phase' = "done"
  /\ UNCHANGED <<rigid, mem, cursor, localWire, globalWire, best, limit,
                 numSolution, csv, offered>>

\* The counter is cleared and the search space of the data array restored.
FinishTag ==
  /\ phase = "wrapUp" /\ mem = "tag" /\ numSolution > 0
  /\ numSolution' = 0
  /\ phase' = "startData"
  /\ UNCHANGED <<rigid, mem, cursor, localWire, globalWire, best, limit, csv,
                 printed, offered>>

IsConstrained == config.target # FullExploration /\ config.constrained

\* allowedData...: the best value of a metric, enlarged by its constraint.
Allowed ==
  [t \in Targets |-> (best["data"][t].cost[t] * (100 + config.slack[t])) \div 100]

\* APPLY_LIMIT on the eight results, then the second BIGFOR.
StartConstrained ==
  /\ phase = "wrapUp" /\ mem = "data" /\ IsConstrained
  /\ limit' = Allowed
  /\ best' = [best EXCEPT !["data"] =
       [t \in Targets |-> ResetResult(best["data"][t])]]
  /\ offered' = [offered EXCEPT !["data"] = [t \in Targets |-> {}]]
  /\ numSolution' = 0
  /\ BeginSearch("data", "constrain")
  /\ UNCHANGED <<rigid, csv, printed>>

\* Mutant: a design at its limit is rejected.
MeetsStrictly(d) ==
  /\ IsValid("data", d, localWire, globalWire)
  /\ \A t \in Targets :
       Outcome("data", d, localWire, globalWire)[t] < limit[t]

Meets(d) ==
  /\ IsValid("data", d, localWire, globalWire)
  /\ WithinLimit(Outcome("data", d, localWire, globalWire), limit)

SkipConstrained ==
  /\ phase = "constrain" /\ cursor \in Design("data")
  /\ ~Meets(cursor)
  /\ cursor' = cursor + 1
  /\ UNCHANGED <<rigid, phase, mem, localWire, globalWire, best, limit,
                 numSolution, csv, printed, offered>>

AcceptConstrained ==
  /\ phase = "constrain" /\ cursor \in Design("data")
  /\ Meets(cursor) /\ cursor \in physics.fits["data"]
  /\ UpdateBest("data", Trial("data", cursor, localWire, globalWire))
  /\ numSolution' = numSolution + 1
  /\ cursor' = cursor + 1
  /\ UNCHANGED <<rigid, phase, mem, localWire, globalWire, limit, csv, printed>>

\* The pruned output prints each data result with the tag result of the same
\* target, if their memoryType fields are data and tag.  In a result that was
\* never updated the field is unwritten: the row is printed or it is not.
PrunedReports ==
  IF \A m \in Memory : UnsetTargets(m) = {} THEN {"pruned"}
  ELSE {"pruned", "notACache"}

\* Mutant: the report does not ask for a solution.
ReportAlways ==
  /\ \/ phase = "wrapUp" /\ mem = "data" /\ ~IsConstrained
     \/ phase = "constrain" /\ cursor \notin Design("data")
  /\ printed' = IF config.target = FullExploration THEN "exploration" ELSE "best"
  /\ phase' = "done"
  /\ UNCHANGED <<rigid, mem, cursor, localWire, globalWire, best, limit,
                 numSolution, csv, offered>>

Report ==
  /\ \/ phase = "wrapUp" /\ mem = "data" /\ ~IsConstrained
     \/ phase = "constrain" /\ cursor \notin Design("data")
  /\ printed' \in CASE config.target # FullExploration ->
                       {IF numSolution = 0 THEN "noSolution" ELSE "best"}
                 [] WritesCsv -> {"exploration"}
                 [] OTHER -> PrunedReports
  /\ phase' = "done"
  /\ UNCHANGED <<rigid, mem, cursor, localWire, globalWire, best, limit,
                 numSolution, csv, offered>>

Stopped == phase \in {"done", "aborted", "crashed"}

\* The process has exited.
Exited == Stopped /\ UNCHANGED vars

Next ==
  \/ StartTag \/ StartData
  \/ SkipDesign \/ AcceptDesign \/ CapacityViolation \/ EndSearch
  \/ RefineLocal \/ EndRefineLocal \/ RefineGlobal \/ EndRefineGlobal
  \/ CrashOnUnset
  \/ NoTagSolution \/ FinishTag
  \/ StartConstrained \/ SkipConstrained \/ AcceptConstrained
  \/ Report
  \/ Exited

Spec == Init /\ [][Next]_vars

\* main() is one thread that never waits: an enabled step is taken.
FairSpec == Spec /\ WF_vars(Next)

-----------------------------------------------------------------------------
(* What must hold.                                                         *)

Phases == {"start", "startData", "search", "refineLocal", "refineGlobal",
           "wrapUp", "constrain", "done", "aborted", "crashed"}

MaybeWire == Wires \cup {Unset}

ResultType ==
  [design : AnyDesign \cup {Unset}, local : MaybeWire, global : MaybeWire,
   cost : Costs]

\* The type invariant of main()'s variables.
TypeOK ==
  /\ config \in ConfigType
  /\ physics \in PhysicsType
  /\ phase \in Phases
  /\ mem \in Memory
  /\ cursor \in Nat
  /\ localWire \in MaybeWire
  /\ globalWire \in MaybeWire
  /\ best \in [Memory -> [Targets -> ResultType]]
  /\ limit \in [Targets -> Int]
  /\ numSolution \in Nat
  /\ csv \in Seq(ResultType)
  /\ printed \in {"nothing", "noTag", "noSolution", "best", "pruned", "notACache",
                  "exploration"}
  /\ offered \in [Memory -> [Targets -> SUBSET ResultType]]

\* Control facts: the searches run with the basic wires, the refinements have
\* a legal loop index, the constrained search is of the data array.
Located ==
  /\ phase \in {"search", "constrain"} =>
       localWire = BasicLocal[mem] /\ globalWire = BasicGlobal[mem]
  /\ phase \in {"refineLocal", "refineGlobal"} => cursor >= 1
  /\ phase = "constrain" => mem = "data"

\* The organisation and the wires of a result are written together.
Written(m, r) ==
  \/ r.design = Unset /\ r.cost = WorstCost
  \/ r.design \in Design(m) /\ r.local \in Wires /\ r.global \in Wires

AllWritten == \A m \in Memory, t \in Targets : Written(m, best[m][t])

\* No bank that passes the validity tests has a metric of 1e41 or more (or,
\* in the code, a NaN).
FiniteCosts ==
  \A m \in Memory : \A p \in AnyDesign \X Wires \X Wires :
    physics.outcome[m][p] # Invalid =>
      \A t \in Targets : physics.outcome[m][p][t] < Worst

\* A result that carries metrics carries the organisation and the wires that
\* produce exactly these metrics: the copies made by UPDATE_BEST and by
\* TRY_AND_UPDATE are taken while localWire and globalWire are the wires the
\* bank was calculated with.  A reader of the report can rebuild the bank.
Genuine(m, r) ==
  r.cost # WorstCost =>
    /\ r.design \in Design(m)
    /\ r.local \in Wires /\ r.global \in Wires
    /\ r.cost = Outcome(m, r.design, r.local, r.global)

BestIsGenuine == \A m \in Memory, t \in Targets : Genuine(m, best[m][t])

\* Each result is the best, for its own target, of everything it was compared
\* with since its last reset and that satisfies all eight limits.
BestIsOptimal ==
  \A m \in Memory, t \in Targets :
    /\ best[m][t].cost[t] <= Worst
    /\ \A x \in offered[m][t] :
         WithinLimit(x.cost, LimitOf(m)) => best[m][t].cost[t] <= x.cost[t]

\* The metrics of a result were offered to it and satisfied its limits.
BestWasOffered ==
  \A m \in Memory, t \in Targets :
    \/ best[m][t].cost = WorstCost
    \/ /\ best[m][t] \in offered[m][t]
       /\ WithinLimit(best[m][t].cost, LimitOf(m))

\* The inductive invariant of the exploration.
ExplorerInv ==
  TypeOK /\ Located /\ AllWritten /\ BestIsGenuine /\ BestIsOptimal
  /\ BestWasOffered

\* After the first search of an array no valid design with the basic wires
\* beats a result, also not after the refinements that follow.
SearchIsExhaustive ==
  phase \in {"refineLocal", "refineGlobal", "wrapUp"} =>
    \A d \in Design(mem), t \in Targets :
      LET x == Trial(mem, d, BasicLocal[mem], BasicGlobal[mem])
      IN  IsValid(mem, d, x.local, x.global) /\ WithinLimit(x.cost, NoLimit)
            => best[mem][t].cost[t] <= x.cost[t]

\* When both refinements are over no global wire of the refined range, put in
\* place of the one a result has, improves that result for its target.  (The
\* local wire has no such guarantee: it was chosen before the global wire.)
GlobalWireIsStationary ==
  phase = "wrapUp" /\ numSolution > 0 =>
    \A t \in Targets : \A k \in 1 .. Len(GlobalRange[mem]) :
      LET r == best[mem][t]
          x == Trial(mem, r.design, r.local, GlobalRange[mem][k])
      IN  r.design # Unset /\ WithinLimit(x.cost, LimitOf(mem))
            => r.cost[t] <= x.cost[t]

\* The capacity of a result was checked against the capacity asked for, also
\* when the result comes from a refinement, which does not check it.
BestFits ==
  FiniteCosts => \A m \in Memory, t \in Targets :
    best[m][t].cost # WorstCost => best[m][t].design \in physics.fits[m]

\* What is reported is a bank somebody evaluated, that has the capacity asked
\* for and meets every constraint; for a cache there is a tag array with it.
\* The file of a full exploration has a row for each solution counted.
ReportIsSound ==
  /\ printed = "best" /\ FiniteCosts =>
       LET r == best["data"][config.target]
       IN  /\ r.cost # WorstCost
           /\ r.design \in physics.fits["data"]
           /\ WithinLimit(r.cost, LimitOf("data"))
           /\ config.cache => best["tag"][config.target].cost # WorstCost
  /\ printed = "exploration" => Len(csv) >= numSolution

\* With constraints, the report is the best design with basic wires that
\* meets them all, and it is missing only if there is none.
ConstrainedIsOptimal ==
  phase = "done" /\ mem = "data" /\ IsConstrained =>
    \A d \in Design("data") :
      LET x == Trial("data", d, BasicLocal["data"], BasicGlobal["data"])
      IN  IsValid("data", d, x.local, x.global) /\ WithinLimit(x.cost, limit)
            => /\ printed = "best"
               /\ best["data"][config.target].cost[config.target]
                    <= x.cost[config.target] \/ x.cost[config.target] >= Worst

\* A result only improves for its target, except for the one reset.
OnlyImproves ==
  [][\/ phase = "wrapUp" /\ phase' = "constrain"
     \/ \A m \in Memory, t \in Targets :
          best'[m][t].cost[t] <= best[m][t].cost[t]]_vars

\* The exploration ends.
Terminates == <>Stopped

-----------------------------------------------------------------------------
(* The abstract specification.                                             *)

AllSlots == Memory \X Targets

\* The abstract keeper of the exploration's results: an offer counts when it
\* satisfies the limits of the array.
Keeper == INSTANCE BestKeeper WITH
  Slots <- AllSlots,
  offers <- [s \in AllSlots |->
     {x.cost[s[2]] : x \in {y \in offered[s[1]][s[2]] :
                              WithinLimit(y.cost, LimitOf(s[1]))}}],
  kept <- [s \in AllSlots |-> best[s[1]][s[2]].cost[s[2]]]

\* The exploration implements the keeper.
KeeperRefinement == Keeper!KeeperSpec

-----------------------------------------------------------------------------
(* What the program says and does not do.                                  *)

\* "No valid solutions." is printed only if the space that was explored holds
\* no bank that meets the constraints.
NoSolutionMeansNone ==
  printed = "noSolution" /\ IsConstrained =>
    ~\E d \in Design("data"),
        l \in {LocalRange["data"][i] : i \in DOMAIN LocalRange["data"]},
        g \in {GlobalRange["data"][i] : i \in DOMAIN GlobalRange["data"]} :
       /\ IsValid("data", d, l, g) /\ d \in physics.fits["data"]
       /\ WithinLimit(Outcome("data", d, l, g), limit)
=============================================================================
