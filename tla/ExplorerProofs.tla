--------------------------- MODULE ExplorerProofs ---------------------------
(***************************************************************************)
(* Proofs about Explorer for every number of designs, wires and targets,   *)
(* every circuit model and every configuration: the inductive invariant    *)
(* ExplorerInv, what follows from it, that the exploration implements      *)
(* BestKeeper, what it has searched when it ends, what it reports, and     *)
(* which results its refinements leave.                                    *)
(***************************************************************************)
EXTENDS Explorer, SequenceTheorems, TLAPS

USE ResultAssumption, SpaceAssumption

\* The results that evaluating a bank of array m can produce.
Evaluated(m) == {Trial(m, d, l, g) : d \in Design(m), l \in Wires, g \in Wires}

-----------------------------------------------------------------------------
\* compareAndUpdate returns one of its two arguments, never increases the
\* cost for its target, and leaves nothing admissible that beats it.
LEMMA CompareAndUpdateFacts ==
  ASSUME NEW old \in ResultType, NEW new \in ResultType, NEW t \in Targets,
         NEW lim \in [Targets -> Int]
  PROVE  LET r == CompareAndUpdate(old, new, lim, t)
         IN  /\ r \in {old, new}
             /\ r \in ResultType
             /\ r.cost[t] <= old.cost[t]
             /\ WithinLimit(new.cost, lim) => r.cost[t] <= new.cost[t]
             /\ r # old => WithinLimit(r.cost, lim)
<1>1. old.cost[t] \in Nat /\ new.cost[t] \in Nat
  BY DEF ResultType, Costs
<1>2. QED
  BY <1>1 DEF CompareAndUpdate

\* A trial is a well-formed result with its organisation and wires written,
\* and it is genuine.
LEMMA TrialFacts ==
  ASSUME physics \in PhysicsType, NEW m \in Memory,
         NEW d \in Design(m), NEW l \in Wires, NEW g \in Wires
  PROVE  LET x == Trial(m, d, l, g)
         IN  /\ x \in ResultType
             /\ Written(m, x)
             /\ Genuine(m, x)
<1>1. d \in AnyDesign
  BY DEF AnyDesign, Memory
<1>2. physics.outcome[m][<<d, l, g>>] \in Costs \cup {Invalid}
  <2>1. physics.outcome \in
          [Memory -> [AnyDesign \X Wires \X Wires -> Costs \cup {Invalid}]]
    BY DEF PhysicsType
  <2>2. <<d, l, g>> \in AnyDesign \X Wires \X Wires
    BY <1>1
  <2>3. QED
    BY <2>1, <2>2
<1>3. WorstCost \in Costs
  BY DEF WorstCost, Costs
<1>4. QED
  BY <1>1, <1>2, <1>3 DEF Trial, Outcome, ResultType, MaybeWire, Written, Genuine

\* What one round of comparisons preserves: the parts of the invariant that
\* speak of the results.
LEMMA RecordPreserves ==
  ASSUME ExplorerInv, NEW m \in Memory,
         NEW trials \in [Targets -> Evaluated(m)],
         Record(m, trials), UNCHANGED <<physics, limit>>
  PROVE  /\ best' \in [Memory -> [Targets -> ResultType]]
         /\ offered' \in [Memory -> [Targets -> SUBSET ResultType]]
         /\ AllWritten' /\ BestIsGenuine' /\ BestIsOptimal' /\ BestWasOffered'
         /\ \A k \in Memory, t \in Targets :
              /\ best'[k][t].cost[t] <= best[k][t].cost[t]
              /\ offered[k][t] \subseteq offered'[k][t]
<1> DEFINE new(t) == CompareAndUpdate(best[m][t], trials[t], LimitOf(m), t)
<1>1. /\ best \in [Memory -> [Targets -> ResultType]]
      /\ offered \in [Memory -> [Targets -> SUBSET ResultType]]
      /\ physics \in PhysicsType
      /\ \A k \in Memory : LimitOf(k) \in [Targets -> Int]
  BY DEF ExplorerInv, TypeOK, LimitOf, NoLimit
<1>2. ASSUME NEW t \in Targets
      PROVE  trials[t] \in ResultType /\ Written(m, trials[t]) /\ Genuine(m, trials[t])
  <2>1. PICK d \in Design(m), l \in Wires, g \in Wires : trials[t] = Trial(m, d, l, g)
    BY DEF Evaluated
  <2>2. QED
    BY <2>1, <1>1, TrialFacts
<1>3. ASSUME NEW t \in Targets
      PROVE  /\ new(t) \in {best[m][t], trials[t]}
             /\ new(t) \in ResultType
             /\ new(t).cost[t] <= best[m][t].cost[t]
             /\ WithinLimit(trials[t].cost, LimitOf(m)) => new(t).cost[t] <= trials[t].cost[t]
             /\ new(t) # best[m][t] => WithinLimit(new(t).cost, LimitOf(m))
  <2>1. best[m][t] \in ResultType /\ LimitOf(m) \in [Targets -> Int]
    BY <1>1
  <2>2. trials[t] \in ResultType
    BY <1>2
  <2>3. QED
    BY <2>1, <2>2, CompareAndUpdateFacts, Zenon
<1>4. ASSUME NEW k \in Memory, NEW t \in Targets
      PROVE  /\ best'[k][t] = IF k = m THEN new(t) ELSE best[k][t]
             /\ offered'[k][t] = IF k = m THEN offered[k][t] \cup {trials[t]}
                                 ELSE offered[k][t]
  BY <1>1 DEF Record
<1> HIDE DEF new
<1>5. best' \in [Memory -> [Targets -> ResultType]]
  BY <1>1, <1>3 DEF Record, new
<1>6. offered' \in [Memory -> [Targets -> SUBSET ResultType]]
  BY <1>1, <1>2 DEF Record
<1>7. \A k \in Memory : LimitOf(k)' = LimitOf(k)
  BY DEF LimitOf
<1>8. AllWritten'
  <2> SUFFICES ASSUME NEW k \in Memory, NEW t \in Targets
               PROVE  Written(k, best'[k][t])
    BY DEF AllWritten
  <2>1. Written(k, best[k][t])
    BY DEF ExplorerInv, AllWritten
  <2>2. best'[k][t] = best[k][t] \/ (k = m /\ best'[k][t] = trials[t])
    BY <1>3, <1>4
  <2>3. QED
    BY <2>1, <2>2, <1>2
<1>9. BestIsGenuine'
  <2>1. \A k \in Memory : \A r : Genuine(k, r)' <=> Genuine(k, r)
    BY DEF Genuine, Outcome
  <2> SUFFICES ASSUME NEW k \in Memory, NEW t \in Targets
               PROVE  Genuine(k, best'[k][t])
    BY <2>1 DEF BestIsGenuine, Genuine, Outcome
  <2>2. Genuine(k, best[k][t])
    BY DEF ExplorerInv, BestIsGenuine
  <2>3. best'[k][t] = best[k][t] \/ (k = m /\ best'[k][t] = trials[t])
    BY <1>3, <1>4
  <2>4. QED
    BY <2>2, <2>3, <1>2
<1>10. BestIsOptimal'
  <2> SUFFICES ASSUME NEW k \in Memory, NEW t \in Targets
               PROVE  /\ best'[k][t].cost[t] <= Worst
                      /\ \A x \in offered'[k][t] :
                           WithinLimit(x.cost, LimitOf(k)) =>
                             best'[k][t].cost[t] <= x.cost[t]
    BY <1>7 DEF BestIsOptimal
  <2>1. /\ best[k][t].cost[t] <= Worst
        /\ \A x \in offered[k][t] :
             WithinLimit(x.cost, LimitOf(k)) => best[k][t].cost[t] <= x.cost[t]
    BY DEF ExplorerInv, BestIsOptimal
  <2>2. /\ best[k][t].cost[t] \in Nat /\ best'[k][t].cost[t] \in Nat
        /\ \A x \in offered'[k][t] : x.cost[t] \in Nat
    <3>1. /\ best[k][t] \in ResultType /\ best'[k][t] \in ResultType
          /\ offered'[k][t] \subseteq ResultType
      BY <1>1, <1>5, <1>6
    <3>2. \A r \in ResultType : r.cost[t] \in Nat
      BY DEF ResultType, Costs
    <3>3. QED
      BY <3>1, <3>2
  <2>3. CASE k # m
    BY <2>1, <2>3, <1>4
  <2>4. CASE k = m
    <3>1. best'[k][t].cost[t] <= best[k][t].cost[t]
      BY <2>4, <1>3, <1>4
    <3>2. best'[k][t].cost[t] <= Worst
      BY <2>1, <2>2, <3>1
    <3>3. ASSUME NEW x \in offered'[k][t], WithinLimit(x.cost, LimitOf(k))
          PROVE  best'[k][t].cost[t] <= x.cost[t]
      <4>1. CASE x = trials[t]
        BY <2>4, <3>3, <4>1, <1>3, <1>4
      <4>2. CASE x \in offered[k][t]
        BY <2>1, <2>2, <3>1, <3>3, <4>2
      <4>3. offered'[k][t] = offered[k][t] \cup {trials[t]}
        BY <2>4, <1>4
      <4>4. QED
        BY <4>1, <4>2, <4>3
    <3>4. QED
      BY <3>2, <3>3
  <2>5. QED
    BY <2>3, <2>4
<1>11. BestWasOffered'
  <2> SUFFICES ASSUME NEW k \in Memory, NEW t \in Targets
               PROVE  \/ best'[k][t].cost = WorstCost
                      \/ /\ best'[k][t] \in offered'[k][t]
                         /\ WithinLimit(best'[k][t].cost, LimitOf(k))
    BY <1>7 DEF BestWasOffered
  <2>1. \/ best[k][t].cost = WorstCost
        \/ best[k][t] \in offered[k][t] /\ WithinLimit(best[k][t].cost, LimitOf(k))
    BY DEF ExplorerInv, BestWasOffered
  <2>2. \/ best'[k][t] = best[k][t] /\ offered[k][t] \subseteq offered'[k][t]
        \/ /\ k = m /\ best'[k][t] = trials[t] /\ trials[t] \in offered'[k][t]
           /\ WithinLimit(best'[k][t].cost, LimitOf(k))
    BY <1>3, <1>4
  <2>3. QED
    BY <2>1, <2>2
<1>12. ASSUME NEW k \in Memory, NEW t \in Targets
       PROVE  /\ best'[k][t].cost[t] <= best[k][t].cost[t]
              /\ offered[k][t] \subseteq offered'[k][t]
  <2>1. CASE k = m
    BY <2>1, <1>3, <1>4
  <2>2. CASE k # m
    <3>1. best[k][t].cost[t] \in Nat
      BY <1>1 DEF ResultType, Costs
    <3>2. best'[k][t] = best[k][t] /\ offered'[k][t] = offered[k][t]
      BY <2>2, <1>4
    <3>3. QED
      BY <3>1, <3>2
  <2>3. QED
    BY <2>1, <2>2
<1>13. QED
  BY <1>5, <1>6, <1>8, <1>9, <1>10, <1>11, <1>12

-----------------------------------------------------------------------------
(* The steps, by what they do to the results.                              *)

\* A step that leaves results, limits and history alone.
Leaves == UNCHANGED <<physics, best, limit, offered>>

\* A step that compares the results of array m with trials of that array.
Records(m) ==
  /\ UNCHANGED <<physics, limit>>
  /\ \E trials \in [Targets -> Evaluated(m)] : Record(m, trials)

\* Organisations are numbers of the loop, never the unset value.
LEMMA DesignIsSet == \A m \in Memory : Unset \notin Design(m)
  BY DEF AnyDesign, Memory

\* The search wires are legal wires.
LEMMA BasicWires ==
  \A m \in Memory : BasicLocal[m] \in Wires /\ BasicGlobal[m] \in Wires
  OBVIOUS

\* Under the invariant, the eight evaluations of a local-wire refinement are
\* evaluations of banks of the array under design.
LEMMA LocalTrials ==
  ASSUME ExplorerInv, RefineLocal
  PROVE  /\ Records(mem)
         /\ localWire' \in Wires /\ globalWire' \in Wires
         /\ csv' \in Seq(ResultType)
<1> DEFINE w == LocalRange[mem][cursor]
           trials(junk) ==
             [t \in Targets |->
               IF t \in UnsetTargets(mem) THEN Trial(mem, junk[t][1], w, junk[t][2])
               ELSE Trial(mem, best[mem][t].design, w, best[mem][t].global)]
<1>1. PICK junk \in [UnsetTargets(mem) -> Design(mem) \X Wires] :
        TryAndUpdate(trials(junk)) /\ globalWire' = trials(junk)[LastTarget].global
  BY DEF RefineLocal
<1>2. mem \in Memory /\ physics \in PhysicsType /\ csv \in Seq(ResultType)
  BY DEF ExplorerInv, TypeOK
<1>3. w \in Wires
  <2>1. cursor \in 1 .. Len(LocalRange[mem])
    BY DEF ExplorerInv, TypeOK, Located, RefineLocal
  <2>2. LocalRange[mem] \in Seq(Wires)
    BY <1>2
  <2>3. QED
    BY <2>1, <2>2
<1>4. ASSUME NEW t \in Targets
      PROVE  \E d \in Design(mem), g \in Wires : trials(junk)[t] = Trial(mem, d, w, g)
  <2>1. CASE t \in UnsetTargets(mem)
    <3>1. junk[t] \in Design(mem) \X Wires
      BY <2>1
    <3>2. junk[t][1] \in Design(mem) /\ junk[t][2] \in Wires
      BY <3>1
    <3>3. QED
      BY <2>1, <3>2
  <2>2. CASE t \notin UnsetTargets(mem)
    <3>1. Written(mem, best[mem][t])
      BY <1>2 DEF ExplorerInv, AllWritten
    <3>2. best[mem][t].design \in Design(mem) /\ best[mem][t].global \in Wires
      BY <2>2, <3>1 DEF UnsetTargets, Written
    <3>3. QED
      BY <2>2, <3>2
  <2>3. QED
    BY <2>1, <2>2
<1> DEFINE ts == trials(junk)
<1>5. ts \in [Targets -> Evaluated(mem)]
  BY <1>3, <1>4 DEF Evaluated
<1>6. ts[LastTarget] \in ResultType /\ ts[LastTarget].global \in Wires
  <2>1. PICK d \in Design(mem), g \in Wires : ts[LastTarget] = Trial(mem, d, w, g)
    BY <1>4
  <2>2. Trial(mem, d, w, g) \in ResultType
    BY <1>2, <1>3, TrialFacts
  <2>3. Trial(mem, d, w, g).global = g
    BY DEF Trial
  <2>4. QED
    BY <2>1, <2>2, <2>3
<1> HIDE DEF trials, ts
<1>7. Record(mem, ts) /\ UNCHANGED <<physics, limit>>
  BY <1>1 DEF ts, TryAndUpdate, RefineLocal, rigid
<1>8. localWire' = w /\ globalWire' = ts[LastTarget].global
  BY <1>1 DEF ts, RefineLocal
<1>9. csv' \in {csv, Append(csv, ts[LastTarget])}
  BY <1>1 DEF ts, TryAndUpdate
<1>10. csv' \in Seq(ResultType)
  <2>1. Append(csv, ts[LastTarget]) \in Seq(ResultType)
    BY <1>2, <1>6, AppendProperties
  <2>2. QED
    BY <2>1, <1>2, <1>9
<1>11. Records(mem)
  BY <1>5, <1>7 DEF Records
<1>12. QED
  BY <1>3, <1>6, <1>8, <1>10, <1>11

\* Under the invariant, the eight evaluations of a global-wire refinement are
\* evaluations of banks of the array under design.
LEMMA GlobalTrials ==
  ASSUME ExplorerInv, RefineGlobal
  PROVE  /\ Records(mem)
         /\ localWire' \in Wires /\ globalWire' \in Wires
         /\ csv' \in Seq(ResultType)
<1> DEFINE w == GlobalRange[mem][cursor]
           trials(junk) ==
             [t \in Targets |->
               IF t \in UnsetTargets(mem) THEN Trial(mem, junk[t][1], junk[t][2], w)
               ELSE Trial(mem, best[mem][t].design, best[mem][t].local, w)]
<1>1. PICK junk \in [UnsetTargets(mem) -> Design(mem) \X Wires] :
        TryAndUpdate(trials(junk)) /\ localWire' = trials(junk)[LastTarget].local
  BY DEF RefineGlobal
<1>2. mem \in Memory /\ physics \in PhysicsType /\ csv \in Seq(ResultType)
  BY DEF ExplorerInv, TypeOK
<1>3. w \in Wires
  <2>1. cursor \in 1 .. Len(GlobalRange[mem])
    BY DEF ExplorerInv, TypeOK, Located, RefineGlobal
  <2>2. GlobalRange[mem] \in Seq(Wires)
    BY <1>2
  <2>3. QED
    BY <2>1, <2>2
<1>4. ASSUME NEW t \in Targets
      PROVE  \E d \in Design(mem), l \in Wires : trials(junk)[t] = Trial(mem, d, l, w)
  <2>1. CASE t \in UnsetTargets(mem)
    <3>1. junk[t] \in Design(mem) \X Wires
      BY <2>1
    <3>2. junk[t][1] \in Design(mem) /\ junk[t][2] \in Wires
      BY <3>1
    <3>3. QED
      BY <2>1, <3>2
  <2>2. CASE t \notin UnsetTargets(mem)
    <3>1. Written(mem, best[mem][t])
      BY <1>2 DEF ExplorerInv, AllWritten
    <3>2. best[mem][t].design \in Design(mem) /\ best[mem][t].local \in Wires
      BY <2>2, <3>1 DEF UnsetTargets, Written
    <3>3. QED
      BY <2>2, <3>2
  <2>3. QED
    BY <2>1, <2>2
<1> DEFINE ts == trials(junk)
<1>5. ts \in [Targets -> Evaluated(mem)]
  BY <1>3, <1>4 DEF Evaluated
<1>6. ts[LastTarget] \in ResultType /\ ts[LastTarget].local \in Wires
  <2>1. PICK d \in Design(mem), l \in Wires : ts[LastTarget] = Trial(mem, d, l, w)
    BY <1>4
  <2>2. Trial(mem, d, l, w) \in ResultType
    BY <1>2, <1>3, TrialFacts
  <2>3. Trial(mem, d, l, w).local = l
    BY DEF Trial
  <2>4. QED
    BY <2>1, <2>2, <2>3
<1> HIDE DEF trials, ts
<1>7. Record(mem, ts) /\ UNCHANGED <<physics, limit>>
  BY <1>1 DEF ts, TryAndUpdate, RefineGlobal, rigid
<1>8. globalWire' = w /\ localWire' = ts[LastTarget].local
  BY <1>1 DEF ts, RefineGlobal
<1>9. csv' \in {csv, Append(csv, ts[LastTarget])}
  BY <1>1 DEF ts, TryAndUpdate
<1>10. csv' \in Seq(ResultType)
  <2>1. Append(csv, ts[LastTarget]) \in Seq(ResultType)
    BY <1>2, <1>6, AppendProperties
  <2>2. QED
    BY <2>1, <1>2, <1>9
<1>11. Records(mem)
  BY <1>5, <1>7 DEF Records
<1>12. QED
  BY <1>3, <1>6, <1>8, <1>10, <1>11

\* An accepted design is offered to the eight results of its array.
LEMMA AcceptedTrial ==
  ASSUME ExplorerInv, NEW m \in Memory, cursor \in Design(m),
         localWire \in Wires, globalWire \in Wires,
         UpdateBest(m, Trial(m, cursor, localWire, globalWire)),
         UNCHANGED <<physics, limit>>
  PROVE  Records(m) /\ Trial(m, cursor, localWire, globalWire) \in ResultType
<1> DEFINE trials == [t \in Targets |-> Trial(m, cursor, localWire, globalWire)]
<1>1. trials \in [Targets -> Evaluated(m)]
  BY DEF Evaluated
<1>2. Record(m, trials)
  BY DEF UpdateBest
<1>3. Trial(m, cursor, localWire, globalWire) \in ResultType
  BY TrialFacts DEF ExplorerInv, TypeOK
<1>4. QED
  BY <1>1, <1>2, <1>3 DEF Records

\* Under the invariant, a search visits legal designs with legal wires.
LEMMA SearchWires ==
  ASSUME ExplorerInv, phase \in {"search", "constrain"}
  PROVE  mem \in Memory /\ localWire \in Wires /\ globalWire \in Wires
BY BasicWires DEF ExplorerInv, TypeOK, Located

LEMMA AcceptDesignRecords ==
  ASSUME ExplorerInv, AcceptDesign
  PROVE  Records(mem) /\ csv' \in Seq(ResultType)
<1> DEFINE x == Trial(mem, cursor, localWire, globalWire)
<1>1. mem \in Memory /\ localWire \in Wires /\ globalWire \in Wires
  BY SearchWires DEF AcceptDesign, InSearch
<1>2. UpdateBest(mem, x) /\ csv' \in {csv, Append(csv, x)}
  BY DEF AcceptDesign
<1>3. Records(mem) /\ x \in ResultType
  BY <1>1, <1>2, AcceptedTrial DEF AcceptDesign, InSearch, rigid
<1>4. csv \in Seq(ResultType)
  BY DEF ExplorerInv, TypeOK
<1>5. Append(csv, x) \in Seq(ResultType)
  BY <1>3, <1>4, AppendProperties
<1>6. QED
  BY <1>2, <1>3, <1>4, <1>5

LEMMA AcceptConstrainedRecords ==
  ASSUME ExplorerInv, AcceptConstrained
  PROVE  Records("data")
<1>1. localWire \in Wires /\ globalWire \in Wires
  BY SearchWires DEF AcceptConstrained
<1>2. QED
  BY <1>1, AcceptedTrial DEF AcceptConstrained, rigid, Memory

\* Every step leaves the results alone, compares those of one array with
\* evaluations of that array, or is the reset of the data results.
LEMMA StepKinds ==
  ASSUME ExplorerInv, [Next]_vars
  PROVE  Leaves \/ (\E m \in Memory : Records(m)) \/ StartConstrained
<1>1. CASE AcceptDesign
  BY <1>1, AcceptDesignRecords DEF ExplorerInv, TypeOK
<1>2. CASE AcceptConstrained
  BY <1>2, AcceptConstrainedRecords DEF Memory
<1>3. CASE RefineLocal
  BY <1>3, LocalTrials DEF ExplorerInv, TypeOK
<1>4. CASE RefineGlobal
  BY <1>4, GlobalTrials DEF ExplorerInv, TypeOK
<1>5. CASE StartConstrained
  BY <1>5
<1>6. CASE StartTag \/ StartData \/ SkipDesign \/ CapacityViolation \/ EndSearch
           \/ EndRefineLocal \/ EndRefineGlobal \/ CrashOnUnset \/ NoTagSolution
           \/ FinishTag \/ SkipConstrained \/ Report \/ Exited \/ UNCHANGED vars
  BY <1>6 DEF Leaves, rigid, vars, StartTag, StartData, SkipDesign,
     CapacityViolation, EndSearch, EndRefineLocal, EndRefineGlobal, CrashOnUnset,
     NoTagSolution, FinishTag, SkipConstrained, Report, Exited
<1>7. QED
  BY <1>1, <1>2, <1>3, <1>4, <1>5, <1>6 DEF Next

-----------------------------------------------------------------------------
(* The invariant.                                                          *)

ResultParts ==
  /\ best \in [Memory -> [Targets -> ResultType]]
  /\ offered \in [Memory -> [Targets -> SUBSET ResultType]]
  /\ AllWritten /\ BestIsGenuine /\ BestIsOptimal /\ BestWasOffered

\* APPLY_LIMIT and reset() re-establish every statement about the data
\* results and do not touch those of the tag results.
LEMMA ResetPreserves ==
  ASSUME ExplorerInv, StartConstrained
  PROVE  ResultParts' /\ limit' \in [Targets -> Int]
<1>1. /\ best \in [Memory -> [Targets -> ResultType]]
      /\ offered \in [Memory -> [Targets -> SUBSET ResultType]]
      /\ config.slack \in [Targets -> Nat]
  BY DEF ExplorerInv, TypeOK, ConfigType
<1>2. /\ \A t \in Targets : best'["data"][t] = [best["data"][t] EXCEPT !.cost = WorstCost]
      /\ \A t \in Targets : best'["tag"][t] = best["tag"][t]
      /\ \A t \in Targets : offered'["data"][t] = {}
      /\ \A t \in Targets : offered'["tag"][t] = offered["tag"][t]
  BY <1>1 DEF StartConstrained, ResetResult, Memory
<1>3. WorstCost \in Costs
  BY DEF WorstCost, Costs
<1>4. \A t \in Targets : best'["data"][t] \in ResultType /\ best'["data"][t].cost = WorstCost
  <2> SUFFICES ASSUME NEW t \in Targets
               PROVE  best'["data"][t] \in ResultType /\ best'["data"][t].cost = WorstCost
    OBVIOUS
  <2>1. best["data"][t] \in ResultType
    BY <1>1 DEF Memory
  <2>2. QED
    BY <2>1, <1>2, <1>3 DEF ResultType
<1>5. best' \in [Memory -> [Targets -> ResultType]]
  BY <1>1, <1>4 DEF StartConstrained, ResetResult, Memory
<1>6. offered' \in [Memory -> [Targets -> SUBSET ResultType]]
  BY <1>1 DEF StartConstrained
<1>7. limit' \in [Targets -> Int]
  <2>1. \A t \in Targets : best["data"][t].cost[t] \in Nat /\ config.slack[t] \in Nat
    <3>1. \A t \in Targets : best["data"][t] \in ResultType
      BY <1>1 DEF Memory
    <3>2. \A r \in ResultType, t \in Targets : r.cost[t] \in Nat
      BY DEF ResultType, Costs
    <3>3. QED
      BY <1>1, <3>1, <3>2
  <2>2. ASSUME NEW t \in Targets
        PROVE  (best["data"][t].cost[t] * (100 + config.slack[t])) \div 100 \in Int
    BY <2>1
  <2>3. QED
    BY <2>2 DEF StartConstrained, Allowed
<1>8. /\ UNCHANGED physics
      /\ LimitOf("tag")' = LimitOf("tag")
  BY DEF StartConstrained, rigid, LimitOf
<1>9. AllWritten'
  <2> SUFFICES ASSUME NEW t \in Targets
               PROVE  Written("data", best'["data"][t]) /\ Written("tag", best'["tag"][t])
    BY DEF AllWritten, Memory
  <2>1. best["data"][t] \in ResultType
    BY <1>1 DEF Memory
  <2>2. Written("data", best["data"][t]) /\ Written("tag", best["tag"][t])
    BY DEF ExplorerInv, AllWritten, Memory
  <2>3. QED
    BY <2>1, <2>2, <1>2 DEF Written, ResultType
<1>10. BestIsGenuine'
  <2>1. \A k \in Memory : \A r : Genuine(k, r)' <=> Genuine(k, r)
    BY <1>8 DEF Genuine, Outcome
  <2> SUFFICES ASSUME NEW k \in Memory, NEW t \in Targets
               PROVE  Genuine(k, best'[k][t])
    BY <2>1 DEF BestIsGenuine, Genuine, Outcome
  <2>2. CASE k = "data"
    BY <2>2, <1>4 DEF Genuine
  <2>3. CASE k = "tag"
    <3>1. Genuine("tag", best["tag"][t])
      BY DEF ExplorerInv, BestIsGenuine, Memory
    <3>2. QED
      BY <2>3, <3>1, <1>2
  <2>4. QED
    BY <2>2, <2>3 DEF Memory
<1>11. BestIsOptimal'
  <2> SUFFICES ASSUME NEW m \in Memory, NEW t \in Targets
               PROVE  /\ best'[m][t].cost[t] <= Worst
                      /\ \A x \in offered'[m][t] :
                           WithinLimit(x.cost, LimitOf(m)') => best'[m][t].cost[t] <= x.cost[t]
    BY DEF BestIsOptimal
  <2>1. CASE m = "data"
    <3>1. best'[m][t].cost[t] = Worst /\ offered'[m][t] = {}
      BY <2>1, <1>2, <1>4 DEF WorstCost
    <3>2. QED
      BY <3>1
  <2>2. CASE m = "tag"
    BY <2>2, <1>2, <1>8 DEF ExplorerInv, BestIsOptimal
  <2>3. QED
    BY <2>1, <2>2 DEF Memory
<1>12. BestWasOffered'
  <2> SUFFICES ASSUME NEW m \in Memory, NEW t \in Targets
               PROVE  \/ best'[m][t].cost = WorstCost
                      \/ /\ best'[m][t] \in offered'[m][t]
                         /\ WithinLimit(best'[m][t].cost, LimitOf(m)')
    BY DEF BestWasOffered
  <2>1. CASE m = "data"
    BY <2>1, <1>4
  <2>2. CASE m = "tag"
    <3>1. \/ best["tag"][t].cost = WorstCost
          \/ /\ best["tag"][t] \in offered["tag"][t]
             /\ WithinLimit(best["tag"][t].cost, LimitOf("tag"))
      BY DEF ExplorerInv, BestWasOffered, Memory
    <3>2. QED
      BY <2>2, <3>1, <1>2, <1>8
  <2>3. QED
    BY <2>1, <2>2 DEF Memory
<1>13. QED
  BY <1>5, <1>6, <1>7, <1>9, <1>10, <1>11, <1>12 DEF ResultParts

\* Every step preserves the statements about the results and the limits.
LEMMA ResultStep ==
  ASSUME ExplorerInv, [Next]_vars
  PROVE  ResultParts' /\ limit' \in [Targets -> Int]
<1>1. limit \in [Targets -> Int]
  BY DEF ExplorerInv, TypeOK
<1>2. CASE Leaves
  BY <1>1, <1>2 DEF Leaves, ExplorerInv, TypeOK, ResultParts, AllWritten, BestIsGenuine,
     Genuine, Outcome, BestIsOptimal, BestWasOffered, LimitOf
<1>3. CASE \E m \in Memory : Records(m)
  <2>1. PICK m \in Memory : Records(m)
    BY <1>3
  <2>2. PICK trials \in [Targets -> Evaluated(m)] :
          Record(m, trials) /\ UNCHANGED <<physics, limit>>
    BY <2>1 DEF Records
  <2>3. QED
    BY <1>1, <2>2, RecordPreserves DEF ResultParts
<1>4. CASE StartConstrained
  BY <1>4, ResetPreserves
<1>5. QED
  BY <1>2, <1>3, <1>4, StepKinds

\* The initial states satisfy the invariant.
LEMMA InitInv == Init => ExplorerInv
<1> SUFFICES ASSUME Init PROVE ExplorerInv
  OBVIOUS
<1>1. FreshResult \in ResultType /\ FreshResult.cost = WorstCost /\ FreshResult.design = Unset
  BY DEF FreshResult, ResultType, MaybeWire, WorstCost, Costs
<1>2. \A m \in Memory, t \in Targets : best[m][t] = FreshResult /\ offered[m][t] = {}
  BY DEF Init
<1>3. TypeOK
  BY <1>1, PhysicsAssumption, ConfigAssumption
  DEF Init, TypeOK, Phases, Memory, MaybeWire, NoLimit
<1>4. Located
  BY DEF Init, Located
<1>5. AllWritten
  BY <1>1, <1>2 DEF AllWritten, Written
<1>6. BestIsGenuine
  BY <1>1, <1>2 DEF BestIsGenuine, Genuine
<1>7. BestIsOptimal
  <2>1. \A t \in Targets : FreshResult.cost[t] = Worst
    BY <1>1 DEF WorstCost
  <2>2. \A m \in Memory, t \in Targets :
          best[m][t].cost[t] = Worst /\ offered[m][t] = {}
    BY <2>1, <1>2
  <2>3. QED
    BY <2>2 DEF BestIsOptimal
<1>8. BestWasOffered
  BY <1>1, <1>2 DEF BestWasOffered
<1>9. QED
  BY <1>3, <1>4, <1>5, <1>6, <1>7, <1>8 DEF ExplorerInv

ControlParts ==
  /\ config \in ConfigType /\ physics \in PhysicsType /\ phase \in Phases
  /\ mem \in Memory /\ cursor \in Nat
  /\ localWire \in MaybeWire /\ globalWire \in MaybeWire
  /\ numSolution \in Nat /\ csv \in Seq(ResultType)
  /\ printed \in {"nothing", "noTag", "noSolution", "best", "pruned", "notACache",
                  "exploration"}
  /\ Located

\* Every step preserves the statements about the control state.
LEMMA ControlStep ==
  ASSUME ExplorerInv, [Next]_vars
  PROVE  ControlParts'
<1> USE DEF Memory, MaybeWire, Phases
<1>1. ControlParts
  BY DEF ExplorerInv, TypeOK, ControlParts
<1>2. \A m \in Memory : BasicLocal[m] \in Wires /\ BasicGlobal[m] \in Wires
  BY BasicWires
<1>3. CASE StartTag
  BY <1>1, <1>2, <1>3 DEF ControlParts, Located, StartTag, BeginSearch, rigid
<1>4. CASE StartData
  BY <1>1, <1>2, <1>4 DEF ControlParts, Located, StartData, BeginSearch, rigid
<1>5. CASE SkipDesign
  BY <1>1, <1>5 DEF ControlParts, Located, SkipDesign, InSearch, rigid
<1>6. CASE AcceptDesign
  <2>1. csv' \in Seq(ResultType)
    BY <1>6, AcceptDesignRecords
  <2>2. QED
    BY <1>1, <1>6, <2>1 DEF ControlParts, Located, AcceptDesign, InSearch, rigid
<1>7. CASE CapacityViolation
  BY <1>1, <1>7 DEF ControlParts, Located, CapacityViolation, rigid
<1>8. CASE EndSearch
  BY <1>1, <1>8 DEF ControlParts, Located, EndSearch, rigid
<1>9. CASE RefineLocal
  <2>1. localWire' \in Wires /\ globalWire' \in Wires /\ csv' \in Seq(ResultType)
    BY <1>9, LocalTrials
  <2>2. QED
    BY <1>1, <1>9, <2>1 DEF ControlParts, Located, RefineLocal, rigid
<1>10. CASE EndRefineLocal
  BY <1>1, <1>10 DEF ControlParts, Located, EndRefineLocal, rigid
<1>11. CASE RefineGlobal
  <2>1. localWire' \in Wires /\ globalWire' \in Wires /\ csv' \in Seq(ResultType)
    BY <1>11, GlobalTrials
  <2>2. QED
    BY <1>1, <1>11, <2>1 DEF ControlParts, Located, RefineGlobal, rigid
<1>12. CASE EndRefineGlobal
  BY <1>1, <1>12 DEF ControlParts, Located, EndRefineGlobal, rigid
<1>13. CASE CrashOnUnset
  BY <1>1, <1>13 DEF ControlParts, Located, CrashOnUnset, rigid
<1>14. CASE NoTagSolution
  BY <1>1, <1>14 DEF ControlParts, Located, NoTagSolution, rigid
<1>15. CASE FinishTag
  BY <1>1, <1>15 DEF ControlParts, Located, FinishTag, rigid
<1>16. CASE StartConstrained
  BY <1>1, <1>2, <1>16 DEF ControlParts, Located, StartConstrained, BeginSearch, rigid
<1>17. CASE SkipConstrained
  BY <1>1, <1>17 DEF ControlParts, Located, SkipConstrained, rigid
<1>18. CASE AcceptConstrained
  BY <1>1, <1>18 DEF ControlParts, Located, AcceptConstrained, rigid
<1>19. CASE Report
  BY <1>1, <1>19 DEF ControlParts, Located, Report, PrunedReports, rigid
<1>20. CASE Exited \/ UNCHANGED vars
  BY <1>1, <1>20 DEF ControlParts, Located, Exited, vars
<1>21. QED
  BY <1>3, <1>4, <1>5, <1>6, <1>7, <1>8, <1>9, <1>10, <1>11, <1>12, <1>13, <1>14,
     <1>15, <1>16, <1>17, <1>18, <1>19, <1>20 DEF Next

\* Every step preserves the invariant.
LEMMA NextInv == ExplorerInv /\ [Next]_vars => ExplorerInv'
BY ControlStep, ResultStep DEF ControlParts, ResultParts, ExplorerInv, TypeOK

\* For every design space, circuit model and configuration, the invariant
\* holds in every reachable state of main().
THEOREM ExplorerInvariant == Spec => []ExplorerInv
BY InitInv, NextInv, PTL DEF Spec

\* The variables of main() keep their types.
THEOREM TypeCorrect == Spec => []TypeOK
<1>1. ExplorerInv => TypeOK
  BY DEF ExplorerInv
<1>2. QED
  BY <1>1, ExplorerInvariant, PTL

\* The organisation, the wires and the metrics of each result belong together.
THEOREM ResultsAreGenuine == Spec => []BestIsGenuine
<1>1. ExplorerInv => BestIsGenuine
  BY DEF ExplorerInv
<1>2. QED
  BY <1>1, ExplorerInvariant, PTL

\* Each result is the best admissible one of all it was compared with.
THEOREM ResultsAreOptimal == Spec => []BestIsOptimal
<1>1. ExplorerInv => BestIsOptimal
  BY DEF ExplorerInv
<1>2. QED
  BY <1>1, ExplorerInvariant, PTL

-----------------------------------------------------------------------------
(* Steps.                                                                  *)

\* No step but the reset before the constrained search makes a result worse.
THEOREM ResultsOnlyImprove == Spec => OnlyImproves
<1> DEFINE Better == \/ phase = "wrapUp" /\ phase' = "constrain"
                     \/ \A m \in Memory, t \in Targets :
                          best'[m][t].cost[t] <= best[m][t].cost[t]
<1>1. ASSUME ExplorerInv, [Next]_vars
      PROVE  Better
  <2>1. \A m \in Memory, t \in Targets : best[m][t].cost[t] \in Nat
    BY <1>1 DEF ExplorerInv, TypeOK, ResultType, Costs
  <2>2. CASE Leaves
    BY <2>1, <2>2 DEF Leaves
  <2>3. CASE \E m \in Memory : Records(m)
    <3>1. PICK m \in Memory : Records(m)
      BY <2>3
    <3>2. PICK trials \in [Targets -> Evaluated(m)] :
            Record(m, trials) /\ UNCHANGED <<physics, limit>>
      BY <3>1 DEF Records
    <3>3. QED
      BY <1>1, <3>2, RecordPreserves
  <2>4. CASE StartConstrained
    BY <2>4 DEF StartConstrained, BeginSearch
  <2>5. QED
    BY <1>1, <2>2, <2>3, <2>4, StepKinds
<1>2. ExplorerInv /\ [Next]_vars => [Better]_vars
  BY <1>1
<1>3. QED
  BY <1>2, ExplorerInvariant, PTL DEF Spec, OnlyImproves

-----------------------------------------------------------------------------
(* The exploration implements BestKeeper.                                  *)

\* The offers and the kept cost of a slot, as Keeper reads them.
OffersOf(s) == {x.cost[s[2]] : x \in {y \in offered[s[1]][s[2]] :
                                        WithinLimit(y.cost, LimitOf(s[1]))}}
KeptOf(s) == best[s[1]][s[2]].cost[s[2]]
offersMap == [s \in AllSlots |-> OffersOf(s)]
keptMap == [s \in AllSlots |-> KeptOf(s)]

KeepLeast ==
  \A s \in AllSlots :
    /\ KeptOf(s) \in OffersOf(s) \cup {Worst}
    /\ KeptOf(s) <= Worst
    /\ \A c \in OffersOf(s) : KeptOf(s) <= c

\* Under the invariant each slot keeps its least offer.
LEMMA SlotsKeepLeast == ExplorerInv => KeepLeast
<1> SUFFICES ASSUME ExplorerInv, NEW s \in AllSlots
             PROVE  /\ KeptOf(s) \in OffersOf(s) \cup {Worst}
                    /\ KeptOf(s) <= Worst
                    /\ \A c \in OffersOf(s) : KeptOf(s) <= c
  BY DEF KeepLeast
<1>1. s[1] \in Memory /\ s[2] \in Targets
  BY DEF AllSlots
<1>2. \/ best[s[1]][s[2]].cost = WorstCost
      \/ /\ best[s[1]][s[2]] \in offered[s[1]][s[2]]
         /\ WithinLimit(best[s[1]][s[2]].cost, LimitOf(s[1]))
  BY <1>1 DEF ExplorerInv, BestWasOffered
<1>3. KeptOf(s) \in OffersOf(s) \cup {Worst}
  BY <1>1, <1>2 DEF KeptOf, OffersOf, WorstCost
<1>4. KeptOf(s) <= Worst
  BY <1>1 DEF ExplorerInv, BestIsOptimal, KeptOf
<1>5. \A c \in OffersOf(s) : KeptOf(s) <= c
  BY <1>1 DEF ExplorerInv, BestIsOptimal, KeptOf, OffersOf
<1>6. QED
  BY <1>3, <1>4, <1>5

\* Nothing has been offered at the start.
LEMMA KeeperInitMaps == Init => Keeper!KeeperInit
<1> SUFFICES ASSUME Init PROVE Keeper!KeeperInit
  OBVIOUS
<1>1. \A s \in AllSlots : OffersOf(s) = {} /\ KeptOf(s) = Worst
  BY DEF Init, AllSlots, OffersOf, KeptOf, FreshResult, WorstCost
<1>2. QED
  BY <1>1 DEF Keeper!KeeperInit, OffersOf, KeptOf

\* Every step is an offer, a restart of the data slots, or a stutter.
LEMMA KeeperStepMaps ==
  ASSUME ExplorerInv, ExplorerInv', [Next]_vars
  PROVE  [Keeper!KeeperNext]_<<offersMap, keptMap>>
<1>1. CASE Leaves
  <2>1. UNCHANGED <<offersMap, keptMap>>
    BY <1>1 DEF Leaves, offersMap, keptMap, OffersOf, KeptOf, LimitOf
  <2>2. QED
    BY <2>1
<1>2. CASE \E m \in Memory : Records(m)
  <2>1. PICK m \in Memory : Records(m)
    BY <1>2
  <2>2. PICK trials \in [Targets -> Evaluated(m)] :
          Record(m, trials) /\ UNCHANGED <<physics, limit>>
    BY <2>1 DEF Records
  <2>3. \A k \in Memory, t \in Targets : offered[k][t] \subseteq offered'[k][t]
    BY <2>2, RecordPreserves
  <2>4. \A s \in AllSlots : OffersOf(s) \subseteq OffersOf(s)'
    BY <2>2, <2>3 DEF OffersOf, LimitOf, AllSlots
  <2>5. KeepLeast'
    BY SlotsKeepLeast, PTL
  <2>6. Keeper!Offer
    BY <2>4, <2>5 DEF KeepLeast, Keeper!Offer, Keeper!KeepsLeast, OffersOf, KeptOf
  <2>7. QED
    BY <2>6 DEF Keeper!KeeperNext
<1>3. CASE StartConstrained
  <2> DEFINE R == {s \in AllSlots : s[1] = "data"}
  <2>1. ASSUME NEW s \in AllSlots, s[1] = "data"
        PROVE  OffersOf(s)' = {} /\ KeptOf(s)' = Worst
    <3>1. s[2] \in Targets
      BY DEF AllSlots
    <3>2. offered'["data"][s[2]] = {}
      BY <1>3, <3>1 DEF StartConstrained, ExplorerInv, TypeOK, Memory
    <3>3. best'["data"][s[2]].cost[s[2]] = Worst
      <4>1. best["data"][s[2]] \in ResultType
        BY <3>1 DEF ExplorerInv, TypeOK, Memory
      <4>2. best'["data"][s[2]] = [best["data"][s[2]] EXCEPT !.cost = WorstCost]
        BY <1>3, <3>1 DEF StartConstrained, ResetResult, ExplorerInv, TypeOK, Memory
      <4>3. QED
        BY <3>1, <4>1, <4>2 DEF ResultType, WorstCost
    <3>4. QED
      BY <2>1, <3>2, <3>3 DEF OffersOf, KeptOf
  <2>2. ASSUME NEW s \in AllSlots, s[1] # "data"
        PROVE  OffersOf(s)' = OffersOf(s) /\ KeptOf(s)' = KeptOf(s)
    <3>1. s[1] = "tag" /\ s[2] \in Targets
      BY <2>2 DEF AllSlots, Memory
    <3>2. offered'["tag"] = offered["tag"] /\ best'["tag"] = best["tag"]
      BY <1>3 DEF StartConstrained, ExplorerInv, TypeOK, Memory
    <3>3. QED
      BY <3>1, <3>2 DEF OffersOf, KeptOf, LimitOf
  <2>3. Keeper!Restart(R)
    BY <2>1, <2>2 DEF Keeper!Restart, OffersOf, KeptOf
  <2>4. QED
    BY <2>3 DEF Keeper!KeeperNext
<1>4. QED
  BY <1>1, <1>2, <1>3, StepKinds

\* The exploration keeps, for each array and target, the least admissible
\* cost of everything it evaluates.
THEOREM ExplorerKeepsBest == Spec => KeeperRefinement
<1>1. KeeperRefinement <=> Keeper!KeeperInit /\ [][Keeper!KeeperNext]_<<offersMap, keptMap>>
  BY DEF KeeperRefinement, Keeper!KeeperSpec, Keeper!keeperVars, offersMap, keptMap, OffersOf, KeptOf
<1>2. QED
  BY <1>1, KeeperInitMaps, KeeperStepMaps, NextInv, ExplorerInvariant, PTL DEF Spec

-----------------------------------------------------------------------------
(***************************************************************************)
(* What has been searched, and what is reported.                           *)
(***************************************************************************)
\* The evaluation of a design in a search.
Basic(m, d) == Trial(m, d, BasicLocal[m], BasicGlobal[m])
Admissible(m, d, lim) ==
  IsValid(m, d, BasicLocal[m], BasicGlobal[m]) /\ WithinLimit(Basic(m, d).cost, lim)

\* No result of the array is worse than the design, if that is admissible.
Beaten(m, d, lim) ==
  Admissible(m, d, lim) => \A t \in Targets : best[m][t].cost[t] <= Basic(m, d).cost[t]

\* The designs before the cursor have been searched; after a search all have.
SearchedInv ==
  /\ phase \notin {"constrain", "done", "aborted", "crashed"} => limit = NoLimit
  /\ phase \in {"search", "constrain"} => cursor >= 1
  /\ phase = "search" => \A d \in Design(mem) : d < cursor => Beaten(mem, d, NoLimit)
  /\ phase \in {"refineLocal", "refineGlobal", "wrapUp"} =>
       \A d \in Design(mem) : Beaten(mem, d, NoLimit)
  /\ phase = "constrain" =>
       \A d \in Design("data") : d < cursor =>
         Beaten("data", d, limit) /\ (Admissible("data", d, limit) => numSolution > 0)
  /\ ConstrainedIsOptimal

-----------------------------------------------------------------------------
\* All costs are numbers.
LEMMA CostsAreNumbers ==
  ASSUME ExplorerInv, NEW m \in Memory, NEW t \in Targets
  PROVE  /\ best[m][t].cost[t] \in Nat
         /\ \A d \in Design(m) : Basic(m, d).cost[t] \in Nat
<1>1. best[m][t] \in ResultType
  BY DEF ExplorerInv, TypeOK
<1>2. \A d \in Design(m) : Basic(m, d) \in ResultType
  BY TrialFacts, BasicWires DEF ExplorerInv, TypeOK, Basic
<1> QED
  BY <1>1, <1>2 DEF ResultType, Costs

\* Costs fall in every step but the reset.
LEMMA CostsFall ==
  ASSUME ExplorerInv, [Next]_vars, ~StartConstrained,
         NEW m \in Memory, NEW t \in Targets
  PROVE  best'[m][t].cost[t] <= best[m][t].cost[t]
<1>1. CASE Leaves
  BY <1>1, CostsAreNumbers DEF Leaves
<1>2. CASE \E k \in Memory : Records(k)
  <2>1. PICK k \in Memory : Records(k)
    BY <1>2
  <2>2. PICK trials \in [Targets -> Evaluated(k)] :
          Record(k, trials) /\ UNCHANGED <<physics, limit>>
    BY <2>1 DEF Records
  <2> QED
    BY <2>2, RecordPreserves
<1> QED
  BY <1>1, <1>2, StepKinds

LEMMA RigidStep == [Next]_vars => UNCHANGED rigid
BY DEF Next, vars, rigid, StartTag, StartData, BeginSearch, SkipDesign, AcceptDesign,
   CapacityViolation, EndSearch, RefineLocal, EndRefineLocal, RefineGlobal,
   EndRefineGlobal, CrashOnUnset, NoTagSolution, FinishTag, StartConstrained,
   SkipConstrained, AcceptConstrained, Report, Exited

\* What a search evaluates does not change.
LEMMA BasicStays ==
  ASSUME [Next]_vars, NEW m, NEW d, NEW lim
  PROVE  /\ Basic(m, d)' = Basic(m, d)
         /\ Admissible(m, d, lim)' <=> Admissible(m, d, lim)
<1>1. physics' = physics
  BY RigidStep DEF rigid
<1> QED
  BY <1>1 DEF Basic, Trial, Outcome, Admissible, IsValid

\* A design that has been beaten stays so.
LEMMA BeatenStays ==
  ASSUME ExplorerInv, ExplorerInv', [Next]_vars, ~StartConstrained,
         NEW m \in Memory, NEW d \in Design(m), NEW lim, Beaten(m, d, lim)
  PROVE  Beaten(m, d, lim)'
<1>1. Basic(m, d)' = Basic(m, d) /\ (Admissible(m, d, lim)' <=> Admissible(m, d, lim))
  BY BasicStays
<1>2. ASSUME Admissible(m, d, lim), NEW t \in Targets
      PROVE  best'[m][t].cost[t] <= Basic(m, d).cost[t]
  <2>1. best'[m][t].cost[t] <= best[m][t].cost[t]
    BY CostsFall
  <2>2. best[m][t].cost[t] <= Basic(m, d).cost[t]
    BY <1>2 DEF Beaten
  <2>3. best[m][t].cost[t] \in Nat /\ Basic(m, d).cost[t] \in Nat
    BY CostsAreNumbers
  <2>4. best'[m][t] \in ResultType
    BY DEF ExplorerInv, TypeOK
  <2> QED
    BY <2>1, <2>2, <2>3, <2>4 DEF ResultType, Costs
<1> QED
  BY <1>1, <1>2 DEF Beaten

\* A design that a search accepts is beaten by the results it was compared with.
LEMMA AcceptedIsBeaten ==
  ASSUME ExplorerInv, ExplorerInv', [Next]_vars, phase \in {"search", "constrain"},
         NEW m \in Memory, m = mem, NEW d \in Design(m), d = cursor,
         UpdateBest(m, Trial(m, d, localWire, globalWire)),
         NEW lim, lim = LimitOf(m)'
  PROVE  Beaten(m, d, lim)'
<1>1. Basic(m, d)' = Basic(m, d) /\ Trial(m, d, localWire, globalWire) = Basic(m, d)
  BY BasicStays DEF ExplorerInv, Located, Basic
<1>2. \A t \in Targets : Basic(m, d) \in offered'[m][t]
  BY <1>1 DEF UpdateBest, Record, ExplorerInv, TypeOK
<1>3. \A t \in Targets : \A x \in offered'[m][t] :
        WithinLimit(x.cost, lim) => best'[m][t].cost[t] <= x.cost[t]
  BY DEF ExplorerInv, BestIsOptimal
<1> QED
  BY <1>1, <1>2, <1>3 DEF Beaten, Admissible

-----------------------------------------------------------------------------
LEMMA InitSearched == Init => SearchedInv
BY DEF Init, SearchedInv, ConstrainedIsOptimal

\* A step of the first search: each design is skipped because it is not valid,
\* or accepted.
LEMMA SearchStep ==
  ASSUME ExplorerInv, ExplorerInv', SearchedInv, SkipDesign \/ AcceptDesign,
         NEW d \in Design(mem), d < cursor + 1
  PROVE  Beaten(mem, d, NoLimit)' /\ mem' = mem
<1>0. [Next]_vars /\ ~StartConstrained
  BY DEF Next, SkipDesign, AcceptDesign, InSearch, StartConstrained
<1>1. PICK k \in Memory : k = mem
  BY DEF ExplorerInv, TypeOK
<1>2. phase = "search" /\ cursor \in Design(mem) /\ mem' = mem /\ limit = NoLimit /\ limit' = limit
  BY DEF SkipDesign, AcceptDesign, InSearch, SearchedInv
<1>3. d \in Nat /\ cursor \in Nat
  BY <1>1, <1>2 DEF Design
<1>4. CASE d # cursor
  <2>1. Beaten(k, d, NoLimit)
    BY <1>1, <1>2, <1>3, <1>4 DEF SearchedInv
  <2> QED
    BY <1>0, <1>1, <1>2, <2>1, BeatenStays
<1>5. CASE d = cursor /\ SkipDesign
  <2>1. ~Admissible(k, d, NoLimit)
    BY <1>1, <1>2, <1>5 DEF SkipDesign, Admissible, ExplorerInv, Located
  <2>2. ~Admissible(k, d, NoLimit)'
    BY <1>0, <2>1, BasicStays DEF NoLimit
  <2> QED
    BY <1>1, <1>2, <2>2 DEF Beaten
<1>6. CASE d = cursor /\ AcceptDesign
  <2>1. UpdateBest(k, Trial(k, d, localWire, globalWire))
    BY <1>1, <1>6 DEF AcceptDesign
  <2>2. NoLimit = LimitOf(k)'
    BY <1>2 DEF LimitOf
  <2>3. Beaten(k, d, NoLimit)'
    BY <1>0, <1>1, <1>2, <1>6, <2>1, <2>2, AcceptedIsBeaten
  <2> QED
    BY <1>1, <1>2, <2>3
<1> QED
  BY <1>4, <1>5, <1>6

\* A step of the search with limits.
LEMMA ConstrainedStep ==
  ASSUME ExplorerInv, ExplorerInv', SearchedInv, SkipConstrained \/ AcceptConstrained,
         NEW d \in Design("data"), d < cursor + 1
  PROVE  Beaten("data", d, limit)' /\ (Admissible("data", d, limit)' => numSolution' > 0)
<1>0. [Next]_vars /\ ~StartConstrained
  BY DEF Next, SkipConstrained, AcceptConstrained, StartConstrained
<1>1. PICK lim : lim = limit
  OBVIOUS
<1>2. /\ phase = "constrain" /\ cursor \in Design("data") /\ mem = "data"
      /\ limit' = lim /\ "data" \in Memory
  BY <1>1 DEF SkipConstrained, AcceptConstrained, ExplorerInv, Located, Memory
<1>3. d \in Nat /\ cursor \in Nat /\ numSolution \in Nat
  BY <1>2 DEF Design, ExplorerInv, TypeOK
<1>4. numSolution' >= numSolution
  BY <1>3 DEF SkipConstrained, AcceptConstrained
<1>5. Admissible("data", d, lim)' <=> Admissible("data", d, lim)
  BY <1>0, BasicStays
<1>6. CASE d # cursor
  <2>1. Beaten("data", d, lim) /\ (Admissible("data", d, lim) => numSolution > 0)
    BY <1>1, <1>2, <1>3, <1>6 DEF SearchedInv
  <2>2. Beaten("data", d, lim)'
    BY <1>0, <1>2, <2>1, BeatenStays
  <2>3. numSolution' \in Nat
    BY DEF ExplorerInv, TypeOK
  <2> QED
    BY <1>2, <1>3, <1>4, <1>5, <2>1, <2>2, <2>3 DEF Beaten, Admissible
<1>7. CASE d = cursor /\ SkipConstrained
  <2>1. ~Admissible("data", d, lim)
    BY <1>1, <1>2, <1>7
       DEF SkipConstrained, Meets, Admissible, Basic, Trial, IsValid, ExplorerInv, Located
  <2> QED
    BY <1>2, <1>5, <2>1 DEF Beaten, Admissible
<1>8. CASE d = cursor /\ AcceptConstrained
  <2>1. UpdateBest("data", Trial("data", d, localWire, globalWire)) /\ numSolution' > 0
    BY <1>3, <1>8 DEF AcceptConstrained
  <2>2. lim = LimitOf("data")'
    BY <1>2 DEF LimitOf
  <2>3. Beaten("data", d, lim)'
    BY <1>0, <1>2, <1>8, <2>1, <2>2, AcceptedIsBeaten
  <2> QED
    BY <1>2, <2>1, <2>3 DEF Beaten, Admissible
<1> QED
  BY <1>6, <1>7, <1>8

LEMMA NextSearched ==
  ASSUME ExplorerInv, ExplorerInv', SearchedInv, [Next]_vars
  PROVE  SearchedInv'
<1> USE DEF Memory
<1>0. mem \in Memory /\ cursor \in Nat /\ phase \in Phases /\ numSolution \in Nat
  BY DEF ExplorerInv, TypeOK
<1>1. CASE StartTag \/ StartData
  BY <1>1 DEF StartTag, StartData, BeginSearch, SearchedInv, ConstrainedIsOptimal, Design
<1>2. CASE SkipDesign \/ AcceptDesign
  <2>1. /\ phase' = "search" /\ mem' = mem /\ cursor' = cursor + 1 /\ limit' = limit
        /\ phase = "search"
    BY <1>2 DEF SkipDesign, AcceptDesign, InSearch
  <2>2. \A d \in Design(mem) : d < cursor + 1 => Beaten(mem, d, NoLimit)'
    BY <1>2, SearchStep
  <2>3. limit' = NoLimit /\ cursor' >= 1
    BY <1>0, <2>1 DEF SearchedInv
  <2>4. \A d \in Design(mem)' : d < cursor' => Beaten(mem, d, NoLimit)'
    BY <2>1, <2>2 DEF Design
  <2> QED
    BY <2>1, <2>3, <2>4 DEF SearchedInv, ConstrainedIsOptimal
<1>3. CASE EndSearch
  <2>1. \A d \in Design(mem) : d < cursor
    <3>1. cursor >= 1 /\ cursor \notin 1 .. NumDesigns[mem]
      BY <1>3 DEF EndSearch, SearchedInv, Design
    <3>2. NumDesigns[mem] \in Nat
      BY <1>0, SpaceAssumption
    <3> QED
      BY <1>0, <3>1, <3>2 DEF Design
  <2>2. \A d \in Design(mem) : Beaten(mem, d, NoLimit)
    BY <1>3, <2>1 DEF EndSearch, SearchedInv
  <2>3. UNCHANGED <<physics, best, limit, mem>> /\ phase' \in {"refineLocal", "wrapUp"}
    BY <1>3 DEF EndSearch, rigid
  <2> QED
    BY <1>3, <2>2, <2>3
       DEF EndSearch, SearchedInv, ConstrainedIsOptimal, Beaten, Admissible, IsValid, Basic,
           Trial, Outcome
<1>4. CASE RefineLocal \/ EndRefineLocal \/ RefineGlobal \/ EndRefineGlobal
  <2>1. /\ phase \in {"refineLocal", "refineGlobal"}
        /\ phase' \in {"refineLocal", "refineGlobal", "wrapUp"}
        /\ limit' = limit /\ mem' = mem /\ ~StartConstrained
    BY <1>4 DEF RefineLocal, EndRefineLocal, RefineGlobal, EndRefineGlobal, StartConstrained
  <2>2. \A d \in Design(mem) : Beaten(mem, d, NoLimit)'
    BY <1>0, <2>1, BeatenStays DEF SearchedInv
  <2>3. limit' = NoLimit
    BY <2>1 DEF SearchedInv
  <2> QED
    BY <2>1, <2>2, <2>3 DEF SearchedInv, ConstrainedIsOptimal
<1>5. CASE CapacityViolation \/ CrashOnUnset
  BY <1>5 DEF CapacityViolation, CrashOnUnset, SearchedInv, ConstrainedIsOptimal
<1>6. CASE NoTagSolution \/ FinishTag
  BY <1>6 DEF NoTagSolution, FinishTag, SearchedInv, ConstrainedIsOptimal
<1>7. CASE StartConstrained
  BY <1>7 DEF StartConstrained, BeginSearch, SearchedInv, ConstrainedIsOptimal, Design
<1>8. CASE SkipConstrained \/ AcceptConstrained
  <2>1. phase' = "constrain" /\ cursor' = cursor + 1 /\ phase = "constrain"
    BY <1>8 DEF SkipConstrained, AcceptConstrained
  <2>2. \A d \in Design("data") : d < cursor + 1 =>
          Beaten("data", d, limit)' /\ (Admissible("data", d, limit)' => numSolution' > 0)
    BY <1>8, ConstrainedStep
  <2>3. cursor' >= 1
    BY <1>0, <2>1 DEF SearchedInv
  <2> QED
    BY <2>1, <2>2, <2>3 DEF SearchedInv, ConstrainedIsOptimal
<1>9. CASE Report
  <2>1. phase' = "done" /\ UNCHANGED <<config, physics, best, limit, mem>>
    BY <1>9 DEF Report, rigid
  <2>2. ASSUME mem = "data", IsConstrained, NEW d \in Design("data"),
               Admissible("data", d, limit)
        PROVE  /\ printed' = "best"
               /\ \/ best["data"][config.target].cost[config.target]
                       <= Basic("data", d).cost[config.target]
                  \/ Basic("data", d).cost[config.target] >= Worst
    <3>1. phase = "constrain" /\ cursor \notin Design("data")
      BY <1>9, <2>2 DEF Report
    <3>2. d < cursor
      <4>1. cursor >= 1 /\ cursor \notin 1 .. NumDesigns["data"]
        BY <3>1 DEF SearchedInv, Design
      <4>2. NumDesigns["data"] \in Nat
        BY SpaceAssumption
      <4> QED
        BY <1>0, <4>1, <4>2 DEF Design
    <3>3. Beaten("data", d, limit) /\ numSolution > 0
      BY <2>2, <3>1, <3>2 DEF SearchedInv
    <3>4. config.target \in Targets /\ config.target # FullExploration
      BY <2>2 DEF IsConstrained, ExplorerInv, TypeOK, ConfigType
    <3>5. printed' = "best"
      BY <1>0, <1>9, <3>3, <3>4 DEF Report, WritesCsv
    <3> QED
      BY <2>2, <3>3, <3>4, <3>5 DEF Beaten
  <2>3. ConstrainedIsOptimal'
    BY <2>1, <2>2 DEF ConstrainedIsOptimal, IsConstrained, Admissible, Basic, Trial, IsValid, Outcome
  <2> QED
    BY <2>1, <2>3 DEF SearchedInv
<1>10. CASE Exited \/ UNCHANGED vars
  <2>1. UNCHANGED vars
    BY <1>10 DEF Exited
  <2> QED
    BY <2>1 DEF vars, rigid, SearchedInv, ConstrainedIsOptimal, Beaten, Admissible, IsValid, Basic, Trial, Outcome, IsConstrained
<1> QED
  BY <1>1, <1>2, <1>3, <1>4, <1>5, <1>6, <1>7, <1>8, <1>9, <1>10 DEF Next
\* The exploration has searched what its phase says, in every reachable state.
LEMMA Searched == Spec => [](ExplorerInv /\ SearchedInv)
<1>1. Init => ExplorerInv /\ SearchedInv
  BY InitInv, InitSearched
<1>2. ExplorerInv /\ SearchedInv /\ [Next]_vars => ExplorerInv' /\ SearchedInv'
  BY NextInv, NextSearched
<1> QED
  BY <1>1, <1>2, PTL DEF Spec

\* After a search no valid design of the array, evaluated with the basic wires,
\* is better than a result: BIGFOR visits them all and main() compares each.
THEOREM SearchesAreExhaustive == Spec => []SearchIsExhaustive
<1>1. ExplorerInv /\ SearchedInv => SearchIsExhaustive
  BY DEF SearchedInv, SearchIsExhaustive, Beaten, Admissible, Basic, Trial
<1> QED
  BY <1>1, Searched, PTL

\* With constraints the report is the best design that meets them all, and it
\* is missing only if there is none.
THEOREM ReportsConstrainedOptimum == Spec => []ConstrainedIsOptimal
<1>1. SearchedInv => ConstrainedIsOptimal
  BY DEF SearchedInv
<1> QED
  BY <1>1, Searched, PTL

-----------------------------------------------------------------------------
(* What is reported.                                                       *)

\* Every result of the array has been written by a bank with finite metrics.
Found(m) == \A t \in Targets : best[m][t].cost[t] < Worst

\* Every organisation that a result holds has passed the capacity check.
DesignsFit ==
  \A m \in Memory, t \in Targets :
    best[m][t].design # Unset => best[m][t].design \in physics.fits[m]

\* The counter and the results tell the same: if a design was counted, every
\* result has one, so that the refinements read no organisation nobody wrote.
FoundInv ==
  FiniteCosts =>
    /\ phase \notin {"done", "aborted", "crashed"} /\ numSolution > 0 => Found(mem)
    /\ config.cache /\ (mem = "data" \/ phase = "startData") => Found("tag")
    /\ DesignsFit

\* The counter, the file and the report.
CounterInv ==
  /\ phase \in {"start", "startData"} => numSolution = 0
  /\ phase \in {"refineLocal", "refineGlobal"} => numSolution > 0
  /\ phase = "constrain" => IsConstrained
  /\ mem = "data" /\ WritesCsv => Len(csv) >= numSolution
  /\ phase # "done" => printed = "nothing"

SoundInv == FoundInv /\ CounterInv /\ ReportIsSound

\* A result whose metrics are finite has an organisation.
LEMMA FoundIsSet ==
  ASSUME ExplorerInv, NEW m \in Memory, NEW t \in Targets,
         best[m][t].cost[t] < Worst
  PROVE  best[m][t].design # Unset
BY DesignIsSet DEF ExplorerInv, AllWritten, Written, WorstCost

\* Once every result of an array is written, it stays so.
LEMMA FoundStays ==
  ASSUME ExplorerInv, ExplorerInv', [Next]_vars, ~StartConstrained,
         NEW m \in Memory, Found(m)
  PROVE  Found(m)'
<1> SUFFICES ASSUME NEW t \in Targets
             PROVE  best'[m][t].cost[t] < Worst
  BY DEF Found
<1>1. best'[m][t].cost[t] <= best[m][t].cost[t] /\ best[m][t].cost[t] < Worst
  BY CostsFall DEF Found
<1>2. best[m][t].cost[t] \in Nat
  BY CostsAreNumbers
<1>3. best'[m][t] \in ResultType
  BY DEF ExplorerInv, TypeOK
<1> QED
  BY <1>1, <1>2, <1>3 DEF ResultType, Costs

\* A design that is accepted writes every result of its array.
LEMMA AcceptedIsFound ==
  ASSUME ExplorerInv, ExplorerInv', [Next]_vars, AcceptDesign \/ AcceptConstrained,
         SearchedInv, FiniteCosts
  PROVE  Found(mem)' /\ mem' = mem
<1> USE DEF Memory
<1>0. PICK k \in Memory : k = mem
  BY DEF ExplorerInv, TypeOK
<1>1. PICK d \in Design(k) :
        /\ k = mem /\ d = cursor /\ mem' = k /\ phase \in {"search", "constrain"}
        /\ UpdateBest(k, Trial(k, d, localWire, globalWire))
        /\ IsValid(k, d, localWire, globalWire)
        /\ limit' = limit
        /\ phase = "constrain" =>
             k = "data" /\ WithinLimit(Outcome(k, d, localWire, globalWire), limit)
  <2>1. CASE AcceptDesign
    BY <1>0, <2>1 DEF AcceptDesign, InSearch
  <2>2. CASE AcceptConstrained
    BY <1>0, <2>2 DEF AcceptConstrained, Meets, ExplorerInv, Located
  <2> QED
    BY <2>1, <2>2
<1>2. /\ localWire = BasicLocal[k] /\ globalWire = BasicGlobal[k]
      /\ localWire \in Wires /\ globalWire \in Wires
  BY <1>1, BasicWires DEF ExplorerInv, Located
<1>3. /\ Basic(k, d).cost = Outcome(k, d, localWire, globalWire)
      /\ \A t \in Targets : Basic(k, d).cost[t] < Worst
  <2>1. <<d, localWire, globalWire>> \in AnyDesign \X Wires \X Wires
    BY <1>1, <1>2 DEF AnyDesign
  <2>2. \A t \in Targets : physics.outcome[k][<<d, localWire, globalWire>>][t] < Worst
    BY <1>1, <2>1 DEF FiniteCosts, IsValid, Outcome
  <2> QED
    BY <1>1, <1>2, <2>2 DEF Basic, Trial, Outcome, IsValid
<1>4. PICK lim : lim = LimitOf(k)'
  OBVIOUS
<1>5. WithinLimit(Basic(k, d).cost, lim)
  <2>1. CASE phase = "constrain"
    BY <1>1, <1>3, <1>4, <2>1 DEF LimitOf
  <2>2. CASE phase = "search"
    <3>1. lim = NoLimit
      BY <1>1, <1>4, <2>2 DEF LimitOf, SearchedInv
    <3>2. \A t \in Targets : Basic(k, d).cost[t] \in Nat
      BY <1>1, CostsAreNumbers
    <3> QED
      BY <1>3, <3>1, <3>2 DEF WithinLimit, NoLimit
  <2> QED
    BY <1>1, <2>1, <2>2
<1>6. Admissible(k, d, lim)
  BY <1>1, <1>2, <1>5 DEF Admissible
<1>7. Beaten(k, d, lim)'
  BY <1>1, <1>4, AcceptedIsBeaten
<1>8. Admissible(k, d, lim)' /\ Basic(k, d)' = Basic(k, d)
  BY <1>6, BasicStays
<1>9. ASSUME NEW t \in Targets PROVE best'[k][t].cost[t] < Worst
  <2>1. best'[k][t].cost[t] <= Basic(k, d).cost[t]
    BY <1>7, <1>8 DEF Beaten
  <2>2. best'[k][t] \in ResultType /\ Basic(k, d).cost[t] \in Nat
    BY CostsAreNumbers DEF ExplorerInv, TypeOK
  <2> QED
    BY <1>3, <2>1, <2>2 DEF ResultType, Costs
<1> QED
  BY <1>1, <1>9 DEF Found

\* The evaluations of a refinement are of the organisations of the results.
LEMMA RefinedDesigns ==
  ASSUME ExplorerInv, RefineLocal \/ RefineGlobal, Found(mem)
  PROVE  \A m \in Memory, t \in Targets : best'[m][t].design = best[m][t].design
<1>1. mem \in Memory /\ best \in [Memory -> [Targets -> ResultType]]
  BY DEF ExplorerInv, TypeOK
<1>2. UnsetTargets(mem) = {}
  BY <1>1, FoundIsSet DEF UnsetTargets, Found
<1>3. PICK trials \in [Targets -> Evaluated(mem)] :
        /\ Record(mem, trials)
        /\ \A t \in Targets : trials[t].design = best[mem][t].design
  <2>1. CASE RefineLocal
    <3>1. PICK trials :
            /\ Record(mem, trials)
            /\ trials = [t \in Targets |->
                 Trial(mem, best[mem][t].design, localWire', best[mem][t].global)]
      BY <1>2, <2>1 DEF RefineLocal, TryAndUpdate
    <3>2. localWire' \in Wires
      BY <2>1, LocalTrials
    <3>3. \A t \in Targets : best[mem][t].design \in Design(mem) /\ best[mem][t].global \in Wires
      BY <1>1, <1>2 DEF ExplorerInv, AllWritten, Written, UnsetTargets
    <3>4. \A t \in Targets : trials[t] \in Evaluated(mem) /\ trials[t].design = best[mem][t].design
      BY <3>1, <3>2, <3>3 DEF Evaluated, Trial
    <3> QED
      BY <3>1, <3>4
  <2>2. CASE RefineGlobal
    <3>1. PICK trials :
            /\ Record(mem, trials)
            /\ trials = [t \in Targets |->
                 Trial(mem, best[mem][t].design, best[mem][t].local, globalWire')]
      BY <1>2, <2>2 DEF RefineGlobal, TryAndUpdate
    <3>2. globalWire' \in Wires
      BY <2>2, GlobalTrials
    <3>3. \A t \in Targets : best[mem][t].design \in Design(mem) /\ best[mem][t].local \in Wires
      BY <1>1, <1>2 DEF ExplorerInv, AllWritten, Written, UnsetTargets
    <3>4. \A t \in Targets : trials[t] \in Evaluated(mem) /\ trials[t].design = best[mem][t].design
      BY <3>1, <3>2, <3>3 DEF Evaluated, Trial
    <3> QED
      BY <3>1, <3>4
  <2> QED
    BY <2>1, <2>2
<1> QED
  BY <1>1, <1>3 DEF Record, CompareAndUpdate

LEMMA FiniteStays == [Next]_vars => (FiniteCosts' <=> FiniteCosts)
<1> SUFFICES ASSUME [Next]_vars PROVE FiniteCosts' <=> FiniteCosts
  OBVIOUS
<1>1. physics' = physics
  BY RigidStep DEF rigid
<1> QED
  BY <1>1 DEF FiniteCosts

LEMMA InitSound == Init => SoundInv
<1> SUFFICES ASSUME Init PROVE SoundInv
  OBVIOUS
<1>1. \A m \in Memory, t \in Targets : best[m][t].design = Unset
  BY DEF Init, FreshResult
<1> QED
  BY <1>1 DEF Init, SoundInv, FoundInv, CounterInv, ReportIsSound, DesignsFit, Memory
\* Every step preserves the statements about the counter, the file and the
\* phases.
LEMMA CounterStep ==
  ASSUME ExplorerInv, CounterInv, [Next]_vars
  PROVE  CounterInv'
<1> USE DEF Memory
<1>0. mem \in Memory /\ numSolution \in Nat /\ csv \in Seq(ResultType)
  BY DEF ExplorerInv, TypeOK
<1>1. CASE StartTag \/ StartData
  <2>1. numSolution' = 0 /\ UNCHANGED <<config, csv, printed>> /\ phase' = "search"
        /\ printed = "nothing"
    BY <1>1 DEF StartTag, StartData, BeginSearch, rigid, CounterInv
  <2> QED
    BY <1>0, <2>1 DEF CounterInv
<1>2. CASE SkipDesign \/ AcceptDesign
  <2>1. /\ phase = "search" /\ phase' = "search" /\ mem' = mem
        /\ UNCHANGED <<config, printed>>
    BY <1>2 DEF SkipDesign, AcceptDesign, InSearch, rigid
  <2>2. mem = "data" /\ WritesCsv => Len(csv') >= numSolution'
    <3>1. CASE SkipDesign
      BY <3>1 DEF SkipDesign, CounterInv
    <3>2. CASE AcceptDesign /\ mem = "data" /\ WritesCsv
      <4>1. PICK x : csv' = Append(csv, x) /\ numSolution' = numSolution + 1
        BY <3>2 DEF AcceptDesign
      <4>2. Len(csv') = Len(csv) + 1 /\ Len(csv) \in Nat
        BY <1>0, <4>1
      <4> QED
        BY <1>0, <3>2, <4>1, <4>2 DEF CounterInv
    <3> QED
      BY <1>2, <3>1, <3>2
  <2> QED
    BY <2>1, <2>2 DEF CounterInv, WritesCsv
<1>3. CASE EndSearch \/ EndRefineLocal \/ EndRefineGlobal \/ CapacityViolation \/ CrashOnUnset
  BY <1>0, <1>3
     DEF EndSearch, EndRefineLocal, EndRefineGlobal, CapacityViolation, CrashOnUnset, rigid,
         CounterInv, WritesCsv
<1>4. CASE RefineLocal \/ RefineGlobal
  <2>1. /\ phase' = phase /\ phase \in {"refineLocal", "refineGlobal"} /\ mem' = mem
        /\ UNCHANGED <<config, printed, numSolution>>
        /\ csv' \in Seq(ResultType)
    BY <1>4, LocalTrials, GlobalTrials DEF RefineLocal, RefineGlobal, rigid
  <2>2. PICK x : csv' \in {csv, Append(csv, x)}
    BY <1>4 DEF RefineLocal, RefineGlobal, TryAndUpdate
  <2>3. Len(csv') >= Len(csv) /\ Len(csv) \in Nat /\ Len(csv') \in Nat
    BY <1>0, <2>1, <2>2
  <2> QED
    BY <1>0, <2>1, <2>3 DEF CounterInv, WritesCsv
<1>5. CASE NoTagSolution \/ FinishTag \/ Report
  BY <1>0, <1>5 DEF NoTagSolution, FinishTag, Report, rigid, CounterInv, WritesCsv
<1>6. CASE StartConstrained
  BY <1>0, <1>6
     DEF StartConstrained, BeginSearch, rigid, CounterInv, WritesCsv, IsConstrained
<1>7. CASE SkipConstrained \/ AcceptConstrained
  <2>1. /\ phase = "constrain" /\ phase' = "constrain"
        /\ UNCHANGED <<config, printed>>
    BY <1>7 DEF SkipConstrained, AcceptConstrained, rigid
  <2> QED
    BY <2>1 DEF CounterInv, WritesCsv, IsConstrained
<1>8. CASE Exited \/ UNCHANGED vars
  BY <1>8 DEF Exited, vars, rigid, CounterInv, WritesCsv, IsConstrained
<1> QED
  BY <1>1, <1>2, <1>3, <1>4, <1>5, <1>6, <1>7, <1>8 DEF Next

\* Every step preserves what is known of the results.
LEMMA FoundStep ==
  ASSUME ExplorerInv, ExplorerInv', SearchedInv, CounterInv, FoundInv, [Next]_vars
  PROVE  FoundInv'
<1> USE DEF Memory
<1> SUFFICES ASSUME FiniteCosts
             PROVE  /\ phase' \notin {"done", "aborted", "crashed"} /\ numSolution' > 0
                         => Found(mem)'
                    /\ config'.cache /\ (mem' = "data" \/ phase' = "startData")
                         => Found("tag")'
                    /\ DesignsFit'
  BY FiniteStays DEF FoundInv
<1>0. /\ mem \in Memory /\ numSolution \in Nat
      /\ best \in [Memory -> [Targets -> ResultType]]
      /\ best' \in [Memory -> [Targets -> ResultType]]
  BY DEF ExplorerInv, TypeOK
<1>1. /\ phase \notin {"done", "aborted", "crashed"} /\ numSolution > 0 => Found(mem)
      /\ config.cache /\ (mem = "data" \/ phase = "startData") => Found("tag")
      /\ DesignsFit
  BY DEF FoundInv
<1>2. UNCHANGED rigid
  BY RigidStep
<1>3. Found("tag") => Found("tag")'
  <2>1. CASE StartConstrained
    BY <1>0, <2>1 DEF StartConstrained, Found
  <2> QED
    BY <2>1, FoundStays
<1>4. CASE StartTag \/ StartData
  <2>1. UNCHANGED <<config, physics, best, numSolution>> /\ numSolution = 0
        /\ mem' = (IF phase = "start" THEN "tag" ELSE "data") /\ phase' = "search"
        /\ phase \in {"start", "startData"}
    BY <1>4 DEF StartTag, StartData, BeginSearch, rigid, CounterInv
  <2> QED
    BY <1>1, <2>1 DEF Found, DesignsFit
<1>5. CASE AcceptDesign \/ AcceptConstrained
  <2>1. Found(mem)' /\ mem' = mem
    BY <1>5, AcceptedIsFound
  <2>2. phase' = phase /\ phase \in {"search", "constrain"} /\ cursor \in physics.fits[mem]
    BY <1>5 DEF AcceptDesign, AcceptConstrained, InSearch, ExplorerInv, Located
  <2>3. \A m \in Memory, t \in Targets :
          \/ best'[m][t].design = best[m][t].design
          \/ m = mem /\ best'[m][t].design = cursor
    <3>1. PICK k \in Memory : k = mem
      BY <1>0
    <3>2. PICK x : x.design = cursor /\ UpdateBest(k, x)
      <4>1. Trial(k, cursor, localWire, globalWire).design = cursor
        BY DEF Trial
      <4> QED
        BY <1>5, <3>1, <4>1 DEF AcceptDesign, AcceptConstrained, ExplorerInv, Located
    <3> QED
      BY <1>0, <3>1, <3>2 DEF UpdateBest, Record, CompareAndUpdate
  <2>4. DesignsFit'
    BY <1>1, <1>2, <2>2, <2>3 DEF DesignsFit, rigid
  <2> QED
    BY <1>1, <1>2, <1>3, <2>1, <2>2, <2>4 DEF rigid
<1>6. CASE RefineLocal \/ RefineGlobal
  <2>1. /\ phase' = phase /\ phase \in {"refineLocal", "refineGlobal"} /\ mem' = mem
        /\ numSolution' = numSolution /\ ~StartConstrained
    BY <1>6 DEF RefineLocal, RefineGlobal, StartConstrained
  <2>2. Found(mem)
    BY <1>1, <2>1 DEF CounterInv
  <2>3. Found(mem)'
    BY <1>0, <2>1, <2>2, FoundStays
  <2>4. DesignsFit'
    BY <1>1, <1>2, <1>6, <2>2, RefinedDesigns DEF DesignsFit, rigid
  <2> QED
    BY <1>1, <1>2, <1>3, <2>1, <2>3, <2>4 DEF rigid
<1>7. CASE StartConstrained
  <2>1. /\ phase = "wrapUp" /\ mem = "data" /\ mem' = "data" /\ numSolution' = 0
        /\ \A m \in Memory, t \in Targets : best'[m][t].design = best[m][t].design
    BY <1>0, <1>7 DEF StartConstrained, BeginSearch, ResetResult, ResultType
  <2>2. DesignsFit'
    BY <1>1, <1>2, <2>1 DEF DesignsFit, rigid
  <2> QED
    BY <1>1, <1>2, <1>3, <2>1, <2>2 DEF rigid
<1>8. CASE FinishTag
  BY <1>1, <1>8 DEF FinishTag, rigid, Found, DesignsFit
<1>9. CASE \/ SkipDesign \/ EndSearch \/ EndRefineLocal \/ EndRefineGlobal
           \/ CapacityViolation \/ CrashOnUnset \/ NoTagSolution \/ SkipConstrained
           \/ Report \/ Exited \/ UNCHANGED vars
  <2>1. /\ UNCHANGED <<config, physics, best, numSolution, mem>>
        /\ phase' # "startData" \/ phase' = phase
        /\ phase' \in {"done", "aborted", "crashed"} \/ phase \notin {"done", "aborted", "crashed"}
    BY <1>9 DEF SkipDesign, InSearch, EndSearch, EndRefineLocal, EndRefineGlobal,
       CapacityViolation, CrashOnUnset, NoTagSolution, SkipConstrained, Report, Exited, vars,
       rigid
  <2> QED
    BY <1>1, <2>1 DEF Found, DesignsFit
<1> QED
  BY <1>4, <1>5, <1>6, <1>7, <1>8, <1>9 DEF Next

\* Every step preserves the soundness of what is printed.
LEMMA ReportStep ==
  ASSUME ExplorerInv, CounterInv, FoundInv, ReportIsSound, [Next]_vars
  PROVE  ReportIsSound'
<1> USE DEF Memory
<1>0. FiniteCosts' <=> FiniteCosts
  BY FiniteStays
<1>1. CASE Report
  <2> DEFINE r == best["data"][config.target]
  <2>1. /\ mem = "data" /\ phase \in {"wrapUp", "constrain"}
        /\ UNCHANGED <<config, physics, best, limit, csv, numSolution, mem>>
    BY <1>1 DEF Report, rigid, ExplorerInv, Located
  <2>2. config \in ConfigType /\ numSolution \in Nat
        /\ config.target \in Targets \cup {FullExploration}
    BY DEF ExplorerInv, TypeOK, ConfigType
  <2>3. ASSUME printed' = "best", FiniteCosts
        PROVE  /\ r.cost # WorstCost
               /\ r.design \in physics.fits["data"]
               /\ WithinLimit(r.cost, LimitOf("data"))
               /\ config.cache => best["tag"][config.target].cost # WorstCost
    <3>1. config.target \in Targets /\ numSolution > 0
      BY <1>1, <2>2, <2>3 DEF Report, WritesCsv, PrunedReports
    <3>2. Found("data") /\ DesignsFit /\ (config.cache => Found("tag"))
      BY <2>1, <2>3, <3>1 DEF FoundInv
    <3>3. r.cost[config.target] < Worst
      BY <3>1, <3>2 DEF Found
    <3>4. config.cache => best["tag"][config.target].cost[config.target] < Worst
      BY <3>1, <3>2 DEF Found
    <3>5. WorstCost[config.target] = Worst
      BY <3>1 DEF WorstCost
    <3>6. r.cost # WorstCost /\ (config.cache => best["tag"][config.target].cost # WorstCost)
      BY <3>3, <3>4, <3>5
    <3>7. r.design # Unset
      BY <3>1, <3>3, FoundIsSet
    <3>8. WithinLimit(r.cost, LimitOf("data"))
      BY <3>1, <3>6 DEF ExplorerInv, BestWasOffered
    <3> QED
      BY <3>1, <3>2, <3>6, <3>7, <3>8 DEF DesignsFit
  <2>4. printed' = "exploration" => Len(csv') >= numSolution'
    BY <1>1, <2>1, <2>2 DEF Report, WritesCsv, PrunedReports, CounterInv
  <2> HIDE DEF r
  <2>5. LimitOf("data")' = LimitOf("data")
    BY <2>1 DEF LimitOf
  <2> QED
    BY <1>0, <2>1, <2>3, <2>4, <2>5 DEF ReportIsSound, r
<1>2. CASE NoTagSolution
  BY <1>2 DEF NoTagSolution, ReportIsSound
<1>3. CASE Exited \/ UNCHANGED vars
  <2>1. UNCHANGED vars
    BY <1>3 DEF Exited
  <2>2. LimitOf("data")' = LimitOf("data")
    BY <2>1 DEF LimitOf, vars
  <2> QED
    BY <1>0, <2>1, <2>2 DEF vars, rigid, ReportIsSound
<1>4. CASE phase # "done" /\ ~Report /\ ~NoTagSolution
  <2>1. printed = "nothing" /\ printed' = printed
    BY <1>4 DEF CounterInv, Next, vars, StartTag, StartData, SkipDesign, AcceptDesign,
       CapacityViolation, EndSearch, RefineLocal, EndRefineLocal, RefineGlobal,
       EndRefineGlobal, CrashOnUnset, FinishTag, StartConstrained, SkipConstrained,
       AcceptConstrained, Exited
  <2> QED
    BY <2>1 DEF ReportIsSound
<1>5. CASE phase = "done"
  <2>1. Exited \/ UNCHANGED vars
    BY <1>5 DEF Next, StartTag, StartData, SkipDesign, AcceptDesign, InSearch,
       CapacityViolation, EndSearch, RefineLocal, EndRefineLocal, RefineGlobal,
       EndRefineGlobal, CrashOnUnset, NoTagSolution, FinishTag, StartConstrained,
       SkipConstrained, AcceptConstrained, Report
  <2> QED
    BY <1>3, <2>1
<1> QED
  BY <1>1, <1>2, <1>4, <1>5

LEMMA Sound == Spec => [](ExplorerInv /\ SearchedInv /\ SoundInv)
<1>1. SoundInv /\ ExplorerInv /\ SearchedInv /\ ExplorerInv' /\ [Next]_vars => SoundInv'
  BY CounterStep, FoundStep, ReportStep DEF SoundInv
<1> QED
  BY <1>1, InitSound, Searched, PTL DEF Spec

\* A result has the capacity asked for, also if it comes from a refinement,
\* which does not verify it.
THEOREM ResultsFit == Spec => []BestFits
<1>1. ExplorerInv /\ SoundInv => BestFits
  BY DesignIsSet
     DEF ExplorerInv, AllWritten, Written, SoundInv, FoundInv, DesignsFit, BestFits
<1> QED
  BY <1>1, Sound, PTL

\* What is reported was evaluated, has the capacity and meets the limits, a
\* cache has its tag array, and the csv file has a row for every solution.
THEOREM ReportsAreSound == Spec => []ReportIsSound
<1>1. SoundInv => ReportIsSound
  BY DEF SoundInv
<1> QED
  BY <1>1, Sound, PTL
-----------------------------------------------------------------------------
(* The refinement of the global wire.                                      *)

\* Result t of the array is at least as good with its wire as with wire k of
\* the refined range.
Settled(m, t, k) ==
  LET r == best[m][t]
      x == Trial(m, r.design, r.local, GlobalRange[m][k])
  IN  WithinLimit(x.cost, LimitOf(m)) => r.cost[t] <= x.cost[t]

\* The global wires before the cursor have been tried.
SettledInv ==
  FiniteCosts =>
    /\ phase = "refineGlobal" =>
         \A t \in Targets, k \in 1 .. Len(GlobalRange[mem]) :
           k < cursor => Settled(mem, t, k)
    /\ phase = "wrapUp" /\ numSolution > 0 =>
         \A t \in Targets, k \in 1 .. Len(GlobalRange[mem]) : Settled(mem, t, k)

LEMMA InitSettled == Init => SettledInv
BY DEF Init, SettledInv

\* One iteration of the loop over global wires.
LEMMA GlobalStep ==
  ASSUME ExplorerInv, ExplorerInv', Found(mem), RefineGlobal,
         NEW t \in Targets, NEW k \in 1 .. Len(GlobalRange[mem]),
         k < cursor => Settled(mem, t, k), k < cursor + 1
  PROVE  Settled(mem, t, k)'
<1>1. PICK m \in Memory : m = mem
  BY DEF ExplorerInv, TypeOK
<1>2. /\ best \in [Memory -> [Targets -> ResultType]] /\ cursor \in Nat
      /\ best' \in [Memory -> [Targets -> ResultType]]
      /\ physics' = physics /\ limit' = limit /\ mem' = m
  BY <1>1 DEF ExplorerInv, TypeOK, RefineGlobal, rigid
<1>3. PICK r \in ResultType : r = best[m][t]
  BY <1>2
<1>4. PICK x : x = Trial(m, r.design, r.local, GlobalRange[m][cursor])
  OBVIOUS
<1>5. UnsetTargets(m) = {}
  BY <1>1, FoundIsSet DEF UnsetTargets, Found
<1>6. r.design \in Design(m) /\ r.local \in Wires
  BY <1>3, <1>5 DEF ExplorerInv, AllWritten, Written, UnsetTargets
<1>7. best'[m][t] = CompareAndUpdate(r, x, LimitOf(m), t)
  BY <1>1, <1>2, <1>3, <1>4, <1>5 DEF RefineGlobal, TryAndUpdate, Record
<1>8. PICK s \in ResultType : s = best'[m][t]
  BY <1>2
<1>9. GlobalRange[m][k] \in Wires
  BY <1>1
<1>10. PICK y : y = Trial(m, r.design, r.local, GlobalRange[m][k])
  OBVIOUS
<1>11. y \in ResultType /\ y.cost[t] \in Nat /\ r.cost[t] \in Nat /\ s.cost[t] \in Nat
  <2>1. y \in ResultType
    BY <1>6, <1>9, <1>10, TrialFacts DEF ExplorerInv, TypeOK
  <2> QED
    BY <2>1 DEF ResultType, Costs
<1>12. s.design = r.design /\ s.local = r.local
  BY <1>4, <1>7, <1>8 DEF CompareAndUpdate, Trial
<1>13. WithinLimit(y.cost, LimitOf(m)) => s.cost[t] <= y.cost[t]
  <2>1. CASE k = cursor
    BY <1>4, <1>7, <1>8, <1>10, <1>11, <2>1 DEF CompareAndUpdate
  <2>2. CASE k # cursor
    <3>1. Settled(m, t, k)
      BY <1>1, <1>2, <2>2
    <3>2. WithinLimit(y.cost, LimitOf(m)) => r.cost[t] <= y.cost[t]
      BY <1>3, <1>10, <3>1 DEF Settled
    <3>3. s = r \/ s.cost[t] < r.cost[t]
      BY <1>7, <1>8 DEF CompareAndUpdate
    <3> QED
      BY <1>11, <3>2, <3>3
  <2> QED
    BY <2>1, <2>2
<1>14. LimitOf(m)' = LimitOf(m)
  BY <1>2 DEF LimitOf
<1>15. Trial(m, s.design, s.local, GlobalRange[m][k])' = y
  BY <1>2, <1>10, <1>12, <1>8 DEF Trial, Outcome
<1> QED
  BY <1>1, <1>2, <1>8, <1>13, <1>14, <1>15 DEF Settled, Trial, Outcome

LEMMA NextSettled ==
  ASSUME ExplorerInv, ExplorerInv', SoundInv, SettledInv, [Next]_vars
  PROVE  SettledInv'
<1> USE DEF Memory
<1> SUFFICES ASSUME FiniteCosts
             PROVE  /\ phase' = "refineGlobal" =>
                         \A t \in Targets, k \in 1 .. Len(GlobalRange[mem']) :
                           k < cursor' => Settled(mem, t, k)'
                    /\ phase' = "wrapUp" /\ numSolution' > 0 =>
                         \A t \in Targets, k \in 1 .. Len(GlobalRange[mem']) :
                           Settled(mem, t, k)'
  BY FiniteStays DEF SettledInv
<1>0. mem \in Memory /\ cursor \in Nat
  BY DEF ExplorerInv, TypeOK
<1>1. CASE RefineGlobal
  <2>1. /\ phase = "refineGlobal" /\ phase' = phase /\ mem' = mem /\ cursor' = cursor + 1
    BY <1>1 DEF RefineGlobal
  <2>2. Found(mem)
    BY <2>1 DEF SoundInv, FoundInv, CounterInv
  <2> QED
    BY <1>1, <2>1, <2>2, GlobalStep DEF SettledInv
<1>2. CASE EndRefineLocal
  BY <1>2 DEF EndRefineLocal
<1>3. CASE EndRefineGlobal
  <2>1. /\ phase = "refineGlobal" /\ phase' = "wrapUp"
        /\ UNCHANGED <<physics, best, limit, mem>> /\ cursor > Len(GlobalRange[mem])
    BY <1>3 DEF EndRefineGlobal, rigid
  <2>2. \A t \in Targets, k \in 1 .. Len(GlobalRange[mem]) : Settled(mem, t, k)
    BY <1>0, <2>1 DEF SettledInv
  <2> QED
    BY <2>1, <2>2 DEF Settled, Trial, Outcome, LimitOf
<1>4. CASE EndSearch
  BY <1>4 DEF EndSearch
<1>5. CASE Exited \/ UNCHANGED vars
  <2>1. UNCHANGED vars
    BY <1>5 DEF Exited
  <2>2. \A t \in Targets, k \in 1 .. Len(GlobalRange[mem]) : Settled(mem, t, k) => Settled(mem, t, k)'
    BY <2>1 DEF vars, rigid, Settled, Trial, Outcome, LimitOf
  <2> QED
    BY <2>1, <2>2 DEF vars, SettledInv
<1>6. CASE phase' \notin {"refineGlobal", "wrapUp"}
  BY <1>6
<1> QED
  BY <1>1, <1>2, <1>3, <1>4, <1>5, <1>6
     DEF Next, StartTag, StartData, BeginSearch, SkipDesign, AcceptDesign, InSearch,
         CapacityViolation, RefineLocal, CrashOnUnset, NoTagSolution, FinishTag,
         StartConstrained, SkipConstrained, AcceptConstrained, Report

\* When every bank has finite metrics, the refinements leave no result that
\* another global wire of the range would improve for its target.
THEOREM GlobalWiresAreStationary == Spec => [](FiniteCosts => GlobalWireIsStationary)
<1>1. SettledInv => (FiniteCosts => GlobalWireIsStationary)
  BY DEF SettledInv, Settled, GlobalWireIsStationary
<1>2. ExplorerInv /\ ExplorerInv' /\ SoundInv /\ SettledInv /\ [Next]_vars => SettledInv'
  BY NextSettled
<1> QED
  BY <1>1, <1>2, InitSettled, Sound, PTL DEF Spec
=============================================================================
