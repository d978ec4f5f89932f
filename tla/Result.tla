------------------------------- MODULE Result -------------------------------
(***************************************************************************)
(* The best-so-far record of Result.cpp.                                   *)
(*                                                                         *)
(* A Result holds a copy of one evaluated bank, the two wire               *)
(* configurations it was evaluated with, one limit for each metric and the *)
(* metric it optimises.  The eight metrics (six FunctionUnit fields and    *)
(* the two energy-delay products) are abstracted to one natural number for *)
(* each optimisation target; 1e41, the code's infinity, is Worst.          *)
(*                                                                         *)
(* A result is a record with fields design, local, global (what was        *)
(* evaluated) and cost (its metrics).                                      *)
(***************************************************************************)
EXTENDS Integers

CONSTANTS
  Targets,   \* the values of OptimizationTarget below full_exploration
  Worst      \* 1e41, "the worst case" and "no constraint"

ASSUME ResultAssumption == Targets # {} /\ Worst \in Nat

Costs == [Targets -> Nat]

\* The metrics written by the constructor, by reset() and by an invalid bank.
WorstCost == [t \in Targets |-> Worst]

\* The limits of a result nobody constrained.
NoLimit == [t \in Targets |-> Worst]

(***************************************************************************)
(* compareAndUpdate: the first test is on all eight metrics, whatever the  *)
(* target; the second is strict, so the first of two equal results stays.  *)
(***************************************************************************)
WithinLimit(cost, limit) == \A t \in Targets : cost[t] <= limit[t]

\* Mutants: the comparison is dropped; the limits are dropped.
UpdateUncompared(old, new, limit, t) ==
  IF WithinLimit(new.cost, limit) THEN new ELSE old

CompareAndUpdate(old, new, limit, t) ==
  IF WithinLimit(new.cost, limit) /\ new.cost[t] < old.cost[t]
  THEN new
  ELSE old

\* Mutant: the result keeps its metrics.
ResetNothing(result) == result

\* reset() writes the metrics only: the bank organisation and the wires of
\* the previous winner stay behind.
ResetResult(result) == [result EXCEPT !.cost = WorstCost]
=============================================================================
