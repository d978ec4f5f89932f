------------------------------ MODULE Repeater ------------------------------
(***************************************************************************)
(* The repeaters of a wire (Wire::findOptimalRepeater and                  *)
(* Wire::findPenalizedRepeater).  From the spacing and size of the fastest *)
(* repeaters, two nested loops look for wider spacings and smaller         *)
(* repeaters that save energy and leakage and stay within the delay that   *)
(* the penalty allows.                                                     *)
(*                                                                         *)
(* A repeater is a pair <<spacing, size>> of steps from the optimum: the   *)
(* spacing grows by 100 um with each step, the size shrinks by 1.  What    *)
(* the getters return for it is a table, `circuit` (see RepeaterGrid).     *)
(***************************************************************************)
EXTENDS RepeaterGrid

VARIABLES
  circuit,
  penalty,
  lastSize,   \* the last step with a size of at least 1; -1 if there is none
  pc,
  spacing,    \* repeaterSpacing and repeaterSize
  size,
  target,     \* targetRepeaterSpacing and targetRepeaterSize
  current,    \* what currentDynamicEnergy and currentLeakage belong to
  tried       \* history: the repeaters the loops have evaluated

vars == <<circuit, penalty, lastSize, pc, spacing, size, target, current, tried>>

\* findOptimalRepeater has run; the penalised search begins where it ended.
Init ==
  /\ circuit \in Circuits /\ penalty \in Penalties
  /\ lastSize \in -1 .. MaxSize
  /\ pc = "search"
  /\ spacing = 0 /\ size = 0
  /\ target = Optimum /\ current = Optimum
  /\ tried = {}

\* Mutant: the penalty is taken from the delay of the repeater tried.
AnySpeed(r) == 100 * circuit.delay[r] <= (100 + penalty) * circuit.delay[r]

\* getRepeatedWireUnitDelay() * (1 + _penalty) is targetDelay.
FastEnough(r) ==
  100 * circuit.delay[r] <= (100 + penalty) * circuit.delay[Optimum]

\* Mutant: the leakage is not compared.
CheaperEnergy(r, old) == circuit.energy[r] < 2 * circuit.energy[old]

\* The relative energy and the relative leakage are together less than 2.
Cheaper(r, old) ==
  circuit.energy[r] * circuit.leakage[old] + circuit.leakage[r] * circuit.energy[old]
    < 2 * circuit.energy[old] * circuit.leakage[old]

\* The body of the inner loop.
Try ==
  /\ pc = "search" /\ spacing <= LastSpacing /\ size <= lastSize
  /\ LET here == <<spacing, size>>
     IN  /\ tried' = tried \cup {here}
         /\ IF FastEnough(here) /\ Cheaper(here, current)
            THEN target' = here /\ current' = here
            ELSE UNCHANGED <<target, current>>
  /\ size' = size + 1
  /\ UNCHANGED <<circuit, penalty, lastSize, pc, spacing>>

\* The inner loop has no initialisation: repeaterSize stays where it ended.
NextSpacing ==
  /\ pc = "search" /\ spacing <= LastSpacing /\ size > lastSize
  /\ spacing' = spacing + 1
  /\ UNCHANGED <<circuit, penalty, lastSize, pc, size, target, current, tried>>

\* The loops are over: the target becomes the repeater of the wire.
Finish ==
  /\ pc = "search" /\ spacing > LastSpacing
  /\ spacing' = target[1] /\ size' = target[2]
  /\ pc' = "done"
  /\ UNCHANGED <<circuit, penalty, lastSize, target, current, tried>>

Finished == pc = "done" /\ UNCHANGED vars

Next == Try \/ NextSpacing \/ Finish \/ Finished

Spec == Init /\ [][Next]_vars

-----------------------------------------------------------------------------
(***************************************************************************)
(* Properties.                                                             *)
(***************************************************************************)
Cost(r) == circuit.energy[r] * circuit.leakage[r]

\* The repeaters of a finished wire are no slower than the wire type promises
\* ("5% delay overhead" and so on, typedef.h:83), although the search moves the
\* very fields from which it computes delays.
WithinPenalty ==
  pc = "done" =>
    100 * (circuit.delay[<<spacing, size>>] - circuit.delay[Optimum])
      <= penalty * circuit.delay[Optimum]

\* Whenever the search prefers a repeater, the product of energy and leakage
\* falls: the test on the sum of two ratios, each against the repeater chosen
\* last and not against the optimum, never leads back to a costlier one.
CostFalls ==
  [][pc = "search" /\ target' # target => Cost(target') < Cost(target)]_vars

\* "Start finding the target repeated wire" (Wire.cpp:716): the nested loops try
\* each size at each spacing up to four times the optimal one.
AllSpacingsTried ==
  pc = "done" => tried = (0 .. LastSpacing) \X (0 .. lastSize)
=============================================================================
