---------------------------- MODULE RepeaterGrid ----------------------------
(***************************************************************************)
(* The repeaters that Wire::findPenalizedRepeater chooses from.  A         *)
(* repeater is a pair <<spacing, size>> of steps from the optimum: the     *)
(* spacing grows by 100 um with each step, the size shrinks by 1.          *)
(***************************************************************************)
EXTENDS Integers

CONSTANTS
  LastSpacing,   \* the steps from the optimal spacing to four times as much
  MaxSize,       \* a bound on the steps from the optimal size to 1
  Penalties,     \* the delay overheads of repeated_5 ... repeated_50, in percent
  Circuits       \* what the getters may return

\* A repeater below the minimum size (the optimum itself) has no step at all.
Repeaters == (0 .. LastSpacing + 1) \X (0 .. MaxSize + 1)
Positive == Nat \ {0}
Optimum == <<0, 0>>

\* getRepeatedWireUnitDelay, ...DynamicEnergy and ...Leakage, for each repeater.
CircuitType ==
  [delay : [Repeaters -> Positive], energy : [Repeaters -> Positive],
   leakage : [Repeaters -> Positive]]

ASSUME RepeaterAssumption ==
  /\ LastSpacing \in Nat /\ MaxSize \in Nat /\ Penalties \subseteq Nat
  /\ Circuits \subseteq CircuitType
=============================================================================
