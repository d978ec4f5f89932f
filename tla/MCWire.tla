------------------------------- MODULE MCWire -------------------------------
(***************************************************************************)
(* A small instance of WireRepeaters: two wire types, two kinds of         *)
(* repeaters, one stored result and one sense amplifier; three spacings    *)
(* and three sizes of repeaters.                                           *)
(***************************************************************************)
EXTENDS WireRepeaters

MCTypes == {"global_aggressive", "global_conservative"}
MCRepeated == {"repeated_opt", "repeated_20"}
MCPenalty == [r \in {"repeated_20"} |-> 20]

\* Delay grows away from the optimum; leakage falls with the size and with the
\* number of repeaters; energy falls with the size and may rise with the spacing.
CircuitOf(slow, save, leak) ==
  [delay |-> [r \in Repeaters |-> 20 + slow * (r[1] + r[2])],
   energy |-> [r \in Repeaters |-> 4 + save[1 + ((r[1] + r[2]) % 3)]],
   leakage |-> [r \in Repeaters |-> 1 + leak[1 + ((r[1] + 2 * r[2]) % 3)]]]

MCCircuits ==
  {CircuitOf(s, e, l) : s \in {1, 3}, e \in {<<3, 0, 5>>}, l \in {<<3, 0, 6>>, <<1, 6, 0>>}}
MCFabrics ==
  {[t \in MCTypes |-> [circuit |-> c, lastSize |-> IF t = "global_aggressive" THEN 2 ELSE n]] :
     c \in MCCircuits, n \in {-1, 1}}
=============================================================================
