----------------------------- MODULE MCRepeater -----------------------------
(***************************************************************************)
(* A small instance of Repeater: three spacings, three sizes, and circuits *)
(* in which a smaller repeater is slower and leaks less, by several laws.  *)
(***************************************************************************)
EXTENDS Repeater

\* Delay grows away from the optimum; leakage falls with the size and with the
\* number of repeaters; energy falls with the size and may rise with the spacing.
Circuit(slow, save, leak) ==
  [delay |-> [r \in Repeaters |-> 20 + slow * (r[1] + r[2])],
   energy |-> [r \in Repeaters |-> 4 + save[1 + ((r[1] + r[2]) % 3)]],
   leakage |-> [r \in Repeaters |-> 1 + leak[1 + ((r[1] + 2 * r[2]) % 3)]]]

Triples == {<<a, b, c>> : a \in {1, 3}, b \in {0, 3, 5}, c \in {0, 1, 6}}
MCCircuits == {Circuit(s, e, l) : s \in {1, 2, 3}, e \in Triples, l \in Triples}
=============================================================================
