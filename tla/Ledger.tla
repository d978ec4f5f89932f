------------------------------- MODULE Ledger -------------------------------
(***************************************************************************)
(* The numbers of an evaluation as accounts of where they come from.       *)
(*                                                                         *)
(* An energy or a leakage is a sum over circuits: an amount says how often *)
(* each part is counted, in units of 1/Unit so that it can be divided by   *)
(* the associativity.  A latency is a sum of maxima: it is the set of its  *)
(* paths, each an amount.  MAX is the union of the paths, and + makes      *)
(* every path of the first go on with every path of the second.  The sizes *)
(* of the terms are left out.                                              *)
(***************************************************************************)
EXTENDS Integers, Functions

CONSTANTS
  Parts,     \* what contributes to latency, energy or leakage
  Unit       \* how an amount counts a part once

Amount == [Parts -> Int]

Nothing == [p \in Parts |-> 0]
Of(part) == [p \in Parts |-> IF p = part THEN Unit ELSE 0]
Plus(a, b) == [p \in Parts |-> a[p] + b[p]]
Minus(a, b) == [p \in Parts |-> a[p] - b[p]]
Times(n, a) == [p \in Parts |-> n * a[p]]
Over(a, n) == [p \in Parts |-> a[p] \div n]

\* a counts everything that b counts, at least as often.
AtLeast(a, b) == \A p \in Parts : a[p] >= b[p]
Only(a, S) == \A p \in Parts \ S : a[p] = 0
Within(a, S) == [p \in Parts |-> IF p \in S THEN a[p] ELSE 0]

\* How often the parts of S are counted together.
CountOf(a, S) == SumFunctionOnSet(a, S)

\* The sum of the values of a function.
SumOver(amounts) == FoldFunction(Plus, Nothing, amounts)

\* No latency at all, which a maximum with anything else does not see.
Instant == {Nothing}

Later(L, M) ==
  LET paths == (L \cup M) \ Instant IN IF paths = {} THEN Instant ELSE paths

Then(L, M) == {Plus(a, b) : a \in L, b \in M}

\* The latencies that are the values of a function, one after the other or side by
\* side.
ThenAll(latencies) == FoldFunction(Then, Instant, latencies)
LatestOf(latencies) == FoldFunction(Later, Instant, latencies)

\* The difference of two latencies of which the first is the second plus
\* something.
Without(L, M) ==
  LET b == CHOOSE m \in M : TRUE
      rests == {Minus(a, b) : a \in L}
  IN  {d \in rests : Then(M, {d}) \subseteq L}
=============================================================================
