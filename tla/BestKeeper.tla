----------------------------- MODULE BestKeeper -----------------------------
(***************************************************************************)
(* What the exploration promises of its sixteen results, without saying    *)
(* how banks are visited: each slot (an array and a target) keeps the      *)
(* least of the costs that were offered to it, and forgets everything when *)
(* new limits are set.                                                     *)
(***************************************************************************)
EXTENDS Integers

CONSTANTS
  Slots,   \* the results: an array and an optimization target
  Worst    \* the cost of a slot that keeps nothing

VARIABLES
  offers,  \* [Slots -> SUBSET Nat], admissible costs seen since the reset
  kept     \* [Slots -> Nat], the cost of the result in the slot

keeperVars == <<offers, kept>>

\* A slot keeps the least offer, or nothing if no offer is below Worst.
KeepsLeast(s) ==
  /\ kept[s] \in offers[s] \cup {Worst}
  /\ kept[s] <= Worst
  /\ \A c \in offers[s] : kept[s] <= c

KeeperInit ==
  /\ offers = [s \in Slots |-> {}]
  /\ kept = [s \in Slots |-> Worst]

\* Any number of slots receive offers.
Offer ==
  \A s \in Slots : offers[s] \subseteq offers'[s] /\ KeepsLeast(s)'

\* The slots of R start afresh; the others are not disturbed.
Restart(R) ==
  \A s \in Slots :
    IF s \in R THEN offers'[s] = {} /\ kept'[s] = Worst
    ELSE offers'[s] = offers[s] /\ kept'[s] = kept[s]

KeeperNext == Offer \/ \E R \in SUBSET Slots : Restart(R)

KeeperSpec == KeeperInit /\ [][KeeperNext]_keeperVars
=============================================================================
