----------------------------- MODULE MCExplorer -----------------------------
(***************************************************************************)
(* Small instances of Explorer: two arrays, two or three designs, two      *)
(* wires, two targets.  The tables of the circuit model are enumerated by  *)
(* a seed: a pseudo-random cost for each design, wire pair and target,     *)
(* where the value 0 of the first metric marks an invalid bank.            *)
(***************************************************************************)
EXTENDS Explorer, TLC

CONSTANTS TagSeeds, DataSeeds, Scale

MCTargets == {"readLatency", "area"}
MCNumDesigns == ("tag" :> 2) @@ ("data" :> 3)
MCWires == {0, 1}
MCRange == [m \in Memory |-> <<0, 1>>]
MCBasic == [m \in Memory |-> 0]
MCWorst == 9

Hash(seed, d, l, g, k) ==
  LET x == (seed + 3) * (7 * d + 3 * l + 11 * g + 5 * k + 13) + d * d + l * g * seed
  IN  ((x * x) \div 7) % Scale

\* A seed for which no bank is valid.
Hopeless == 100

\* Every fourth seed has designs that do not divide the block, every fifth one
\* a design of the wrong capacity.
Holes(seed, n) == IF seed % 4 = 3 THEN {(seed % n) + 1} ELSE {}
Misfits(seed, n) == IF seed % 5 = 4 THEN {((seed + 1) % n) + 1} ELSE {}

\* Seeds above 200: one design is valid, and its area is near 1e41, with the basic
\* wires just too large to be stored.
NearWorst(seed, p, b) ==
  IF seed > 200 THEN (IF p[2] = 0 /\ p[3] = 0 THEN Worst ELSE Worst + b - 2) ELSE b + 1

TableOf(seed, m) ==
  [p \in AnyDesign \X Wires \X Wires |->
     LET a == Hash(seed, p[1], p[2], p[3], 0)
         b == Hash(seed, p[1], p[2], p[3], 1)
     IN  IF a = 0 \/ seed = Hopeless \/ (seed > 200 /\ p[1] # 2) THEN Invalid
         ELSE ("readLatency" :> a) @@ ("area" :> NearWorst(seed, p, b))]

MCPhysics ==
  { LET seed == [m \in Memory |-> IF m = "tag" THEN s ELSE r]
    IN  [divisible |-> [m \in Memory |->
           Design(m) \ Holes(seed[m], NumDesigns[m])],
         fits |-> [m \in Memory |-> Design(m) \ Misfits(seed[m], NumDesigns[m])],
         outcome |-> [m \in Memory |-> TableOf(seed[m], m)]] :
    s \in TagSeeds, r \in DataSeeds }

Slacks ==
  { [t \in Targets |-> 0], [t \in Targets |-> 50],
    ("readLatency" :> 0) @@ ("area" :> 400) }

MCConfigs ==
  { [cache |-> c, target |-> "area", pruning |-> FALSE, constrained |-> TRUE,
     slack |-> s] : c \in BOOLEAN, s \in Slacks }
  \cup
  { [cache |-> c, target |-> t, pruning |-> p, constrained |-> FALSE,
     slack |-> [u \in Targets |-> 0]] :
     c \in BOOLEAN, t \in {"readLatency", FullExploration}, p \in BOOLEAN }
=============================================================================
