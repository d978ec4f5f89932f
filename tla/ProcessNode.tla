---------------------------- MODULE ProcessNode ----------------------------
(***************************************************************************)
(* Device constants for a process node: main() initialises two             *)
(* technologies, each from the table of a node of the ladder, and          *)
(* interpolates between them; wires have tables of their own               *)
(* (Technology.cpp, main.cpp:95-121, Wire.cpp:81-459).                     *)
(*                                                                         *)
(* A technology is the node whose table it has and the temperatures, in    *)
(* kelvin above 300, for which it has currents.  Fractions are pairs of a  *)
(* numerator and a denominator.                                            *)
(***************************************************************************)
EXTENDS Integers, FiniteSets

CONSTANTS
  Nodes,        \* process nodes, in nanometres
  NoTable       \* a technology nobody wrote

VARIABLES
  node,        \* processNode
  tech,        \* the technology all circuits use
  techHigh,
  alpha,       \* the weight of techHigh
  wireNode,    \* the node whose table Wire::Initialize takes
  reliable,    \* no value nobody wrote went into tech
  pc

vars == <<node, tech, techHigh, alpha, wireNode, reliable, pc>>

Ladder == {22, 32, 45, 65, 90, 120, 200}

\* Technology::Technology
Constructed == [table |-> NoTable, currents |-> {}]

Init ==
  /\ node \in Nodes
  /\ tech = Constructed /\ techHigh = Constructed
  /\ alpha = <<0, 1>>
  /\ wireNode = NoTable
  /\ reliable = TRUE
  /\ pc = "tech"

\* The table of the largest node of the ladder that is not larger.
TableOf(n) ==
  IF n < 22 THEN NoTable
  ELSE CHOOSE t \in Ladder : t <= n /\ \A u \in Ladder : u <= n => u <= t

\* Every tenth temperature is in the tables.
Tabulated == {10 * i : i \in 0 .. 10}

\* The loops that interpolate between the tens.
Between == {i \in 1 .. 99 : i % 10 # 0 /\ {(i \div 10) * 10, (i \div 10) * 10 + 10} \subseteq Tabulated}

\* Technology::Initialize
Initialized(n) == [table |-> TableOf(n), currents |-> Tabulated \cup Between]

InitializeTech ==
  /\ pc = "tech"
  /\ tech' = Initialized(node)
  /\ reliable' = (TableOf(node) # NoTable)
  /\ pc' = "techHigh"
  /\ UNCHANGED <<node, techHigh, alpha, wireNode>>

\* Mutant: the difference of another pair of nodes.
BranchOf20 ==
  CASE node > 120 -> <<200, 120, 60>>
    [] node > 90 /\ node <= 120 -> <<120, 90, 30>>
    [] node > 65 /\ node <= 90 -> <<90, 65, 20>>
    [] node > 45 /\ node <= 65 -> <<65, 45, 20>>
    [] node >= 32 /\ node <= 45 -> <<45, 32, 13>>
    [] OTHER -> <<32, 22, 10>>

\* The upper node, the lower node, and what their difference is taken for.
Branch ==
  CASE node > 120 -> <<200, 120, 60>>
    [] node > 90 /\ node <= 120 -> <<120, 90, 30>>
    [] node > 65 /\ node <= 90 -> <<90, 65, 25>>
    [] node > 45 /\ node <= 65 -> <<65, 45, 20>>
    [] node >= 32 /\ node <= 45 -> <<45, 32, 13>>
    [] OTHER -> <<32, 22, 10>>

InitializeHigh ==
  /\ pc = "techHigh"
  /\ IF node \in 22 .. 200
     THEN /\ techHigh' = Initialized(Branch[1])
          /\ alpha' = <<node - Branch[2], Branch[3]>>
     ELSE UNCHANGED <<techHigh, alpha>>
  /\ pc' = "interpolate"
  /\ UNCHANGED <<node, tech, wireNode, reliable>>

\* Technology::InterpolateWith, unless both are of the same node.  With a
\* technology that was never initialised the node compared and the fields are
\* whatever they are.
InterpolateWith ==
  /\ pc = "interpolate"
  /\ \/ techHigh.table = NoTable /\ reliable' \in {reliable, FALSE}
     \/ techHigh.table # NoTable /\ UNCHANGED reliable
  /\ pc' = "wire"
  /\ UNCHANGED <<node, tech, techHigh, alpha, wireNode>>

\* Wire::Initialize takes the table of the smallest node that is not smaller.
InitializeWire ==
  /\ pc = "wire"
  /\ wireNode' = IF node > 200 THEN NoTable
                 ELSE CHOOSE t \in Ladder : t >= node /\ \A u \in Ladder : u >= node => t <= u
  /\ pc' = "done"
  /\ UNCHANGED <<node, tech, techHigh, alpha, reliable>>

Done == pc = "done" /\ UNCHANGED vars

Next == InitializeTech \/ InitializeHigh \/ InterpolateWith \/ InitializeWire \/ Done

Spec == Init /\ [][Next]_vars

-----------------------------------------------------------------------------
(***************************************************************************)
(* Properties.                                                             *)
(***************************************************************************)
IsInterpolated == node # techHigh.table

\* The weight of the upper table is the share of the way from the lower table to
\* the upper one that the node is at.
IsWeighted == alpha[1] * (techHigh.table - tech.table) = alpha[2] * (node - tech.table)

\* The weight is below 0 or above 1, and the result not between the two tables.
LeavesTables == ~(0 <= alpha[1] /\ alpha[1] <= alpha[2])

\* From 22 nm to 200 nm the three ladders, of Technology::Initialize, of main()
\* and of Wire::Initialize, agree.  A node between two tables takes its devices
\* from these two and its wires from the larger; a node with a table has the
\* devices and the wires of this table.  All temperatures from 300 K to 400 K
\* have currents.
\* Up to 120 nm a node is interpolated in proportion.  Above, it is not, for
\* main.cpp:103 divides by 60 although the tables are 80 nm apart: every weight
\* is wrong there, and from 181 nm on the result leaves the tables.
LaddersAgree ==
  pc = "done" /\ node \in 22 .. 200 =>
    /\ reliable
    /\ 0 .. 100 \subseteq tech.currents \cap techHigh.currents
    /\ IF node \in Ladder
       THEN /\ tech.table = node /\ wireNode = node
            /\ IsInterpolated => alpha[1] = 0
       ELSE /\ tech.table < node /\ node < techHigh.table
            /\ Ladder \cap (tech.table + 1 .. techHigh.table - 1) = {}
            /\ wireNode = techHigh.table
            /\ IsWeighted <=> node < 120
            /\ LeavesTables <=> node > 180
=============================================================================
