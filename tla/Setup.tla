------------------------------- MODULE Setup -------------------------------
(***************************************************************************)
(* How main() sets up what the exploration evaluates with: the             *)
(* technology, the memory cell and the tables of the wires, one after      *)
(* another, and the banks that use them afterwards (main.cpp:95-301 and    *)
(* 462-470).  Composes ProcessNode and CellFile, of which each takes its   *)
(* steps when the other has reached the place in main() before them.       *)
(***************************************************************************)
EXTENDS CellFile

CONSTANTS
  Nodes,         \* process nodes, in nanometres
  NoTable,       \* a technology nobody wrote
  Inputs         \* the process nodes and cell files that are given together

VARIABLES node, tech, techHigh, alpha, wireNode, reliable, stage

technology == <<node, tech, techHigh, alpha, wireNode, reliable, stage>>

Technology == INSTANCE ProcessNode WITH pc <- stage

ASSUME NodesAssumption == Nodes \subseteq Nat /\ NoTable \notin Technology!Ladder

SetupInit == Init /\ Technology!Init /\ <<node, file>> \in Inputs

\* Before the cell file is opened, tech is initialised and interpolated.
InitializeTech == Technology!InitializeTech /\ UNCHANGED vars
InitializeHigh == Technology!InitializeHigh /\ UNCHANGED vars
InterpolateWith == Technology!InterpolateWith /\ UNCHANGED vars

\* cell->ReadCellFromFile
ReadCell == stage = "wire" /\ (ReadLine \/ EndOfFile) /\ UNCHANGED technology

\* The wires are initialised when the first search begins, and then for each
\* wire of the refinements with the same tables.
InitializeWires == pc = "explore" /\ Technology!InitializeWire /\ UNCHANGED vars

\* Banks are evaluated with the technology, the cell and the wires.
Explore == stage = "done" /\ (CalculatePower \/ Finish) /\ UNCHANGED technology

Exited == Done /\ UNCHANGED technology

SetupNext ==
  \/ InitializeTech \/ InitializeHigh \/ InterpolateWith
  \/ ReadCell \/ InitializeWires \/ Explore \/ Exited

SetupSpec == SetupInit /\ [][SetupNext]_<<vars, technology>>

-----------------------------------------------------------------------------
\* The ladders of process nodes in Technology::Initialize, main() and
\* Wire::Initialize agree from 22 nm to 200 nm, and main() interpolates in
\* proportion up to 120 nm but not above (see ProcessNode).
LaddersAgree == Technology!LaddersAgree
=============================================================================
