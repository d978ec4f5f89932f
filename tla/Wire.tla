-------------------------------- MODULE Wire --------------------------------
(***************************************************************************)
(* The Wire objects of one role.  One wire, the global variable of main(), *)
(* is initialised again and again, evaluated, and copied into the          *)
(* temporary result and from there into stored results, from which its     *)
(* settings are loaded again (Wire.cpp, and the macros that use it).       *)
(*                                                                         *)
(* A field is what it was computed from: `geometry` stands for the fields  *)
(* from barrierThickness to capWirePerUnit, which follow from the wire     *)
(* type (for process nodes up to 200 nm), `repeaters` for repeaterSize to  *)
(* repeatedWirePitch, which a wire without repeaters never writes.         *)
(***************************************************************************)
EXTENDS Integers

CONSTANTS
  Types,      \* the wire types the ranges allow
  Repeated,   \* the repeater types other than repeated_none
  Results,    \* the stored results
  MaxAmp,     \* a bound on the sense amplifiers that are ever allocated
  Unset,      \* the value of a field nobody wrote
  NoAmp       \* a NULL senseAmp

None == "repeated_none"
Working == "work"
Temp == "temp"

ASSUME WireAssumption ==
  /\ None \notin Repeated /\ MaxAmp \in Nat
  /\ Results \cap {Working, Temp} = {}

VARIABLES
  wire,      \* the Wire of main(), of the temporary result and of each stored one
  allocated, \* the sense amplifiers that were allocated, numbered
  freed,     \* those that were deleted
  copied,    \* the temporary result holds a copy of the working wire
  pc

vars == <<wire, allocated, freed, copied, pc>>

Slots == {Working, Temp} \cup Results
Setting == [type : Types, repeater : Repeated \cup {None}, lowSwing : BOOLEAN]

\* Wire::Wire
Constructed ==
  [initialized |-> FALSE, setting |-> Unset, geometry |-> Unset, repeaters |-> Unset,
   senseAmp |-> NoAmp]

Init ==
  /\ wire = [s \in Slots |-> Constructed]
  /\ allocated = 0 /\ freed = {}
  /\ copied = FALSE
  /\ pc = "run"

\* "Low Swing is not supported for repeated wires!"
Supported(setting) == setting.repeater = None \/ ~setting.lowSwing

\* What an initialised wire owns is deleted.
Owned(w) == IF w.senseAmp = NoAmp THEN {} ELSE {w.senseAmp}

\* Mutant: the repeaters are looked for only once.
RepeatersOnce(w, setting) ==
  IF setting.repeater # None /\ w.repeaters = Unset
  THEN [type |-> setting.type, repeater |-> setting.repeater] ELSE w.repeaters

\* The optimal or penalised repeaters of the wire type.
RepeatersOf(w, setting) ==
  IF setting.repeater # None
  THEN [type |-> setting.type, repeater |-> setting.repeater] ELSE w.repeaters

\* Wire::Initialize of the working wire.
Initialize(setting) ==
  /\ freed' = IF wire[Working].initialized THEN freed \cup Owned(wire[Working]) ELSE freed
  /\ IF Supported(setting)
     THEN /\ wire' = [wire EXCEPT ![Working] =
               [initialized |-> TRUE, setting |-> setting, geometry |-> setting.type,
                repeaters |-> RepeatersOf(@, setting),
                senseAmp |-> IF @.initialized THEN NoAmp ELSE @.senseAmp]]
          /\ UNCHANGED pc
     ELSE /\ wire' = [wire EXCEPT ![Working] =
               [@ EXCEPT !.initialized = FALSE, !.setting = setting, !.senseAmp = NoAmp]]
          /\ pc' = "exit"
  /\ copied' = FALSE
  /\ UNCHANGED allocated

\* The basic wire, or the next wire of a refinement loop.
SetWire == pc = "run" /\ \E setting \in Setting : Initialize(setting)

\* LOAD_LOCAL_WIRE, LOAD_GLOBAL_WIRE
LoadWire ==
  /\ pc = "run"
  /\ \E r \in Results : wire[r].initialized /\ Initialize(wire[r].setting)

\* Wire::CalculateLatencyAndPower, for one level of a bank.  A wire with low
\* swing gets a new sense amplifier, over the last one.
CalculateLatencyAndPower ==
  /\ pc = "run" /\ wire[Working].initialized
  /\ IF wire[Working].setting.lowSwing
     THEN /\ allocated < MaxAmp
          /\ allocated' = allocated + 1
          /\ wire' = [wire EXCEPT ![Working].senseAmp = allocated']
     ELSE UNCHANGED <<allocated, wire>>
  /\ copied' = FALSE
  /\ UNCHANGED <<freed, pc>>

\* Mutants: the copies of a compiler-generated operator=, and of one that
\* leaves out the repeaters.
AssignAll(to, from) == from
AssignGeometry(to, from) == [from EXCEPT !.senseAmp = to.senseAmp, !.repeaters = to.repeaters]

\* Wire::operator= leaves senseAmp alone.
Assign(to, from) == [from EXCEPT !.senseAmp = to.senseAmp]

\* *(tempResult.globalWire) = *globalWire
CopyToTemp ==
  /\ pc = "run" /\ wire[Working].initialized /\ ~copied
  /\ wire' = [wire EXCEPT ![Temp] = Assign(@, wire[Working])]
  /\ copied' = TRUE
  /\ UNCHANGED <<allocated, freed, pc>>

\* Result::compareAndUpdate prefers the temporary result.
Keep ==
  /\ pc = "run" /\ copied
  /\ \E r \in Results : wire' = [wire EXCEPT ![r] = Assign(@, wire[Temp])]
  /\ UNCHANGED <<allocated, freed, copied, pc>>

\* A temporary result goes out of scope, and the next one is constructed.
RenewTemp ==
  /\ pc = "run" /\ wire[Temp].initialized
  /\ freed' = freed \cup Owned(wire[Temp])
  /\ wire' = [wire EXCEPT ![Temp] = Constructed]
  /\ copied' = FALSE
  /\ UNCHANGED <<allocated, pc>>

\* The end of main(): the global wire is deleted, and the results with theirs.
Delete ==
  /\ pc = "run" /\ wire[Working].initialized
  /\ freed' = freed \cup UNION {Owned(wire[s]) : s \in Slots}
  /\ pc' = "deleted"
  /\ UNCHANGED <<wire, allocated, copied>>

Ended == pc \in {"exit", "deleted"} /\ UNCHANGED vars

Next ==
  \/ SetWire \/ LoadWire \/ CalculateLatencyAndPower \/ CopyToTemp \/ Keep \/ RenewTemp
  \/ Delete \/ Ended

Spec == Init /\ [][Next]_vars

-----------------------------------------------------------------------------
(***************************************************************************)
(* Properties.                                                             *)
(***************************************************************************)
\* What the banks read of an initialised wire was computed from its present
\* setting: "reload the new input, clear the previous setting" (Wire.cpp:59)
\* holds however often the object was used before, copied and loaded again.  A
\* wire without repeaters may still have those of an earlier setting, and
\* nobody reads them.
ReadsAreCurrent ==
  \A s \in Slots : wire[s].initialized =>
    LET w == wire[s]
    IN  /\ w.geometry = w.setting.type
        /\ w.setting.repeater # None =>
             w.repeaters = [type |-> w.setting.type, repeater |-> w.setting.repeater]

\* While the program runs no two wires own the same sense amplifier, and none
\* owns one that was deleted: the destructors, and a wire that is initialised
\* again (Wire.cpp:61), delete each of them at most once.
OwnedOnce ==
  pc = "run" => \A s \in Slots :
    /\ Owned(wire[s]) \cap freed = {}
    /\ \A t \in Slots \ {s} : Owned(wire[s]) \cap Owned(wire[t]) = {}
=============================================================================
