---------------------------- MODULE WireRepeaters ----------------------------
(***************************************************************************)
(* Wire::Initialize with the search for its repeaters (Wire.cpp:484-512):  *)
(* a wire type with a penalty runs findPenalizedRepeater before anybody    *)
(* evaluates the wire.  Composes Wire and Repeater: the wire waits while   *)
(* the search, which has no variables left afterwards, takes its steps.    *)
(***************************************************************************)
EXTENDS Wire, RepeaterGrid

CONSTANTS
  Penalty,       \* the penalty of each repeater type that has one, in percent
  Fabrics        \* a circuit and the last size of the optimum, for each wire type

ASSUME WireRepeatersAssumption ==
  /\ DOMAIN Penalty \subseteq Repeated
  /\ \A p \in DOMAIN Penalty : Penalty[p] \in Penalties
  /\ Fabrics \subseteq [Types -> [circuit : Circuits, lastSize : -1 .. MaxSize]]

VARIABLES fabric, stage, spacing, size, target, current, tried

search == <<stage, spacing, size, target, current, tried>>
allVars == <<vars, fabric, search>>

setting == wire[Working].setting
IsPenalised == wire[Working].initialized /\ setting.repeater \in DOMAIN Penalty

\* What the getters return follows from the wire type.
Circuit == IF IsPenalised THEN fabric[setting.type].circuit ELSE CHOOSE c \in Circuits : TRUE
LastSize == IF IsPenalised THEN fabric[setting.type].lastSize ELSE -1
Overhead == IF IsPenalised THEN Penalty[setting.repeater] ELSE CHOOSE p \in Penalties : TRUE

Search == INSTANCE Repeater WITH pc <- stage, circuit <- Circuit, lastSize <- LastSize,
                                 penalty <- Overhead

RepeatersInit ==
  /\ Init /\ fabric \in Fabrics
  /\ stage = "idle"
  /\ spacing = 0 /\ size = 0 /\ target = Optimum /\ current = Optimum /\ tried = {}

\* Wire::Initialize, up to the search.
InitializeWire ==
  /\ stage = "idle" /\ (SetWire \/ LoadWire)
  /\ stage' = IF IsPenalised' THEN "search" ELSE "idle"
  /\ UNCHANGED <<fabric, spacing, size, target, current, tried>>

SearchRepeaters ==
  /\ UNCHANGED <<vars, fabric>>
  /\ Search!Try \/ Search!NextSpacing \/ Search!Finish

\* findPenalizedRepeater returns.
Return ==
  /\ stage = "done" /\ stage' = "idle"
  /\ spacing' = 0 /\ size' = 0 /\ target' = Optimum /\ current' = Optimum /\ tried' = {}
  /\ UNCHANGED <<vars, fabric>>

UseWire ==
  /\ stage = "idle"
  /\ \/ CalculateLatencyAndPower \/ CopyToTemp \/ Keep \/ RenewTemp \/ Delete \/ Ended
  /\ UNCHANGED <<fabric, search>>

RepeatersNext == InitializeWire \/ SearchRepeaters \/ Return \/ UseWire

RepeatersSpec == RepeatersInit /\ [][RepeatersNext]_allVars

-----------------------------------------------------------------------------
\* The repeaters of a wire are no slower than its type promises (see Repeater).
WithinPenalty == Search!WithinPenalty

\* A repeater that the search prefers costs less (see Repeater).
CostFalls ==
  [][stage = "search" /\ target' # target
       => Search!Cost(target') < Search!Cost(target)]_allVars
=============================================================================
