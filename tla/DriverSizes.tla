---------------------------- MODULE DriverSizes -----------------------------
(***************************************************************************)
(* The sizes of inverter chains and the arguments of                       *)
(* OutputDriver::Initialize, as logarithms (see OutputDriver).             *)
(***************************************************************************)
EXTENDS Integers

CONSTANTS
  Unit,             \* the logarithm of OPT_F
  MaxInvChainLen,   \* MAX_INV_CHAIN_LEN, the length of the arrays of widths
  MaxNmosSize,      \* the configured maximum, which is user input
  Efforts,          \* logic efforts, of gates
  InputCaps,        \* capacitances of gates no wider than the maximum
  OutputCaps,       \* loads
  DriverWidths,     \* what the minimal driver current needs
  Inversions        \* inv: every caller in src passes true

ASSUME DriverAssumption ==
  /\ Unit \in Nat \ {0} /\ MaxInvChainLen \in Nat \ {0, 1}
  /\ MaxNmosSize \in Nat
  /\ Efforts \subseteq Nat
  /\ InputCaps \subseteq 0 .. MaxNmosSize
  /\ OutputCaps \subseteq Int /\ DriverWidths \subseteq Int

ASSUME InversionAssumption == Inversions \subseteq {TRUE}

\* No chain of the best length is longer than the arrays: with factors of 4 and
\* 20 stages, the largest load would be 4^19 minimal gates.
ASSUME LoadAssumption ==
  \A e \in Efforts, c \in OutputCaps \cup {MaxNmosSize} : e + c <= Unit * (MaxInvChainLen - 1)

BufferDesignTarget == {"latency_first", "latency_area_trade_off", "area_first"}

\* The arguments of OutputDriver::Initialize.
DriverInputs ==
  [logicEffort : Efforts, inputCap : InputCaps, outputCap : OutputCaps,
   minDriver : DriverWidths, inv : Inversions, level : BufferDesignTarget]

Larger(a, b) == IF a > b THEN a ELSE b
Smaller(a, b) == IF a < b THEN a ELSE b
=============================================================================
