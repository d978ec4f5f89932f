---------------------------- MODULE OutputDriver ----------------------------
(***************************************************************************)
(* The chain of inverters behind a gate (OutputDriver::Initialize): how    *)
(* many stages it has and how wide each of them is.                        *)
(*                                                                         *)
(* Sizes are logarithms, Unit to a factor of OPT_F, rounded down, and 0    *)
(* stands for MIN_NMOS_SIZE.  A capacitance is the logarithm of the NMOS   *)
(* width of the inverter that has it as its gate, because CalculateGateCap *)
(* is linear; so products and quotients are sums and differences, and the  *)
(* n-th root is a division.  The constants are in DriverSizes.             *)
(***************************************************************************)
EXTENDS DriverSizes

VARIABLES
  input,      \* the arguments
  level,      \* areaOptimizationLevel, which the first stage may change
  numStage,
  width,      \* widthNMOS (widthPMOS is proportional): what was written, by index
  invalid,
  pc

vars == <<input, level, numStage, width, invalid, pc>>

AreaMax == MaxNmosSize   \* AREA_OPT_CONSTRAIN is 1

Init ==
  /\ input \in DriverInputs
  /\ level = input.level
  /\ numStage = 0
  /\ width = [i \in {} |-> 0]
  /\ invalid = FALSE
  /\ pc = "minimum"

\* minNMOSDriverWidth
MinDriver == Larger(0, input.minDriver)

\* F = MAX(1, logicEffort * cap / inputCap)
Effort(cap) == Larger(0, input.logicEffort + cap - input.inputCap)

\* The number of stages for an effort per stage of OPT_F.
OptimalStages(effort) == Larger(0, (2 * effort + Unit) \div (2 * Unit) - 1)

\* The number itself or the next one, so that it is odd or even.
WithParity(n, odd) == IF (n % 2 = 1) = odd THEN n ELSE n + 1

\* The chain up to stage `last`, each stage smaller by the same factor than the
\* next, but none below the minimum.
Taper(last, lastWidth, factor) ==
  [i \in 0 .. last |-> IF i = last THEN lastWidth
                       ELSE Larger(0, lastWidth - (last - i) * factor)]

\* A driver wider than the maximum.
TooWide ==
  /\ pc = "minimum" /\ MinDriver > MaxNmosSize
  /\ invalid' = TRUE /\ pc' = "done"
  /\ UNCHANGED <<input, level, numStage, width>>

PassMinimum ==
  /\ pc = "minimum" /\ MinDriver <= MaxNmosSize
  /\ pc' = level
  /\ UNCHANGED <<input, level, numStage, width, invalid>>

\* Mutant: the last stage of a fast chain need not carry the current.
Suffices(last) == TRUE

\* The last stage provides the minimum current.
LastSuffices(last) == last >= MinDriver

\* latency_first: the last stage is sized for the load and cut to the maximum; if
\* it is too small for the current the chain is built again around the current.
LatencyFirst ==
  /\ pc = "latency_first"
  /\ LET effort == Effort(input.outputCap)
         stages == Smaller(WithParity(OptimalStages(effort), input.inv), MaxInvChainLen)
         wanted == Larger(0, input.outputCap - effort \div (stages + 1))
         isCut == wanted > MaxNmosSize
         last == IF isCut THEN MaxNmosSize ELSE wanted
         factor == IF isCut
                   THEN (input.logicEffort + MaxNmosSize - input.inputCap) \div stages
                   ELSE effort \div (stages + 1)
     IN  /\ numStage' = stages
         /\ IF LastSuffices(last)
            THEN /\ width' = Taper(stages - 1, last, factor)
                 /\ pc' = "done"
                 /\ UNCHANGED level
            ELSE /\ width' = [i \in {stages - 1} |-> last]
                 /\ level' = "latency_area_trade_off"
                 /\ pc' = level'
  /\ UNCHANGED <<input, invalid>>

\* latency_area_trade_off: the last stage just carries the current.  There is one
\* stage more than the number whose parity is tested.
TradeOff ==
  /\ pc = "latency_area_trade_off"
  /\ LET effort == Effort(MinDriver)
         stages == Smaller(WithParity(OptimalStages(effort), ~input.inv), MaxInvChainLen)
     IN  /\ numStage' = stages + 1
         /\ width' = Taper(stages, MinDriver, effort \div (stages + 1))
  /\ pc' = "done"
  /\ UNCHANGED <<input, level, invalid>>

\* area_first: one stage.
AreaFirst ==
  /\ pc = "area_first"
  /\ numStage' = 1
  /\ width' = [i \in {0} |-> MinDriver]
  /\ invalid' = (MinDriver > AreaMax)
  /\ pc' = "done"
  /\ UNCHANGED <<input, level>>

Done == pc = "done" /\ UNCHANGED vars

Next == TooWide \/ PassMinimum \/ LatencyFirst \/ TradeOff \/ AreaFirst \/ Done

Spec == Init /\ [][Next]_vars

-----------------------------------------------------------------------------
(***************************************************************************)
(* Properties.                                                             *)
(***************************************************************************)
\* A valid driver has the inverters that its area, delay and power are summed
\* over: each of numStage stages was written, inside the arrays; they are as many
\* as the inversion asks for (odd or even), their widths never decrease towards
\* the load and stay within the sizes allowed, and the last one carries the
\* current, in each of the designs and when the fast design is given up.
ChainDrives ==
  pc = "done" /\ ~invalid =>
    /\ numStage \in 1 .. MaxInvChainLen
    /\ 0 .. numStage - 1 \subseteq DOMAIN width
    /\ (numStage % 2 = 1) = input.inv
    /\ \A i \in 0 .. numStage - 1 :
         /\ width[i] \in 0 .. MaxNmosSize
         /\ i > 0 => width[i - 1] <= width[i]
    /\ width[numStage - 1] >= MinDriver
=============================================================================
