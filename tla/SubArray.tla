------------------------------ MODULE SubArray ------------------------------
(***************************************************************************)
(* What SubArray::CalculateLatency and SubArray::CalculatePower add up     *)
(* (SubArray.cpp), for each kind of cell.                                  *)
(*                                                                         *)
(* An array is a record with what the evaluation depends on: the cell      *)
(* (cellType, accessType, readMode for voltage sensing, writeScheme), the  *)
(* search's arguments (internalSenseAmp, memoryType, muxBits and rowBits,  *)
(* the logarithms of the muxes and of the rows) and, from InputParameter,  *)
(* cacheAccessMode ("none" for a RAM chip) and associativity.              *)
(***************************************************************************)
EXTENDS Circuits

Resistive == {"MRAM", "PCRAM", "memristor", "FBRAM"}
CurrentSense(a) == a.cellType \in Resistive /\ ~a.readMode

\* "diode_access or none_access", which have special formulas for writes.
Crossbar(a) == a.accessType \in {"diode_access", "none_access"}
EraseFirst(a) == a.writeScheme \in {"erase_before_reset", "erase_before_set"}
WriteAndVerify(a) == a.cellType = "PCRAM" /\ a.writeScheme = "write_and_verify"

\* All ways of a set are in each row.
WaysInRow(a) == a.cacheAccessMode \in {"normal", "fast"}

\* The fields of a circuit of the subarray after its CalculateLatency and
\* CalculatePower; without an internal sense amplifier those of senseAmp are
\* never called.
UnitOf(a, c) ==
  CASE c \in Decoders -> RowDecoderCost(c)
    [] c \in Muxes -> MuxCost(c, 2 ^ a.muxBits[c])
    [] c = "precharger" -> PrechargerCost
    [] c = "senseAmp" -> IF a.internalSenseAmp
                         THEN SenseAmpCost(c, "ivConverter", CurrentSense(a))
                         ELSE NoCost

ReadLatencyOf(a, c) == UnitOf(a, c).readLatency
ReadEnergy(a, S) == SumOver([c \in S |-> UnitOf(a, c).readDynamicEnergy])
WriteEnergy(a, S) == SumOver([c \in S |-> UnitOf(a, c).writeDynamicEnergy])
Leakage(a, S) == SumOver([c \in S |-> UnitOf(a, c).leakage])

-----------------------------------------------------------------------------
(***************************************************************************)
(* CalculateLatency.                                                       *)
(***************************************************************************)
ColumnDecoderLatency(a) == LatestOf([c \in MuxDecoders |-> ReadLatencyOf(a, c)])
DecoderLatency(a) == Later(ReadLatencyOf(a, "rowDecoder"), ColumnDecoderLatency(a))

\* From the bitline to the output.  For eDRAM the bitline mux is not asked for
\* its latency.
OutputUnits(a) ==
  {"senseAmp"} \cup (IF a.cellType = "eDRAM" THEN Muxes \ {"bitlineMux"} ELSE Muxes)

SubArrayReadLatency(a) ==
  Then(DecoderLatency(a),
       Then({Of("bitline")}, ThenAll([c \in OutputUnits(a) |-> ReadLatencyOf(a, c)])))

\* MAX(rowDecoder.writeLatency, columnDecoderLatency + chargeLatency)
SelectLatency(a) ==
  Later(UnitOf(a, "rowDecoder").writeLatency,
        Then(ColumnDecoderLatency(a), {Of("charge")}))

\* A crossbar that is erased first selects its row while the columns charge.
CrossbarSelectLatency(a) ==
  IF EraseFirst(a) THEN Later(UnitOf(a, "rowDecoder").writeLatency, {Of("charge")})
                   ELSE SelectLatency(a)

Latencies(write, reset, set) ==
  [writeLatency |-> write, resetLatency |-> reset, setLatency |-> set]

\* Mutant: the pulses of a reset are added after the write has got its own.
PulsesTooLate(a) ==
  LET write == Then(SelectLatency(a), Later({Of("resetPulse")}, {Of("setPulse")}))
  IN  Latencies(write, Then(write, {Of("resetPulse")}), Then(write, {Of("setPulse")}))

\* A write is as long as the longer of RESET and SET.
PulseLatencies(a) ==
  LET select == SelectLatency(a)
  IN  Latencies(Then(select, Later({Of("resetPulse")}, {Of("setPulse")})),
                Then(select, {Of("resetPulse")}), Then(select, {Of("setPulse")}))

WriteLatencies(a) ==
  CASE a.cellType \in {"SRAM", "eDRAM"} ->
         Latencies(SubArrayReadLatency(a), Instant, Instant)
    [] a.cellType = "SLCNAND" ->
         LET select == SelectLatency(a)
             program == Then(select, {Of("flashProgramTime")})
         IN  Latencies(program, Then(select, {Of("flashEraseTime")}), program)
    [] WriteAndVerify(a) -> Latencies(Instant, Instant, Instant)
    [] a.cellType \in {"MRAM", "memristor"} /\ Crossbar(a) ->
         Latencies(Then(CrossbarSelectLatency(a),
                        {Plus(Of("charge"), Plus(Of("resetPulse"), Of("setPulse")))}),
                   Instant, Instant)
    [] OTHER -> PulseLatencies(a)

SubArrayLatency(a) ==
  LET l == WriteLatencies(a)
  IN  [readLatency |-> SubArrayReadLatency(a), writeLatency |-> l.writeLatency,
       resetLatency |-> l.resetLatency, setLatency |-> l.setLatency]

-----------------------------------------------------------------------------
(***************************************************************************)
(* CalculatePower.                                                         *)
(***************************************************************************)

\* The energies of the bitlines and the cells, before the circuits are added.
\* cellWrite is what a write costs the cells: the larger one of RESET and SET
\* or, for NAND flash, the average of programming and erasing.
CellEnergies(read, write, reset, set) ==
  [read |-> read, write |-> write, reset |-> reset, set |-> set]

\* Cells are read while the sense amplifier works, no time when it is external.
CellRead(a) ==
  IF a.cellType \in Resistive /\ a.internalSenseAmp THEN Of("cellRead") ELSE Nothing

\* The energy of one access to the cells; memories without RESET and SET have
\* none for them.
AccessEnergies(a) ==
  LET reset == Of("cellReset")
      set == Of("cellSet")
  IN  CASE a.cellType \in {"SRAM", "eDRAM", "SLCNAND"} ->
             CellEnergies(CellRead(a), Of("cellWrite"), Nothing, Nothing)
        [] WriteAndVerify(a) -> CellEnergies(CellRead(a), Nothing, Nothing, Nothing)
        [] a.cellType \in {"MRAM", "memristor"} /\ Crossbar(a) /\ EraseFirst(a) ->
             CellEnergies(CellRead(a), Plus(reset, set), reset, set)
        [] OTHER -> CellEnergies(CellRead(a), Of("cellWrite"), reset, set)

\* Writes go to one way only.
OneWay(a, energy) == IF WaysInRow(a) THEN Over(energy, a.associativity) ELSE energy

\* What NAND flash programs and erases, in the fields of the subarray itself.
BlockEnergy(a, part) == IF a.cellType = "SLCNAND" THEN Of(part) ELSE Nothing

\* The row decoder has energies for RESET and SET with NAND flash only.
RowEnergy(a) == BlockEnergy(a, "rowDecoder")

ColumnWriteEnergy(a) == WriteEnergy(a, MuxDecoders \cup Muxes \cup {"senseAmp"})

SetDynamicEnergy(a) ==
  Plus(OneWay(a, BlockEnergy(a, "program")),
       Plus(OneWay(a, AccessEnergies(a).set), Plus(RowEnergy(a), ColumnWriteEnergy(a))))

\* The total of SET is added, not the energy of the cells of RESET.
ResetDynamicEnergy(a) ==
  Plus(OneWay(a, BlockEnergy(a, "erase")),
       Plus(SetDynamicEnergy(a), Plus(RowEnergy(a), ColumnWriteEnergy(a))))

WriteDynamicEnergy(a) ==
  Plus(OneWay(a, AccessEnergies(a).write),
       Plus(WriteEnergy(a, {"rowDecoder"}),
            Plus(ColumnWriteEnergy(a),
                 IF Crossbar(a) THEN WriteEnergy(a, Muxes \cup {"senseAmp"}) ELSE Nothing)))

CellLeakage(a) == IF a.cellType \in {"SRAM", "eDRAM"} THEN Of("cell") ELSE Nothing

SubArrayPower(a) ==
  [readDynamicEnergy |-> Plus(Of("bitlines"),
                              Plus(AccessEnergies(a).read, ReadEnergy(a, OfSubArray))),
   writeDynamicEnergy |-> WriteDynamicEnergy(a),
   resetDynamicEnergy |-> ResetDynamicEnergy(a),
   setDynamicEnergy |-> SetDynamicEnergy(a),
   leakage |-> Plus(CellLeakage(a), Leakage(a, OfSubArray)),
   cellReadEnergy |-> AccessEnergies(a).read,
   cellResetEnergy |-> OneWay(a, AccessEnergies(a).reset),
   cellSetEnergy |-> OneWay(a, AccessEnergies(a).set)]
=============================================================================
