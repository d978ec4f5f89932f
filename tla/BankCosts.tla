----------------------------- MODULE BankCosts ------------------------------
(***************************************************************************)
(* What CalculateLatencyAndPower of BankWithHtree and of BankWithoutHtree  *)
(* add to the mats: wires of a tree, or wires of a bus and, when sensing   *)
(* is external, global bitlines with sense amplifiers behind a mux.        *)
(*                                                                         *)
(* Further fields of an array: tree, levels (for each level of the tree    *)
(* the bits and the wires, active and in sum), the numbers of mats, and    *)
(* the address and data bits routed to a mat of a bus.                     *)
(***************************************************************************)
EXTENDS Mat, Sequences

Mats(a) == a.numRowMat * a.numColumnMat
ActiveMats(a) == a.numActiveMatPerRow * a.numActiveMatPerColumn

\* "only 1/A wires are activated in fast mode cache write"
ActiveWires(a, energy) ==
  IF a.cacheAccessMode = "fast" THEN Over(energy, a.associativity) ELSE energy

-----------------------------------------------------------------------------
(***************************************************************************)
(* BankWithHtree.                                                          *)
(***************************************************************************)
Wires(a, perLevel(_)) ==
  SumOver([i \in DOMAIN a.levels |->
             Times(perLevel(a.levels[i]) * a.levels[i].bits, Of("wire"))])

\* "2 due to in/out", and "only in" for writes.
TreeRouting(a) ==
  LET energy == Wires(a, LAMBDA l : l.active)
  IN  Cost({Times(2 * Len(a.levels), Of("wire"))}, {Times(Len(a.levels), Of("wire"))},
           energy, ActiveWires(a, energy), Wires(a, LAMBDA l : l.sum))

-----------------------------------------------------------------------------
(***************************************************************************)
(* BankWithoutHtree.                                                       *)
(***************************************************************************)
BusBits(a) == a.addressBits + a.dataBits + (IF a.memoryType = "tag" THEN a.numWay ELSE 0)

\* The longest wire is waited for, the active rows of mats are driven, and no
\* other wires leak.
InternalRouting(a) ==
  LET energy == Times(BusBits(a) * ActiveMats(a), Of("wire"))
  IN  Cost({Of("wire")}, {Of("wire")}, energy, energy,
           Times(BusBits(a) * a.numActiveMatPerColumn * a.numColumnMat, Of("wire")))

GlobalMux(a) == MuxCost("globalBitlineMux", Mats(a) \div ActiveMats(a))
GlobalSenseAmp(a) == SenseAmpCost("globalSenseAmp", "globalIvConverter", CurrentSense(a))
GlobalComparator == ComparatorCost("globalComparator")

GlobalBitlines(a, bits) == Times(bits * a.numActiveMatPerColumn, Of("globalBitline"))

\* The global bitlines of one bank, in the loop over its rows of mats.  SRAM adds
\* the mux and the sense amplifier there.  With voltage sensing the local and the
\* global bitline are discharged together: the local delay is taken back.
GlobalBitlineCost(a) ==
  LET line == {Of("globalBitline")}
      write == GlobalBitlines(a, a.addressBits + a.dataBits)
      taken == Minus(Of("globalBitline"), Of("bitline"))
  IN  CASE a.cellType = "SRAM" ->
             Cost(Then(Then(line, GlobalMux(a).readLatency), GlobalSenseAmp(a).readLatency),
                  Then(line, GlobalMux(a).readLatency),
                  GlobalBitlines(a, a.addressBits + a.numWay), write, Nothing)
        [] a.cellType \in Resistive ->
             Cost(IF a.readMode
                  THEN {Plus(taken, Of("bitlineOn")), Plus(taken, Of("bitlineOff"))}
                  ELSE line,
                  line,
                  IF a.readMode THEN write ELSE GlobalBitlines(a, a.addressBits),
                  write, Nothing)
        [] OTHER -> NoCost

\* After the loop: mux and sense amplifiers of all columns, and for tags the
\* comparators of all ways, which leak for the ways of all mats.
ExternalRouting(a) ==
  LET line == GlobalBitlineCost(a)
      mux == GlobalMux(a)
      amp == GlobalSenseAmp(a)
      tag == a.memoryType = "tag"
      read == Then(Then(line.readLatency, mux.readLatency), amp.readLatency)
      Ways(n, energy) == IF tag THEN Times(n, energy) ELSE Nothing
  IN  Cost(IF tag THEN Then(read, GlobalComparator.readLatency) ELSE read,
           Then(Then(line.writeLatency, mux.writeLatency), amp.writeLatency),
           Plus(line.readDynamicEnergy,
                Plus(Times(a.numActiveMatPerRow,
                           Plus(mux.readDynamicEnergy, amp.readDynamicEnergy)),
                     Ways(a.numWay, GlobalComparator.readDynamicEnergy))),
           Plus(line.writeDynamicEnergy,
                Times(a.numActiveMatPerRow,
                      Plus(mux.writeDynamicEnergy, amp.writeDynamicEnergy))),
           Plus(Times(a.numColumnMat, Plus(mux.leakage, amp.leakage)),
                Ways(a.associativity, GlobalComparator.leakage)))

BusRouting(a) == IF a.internalSenseAmp THEN InternalRouting(a) ELSE ExternalRouting(a)

-----------------------------------------------------------------------------
\* Mutant: the mats of one row work.
AddOneRow(a, bank, r, mat) ==
  LET Active(energy) == Times(a.numActiveMatPerRow, energy)
  IN  [bank EXCEPT
         !.readLatency = Then(r.readLatency, mat.readLatency),
         !.writeLatency = Then(r.writeLatency, mat.writeLatency),
         !.resetLatency = Then(r.writeLatency, mat.resetLatency),
         !.setLatency = Then(r.writeLatency, mat.setLatency),
         !.readDynamicEnergy = Plus(r.readDynamicEnergy, Active(mat.readDynamicEnergy)),
         !.writeDynamicEnergy = Plus(r.writeDynamicEnergy, Active(mat.writeDynamicEnergy)),
         !.resetDynamicEnergy = Plus(r.writeDynamicEnergy, Active(mat.resetDynamicEnergy)),
         !.setDynamicEnergy = Plus(r.writeDynamicEnergy, Active(mat.setDynamicEnergy)),
         !.leakage = Plus(r.leakage, Times(Mats(a), mat.leakage)),
         !.cellReadEnergy = Active(mat.cellReadEnergy),
         !.cellSetEnergy = Active(mat.cellSetEnergy),
         !.cellResetEnergy = Active(mat.cellResetEnergy)]

\* The bank is its routing r and its mats.  The routing of a write serves RESET
\* and SET too, active mats work, and all mats leak.
AddMats(a, bank, r, mat) ==
  LET Active(energy) == Times(ActiveMats(a), energy)
  IN  [bank EXCEPT
         !.readLatency = Then(r.readLatency, mat.readLatency),
         !.writeLatency = Then(r.writeLatency, mat.writeLatency),
         !.resetLatency = Then(r.writeLatency, mat.resetLatency),
         !.setLatency = Then(r.writeLatency, mat.setLatency),
         !.readDynamicEnergy = Plus(r.readDynamicEnergy, Active(mat.readDynamicEnergy)),
         !.writeDynamicEnergy = Plus(r.writeDynamicEnergy, Active(mat.writeDynamicEnergy)),
         !.resetDynamicEnergy = Plus(r.writeDynamicEnergy, Active(mat.resetDynamicEnergy)),
         !.setDynamicEnergy = Plus(r.writeDynamicEnergy, Active(mat.setDynamicEnergy)),
         !.leakage = Plus(r.leakage, Times(Mats(a), mat.leakage)),
         !.cellReadEnergy = Active(mat.cellReadEnergy),
         !.cellSetEnergy = Active(mat.cellSetEnergy),
         !.cellResetEnergy = Active(mat.cellResetEnergy)]

\* 1e41 for what is compared.
InfiniteCost ==
  LET infinite == Of("infinite")
  IN  Cost({infinite}, {infinite}, infinite, infinite, infinite)

\* The fields of an evaluated tree: a bank that is not initialized keeps what it
\* has, an invalid one gets the infinite costs and keeps the others.
TreeBank(a, bank, mat) ==
  CASE ~bank.initialized -> bank
    [] bank.initialized /\ bank.invalid ->
         [bank EXCEPT !.readLatency = InfiniteCost.readLatency,
                      !.writeLatency = InfiniteCost.writeLatency,
                      !.readDynamicEnergy = InfiniteCost.readDynamicEnergy,
                      !.writeDynamicEnergy = InfiniteCost.writeDynamicEnergy,
                      !.leakage = InfiniteCost.leakage]
    [] OTHER -> AddMats(a, bank, TreeRouting(a), mat)

\* A bus adds its mats whatever happened before: those of a bank that is not
\* initialized or invalid have no costs yet.
BusBank(a, bank, mat) ==
  LET r == CASE ~bank.initialized -> NoCost
             [] bank.initialized /\ bank.invalid -> InfiniteCost
             [] OTHER -> BusRouting(a)
  IN  AddMats(a, bank, [r EXCEPT !.writeDynamicEnergy = ActiveWires(a, @)], mat)
=============================================================================
