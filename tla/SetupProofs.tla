---------------------------- MODULE SetupProofs ----------------------------
(***************************************************************************)
(* The set-up of main() for all process nodes and cell files: the steps of *)
(* the technology and of the cell do not disturb each other, the ladders   *)
(* agree, an ordered cell file takes effect, and all banks are charged the *)
(* same write energies.                                                    *)
(***************************************************************************)
EXTENDS Setup, TLAPS

\* The cell goes through main() as it does on its own.
THEOREM SetupReadsCell == SetupSpec => Spec
<1>1. SetupInit => Init
  BY DEF SetupInit
<1>2. [SetupNext]_<<vars, technology>> => [Next]_vars
  BY DEF SetupNext, InitializeTech, InitializeHigh, InterpolateWith, ReadCell,
         InitializeWires, Explore, Exited, Next
<1> QED
  BY <1>1, <1>2, PTL DEF SetupSpec, Spec

\* And so does the technology.
THEOREM SetupInitializesTechnology == SetupSpec => Technology!Spec
<1>1. SetupInit => Technology!Init
  BY DEF SetupInit
<1>2. [SetupNext]_<<vars, technology>> => [Technology!Next]_(Technology!vars)
  BY DEF SetupNext, InitializeTech, InitializeHigh, InterpolateWith, ReadCell,
         InitializeWires, Explore, Exited, Technology!Next, Technology!vars, technology
<1> QED
  BY <1>1, <1>2, PTL DEF SetupSpec, Technology!Spec

-----------------------------------------------------------------------------
(***************************************************************************)
(* Technology.                                                             *)
(***************************************************************************)
\* The largest node of the ladder that is not larger.
LEMMA TableBelow ==
  ASSUME NEW n \in Nat, n >= 22
  PROVE  /\ Technology!TableOf(n) \in Technology!Ladder
         /\ Technology!TableOf(n) <= n
         /\ \A u \in Technology!Ladder : u <= n => u <= Technology!TableOf(n)
<1>1. \E t \in Technology!Ladder : t <= n /\ \A u \in Technology!Ladder : u <= n => u <= t
  BY DEF Technology!Ladder
<1> QED
  BY <1>1 DEF Technology!TableOf

\* Every temperature from 300 K to 400 K is in the tables or between two that are.
LEMMA AllTemperatures == 0 .. 100 \subseteq Technology!Tabulated \cup Technology!Between
<1> SUFFICES ASSUME NEW i \in 0 .. 100 PROVE i \in Technology!Tabulated \cup Technology!Between
  OBVIOUS
<1> DEFINE t == i \div 10
<1>1. t \in 0 .. 10 /\ i % 10 \in 0 .. 9 /\ i = 10 * t + (i % 10)
  OBVIOUS
<1>2. CASE i % 10 = 0
  BY <1>1, <1>2 DEF Technology!Tabulated
<1>3. CASE i % 10 # 0
  <2>1. t \in 0 .. 9 /\ i \in 1 .. 99
    BY <1>1, <1>3
  <2>2. t * 10 \in Technology!Tabulated /\ t * 10 + 10 \in Technology!Tabulated
    <3>1. t * 10 = 10 * t /\ t * 10 + 10 = 10 * (t + 1) /\ t + 1 \in 0 .. 10
      BY <2>1
    <3> HIDE DEF t
    <3> QED
      BY <2>1, <3>1 DEF Technology!Tabulated
  <2> QED
    BY <1>3, <2>1, <2>2 DEF Technology!Between
<1> QED
  BY <1>2, <1>3

\* What is known of the technology at each place of main().
TechInitialized == tech = Technology!Initialized(node) /\ reliable = TRUE

HighInitialized ==
  /\ techHigh = Technology!Initialized(Technology!Branch[1])
  /\ alpha[1] = node - Technology!Branch[2] /\ alpha[2] = Technology!Branch[3]

LadderInv ==
  /\ node \in Nodes
  /\ stage \in {"tech", "techHigh", "interpolate", "wire", "done"}
  /\ node \in 22 .. 200 =>
       /\ stage # "tech" => TechInitialized
       /\ stage \in {"interpolate", "wire", "done"} => HighInitialized
       /\ stage = "done" =>
            wireNode \in Technology!Ladder /\ wireNode >= node
              /\ \A u \in Technology!Ladder : u >= node => wireNode <= u

LEMMA BranchIsUsual ==
  ASSUME NEW n \in 22 .. 200, node = n
  PROVE  /\ Technology!Branch[1] \in Technology!Ladder
         /\ Technology!Branch[2] \in Technology!Ladder
         /\ Technology!Branch[2] <= n /\ n <= Technology!Branch[1]
         /\ Technology!Branch[2] < Technology!Branch[1]
         /\ \A u \in Technology!Ladder : u <= Technology!Branch[2] \/ u >= Technology!Branch[1]
         /\ Technology!Branch[3] \in Nat \ {0}
         /\ n <= 120 => Technology!Branch[3] = Technology!Branch[1] - Technology!Branch[2]
         /\ n > 120 => Technology!Branch = <<200, 120, 60>>
BY DEF Technology!Branch, Technology!Ladder

\* A table is its own.
LEMMA TableOfLadder ==
  ASSUME NEW t \in Technology!Ladder
  PROVE  Technology!TableOf(t) = t
<1>1. t \in Nat /\ t >= 22
  BY DEF Technology!Ladder
<1>2. Technology!TableOf(t) <= t /\ t <= Technology!TableOf(t) /\ Technology!TableOf(t) \in Nat
  BY <1>1, TableBelow DEF Technology!Ladder
<1> QED
  BY <1>1, <1>2

LEMMA LadderStep == LadderInv /\ [Technology!Next]_(Technology!vars) => LadderInv'
<1> SUFFICES ASSUME LadderInv, [Technology!Next]_(Technology!vars) PROVE LadderInv'
  OBVIOUS
<1>1. CASE Technology!InitializeTech
  <2>1. node \in 22 .. 200 => Technology!TableOf(node) \in Technology!Ladder
    BY TableBelow
  <2> QED
    BY <1>1, <2>1, NodesAssumption
       DEF LadderInv, Technology!InitializeTech, TechInitialized, HighInitialized
<1>2. CASE Technology!InitializeHigh
  BY <1>2 DEF LadderInv, Technology!InitializeHigh, TechInitialized, HighInitialized,
              Technology!Branch
<1>3. CASE Technology!InterpolateWith
  <2>1. ASSUME node \in 22 .. 200
        PROVE  techHigh.table # NoTable
    <3>1. Technology!Branch[1] \in Technology!Ladder
      BY <2>1, BranchIsUsual
    <3>2. techHigh.table = Technology!Branch[1]
      BY <1>3, <2>1, <3>1, TableOfLadder
         DEF LadderInv, Technology!InterpolateWith, HighInitialized, Technology!Initialized
    <3> QED
      BY <3>1, <3>2, NodesAssumption
  <2>2. /\ UNCHANGED <<node, tech, techHigh, alpha>>
        /\ stage = "interpolate" /\ stage' = "wire"
    BY <1>3 DEF Technology!InterpolateWith
  <2>3. node \in 22 .. 200 => reliable' = reliable
    BY <1>3, <2>1 DEF Technology!InterpolateWith
  <2>4. HighInitialized => HighInitialized'
    BY <2>2 DEF HighInitialized, Technology!Branch
  <2>5. node \in 22 .. 200 /\ TechInitialized => TechInitialized'
    BY <2>2, <2>3 DEF TechInitialized
  <2> QED
    BY <2>2, <2>4, <2>5 DEF LadderInv
<1>4. CASE Technology!InitializeWire
  <2>1. ASSUME node \in 22 .. 200
        PROVE  \E t \in Technology!Ladder : t >= node /\ \A u \in Technology!Ladder : u >= node => t <= u
    BY <2>1 DEF Technology!Ladder
  <2>2. ASSUME node \in 22 .. 200
        PROVE  wireNode' = CHOOSE t \in Technology!Ladder :
                              t >= node /\ \A u \in Technology!Ladder : u >= node => t <= u
    BY <1>4, <2>2 DEF Technology!InitializeWire
  <2>3. ASSUME node \in 22 .. 200
        PROVE  /\ wireNode' \in Technology!Ladder /\ wireNode' >= node
               /\ \A u \in Technology!Ladder : u >= node => wireNode' <= u
    BY <2>1, <2>2, <2>3
  <2> QED
    BY <1>4, <2>3 DEF LadderInv, Technology!InitializeWire, TechInitialized, HighInitialized,
                      Technology!Branch
<1>5. CASE Technology!Done \/ UNCHANGED Technology!vars
  BY <1>5 DEF LadderInv, Technology!Done, Technology!vars, TechInitialized, HighInitialized,
              Technology!Branch
<1> QED
  BY <1>1, <1>2, <1>3, <1>4, <1>5 DEF Technology!Next

\* The two tables around a node are neighbours on the ladder.
LEMMA LadderInvAgrees == LadderInv => LaddersAgree
<1> SUFFICES ASSUME LadderInv, stage = "done", node \in 22 .. 200
             PROVE  /\ reliable
                    /\ 0 .. 100 \subseteq tech.currents \cap techHigh.currents
                    /\ IF node \in Technology!Ladder
                       THEN /\ tech.table = node /\ wireNode = node
                            /\ Technology!IsInterpolated => alpha[1] = 0
                       ELSE /\ tech.table < node /\ node < techHigh.table
                            /\ Technology!Ladder \cap (tech.table + 1 .. techHigh.table - 1) = {}
                            /\ wireNode = techHigh.table
                            /\ Technology!IsWeighted <=> node < 120
                            /\ Technology!LeavesTables <=> node > 180
  BY DEF LaddersAgree, Technology!LaddersAgree
<1> DEFINE high == Technology!Branch[1]
           low == Technology!Branch[2]
           span == Technology!Branch[3]
           table == Technology!TableOf(node)
<1>1. tech = Technology!Initialized(node) /\ reliable
  BY DEF LadderInv, TechInitialized
<1>2. techHigh = Technology!Initialized(high) /\ alpha[1] = node - low /\ alpha[2] = span
  BY DEF LadderInv, HighInitialized
<1>3. /\ high \in Technology!Ladder /\ low \in Technology!Ladder
      /\ low <= node /\ node <= high /\ low < high
      /\ \A u \in Technology!Ladder : u <= low \/ u >= high
      /\ span \in Nat \ {0}
      /\ node <= 120 => span = high - low
      /\ node > 120 => high = 200 /\ low = 120 /\ span = 60
  BY BranchIsUsual
<1>4. /\ table \in Technology!Ladder /\ table <= node
      /\ \A u \in Technology!Ladder : u <= node => u <= table
  BY TableBelow
<1>5. /\ wireNode \in Technology!Ladder /\ wireNode >= node
      /\ \A u \in Technology!Ladder : u >= node => wireNode <= u
  BY DEF LadderInv
<1>6. /\ tech.table = table /\ techHigh.table = high
      /\ tech.currents = Technology!Tabulated \cup Technology!Between
      /\ techHigh.currents = Technology!Tabulated \cup Technology!Between
  BY <1>1, <1>2, <1>3, TableOfLadder DEF Technology!Initialized
<1>7. Technology!Ladder \subseteq Nat
  BY DEF Technology!Ladder
<1>8. 0 .. 100 \subseteq tech.currents \cap techHigh.currents
  BY <1>6, AllTemperatures
<1> HIDE DEF high, low, span, table
<1>9. CASE node \in Technology!Ladder
  <2>1. table = node /\ wireNode = node
    BY <1>4, <1>5, <1>7, <1>9
  <2>2. node = low \/ node = high
    BY <1>3, <1>7, <1>9
  <2> QED
    BY <1>1, <1>2, <1>6, <1>8, <1>9, <2>1, <2>2 DEF Technology!IsInterpolated
<1>10. CASE node \notin Technology!Ladder
  <2>1. low < node /\ node < high
    BY <1>3, <1>7, <1>10
  <2>2. table = low /\ wireNode = high
    BY <1>3, <1>4, <1>5, <1>7, <2>1
  <2>3. Technology!Ladder \cap (low + 1 .. high - 1) = {}
    BY <1>3, <1>7
  <2>4. node # 120 /\ 120 \in Technology!Ladder
    BY <1>10 DEF Technology!Ladder
  <2>5. /\ tech.table = low /\ techHigh.table = high
        /\ alpha[1] = node - low /\ alpha[2] = span
    BY <1>2, <1>6, <2>2
  <2>6. CASE node < 120
    <3>1. span = high - low /\ 0 <= alpha[1] /\ alpha[1] <= alpha[2]
      BY <1>3, <1>7, <2>1, <2>5, <2>6
    <3>2. (node - low) * (high - low) = (high - low) * (node - low)
      BY <1>3, <1>7
    <3> QED
      BY <1>1, <1>6, <1>8, <1>10, <2>1, <2>2, <2>3, <2>5, <2>6, <3>1, <3>2
         DEF Technology!IsWeighted, Technology!LeavesTables
  <2>7. CASE node > 120
    <3>1. high = 200 /\ low = 120 /\ span = 60
      BY <1>3, <2>7
    <3>2. ~Technology!IsWeighted /\ (Technology!LeavesTables <=> node > 180)
      BY <2>5, <2>7, <3>1 DEF Technology!IsWeighted, Technology!LeavesTables
    <3> QED
      BY <1>1, <1>6, <1>8, <1>10, <2>1, <2>2, <2>3, <2>7, <3>2
  <2> QED
    BY <2>4, <2>6, <2>7
<1> QED
  BY <1>9, <1>10

\* For every process node from 22 nm to 200 nm, the ladders of
\* Technology::Initialize, of main() and of Wire::Initialize agree; between two
\* tables the weights are in proportion exactly below 120 nm, and out of 0 .. 1
\* exactly from 181 nm on.
THEOREM AllLaddersAgree == SetupSpec => []LaddersAgree
<1>1. Technology!Init => LadderInv
  BY DEF Technology!Init, LadderInv
<1> QED
  BY <1>1, LadderStep, LadderInvAgrees, SetupInitializesTechnology, PTL DEF Technology!Spec
-----------------------------------------------------------------------------
(***************************************************************************)
(* Cell file.                                                              *)
(***************************************************************************)
Fields == DOMAIN DefaultCell
Energies == {"ResetEnergy", "SetEnergy"}

\* The last line before the cursor that has an option is the one whose value its
\* energy has.
LastLineCounts ==
  \A i \in 1 .. line - 1 :
    /\ file[i].option \in Energies
    /\ \A j \in i + 1 .. line - 1 : file[j].option # file[i].option
    => cell[file[i].option] = file[i].value

\* A bank finds the energies of the file, or those of the banks before it, which
\* it would compute again.
EnergiesAreSettled ==
  /\ \A e \in Energies : Given(e) \subseteq {cell[e]}
  /\ used \in Seq({<<cell.ResetEnergy, cell.SetEnergy>>})
  /\ Len(used) > 0 =>
       /\ Missing(cell.ResetEnergy) => ResetEnergyOf(cell) = cell.ResetEnergy
       /\ Missing(cell.SetEnergy) => SetEnergyOf(cell) = cell.SetEnergy

CellInv ==
  /\ file \in Files
  /\ line \in 1 .. Len(file) + 1
  /\ DOMAIN cell = Fields
  /\ pc \in {"read", "explore", "done"}
  /\ pc = "read" => used = << >> /\ LastLineCounts
  /\ pc # "read" => line = Len(file) + 1 /\ EnergiesAreSettled

\* What a line does to the cell: it sets the field of its option and, for three
\* options, another one.
SetsField(c, option, value, d) ==
  /\ DOMAIN d = Fields
  /\ d[option] = value
  /\ option = "CellAspectRatio" => d.Shape = <<c.CellArea, value>>
  /\ \A f \in Fields \ {option} :
       \/ d[f] = c[f]
       \/ f = "Shape" /\ option = "CellAspectRatio"
       \/ f = "ResistanceOn" /\ option = "ResistanceOnAtReadVoltage"
       \/ f = "ResistanceOff" /\ option = "ResistanceOffAtReadVoltage"

LEMMA SideEffectSetsField ==
  ASSUME NEW c, NEW option \in Options, NEW value, NEW d, DOMAIN d = Fields,
         d[option] = value, \A f \in Fields \ {option} : d[f] = c[f]
  PROVE  SetsField(c, option, value, SideEffect(option, value, d))
<1>1. option \in Fields /\ option # "Shape"
  BY DEF Options, Fields
<1>2. {"Shape", "ResistanceOn", "ResistanceOff", "CellArea"} \subseteq Fields
  BY DEF Fields, DefaultCell
<1>3. CASE option = "ResistanceOnAtReadVoltage"
  <2> DEFINE e == [d EXCEPT !.ResistanceOn = value]
  <2>1. SideEffect(option, value, d) = e
    BY <1>3 DEF SideEffect
  <2>2. SetsField(c, option, value, e)
    BY <1>1, <1>2, <1>3 DEF SetsField
  <2> QED
    BY <2>1, <2>2
<1>4. CASE option = "ResistanceOffAtReadVoltage"
  <2> DEFINE e == [d EXCEPT !.ResistanceOff = value]
  <2>1. SideEffect(option, value, d) = e
    BY <1>4 DEF SideEffect
  <2>2. SetsField(c, option, value, e)
    BY <1>1, <1>2, <1>4 DEF SetsField
  <2> QED
    BY <2>1, <2>2
<1>5. CASE option = "CellAspectRatio"
  <2> DEFINE e == [d EXCEPT !.Shape = <<d.CellArea, value>>]
  <2>1. SideEffect(option, value, d) = e
    BY <1>5 DEF SideEffect
  <2>2. SetsField(c, option, value, e)
    BY <1>1, <1>2, <1>5 DEF SetsField
  <2> QED
    BY <2>1, <2>2
<1>6. CASE option \notin {"ResistanceOnAtReadVoltage", "ResistanceOffAtReadVoltage", "CellAspectRatio"}
  BY <1>1, <1>6 DEF SideEffect, SetsField
<1> QED
  BY <1>3, <1>4, <1>5, <1>6

LEMMA LineSetsField ==
  ASSUME NEW c, DOMAIN c = Fields, NEW option \in Options, NEW value
  PROVE  SetsField(c, option, value, SideEffect(option, value, [c EXCEPT ![option] = value]))
<1> DEFINE d == [c EXCEPT ![option] = value]
<1>1. option \in Fields
  BY DEF Options, Fields
<1>2. DOMAIN d = Fields /\ d[option] = value /\ \A f \in Fields \ {option} : d[f] = c[f]
  BY <1>1
<1> QED
  BY <1>2, SideEffectSetsField

LEMMA FileLines ==
  ASSUME NEW f \in Files
  PROVE  /\ Len(f) \in Nat /\ DOMAIN f = 1 .. Len(f)
         /\ \A i \in 1 .. Len(f) : f[i].option \in Options
BY FilesAssumption

\* The line that is read.
LEMMA LineIsRead ==
  ASSUME CellInv, ReadLine
  PROVE  /\ line \in 1 .. Len(file) /\ line' = line + 1 /\ file' = file
         /\ file[line].option \in Options
         /\ \/ /\ Heeded(file[line].option, cell)
               /\ SetsField(cell, file[line].option, file[line].value, cell')
            \/ ~Heeded(file[line].option, cell) /\ cell' = cell
<1>1. line \in 1 .. Len(file)
  BY FileLines DEF CellInv, ReadLine
<1>2. file[line].option \in Options
  BY <1>1, FileLines DEF CellInv
<1>3. CASE Heeded(file[line].option, cell)
  <2>1. cell' = SideEffect(file[line].option, file[line].value,
                           [cell EXCEPT ![file[line].option] = file[line].value])
    BY <1>3 DEF ReadLine
  <2>2. SetsField(cell, file[line].option, file[line].value, cell')
    BY <1>2, <2>1, LineSetsField DEF CellInv
  <2> QED
    BY <1>1, <1>2, <1>3, <2>2 DEF ReadLine
<1>4. CASE ~Heeded(file[line].option, cell)
  BY <1>1, <1>2, <1>4 DEF ReadLine
<1> QED
  BY <1>3, <1>4

\* What the energies of writing are computed from does not contain them.
LEMMA EnergyComputedAgain ==
  ASSUME NEW c, DOMAIN c = Fields
  PROVE  LET d == CalculateWriteEnergy(c)
         IN  /\ DOMAIN d = Fields
             /\ d.ResetEnergy = IF Missing(c.ResetEnergy) THEN ResetEnergyOf(c) ELSE c.ResetEnergy
             /\ d.SetEnergy = IF Missing(c.SetEnergy) THEN SetEnergyOf(c) ELSE c.SetEnergy
             /\ ResetEnergyOf(d) = ResetEnergyOf(c)
             /\ SetEnergyOf(d) = SetEnergyOf(c)
<1> DEFINE d == CalculateWriteEnergy(c)
<1>1. Energies \subseteq Fields
  BY DEF Energies, Fields, DefaultCell
<1>2. /\ DOMAIN d = Fields
      /\ d.ResetEnergy = IF Missing(c.ResetEnergy) THEN ResetEnergyOf(c) ELSE c.ResetEnergy
      /\ d.SetEnergy = IF Missing(c.SetEnergy) THEN SetEnergyOf(c) ELSE c.SetEnergy
      /\ \A f \in Fields \ Energies : d[f] = c[f]
  BY <1>1 DEF CalculateWriteEnergy, Energies
<1> HIDE DEF d
<1>3. {"MemCellType", "AccessType", "ResistanceOn", "ResistanceOnAtSetVoltage",
       "ResistanceOnAtResetVoltage", "ResetMode", "ResetVoltage", "ResetCurrent", "ResetPulse",
       "SetMode", "SetVoltage", "SetCurrent", "SetPulse", "VoltageDropAccessDevice"}
      \subseteq Fields \ Energies
  BY DEF Energies, Fields, DefaultCell
<1>4. /\ d.MemCellType = c.MemCellType /\ d.AccessType = c.AccessType
      /\ d.ResistanceOn = c.ResistanceOn
      /\ d.ResistanceOnAtSetVoltage = c.ResistanceOnAtSetVoltage
      /\ d.ResistanceOnAtResetVoltage = c.ResistanceOnAtResetVoltage
      /\ d.ResetMode = c.ResetMode /\ d.ResetVoltage = c.ResetVoltage
      /\ d.ResetCurrent = c.ResetCurrent /\ d.ResetPulse = c.ResetPulse
      /\ d.SetMode = c.SetMode /\ d.SetVoltage = c.SetVoltage
      /\ d.SetCurrent = c.SetCurrent /\ d.SetPulse = c.SetPulse
      /\ d.VoltageDropAccessDevice = c.VoltageDropAccessDevice
  BY <1>2, <1>3
<1>5. ResetEnergyOf(d) = ResetEnergyOf(c)
  BY <1>4, Zenon DEF ResetEnergyOf, ByVoltage, ByCurrent, Met, OverResistance
<1>6. SetEnergyOf(d) = SetEnergyOf(c)
  BY <1>4, Zenon DEF SetEnergyOf, ByVoltage, ByCurrent, Met, OverResistance
<1> QED
  BY <1>2, <1>5, <1>6 DEF d

LEMMA ReadKeepsInv == CellInv /\ ReadLine => CellInv'
<1> SUFFICES ASSUME CellInv, ReadLine PROVE CellInv'
  OBVIOUS
<1> DEFINE option == file[line].option
<1>1. /\ line \in 1 .. Len(file) /\ line' = line + 1 /\ file' = file
      /\ option \in Options
      /\ \/ Heeded(option, cell) /\ SetsField(cell, option, file[line].value, cell')
         \/ ~Heeded(option, cell) /\ cell' = cell
  BY LineIsRead
<1>2. /\ pc = "read" /\ pc' = "read" /\ used' = << >> /\ file \in Files
      /\ DOMAIN cell = Fields /\ LastLineCounts /\ Len(file) \in Nat
  BY FileLines DEF ReadLine, CellInv
<1>3. DOMAIN cell' = Fields
  BY <1>1, <1>2 DEF SetsField
<1>4. ASSUME NEW e \in Energies, option = e
      PROVE  cell'[e] = file[line].value
  <2>1. Heeded(option, cell)
    BY <1>4 DEF Heeded, Deciding, Energies
  <2> QED
    BY <1>1, <1>4, <2>1 DEF SetsField
<1>5. ASSUME NEW e \in Energies, option # e
      PROVE  cell'[e] = cell[e]
  <2>1. e \in Fields /\ e \notin {"Shape", "ResistanceOn", "ResistanceOff"}
    BY DEF Energies, Fields, DefaultCell
  <2> QED
    BY <1>1, <1>5, <2>1 DEF SetsField
<1>6. LastLineCounts'
  <2> SUFFICES ASSUME NEW i \in 1 .. line, file[i].option \in Energies,
                      \A j \in i + 1 .. line : file[j].option # file[i].option
               PROVE  cell'[file[i].option] = file[i].value
    BY <1>1 DEF LastLineCounts
  <2>1. CASE i = line
    BY <1>4, <2>1
  <2>2. CASE i # line
    <3>1. i \in 1 .. line - 1 /\ line \in i + 1 .. line
      BY <1>1, <2>2
    <3>2. \A j \in i + 1 .. line - 1 : file[j].option # file[i].option
      BY <1>1
    <3>3. cell[file[i].option] = file[i].value
      BY <1>2, <3>1, <3>2 DEF LastLineCounts
    <3>4. option # file[i].option
      BY <3>1
    <3> QED
      BY <1>5, <3>3, <3>4
  <2> QED
    BY <2>1, <2>2
<1> QED
  BY <1>1, <1>2, <1>3, <1>6 DEF CellInv

\* At the end of the file, the last line is the last before the cursor.
LEMMA EndKeepsInv == CellInv /\ EndOfFile => CellInv'
<1> SUFFICES ASSUME CellInv, EndOfFile PROVE CellInv'
  OBVIOUS
<1>1. /\ file \in Files /\ LastLineCounts /\ used = << >> /\ Len(file) \in Nat
      /\ DOMAIN file = 1 .. Len(file) /\ line = Len(file) + 1
  BY FileLines DEF EndOfFile, CellInv
<1>2. \A e \in Energies : Given(e) \subseteq {cell[e]}
  <2> SUFFICES ASSUME NEW e \in Energies, NEW i \in DOMAIN file, file[i].option = e,
                      \A j \in i + 1 .. Len(file) : file[j].option # e
               PROVE  cell[e] = file[i].value
    BY DEF Given
  <2> QED
    BY <1>1 DEF LastLineCounts
<1>3. EnergiesAreSettled
  BY <1>1, <1>2 DEF EnergiesAreSettled
<1> QED
  BY <1>1, <1>3 DEF EndOfFile, CellInv, EnergiesAreSettled, Given

LEMMA PowerKeepsInv == CellInv /\ CalculatePower => CellInv'
<1> SUFFICES ASSUME CellInv, CalculatePower PROVE CellInv'
  OBVIOUS
<1>1. /\ DOMAIN cell = Fields /\ EnergiesAreSettled
      /\ pc = "explore" /\ pc' = pc /\ file' = file /\ line' = line
      /\ used' = Append(used, <<cell'.ResetEnergy, cell'.SetEnergy>>)
      /\ cell' = CalculateWriteEnergy(cell)
  BY DEF CalculatePower, CellInv
<1>2. /\ DOMAIN cell' = Fields
      /\ cell'.ResetEnergy = IF Missing(cell.ResetEnergy) THEN ResetEnergyOf(cell) ELSE cell.ResetEnergy
      /\ cell'.SetEnergy = IF Missing(cell.SetEnergy) THEN SetEnergyOf(cell) ELSE cell.SetEnergy
      /\ ResetEnergyOf(cell') = ResetEnergyOf(cell)
      /\ SetEnergyOf(cell') = SetEnergyOf(cell)
  BY <1>1, EnergyComputedAgain
<1>3. \A e \in Energies : Given(e)' \subseteq {cell'[e]}
  <2> SUFFICES ASSUME NEW e \in Energies, NEW v \in Given(e)
               PROVE  v = cell'[e]
    BY <1>1 DEF Given
  <2>1. v = cell[e] /\ v # 0
    BY <1>1 DEF EnergiesAreSettled, Given
  <2> QED
    BY <1>2, <2>1 DEF Energies, Missing
<1>4. /\ Missing(cell'.ResetEnergy) => ResetEnergyOf(cell') = cell'.ResetEnergy
      /\ Missing(cell'.SetEnergy) => SetEnergyOf(cell') = cell'.SetEnergy
  BY <1>2
<1>5. used' \in Seq({<<cell'.ResetEnergy, cell'.SetEnergy>>})
  <2>1. CASE Len(used) = 0
    <3>1. used = << >>
      BY <1>1, <2>1 DEF EnergiesAreSettled
    <3> QED
      BY <1>1, <3>1
  <2>2. CASE Len(used) > 0
    <3>1. cell'.ResetEnergy = cell.ResetEnergy /\ cell'.SetEnergy = cell.SetEnergy
      BY <1>1, <1>2, <2>2 DEF EnergiesAreSettled
    <3> QED
      BY <1>1, <3>1 DEF EnergiesAreSettled
  <2> QED
    BY <1>1, <2>1, <2>2 DEF EnergiesAreSettled
<1> QED
  BY <1>1, <1>2, <1>3, <1>4, <1>5 DEF CellInv, EnergiesAreSettled

LEMMA InitCellInv == Init => CellInv
BY FileLines DEF Init, CellInv, LastLineCounts, Fields

LEMMA CellStep == CellInv /\ [Next]_vars => CellInv'
<1> SUFFICES ASSUME CellInv, [Next]_vars PROVE CellInv'
  OBVIOUS
<1>1. CASE Finish \/ Done \/ UNCHANGED vars
  <2>1. UNCHANGED <<file, line, cell, used>>
    BY <1>1 DEF Finish, Done, vars
  <2>2. EnergiesAreSettled' = EnergiesAreSettled /\ LastLineCounts' = LastLineCounts
    BY <2>1 DEF EnergiesAreSettled, Given, LastLineCounts
  <2>3. pc' = pc \/ (pc = "explore" /\ pc' = "done")
    BY <1>1 DEF Finish, Done, vars
  <2> QED
    BY <2>1, <2>2, <2>3 DEF CellInv
<1> QED
  BY <1>1, ReadKeepsInv, EndKeepsInv, PowerKeepsInv DEF Next

LEMMA CellInvAgrees == CellInv => BanksAgreeOnEnergy
<1> SUFFICES ASSUME CellInv, NEW i \in 1 .. Len(used)
             PROVE  /\ used[i] = used[1]
                    /\ Given("ResetEnergy") \subseteq {used[i][1]}
                    /\ Given("SetEnergy") \subseteq {used[i][2]}
  BY DEF BanksAgreeOnEnergy
<1>1. used # << >> /\ EnergiesAreSettled
  BY DEF CellInv
<1>2. used \in Seq({<<cell.ResetEnergy, cell.SetEnergy>>})
  BY <1>1 DEF EnergiesAreSettled
<1>3. 1 \in 1 .. Len(used)
  BY <1>2
<1>4. \A j \in 1 .. Len(used) : used[j] = <<cell.ResetEnergy, cell.SetEnergy>>
  BY <1>2
<1> QED
  BY <1>1, <1>3, <1>4 DEF EnergiesAreSettled, Energies

\* All banks are charged the same energies for a cell, those of the file where it
\* has them, for all files, however many banks there are.
THEOREM BanksAgree == SetupSpec => []BanksAgreeOnEnergy
BY InitCellInv, CellStep, CellInvAgrees, SetupReadsCell, PTL DEF Spec

-----------------------------------------------------------------------------
\* Of an ordered file, all lines before the cursor take effect that are meant for
\* the cell.  The deciding field of a line does not change after the line.
EffectInv ==
  pc \in {"read", "explore"} /\ used = << >> /\ IsOrdered(file) =>
    \A i \in 1 .. line - 1 :
      /\ Meant(file[i].option, cell) => cell[file[i].option] = file[i].value
      /\ file[i].option = "CellAspectRatio" => cell.Shape = <<cell.CellArea, file[i].value>>

\* Whether an option is meant for a cell depends on the deciding field.
LEMMA DecidesMeant ==
  ASSUME NEW option \in Options, NEW c, NEW d, Meant(option, d),
         option \in DOMAIN Deciding => c[Deciding[option]] = d[Deciding[option]]
  PROVE  Meant(option, c) /\ Heeded(option, c)
<1>1. CASE option = "AccessCMOSWidth"
  BY <1>1 DEF Meant, Heeded, Deciding, Demanded
<1>2. CASE option = "DRAMCellCapacitance"
  BY <1>2 DEF Meant, Heeded, Deciding, Demanded
<1>3. CASE option \in {"SRAMCellNMOSWidth", "SRAMCellPMOSWidth"}
  BY <1>3 DEF Meant, Heeded, Deciding, Demanded
<1>4. CASE option = "FlashEraseTime"
  BY <1>4 DEF Meant, Heeded, Deciding, Demanded
<1>5. CASE option \notin DOMAIN Deciding
  BY <1>5 DEF Meant, Heeded, Deciding
<1> QED
  BY <1>1, <1>2, <1>3, <1>4, <1>5 DEF Deciding

LEMMA ReadKeepsEffect == CellInv /\ EffectInv /\ ReadLine => EffectInv'
<1> SUFFICES ASSUME CellInv, EffectInv, ReadLine, IsOrdered(file), used = << >>,
                    NEW i \in 1 .. line
             PROVE  /\ Meant(file[i].option, cell') => cell'[file[i].option] = file[i].value
                    /\ file[i].option = "CellAspectRatio" =>
                          cell'.Shape = <<cell'.CellArea, file[i].value>>
  <2>1. ASSUME CellInv, ReadLine
        PROVE  /\ line' - 1 = line /\ IsOrdered(file)' = IsOrdered(file)
               /\ file' = file /\ used' = used
    BY <2>1, LineIsRead DEF ReadLine, IsOrdered
  <2> QED
    BY <2>1 DEF EffectInv
<1> DEFINE option == file[line].option
           value == file[line].value
           mine == file[i].option
<1>1. /\ line \in 1 .. Len(file) /\ option \in Options
      /\ \/ Heeded(option, cell) /\ SetsField(cell, option, value, cell')
         \/ ~Heeded(option, cell) /\ cell' = cell
  BY LineIsRead
<1>2. /\ i \in DOMAIN file /\ line \in DOMAIN file /\ mine \in Options /\ pc = "read"
  BY <1>1, FileLines DEF CellInv, ReadLine
<1>3. \A f \in Fields : f # option /\ cell'[f] # cell[f] =>
        \/ f = "Shape" /\ option = "CellAspectRatio"
        \/ f = "ResistanceOn" /\ option = "ResistanceOnAtReadVoltage"
        \/ f = "ResistanceOff" /\ option = "ResistanceOffAtReadVoltage"
  BY <1>1 DEF SetsField
<1>4. mine \in Fields /\ mine # "Shape" /\ "Shape" \in Fields /\ "CellArea" \in Fields
  BY <1>2 DEF Options, Fields, DefaultCell
<1>5. ASSUME mine \in DOMAIN Deciding
      PROVE  /\ Deciding[mine] \in Fields
             /\ Deciding[mine] \notin {"Shape", "ResistanceOn", "ResistanceOff"} \cup DOMAIN Deciding
  BY <1>5 DEF Deciding, Fields, DefaultCell
<1>6. CASE i = line
  <2>1. ASSUME mine \in DOMAIN Deciding
        PROVE  cell'[Deciding[mine]] = cell[Deciding[mine]]
    BY <1>3, <1>5, <1>6, <2>1
  <2>2. ASSUME Meant(mine, cell')
        PROVE  Heeded(mine, cell)
    BY <1>2, <2>1, <2>2, DecidesMeant
  <2>3. mine = "CellAspectRatio" => Heeded(mine, cell) /\ cell'.CellArea = cell.CellArea
    BY <1>3, <1>4, <1>6 DEF Heeded, Deciding
  <2> QED
    BY <1>1, <1>6, <2>2, <2>3 DEF SetsField
<1>7. CASE i # line
  <2>1. mine # option /\ ~DependsOn(mine, option)
    BY <1>1, <1>2, <1>7 DEF IsOrdered
  <2>2. cell'[mine] = cell[mine]
    BY <1>3, <1>4, <2>1 DEF DependsOn
  <2>3. ASSUME mine \in DOMAIN Deciding
        PROVE  cell'[Deciding[mine]] = cell[Deciding[mine]]
    BY <1>3, <1>5, <2>1, <2>3 DEF DependsOn
  <2>4. Meant(mine, cell') => Meant(mine, cell)
    BY <1>2, <2>3, DecidesMeant
  <2>5. mine = "CellAspectRatio" => cell'.Shape = cell.Shape /\ cell'.CellArea = cell.CellArea
    BY <1>1, <1>3, <1>4, <2>1 DEF DependsOn, Options
  <2>6. i \in 1 .. line - 1
    BY <1>1, <1>7
  <2> QED
    BY <1>2, <2>2, <2>4, <2>5, <2>6 DEF EffectInv
<1> QED
  BY <1>6, <1>7

\* The invariant of reading a file.
FileInv == CellInv /\ EffectInv

LEMMA FileStep == FileInv /\ [Next]_vars => FileInv'
<1> SUFFICES ASSUME FileInv, [Next]_vars PROVE EffectInv'
  BY CellStep DEF FileInv
<1>1. CASE CalculatePower
  <2>1. used' # << >>
    BY <1>1 DEF CalculatePower, FileInv, CellInv, EnergiesAreSettled
  <2> QED
    BY <2>1 DEF EffectInv
<1>2. CASE EndOfFile \/ Finish \/ Done \/ UNCHANGED vars
  BY <1>2 DEF EndOfFile, Finish, Done, vars, FileInv, EffectInv
<1> QED
  BY <1>1, <1>2, ReadKeepsEffect DEF Next, FileInv

LEMMA FileInvEffect == FileInv => OrderedFileTakesEffect
<1> SUFFICES ASSUME FileInv, pc = "explore" PROVE OrderedFileTakesEffect
  BY DEF OrderedFileTakesEffect
<1>1. DOMAIN file = 1 .. line - 1
  BY FileLines DEF FileInv, CellInv
<1> QED
  BY <1>1 DEF FileInv, EffectInv, OrderedFileTakesEffect

\* In every file whose options come after those they depend on, each option takes
\* effect that is meant for the cell, whatever the other options and the order.
THEOREM OrderedFilesTakeEffect == SetupSpec => []OrderedFileTakesEffect
<1>1. Init => FileInv
  BY InitCellInv, FileLines DEF Init, FileInv, EffectInv
<1> QED
  BY <1>1, FileStep, FileInvEffect, SetupReadsCell, PTL DEF Spec
=============================================================================
