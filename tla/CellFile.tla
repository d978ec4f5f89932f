------------------------------ MODULE CellFile ------------------------------
(***************************************************************************)
(* The memory cell: how its file is read, line by line, and the write      *)
(* energies that the first bank that needs them computes and stores in it  *)
(* (MemCell.cpp).                                                          *)
(*                                                                         *)
(* A line is an option and its value.  An option sets the field it is      *)
(* named after; units are left out.  Some options are heeded only for some *)
(* cells, which is decided when the line is read.                          *)
(***************************************************************************)
EXTENDS Integers, Sequences

CONSTANTS
  Files,         \* cell files: sequences of lines
  MaxBanks,      \* a bound on the banks that compute their power
  Vdd,           \* the supply voltage
  NotFinite      \* the energy of a cell without resistance

VARIABLES
  file,
  line,          \* the next line to be read
  cell,
  used,          \* history: the reset and set energies, bank by bank
  pc

vars == <<file, line, cell, used, pc>>

Flash == {"SLCNAND", "MLCNAND"}

\* Options that are heeded for some cells only, with the field that decides.
\* FlashEraseTime stands for the six options of flash cells.
Deciding ==
  [AccessCMOSWidth |-> "AccessType", DRAMCellCapacitance |-> "MemCellType",
   SRAMCellNMOSWidth |-> "MemCellType", SRAMCellPMOSWidth |-> "MemCellType",
   FlashEraseTime |-> "MemCellType"]

\* Mutant: eDRAM has no capacitance.
DemandedOfDram(option) ==
  CASE option = "AccessCMOSWidth" -> {"CMOS"}
    [] option = "DRAMCellCapacitance" -> {"DRAM"}
    [] option \in {"SRAMCellNMOSWidth", "SRAMCellPMOSWidth"} -> {"SRAM"}
    [] OTHER -> Flash

\* The values that field must have.
Demanded(option) ==
  CASE option = "AccessCMOSWidth" -> {"CMOS"}
    [] option = "DRAMCellCapacitance" -> {"DRAM", "eDRAM"}
    [] option \in {"SRAMCellNMOSWidth", "SRAMCellPMOSWidth"} -> {"SRAM"}
    [] OTHER -> Flash

Heeded(option, c) == option \in DOMAIN Deciding => c[Deciding[option]] \in Demanded(option)

\* MemCell::MemCell.  Shape stands for the height and the width, and like the
\* fields of flash cells it is not set.
DefaultCell ==
  [MemCellType |-> "PCRAM", AccessType |-> "CMOS", CellArea |-> 0, CellAspectRatio |-> 0,
   Shape |-> <<>>, ResistanceOn |-> 0, ResistanceOff |-> 0,
   ResistanceOnAtReadVoltage |-> 0, ResistanceOffAtReadVoltage |-> 0,
   ResistanceOnAtSetVoltage |-> 0, ResistanceOnAtResetVoltage |-> 0,
   ResetMode |-> "voltage", ResetVoltage |-> 0, ResetCurrent |-> 0, ResetPulse |-> 0,
   ResetEnergy |-> 0, SetMode |-> "voltage", SetVoltage |-> 0, SetCurrent |-> 0,
   SetPulse |-> 0, SetEnergy |-> 0, VoltageDropAccessDevice |-> 0, AccessCMOSWidth |-> 0,
   DRAMCellCapacitance |-> 0, SRAMCellNMOSWidth |-> 2, SRAMCellPMOSWidth |-> 1,
   ReadPower |-> 0, FlashEraseTime |-> <<>>]

\* The options of a cell file; no option is called Shape.
Options == DOMAIN DefaultCell \ {"Shape"}

ASSUME FilesAssumption ==
  \A f \in Files :
    /\ Len(f) \in Nat /\ DOMAIN f = 1 .. Len(f)
    /\ \A i \in DOMAIN f : f[i].option \in Options

Init ==
  /\ file \in Files
  /\ line = 1
  /\ cell = DefaultCell
  /\ used = << >>
  /\ pc = "read"

\* What an option does to the cell besides its own field: the resistances at the
\* read voltage are the resistances, and the ratio gives the cell its shape.
SideEffect(option, value, c) ==
  CASE option = "ResistanceOnAtReadVoltage" -> [c EXCEPT !.ResistanceOn = value]
    [] option = "ResistanceOffAtReadVoltage" -> [c EXCEPT !.ResistanceOff = value]
    [] option = "CellAspectRatio" -> [c EXCEPT !.Shape = <<c.CellArea, value>>]
    [] OTHER -> c

\* One iteration of the loop of ReadCellFromFile.
ReadLine ==
  /\ pc = "read" /\ line <= Len(file)
  /\ LET option == file[line].option
         value == file[line].value
     IN  cell' = IF Heeded(option, cell)
                 THEN SideEffect(option, value, [cell EXCEPT ![option] = value])
                 ELSE cell
  /\ line' = line + 1
  /\ UNCHANGED <<file, used, pc>>

EndOfFile ==
  /\ pc = "read" /\ line > Len(file)
  /\ pc' = "explore"
  /\ UNCHANGED <<file, line, cell, used>>

-----------------------------------------------------------------------------
(***************************************************************************)
(* MemCell::CalculateWriteEnergy.                                          *)
(***************************************************************************)
\* A voltage (or what is left of it) over a resistance.
OverResistance(voltage, drop, pulse, resistance) ==
  IF resistance = 0 THEN NotFinite ELSE (voltage * (voltage - drop) * pulse) \div resistance

\* The resistance the pulse meets; memristors without access device have their own.
Met(c, own) == IF c.MemCellType = "memristor" /\ c.AccessType = "none" THEN own ELSE c.ResistanceOn

ByVoltage(c, voltage, current, pulse, own) ==
  IF c.MemCellType = "FBRAM" THEN voltage * current * pulse
  ELSE OverResistance(voltage, c.VoltageDropAccessDevice, pulse, Met(c, own))

\* The voltage tested is the reset voltage, for both energies.
ByCurrent(c, voltage, current, pulse) ==
  (IF c.ResetVoltage = 0 THEN Vdd ELSE voltage) * current * pulse

ResetEnergyOf(c) ==
  IF c.ResetMode = "voltage"
  THEN ByVoltage(c, c.ResetVoltage, c.ResetCurrent, c.ResetPulse, c.ResistanceOnAtResetVoltage)
  ELSE ByCurrent(c, c.ResetVoltage, c.ResetCurrent, c.ResetPulse)

SetEnergyOf(c) ==
  IF c.SetMode = "voltage"
  THEN ByVoltage(c, c.SetVoltage, c.SetCurrent, c.SetPulse, c.ResistanceOnAtSetVoltage)
  ELSE ByCurrent(c, c.SetVoltage, c.SetCurrent, c.SetPulse)

\* Mutant: the energies of the file are computed anew.
AlwaysMissing(energy) == TRUE

Missing(energy) == energy = 0

CalculateWriteEnergy(c) ==
  [c EXCEPT !.ResetEnergy = IF Missing(@) THEN ResetEnergyOf(c) ELSE @,
            !.SetEnergy = IF Missing(@) THEN SetEnergyOf(c) ELSE @]

\* SubArray::CalculatePower of a bank, for the cells that are set and reset.
CalculatePower ==
  /\ pc = "explore" /\ Len(used) < MaxBanks
  /\ cell.MemCellType \in {"MRAM", "PCRAM", "memristor", "FBRAM"}
  /\ cell' = CalculateWriteEnergy(cell)
  /\ used' = Append(used, <<cell'.ResetEnergy, cell'.SetEnergy>>)
  /\ UNCHANGED <<file, line, pc>>

\* The exploration ends, with or without another bank.
Finish ==
  /\ pc = "explore"
  /\ pc' = "done"
  /\ UNCHANGED <<file, line, cell, used>>

Done == pc = "done" /\ UNCHANGED vars

Next == ReadLine \/ EndOfFile \/ CalculatePower \/ Finish \/ Done

Spec == Init /\ [][Next]_vars

-----------------------------------------------------------------------------
(***************************************************************************)
(* Properties.                                                             *)
(***************************************************************************)
\* Option i is decided by option j, or its field computed from that of j.
DependsOn(i, j) ==
  \/ i \in DOMAIN Deciding /\ j = Deciding[i]
  \/ i = "CellAspectRatio" /\ j = "CellArea"
  \/ i = "ResistanceOn" /\ j = "ResistanceOnAtReadVoltage"
  \/ i = "ResistanceOff" /\ j = "ResistanceOffAtReadVoltage"

\* The types come before the options they decide, the area before the ratio, and
\* the general resistances last, as in the files of the repository; no option
\* is given twice.
IsOrdered(f) ==
  \A i, j \in DOMAIN f : i < j =>
    f[i].option # f[j].option /\ ~DependsOn(f[i].option, f[j].option)

\* The cells an option is for (MemCell.h:95-122).
Meant(option, c) ==
  CASE option = "AccessCMOSWidth" -> c.AccessType = "CMOS"
    [] option = "DRAMCellCapacitance" -> c.MemCellType \in {"DRAM", "eDRAM"}
    [] option \in {"SRAMCellNMOSWidth", "SRAMCellPMOSWidth"} -> c.MemCellType = "SRAM"
    [] option \in {"FlashEraseTime"} -> c.MemCellType \in Flash
    [] OTHER -> TRUE

\* In an ordered file every option takes effect that is meant for the cell: none
\* is undone by a later line, the other options may come in any order, and
\* the height and width are those of the area and the ratio.
OrderedFileTakesEffect ==
  pc = "explore" /\ used = << >> /\ IsOrdered(file) =>
    \A i \in DOMAIN file :
      LET option == file[i].option
      IN  /\ Meant(option, cell) => cell[option] = file[i].value
          /\ option = "CellAspectRatio" => cell.Shape = <<cell.CellArea, file[i].value>>

\* The energy that the file gives for an option is the last one.
Given(option) ==
  {file[i].value : i \in {i \in DOMAIN file : /\ file[i].option = option
                            /\ \A j \in i + 1 .. Len(file) : file[j].option # option}} \ {0}

\* All banks of an exploration are charged the same energies for a cell, although
\* the first of them changes the cell (SubArray.cpp:721): those of the file, where
\* it has them.
BanksAgreeOnEnergy ==
  \A i \in 1 .. Len(used) :
    /\ used[i] = used[1]
    /\ Given("ResetEnergy") \subseteq {used[i][1]}
    /\ Given("SetEnergy") \subseteq {used[i][2]}
=============================================================================
