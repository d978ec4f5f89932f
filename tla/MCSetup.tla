------------------------------ MODULE MCSetup ------------------------------
(***************************************************************************)
(* Small cell files (a few options in every order, the write energies in   *)
(* every combination, and the PCRAM cell of the repository) at one process *)
(* node, and all process nodes from 15 nm to 210 nm with one cell file.    *)
(***************************************************************************)
EXTENDS Setup, SequencesExt

L(o, v) == [option |-> o, value |-> v]

\* A few options in every order.
Shapes == {{L("MemCellType", t), L("DRAMCellCapacitance", 5), L("CellArea", 6),
            L("CellAspectRatio", 2)} : t \in {"DRAM", "eDRAM", "SRAM"}}
Accesses == {{L("MemCellType", t), L("AccessType", a), L("AccessCMOSWidth", 3),
              L("SRAMCellNMOSWidth", 4), L("SRAMCellPMOSWidth", 3)} :
               t \in {"SRAM", "MRAM"}, a \in {"CMOS", "diode"}}
Flashes == {{L("MemCellType", "SLCNAND"), L("FlashEraseTime", 7),
             L("ResistanceOn", 1), L("ResistanceOnAtReadVoltage", 2),
             L("ResistanceOffAtReadVoltage", 3)}}
Reordered == UNION {SetToSeqs(lines) : lines \in Shapes \cup Accesses \cup Flashes}

\* Every combination of the modes, voltages and energies of writing.
Written ==
  {<<L("MemCellType", t), L("AccessType", a), L("ResistanceOn", r),
     L("ResistanceOnAtSetVoltage", 2), L("ResistanceOnAtResetVoltage", 1),
     L("ResetMode", rm), L("ResetVoltage", rv), L("ResetCurrent", 3), L("ResetPulse", 2),
     L("SetMode", sm), L("SetVoltage", sv), L("SetCurrent", 2), L("SetPulse", 3),
     L("ResetEnergy", re), L("SetEnergy", se), L("VoltageDropAccessDevice", 1)>> :
       t \in {"PCRAM", "memristor", "FBRAM"}, a \in {"CMOS", "none"}, r \in {0, 1},
       rm \in {"voltage", "current"}, rv \in {0, 2}, sm \in {"voltage", "current"},
       sv \in {0, 2}, re \in {0, 7}, se \in {0, 9}}

\* sample_PCRAM.cell, without the one option that ReadCellFromFile does not know.
Sample ==
  <<L("MemCellType", "PCRAM"), L("CellArea", 9), L("CellAspectRatio", 1),
    L("ResistanceOn", 1), L("ResistanceOff", 3),
    L("ResetMode", "current"), L("ResetCurrent", 3), L("ResetPulse", 4),
    L("SetMode", "current"), L("SetCurrent", 1), L("SetPulse", 15),
    L("AccessType", "CMOS"), L("VoltageDropAccessDevice", 1), L("AccessCMOSWidth", 2)>>

MCNodes == 15 .. 210
MCFiles == Reordered \cup Written \cup {Sample}
MCInputs == MCNodes \X {Sample} \cup {45} \X MCFiles
=============================================================================
