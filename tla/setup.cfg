SPECIFICATION SetupSpec
CONSTANTS
  Nodes <- MCNodes
  NoTable = NoTable
  Files <- MCFiles
  Inputs <- MCInputs
  MaxBanks = 2
  Vdd = 1
  NotFinite = 1000
INVARIANTS OrderedFileTakesEffect BanksAgreeOnEnergy LaddersAgree
