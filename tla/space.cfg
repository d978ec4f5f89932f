SPECIFICATION Spec
CONSTANTS
  FullMat = 4
  FullMux = 2
  ReducedMat = 2
  ReducedMux = 1
  TotalAddressBit = 16
  Files <- MCFiles
  CellTypes = {"SRAM", "SLCNAND", "DRAM"}
INVARIANTS
  RangesRestored
  ChoicesHold
  SearchIsComplete
  DataMatchesTags
PROPERTY PointsIncrease
