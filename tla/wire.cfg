SPECIFICATION RepeatersSpec
CONSTANTS
  Types <- MCTypes
  Repeated <- MCRepeated
  Results = {"best"}
  MaxAmp = 1
  Unset = Unset
  NoAmp = NoAmp
  LastSpacing = 2
  MaxSize = 2
  Penalties = {5, 20, 50}
  Circuits <- MCCircuits
  Penalty <- MCPenalty
  Fabrics <- MCFabrics
INVARIANTS ReadsAreCurrent OwnedOnce WithinPenalty
PROPERTY CostFalls
