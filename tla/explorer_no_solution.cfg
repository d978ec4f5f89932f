SPECIFICATION Spec
CONSTANTS
  Targets <- MCTargets
  Worst <- MCWorst
  NumDesigns <- MCNumDesigns
  Wires <- MCWires
  LocalRange <- MCRange
  GlobalRange <- MCRange
  BasicLocal <- MCBasic
  BasicGlobal <- MCBasic
  LastTarget = "area"
  FullExploration = "fullExploration"
  Invalid = Invalid
  Unset = Unset
  Physics <- MCPhysics
  Configs <- MCConfigs
  TagSeeds = {1, 2, 4, 5, 7, 9, 15, 100}
  DataSeeds = {0, 1, 2, 3, 4, 5, 6, 7, 8, 9, 10, 11, 12, 13, 14, 15, 16, 17, 18, 19, 100, 201, 204}
  Scale = 5
INVARIANT NoSolutionMeansNone
