SPECIFICATION Spec
CONSTANT Calls <- MCCalls
INVARIANTS
  LevelsWrittenInOrder
  WiresReachTheMats
  LoadsAreShared
  SameAsBus
  RebuildsSameBank
  EvenCallsFit
PROPERTY AlwaysEnds
