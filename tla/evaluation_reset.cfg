SPECIFICATION Spec
CONSTANTS
  Calls <- MCCalls
  Unit = 4
INVARIANT ResetContainsCells
