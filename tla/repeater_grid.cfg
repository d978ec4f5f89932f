SPECIFICATION Spec
CONSTANTS
  LastSpacing = 2
  MaxSize = 2
  Penalties = {5, 20, 50}
  Circuits <- MCCircuits
INVARIANT AllSpacingsTried
