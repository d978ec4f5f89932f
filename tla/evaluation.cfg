SPECIFICATION Spec
CONSTANTS
  Calls <- MCCalls
  Unit = 4
INVARIANTS
  RefusedIsInfinite ReadsAreWhole WritesCoverPulses EverythingLeaks PartsAddUp
  NothingUnsetIsRead HitCoversTagAndData
