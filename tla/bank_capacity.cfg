SPECIFICATION Spec
CONSTANT Calls <- OddCalls
INVARIANT CapacityNeverViolated
