SPECIFICATION SafetySpec
INVARIANTS
  WaiterFindsResult
CHECK_DEADLOCK FALSE
