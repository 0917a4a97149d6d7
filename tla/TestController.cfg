SPECIFICATION Spec
INVARIANTS
  TypeOK
  SuccessIsEarned
  CompletionHasResult
  ExitCodeRight
PROPERTIES
  ResultIsFinal
  
CHECK_DEADLOCK FALSE
