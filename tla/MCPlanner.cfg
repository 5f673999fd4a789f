SPECIFICATION Spec
CONSTANTS
  o1 = o1
  o2 = o2
  e1 = e1
  e2 = e2
  e3 = e3
  Evidence = {e1, e2, e3}
  Obligations = {o1, o2}
  Yields <- MCYields
  ToolCallLimit = 2
  ModelRequestLimit = 1
  OutputRetryLimit = 1
  MaxAttempts = 0
  MaxRefusals = 2
CHECK_DEADLOCK FALSE
INVARIANTS
  SatisfiedIsWitnessed
  PlanStaysInBudget
  AnswerIsDelivered
