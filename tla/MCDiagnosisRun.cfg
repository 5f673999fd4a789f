SPECIFICATION FairSpec
CONSTANTS
  Evidence = {"e1", "e2", "e3"}
  Calls = {"e1", "e2", "e3"}
  ToolCallLimit = 2
  ModelRequestLimit = 1
  OutputRetryLimit = 1
  RequestLimit = 3
  MaxAttempts = 3
CHECK_DEADLOCK FALSE
INVARIANTS
  ResultMatchesSession
  VerdictCitesRegistered
  BudgetsAgree
PROPERTIES
  ReturnsEventually
