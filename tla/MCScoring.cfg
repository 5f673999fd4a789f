SPECIFICATION Spec
CONSTANTS
  Cases <- MCCases
  Databases <- MCDatabases
  Shows <- MCShows
  Nodes <- MCNodes
  NodeType <- MCNodeType
  Parents <- MCParents
  NameOf <- MCNameOf
  StagedFrom <- MCStagedFrom
  Expectations <- MCExpectations
  Calls <- MCCalls
  Meanwhile = {"healthy", "coupons", "retypedUser", "renamed"}
  Causes <- MCCauses
  MaxFailures = 2
CHECK_DEADLOCK FALSE
INVARIANTS
  PassedGapIsReal
  GateMatchesEvaluator
  CauseNeedsItsFault
  BuiltinAnswersAreRight
  CleanAnalystIsCertified
