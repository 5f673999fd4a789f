CONSTANTS
  g1 = g1
  g2 = g2
  g3 = g3
  g4 = g4
  Run = "run"
  Calls <- MCCleanCalls
  GapIds <- MCGapIds
  Declarations <- MCPairOnly
  References = {{"h2"}}
  Ontology <- MCOntology
  Records <- MCCleanRecords
  Observable <- MCCleanObservable
  LineageCandidates = {"n1"}
  IncidentSubjects = {"n1"}
  Models = {"n0"}
  Rules <- MCPaymentRules
  DomainRule <- MCDomainRule
  ErrorCodes = {"RUN_NOT_FOUND"}
  SafeToolErrors = {"RELATION_NOT_ALLOWED", "RUN_NOT_FOUND", "EVIDENCE_TOOL_ERROR"}
  Declarable <- MCDeclarable
  BlankSubjects = {""}
  ToolCallLimit = 4
  MaxOpen = 2
SPECIFICATION Spec
SYMMETRY MCSymmetry
CHECK_DEADLOCK FALSE
INVARIANT
  HealthyRunIsClean
PROPERTY
  PositiveVerdictFrozen
