CONSTANTS
  g1 = g1
  g2 = g2
  g3 = g3
  g4 = g4
  Run = "run"
  Calls <- MCFailedCalls
  GapIds <- MCGapIds
  Declarations <- MCDeclarations
  References <- MCNoReferences
  Ontology <- MCOntology
  Records <- MCFailedRecords
  Observable <- MCObservable
  LineageCandidates = {}
  IncidentSubjects = {"n1"}
  Models = {"n0", "far"}
  Rules <- MCRules
  DomainRule <- MCDomainRule
  ErrorCodes = {"RELATION_NOT_ALLOWED", "RUN_NOT_FOUND", "unlisted"}
  SafeToolErrors = {"RELATION_NOT_ALLOWED", "RUN_NOT_FOUND", "EVIDENCE_TOOL_ERROR"}
  Declarable <- MCDeclarable
  BlankSubjects = {""}
  ToolCallLimit = 4
  MaxOpen = 2
SPECIFICATION Spec
SYMMETRY MCSymmetry
CHECK_DEADLOCK FALSE
INVARIANTS
  EvidenceAccounted
  ConfirmedIsTraced
PROPERTIES
  UnresolvedIsBlocked
  ImplementsContract
