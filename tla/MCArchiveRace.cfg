SPECIFICATION Spec
CONSTANTS
  Cells = {1, 2}
  Group <- MCGroup
  Repeat <- MCRepeat
  Scopes = {{1}, {1, 2}}
  Verdicts = {"passed", "gateFailed", "environmentFailed"}
  p1 = p1
  p2 = p2
  Clerks = {p1, p2}
  MaxKills = 1
SYMMETRY Symmetric
INVARIANTS
  MatrixCoversLedger
CHECK_DEADLOCK FALSE
