SPECIFICATION Spec
CONSTANTS
  p1 = p1
  p2 = p2
  Processes = {p1, p2}
  Identities = {"original", "other"}
  Original = "original"
  Checks = {"cause", "gap", "old", "new"}
  Verdict <- MCVerdict
  MaxKills = 1
  MaxDamage = 1
SYMMETRY Symmetric
INVARIANT GivenScoresStay
CHECK_DEADLOCK FALSE
