SPECIFICATION FairSpec
CONSTANTS
    r1 = r1
    r2 = r2
    part = part
    full = full
    v1 = v1
    v2 = v2
    alien = alien
    Cells <- MCCells
    ModelBacked <- MCCells
    Selectors = {full}
    FullSuite = full
    Selection <- MCFullOnly
    Revisions = {v1, alien}
    Approved = {v1}
    Planner = TRUE
    WindowSize = 2
    WindowThreshold = 1
    Runners = {r1, r2}
INVARIANTS
    ProbedBeforeFirstCell
PROPERTIES
    ProcessLeaves
