SPECIFICATION Spec
CONSTANTS
    r1 = r1
    r2 = r2
    part = part
    full = full
    v1 = v1
    v2 = v2
    alien = alien
    Cells <- MCCells
    ModelBacked <- MCModelBacked
    Selectors = {full, part}
    FullSuite = full
    Selection <- MCSelection
    Revisions = {v1, v2}
    Approved = {v1, v2}
    Planner = FALSE
    WindowSize = 2
    WindowThreshold = 2
    Runners = {r1, r2}
SYMMETRY RunnerSymmetry
INVARIANTS
    MutualExclusion
    AtMostOneAttempt
    LedgerStaysReadable
    RecordMatchesBundle
    ReturnsFullyTerminal
    WindowSurvivesRestart
    AdmittedByOneReceipt
    CompletedMeansAllPassed
PROPERTIES
    EvidenceKept
    ImplementsContract
