SPECIFICATION Spec
CONSTANTS
    silent = silent
    type = type
    customer = customer
    control = control
    drop = drop
    note = note
    amount = amount
    user = user
    r1 = r1
    r2 = r2
    Cases = {silent, type, customer, control}
    Mutations = {drop, note, amount, user}
    Declared <- MCDeclared
    Obscured <- MCObscured
    Relation <- MCRelation
    Kind <- MCKind
    Profiled <- MCProfiled
    FailedNodes <- MCFailedNodes
    Runs = {r1, r2}
    NoRun = NoRun
    NoCase = NoCase
SYMMETRY RunSymmetry
INVARIANTS
    PointerNamesVerifiedRun
    AttemptSeesItsCase
    EvaluationIsBacked
PROPERTIES
    PointerClearedFirst
    RunBelongsToOneBuild
    PrimaryErrorKept
    ImplementsContract
