CONSTANTS
    p1 = p1
    p2 = p2
    None = None
    Users <- MCUsers
    GlobalPermissions <- MCGlobalPermissions
    RolePermissions <- MCRolePermissions
    UpdateInputs <- MCUpdateInputs
    Verdicts = {"accepted"}
    MaxRevision = 2
    MaxBusy = 2
    MaxSnapshots = 2
    CreateInputs <- ScoreCreateInputs
    GrantInputs = {}
    Registrants = {1, 2}
    SubmitInputs <- ScoreSubmitInputs
    MaxSubmissions = 2
    MaxNow = 1
    MaxLag = 0
    Workers = {w1, w2}
    Generators = {}
SYMMETRY WorkerSymmetry
SPECIFICATION Spec
INVARIANTS TypeOK ScoreIsSum CellsAreRebuilt PagesRankAsBoard
CHECK_DEADLOCK FALSE
