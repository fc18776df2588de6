CONSTANTS
    p1 = p1
    p2 = p2
    None = None
    Users <- MCUsers
    GlobalPermissions <- MCGlobalPermissions
    RolePermissions <- MCRolePermissions
    UpdateInputs <- MCUpdateInputs
    Verdicts = {"accepted"}
    MaxRevision = 2
    MaxBusy = 2
    MaxSnapshots = 2
    CreateInputs <- BoardCreateInputs
    GrantInputs <- MCGrantInputs
    Registrants = {2}
    SubmitInputs <- BoardSubmitInputs
    MaxSubmissions = 1
    MaxNow = 3
    MaxLag = 2
    Workers = {w1}
    Generators = {g1, g2}
SYMMETRY GeneratorSymmetry
SPECIFICATION Spec
INVARIANTS FinalSnapshotExact FrozenStopsAtFreeze
CHECK_DEADLOCK FALSE
