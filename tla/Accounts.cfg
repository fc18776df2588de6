CONSTANTS
    u1 = u1
    u2 = u2
    q1 = q1
    q2 = q2
    d1 = d1
    Users = {u1, u2}
    Founders = {u1}
    FounderRoles = {"root"}
    Devices = {d1}
    Requests = {q1, q2}
    None = None
    RoleInputs = {"root", "author"}
    StatusInputs = {"active", "disabled"}
    MatrixRoles = {"user"}
    MatrixInputs <- MCMatrices
    MaxTokens = 2
SYMMETRY RequestSymmetry
SPECIFICATION Spec
INVARIANTS
    TypeOK
    RootAssigned
    RolesMatchTrail
    DelegationBounded
CHECK_DEADLOCK FALSE
