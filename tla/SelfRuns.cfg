SPECIFICATION Spec
CONSTANTS
    Runs = {r1, r2}
    Users = {u1}
    Apis = {a1, a2}
    InlineApis = {a1}
    Workers = {w1}
    None = None
    Verdicts = {"accepted", "system_error"}
    SystemError = "system_error"
    MaxActive = 1
    Parallelism = 1
    MaxAttempts = 2
    Faults = {"storage", "db", "api", "worker", "publish", "build", "agent"}
    MaxFaults = 1
SYMMETRY Symmetry
INVARIANTS
    TypeOK
    CapRespected
    NothingRunsAfterClose
    EndedRequestHoldsNoSlot
PROPERTIES
    RunVerdictFinal
    SourceTakenOnlyByUndo
CHECK_DEADLOCK FALSE
