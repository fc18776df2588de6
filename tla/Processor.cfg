SPECIFICATION ProcessorSpec
CONSTANTS
    Subs = {s1}
    Workers = {w1}
    Agents = {a1}
    Batches = {b1, b2}
    Verdicts = {"accepted", "system_error"}
    None = None
    ClaimLimit = 1
    ResultBatch = 1
    Slots = 1
    MaxAttempts = 2
    MaxRequests = 2
    Faults = {"agent", "stall"}
    MaxFaults = 1
    EngineVerdicts = {"accepted"}
    SystemError = "system_error"
    MaxTries = 1
SYMMETRY Symmetry
INVARIANTS
    DeadTaskIsSettled
PROPERTIES
    VerdictOnlyByReopening
CHECK_DEADLOCK FALSE
