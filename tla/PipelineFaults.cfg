SPECIFICATION Spec
CONSTANTS
    Subs = {s1}
    Workers = {w1, w2}
    Agents = {a1}
    Batches = {b1}
    Verdicts = {"accepted", "wrong_answer"}
    None = None
    ClaimLimit = 2
    ResultBatch = 2
    Slots = 2
    MaxAttempts = 3
    MaxRequests = 99
    Faults = {"worker", "publish", "build", "agent", "judge", "stall"}
    MaxFaults = 1
SYMMETRY Symmetry
INVARIANTS
    TypeOK
    OnlyLatestAttemptOpen
    ProjectionShowsLatestVerdict
    OneVerdictPerRound
PROPERTIES
    ImplementsLedger
    VerdictOnlyByRejudge
    FinishedAttemptsFrozen
CHECK_DEADLOCK FALSE
