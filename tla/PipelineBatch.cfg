SPECIFICATION FairSpec
CONSTANTS
    Subs = {s1, s2}
    Workers = {w1}
    Agents = {a1}
    Batches = {b1}
    Verdicts = {"accepted"}
    None = None
    ClaimLimit = 1
    ResultBatch = 1
    Slots = 1
    MaxAttempts = 3
    MaxRequests = 99
    Faults = {"publish", "worker", "judge"}
    MaxFaults = 1
INVARIANTS
    BatchNeverOvercounts
    ClosedBatchIsSettled
    DispatchedIsTraceable
PROPERTIES
    JudgedUnlessStranded
CHECK_DEADLOCK FALSE
