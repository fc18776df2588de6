SPECIFICATION FairSpec
CONSTANTS
    Subs = {s1}
    Workers = {w1}
    Agents = {a1}
    Batches = {}
    Verdicts = {"accepted"}
    None = None
    ClaimLimit = 2
    ResultBatch = 2
    Slots = 2
    MaxAttempts = 1
    MaxRequests = 99
    Faults = {"agent"}
    MaxFaults = 1
CHECK_DEADLOCK FALSE
PROPERTY EventuallyJudged
