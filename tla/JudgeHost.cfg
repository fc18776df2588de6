CONSTANTS
    s1 = s1
    s2 = s2
    s3 = s3
    r1 = r1
    A = A
    B = B
    None = None
    Loops <- MCLoops
    Requests <- MCRequests
    Stream <- MCStream
    LanguageOf <- MCLanguageOf
    LanguageSlots <- MCLanguageSlots
    RefOf <- MCRefOf
    SizeOf <- MCSizeOf
    Parallelism = 2
    MaxBatch = 3
    MaxBytes = 2
    MaxFaults = 1
SPECIFICATION Spec
INVARIANTS SlotsAccounted CacheWithinBudget JudgedAgainstItsSet AckedIsAnswered
PROPERTY DeliveredIsSettled
CHECK_DEADLOCK FALSE
