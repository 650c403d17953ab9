SPECIFICATION Spec
CONSTANTS
    w1 = w1  w2 = w2  q1 = q1  q2 = q2  a1 = a1  a2 = a2  s1 = s1  s2 = s2  s3 = s3
    Workers = {w1}
    NoWorker = NoWorker
    Requests = {q1, q2}
    Addr = {a1, a2}
    Account <- TwoAccounts
    Operators = {"first", "second"}
    Slots = {s1}
    MaxUpdateAllocationRetries = 1
    MaxStalled = 1
    Faults = {"receipt"}
    SoleWorker = TRUE
    DoClean = FALSE
    MaxReward = 1
    MaxPool = 1
    MaxUnbooked = 0
    MaxDuplicates = 0
    MaxUpsets = 0
INVARIANT LateRewardHarmless
CHECK_DEADLOCK FALSE
