SPECIFICATION Spec
CONSTANTS
    w1 = w1  w2 = w2  q1 = q1  q2 = q2  a1 = a1  a2 = a2  s1 = s1  s2 = s2  s3 = s3
    Workers = {w1}
    NoWorker = NoWorker
    Requests = {q1}
    Addr = {a1}
    Account <- OneAccount
    Operators = {"first", "second"}
    Slots = {s1}
    MaxUpdateAllocationRetries = 1
    MaxStalled = 1
    Faults = {"rpc", "hang", "receipt"}
    SoleWorker = TRUE
    DoClean = TRUE
    MaxReward = 1
    MaxPool = 1
    MaxUnbooked = 0
    MaxDuplicates = 0
    MaxUpsets = 1
INVARIANT NeverOverpaid
PROPERTY PaysOut
CHECK_DEADLOCK FALSE
