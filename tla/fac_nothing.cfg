SPECIFICATION FairSpec
CONSTANTS
    w1 = w1  w2 = w2  t1 = t1  t2 = t2  a1 = a1  f1 = f1  f2 = f2  f3 = f3  s1 = s1  s2 = s2
    Workers = {w1}
    NoWorker = NoWorker
    Tx = {t1}
    Addr = {a1}
    Requester <- OneRequester
    Flows = {f1, f2, f3}
    Deployed = 1
    MaxRange = 1
    MaxLag = 0
    MaxBlock = 2
    Slots = {s1, s2}
    NoAmount = NoAmount
    MaxUpdateAllocationRetries = 2
    MaxStalled = 1
    MaxReward = 1
    Faults = {}
    DoClean = TRUE
    DoDbNuke = FALSE
    LockHeldAtStart = FALSE
    MaxUpsets = 0
PROPERTY NothingOwedIsClosed
CHECK_DEADLOCK FALSE
