SPECIFICATION Spec
CONSTANTS
    w1 = w1  w2 = w2  t1 = t1  t2 = t2  a1 = a1  a2 = a2
    Workers = {w1}
    NoWorker = NoWorker
    Tx = {t1}
    Addr = {a1}
    Flows = {f1, f2}
    Deployed = 1
    MaxRange = 1
    MaxRpcRetries = 5
    MaxStalled = 1
    MaxLag = 0
    Faults = {"rpc"}
    SoleWorker = TRUE
    DoClean = FALSE
    DoDbNuke = FALSE
    MultiRequestTx = FALSE
    MaxBlock = 2
    MaxUpsets = 0
PROPERTIES ChainKept
CHECK_DEADLOCK FALSE
