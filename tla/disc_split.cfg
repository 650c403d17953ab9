SPECIFICATION Spec
CONSTANTS
    w1 = w1  w2 = w2  t1 = t1  t2 = t2  a1 = a1  a2 = a2
    Workers = {w1, w2}
    NoWorker = NoWorker
    Tx = {t1}
    Addr = {a1}
    Flows = {f1}
    Deployed = 1
    MaxRange = 3
    MaxRpcRetries = 1
    MaxStalled = 1
    MaxLag = 0
    Faults = {"rpc", "db", "redis"}
    SoleWorker = FALSE
    DoClean = TRUE
    DoDbNuke = FALSE
    MultiRequestTx = FALSE
    MaxBlock = 3
    MaxUpsets = 0
INVARIANT NoRequestSkipped
PROPERTY KeepsRegister
SYMMETRY WorkerSymmetry
CHECK_DEADLOCK FALSE
