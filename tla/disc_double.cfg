SPECIFICATION Spec
CONSTANTS
    w1 = w1  w2 = w2  t1 = t1  t2 = t2  a1 = a1  a2 = a2
    Workers = {w1}
    NoWorker = NoWorker
    Tx = {t1}
    Addr = {a1}
    Flows = {f1, f2, f3}
    Deployed = 1
    MaxRange = 1
    MaxRpcRetries = 1
    MaxStalled = 1
    MaxLag = 0
    Faults = {}
    SoleWorker = TRUE
    DoClean = FALSE
    DoDbNuke = FALSE
    MultiRequestTx = FALSE
    MaxBlock = 2
    MaxUpsets = 2
INVARIANTS SingleChain
SYMMETRY SlotSymmetry
CHECK_DEADLOCK FALSE
