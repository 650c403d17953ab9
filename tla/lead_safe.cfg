SPECIFICATION Spec
CONSTANTS
    p1 = p1  p2 = p2  p3 = p3  s1 = s1  s2 = s2  s3 = s3
    Processes = {p1, p2}
    Sessions = {s1, s2}
    NoSession = NoSession
    NumWorkers = 2
    Faults = {"expiry", "create", "net", "reorder"}
    InvalidAnswers = {"refused", "error"}
    MaxCalls = 2
    MaxUpsets = 0
INVARIANTS TypeOK OneLiveLeader StandbyRests
SYMMETRY Symmetry
CHECK_DEADLOCK FALSE
