SPECIFICATION Spec
CONSTANTS
    p1 = p1  p2 = p2  p3 = p3  s1 = s1  s2 = s2  s3 = s3
    Processes = {p1, p2}
    Sessions = {s1, s2, s3}
    NoSession = NoSession
    NumWorkers = 1
    Faults = {}
    InvalidAnswers = {"refused"}
    MaxCalls = 2
    MaxUpsets = 1
INVARIANT OneActiveWorker
CHECK_DEADLOCK FALSE
