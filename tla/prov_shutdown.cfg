SPECIFICATION Spec
CONSTANTS
    s1 = s1  s2 = s2
    Sockets = {s1}
    NoSocket = NoSocket
    NoProvider = NoProvider
    MaxListeners = 6
    Events = {"UpdateRewards", "RequestingUpdate"}
    MaxAttempts = 2
    Faults = {"shutdown"}
    Flaky = {}
    MaxUpsets = 1
INVARIANT StopsOnlyAfterAttempts
CHECK_DEADLOCK FALSE
