SPECIFICATION Spec
CONSTANTS
    s1 = s1  s2 = s2
    Sockets = {s1}
    NoSocket = NoSocket
    NoProvider = NoProvider
    MaxListeners = 6
    Events = {"UpdateRewards", "RequestingUpdate"}
    MaxAttempts = 2
    Faults = {}
    Flaky = {}
    MaxUpsets = 3
INVARIANT SwapLeavesFailed
CHECK_DEADLOCK FALSE
