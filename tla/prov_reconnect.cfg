SPECIFICATION FairSpec
CONSTANTS
    s1 = s1  s2 = s2
    Sockets = {s1, s2}
    NoSocket = NoSocket
    NoProvider = NoProvider
    MaxListeners = 6
    Events = {"UpdateRewards", "RequestingUpdate"}
    MaxAttempts = 2
    Faults = {"credits", "silent", "shutdown"}
    Flaky = {"secondary"}
    MaxUpsets = 6
INVARIANTS TypeOK OneSocketEach KeepsTrying SwappedOncePerProvider GivenUpIsFinal
PROPERTY ListenerReturns
CHECK_DEADLOCK FALSE
