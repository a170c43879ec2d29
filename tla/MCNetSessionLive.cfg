\* What must end ends, and the lifecycle: two launches of one account, every kind of event.
SPECIFICATION FairSpec
CONSTANTS
    n1 = n1
    s1 = s1
    s2 = s2
    a1 = a1
    a2 = a2
    None = None
    Session = {s1, s2}
    RawCap = 1
    EnvCap = 1
    Net = {n1}
    Account = {a1}
    LogoutNets = {n1}
    RemovableNets = {n1}
    HistoryNets = {n1}
    EarlyNets = {}
    Posts = {"ready", "connected", "disconnected", "message"}
PROPERTIES StopEnds Lifecycle
CHECK_DEADLOCK FALSE
