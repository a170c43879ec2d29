\* One network launched twice, two accounts, a logout that takes time; two rooms, a Resolve, a Leave, a list.
SPECIFICATION NetRoomsSpec
CONSTANTS
    None = None
    Session = {s1, s2}
    RawCap = 1
    EnvCap = 1
    Net = {n1}
    Account = {a1, a2}
    LogoutNets = {n1}
    RemovableNets = {n1}
    HistoryNets = {n1}
    EarlyNets = {}
    Posts = {"ready", "connected", "message"}
    Rooms = {a, b}
    People = {}
    Config = {a}
    Resolves = {q1}
    Leaves = {l1}
    Cycles = {}
    Asks = {p1}
    MaxDrops = 1
    MaxChatter = 0
INVARIANTS TypeOK OneBackend NeverStranded DeadIsDead ChatsOfAccount RoomLists
CHECK_DEADLOCK FALSE
