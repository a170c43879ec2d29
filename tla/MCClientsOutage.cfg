\* The list of chats is read while a guild is unavailable.
SPECIFICATION OutageSpec
CONSTANTS
    a = a
    p1 = p1
    w1 = w1
    w2 = w2
    Zero = Zero
    None = None
    Plans <- MCPlans
    Burst = 1
    MaxTicks = 2
    Sizes = {1, 2, 3, 5}
    Width = 4
    MaxCalls = 2
    Wait = 1
    Slots = 1
    Messages = 3
    StoreCap = 3
    PageSize = 2
    Targets = 2
    DlSlots = 1
    MaxOps = 4
    Rooms = {a}
    People = {p1}
    Config = {a}
    Resolves = {q1, q2}
    Leaves = {}
    Cycles = {c1}
    Asks = {n1}
    MaxDrops = 1
    MaxChatter = 1
INVARIANT OutageKeeps
CHECK_DEADLOCK FALSE
