\* Five plans, on two chats: accounts, edits, the only copy, the sync, failures.
SPECIFICATION FairSpec
CONSTANTS
    c1 = c1
    c2 = c2
    a1 = a1
    a2 = a2
    None = None
    Asked = Asked
    Chat = {c1, c2}
    Account = {a1, a2}
    MaxId = 2
    MaxVersion = 1
    MaxJobs = 3
    Cap = 2
    Plans <- MCPlans
INVARIANTS HistoryRight NothingUnsaved
PROPERTIES OnlyCopy QuitSaves SyncEnds
CHECK_DEADLOCK FALSE
