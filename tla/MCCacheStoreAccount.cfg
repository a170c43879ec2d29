\* Two accounts, the second stopped before its list of chats.
SPECIFICATION Spec
CONSTANTS
    c1 = c1
    c2 = c2
    a1 = a1
    a2 = a2
    None = None
    Asked = Asked
    Chat = {c1}
    Account = {a1, a2}
    MaxId = 2
    MaxVersion = 1
    MaxJobs = 3
    Cap = 2
    Plans <- JustStop
INVARIANT OtherIgnored
CHECK_DEADLOCK FALSE
