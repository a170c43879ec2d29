\* A line received just before /clear.
SPECIFICATION Spec
CONSTANTS
    c1 = c1
    c2 = c2
    a1 = a1
    a2 = a2
    None = None
    Asked = Asked
    Chat = {c1}
    Account = {a1, a2}
    MaxId = 2
    MaxVersion = 1
    MaxJobs = 3
    Cap = 2
    Plans <- JustClear
PROPERTY ClearKeeps
CHECK_DEADLOCK FALSE
