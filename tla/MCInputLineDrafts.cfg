\* A login prompt interrupts window 0, which has a draft.
SPECIFICATION Spec
CONSTANTS
    c1 = c1
    c2 = c2
    n1 = n1
    n2 = n2
    Chat = {c1, c2}
    Net = {n1, n2}
    NetOf <- MCNetOf
    Status = Status
    None = None
    Gone = Gone
    Plans <- JustLogin
PROPERTIES EachKeepsItsDraft
CHECK_DEADLOCK FALSE
