\* Ten plans of the input, on two chats of two networks; four keys; six scripts of the terminal.
SPECIFICATION InputsSpec
CONSTANTS
    c1 = c1
    c2 = c2
    n1 = n1
    n2 = n2
    Chat = {c1, c2}
    Net = {n1, n2}
    NetOf <- MCNetOf
    Status = Status
    None = None
    Gone = Gone
    Plans <- MCPlans
INVARIANTS AnswersRight TextRight KeysRight
PROPERTIES TextKept InputEnds
CHECK_DEADLOCK FALSE
