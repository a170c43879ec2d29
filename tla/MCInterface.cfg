\* One hook that stays and one that comes and goes; two steps of the panel, seven of the media, three of the boxes.
SPECIFICATION InterfaceSpec
CONSTANTS
    h1 = h1
    h2 = h2
    r1 = r1
    r2 = r2
    r3 = r3
    None = None
    g1 = g1
    g2 = g2
    t1 = t1
    d2 = d2
    status = status
    results = results
    nA = nA
    nB = nB
    guild = guild
    Name = {h1, h2}
    Run = {r1, r2, r3}
    Reply = {"send", "none"}
    Files <- OneKept
    MaxRuns = 2
    MaxSends = 1
    Minute = 1
INVARIANTS RunsCounted AtMostMaxRuns SendRate
PROPERTIES SidebarRight MediaRight LookupsRight WaitsEnd
CHECK_DEADLOCK FALSE
