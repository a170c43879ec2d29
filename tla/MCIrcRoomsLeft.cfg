SPECIFICATION Spec
CONSTANTS
  a = a
  b = b
  p1 = p1
  q1 = q1
  q2 = q2
  l1 = l1
  c1 = c1
  n1 = n1
  Rooms = {a}
  People = {}
  Config = {a}
  Resolves = {}
  Leaves = {l1}
  Cycles = {}
  Asks = {}
  MaxDrops = 0
  MaxChatter = 0
INVARIANT
  LeftStaysLeft
CHECK_DEADLOCK FALSE
