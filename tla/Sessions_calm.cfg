CONSTANTS
  c1 = c1  c2 = c2  c3 = c3  x = x  y = y
  Conns = {c1, c2, c3}
  Chars = {x, y}
  NoConn = NoConn
  NoChar = NoChar
  MaxGains = 2
  MaxJobs = 1
  MaxCount = 3
  Delayed = FALSE
  Crossing = FALSE
SYMMETRY Symmetric
SPECIFICATION Spec
INVARIANTS TypeOK CountCovers OneSession FoundByName NothingLost
CHECK_DEADLOCK FALSE
