SPECIFICATION Spec
CONSTANTS
  r1 = r1  r2 = r2  m1 = m1  m2 = m2  m3 = m3  i1 = i1
  f1 = f1  f2 = f2  p1 = p1  p2 = p2  c1 = c1  c2 = c2  k1 = k1  k2 = k2
  Requests = {r1, r2}
  HasVet = TRUE
  MaxSteps = 4
  MaxRows = 1
  Movements = {m1, m2, m3}
  References = {i1}
  MaxCount = 2
  MaxListed = 2
  MaxReports = 3
  Frames = {f1, f2}
  MaxCaptures = 2
  Popups = {p1, p2}
  MaxDownloads = 2
  Crawls = {c1, c2}
  Closers = {k1, k2}
  MaxLaunches = 3
CHECK_DEADLOCK FALSE
INVARIANTS GateDeniesByDefault LoopIsHonest  CodeStaysHidden  PoolIsFenced
PROPERTIES EngineMovesOn
