SPECIFICATION FairSpec
CONSTANTS
  s1 = s1
  s2 = s2
  t1 = t1
  t2 = t2
  c1 = c1
  c2 = c2
  c3 = c3
  None = None
  Sessions = {s1}
  Ticks = {t1}
  Tokens = {c1, c2}
  MaxFailures = 0
  MaxEdits = 0
  Events = {"controlPlaneCrash"}
PROPERTIES SyncingResolved
