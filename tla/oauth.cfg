SPECIFICATION OAuthSpec
CONSTANTS
  r1 = r1  r2 = r2  c1 = c1
  Reqs = {r1, r2}
  Codes = {c1}
  MaxGrants = 2
  MaxPairs = 3
  MaxTime = 2
  TicketTTL = 2
  CodeTTL = 2
  AccessTTL = 2
  GrantTTL = 1
SYMMETRY RequestSym
CHECK_DEADLOCK FALSE
INVARIANTS UsedOnce 
