SPECIFICATION Spec
CONSTANTS
  p1 = p1  p2 = p2  w1 = w1  w2 = w2  d1 = d1  d2 = d2  k1 = k1  k2 = k2  q1 = q1  q2 = q2  n1 = n1  n2 = n2
  NoPod = NoPod  NoWorker = NoWorker
  Pods = {p1, p2}
  Lease = 2
  Grace = 1
  MaxTime = 4
  Workers = {w1, w2}
  Dispatchers = {d1, d2}
  Callers = {k1, k2}
  MaxRevision = 1
  MaxDue = 3
  Horizon = 1
  IdBase = 10
  Accts = {0}
  Refs = {1, 2}
  MaxCrawls = 2
  MaxBatch = 2
  Planners = {q1, q2}
  Stores = {"sql", "document"}
  PageLimit = 1
  Drains = {n1, n2}
  MaxAttempts = 2
  Budget = 2
  DeliveryLease = 1
  Tolerance = 1
  Followed = {"crawl"}
  LastTick = 3
SYMMETRY DurableSym
CHECK_DEADLOCK FALSE
INVARIANTS OwnerIsFenced ReceiptStands ChainIsSafe IdentityIsSound OutboxIsSound
PROPERTIES RecordsStand PromotionIsSafe
