SPECIFICATION FairSpec
CONSTANTS
  s1 = s1
  s2 = s2
  Sessions = {s1}
  Faults = {"ackLost", "dbError", "closeFails", "engineCrash", "controlPlaneCrash", "reapRace", "deviceRevoked"}
INVARIANT CompletedMeansPromoted
PROPERTY LockReleased
