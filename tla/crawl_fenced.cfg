SPECIFICATION Spec
CONSTANTS
  s1 = s1
  s2 = s2
  Sessions = {s1, s2}
  Faults = {"controlPlaneCrash"}
SYMMETRY Symmetry
INVARIANTS TypeOK DrivenBrowserHoldsLock OneBankLogin FailedHasNoSuccess CancelledNeverPromoted
PROPERTY KeepsRowContract
