SPECIFICATION Spec
CONSTANTS
  s1 = s1
  s2 = s2
  Sessions = {s1, s2}
  Faults = {"ackLost"}
SYMMETRY Symmetry
INVARIANT OneBankLogin
