SPECIFICATION GatedSpec
CONSTANTS
  r1 = r1
  Requests = {r1}
  HasVet = TRUE
  MaxSteps = 2
  MaxRows = 1
CHECK_DEADLOCK FALSE
PROPERTY ReadOnlyAfterLogin
