SPECIFICATION TunnelFairSpec
CONSTANTS
  s1 = s1  s2 = s2  g1 = g1
  Sockets = {s1, s2}
  Fencers = {g1}
  MaxParks = 2
  MaxCloseFails = 1
  NoSocket = NoSocket
CHECK_DEADLOCK FALSE
INVARIANTS TeardownIsComplete
PROPERTIES ParkedIsSettled
