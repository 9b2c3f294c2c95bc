\* Two replicas, one with two sessions; statements fail and replicas die.
CONSTANTS
  i1 = i1  i2 = i2  c1 = c1  c2 = c2  c3 = c3  r1 = r1  r2 = r2
  Replica = {i1, i2}
  Conn = {c1, c2, c3}
  PoolOf <- TwoPools
  Run = {r1, r2}
  Configurable = TRUE
  MaxRequests = 2
  MaxClock = 3
  MaxMinutes = 1
  Faults = {"statement", "crash", "switch"}
SPECIFICATION Spec
INVARIANTS TypeOK NoOverlapAcrossReplicas
PROPERTIES RequestLaunchesOnce
SYMMETRY Symmetry
CHECK_DEADLOCK FALSE
