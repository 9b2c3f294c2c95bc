\* Two drainers and a shipper under a steady wall clock.
CONSTANTS
  d1 = d1  d2 = d2  s1 = s1  ev = ev  tr = tr
  None = None
  Kind = {ev, tr}
  Proc = {d1, d2, s1}
  Needed <- NeededKinds
  Optional <- OptionalKinds
  Ttl = 2
  MaxLag = 1
  Sanity = 3
  ClockStep <- NoSteps
  MaxSteps = 0
SPECIFICATION Spec
INVARIANTS TypeOK MutualExclusion
PROPERTIES LiveLeaseNotStolen ImplementsExclusiveLease
