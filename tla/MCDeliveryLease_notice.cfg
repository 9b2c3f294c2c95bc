\* A drainer and a shipper whose wall clock is stepped once, back past the
\* sanity bound or forward past the TTL.
CONSTANTS
  d1 = d1  d2 = d2  s1 = s1  ev = ev  tr = tr
  None = None
  Kind = {ev, tr}
  Proc = {d1, s1}
  Needed <- NeededKinds
  Optional <- OptionalKinds
  Ttl = 1
  MaxLag = 1
  Sanity = 2
  ClockStep <- BackAndForth
  MaxSteps = 1
SPECIFICATION FairSpecSteppedClock
INVARIANTS CountingDetectsTheft
PROPERTIES TheftIsNoticed AbandonedRowComesFree
