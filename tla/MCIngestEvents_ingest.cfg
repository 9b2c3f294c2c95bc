\* Four events of two sessions, two requests at a time, two things that go wrong.
CONSTANTS
  s1 = s1  s2 = s2  r1 = r1  r2 = r2
  MaxEvent = 4
  Session = {s1, s2}
  Request = {r1, r2}
  BatchCap = 2
  MaxFaults = 2
  Scenario <- Mixed
SPECIFICATION FairSpec
INVARIANTS TypeOK CountedOnce CompletedIffEnded
PROPERTIES EscalationReaches EveryEventCounted
CHECK_DEADLOCK FALSE
