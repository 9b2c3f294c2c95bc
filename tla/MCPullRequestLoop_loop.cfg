\* Three deliveries, each sent twice at most, one session, one thing that goes wrong.
CONSTANTS
  e1 = e1  e2 = e2  e3 = e3  s1 = s1  c1 = c1
  Delivery = {e1, e2, e3}
  Session = {s1}
  CheckRun = {c1}
  RunOf <- OneRun
  MaxSends = 2
  MaxTrouble = 1
  Scenario <- Lives
SPECIFICATION FairSpec
INVARIANTS TypeOK OneComment LinkNotLost LossIsVisible
PROPERTIES EveryDeliveryRecorded
CHECK_DEADLOCK FALSE
