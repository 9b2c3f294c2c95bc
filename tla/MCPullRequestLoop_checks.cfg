\* Nothing goes wrong and nothing is sent twice.
CONSTANTS
  e1 = e1  e2 = e2  e3 = e3  s1 = s1  c1 = c1
  Delivery = {e1, e2, e3}
  Session = {s1}
  CheckRun = {c1}
  RunOf <- OneRun
  MaxSends = 1
  MaxTrouble = 0
  Scenario <- Checked
SPECIFICATION Spec
INVARIANTS FailuresCounted
CHECK_DEADLOCK FALSE
