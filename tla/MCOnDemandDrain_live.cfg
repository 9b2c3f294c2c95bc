\* Nothing fails, and processes go on.
CONSTANTS
  h1 = h1  h2 = h2  h3 = h3  d1 = d1  d2 = d2  c1 = c1
  None = None
  Hook = {h1, h2, h3}
  Final = {h1}
  Drainer = {d1, d2}
  Command = {c1}
  BatchSize = 2
  MaxRounds = 2
  MaxAcquisitions = 3
  MaxStreak = 1
  Scenario <- NothingFails
SPECIFICATION FairSpec
PROPERTIES RowsLeave
CHECK_DEADLOCK FALSE
