\* Two sessions of two turns, two hooks at a time.
CONSTANTS
  Session = {1, 2}
  MaxTurns = 2
  MaxWrites = 3
  MaxHooks = 2
  MaxAttempts = 2
  Scenario <- Everything
SPECIFICATION FairSpec
INVARIANTS TypeOK WholeTranscript
PROPERTIES LostForCause FinalSurvives OwedIsSettled
CHECK_DEADLOCK FALSE
