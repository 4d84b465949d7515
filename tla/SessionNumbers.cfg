\* Commands one after another, without teardown and crash.
SPECIFICATION MCSerialSpec
CONSTANTS
  s1 = s1
  s2 = s2
  x = x
  NoEngine = NoEngine
  Commands <- MCCommands
  May <- MCMay
  MaxSleeps = 0
  MaxCrashes = 0
INVARIANTS
  RecordedTurnRuns
CHECK_DEADLOCK FALSE
