\* Two submits, and a resolution, a wake or a restart, one teardown, one crash.
SPECIFICATION Spec
CONSTANTS
  s1 = s1
  s2 = s2
  x = x
  NoEngine = NoEngine
  Commands <- MCCommands
  May <- MCMay
  MaxSleeps = 1
  MaxCrashes = 1
SYMMETRY MCSymmetry
INVARIANTS
  SessionTypeOK
  OneTurnAtATime
  NotLeftRunning
  
PROPERTIES
  AnswersFollow
CHECK_DEADLOCK FALSE
