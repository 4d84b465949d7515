\* Three methods called, two at a time, one steering message, one crash.
SPECIFICATION FairSpec
CONSTANTS
  r = r
  w = w
  g = g
  s = s
  q = q
  Calls <- MCCalls
  Kind <- MCKind
  Unmarked <- MCUnmarked
  Batches <- MCBatches
  Tasks = {t1, t2}
  Notes = {n1}
  MaxOps = 3
  MaxCrashes = 1
INVARIANTS
  EngineTypeOK
  NoneLeftRunning
  NeverUnapproved
  OnceWhenSerial
  NoCallForgotten
  HonestRecovery
PROPERTIES
  ResolvedStays
  EveryTaskEnds
CHECK_DEADLOCK FALSE
