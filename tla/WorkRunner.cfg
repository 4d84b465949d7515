\* Two permits, one row, one crash.
SPECIFICATION FairSpec
CONSTANTS
  i1 = i1
  i2 = i2
  r1 = r1
  r2 = r2
  s1 = s1
  f1 = f1
  f2 = f2
  NoWorker = NoWorker
  NoProgress = NoProgress
  NoKey = NoKey
  NoSession = NoSession
  NoItem = NoItem
  Items = {i1}
  Slots <- MCSlots
  Sessions <- MCSessions
  Workers <- MCWorkers
  FreshOf <- MCFreshOf
  LeaseLengths <- MCLeaseLengths
  DedupKey <- MCDedupKey
  MaxAttempts <- MCMaxAttempts
  Kinds <- MCKinds
  Aging = 0
  MaxApprovals = 1
  MaxRequeues = 0
  MaxCrashes = 1
INVARIANTS
  RunnerTypeOK
  OneWriter
PROPERTIES
  FinishedRunIsHarmless
  RunningSettles
  PermitsReturn
