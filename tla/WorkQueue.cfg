\* Two rows with budgets of one and two attempts, two workers.
SPECIFICATION FairQueueSpec
CONSTANTS
  i1 = i1
  i2 = i2
  w1 = w1
  w2 = w2
  NoWorker = NoWorker
  NoProgress = NoProgress
  NoKey = NoKey
  Items <- MCItems
  Workers = {w1, w2}
  LeaseLengths <- MCLeaseLengths
  MaxAttempts <- MCMaxAttempts
  DedupKey <- MCDedupKey
  Aging = 0
  MaxApprovals = 1
  MaxRequeues = 1
INVARIANTS
  TypeOK
  ClaimBudget
PROPERTIES
  LapsedStaysLapsed
  SettledStays
  ImplementsLeasedWork
  ReadyIsServed
