\* One key per kind of caller, two calls at a time, one crash or cut-off call.
SPECIFICATION Spec
CONSTANTS
  push = push
  backup = backup
  tool = tool
  t1 = t1
  t2 = t2
  Keys <- AllKeys
  Caller <- CallerOf
  Tasks <- Calls
  NoKey = NoKey
  Lease = 1
  MaxAttempts = 3
  MaxLosses = 1
SYMMETRY Symmetry
CHECK_DEADLOCK FALSE
INVARIANTS PushedAtMostOnce SuccessHappened NoFailureSwallowed
PROPERTY SuccessIsFinal
