\* Two events, five rules, one switch, one crash.
SPECIFICATION FairSpec
CONSTANTS
  Kinds <- MCKinds
  Rules <- MCRules
  Matches <- MCMatches
  Effect <- MCEffect
  Refused = {5}
  MaxTriggers <- MCMaxTriggers
  Window = 1
  FailureLimit <- MCFailureLimit
  BatchSize = 2
  MaxEvents = 2
  MaxSwitches = 1
  MaxCrashes = 1
INVARIANTS
  BusTypeOK
  PlannedAtMostOnce
  EveryEventExamined
PROPERTY
  EventsDrain
CHECK_DEADLOCK FALSE
