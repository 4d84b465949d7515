\* Two events, five rules, no crash.
SPECIFICATION Spec
CONSTANTS
  Kinds <- MCKinds
  Rules <- MCRules
  Matches <- MCMatches
  Effect <- MCEffect
  Refused = {5}
  MaxTriggers <- MCMaxTriggers
  Window = 1
  FailureLimit <- MCFailureLimit
  BatchSize = 2
  MaxEvents = 2
  MaxSwitches = 0
  MaxCrashes = 0
INVARIANT
  FailedEventsAreKept
CHECK_DEADLOCK FALSE
