\* Three steps, two callers, a proposing goal with a cadence shorter than the hour.
SPECIFICATION FairSpec
CONSTANTS
  Steps = {s1, s2, s3}
  Callers = {loop, user}
  Loop = loop
  NoStep = none
  Autonomy = "propose"
  MaxInFlight = 2
  MaxRounds = 1
  FailureLimit = 2
  Cadence = 1
  Hour = 1
  MaxTurmoil = 2
INVARIANTS
  PlannerTypeOK
  InFlightBounded
  FailingGoalPauses
PROPERTIES
  BeginsWithinLimits
  PlanningResumes
