\* A proposing goal, one step, no disturbance but the runner's claims.
SPECIFICATION ApprovalSpec
CONSTANTS
  Steps = {s1}
  Callers = {loop, user}
  Loop = loop
  NoStep = none
  Autonomy = "propose"
  MaxInFlight = 2
  MaxRounds = 1
  FailureLimit = 2
  Cadence = 1
  Hour = 1
  MaxTurmoil = 0
INVARIANT
  ProposedWaitsForApproval
