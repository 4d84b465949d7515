\* Three events, two to a page; one edit, one manual poll, one failure or crash.
SPECIFICATION FairSpec
CONSTANTS
  Repos = {repo}
  Feeds = {feed}
  Loop = Loop
  Manual = {m}
  NoRow = NoRow
  FirstId <- MCFirstId
  Quiet <- MCQuiet
  MaxEventsPerPoll = 2
  MaxEvents = 3
  MaxEdits = 1
  MaxPolls = 1
  MaxFailures = 1
INVARIANTS
  NothingSkipped
  OnlyNews
PROPERTIES
  EventuallyReported
CHECK_DEADLOCK FALSE
