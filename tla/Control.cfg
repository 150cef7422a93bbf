SPECIFICATION ControlSpec
CONSTANTS
  Plans <- MCPlans
  MaxFaults = 3
  MaxResumes = 1
  Steps = {n}
  Servers = {h}
  Adjustments = 1
  MaxControls = 4
  MaxAttempts = 2
  MaxDrafts = 1
  MaxReviews = 1
  MaxCrashes = 1
INVARIANTS ControlHolds DraftHolds
PROPERTIES RoutesHold RunsSettle Attended
CHECK_DEADLOCK FALSE
