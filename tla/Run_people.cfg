CONSTANTS
  a = a
  b = b
  None = None
  Nodes = {a, b}
  Deps <- PairDeps
  AutoGate = {a}
  HumanGate = {a, b}
  CodeMode = TRUE
  AttemptBudget = 2
  GoalBudget = 2
  RepeatLimit = 2
  MaxConcurrency = 2
  MaxTries = 2
  MaxCrashes = 0
  MaxCommands = 2
  MaxFaults = 0
SPECIFICATION PeopleSpec
INVARIANTS CompletedHasEvidence CancelledIsQuiet UnknownStopsRun CodeHolds
PROPERTIES StartsWhileRunning
CHECK_DEADLOCK FALSE
