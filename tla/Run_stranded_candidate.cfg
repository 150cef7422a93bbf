CONSTANTS
  a = a
  b = b
  Nodes = {a, b}
  Deps <- ChainDeps
  AutoGate = {a}
  HumanGate = {b}
  CodeMode = TRUE
  AttemptBudget = 2
  GoalBudget = 2
  RepeatLimit = 2
  MaxConcurrency = 2
  MaxTries = 2
  MaxCrashes = 1
  MaxCommands = 0
  MaxFaults = 0
SPECIFICATION FairSpec
PROPERTIES
  CandidatesJudged
