CONSTANTS
  a = a
  b = b
  Nodes = {a, b}
  Deps <- PairDeps
  AutoGate = {a}
  HumanGate = {b}
  CodeMode = TRUE
  AttemptBudget = 2
  GoalBudget = 3
  RepeatLimit = 2
  MaxConcurrency = 1
  MaxTries = 2
  MaxCrashes = 1
  MaxCommands = 1
  MaxFaults = 0
SPECIFICATION ApartSpec
PROPERTIES RunMoves AttemptsSettle
CHECK_DEADLOCK FALSE
