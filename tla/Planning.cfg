SPECIFICATION PlanningSpec
CONSTANTS
  Requests = {q1, q2}
  Keys = {k1, k2, k3}
  Conversations = {v1}
  Capacity = 2
  MaxPlans = 2
  MaxRuns = 2
  MaxPauses = 1
  MaxProcess = 2
  MaxTurns = 2
  MaxCrashes = 1
  small = small
  large = large
  Starters = {s1, s2}
  Stoppers = {p1}
  Overlaps = FALSE
  None = None
INVARIANTS ExecutionIsApproved OneHistory HostsHold
SYMMETRY Sym
CHECK_DEADLOCK FALSE
