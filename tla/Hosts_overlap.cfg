CONSTANTS
  small = small
  large = large
  Workspaces = {small, large}
  Starters = {s1, s2}
  Stoppers = {p1}
  Writes = {"k"}
  Parents <- Apart
  Capacity <- Sizes
  MaxCapacity = 2
  MaxSpawns = 3
  Overlaps = TRUE
  None = None
SPECIFICATION Spec
INVARIANTS ServedWithinCapacity
CHECK_DEADLOCK FALSE
