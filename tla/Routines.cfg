SPECIFICATION RoutinesSpec
CONSTANTS
    Consumers = {c1, c2}
    Streams = {s1}
    BatchSize = 2
    Limits = {1, 2}
    MaxLog = 5
    Schedulers = {t1, t2}
    People = {p1, p2}
    Editors = {p1}
    Dues = {1, 3}
    Stopped = {"custom"}
    Interval = 2
    Late = 0
    MaxTime = 3
    MaxRuns = 2
    MaxSteps = 2
    MaxEdits = 1
    MaxSends = 2
    h = h
    g = g
    a = a
    c = c
    w = w
    e = e
    None = None
SYMMETRY Symmetry
INVARIANTS DeliveredOnce LifeHolds CustomHolds
CHECK_DEADLOCK FALSE
