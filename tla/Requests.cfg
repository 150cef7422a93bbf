SPECIFICATION RequestsSpec
CONSTANTS
    Notes = {n1, n2}
    Keys = {k1, k2}
    MaxMessages = 1
    MaxMoves = 2
    MaxCrashes = 1
    Requests = {q1, q2}
    Recipes = {seed, other}
    Replays = {p1, p2}
    Seeds = {seed}
    Validation = {q2}
    Advancers = {pump, caller}
    MaxPending = 2
    MaxCommands = 3
    MaxRestarts = 1
    MaxCalls = 2
    Creates = {2}
    Bridges = {b1, b2}
    MaxAsks = 2
    MaxDeaths = 2
    None = None
INVARIANTS ResolvedOnce CallsHold
PROPERTIES RoutingHolds
CHECK_DEADLOCK FALSE
