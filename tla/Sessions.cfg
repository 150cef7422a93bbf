SPECIFICATION SessionsSpec
CONSTANTS
    n1 = n1
    n2 = n2
    n3 = n3
    Attempts = {n1, n2}
    PhaseOf <- Together
    Keys = {k, l}
    Ids = {1}
    PageLimit = 1
    MaxCalls = 3
    MaxCrashes = 1
    None = None
    Order <- NodeOrder
    Deps <- NodeDeps
    Automatic = {n1}
    Human = {n1, n3}
    Controls = {1}
    Budget = 3
    MaxFaults = 1
INVARIANTS NoGaps MailAccounted
PROPERTIES SerialHolds
SYMMETRY KeysAlike
CHECK_DEADLOCK FALSE
