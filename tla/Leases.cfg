SPECIFICATION PartsSpec
CONSTANTS
    front = front
    back = back
    Nodes = {front, back}
    Deps <- ChainDeps
    AutoGate = {}
    HumanGate = {back}
    CodeMode = TRUE
    AttemptBudget = 2
    GoalBudget = 3
    RepeatLimit = 1
    MaxConcurrency = 2
    MaxTries = 2
    MaxCrashes = 1
    MaxCommands = 2
    MaxFaults = 1
    r1 = r1
    r2 = r2
    n1 = n1
    n2 = n2
    n3 = n3
    e1 = e1
    e2 = e2
    Runs = {r1, r2}
    Assigned = {n1, n2, n3}
    Of <- RunOf
    Endpoints = {e1, e2}
    Serves <- Able
    Writers = {n1, n3}
    LocalEndpoints = {e2}
    Hosts = {h1, h2}
    GlobalCapacity = 2
    RunCapacity = 2
    EndpointCapacity = 1
    Tries <- Twice
    MaxLapses = 1
    None = None
INVARIANTS SlotsKept TypeOK NodeAgreement DependencyOrder SuspendedIffOpen DrainedPause
PROPERTIES AttemptsReturn SettledOnce ImplementsPlan
CHECK_DEADLOCK FALSE
