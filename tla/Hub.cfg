SPECIFICATION HubSpec
CONSTANTS
    send = send
    submit = submit
    block = block
    Local = {}
    Nonlocal = {send}
    Submit = {submit}
    Blocks = {block}
    CodeMode = TRUE
    IdleTicks = 4
    MaxCrashes = 1
    MaxFaults = 1
    MaxCancels = 1
    Nothing = Nothing
    MaxSteps = 2
    MaxTroubles = 3
INVARIANTS TypeOK RestartIsLocal CallsRunOnce ResultFaithful NoReplay KeptAlive SettledByTrace
