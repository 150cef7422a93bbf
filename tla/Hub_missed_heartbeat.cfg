SPECIFICATION Spec
CONSTANTS
    Local = {}
    Nonlocal = {send}
    Submit = {submit}
    Blocks = {block}
    CodeMode = TRUE
    IdleTicks = 3
    MaxCrashes = 0
    MaxFaults = 1
    MaxCancels = 0
INVARIANTS MissTolerated
