SPECIFICATION Spec
CONSTANTS
    Procs = {p1}
    Plans = {1}
    Subscribed = FALSE
    PromptHooks = FALSE
    Replay = 1
    SessionLife = 1
    Reconcile = 2
    MaxNow = 2
    MaxKey = 2
    MaxEvents = 3
    MaxStops = 0
    Ops = {"checkout", "pay"}
SYMMETRY Symmetry
INVARIANTS NoSecondPayable
CHECK_DEADLOCK FALSE
