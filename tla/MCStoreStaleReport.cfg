SPECIFICATION Spec
CONSTANTS
    p1 = p1
    p2 = p2
    main = main
    dev = dev
    None = None
    Procs = {p1}
    Branches = {main}
    Names <- AllNames
    Changes <- TwoChanges
    Profiles = {"dev"}
    Rejected <- XandY
    Fallback <- FallbackGraph
    Commands = {"change", "verify", "apply"}
    MaxCommands = 6
    MaxCrashes = 0
CHECK_DEADLOCK FALSE
INVARIANTS
    AppliedWasVerified
