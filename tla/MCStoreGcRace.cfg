SPECIFICATION Spec
CONSTANTS
    p1 = p1
    p2 = p2
    main = main
    dev = dev
    None = None
    Procs = {p1, p2}
    Branches = {main}
    Names <- AllNames
    Changes <- TwoChanges
    Profiles = {"dev"}
    Rejected <- XandY
    Fallback <- FallbackGraph
    Commands = {"change", "verify", "apply", "gc"}
    MaxCommands = 4
    MaxCrashes = 0
CHECK_DEADLOCK FALSE
PROPERTIES
    BranchesStayWhole
