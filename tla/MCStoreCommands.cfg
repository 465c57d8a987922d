SPECIFICATION Spec
CONSTANTS
    p1 = p1
    p2 = p2
    main = main
    dev = dev
    None = None
    Procs = {p1}
    Branches = {main, dev}
    Names <- AllNames
    Changes <- OneChange
    Profiles = {"dev"}
    Rejected <- XandY
    Fallback <- FallbackGraph
    Commands = {"init", "change", "change_apply", "verify", "apply", "rollback_to", "rollback", "merge", "rebase", "gc"}
    MaxCommands = 3
    MaxCrashes = 1
CHECK_DEADLOCK FALSE
INVARIANTS
    TypeOK
    IndexIsOrdered
PROPERTIES
    BranchesStayWhole
