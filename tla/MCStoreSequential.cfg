SPECIFICATION Spec
CONSTANTS
    p1 = p1
    p2 = p2
    main = main
    dev = dev
    None = None
    Procs = {p1}
    Branches = {main}
    Names <- AllNames
    Changes <- ThreeChanges
    Profiles = {"dev"}
    Rejected <- XandY
    Fallback <- FallbackGraph
    Commands = {"change", "verify", "apply", "gc"}
    MaxCommands = 7
    MaxCrashes = 1
CHECK_DEADLOCK FALSE
INVARIANTS
    AppliedBuildsOnParent
PROPERTIES
    HistoryIsAppendOnly
    ApplyRefusesStaleBase
    BranchesStayWhole
