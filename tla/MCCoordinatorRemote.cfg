\* By-name ChangeSets with preconditions, duplicate names and absent targets, local and signed,
\* beside pushes and pulls of bundles.
CONSTANTS
    None = None
    n1 = n1  n2 = n2  n3 = n3  a1 = a1  a2 = a2  a3 = a3
    own = own  foreign = foreign  v = v
    NodeRef = {n1, n2, n3}
    Name = {"f", "g"}
    EdgeKind = {"calls"}
    Attr = {"body_expr"}
    Row = {"requires", "ensures"}
    Value = {v}
    Agents = {a1, a2}
    ChangeSets <- ByName
    Bases = {0}
    Signers = {own, foreign}
    AllowedSigners = {own}
    Bundles <- SomeBundles
    Roots = {"r", "d"}
    InitialGraph <- TwoNodes
    InitialId = 0
    MaxRequests = 3
SPECIFICATION Spec
CHECK_DEADLOCK FALSE
INVARIANTS
    Inv
    PullsSeeEarlierPushes
    RemoteCommitsAreAuthorised
PROPERTIES
    ImplementsSerializer
    EveryRequestIsAnswered
