\* Four single id-based operations: a rebase over more than one commit.
CONSTANTS
    None = None
    n1 = n1  n2 = n2  n3 = n3  a1 = a1  a2 = a2  a3 = a3
    own = own  foreign = foreign  v = v
    NodeRef = {n1, n2, n3}
    Name = {"f", "g"}
    EdgeKind = {"calls"}
    Attr = {"body_expr"}
    Row = {"requires", "ensures"}
    Value = {v}
    Agents = {a1, a2}
    ChangeSets <- Singles
    Bases = {0, 1, 2}
    Signers = {}
    AllowedSigners = {}
    Bundles <- NoBundles
    Roots = {}
    InitialGraph <- OneNode
    InitialId = 0
    MaxRequests = 3
SPECIFICATION Spec
CHECK_DEADLOCK FALSE
INVARIANT RebaseChecksAllCommitsSinceBase
