SPECIFICATION Spec
CONSTANTS
    None = None
    Host = Host
    i1 = i1
    Instances = {i1}
    Capabilities = {"db", "log", "pay"}
    LogWrite = "log"
    Packed = {"log"}
    Schemas = {"db"}
    Bound = {"db", "log"}
    Profiles <- AllProfiles
    Manifests <- OneManifest
    Groups = {"tx", "inner"}
    WINDOW = 2
    MaxClock = 2
    MaxCalls <- CallsOfEach
    MaxMixed <- MixedOfEach
    Revocable <- SomeGrants
    MaxUses = 3
CHECK_DEADLOCK FALSE
INVARIANTS
    TypeOK
    RuntimeInv
    RateIsBounded
    GroupsSettleOnce
PROPERTIES
    RevocationIsImmediate
