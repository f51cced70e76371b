SPECIFICATION MCSpec
CONSTANTS
    Callbacks = {c1, c2}
    Events <- MCEvents
    PolicyLists <- MCPolicyLists
    Authorities <- MCAuthorities
    StrictDigest = {"app", "lib", "hub"}
    OnGCR = {"app", "lib"}
    SecretKey <- MCKeys
    MaxFaults = 1
    MaxEdits = 1
    None = None
INVARIANTS
    TypeOK
    AckedIsSigned
    OnlyBuildsSigned
PROPERTIES
    EventsAcked
