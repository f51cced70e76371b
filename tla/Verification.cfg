SPECIFICATION Spec
CONSTANTS
    Repository <- MCRepository
    NoReference = "no reference"
    Clients = {"c1", "c2", "c3"}
    Situations <- MCSituations
    HasDigest <- MCHasDigest
    GlobalImageAllowlist <- MCGlobalImageAllowlist
    PageSize = 2
INVARIANTS
    TypeOK
    FetchComplete
    AcceptedMeansSigned
    SkipsTheAllowed
    DetachedExact
    ServingMeansClient
PROPERTIES
    DeletesTheOne
    JobsEnd
CHECK_DEADLOCK FALSE
