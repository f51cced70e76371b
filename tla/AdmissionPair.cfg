SPECIFICATION PairSpec
CONSTANTS
    Requests = {r1, r2}
    Objects <- PairObjects
    Images <- MCDigests
    GlobalImageAllowlist = {}
    FullyQualified <- MCDigests
    StrictDigest <- MCDigests
    OnGCR <- MCDigests
    Metadata = "containerAnalysis"
    Authorities <- PairAuthorities
    GapLists <- PairGapLists
    IspLists <- PairIspLists
    Occurrences <- PairOccurrences
    VulnLists <- PairVulnLists
    SecretNames = {"s1"}
    SecretKey <- MCSecretKey
    Workloads = {}
    TemplateImages = {}
    MaxFaults = 1
    MaxEdits = 1
    None = None
INVARIANTS
    OwedAdmission
PROPERTIES
    AttestationsEarned
    DenialSticks
    RefinesContract
SYMMETRY PairSymmetry
CHECK_DEADLOCK FALSE
