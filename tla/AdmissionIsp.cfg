SPECIFICATION IspSpec
CONSTANTS
    Requests = {r1}
    Objects <- IspObjects
    Images <- IspImages
    GlobalImageAllowlist <- MCGlobal
    FullyQualified <- IspDigests
    StrictDigest <- MCDigests
    OnGCR <- MCGCR
    Metadata = "containerAnalysis"
    Authorities <- IspAuthorities
    GapLists = {{}}
    IspLists <- IspIspLists
    Occurrences <- IspOccurrences
    VulnLists <- IspVulnLists
    SecretNames = {"s1"}
    SecretKey <- MCSecretKey
    Workloads = {}
    TemplateImages = {}
    MaxFaults = 2
    MaxEdits = 1
    None = None
INVARIANTS
    TypeOK
    Justified
    OwedAdmission
PROPERTIES
    Responds
CHECK_DEADLOCK FALSE
