SPECIFICATION GapSpec
CONSTANTS
    Requests = {r1}
    Objects <- GapObjects
    Images <- GapImages
    GlobalImageAllowlist <- MCGlobal
    FullyQualified <- MCDigests
    StrictDigest <- MCDigests
    OnGCR <- MCGCR
    Metadata = "grafeas"
    Authorities <- GapAuthorities
    GapLists <- GapGapLists
    IspLists = {{}}
    Occurrences <- GapOccurrences
    VulnLists = {{}}
    SecretNames = {"s1"}
    SecretKey <- MCSecretKey
    Workloads = {"web", "job"}
    TemplateImages <- GapTemplates
    MaxFaults = 2
    MaxEdits = 2
    None = None
INVARIANTS
    IInv
    Justified
    OwedAdmission
CHECK_DEADLOCK FALSE
