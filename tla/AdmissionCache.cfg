SPECIFICATION GapFairSpec
CONSTANTS
    Requests = {r1}
    Objects <- GapObjects
    Images <- GapImages
    GlobalImageAllowlist <- MCGlobal
    FullyQualified <- MCDigests
    StrictDigest <- MCDigests
    OnGCR <- MCGCR
    Metadata = "containerAnalysis"
    Authorities <- GapAuthorities
    GapLists <- GapGapLists
    IspLists = {{}}
    Occurrences <- GapOccurrences
    VulnLists = {{}}
    SecretNames = {"s1"}
    SecretKey <- MCSecretKey
    Workloads = {"web", "job"}
    TemplateImages <- GapTemplates
    MaxFaults = 0
    MaxEdits = 2
    None = None
PROPERTIES
    AnswersForItsAuthority
CHECK_DEADLOCK FALSE
