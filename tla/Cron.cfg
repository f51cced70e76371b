SPECIFICATION MCSpec
CONSTANTS
    Runners = {"server", "manual"}
    Foreground = {"manual"}
    PodNames = {"p1", "p2", "p3"}
    PodNamespace <- MCNamespace
    PodTemplates <- MCTemplates
    Images = {"lib", "tag", "sys"}
    GlobalImageAllowlist = {"sys"}
    FullyQualified = {"lib", "sys"}
    StrictDigest = {"lib"}
    OnGCR = {"lib"}
    Metadata = "containerAnalysis"
    Authorities <- MCAuthorities
    IspLists <- MCLists
    Occurrences <- MCOccurrences
    VulnLists <- MCVulns
    UserValues = {"blue"}
    MaxFaults = 1
    MaxEdits = 2
    None = None
INVARIANTS
    TypeOK
    PassCovers
PROPERTIES
    OthersKept
    LabelsEarned
    OutOfPolicyMarked
