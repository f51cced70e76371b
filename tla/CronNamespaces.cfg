SPECIFICATION NamespacesSpec
CONSTANTS
    Runners = {"server"}
    Foreground = {}
    PodNames = {"p1"}
    PodNamespace <- MCNamespace
    PodTemplates <- MCTemplates
    Images = {"lib", "tag", "sys"}
    GlobalImageAllowlist = {"sys"}
    FullyQualified = {"lib", "sys"}
    StrictDigest = {"lib"}
    OnGCR = {"lib"}
    Metadata = "containerAnalysis"
    Authorities <- MCAuthorities
    IspLists <- MCLists
    Occurrences = {}
    VulnLists <- NamespacesVulns
    UserValues = {}
    MaxFaults = 0
    MaxEdits = 0
    None = None
PROPERTIES
    SameNamespaceOnly
