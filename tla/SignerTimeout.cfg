SPECIFICATION MCSpec
CONSTANTS
    Signers = {"ci"}
    Image <- MCImage
    Mode <- MCMode
    Overwrite <- MCOverwrite
    Images = {"app", "tag"}
    FullyQualified = {"app"}
    StrictDigest = {"app"}
    OnGCR = {"app", "tag"}
    Policy <- MCPolicy
    VulnLists <- MCVulns
    Earlier = {"old"}
    MaxFaults = 0
    MaxScans = 2
PROPERTIES
    TimeoutEndsWait
CHECK_DEADLOCK FALSE
