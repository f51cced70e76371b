SPECIFICATION MCSpec
CONSTANTS
    Signers <- MCSigners
    Image <- MCImage
    Mode <- MCMode
    Overwrite <- MCOverwrite
    Images = {"app", "tag"}
    FullyQualified = {"app"}
    StrictDigest = {"app"}
    OnGCR = {"app", "tag"}
    Policy <- MCPolicy
    VulnLists <- MCVulns
    Earlier = {"old"}
    MaxFaults = 1
    MaxScans = 1
INVARIANTS
    TypeOK
    SignedAfterScan
    SuccessMeansAttested
PROPERTIES
    WaitEnds
CHECK_DEADLOCK FALSE
