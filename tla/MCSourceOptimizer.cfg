SPECIFICATION FairSpec
CONSTANTS
    Versions <- MCVersions
    Targets <- MCTargets
    TargetsOf <- MCTargetsOf
    Rewrite <- MCRewrite
    Requests <- MCRequests
    Faults <- AllFaults
    Unknown = unknown
    None = none
    Repeats = 2
    Budget = 3
    base = base
    left = left
    right = right
    both = both
    plain = plain
    t1 = t1
    t2 = t2
INVARIANTS
    PublishedIsVerified
    ReportedBestIsOnDisk
    NoVersionTriedTwice
    RoundStartsFromVerified
    EndsOnVerified
    CancelBoundsWork
PROPERTIES
    StopBlocksRewrite
    ImplementsPublication
    Terminates
