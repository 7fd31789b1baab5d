SPECIFICATION Spec
CONSTANTS
    p1 = p1
    p2 = p2
    write = write
    read = read
    Procs <- TwoProcs
    Ops <- BothOps
    Guarded <- GuardedOps
    MayCrash = TRUE
    MaxRuns = 3
INVARIANTS
    TypeOK
    ApprovalBeforeEffect
    ReceiptsAreEarned
    NoRetryInSequence
PROPERTIES
    ResolvedOnce
