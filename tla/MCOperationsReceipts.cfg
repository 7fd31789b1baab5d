SPECIFICATION Spec
CONSTANTS
    p1 = p1
    p2 = p2
    write = write
    read = read
    Procs <- OneProc
    Ops <- BothOps
    Guarded <- GuardedOps
    MayCrash = FALSE
    MaxRuns = 3
INVARIANT
    WritesHaveReceipts
