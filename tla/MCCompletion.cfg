SPECIFICATION CompletionSpec
CONSTANTS
    p1 = p1
    c1 = c1
    c2 = c2
    o1 = o1
    t1 = t1
    k1 = k1
    s1 = s1
    s2 = s2
    None = None
    Procs <- MCProcs
    Ops <- MCOps
    Guarded <- MCOps
    MayCrash = FALSE
    MaxRuns = 1
    Clerks <- MCClerks
    Tasks <- MCTasks
    Criteria <- MCCriteria
    TaskOf <- MCTaskOf
    Sources <- MCSources
    Artifacts <- MCArtifacts
    Offers <- MCOffers
SYMMETRY MCCompletionSymmetry
INVARIANT
    VerifiedWithProvenance
PROPERTIES
    JudgedOnce
    CompletedOnAnOpenGate
CHECK_DEADLOCK FALSE
