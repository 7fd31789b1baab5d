SPECIFICATION Spec
CONSTANTS
    p1 = p1
    p2 = p2
    inferred1 = inferred1
    explicit1 = explicit1
    lesson1 = lesson1
    lesson2 = lesson2
    lesson3 = lesson3
    q1 = q1
    q2 = q2
    q3 = q3
    c1 = c1
    c2 = c2
    None = None
    Procs <- MCProcs
    Memories <- MCMemories
    Kind <- MCKind
    Positions <- MCPositions
    Cands <- MCCands
    Content <- MCContent
    Settings <- MCRaceSettings
SYMMETRY MCSymmetry
INVARIANT RejectedStaysInactive
CHECK_DEADLOCK FALSE
