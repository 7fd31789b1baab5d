SPECIFICATION RecallSpec
CONSTANTS
    p1 = p1
    p2 = p2
    inferred1 = inferred1
    explicit1 = explicit1
    lesson1 = lesson1
    lesson2 = lesson2
    lesson3 = lesson3
    q1 = q1
    q2 = q2
    q3 = q3
    c1 = c1
    c2 = c2
    t1 = t1
    t2 = t2
    None = None
    Tasks <- MCTasks
    Procs <- MCProcs
    Memories <- MCMemories
    Kind <- MCKind
    Positions <- MCPositions
    Cands <- MCCands
    Content <- MCContent
    Settings <- MCRecallSettings
SYMMETRY MCRecallSymmetry
INVARIANTS
    RecallTypeOK
    ReplacedOnce
    LessonsDistinct
    AnswersRestOnActive
    PassReconstructs
PROPERTIES
    MemoriesMoveForward
    IntegratedAlone
CHECK_DEADLOCK FALSE
