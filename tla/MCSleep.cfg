SPECIFICATION FairSpec
CONSTANTS
    worker = worker
    command = command
    r1 = r1
    r2 = r2
    r3 = r3
    None = None
    Worker = worker
    Commands <- MCCommands
    Runs <- MCRuns
    MaxSeeds = 2
    MaxObservations = 2
    MaxDisturbances = 3
INVARIANTS
    TypeOK
    OneRunning
    TakenUpOnce
PROPERTIES
    CursorMovesWithCompletion
    EventuallyIntegrated
