SPECIFICATION Spec
CONSTANTS
    worker = worker
    once = once
    conflict = conflict
    promise = promise
    held = held
    None = None
    Worker <- worker
    Once <- once
    Sources <- MCSources
    SourceKind <- MCSourceKind
    Party <- MCParty
    Rank <- MCRank
    MaxCandidates = 2
    MaxSources = 2
    DurationMax = 7
    MaxFailures = 3
    Settings <- MCSettings
INVARIANTS
    TypeOK
    ProposedOnce
    BacksOff
PROPERTIES
    ProposedFromTheAgenda
    YieldsToCalls
    EventuallyProposed
CHECK_DEADLOCK FALSE
