SPECIFICATION Spec
CONSTANTS
    w1 = w1
    w2 = w2
    e1 = e1
    e2 = e2
    e3 = e3
    Writers <- MCWriters
    Events <- MCEvents
    Batches <- MCBatches
    Refused <- MCRefused
INVARIANTS
    TypeOK
    SnapshotMatchesLedger
    LedgerValid
    AcknowledgedIsDurable
PROPERTIES
    ImplementsAtomicLedger
