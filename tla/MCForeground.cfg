SPECIFICATION Spec
CONSTANTS
    hello1 = hello1
    hello2 = hello2
    other = other
    None = None
    Deliveries <- MCAll
    Message <- MCAllMessage
    Founded <- MCSettled
    MaxStalls = 1
SYMMETRY MCSymmetry
INVARIANTS
    TypeOK
    LeaseIsExclusive
    DecidedOnce
    AnswersAreTrue
    OneOpenRun
PROPERTIES
    RunsMoveForward
