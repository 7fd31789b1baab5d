SPECIFICATION FairSpec
CONSTANTS
    hello1 = hello1
    hello2 = hello2
    other = other
    None = None
    Deliveries <- MCTwice
    Message <- MCTwiceMessage
    Founded <- MCHalf
    MaxStalls = 1
INVARIANTS
    RecordedOnce
PROPERTIES
    CallsEnd
    LeaseReturns
