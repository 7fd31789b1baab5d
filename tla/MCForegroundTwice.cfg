SPECIFICATION Spec
CONSTANTS
    hello1 = hello1
    hello2 = hello2
    other = other
    None = None
    Deliveries <- MCTwice
    Message <- MCTwiceMessage
    Founded <- MCSettled
    MaxStalls = 1
INVARIANTS
    MessagesProcessedOnce
