SPECIFICATION FairSpec
CONSTANTS
    PayloadLimit = 2
    QueueCapacity = 1
    Lengths = {1, 2, 3}
    Grants = {0, 1}
    FlowLimits = {0, 1}
    MaxFrames = 3
    MaxWrites = 2
INVARIANTS
    WithinCredit
    ResponsesInOrder
PROPERTIES
    CreditArrives
CHECK_DEADLOCK FALSE
