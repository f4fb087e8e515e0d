SPECIFICATION FairSpec
CONSTANTS
    CommandCapacity = 1
    EventCapacity = 1
    Steps = 2
    MaxExecutions = 3
INVARIANTS
    ResultIsOwn
PROPERTIES
    NothingHangs
CHECK_DEADLOCK FALSE
