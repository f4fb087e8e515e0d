SPECIFICATION Spec
CONSTANTS
    Plans <- MCPlans
    Limits <- MCLimits
    Chunks <- MCChunks
    StatusLen = 3
    MaxPlanActions = 5
    MaxRetained = 4
    MaxFixedReads = 3
    MaxMultipartReads = 2
INVARIANT
    RetainedWithinMaximum
CHECK_DEADLOCK FALSE
