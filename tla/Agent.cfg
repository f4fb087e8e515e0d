SPECIFICATION MCSpec
CONSTANTS
    Deliveries = {d1, d2}
    Requests <- MCRequests
    Endpoints = {e1}
    Settings = {"location", "copies_default", "copies_supported"}
    Kind <- MCKind
    AllowedSettings = {"location", "copies_default", "copies_supported"}
    Values <- MCValues
    Constraints <- MCEither
    NoValue = NoValue
    MaxGeneration = 2
    MaxTime = 1
    MaxChanges = 1
    MaxRestarts = 1
INVARIANTS
    OneWritePerRequest
    EffectsAreReported
    ReplacesConfirmedUndisturbed
PROPERTY
    EveryRequestEnds
CHECK_DEADLOCK FALSE
