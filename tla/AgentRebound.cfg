SPECIFICATION Spec
CONSTANTS
    Deliveries = {d1}
    Requests <- Changes
    Endpoints = {e1, e2}
    Settings = {"location"}
    Kind <- MCKind
    AllowedSettings = {"location"}
    Values <- MCNames
    Constraints <- MCUnconstrained
    NoValue = NoValue
    MaxGeneration = 2
    MaxTime = 1
    MaxChanges = 1
    MaxRestarts = 0
INVARIANT
    WritesCurrentGeneration
CHECK_DEADLOCK FALSE
