SPECIFICATION ReplaySpec
CONSTANTS
    Procs = {p1}
    Keys = {k1}
    MaxCrashes = 1
INVARIANT
    ClaimsAreDurable
