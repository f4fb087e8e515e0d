SPECIFICATION TokenSpec
CONSTANTS
    Tasks = {t1, t2}
    Cancellers = {c1, c2}
    Nobody = nobody
PROPERTY
    Resolves
CHECK_DEADLOCK FALSE
