\* Two requests with one key.
SPECIFICATION CacheSpec
CONSTANTS
    Keys = {k1}
    Attempts = {a1, a2}
    Nobody = Nobody
INVARIANTS
    LockedOut
CHECK_DEADLOCK FALSE
