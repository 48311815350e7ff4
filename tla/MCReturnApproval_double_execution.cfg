\* Two managers review one request at once; TLC finds the property violated.
CONSTANTS
    r1 = r1   r2 = r2   s1 = s1   s2 = s2
    Sales    = {1}
    Requests = {r1}
    Sessions = {s1, s2}
    Amounts  = {1, 2}
    Debts    = {2}
    Claims   <- BelowAndAbove
    Nobody   = Nobody
SPECIFICATION Spec
INVARIANT ExecutedOnce
CHECK_DEADLOCK FALSE
