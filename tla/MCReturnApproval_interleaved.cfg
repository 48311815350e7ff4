\* Two requests of any kind at once on one or two sales.
CONSTANTS
    r1 = r1   r2 = r2   s1 = s1   s2 = s2
    Sales    = {1, 2}
    Requests = {r1, r2}
    Sessions = {s1, s2}
    Amounts  = {1, 2}
    Debts    = {3}
    Claims   <- BelowAndAbove
    Nobody   = Nobody
SPECIFICATION Spec
SYMMETRY Symmetry
INVARIANTS TypeOK RowAccounts ExecutedAsDecided BalanceCoversRows
\* A behavior ends when every request is decided and nothing is owed.
CHECK_DEADLOCK FALSE
