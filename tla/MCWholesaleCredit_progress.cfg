\* Fair scheduling of two requests and of the daily scan.
CONSTANTS
    c1 = c1   s1 = s1   s2 = s2   i1 = i1   i2 = i2   i3 = i3
    Customers = {c1}
    Sessions  = {s1, s2}
    Invoices  = {i1}
    Amounts   = {1, 2}
    Limits    = {2}
    MaxTime   = 1
    MaxCharged   = 2
    MaxCollected = 1
    Nobody    = Nobody
SPECIFICATION FairSpec
PROPERTIES RequestsEnd OverdueFlagged
