\* Two requests at once on one customer; TLC finds the property violated.
CONSTANTS
    c1 = c1   s1 = s1   s2 = s2   i1 = i1   i2 = i2   i3 = i3
    Customers = {c1}
    Sessions  = {s1, s2}
    Invoices  = {i1, i2}
    Amounts   = {1, 2}
    Limits    = {3}
    MaxTime   = 1
    MaxCharged   = 4
    MaxCollected = 4
    Nobody    = Nobody
SPECIFICATION Spec
PROPERTY CollectionDecrements
