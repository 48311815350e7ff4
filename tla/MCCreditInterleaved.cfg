\* Requests on one customer: two at once within close bounds, or one at a time.
CONSTANTS
    c1 = c1   s1 = s1   s2 = s2   i1 = i1   i2 = i2   i3 = i3
    Customers = {c1}
    Sessions  = {s1, s2}
    Invoices  = {i1, i2, i3}
    Amounts   = {1, 2, 3}
    Limits    = {2, 3}
    MaxTime   = 2
    MaxCharged   = 4
    MaxCollected = 4
    Nobody    = Nobody
SPECIFICATION MCSpec
SYMMETRY Symmetry
INVARIANTS TypeOK StatusMatchesBalance SettlementFresh BooksBalanceAlone
PROPERTIES ImplementsLedger LimitHeldAlone DeletedWhenClearAlone
