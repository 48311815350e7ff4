\* One order of one or two products, two or four base units of each: up to two deliveries
\* of each, two of them at once, or one and an update by staff.
SPECIFICATION Spec
CONSTANTS
    Orders = {o1}
    Products = {p1, p2}
    Lines <- PairsOrPieces
    Amounts = {2}
    Openings <- BelowAndAboveZero
    Prices = {3}
    Sessions = {s1, s2}
    MaxDelivered = 4
    Nobody = Nobody
INVARIANTS
    TypeOK
    StockedAsReceived
    CostWithinPaid
    FulfilledIsReceived
    StatusTellsDeliveries
\* Behaviours end when the order is fulfilled or cancelled.
CHECK_DEADLOCK FALSE
