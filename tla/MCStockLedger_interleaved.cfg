\* Two requests at once on two products; products are edited between them.
CONSTANTS
    p1 = p1   p2 = p2   s1 = s1   s2 = s2
    Products   = {p1, p2}
    Sessions   = {s1, s2}
    Operations = {"adjust", "stockIn", "stockOut", "checkout", "exchange"}
    Amounts    = {1}
    Openings   = {0, 1}
    Factors    = {2}
    MaxItems   = 2
    MaxMoves   = 1
    MaxAlone   = 2
    Nobody     = Nobody
SPECIFICATION QuietSpec
SYMMETRY Symmetry
INVARIANTS TypeOK SoldIsDeducted ChainWhenAlone
PROPERTIES ShortageFlagged ImplementsBook
