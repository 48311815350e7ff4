\* Two requests at once on two products, or on a product, a supplier and an order.
CONSTANTS
    p1 = p1   p2 = p2   s1 = s1   s2 = s2   pcs = pcs   box = box
    Products  = {p1, p2}
    Suppliers = {v1}
    Orders    = {o1}
    Units     = {pcs, box}
    Specs     = {k1}
    Sessions  = {s1, s2}
    MaxRows   = 2
    None      = None
SPECIFICATION Spec
SYMMETRY Symmetry
INVARIANTS TypeOK MovementsInBaseUnit SpecsDistinct ReferencesResolve
PROPERTIES OrdersToActive
\* A behavior ends when every product and the supplier are gone.
CHECK_DEADLOCK FALSE
