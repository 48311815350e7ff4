\* Two requests at once on two sales, two shipments and two forwarders.
CONSTANTS
    t1 = t1   t2 = t2   i1 = i1   i2 = i2
    f1 = f1   f2 = f2   s1 = s1   s2 = s2
    Sales      = {t1, t2}
    Shipments  = {i1, i2}
    Forwarders = {f1, f2}
    Sessions   = {s1, s2}
    None       = None
SPECIFICATION Spec
SYMMETRY Symmetry
INVARIANTS CarriersThere OneActive DeliveredAfterDispatch
\* All forwarders may be deleted.
CHECK_DEADLOCK FALSE
