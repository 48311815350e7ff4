\* Two requests at once of one user, who is issued up to three pairs.
CONSTANTS
    t1 = t1   t2 = t2   t3 = t3   s1 = s1   s2 = s2   w1 = w1   w2 = w2
    Users     = {u1}
    Tokens    = {t1, t2, t3}
    Sessions  = {s1, s2}
    Passwords = {w1, w2}
    None      = None
SPECIFICATION Spec
SYMMETRY Symmetry
INVARIANTS TypeOK RotatedOnce OneLine SessionKept IssuedCurrent
