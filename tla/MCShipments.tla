----------------------------- MODULE MCShipments -----------------------------
(* TLC instances of Shipments.                                              *)
EXTENDS Shipments, TLC

CONSTANTS t1, t2, i1, i2, f1, f2, s1, s2

Symmetry == Permutations(Sales) \cup Permutations(Shipments) \cup Permutations(Forwarders)
                \cup Permutations(Sessions)
==============================================================================
