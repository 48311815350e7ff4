-------------------------- MODULE MCWholesaleCredit --------------------------
(* TLC instances of WholesaleCredit: every interleaving within small bounds. *)
EXTENDS WholesaleCredit, TLC

CONSTANTS c1, s1, s2, i1, i2, i3

Symmetry == Permutations(Sessions) \cup Permutations(Invoices)
==============================================================================
