----------------------------- MODULE MCCatalogue -----------------------------
(* TLC instances of Catalogue.                                              *)
EXTENDS Catalogue, TLC

CONSTANTS p1, p2, s1, s2, pcs, box

Symmetry == Permutations(Products) \cup Permutations(Sessions)
            \cup Permutations(Units)
==============================================================================
