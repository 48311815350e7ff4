---------------------------- MODULE MCStockLedger ----------------------------
(* TLC instances of StockLedger.                                            *)
EXTENDS StockLedger, TLC

CONSTANTS p1, p2, s1, s2

Symmetry == Permutations(Sessions) \cup Permutations(Products)
==============================================================================
