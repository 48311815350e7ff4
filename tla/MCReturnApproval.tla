--------------------------- MODULE MCReturnApproval ---------------------------
(* TLC instances of ReturnApproval.                                         *)
EXTENDS ReturnApproval, TLC

CONSTANTS r1, r2, s1, s2

\* A claim that reduces nothing, and one above what any sale here owes.
BelowAndAbove == {-1, 3}

Symmetry == Permutations(Sessions) \cup Permutations(Requests)
==============================================================================
