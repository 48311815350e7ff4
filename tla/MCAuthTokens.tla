---------------------------- MODULE MCAuthTokens -----------------------------
(* TLC instances of AuthTokens.                                             *)
EXTENDS AuthTokens, TLC

CONSTANTS t1, t2, t3, s1, s2, w1, w2

Symmetry == Permutations(Tokens) \cup Permutations(Sessions) \cup Permutations(Passwords)
==============================================================================
