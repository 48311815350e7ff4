---------------------------- MODULE MCProcurement ----------------------------
(* Procurement with two products ordered in twos or by the piece.  *)
EXTENDS Procurement

PairsOrPieces == {[quantity |-> 2, factor |-> 2, named |-> FALSE, cost |-> 0],
                  [quantity |-> 2, factor |-> 1, named |-> TRUE, cost |-> 0]}
BelowAndAboveZero == {-1, 2}
=============================================================================
