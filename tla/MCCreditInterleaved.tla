------------------------ MODULE MCCreditInterleaved -------------------------
(* The TLC instance of CreditBooks.  Two requests at once make many more       *)
(* states than one after the other: the bounds are closer for those that       *)
(* interleave.                                                                 *)
EXTENDS MCWholesaleCredit, CreditBooks

CloseBounds == /\ now <= 1
               /\ \A c \in Customers : charged[c] <= 3 /\ collected[c] <= 2 /\ limit[c] \in {0, 3}
               /\ \A s \in Sessions : req[s].due <= 1 /\ req[s].amount <= 2 /\ req[s].limit \in {Unset, 3}
               /\ \A i \in Invoices : invoice[i].due <= 1
               /\ Cardinality({i \in Invoices : invoice[i].status # "NONE"}) <= 2

MCNext == BooksNext /\ (overlapped' => CloseBounds')
MCSpec == BooksInit /\ [][MCNext]_booksVars
==============================================================================
