------------------------------ MODULE StockBook ------------------------------
(***************************************************************************)
(* What inventory promises about stock, without requests, transactions or  *)
(* row locks: a product has a book of entries that is only ever added to,   *)
(* its level changes when entries are posted and to what the last of them   *)
(* says, and it is below zero only if an entry in the book was forced.      *)
(* StockLedger implements this specification.                               *)
(***************************************************************************)
EXTENDS Integers, Sequences

CONSTANT Products
VARIABLES level, book

Entry == [level : Int, forced : BOOLEAN]

Init == /\ level \in [Products -> Nat]
        /\ book = [p \in Products |-> <<>>]

Kept(p) == level'[p] = level[p] /\ book'[p] = book[p]

Posted(p) ==
    /\ Len(book[p]) < Len(book'[p])
    /\ \A k \in DOMAIN book[p] : book'[p][k] = book[p][k]
    /\ level'[p] = book'[p][Len(book'[p])].level
    /\ level'[p] < 0 => \E k \in DOMAIN book'[p] : book'[p][k].forced

\* One transaction posts entries to some products and leaves the others alone.
Post == /\ level' \in [Products -> Int]
        /\ book' \in [Products -> Seq(Entry)]
        /\ \A p \in Products : Kept(p) \/ Posted(p)

Spec == Init /\ [][Post]_<<level, book>>
==============================================================================
