---------------------------- MODULE CreditBooks -----------------------------
(***************************************************************************)
(* What the rows of WholesaleCredit add up to: every step of it is a step  *)
(* of CreditLedger, and as long as requests follow one another the books   *)
(* of a customer balance.  A history variable tells requests that follow   *)
(* one another from requests that interleave.                              *)
(***************************************************************************)
EXTENDS WholesaleCredit, FiniteSetsExt

ASSUME InvoicesFinite == IsFiniteSet(Invoices)

\* What customer c still owes on its invoices.
Owed(c) == SumFunctionOnSet([i \in Invoices |-> invoice[i].rem], OpenInvoices(c))

\* The balance of the profile covers the open invoices behind it.
BalanceCoversInvoices == \A c \in Customers : Owed(c) <= balance[c]

\* In every interleaving an invoice is issued whole and open invoices are paid
\* oldest first, in one step per collection, whatever the scan flags in between.
Ledger == INSTANCE CreditLedger
ImplementsLedger == Ledger!Spec

-----------------------------------------------------------------------------
VARIABLE overlapped \* history: two requests have been in progress at once

booksVars == <<vars, overlapped>>

Overlap == \E s, t \in Sessions : s # t /\ pc[s] # "idle" /\ pc[t] # "idle"

BooksInit == Init /\ overlapped = FALSE
BooksNext == Next /\ overlapped' = (overlapped \/ Overlap')
BooksSpec == BooksInit /\ [][BooksNext]_booksVars

\* As long as requests follow one another, the balance is what was charged less what
\* was collected ("Decrements `outstanding_balance`", customers.service.ts:436), and
\* covers the open invoices behind it.
BooksBalanceAlone == ~overlapped => BooksBalance /\ BalanceCoversInvoices

\* As long as requests follow one another, no sale takes the balance above the limit,
\* also when an update has lowered it in between (pos.service.ts:134).
LimitHeldAlone ==
    [][~overlapped => \A c \in Customers : balance'[c] > balance[c] => balance'[c] <= limit[c]]_vars

\* As long as requests follow one another, a profile is deleted "only if 0 balance AND
\* 0 payment history records exist" (customers.service.ts:366).
DeletedWhenClearAlone ==
    [][~overlapped => \A c \in Customers : profiled[c] /\ ~profiled'[c] =>
          balance[c] = 0 /\ payments[c] = 0]_vars

-----------------------------------------------------------------------------
(* The inductive invariant behind ImplementsLedger: beside IInv, what the    *)
(* draft of a checkout or of a collection amounts to.                       *)

WrittenBy(s) == {i \in Invoices : Written(s, i)}

\* The request fits the step the session is at.
OpFits(s) ==
    /\ pc[s] \in {"pay", "list", "settle"} => req[s].op = "collect" /\ req[s].amount > 0
    /\ pc[s] = "commit" => req[s].op \in {"checkout", "collect"} /\ req[s].amount > 0

\* A checkout about to commit has drafted one new invoice, or none without details.
IssuesOne(s) == pc[s] = "commit" /\ req[s].op = "checkout" =>
    \/ req[s].due = NoDue /\ WrittenBy(s) = {}
    \/ \E i \in Invoices :
           /\ WrittenBy(s) = {i}
           /\ invoice[i].status = "NONE"
           /\ tx[s].draft[i] = NewRow(Cust(s), req[s].due, req[s].amount)

\* Session s is between its reading of the open invoices and its end.
Settling(s) == pc[s] = "settle" \/ (pc[s] = "commit" /\ req[s].op = "collect")

\* The draft of s pays something of invoice i, and changes nothing else of it.
PaysPart(s, i) ==
    LET rem == tx[s].draft[i].rem
    IN  /\ rem < invoice[i].rem
        /\ tx[s].draft[i] = [invoice[i] EXCEPT
                                !.rem = rem, !.status = IF rem = 0 THEN "PAID" ELSE "PARTIALLY_PAID"]

\* How much of invoice i the draft of s pays.
Payment(s, i) == IF Written(s, i) THEN invoice[i].rem - tx[s].draft[i].rem ELSE 0
Allocated(s)  == SumFunctionOnSet([i \in Invoices |-> Payment(s, i)], Invoices)

\* A settlement has gone through the older part of the open invoices: only the last
\* one it wrote may be paid in part, and then nothing is left to allocate.
SettlesInOrder(s) == Settling(s) =>
    LET W == WrittenBy(s)
        rem(i) == tx[s].draft[i].rem
    IN  /\ OpenInvoices(Cust(s)) = W \cup tx[s].open
        /\ \A i \in W : PaysPart(s, i)
        /\ \A i \in W, j \in tx[s].open : invoice[i].due <= invoice[j].due
        /\ \A i, j \in W : invoice[i].due < invoice[j].due => rem(i) = 0
        /\ \A i, j \in W : i # j => 0 \in {rem(i), rem(j)}
        /\ tx[s].left > 0 => \A i \in W : rem(i) = 0
        /\ Allocated(s) + tx[s].left = req[s].amount
        /\ pc[s] = "commit" => LoopEnds(s)

DraftsInOrder == \A s \in Sessions : OpFits(s) /\ IssuesOne(s) /\ SettlesInOrder(s)

-----------------------------------------------------------------------------
(* The inductive invariant behind the three properties of requests that      *)
(* follow one another: what a request that is alone has read still holds.    *)

\* A locked profile exists, and only a profile can hold a balance; in every
\* interleaving.
ProfileHeld == \A c \in Customers : /\ lock[c] # Nobody => profiled[c]
                                    /\ balance[c] # 0 => profiled[c]

ReadStillHolds(s) ==
    LET c == Cust(s)
        a == req[s].amount
    IN  /\ pc[s] \in {"overdue", "raise"} \cup LockSteps /\ req[s].op = "checkout" =>
               balance[c] + a <= limit[c]
        /\ pc[s] = "pay" => tx[s].seen = balance[c]
        /\ pc[s] \in LockSteps => tx[s].balance = IF req[s].op = "checkout" THEN balance[c] + a
                                                                            ELSE balance[c] - a
        /\ pc[s] \in {"count", "delete"} => balance[c] = 0
        /\ pc[s] = "delete" => payments[c] = 0

BooksAlone == ~overlapped =>
    /\ ~Overlap
    /\ BooksBalance
    /\ BalanceCoversInvoices
    /\ \A s \in Sessions : ReadStillHolds(s)
==============================================================================
