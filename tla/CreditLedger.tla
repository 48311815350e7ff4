---------------------------- MODULE CreditLedger -----------------------------
(***************************************************************************)
(* What wholesale credit promises about invoices, without sessions, locks  *)
(* or the clock: invoices are issued whole, a collection settles those of  *)
(* one customer oldest first and in one step, and the daily scan flags     *)
(* them.  WholesaleCredit implements this specification.                   *)
(***************************************************************************)
EXTENDS Integers, FiniteSets, FiniteSetsExt

CONSTANTS Customers, Invoices
VARIABLES invoice, collected

OpenStates == {"UNPAID", "PARTIALLY_PAID", "OVERDUE"}
Accounts(c) == {i \in Invoices : invoice[i].cust = c /\ invoice[i].status \in OpenStates}
Remaining(S) == SumFunctionOnSet([i \in Invoices |-> invoice[i].rem], S)

LedgerInit == /\ \A i \in Invoices : invoice[i].status = "NONE"
              /\ \A c \in Customers : collected[c] = 0

\* A sale on credit: one new invoice, unpaid, for its whole amount.
Issue ==
    \E i \in Invoices :
        /\ invoice[i].status = "NONE"
        /\ invoice'[i].status = "UNPAID"
        /\ invoice'[i].rem = invoice'[i].amount
        /\ \A j \in Invoices \ {i} : invoice'[j] = invoice[j]
        /\ UNCHANGED collected

\* How much of invoice i this step paid.
Share(i) == invoice[i].rem - invoice'[i].rem

\* A collection of a from c: the oldest invoices take it, at most one of them in
\* part, and money is left over only when every invoice is paid.
Collect(c) ==
    LET a == collected'[c] - collected[c]
        open == Accounts(c)
    IN  /\ a > 0
        /\ \A d \in Customers \ {c} : collected'[d] = collected[d]
        /\ \A i \in Invoices \ open : invoice'[i] = invoice[i]
        /\ SumFunctionOnSet([i \in Invoices |-> Share(i)], open) = Min({a, Remaining(open)})
        /\ \A i \in open :
            /\ 0 <= invoice'[i].rem
            /\ invoice'[i] = IF Share(i) = 0 THEN invoice[i]
                             ELSE [invoice[i] EXCEPT
                                     !.rem = invoice'[i].rem,
                                     !.status = IF invoice'[i].rem = 0 THEN "PAID"
                                                                       ELSE "PARTIALLY_PAID"]
        /\ \A i, j \in open :
            /\ invoice[i].due < invoice[j].due /\ Share(j) # 0 => invoice'[i].rem = 0
            /\ i # j /\ Share(i) # 0 /\ Share(j) # 0 => 0 \in {invoice'[i].rem, invoice'[j].rem}

\* The daily scan: some open invoices are flagged.
Flag ==
    /\ \A i \in Invoices :
        \/ invoice'[i] = invoice[i]
        \/ invoice[i].status \in OpenStates /\ invoice'[i] = [invoice[i] EXCEPT !.status = "OVERDUE"]
    /\ UNCHANGED collected

LedgerNext == Issue \/ (\E c \in Customers : Collect(c)) \/ Flag

Spec == LedgerInit /\ [][LedgerNext]_<<invoice, collected>>
==============================================================================
