--------------------------- MODULE WholesaleCredit ---------------------------
(***************************************************************************)
(* Wholesale credit: checkout on credit, collection of payments, the       *)
(* customer update that may drop a wholesale profile, and the daily        *)
(* overdue scan, as they interleave on one PostgreSQL database.            *)
(*                                                                         *)
(* A session is one HTTP request being served.  Every await of the handler *)
(* is a point where other sessions run, so every database statement is one *)
(* action.  Statements read committed data (READ COMMITTED, Prisma's       *)
(* default: no caller asks for another level); an UPDATE holds its row to  *)
(* the end of the transaction and its effect is installed at commit.       *)
(***************************************************************************)
EXTENDS Integers, FiniteSets

CONSTANTS
    Customers,     \* ids of customers
    Sessions,      \* requests that may be in progress at once
    Invoices,      \* ids a credit_payment row can take (bounds the sales with details)
    Amounts,       \* amounts a credit sale or a payment can have
    Limits,        \* values an UpdateCustomerDto.credit_limit can have
    MaxTime,       \* bound of the clock and of the due dates
    MaxCharged,    \* bound of what a customer is charged on credit in a behaviour
    MaxCollected,  \* bound of what is collected from a customer in a behaviour
    Nobody         \* no customer, no lock holder

ASSUME AmountsPositive == Amounts \subseteq Nat \ {0}
ASSUME LimitsPositive == Limits \subseteq Nat \ {0}
ASSUME BoundsNatural == MaxTime \in Nat /\ MaxCharged \in Nat /\ MaxCollected \in Nat
ASSUME NobodyIsNew == Nobody \notin Customers \cup Sessions

VARIABLES
    ctype,      \* customer.type
    profiled,   \* is there a wholesale_profile row
    limit,      \* wholesale_profile.credit_limit
    balance,    \* wholesale_profile.outstanding_balance
    payments,   \* number of customer_payment rows of the profile
    invoice,    \* credit_payment rows with their amount and customer
    lock,       \* session that has written the wholesale_profile row and not ended
    now,        \* the day
    pc,         \* where each session is in its handler
    req,        \* the request it serves
    tx,         \* what its transaction has read and written
    charged,    \* history: opening balance and credit sales of a customer
    collected   \* history: money taken by collectWholesalePayment

customerVars == <<ctype, profiled, limit, payments>>
history      == <<charged, collected>>
session      == <<pc, req, tx>>
vars == <<ctype, profiled, limit, balance, payments, invoice, lock, now,
          pc, req, tx, charged, collected>>

-----------------------------------------------------------------------------
Types    == {"RETAIL", "WHOLESALE"}
Statuses == {"NONE", "UNPAID", "PARTIALLY_PAID", "PAID", "OVERDUE"}
Days     == 0 .. MaxTime
NoDue    == -1     \* a CREDIT payment without details
Unset    == 0      \* a limit the request leaves out

\* A credit_payment row; status NONE is the absence of a row (in invoice) or
\* of a write (in the draft of a transaction).
Row   == [cust : Customers \cup {Nobody}, due : Days, amount : Nat, rem : Nat,
          status : Statuses]
NoRow == [cust |-> Nobody, due |-> 0, amount |-> 0, rem |-> 0, status |-> "NONE"]

NewRow(c, d, a) == [cust |-> c, due |-> d, amount |-> a, rem |-> a, status |-> "UNPAID"]

Steps == {"idle", "overdue", "raise", "issue", "pay", "list", "settle",
          "commit", "count", "upsert", "retain", "delete"}

Request == [op : {"none", "checkout", "collect", "update"},
            cust : Customers \cup {Nobody}, amount : Nat,
            due : Days \cup {NoDue}, override : BOOLEAN,
            ctype : Types \cup {"UNSET"}, limit : Limits \cup {Unset}]
NoRequest == [op |-> "none", cust |-> Nobody, amount |-> 0, due |-> NoDue,
              override |-> FALSE, ctype |-> "UNSET", limit |-> Unset]

Tx   == [seen : Nat, balance : Nat, left : Nat, open : SUBSET Invoices,
         snap : [Invoices -> Nat], draft : [Invoices -> Row]]
NoTx == [seen |-> 0, balance |-> 0, left |-> 0, open |-> {},
         snap |-> [i \in Invoices |-> 0], draft |-> [i \in Invoices |-> NoRow]]

-----------------------------------------------------------------------------
OpenStatuses == {"UNPAID", "PARTIALLY_PAID", "OVERDUE"}
InvoicesOf(c) == {i \in Invoices : invoice[i].cust = c}
OpenInvoices(c) == {i \in InvoicesOf(c) : invoice[i].status \in OpenStatuses}

PastDueUnpaidOnly(i) == invoice[i].status = "UNPAID" /\ invoice[i].due < now           \* mutant
PastDue(i) == invoice[i].status \in {"UNPAID", "PARTIALLY_PAID"} /\ invoice[i].due < now

OverdueRecords(c) == {i \in InvoicesOf(c) : invoice[i].status = "OVERDUE" \/ PastDue(i)}

\* Row locks: the holder of a row is the session with an uncommitted write of it.
Written(s, i)  == tx[s].draft[i].status # "NONE"
RowFree(i, s)  == \A t \in Sessions \ {s} : ~Written(t, i)
LockFree(c, s) == lock[c] \in {Nobody, s}

Cust(s) == req[s].cust
Goto(s, step) == pc' = [pc EXCEPT ![s] = step]
\* The transaction of s ends: its locks are released, its locals are gone.
Finish(s) == /\ pc'   = [pc EXCEPT ![s] = "idle"]
             /\ req'  = [req EXCEPT ![s] = NoRequest]
             /\ tx'   = [tx EXCEPT ![s] = NoTx]
             /\ lock' = [c \in Customers |-> IF lock[c] = s THEN Nobody ELSE lock[c]]

-----------------------------------------------------------------------------
(* Customers exist from the start: retail, or wholesale with a profile that *)
(* may open with a debt (createCustomer).                                   *)
Init ==
    /\ ctype \in [Customers -> Types]
    /\ profiled = [c \in Customers |-> ctype[c] = "WHOLESALE"]
    /\ limit \in [Customers -> Limits \cup {0}]
    /\ \A c \in Customers : limit[c] # 0 <=> profiled[c]
    /\ balance \in [Customers -> Amounts \cup {0}]
    /\ \A c \in Customers : ~profiled[c] => balance[c] = 0
    /\ payments  = [c \in Customers |-> 0]
    /\ invoice   = [i \in Invoices |-> NoRow]
    /\ lock      = [c \in Customers |-> Nobody]
    /\ now       = 0
    /\ pc        = [s \in Sessions |-> "idle"]
    /\ req       = [s \in Sessions |-> NoRequest]
    /\ tx        = [s \in Sessions |-> NoTx]
    /\ charged   = balance
    /\ collected = [c \in Customers |-> 0]

-----------------------------------------------------------------------------
(* PosService.checkout with a CREDIT payment.  A request that a check       *)
(* refuses leaves the database as it was: the refusals have no action of    *)
(* their own before the first write, and end in Abort after it.             *)

WithinLimitAlone(c, a) == a <= limit[c]                                               \* mutant
WithinLimit(c, a) == balance[c] + a <= limit[c]

\* Bound: every sale with details that is in progress finds an unused invoice id.
RoomForInvoice == Cardinality({i \in Invoices : invoice[i].status = "NONE"})
                    > Cardinality({t \in Sessions : req[t].op = "checkout" /\ req[t].due # NoDue})

\* Steps 1 to 3A: the customer is read, must be wholesale, and the limit is
\* enforced on the balance as it is at this moment.
StartCheckout(s) ==
    /\ pc[s] = "idle"
    /\ \E c \in Customers, a \in Amounts, d \in Days \cup {NoDue}, o \in BOOLEAN :
        /\ charged[c] + a <= MaxCharged
        /\ d # NoDue => RoomForInvoice
        /\ ctype[c] = "WHOLESALE"
        /\ profiled[c] => WithinLimit(c, a)
        /\ req' = [req EXCEPT ![s] = [NoRequest EXCEPT !.op = "checkout", !.cust = c,
                                        !.amount = a, !.due = d, !.override = o]]
        /\ Goto(s, IF profiled[c] THEN "overdue" ELSE "issue")
    /\ UNCHANGED <<customerVars, balance, invoice, lock, now, tx, history>>

\* Step 3B: overdue invoices stop the sale unless the cashier overrides.
CheckOverdue(s) ==
    /\ pc[s] = "overdue"
    /\ OverdueRecords(Cust(s)) = {} \/ req[s].override
    /\ Goto(s, "raise")
    /\ UNCHANGED <<customerVars, balance, invoice, lock, now, req, tx, history>>

\* The refusal of step 3B.
RefuseOverdue(s) ==
    /\ pc[s] = "overdue"
    /\ OverdueRecords(Cust(s)) # {} /\ ~req[s].override
    /\ Finish(s)
    /\ UNCHANGED <<customerVars, balance, invoice, now, history>>

RaisedByAssignment(c, a) == a                                                         \* mutant
Raised(c, a) == balance[c] + a

\* Step 9, adjustWholesaleBalance: an increment of the latest committed value.
RaiseBalance(s) ==
    /\ pc[s] = "raise"
    /\ profiled[Cust(s)]
    /\ LockFree(Cust(s), s)
    /\ lock' = [lock EXCEPT ![Cust(s)] = s]
    /\ tx' = [tx EXCEPT ![s].balance = Raised(Cust(s), req[s].amount)]
    /\ Goto(s, "issue")
    /\ UNCHANGED <<customerVars, balance, invoice, now, req, history>>

\* Step 10, createTransaction: a credit_payment row only when the payment has
\* details (step 8).
IssueInvoice(s) ==
    /\ pc[s] = "issue"
    /\ \/ /\ req[s].due # NoDue
          /\ \E i \in Invoices :
              /\ invoice[i].status = "NONE"
              /\ RowFree(i, s)
              /\ tx' = [tx EXCEPT ![s].draft[i] =
                            NewRow(Cust(s), req[s].due, req[s].amount)]
       \/ req[s].due = NoDue /\ UNCHANGED tx
    /\ Goto(s, "commit")
    /\ UNCHANGED <<customerVars, balance, invoice, lock, now, req, history>>

-----------------------------------------------------------------------------
(* CustomersService.collectWholesalePayment.                                *)

PayableOffByOne(c, a) == a <= balance[c] + 1                                          \* mutant
Payable(c, a) == a <= balance[c]

\* Steps 1 to 3: the payment may not exceed the balance read here.
StartCollect(s) ==
    /\ pc[s] = "idle"
    /\ \E c \in Customers, a \in Amounts :
        /\ collected[c] + a <= MaxCollected
        /\ profiled[c]
        /\ Payable(c, a)
        /\ req' = [req EXCEPT ![s] = [NoRequest EXCEPT !.op = "collect", !.cust = c,
                                                       !.amount = a]]
        /\ tx' = [tx EXCEPT ![s].seen = balance[c]]
    /\ Goto(s, "pay")
    /\ UNCHANGED <<customerVars, balance, invoice, lock, now, history>>

\* Step 4: the new balance is assigned, computed from the balance read before.
PayDown(s) ==
    /\ pc[s] = "pay"
    /\ profiled[Cust(s)]
    /\ LockFree(Cust(s), s)
    /\ lock' = [lock EXCEPT ![Cust(s)] = s]
    /\ tx' = [tx EXCEPT ![s].balance = tx[s].seen - req[s].amount]
    /\ Goto(s, "list")
    /\ UNCHANGED <<customerVars, balance, invoice, now, req, history>>

OriginalAmount(i) == invoice[i].amount                                                \* mutant
RecordBalance(i) == invoice[i].rem

\* Step 5: the open invoices are read, oldest due date first.
ListOpen(s) ==
    /\ pc[s] = "list"
    /\ LET open == OpenInvoices(Cust(s))
       IN  tx' = [tx EXCEPT ![s] =
                    [@ EXCEPT !.left = req[s].amount,
                              !.open = open,
                              !.snap = [i \in Invoices |->
                                          IF i \in open THEN RecordBalance(i) ELSE 0]]]
    /\ Goto(s, "settle")
    /\ UNCHANGED <<customerVars, balance, invoice, lock, now, req, history>>

Newest(S) == {i \in S : \A j \in S : invoice[i].due >= invoice[j].due}                 \* mutant
Oldest(S) == {i \in S : \A j \in S : invoice[i].due <= invoice[j].due}

\* What is left to allocate after an invoice of which rem remains.
Rest(left, rem) == IF left >= rem THEN left - rem ELSE 0

SettledStrictly(i, rem, left) ==                                                      \* mutant
    [invoice[i] EXCEPT !.rem    = IF left >= rem THEN 0 ELSE rem - left,
                       !.status = IF left > rem THEN "PAID" ELSE "PARTIALLY_PAID"]
\* What the loop writes to the row of i when left is still to be allocated.
Settled(i, rem, left) ==
    [invoice[i] EXCEPT !.rem    = IF left >= rem THEN 0 ELSE rem - left,
                       !.status = IF left >= rem THEN "PAID" ELSE "PARTIALLY_PAID"]

\* One iteration of the loop of step 5.
SettleNext(s) ==
    /\ pc[s] = "settle"
    /\ tx[s].left > 0
    /\ \E i \in Oldest(tx[s].open) :
        /\ RowFree(i, s)
        /\ LET rem == tx[s].snap[i]
           IN  tx' = [tx EXCEPT ![s] =
                        [@ EXCEPT !.left     = Rest(tx[s].left, rem),
                                  !.open     = tx[s].open \ {i},
                                  !.draft[i] = Settled(i, rem, tx[s].left)]]
    /\ UNCHANGED <<customerVars, balance, invoice, lock, now, pc, req, history>>

AllocatedOnly(s) == tx[s].left = 0                                                    \* mutant
LoopEnds(s) == tx[s].left = 0 \/ tx[s].open = {}

\* The loop ends: nothing left to allocate, or no invoice left.
SettleDone(s) ==
    /\ pc[s] = "settle"
    /\ LoopEnds(s)
    /\ Goto(s, "commit")
    /\ UNCHANGED <<customerVars, balance, invoice, lock, now, req, tx, history>>

\* COMMIT of a checkout or of a collection (with its customer_payment row).
Commit(s) ==
    /\ pc[s] = "commit"
    /\ invoice' = [i \in Invoices |-> IF Written(s, i) THEN tx[s].draft[i] ELSE invoice[i]]
    /\ balance' = [c \in Customers |-> IF lock[c] = s THEN tx[s].balance ELSE balance[c]]
    /\ \/ /\ req[s].op = "checkout"
          /\ charged' = [charged EXCEPT ![Cust(s)] = @ + req[s].amount]
          /\ UNCHANGED <<payments, collected>>
       \/ /\ req[s].op = "collect"
          /\ payments'  = [payments EXCEPT ![Cust(s)] = @ + 1]
          /\ collected' = [collected EXCEPT ![Cust(s)] = @ + req[s].amount]
          /\ UNCHANGED charged
    /\ Finish(s)
    /\ UNCHANGED <<ctype, profiled, limit, now>>

-----------------------------------------------------------------------------
(* CustomersService.updateCustomer, which runs outside any transaction.     *)

DebtFree(c) == ~(balance[c] > 0)

\* The type column after an update: written only when the request names a type.
Retyped(c, t) == IF t = "UNSET" THEN ctype ELSE [ctype EXCEPT ![c] = t]

HistoryOffByOne(c) == payments[c] > 1                                                 \* mutant
HasHistory(c) == payments[c] > 0

\* Sections 1 to 4: read the customer, decide what to do with the profile.  A
\* request that changes neither type, limit nor profile has no action.
StartUpdate(s) ==
    /\ pc[s] = "idle"
    /\ \E c \in Customers, t \in Types \cup {"UNSET"}, l \in Limits \cup {Unset} :
        LET target == IF t = "UNSET" THEN ctype[c] ELSE t
        IN  /\ req' = [req EXCEPT ![s] = [NoRequest EXCEPT !.op = "update", !.cust = c,
                                             !.ctype = t, !.limit = l]]
            /\ \/ target = "WHOLESALE" /\ Goto(s, "upsert")
               \/ /\ t = "RETAIL" /\ profiled[c]
                  /\ DebtFree(c)
                  /\ Goto(s, "count")
               \/ t = "RETAIL" /\ ~profiled[c] /\ Goto(s, "retain")
    /\ UNCHANGED <<customerVars, balance, invoice, lock, now, tx, history>>

\* Section 4: is there a payment history to preserve?
CountPayments(s) ==
    /\ pc[s] = "count"
    /\ Goto(s, IF HasHistory(Cust(s)) THEN "retain" ELSE "delete")
    /\ UNCHANGED <<customerVars, balance, invoice, lock, now, req, tx, history>>

\* Section 5 with the nested upsert; it waits for the row if it writes to it.
ApplyUpsert(s) ==
    LET c == Cust(s)
        l == req[s].limit
    IN  /\ pc[s] = "upsert"
        /\ profiled[c] /\ l # Unset => LockFree(c, s)
        /\ ctype' = Retyped(c, req[s].ctype)
        /\ profiled' = [profiled EXCEPT ![c] = TRUE]
        /\ limit' = IF profiled[c] /\ l = Unset THEN limit ELSE [limit EXCEPT ![c] = l]
        /\ balance' = IF profiled[c] THEN balance ELSE [balance EXCEPT ![c] = 0]
        /\ Finish(s)
        /\ UNCHANGED <<payments, invoice, now, history>>

\* Section 5 without a change of the profile.
ApplyRetain(s) ==
    /\ pc[s] = "retain"
    /\ ctype' = Retyped(Cust(s), "RETAIL")
    /\ Finish(s)
    /\ UNCHANGED <<profiled, limit, balance, payments, invoice, now, history>>

\* Section 5 with the nested delete, which cascades to the customer_payment rows.
ApplyDelete(s) ==
    LET c == Cust(s)
    IN  /\ pc[s] = "delete"
        /\ profiled[c]
        /\ LockFree(c, s)
        /\ ctype'    = Retyped(c, "RETAIL")
        /\ profiled' = [profiled EXCEPT ![c] = FALSE]
        /\ limit'    = [limit EXCEPT ![c] = 0]
        /\ balance'  = [balance EXCEPT ![c] = 0]
        /\ payments' = [payments EXCEPT ![c] = 0]
        /\ Finish(s)
        /\ UNCHANGED <<invoice, now, history>>

-----------------------------------------------------------------------------
\* A statement fails on a profile that is gone (RecordNotFound, NotFound).
ProfileGone(s) ==
    /\ pc[s] \in {"raise", "pay", "delete"}
    /\ ~profiled[Cust(s)]
    /\ Finish(s)
    /\ UNCHANGED <<customerVars, balance, invoice, now, history>>

\* Anything else that ends a request early: a later check of the handler, the
\* transaction timeout, a lost connection, a crash.  The transaction rolls back.
Abort(s) ==
    /\ pc[s] # "idle"
    /\ Finish(s)
    /\ UNCHANGED <<customerVars, balance, invoice, now, history>>

\* CreditStatusTaskService at 6 AM: one UPDATE statement, which waits for rows
\* other transactions have written and evaluates its WHERE on what it finds.
MarkOverdue ==
    /\ \E i \in Invoices : PastDue(i)
    /\ \A i \in Invoices : PastDue(i) => \A s \in Sessions : ~Written(s, i)
    /\ invoice' = [i \in Invoices |-> IF PastDue(i) THEN [invoice[i] EXCEPT !.status = "OVERDUE"]
                                                    ELSE invoice[i]]
    /\ UNCHANGED <<customerVars, balance, lock, now, session, history>>

Tick ==
    /\ now < MaxTime
    /\ now' = now + 1
    /\ UNCHANGED <<customerVars, balance, invoice, lock, session, history>>

-----------------------------------------------------------------------------
Begin(s)    == StartCheckout(s) \/ StartCollect(s) \/ StartUpdate(s)
Checkout(s) == CheckOverdue(s) \/ RefuseOverdue(s) \/ RaiseBalance(s) \/ IssueInvoice(s)
Collect(s)  == PayDown(s) \/ ListOpen(s) \/ SettleNext(s) \/ SettleDone(s)
Update(s)   == CountPayments(s) \/ ApplyUpsert(s) \/ ApplyRetain(s) \/ ApplyDelete(s)
\* The next statement of the handler session s runs.
Continue(s) == Checkout(s) \/ Collect(s) \/ Update(s) \/ Commit(s) \/ ProfileGone(s)

Next == \/ \E s \in Sessions : Begin(s) \/ Continue(s) \/ Abort(s)
        \/ MarkOverdue
        \/ Tick

Spec == Init /\ [][Next]_vars

\* A request that was started runs its next statement sooner or later, and the
\* scheduler runs the daily scan.  Strong fairness, because PostgreSQL queues the
\* waiters of a row: others cannot take it over and over ahead of one that waits.
\* No request has to arrive or to fail.
Fairness == /\ \A s \in Sessions : SF_vars(Continue(s))
            /\ SF_vars(MarkOverdue)
FairSpec == Spec /\ Fairness

-----------------------------------------------------------------------------
(* PROPERTIES *)

TypeOK ==
    /\ ctype \in [Customers -> Types]
    /\ profiled \in [Customers -> BOOLEAN]
    /\ limit \in [Customers -> Nat]
    /\ balance \in [Customers -> Nat]
    /\ payments \in [Customers -> Nat]
    /\ invoice \in [Invoices -> Row]
    /\ lock \in [Customers -> Sessions \cup {Nobody}]
    /\ now \in Days
    /\ pc \in [Sessions -> Steps]
    /\ req \in [Sessions -> Request]
    /\ tx \in [Sessions -> Tx]
    /\ charged \in [Customers -> Nat]
    /\ collected \in [Customers -> Nat]

\* Every wholesale customer has a profile row, however updates interleave: the
\* credit branch of checkout, which skips limit, overdue check and balance when
\* the profile is missing, is never taken without one.
WholesaleProfiled == \A c \in Customers : ctype[c] = "WHOLESALE" => profiled[c]

\* The status of a credit_payment row and its remaining balance agree: PAID
\* exactly when nothing remains, PARTIALLY_PAID strictly in between, UNPAID
\* untouched.  The settlement writes both from a row it read earlier, while the
\* overdue scan writes the status alone.
RowShape(r) == /\ r.rem <= r.amount
               /\ r.status = "PAID" <=> r.rem = 0 /\ r.status # "NONE"
               /\ r.status = "PARTIALLY_PAID" => r.rem < r.amount
               /\ r.status = "UNPAID" => r.rem = r.amount
StatusMatchesBalance == \A i \in Invoices : RowShape(invoice[i])

\* What a settlement has read and not yet written is what the database still
\* holds: although collectWholesalePayment assigns balances from rows it read in
\* an earlier statement, no other request can have changed them in between.
SettlementFresh ==
    \A s \in Sessions : pc[s] = "settle" =>
        \A i \in tx[s].open : /\ invoice[i].cust = Cust(s)
                              /\ invoice[i].status \in OpenStatuses
                              /\ invoice[i].rem = tx[s].snap[i]
                              /\ ~Written(s, i)

\* Once issued, an invoice keeps its customer, due date and amount, its remaining
\* balance never grows, and PAID is final.
InvoiceOnlyPaidDown ==
    [][\A i \in Invoices : invoice[i].status # "NONE" =>
          /\ invoice'[i].cust = invoice[i].cust
          /\ invoice'[i].due = invoice[i].due
          /\ invoice'[i].amount = invoice[i].amount
          /\ invoice'[i].rem <= invoice[i].rem
          /\ invoice[i].status = "PAID" => invoice'[i].status = "PAID"
          /\ invoice'[i].status # "NONE"]_vars

\* outstanding_balance is what was charged, opening balance included, less what
\* was collected: collection "Decrements `outstanding_balance`"
\* (customers.service.ts:436).
BooksBalance == \A c \in Customers : charged[c] = balance[c] + collected[c]

\* The step that collects a payment takes it off the balance the customer has at
\* that moment (same line).
CollectionDecrements ==
    [][\A c \in Customers : collected'[c] # collected[c] =>
          balance'[c] = balance[c] - (collected'[c] - collected[c])]_vars

\* A request that was started ends: sessions never block each other for good.
RequestsEnd == \A s \in Sessions : pc[s] # "idle" ~> pc[s] = "idle"

\* An invoice past its due date is flagged OVERDUE or paid, whatever settlements
\* overwrite the flag of the daily scan in the meantime.
OverdueFlagged ==
    \A i \in Invoices :
        invoice[i].rem > 0 /\ invoice[i].due < now ~> invoice[i].status \in {"OVERDUE", "PAID"}

-----------------------------------------------------------------------------
(* The inductive invariant behind the properties above.  It needs, beside   *)
(* them, where the lock of a profile is held and what a draft may contain.  *)

LockSteps == {"issue", "list", "settle", "commit"}

\* The profile row is locked by exactly the session that is between its write of
\* the row and its end, and by none when nobody is.
LockDiscipline ==
    /\ \A c \in Customers, s \in Sessions :
           lock[c] = s => Cust(s) = c /\ pc[s] \in LockSteps
    /\ \A s \in Sessions : pc[s] \in LockSteps => lock[Cust(s)] = s

\* The request and the locals fit the step the session is at.
LocalsFit ==
    \A s \in Sessions :
        /\ pc[s] = "idle" => tx[s] = NoTx /\ req[s] = NoRequest
        /\ pc[s] # "idle" => Cust(s) \in Customers
        /\ pc[s] \in {"overdue", "raise", "issue"} => req[s].op = "checkout" /\ req[s].amount > 0
        /\ pc[s] = "pay" => req[s].amount <= tx[s].seen

\* An uncommitted invoice is a new row, or an open row of the session's customer
\* paid down further; no other session has written it.
DraftFit ==
    \A s \in Sessions, i \in Invoices : Written(s, i) =>
        LET d == tx[s].draft[i]
            r == invoice[i]
        IN  /\ pc[s] \in {"settle", "commit"}
            /\ RowShape(d)
            /\ d.cust = Cust(s)
            /\ r.status # "NONE" => /\ r.status \in OpenStatuses
                                    /\ r.cust = d.cust /\ r.due = d.due /\ r.amount = d.amount
                                    /\ d.rem <= r.rem
            /\ RowFree(i, s)

IInv == /\ TypeOK
        /\ WholesaleProfiled
        /\ StatusMatchesBalance
        /\ LockDiscipline
        /\ LocalsFit
        /\ DraftFit
        /\ SettlementFresh

=============================================================================
