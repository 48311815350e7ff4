---------------------------- MODULE ReturnApproval ----------------------------
(***************************************************************************)
(* Approval requests and what an approved return does to credit: staff ask  *)
(* for a refund or an exchange of a sale, managers approve or reject, and   *)
(* an approved refund takes what the request says off the credit_payment    *)
(* row of the sale and off the balance of the customer, while the same      *)
(* customer's payments are collected.                                       *)
(*                                                                          *)
(* All sales are those of one wholesale customer.  Database statements are  *)
(* atomic, read committed data, and an UPDATE locks its row to the end of   *)
(* the transaction.  What a return does to stock is in StockLedger.         *)
(***************************************************************************)
EXTENDS Integers, FiniteSets, FiniteSetsExt

CONSTANTS
    Sales,     \* credit sales, numbered in the order of their due dates
    Requests,  \* ids an approval request can take (bounds the requests)
    Sessions,  \* HTTP requests that may be in progress at once
    Amounts,   \* credit of a sale, amount of a payment, value of a return
    Debts,     \* balances the customer may start with
    Claims,    \* debt reductions that a payload written by hand may state
    Nobody     \* no lock holder, no request, no sale

ASSUME SalesNumbered == Sales \subseteq Nat
ASSUME SalesFinite == IsFiniteSet(Sales)
ASSUME AmountsPositive == Amounts \subseteq Nat \ {0}
ASSUME DebtsNatural == Debts \subseteq Nat
ASSUME ClaimsIntegers == Claims \subseteq Int
ASSUME NobodyIsNew == Nobody \notin Sessions \cup Sales \cup Requests

VARIABLES
    rem,        \* credit_payment.remaining_credit_balance
    paid,       \* is credit_payment.status PAID
    balance,    \* wholesale_profile.outstanding_balance of the customer
    request,    \* approval_request rows
    rowLock,    \* holder of each credit_payment row
    custLock,   \* holder of the wholesale_profile row
    reqLock,    \* holder of each approval_request row
    pc,         \* where each session is in its handler
    job,        \* what it was asked to do
    tx,         \* what its transaction has read and written
    amount,     \* history: the credit a sale was made with
    settled,    \* history: what collections took off a row
    refunded,   \* history: what executed returns took off a row
    executed,   \* history: how often the handler of a request ran and committed
    contested,  \* history: requests two managers have reviewed at once
    overlapped  \* history: has a collection overlapped another change of money

credit  == <<rem, paid, balance>>
locks   == <<rowLock, custLock, reqLock>>
history == <<amount, settled, refunded, executed>>
races   == <<contested, overlapped>>
vars == <<credit, request, locks, pc, job, tx, history, races>>

-----------------------------------------------------------------------------
Decisions == {"APPROVED", "REJECTED"}
\* An approval_request row: of its payload, the sale and paymentBreakdown's
\* creditDebtReduction, which an exchange does not have.  NONE is no row.
RequestRow == [status : {"NONE", "PENDING"} \cup Decisions, sale : Sales \cup {Nobody},
               debt : Int]
NoRow == [status |-> "NONE", sale |-> Nobody, debt |-> 0]

Steps == {"idle", "row", "profile", "mark", "reject", "pay", "list", "settle", "commit"}
Job   == [op : {"none", "approve", "reject", "collect"}, r : Requests \cup {Nobody}, n : Nat]
Tx    == [seen : Int, balance : Int, left : Int, open : SUBSET Sales,
          snap : [Sales -> Int], draft : [Sales -> Int], share : [Sales -> Int]]

NoJob == [op |-> "none", r |-> Nobody, n |-> 0]
Zero  == [i \in Sales |-> 0]
NoTx  == [seen |-> 0, balance |-> 0, left |-> 0, open |-> {},
          snap |-> Zero, draft |-> Zero, share |-> Zero]

Goto(s, step) == pc' = [pc EXCEPT ![s] = step]
Free(holder, s) == holder \in {Nobody, s}
Sale(s) == request[job[s].r].sale
Debt(s) == request[job[s].r].debt

\* The transaction of s ends: its locks are released, its locals are gone.
Finish(s) ==
    /\ Goto(s, "idle")
    /\ job' = [job EXCEPT ![s] = NoJob]
    /\ tx'  = [tx EXCEPT ![s] = NoTx]
    /\ rowLock'  = [i \in Sales |-> IF rowLock[i] = s THEN Nobody ELSE rowLock[i]]
    /\ custLock' = IF custLock = s THEN Nobody ELSE custLock
    /\ reqLock'  = [r \in Requests |-> IF reqLock[r] = s THEN Nobody ELSE reqLock[r]]

Owed == SumFunctionOnSet(rem, Sales)

-----------------------------------------------------------------------------
\* Sales made on credit, and a balance that covers them (it may hold older debt).
Init ==
    /\ rem \in [Sales -> Amounts]
    /\ paid = [i \in Sales |-> FALSE]
    /\ balance \in Debts
    /\ balance >= Owed
    /\ request = [r \in Requests |-> NoRow]
    /\ rowLock  = [i \in Sales |-> Nobody]
    /\ custLock = Nobody
    /\ reqLock  = [r \in Requests |-> Nobody]
    /\ pc  = [s \in Sessions |-> "idle"]
    /\ job = [s \in Sessions |-> NoJob]
    /\ tx  = [s \in Sessions |-> NoTx]
    /\ amount   = rem
    /\ settled  = Zero
    /\ refunded = Zero
    /\ executed = [r \in Requests |-> 0]
    /\ contested  = {}
    /\ overlapped = FALSE

-----------------------------------------------------------------------------
(* ApprovalService.createRequest, called by the two below.                   *)

CreateRequest(i, debt) ==
    /\ \E r \in Requests :
        /\ request[r].status = "NONE"
        /\ request' = [request EXCEPT ![r] = [status |-> "PENDING", sale |-> i, debt |-> debt]]
    /\ UNCHANGED <<credit, locks, pc, job, tx, history, races>>

\* calculateRefundBreakdown: debt reduction first, the rest is paid in cash.
DebtReduction(i, total) == Min({rem[i], total})

\* ReturnsService.requestRefund and requestExchange.  The sale is read in a statement
\* before the row is created; as the row may stay PENDING for any time before it is
\* reviewed, the two are one action.
RequestReturn ==
    \E i \in Sales : \E debt \in {DebtReduction(i, total) : total \in Amounts} \cup {0} :
        CreateRequest(i, debt)

\* POST /approval: the payload is any object.  One without a sale that was made or
\* without a breakdown fails when it is reviewed (Abort); any other may state a debt
\* reduction that has nothing to do with what the sale owes.
PostRequest == \E i \in Sales, debt \in Claims : CreateRequest(i, debt)

-----------------------------------------------------------------------------
(* ApprovalService.approveRequest with the handler it runs.                  *)

AnyRow(r) == request[r].status # "NONE"                                               \* mutant
Reviewable(r) == request[r].status = "PENDING"

\* Is another session at work on such a job?
OthersOn(s, ops) == \E t \in Sessions \ {s} : job[t].op \in ops
Reviewing(s, r)  == job[s].op \in {"approve", "reject"} /\ job[s].r = r

StartReview(s, op, r) ==
    /\ pc[s] = "idle"
    /\ Reviewable(r)
    /\ job' = [job EXCEPT ![s] = [NoJob EXCEPT !.op = op, !.r = r]]
    /\ contested' = IF \E t \in Sessions \ {s} : Reviewing(t, r) THEN contested \cup {r} ELSE contested

ReducesNonZero(r) == request[r].debt # 0                                              \* mutant
ReducesDebt(r) == request[r].debt > 0

\* The request is read; then the handler creates the return row and, if the debt
\* is to be reduced, updates two rows.
StartApprove(s) ==
    /\ \E r \in Requests :
        /\ StartReview(s, "approve", r)
        /\ Goto(s, IF ReducesDebt(r) THEN "row" ELSE "mark")
    /\ overlapped' = (overlapped \/ OthersOn(s, {"collect"}))
    /\ UNCHANGED <<credit, request, locks, tx, history>>

FromFullCredit(i) == amount[i]                                                        \* mutant
Reducible(i) == rem[i]

\* creditPayment.update, a decrement of the latest committed value.
ReduceRow(s) ==
    LET i == Sale(s)
    IN  /\ pc[s] = "row"
        /\ Free(rowLock[i], s)
        /\ rowLock' = [rowLock EXCEPT ![i] = s]
        /\ tx' = [tx EXCEPT ![s].draft[i] = Reducible(i) - Debt(s)]
        /\ Goto(s, "profile")
        /\ UNCHANGED <<credit, request, custLock, reqLock, job, history, races>>

ReducedByCredit(s) == balance - amount[Sale(s)]                                       \* mutant
Reduced(s) == balance - Debt(s)

\* wholeSaleCustomer.update, a decrement too.
ReduceBalance(s) ==
    /\ pc[s] = "profile"
    /\ Free(custLock, s)
    /\ custLock' = s
    /\ tx' = [tx EXCEPT ![s].balance = Reduced(s)]
    /\ Goto(s, "mark")
    /\ UNCHANGED <<credit, request, rowLock, reqLock, job, history, races>>

\* approvalRequest.update, by id alone: whatever the status has become.
MarkApproved(s) ==
    LET r == job[s].r
    IN  /\ pc[s] = "mark"
        /\ Free(reqLock[r], s)
        /\ reqLock' = [reqLock EXCEPT ![r] = s]
        /\ Goto(s, "commit")
        /\ UNCHANGED <<credit, request, rowLock, custLock, job, tx, history, races>>

-----------------------------------------------------------------------------
(* ApprovalService.rejectRequest, outside a transaction.                     *)

StartReject(s) ==
    /\ \E r \in Requests : StartReview(s, "reject", r)
    /\ Goto(s, "reject")
    /\ UNCHANGED <<credit, request, locks, tx, history, overlapped>>

Reject(s) ==
    LET r == job[s].r
    IN  /\ pc[s] = "reject"
        /\ Free(reqLock[r], s)
        /\ request' = [request EXCEPT ![r].status = "REJECTED"]
        /\ Finish(s)
        /\ UNCHANGED <<credit, history, races>>

-----------------------------------------------------------------------------
(* CustomersService.collectWholesalePayment.                                 *)

StartCollect(s) ==
    /\ pc[s] = "idle"
    /\ \E n \in Amounts :
        /\ n <= balance
        /\ job' = [job EXCEPT ![s] = [NoJob EXCEPT !.op = "collect", !.n = n]]
        /\ tx' = [tx EXCEPT ![s].seen = balance]
    /\ Goto(s, "pay")
    /\ overlapped' = (overlapped \/ OthersOn(s, {"collect", "approve"}))
    /\ UNCHANGED <<credit, request, locks, history, contested>>

PayDown(s) ==
    /\ pc[s] = "pay"
    /\ Free(custLock, s)
    /\ custLock' = s
    /\ tx' = [tx EXCEPT ![s].balance = tx[s].seen - job[s].n]
    /\ Goto(s, "list")
    /\ UNCHANGED <<credit, request, rowLock, reqLock, job, history, races>>

ListOpen(s) ==
    LET open == {i \in Sales : ~paid[i]}
    IN  /\ pc[s] = "list"
        /\ tx' = [tx EXCEPT ![s] = [@ EXCEPT
                     !.left = job[s].n,
                     !.open = open,
                     !.snap = [i \in Sales |-> IF i \in open THEN rem[i] ELSE 0]]]
        /\ Goto(s, "settle")
        /\ UNCHANGED <<credit, request, locks, job, history, races>>

\* What a row of which rem remains takes of what is left to allocate.
Share(left, due) == IF left >= due THEN due ELSE left

NextOpen(s, i) == i \in tx[s].open /\ \A j \in tx[s].open : i <= j

SettleNext(s) ==
    /\ pc[s] = "settle"
    /\ tx[s].left > 0
    /\ \E i \in Sales :
        /\ NextOpen(s, i)
        /\ Free(rowLock[i], s)
        /\ rowLock' = [rowLock EXCEPT ![i] = s]
        /\ LET due   == tx[s].snap[i]
               share == Share(tx[s].left, due)
           IN  tx' = [tx EXCEPT ![s] = [@ EXCEPT !.left     = tx[s].left - share,
                                                 !.open     = tx[s].open \ {i},
                                                 !.draft[i] = due - share,
                                                 !.share[i] = share]]
    /\ UNCHANGED <<credit, request, custLock, reqLock, pc, job, history, races>>

SettleDone(s) ==
    /\ pc[s] = "settle"
    /\ tx[s].left <= 0 \/ tx[s].open = {}
    /\ Goto(s, "commit")
    /\ UNCHANGED <<credit, request, locks, job, tx, history, races>>

-----------------------------------------------------------------------------
\* What both kinds of transaction have written becomes visible.
Install(s) ==
    /\ rem'     = [i \in Sales |-> IF rowLock[i] = s THEN tx[s].draft[i] ELSE rem[i]]
    /\ balance' = IF custLock = s THEN tx[s].balance ELSE balance

CommitCollect(s) ==
    /\ pc[s] = "commit" /\ job[s].op = "collect"
    /\ Install(s)
    /\ paid'    = [i \in Sales |-> IF rowLock[i] = s THEN tx[s].draft[i] = 0 ELSE paid[i]]
    /\ settled' = [i \in Sales |-> settled[i] + tx[s].share[i]]
    /\ Finish(s)
    /\ UNCHANGED <<request, amount, refunded, executed, races>>

CommitApprove(s) ==
    LET r == job[s].r
    IN  /\ pc[s] = "commit" /\ job[s].op = "approve"
        /\ Install(s)
        /\ request'  = [request EXCEPT ![r].status = "APPROVED"]
        /\ executed' = [executed EXCEPT ![r] = @ + 1]
        /\ refunded' = [refunded EXCEPT ![Sale(s)] = IF ReducesDebt(r) THEN @ + Debt(s) ELSE @]
        /\ Finish(s)
        /\ UNCHANGED <<paid, amount, settled, races>>

\* A statement that fails (the item is gone, stock is insufficient), a deadlock
\* (returns take a credit row before the profile, collections after it), the
\* transaction timeout, a lost connection, a crash: nothing was done.
Abort(s) ==
    /\ pc[s] # "idle"
    /\ Finish(s)
    /\ UNCHANGED <<credit, request, history, races>>

-----------------------------------------------------------------------------
Start(s)   == StartApprove(s) \/ StartReject(s) \/ StartCollect(s)
Approve(s) == ReduceRow(s) \/ ReduceBalance(s) \/ MarkApproved(s) \/ CommitApprove(s)
Collect(s) == PayDown(s) \/ ListOpen(s) \/ SettleNext(s) \/ SettleDone(s) \/ CommitCollect(s)
\* The next statement of the handler session s runs.
Continue(s) == Approve(s) \/ Reject(s) \/ Collect(s)

Next == \/ RequestReturn
        \/ PostRequest
        \/ \E s \in Sessions : Start(s) \/ Continue(s) \/ Abort(s)

Spec == Init /\ [][Next]_vars

-----------------------------------------------------------------------------
(* PROPERTIES *)

TypeOK ==
    /\ rem \in [Sales -> Int]
    /\ paid \in [Sales -> BOOLEAN]
    /\ balance \in Int
    /\ request \in [Requests -> RequestRow]
    /\ rowLock \in [Sales -> Sessions \cup {Nobody}]
    /\ custLock \in Sessions \cup {Nobody}
    /\ reqLock \in [Requests -> Sessions \cup {Nobody}]
    /\ pc \in [Sessions -> Steps]
    /\ job \in [Sessions -> Job]
    /\ tx \in [Sessions -> Tx]
    /\ amount \in [Sales -> Nat]
    /\ settled \in [Sales -> Int]
    /\ refunded \in [Sales -> Nat]
    /\ executed \in [Requests -> Nat]
    /\ contested \subseteq Requests
    /\ overlapped \in BOOLEAN

\* The row of a sale owes its credit less what collections allocated to it and
\* what executed returns took off it, in every interleaving: the collection
\* assigns a value computed from an earlier read, but no return can have
\* decremented the row in between without holding what the collection waits for.
RowAccounts == \A i \in Sales : rem[i] = amount[i] - settled[i] - refunded[i]

\* A request is executed when it is APPROVED and at no other time, once; reviews
\* of one request that overlap are left out (see ExecutedOnce).
ExecutedAsDecided ==
    \A r \in Requests :
        /\ request[r].status = "APPROVED" => executed[r] > 0
        /\ executed[r] > 0 => request[r].status \in Decisions
        /\ r \notin contested => executed[r] = IF request[r].status = "APPROVED" THEN 1 ELSE 0

\* A request is executed at most once and never after it was rejected: the second
\* review gets "Request is already processed" (approval.controller.ts:120, 149).
ExecutedOnce ==
    \A r \in Requests : executed[r] <= 1 /\ (request[r].status = "REJECTED" => executed[r] = 0)

\* The balance of the customer covers its credit rows as long as no collection
\* overlaps another change of money; returns may overlap each other.
BalanceCoversRows == ~overlapped => Owed <= balance

-----------------------------------------------------------------------------
(* The inductive invariant behind the three: where each lock is held, and   *)
(* what its holder is going to write.                                       *)

Approving(s)  == job[s].op = "approve"
Collecting(s) == job[s].op = "collect"

\* The job of a session fits its step, and a request under review exists.
JobsFit ==
    /\ \A r \in Requests : request[r].status # "NONE" => request[r].sale \in Sales
    /\ \A s \in Sessions :
        /\ pc[s] = "idle" => job[s] = NoJob /\ tx[s] = NoTx
        /\ pc[s] \in {"row", "profile", "mark"} => Approving(s)
        /\ pc[s] = "reject" => job[s].op = "reject"
        /\ pc[s] \in {"pay", "list", "settle"} => Collecting(s)
        /\ pc[s] = "commit" => Approving(s) \/ Collecting(s)
        /\ pc[s] \in {"row", "profile"} => ReducesDebt(job[s].r)
        /\ job[s].op \in {"approve", "reject"} =>
               job[s].r \in Requests /\ request[job[s].r].status # "NONE"

\* An approval that reduces a debt holds the row of its sale from its write on, and
\* then the profile; a collection holds the profile before any row.
LocksFit ==
    \A s \in Sessions :
        /\ \A i \in Sales : rowLock[i] = s =>
               \/ pc[s] \in {"profile", "mark", "commit"} /\ Approving(s)
                  /\ i = Sale(s) /\ ReducesDebt(job[s].r)
               \/ pc[s] \in {"settle", "commit"} /\ Collecting(s)
        /\ pc[s] \in {"profile", "mark", "commit"} /\ Approving(s) /\ ReducesDebt(job[s].r) =>
               rowLock[Sale(s)] = s
        /\ pc[s] \in {"mark", "commit"} /\ Approving(s) /\ ReducesDebt(job[s].r) => custLock = s
        /\ pc[s] \in {"list", "settle", "commit"} /\ Collecting(s) => custLock = s

\* What the holder of a row will install is the row less what it accounts for, and
\* what a collection has listed and not yet written is still there.
WritesAccounted ==
    \A s \in Sessions, i \in Sales :
        /\ rowLock[i] = s /\ Approving(s) => tx[s].draft[i] = rem[i] - Debt(s)
        /\ rowLock[i] = s /\ Collecting(s) => tx[s].draft[i] = rem[i] - tx[s].share[i]
        /\ rowLock[i] # s \/ ~Collecting(s) => tx[s].share[i] = 0
        /\ pc[s] = "settle" /\ i \in tx[s].open => tx[s].snap[i] = rem[i] /\ rowLock[i] # s

\* Two sessions that review one request contest it; otherwise it is still PENDING
\* for the one that does.
ReviewsFit ==
    \A s \in Sessions, r \in Requests : Reviewing(s, r) =>
        /\ \A t \in Sessions \ {s} : Reviewing(t, r) => r \in contested
        /\ r \notin contested => request[r].status = "PENDING"

\* Behind BalanceCoversRows.  A row that is PAID owes nothing, and whoever holds the
\* profile will take off the balance what it takes off the rows.
PaidRowsClear == \A i \in Sales : paid[i] => rem[i] <= 0

\* An approval takes the same debt off both; of a collection, what is not allocated
\* yet is left, and when something stays left no row owes anything any more.
MoneyFits ==
    \A s \in Sessions :
        /\ custLock = s => \/ pc[s] \in {"mark", "commit"} /\ Approving(s) /\ ReducesDebt(job[s].r)
                           \/ pc[s] \in {"list", "settle", "commit"} /\ Collecting(s)
        /\ custLock = s /\ Approving(s)  => tx[s].balance = balance - Debt(s)
        /\ custLock = s /\ Collecting(s) => tx[s].balance = tx[s].seen - job[s].n
        /\ Collecting(s) => job[s].n <= tx[s].seen
        /\ pc[s] \in {"settle", "commit"} /\ Collecting(s) =>
               /\ tx[s].left >= 0
               /\ tx[s].left + SumFunctionOnSet(tx[s].share, Sales) = job[s].n
               /\ tx[s].left > 0 =>
                      \A i \in Sales \ tx[s].open : rem[i] - tx[s].share[i] <= 0
        /\ pc[s] = "commit" /\ Collecting(s) => tx[s].left = 0 \/ tx[s].open = {}

\* As long as nothing has overlapped, a collection is alone with the money and the
\* balance it has read is still that.
CollectsAlone ==
    ~overlapped => \A s \in Sessions : Collecting(s) =>
        /\ tx[s].seen = balance
        /\ ~OthersOn(s, {"collect", "approve"})

IInv == /\ TypeOK
        /\ JobsFit
        /\ LocksFit
        /\ WritesAccounted
        /\ ReviewsFit
        /\ PaidRowsClear
        /\ MoneyFits
        /\ CollectsAlone
        /\ BalanceCoversRows
        /\ RowAccounts
        /\ ExecutedAsDecided
=============================================================================
