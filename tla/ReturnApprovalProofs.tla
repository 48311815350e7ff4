------------------------- MODULE ReturnApprovalProofs -------------------------
(* Proofs about ReturnApproval, for any sales, requests, sessions, amounts. *)
EXTENDS ReturnApproval, SumTheorems, TLAPS

LEMMA Numbers == \A n \in Amounts : n \in Nat /\ n > 0
  BY AmountsPositive

LEMMA DebtTyped ==
    ASSUME TypeOK, NEW i \in Sales, NEW total \in Amounts
    PROVE  DebtReduction(i, total) \in Int
<1>1. \A a, b \in Int : Min({a, b}) \in Int
  <2> SUFFICES ASSUME NEW a \in Int, NEW b \in Int PROVE Min({a, b}) \in Int
    OBVIOUS
  <2>1. \E x \in {a, b} : \A y \in {a, b} : x <= y
    OBVIOUS
  <2> QED BY <2>1 DEF Min
<1> QED BY <1>1, Numbers DEF DebtReduction, TypeOK

LEMMA NothingTyped == NoJob \in Job /\ NoTx \in Tx /\ NoRow \in RequestRow
  BY DEF NoJob, Job, NoTx, Tx, Zero, NoRow, RequestRow

\* The steps of session s that follow another statement, or end the request.
Drop(s) == Abort(s) \/ Reject(s)
Locking(s) == ReduceRow(s) \/ ReduceBalance(s) \/ MarkApproved(s) \/ PayDown(s) \/ SettleNext(s)
Moving(s)  == ListOpen(s) \/ SettleDone(s)
Commit(s)  == CommitCollect(s) \/ CommitApprove(s)
Step(s) == Start(s) \/ Locking(s) \/ Moving(s) \/ Commit(s) \/ Drop(s)

\* A request is created with some integer for the debt.
Asked ==
    /\ \E r \in Requests, i \in Sales, debt \in Int :
        /\ request[r].status = "NONE"
        /\ request' = [request EXCEPT ![r] = [status |-> "PENDING", sale |-> i, debt |-> debt]]
    /\ UNCHANGED <<credit, locks, pc, job, tx, history, races>>

LEMMA AskedCases == TypeOK /\ (RequestReturn \/ PostRequest) => Asked
<1> SUFFICES ASSUME TypeOK, RequestReturn \/ PostRequest PROVE Asked
  OBVIOUS
<1>1. \E i \in Sales, debt \in Int : CreateRequest(i, debt)
  <2>1. CASE RequestReturn
    <3>1. PICK i \in Sales : \E debt \in {DebtReduction(i, total) : total \in Amounts} \cup {0} :
                CreateRequest(i, debt)
      BY <2>1 DEF RequestReturn
    <3>2. \A debt \in {DebtReduction(i, total) : total \in Amounts} \cup {0} : debt \in Int
      BY DebtTyped
    <3> QED BY <3>1, <3>2
  <2>2. CASE PostRequest
    BY <2>2, ClaimsIntegers DEF PostRequest
  <2> QED BY <2>1, <2>2
<1> QED BY <1>1 DEF CreateRequest, Asked

LEMMA StepCases ==
    TypeOK /\ [Next]_vars => Asked \/ (\E s \in Sessions : Step(s)) \/ UNCHANGED vars
  BY AskedCases DEF Next, Continue, Approve, Collect, Step, Locking, Moving, Commit, Drop

\* Ending a request keeps the session variables typed.
LEMMA FinishTyped ==
    ASSUME TypeOK, NEW s \in Sessions, Finish(s)
    PROVE  /\ pc' \in [Sessions -> Steps] /\ job' \in [Sessions -> Job] /\ tx' \in [Sessions -> Tx]
           /\ rowLock' \in [Sales -> Sessions \cup {Nobody}]
           /\ custLock' \in Sessions \cup {Nobody}
           /\ reqLock' \in [Requests -> Sessions \cup {Nobody}]
  BY NothingTyped DEF TypeOK, Finish, Goto, Steps

\* Of the session s that moves on, the others notice nothing but its locks.
LEMMA OthersKept ==
    ASSUME TypeOK, NEW s \in Sessions, NEW t \in Sessions, t # s, Step(s)
    PROVE  /\ pc'[t] = pc[t] /\ job'[t] = job[t] /\ tx'[t] = tx[t]
           /\ \A i \in Sales : rowLock'[i] = t <=> rowLock[i] = t
           /\ custLock' = t <=> custLock = t
<1> USE DEF TypeOK, Free, Goto
<1>0. t # Nobody
  BY NobodyIsNew
<1>1. CASE Start(s)
  BY <1>1 DEF Start, StartApprove, StartReject, StartCollect, StartReview, locks
<1>2. CASE Locking(s)
  BY <1>0, <1>2 DEF Locking, ReduceRow, ReduceBalance, MarkApproved, PayDown, SettleNext
<1>3. CASE Moving(s)
  BY <1>3 DEF Moving, ListOpen, SettleDone, locks
<1>4. CASE Finish(s)
  BY <1>0, <1>4 DEF Finish
<1> QED BY <1>1, <1>2, <1>3, <1>4 DEF Step, Commit, CommitCollect, CommitApprove, Drop, Abort, Reject

\* A request that exists keeps its sale and its debt, and goes on existing.
LEMMA PayloadKept ==
    ASSUME TypeOK, JobsFit, [Next]_vars, NEW r \in Requests, request[r].status # "NONE"
    PROVE  /\ request'[r].sale = request[r].sale /\ request'[r].debt = request[r].debt
           /\ request'[r].status # "NONE"
<1>1. CASE Asked
  BY <1>1 DEF Asked, TypeOK
<1>2. ASSUME NEW s \in Sessions, CommitApprove(s) \/ Reject(s)
      PROVE  /\ request'[r].sale = request[r].sale /\ request'[r].debt = request[r].debt
             /\ request'[r].status # "NONE"
  BY <1>2 DEF CommitApprove, Reject, TypeOK, RequestRow
<1>3. ASSUME NEW s \in Sessions, Start(s) \/ Locking(s) \/ Moving(s) \/ CommitCollect(s) \/ Abort(s)
      PROVE  request' = request
  BY <1>3 DEF Start, StartApprove, StartReject, StartCollect, Locking, ReduceRow, ReduceBalance,
              MarkApproved, PayDown, SettleNext, Moving, ListOpen, SettleDone, CommitCollect, Abort
<1>4. CASE UNCHANGED vars
  BY <1>4 DEF vars
<1> QED BY <1>1, <1>2, <1>3, <1>4, StepCases DEF Step, Commit, Drop

\* Only the commit of the holder of a row changes what the row owes.
LEMMA RowsKept ==
    ASSUME TypeOK, NEW s \in Sessions, Step(s), NEW i \in Sales
    PROVE  \/ rem'[i] = rem[i]
           \/ Commit(s) /\ rowLock[i] = s /\ rem'[i] = tx[s].draft[i]
<1>1. CASE Commit(s)
  BY <1>1 DEF Commit, CommitCollect, CommitApprove, Install, TypeOK
<1>2. CASE ~Commit(s)
  BY <1>2 DEF Step, Start, StartApprove, StartReject, StartCollect, Locking, ReduceRow,
              ReduceBalance, MarkApproved, PayDown, SettleNext, Moving, ListOpen, SettleDone,
              Drop, Reject, Abort, credit
<1> QED BY <1>1, <1>2

\* What is owed is an integer.
LEMMA RowsAddUp == TypeOK => Owed \in Int
BY SalesFinite, SumIsInt DEF TypeOK, Owed

-----------------------------------------------------------------------------
LEMMA InitIInv == Init => IInv
<1> SUFFICES ASSUME Init PROVE IInv
  OBVIOUS
<1>1. TypeOK
  <2>1. rem \in [Sales -> Int] /\ amount \in [Sales -> Nat] /\ balance \in Int
    BY Numbers, DebtsNatural DEF Init
  <2>2. settled \in [Sales -> Int] /\ refunded \in [Sales -> Nat]
    BY DEF Init, Zero
  <2> QED BY <2>1, <2>2, NothingTyped DEF Init, TypeOK, Steps
<1>2. JobsFit /\ LocksFit /\ ReviewsFit
  BY NobodyIsNew DEF Init, JobsFit, LocksFit, ReviewsFit, NoRow, NoJob, Reviewing, Approving, Collecting
<1>3. WritesAccounted
  BY NobodyIsNew DEF Init, WritesAccounted, NoTx, Zero, NoJob, Collecting
<1>4. RowAccounts
  BY <1>1 DEF Init, RowAccounts, Zero, TypeOK
<1>5. ExecutedAsDecided
  BY DEF Init, ExecutedAsDecided, NoRow, Decisions
<1>6. PaidRowsClear /\ MoneyFits /\ CollectsAlone
  BY NobodyIsNew DEF Init, PaidRowsClear, MoneyFits, CollectsAlone, NoJob, Approving, Collecting
<1>7. BalanceCoversRows
  BY <1>1, RowsAddUp DEF Init, BalanceCoversRows, TypeOK
<1> QED BY <1>1, <1>2, <1>3, <1>4, <1>5, <1>6, <1>7 DEF IInv

LEMMA TypeStep == TypeOK /\ JobsFit /\ [Next]_vars => TypeOK'
<1> SUFFICES ASSUME TypeOK, JobsFit, [Next]_vars PROVE TypeOK'
  OBVIOUS
<1>1. CASE Asked
  <2>1. PICK r \in Requests, i \in Sales, debt \in Int :
            request' = [request EXCEPT ![r] = [status |-> "PENDING", sale |-> i, debt |-> debt]]
    BY <1>1 DEF Asked
  <2>2. request' \in [Requests -> RequestRow]
    BY <2>1 DEF TypeOK, RequestRow
  <2> QED BY <1>1, <2>2 DEF TypeOK, Asked, credit, locks, history, races
<1>2. ASSUME NEW s \in Sessions, StartApprove(s) \/ StartReject(s) PROVE TypeOK'
  <2>1. PICK r \in Requests, op \in {"approve", "reject"} : StartReview(s, op, r)
    BY <1>2 DEF StartApprove, StartReject
  <2>2. job' \in [Sessions -> Job] /\ contested' \subseteq Requests
    BY <2>1 DEF TypeOK, StartReview, Job, NoJob
  <2>3. pc' \in [Sessions -> Steps] /\ overlapped' \in BOOLEAN
    BY <1>2 DEF TypeOK, StartApprove, StartReject, Goto, Steps
  <2> QED BY <1>2, <2>2, <2>3 DEF TypeOK, StartApprove, StartReject, credit, locks, history
<1>3. ASSUME NEW s \in Sessions, StartCollect(s) PROVE TypeOK'
  <2>1. PICK n \in Nat : job' = [job EXCEPT ![s] = [NoJob EXCEPT !.op = "collect", !.n = n]]
    BY <1>3, Numbers DEF StartCollect
  <2>2. job' \in [Sessions -> Job]
    BY <2>1 DEF TypeOK, Job, NoJob
  <2>3. tx' \in [Sessions -> Tx]
    <3>1. [tx[s] EXCEPT !.seen = balance] \in Tx
      BY DEF TypeOK, Tx
    <3> QED BY <1>3, <3>1 DEF TypeOK, StartCollect
  <2>4. pc' \in [Sessions -> Steps] /\ overlapped' \in BOOLEAN
    BY <1>3 DEF TypeOK, StartCollect, Goto, Steps
  <2> QED BY <1>3, <2>2, <2>3, <2>4 DEF TypeOK, StartCollect, credit, locks, history
<1>4. ASSUME NEW s \in Sessions, ReduceRow(s) PROVE TypeOK'
  <2>1. Approving(s) /\ job[s].r \in Requests /\ Sale(s) \in Sales /\ Debt(s) \in Int
    BY <1>4 DEF ReduceRow, JobsFit, Approving, Sale, Debt, TypeOK, RequestRow
  <2>2. tx' \in [Sessions -> Tx]
    <3>1. Reducible(Sale(s)) - Debt(s) \in Int
      BY <2>1 DEF Reducible, TypeOK
    <3>2. [tx[s] EXCEPT !.draft[Sale(s)] = Reducible(Sale(s)) - Debt(s)] \in Tx
      BY <2>1, <3>1 DEF TypeOK, Tx
    <3> QED BY <1>4, <3>2 DEF ReduceRow, TypeOK
  <2> QED BY <1>4, <2>1, <2>2 DEF ReduceRow, TypeOK, Goto, Steps, credit, history, races
<1>5. ASSUME NEW s \in Sessions, ReduceBalance(s) PROVE TypeOK'
  <2>1. Debt(s) \in Int
    BY <1>5 DEF ReduceBalance, JobsFit, Approving, Debt, TypeOK, RequestRow
  <2>2. tx' \in [Sessions -> Tx]
    <3>1. [tx[s] EXCEPT !.balance = Reduced(s)] \in Tx
      <4>1. Reduced(s) \in Int
        BY <2>1 DEF TypeOK, Reduced
      <4> QED BY <4>1 DEF TypeOK, Tx
    <3> QED BY <1>5, <3>1 DEF ReduceBalance, TypeOK
  <2> QED BY <1>5, <2>2 DEF ReduceBalance, TypeOK, Goto, Steps, credit, history, races
<1>6. ASSUME NEW s \in Sessions, MarkApproved(s) PROVE TypeOK'
  BY <1>6 DEF MarkApproved, TypeOK, Goto, Steps, credit, history, races
<1>7. ASSUME NEW s \in Sessions, PayDown(s) PROVE TypeOK'
  <2>1. tx' \in [Sessions -> Tx]
    <3>1. [tx[s] EXCEPT !.balance = tx[s].seen - job[s].n] \in Tx
      <4>1. tx[s].seen - job[s].n \in Int
        BY DEF TypeOK, Tx, Job
      <4> QED BY <4>1 DEF TypeOK, Tx
    <3> QED BY <1>7, <3>1 DEF PayDown, TypeOK
  <2> QED BY <1>7, <2>1 DEF PayDown, TypeOK, Goto, Steps, credit, history, races
<1>8. ASSUME NEW s \in Sessions, ListOpen(s) PROVE TypeOK'
  <2>1. tx' \in [Sessions -> Tx]
    <3> DEFINE open == {i \in Sales : ~paid[i]}
               snap == [i \in Sales |-> IF i \in open THEN rem[i] ELSE 0]
    <3>1. snap \in [Sales -> Int] /\ open \in SUBSET Sales /\ job[s].n \in Int
      BY DEF TypeOK, Job
    <3> HIDE DEF open, snap
    <3>2. [tx[s] EXCEPT !.left = job[s].n, !.open = open, !.snap = snap] \in Tx
      BY <3>1 DEF TypeOK, Tx
    <3> QED BY <1>8, <3>2 DEF ListOpen, TypeOK, open, snap
  <2> QED BY <1>8, <2>1 DEF ListOpen, TypeOK, Goto, Steps, credit, locks, history, races
<1>9. ASSUME NEW s \in Sessions, SettleNext(s) PROVE TypeOK'
  <2>1. tx' \in [Sessions -> Tx]
    <3>1. PICK i \in Sales :
             LET due   == tx[s].snap[i]
                 share == Share(tx[s].left, due)
             IN  tx' = [tx EXCEPT ![s] = [@ EXCEPT !.left     = tx[s].left - share,
                                                   !.open     = tx[s].open \ {i},
                                                   !.draft[i] = due - share,
                                                   !.share[i] = share]]
      BY <1>9 DEF SettleNext
    <3> DEFINE due   == tx[s].snap[i]
               share == Share(tx[s].left, due)
               new == [tx[s] EXCEPT !.left     = tx[s].left - share,
                                    !.open     = tx[s].open \ {i},
                                    !.draft[i] = due - share,
                                    !.share[i] = share]
    <3>2. share \in Int /\ due \in Int /\ due - share \in Int /\ tx[s].left - share \in Int
      BY DEF TypeOK, Tx, Share
    <3>3. tx' = [tx EXCEPT ![s] = new]
      BY <3>1
    <3> HIDE DEF due, share
    <3>4. new \in Tx
      BY <3>2 DEF TypeOK, Tx
    <3> QED BY <3>3, <3>4 DEF TypeOK
  <2> QED BY <1>9, <2>1 DEF SettleNext, TypeOK, credit, history, races
<1>10. ASSUME NEW s \in Sessions, SettleDone(s) PROVE TypeOK'
  BY <1>10 DEF SettleDone, TypeOK, Goto, Steps, credit, locks, history, races
<1>11. ASSUME NEW s \in Sessions, Commit(s) PROVE rem' \in [Sales -> Int] /\ balance' \in Int
  BY <1>11 DEF Commit, CommitCollect, CommitApprove, Install, TypeOK, Tx
<1>12. ASSUME NEW s \in Sessions, CommitCollect(s) PROVE TypeOK'
  <2>1. paid' \in [Sales -> BOOLEAN] /\ settled' \in [Sales -> Int]
    <3>1. \A i \in Sales : tx[s].share[i] \in Int
      BY DEF TypeOK, Tx
    <3>2. \A i \in Sales : settled[i] + tx[s].share[i] \in Int
      BY <3>1 DEF TypeOK
    <3>3. \A i \in Sales : (IF rowLock[i] = s THEN tx[s].draft[i] = 0 ELSE paid[i]) \in BOOLEAN
      BY DEF TypeOK
    <3> QED BY <1>12, <3>2, <3>3 DEF CommitCollect
  <2> QED BY <1>11, <1>12, <2>1, FinishTyped DEF CommitCollect, Commit, TypeOK, races
<1>13. ASSUME NEW s \in Sessions, CommitApprove(s) PROVE TypeOK'
  <2>1. job[s].r \in Requests /\ Sale(s) \in Sales /\ Debt(s) \in Int
    BY <1>13 DEF CommitApprove, JobsFit, Sale, Debt, TypeOK, RequestRow
  <2>2. request' \in [Requests -> RequestRow] /\ executed' \in [Requests -> Nat]
    BY <1>13, <2>1 DEF CommitApprove, TypeOK, RequestRow, Decisions
  <2>3. refunded' \in [Sales -> Nat]
    BY <1>13, <2>1 DEF CommitApprove, TypeOK, ReducesDebt, Debt
  <2> QED BY <1>11, <1>13, <2>2, <2>3, FinishTyped DEF CommitApprove, Commit, TypeOK, races
<1>14. ASSUME NEW s \in Sessions, Reject(s) PROVE TypeOK'
  <2>1. request' \in [Requests -> RequestRow]
    BY <1>14 DEF Reject, TypeOK, RequestRow, Decisions
  <2> QED BY <1>14, <2>1, FinishTyped DEF Reject, TypeOK, credit, history, races
<1>15. ASSUME NEW s \in Sessions, Abort(s) PROVE TypeOK'
  BY <1>15, FinishTyped DEF Abort, TypeOK, credit, history, races
<1>16. CASE UNCHANGED vars
  BY <1>16 DEF TypeOK, vars, credit, locks, history, races
<1> QED BY <1>1, <1>2, <1>3, <1>4, <1>5, <1>6, <1>7, <1>8, <1>9, <1>10, <1>12, <1>13, <1>14,
           <1>15, <1>16, StepCases DEF Step, Start, Locking, Moving, Commit, Drop

-----------------------------------------------------------------------------
\* What a session under review refers to stays what it is in a step of anyone.
LEMMA JobKept ==
    ASSUME TypeOK, JobsFit, [Next]_vars, NEW t \in Sessions, job'[t] = job[t],
           job[t].op \in {"approve", "reject"}
    PROVE  /\ job[t].r \in Requests /\ request[job[t].r].status # "NONE"
           /\ request'[job[t].r].status # "NONE"
           /\ Sale(t)' = Sale(t) /\ Debt(t)' = Debt(t) /\ Sale(t) \in Sales
           /\ ReducesDebt(job[t].r)' <=> ReducesDebt(job[t].r)
<1>1. job[t].r \in Requests /\ request[job[t].r].status # "NONE"
  BY DEF JobsFit
<1>2. /\ request'[job[t].r].sale = request[job[t].r].sale
      /\ request'[job[t].r].debt = request[job[t].r].debt
      /\ request'[job[t].r].status # "NONE"
  BY <1>1, PayloadKept
<1>3. request[job[t].r].sale \in Sales
  BY <1>1 DEF JobsFit
<1> QED BY <1>1, <1>2, <1>3 DEF Sale, Debt, ReducesDebt

\* The clauses of JobsFit about one session.
JobFits(s) ==
    /\ pc[s] = "idle" => job[s] = NoJob /\ tx[s] = NoTx
    /\ pc[s] \in {"row", "profile", "mark"} => Approving(s)
    /\ pc[s] = "reject" => job[s].op = "reject"
    /\ pc[s] \in {"pay", "list", "settle"} => Collecting(s)
    /\ pc[s] = "commit" => Approving(s) \/ Collecting(s)
    /\ pc[s] \in {"row", "profile"} => ReducesDebt(job[s].r)
    /\ job[s].op \in {"approve", "reject"} =>
           job[s].r \in Requests /\ request[job[s].r].status # "NONE"

LEMMA JobsStep == TypeOK /\ JobsFit /\ [Next]_vars => JobsFit'
<1> SUFFICES ASSUME TypeOK, JobsFit, [Next]_vars PROVE JobsFit'
  OBVIOUS
<1>a. \A t \in Sessions : JobFits(t)
  BY DEF JobsFit, JobFits
<1>1. ASSUME NEW r \in Requests, request'[r].status # "NONE" PROVE request'[r].sale \in Sales
  <2>1. CASE request[r].status # "NONE"
    BY <2>1, PayloadKept DEF JobsFit
  <2>2. CASE Asked
    <3>1. PICK q \in Requests, i \in Sales, debt \in Int :
             request' = [request EXCEPT ![q] = [status |-> "PENDING", sale |-> i, debt |-> debt]]
      BY <2>2 DEF Asked
    <3> QED BY <1>1, <3>1 DEF TypeOK, JobsFit
  <2>3. ASSUME NEW s \in Sessions, Step(s), request[r].status = "NONE" PROVE FALSE
    <3>1. CASE Commit(s) \/ Drop(s)
      BY <1>1, <1>a, <2>3, <3>1 DEF Commit, CommitCollect, CommitApprove, Drop, Reject, Abort, TypeOK,
                             JobFits, Approving
    <3>2. CASE Start(s) \/ Locking(s) \/ Moving(s)
      BY <1>1, <2>3, <3>2 DEF Start, StartApprove, StartReject, StartCollect, Locking, ReduceRow,
              ReduceBalance, MarkApproved, PayDown, SettleNext, Moving, ListOpen, SettleDone
    <3> QED BY <2>3, <3>1, <3>2 DEF Step
  <2>4. CASE UNCHANGED vars
    BY <1>1, <2>4 DEF vars, JobsFit
  <2> QED BY <2>1, <2>2, <2>3, <2>4, StepCases
<1>2. ASSUME NEW t \in Sessions, pc'[t] = pc[t], job'[t] = job[t], tx'[t] = tx[t]
      PROVE  JobFits(t)'
  BY <1>a, <1>2, JobKept DEF JobFits, Approving, Collecting
<1>3. ASSUME NEW s \in Sessions, Step(s) PROVE JobFits(s)'
  <2>1. CASE StartApprove(s)
    <3>1. PICK r \in Requests :
            /\ StartReview(s, "approve", r)
            /\ Goto(s, IF ReducesDebt(r) THEN "row" ELSE "mark")
      BY <2>1 DEF StartApprove
    <3>2. /\ job'[s].op = "approve" /\ job'[s].r = r /\ request[r].status = "PENDING"
          /\ pc'[s] = (IF ReducesDebt(r) THEN "row" ELSE "mark") /\ request' = request
      BY <2>1, <3>1 DEF StartReview, StartApprove, Goto, NoJob, TypeOK, Reviewable
    <3> QED BY <3>2 DEF JobFits, Approving, Collecting, ReducesDebt
  <2>2. CASE StartReject(s)
    <3>1. PICK r \in Requests : StartReview(s, "reject", r) /\ Goto(s, "reject")
      BY <2>2 DEF StartReject
    <3>2. /\ job'[s].op = "reject" /\ job'[s].r = r /\ request[r].status = "PENDING"
          /\ pc'[s] = "reject" /\ request' = request
      BY <2>2, <3>1 DEF StartReview, StartReject, Goto, NoJob, TypeOK, Reviewable
    <3> QED BY <3>2 DEF JobFits
  <2>3. CASE StartCollect(s)
    <3>1. PICK n : job' = [job EXCEPT ![s] = [NoJob EXCEPT !.op = "collect", !.n = n]]
      BY <2>3 DEF StartCollect
    <3>2. pc'[s] = "pay" /\ job'[s].op = "collect"
      BY <2>3, <3>1 DEF StartCollect, Goto, NoJob, TypeOK
    <3> QED BY <3>2 DEF JobFits, Collecting
  <2>4. CASE Locking(s) \/ Moving(s)
    <3>1. job'[s] = job[s] /\ request' = request
      BY <2>4 DEF Locking, ReduceRow, ReduceBalance, MarkApproved, PayDown, SettleNext, Moving,
                  ListOpen, SettleDone
    <3>2. \/ pc[s] = "row" /\ pc'[s] = "profile"
          \/ pc[s] = "profile" /\ pc'[s] = "mark"
          \/ pc[s] = "mark" /\ pc'[s] = "commit"
          \/ pc[s] = "pay" /\ pc'[s] = "list"
          \/ pc[s] = "list" /\ pc'[s] = "settle"
          \/ pc[s] = "settle" /\ pc'[s] \in {"settle", "commit"}
      BY <2>4 DEF Locking, ReduceRow, ReduceBalance, MarkApproved, PayDown, SettleNext, Moving,
                  ListOpen, SettleDone, Goto, TypeOK
    <3> QED BY <1>a, <3>1, <3>2 DEF JobFits, Approving, Collecting, ReducesDebt
  <2>5. CASE Commit(s) \/ Drop(s)
    <3>1. pc'[s] = "idle" /\ job'[s] = NoJob /\ tx'[s] = NoTx
      BY <2>5 DEF Commit, CommitCollect, CommitApprove, Drop, Reject, Abort, Finish, Goto, TypeOK
    <3> QED BY <3>1 DEF JobFits, NoJob
  <2> QED BY <1>3, <2>1, <2>2, <2>3, <2>4, <2>5 DEF Step, Start
<1>4. ASSUME NEW t \in Sessions PROVE JobFits(t)'
  <2>1. CASE Asked \/ UNCHANGED vars
    BY <1>2, <2>1 DEF Asked, vars
  <2>2. ASSUME NEW s \in Sessions, Step(s) PROVE JobFits(t)'
    BY <1>2, <1>3, <2>2, OthersKept
  <2> QED BY <2>1, <2>2, StepCases
<1> QED BY <1>1, <1>4 DEF JobsFit, JobFits

-----------------------------------------------------------------------------
\* The clauses of LocksFit about one session.
LockFits(s) ==
    /\ \A i \in Sales : rowLock[i] = s =>
           \/ pc[s] \in {"profile", "mark", "commit"} /\ Approving(s)
              /\ i = Sale(s) /\ ReducesDebt(job[s].r)
           \/ pc[s] \in {"settle", "commit"} /\ Collecting(s)
    /\ pc[s] \in {"profile", "mark", "commit"} /\ Approving(s) /\ ReducesDebt(job[s].r) =>
           rowLock[Sale(s)] = s
    /\ pc[s] \in {"mark", "commit"} /\ Approving(s) /\ ReducesDebt(job[s].r) => custLock = s
    /\ pc[s] \in {"list", "settle", "commit"} /\ Collecting(s) => custLock = s

\* How a statement that is no start and no end moves the session and its locks.
LEMMA MoveCases ==
    ASSUME TypeOK, NEW s \in Sessions, Locking(s) \/ Moving(s)
    PROVE  /\ job' = job /\ request' = request /\ UNCHANGED <<credit, history, races>>
           /\ \/ /\ pc[s] = "row" /\ pc'[s] = "profile"
                 /\ rowLock' = [rowLock EXCEPT ![Sale(s)] = s] /\ custLock' = custLock
                 /\ tx' = [tx EXCEPT ![s].draft[Sale(s)] = rem[Sale(s)] - Debt(s)]
              \/ /\ pc[s] = "profile" /\ pc'[s] = "mark" /\ custLock' = s /\ rowLock' = rowLock
                 /\ tx' = [tx EXCEPT ![s].balance = balance - Debt(s)]
              \/ pc[s] = "mark" /\ pc'[s] = "commit" /\ UNCHANGED <<custLock, rowLock, tx>>
              \/ /\ pc[s] = "pay" /\ pc'[s] = "list" /\ custLock' = s /\ rowLock' = rowLock
                 /\ tx' = [tx EXCEPT ![s].balance = tx[s].seen - job[s].n]
              \/ pc[s] = "list" /\ pc'[s] = "settle" /\ UNCHANGED <<custLock, rowLock>> /\ ListOpen(s)
              \/ pc[s] = "settle" /\ pc'[s] = "settle" /\ custLock' = custLock /\ SettleNext(s)
              \/ pc[s] = "settle" /\ pc'[s] = "commit" /\ UNCHANGED <<custLock, rowLock, tx>>
<1> USE DEF TypeOK, Goto
<1>1. CASE ReduceRow(s)
  BY <1>1 DEF ReduceRow, Reducible
<1>2. CASE ReduceBalance(s)
  BY <1>2 DEF ReduceBalance, Reduced
<1>3. CASE MarkApproved(s)
  BY <1>3 DEF MarkApproved
<1>4. CASE PayDown(s)
  BY <1>4 DEF PayDown
<1>5. CASE ListOpen(s)
  BY <1>5 DEF ListOpen, locks
<1>6. CASE SettleNext(s)
  BY <1>6 DEF SettleNext
<1>7. CASE SettleDone(s)
  BY <1>7 DEF SettleDone, locks
<1> QED BY <1>1, <1>2, <1>3, <1>4, <1>5, <1>6, <1>7 DEF Locking, Moving

LEMMA LocksStep == TypeOK /\ JobsFit /\ LocksFit /\ [Next]_vars => LocksFit'
<1> SUFFICES ASSUME TypeOK, JobsFit, LocksFit, [Next]_vars PROVE LocksFit'
  OBVIOUS
<1>a. \A t \in Sessions : LockFits(t) /\ JobFits(t)
  BY DEF LocksFit, LockFits, JobsFit, JobFits
<1>1. ASSUME NEW t \in Sessions, pc'[t] = pc[t], job'[t] = job[t],
             \A i \in Sales : rowLock'[i] = t <=> rowLock[i] = t, custLock' = t <=> custLock = t
      PROVE  LockFits(t)'
  <2>1. CASE Approving(t)
    <3>1. /\ Sale(t)' = Sale(t) /\ Sale(t) \in Sales
          /\ ReducesDebt(job[t].r)' <=> ReducesDebt(job[t].r)
      BY <1>1, <2>1, JobKept DEF Approving
    <3>2. Approving(t)' /\ ~Collecting(t)'
      BY <1>1, <2>1 DEF Approving, Collecting
    <3>3. LockFits(t)
      BY <1>a
    <3>4. \A i \in Sales : rowLock'[i] = t =>
             /\ pc'[t] \in {"profile", "mark", "commit"}
             /\ i = Sale(t)' /\ ReducesDebt(job[t].r)'
      BY <1>1, <2>1, <3>1, <3>3 DEF LockFits, Approving, Collecting
    <3>5. pc'[t] \in {"profile", "mark", "commit"} /\ ReducesDebt(job[t].r)' => (rowLock[Sale(t)] = t)'
      BY <1>1, <2>1, <3>1, <3>3 DEF LockFits
    <3>6. pc'[t] \in {"mark", "commit"} /\ ReducesDebt(job[t].r)' => custLock' = t
      BY <1>1, <2>1, <3>1, <3>3 DEF LockFits
    <3> QED BY <3>2, <3>4, <3>5, <3>6 DEF LockFits
  <2>2. CASE ~Approving(t)
    BY <1>a, <1>1, <2>2 DEF LockFits, Approving, Collecting
  <2> QED BY <2>1, <2>2
<1>2. ASSUME NEW s \in Sessions, Step(s) PROVE LockFits(s)'
  <2>1. CASE Start(s)
    <3>1. UNCHANGED <<rowLock, custLock>> /\ pc[s] = "idle" /\ pc'[s] \in {"row", "mark", "reject", "pay"}
      BY <2>1 DEF Start, StartApprove, StartReject, StartCollect, StartReview, Goto, TypeOK, locks
    <3>2. pc'[s] = "mark" => ~ReducesDebt(job[s].r)'
      <4>1. CASE StartApprove(s)
        <5>1. PICK r \in Requests : StartReview(s, "approve", r)
                                    /\ Goto(s, IF ReducesDebt(r) THEN "row" ELSE "mark")
          BY <4>1 DEF StartApprove
        <5>2. job'[s].r = r /\ request' = request /\ (pc'[s] = "mark" => ~ReducesDebt(r))
          BY <4>1, <5>1 DEF StartApprove, StartReview, Goto, TypeOK, NoJob
        <5> QED BY <5>2 DEF ReducesDebt
      <4>2. CASE StartReject(s) \/ StartCollect(s)
        BY <4>2 DEF StartReject, StartCollect, Goto, TypeOK
      <4> QED BY <2>1, <4>1, <4>2 DEF Start
    <3>3. \A i \in Sales : rowLock[i] # s
      BY <1>a, <3>1 DEF LockFits
    <3> QED BY <3>1, <3>2, <3>3 DEF LockFits
  <2>2. CASE Locking(s) \/ Moving(s)
    <3>1. /\ job' = job /\ request' = request
          /\ Sale(s)' = Sale(s) /\ (Approving(s)' <=> Approving(s)) /\ (Collecting(s)' <=> Collecting(s))
          /\ ReducesDebt(job[s].r)' <=> ReducesDebt(job[s].r)
      BY <2>2, MoveCases DEF Sale, Approving, Collecting, ReducesDebt
    <3>2. Approving(s) => Sale(s) \in Sales
      BY <1>a DEF JobFits, JobsFit, Approving, Sale
    <3>3. CASE SettleNext(s)
      <4>1. \A i \in Sales : rowLock'[i] = s \/ rowLock'[i] = rowLock[i]
        BY <3>3 DEF SettleNext, TypeOK
      <4>2. pc[s] = "settle" /\ pc'[s] = "settle" /\ custLock' = custLock
        BY <3>3 DEF SettleNext
      <4> QED BY <1>a, <3>1, <4>1, <4>2 DEF LockFits, JobFits, Approving, Collecting
    <3>4. CASE ~SettleNext(s)
      BY <1>a, <2>2, <3>1, <3>2, <3>4, MoveCases DEF LockFits, JobFits, Approving, Collecting, TypeOK
    <3> QED BY <3>3, <3>4
  <2>3. CASE Commit(s) \/ Drop(s)
    <3>1. pc'[s] = "idle" /\ \A i \in Sales : rowLock'[i] # s
      BY <2>3, NobodyIsNew DEF Commit, CommitCollect, CommitApprove, Drop, Reject, Abort, Finish,
                               Goto, TypeOK
    <3> QED BY <3>1 DEF LockFits
  <2> QED BY <1>2, <2>1, <2>2, <2>3 DEF Step
<1>3. ASSUME NEW t \in Sessions PROVE LockFits(t)'
  <2>1. CASE Asked \/ UNCHANGED vars
    BY <1>1, <2>1 DEF Asked, vars, locks
  <2>2. ASSUME NEW s \in Sessions, Step(s) PROVE LockFits(t)'
    BY <1>1, <1>2, <2>2, OthersKept
  <2> QED BY <2>1, <2>2, StepCases
<1> QED BY <1>3 DEF LocksFit, LockFits

-----------------------------------------------------------------------------
\* The clauses of WritesAccounted about one session.
WriteFits(s) ==
    \A i \in Sales :
        /\ rowLock[i] = s /\ Approving(s) => tx[s].draft[i] = rem[i] - Debt(s)
        /\ rowLock[i] = s /\ Collecting(s) => tx[s].draft[i] = rem[i] - tx[s].share[i]
        /\ rowLock[i] # s \/ ~Collecting(s) => tx[s].share[i] = 0
        /\ pc[s] = "settle" /\ i \in tx[s].open => tx[s].snap[i] = rem[i] /\ rowLock[i] # s

\* A row changes under a session only while another one holds both the row and the
\* profile.
LEMMA ChangeNeedsProfile ==
    ASSUME TypeOK, JobsFit, LocksFit, NEW s \in Sessions, Step(s), NEW i \in Sales,
           rem'[i] # rem[i]
    PROVE  rowLock[i] = s /\ custLock = s
<1>1. Commit(s) /\ rowLock[i] = s
  BY RowsKept
<1>2. pc[s] = "commit"
  BY <1>1 DEF Commit, CommitCollect, CommitApprove
<1> QED BY <1>1, <1>2 DEF LocksFit

LEMMA WritesStep ==
    TypeOK /\ JobsFit /\ LocksFit /\ WritesAccounted /\ [Next]_vars => WritesAccounted'
<1> SUFFICES ASSUME TypeOK, JobsFit, LocksFit, WritesAccounted, [Next]_vars PROVE WritesAccounted'
  OBVIOUS
<1>a. \A t \in Sessions : WriteFits(t) /\ LockFits(t) /\ JobFits(t)
  BY DEF WritesAccounted, WriteFits, LocksFit, LockFits, JobsFit, JobFits
<1>1. ASSUME NEW t \in Sessions, pc'[t] = pc[t], job'[t] = job[t], tx'[t] = tx[t],
             \A i \in Sales : rowLock'[i] = t <=> rowLock[i] = t,
             \A i \in Sales : rowLock[i] = t => rem'[i] = rem[i],
             \A i \in Sales : custLock = t => rem'[i] = rem[i]
      PROVE  WriteFits(t)'
  <2>1. WriteFits(t) /\ LockFits(t) /\ JobFits(t)
    BY <1>a
  <2>2. (Approving(t)' <=> Approving(t)) /\ (Collecting(t)' <=> Collecting(t))
    BY <1>1 DEF Approving, Collecting
  <2>3. Approving(t) => Debt(t)' = Debt(t)
    BY <1>1, JobKept DEF Approving
  <2>4. pc[t] = "settle" => custLock = t
    BY <2>1 DEF LockFits, JobFits
  <2> SUFFICES ASSUME NEW i \in Sales
               PROVE  /\ rowLock'[i] = t /\ Approving(t)' => tx'[t].draft[i] = rem'[i] - Debt(t)'
                      /\ rowLock'[i] = t /\ Collecting(t)' => tx'[t].draft[i] = rem'[i] - tx'[t].share[i]
                      /\ rowLock'[i] # t \/ ~Collecting(t)' => tx'[t].share[i] = 0
                      /\ pc'[t] = "settle" /\ i \in tx'[t].open =>
                             tx'[t].snap[i] = rem'[i] /\ rowLock'[i] # t
    BY DEF WriteFits
  <2>5. /\ rowLock[i] = t /\ Approving(t) => tx[t].draft[i] = rem[i] - Debt(t)
        /\ rowLock[i] = t /\ Collecting(t) => tx[t].draft[i] = rem[i] - tx[t].share[i]
        /\ rowLock[i] # t \/ ~Collecting(t) => tx[t].share[i] = 0
        /\ pc[t] = "settle" /\ i \in tx[t].open => tx[t].snap[i] = rem[i] /\ rowLock[i] # t
    BY <2>1 DEF WriteFits
  <2> QED BY <1>1, <2>2, <2>3, <2>4, <2>5
<1>2. ASSUME NEW s \in Sessions, Step(s) PROVE WriteFits(s)'
  <2>0. WriteFits(s) /\ LockFits(s) /\ JobFits(s)
    BY <1>a
  <2>1. CASE Start(s)
    <3>1. /\ pc[s] = "idle" /\ pc'[s] \in {"row", "mark", "reject", "pay"} /\ rowLock' = rowLock
          /\ tx'[s].share = tx[s].share
      <4>1. tx'[s].share = tx[s].share
        BY <2>1 DEF Start, StartApprove, StartReject, StartCollect, TypeOK, Tx
      <4> QED BY <2>1, <4>1 DEF Start, StartApprove, StartReject, StartCollect, StartReview, Goto, TypeOK, locks
    <3>2. \A i \in Sales : rowLock[i] # s /\ tx[s].share[i] = 0
      BY <2>0, <3>1 DEF LockFits, JobFits, NoTx, Zero
    <3> QED BY <3>1, <3>2 DEF WriteFits
  <2>2. CASE ReduceRow(s)
    <3> DEFINE k == Sale(s)
    <3>1. /\ pc[s] = "row" /\ pc'[s] = "profile" /\ rowLock' = [rowLock EXCEPT ![k] = s]
          /\ tx' = [tx EXCEPT ![s].draft[k] = rem[k] - Debt(s)]
          /\ rem' = rem /\ job' = job /\ request' = request
      BY <2>2 DEF ReduceRow, Reducible, credit, Goto, TypeOK
    <3>2. Approving(s) /\ ~Collecting(s) /\ k \in Sales
      BY <2>0, <3>1 DEF JobFits, JobsFit, Approving, Collecting, Sale
    <3>3. \A i \in Sales : rowLock[i] # s /\ tx[s].share[i] = 0
      BY <2>0, <3>1, <3>2 DEF LockFits, WriteFits
    <3>4. ~Collecting(s)' /\ Debt(s)' = Debt(s)
      BY <3>1, <3>2 DEF Collecting, Debt
    <3>5. \A i \in Sales : rowLock'[i] = s => i = k
      BY <3>1, <3>2, <3>3 DEF TypeOK
    <3>6. tx'[s].draft[k] = rem[k] - Debt(s) /\ tx'[s].share = tx[s].share
      BY <3>1, <3>2 DEF TypeOK, Tx
    <3> QED BY <3>1, <3>3, <3>4, <3>5, <3>6 DEF WriteFits
  <2>3. CASE ListOpen(s)
    <3>1. /\ pc[s] = "list" /\ rowLock' = rowLock /\ rem' = rem
          /\ tx'[s].share = tx[s].share
          /\ \A i \in tx'[s].open : i \in Sales => tx'[s].snap[i] = rem[i]
      BY <2>3 DEF ListOpen, credit, locks, TypeOK, Tx
    <3>2. \A i \in Sales : rowLock[i] # s /\ tx[s].share[i] = 0
      BY <2>0, <3>1 DEF LockFits, WriteFits
    <3> QED BY <3>1, <3>2 DEF WriteFits
  <2>4. CASE SettleNext(s)
    <3>1. PICK k \in Sales :
             /\ NextOpen(s, k)
             /\ rowLock' = [rowLock EXCEPT ![k] = s]
             /\ LET due   == tx[s].snap[k]
                    share == Share(tx[s].left, due)
                IN  tx' = [tx EXCEPT ![s] = [@ EXCEPT !.left     = tx[s].left - share,
                                                      !.open     = tx[s].open \ {k},
                                                      !.draft[k] = due - share,
                                                      !.share[k] = share]]
      BY <2>4 DEF SettleNext
    <3>2. pc[s] = "settle" /\ pc'[s] = "settle" /\ rem' = rem /\ job' = job
      BY <2>4 DEF SettleNext, credit
    <3> DEFINE due   == tx[s].snap[k]
               share == Share(tx[s].left, due)
    <3>3. /\ tx'[s].open = tx[s].open \ {k} /\ tx'[s].snap = tx[s].snap
          /\ tx'[s].draft = [tx[s].draft EXCEPT ![k] = due - share]
          /\ tx'[s].share = [tx[s].share EXCEPT ![k] = share]
          /\ tx[s].draft \in [Sales -> Int] /\ tx[s].share \in [Sales -> Int]
      BY <3>1 DEF TypeOK, Tx
    <3>4. Collecting(s) /\ Collecting(s)' /\ ~Approving(s)'
      BY <2>0, <3>2 DEF JobFits, Collecting, Approving
    <3>5. k \in tx[s].open /\ due = rem[k]
      BY <2>0, <3>1, <3>2 DEF NextOpen, WriteFits
    <3> HIDE DEF due, share
    <3>6. \A i \in Sales : rowLock'[i] = IF i = k THEN s ELSE rowLock[i]
      BY <3>1 DEF TypeOK
    <3>7. ASSUME NEW i \in Sales
          PROVE  /\ rowLock'[i] = s => tx'[s].draft[i] = rem'[i] - tx'[s].share[i]
                 /\ rowLock'[i] # s => tx'[s].share[i] = 0
                 /\ i \in tx'[s].open => tx'[s].snap[i] = rem'[i] /\ rowLock'[i] # s
      <4>1. CASE i = k
        BY <3>2, <3>3, <3>5, <3>6, <4>1
      <4>2. CASE i # k
        <5>1. /\ tx'[s].draft[i] = tx[s].draft[i] /\ tx'[s].share[i] = tx[s].share[i]
              /\ rowLock'[i] = rowLock[i]
          BY <3>3, <3>6, <4>2
        <5> QED BY <2>0, <3>2, <3>3, <3>4, <5>1 DEF WriteFits
      <4> QED BY <4>1, <4>2
    <3> QED BY <3>4, <3>7 DEF WriteFits
  <2>5. CASE (Locking(s) \/ Moving(s)) /\ ~ReduceRow(s) /\ ~ListOpen(s) /\ ~SettleNext(s)
    <3>1. /\ job' = job /\ request' = request /\ rem' = rem /\ rowLock' = rowLock
          /\ tx'[s].draft = tx[s].draft /\ tx'[s].share = tx[s].share
          /\ pc'[s] # "settle"
      <4> USE DEF credit, locks, Goto, TypeOK, Tx
      <4>1. CASE ReduceBalance(s)
        BY <4>1 DEF ReduceBalance
      <4>2. CASE MarkApproved(s)
        BY <4>2 DEF MarkApproved
      <4>3. CASE PayDown(s)
        BY <4>3 DEF PayDown
      <4>4. CASE SettleDone(s)
        BY <4>4 DEF SettleDone
      <4> QED BY <2>5, <4>1, <4>2, <4>3, <4>4 DEF Locking, Moving
    <3>2. (Approving(s)' <=> Approving(s)) /\ (Collecting(s)' <=> Collecting(s)) /\ Debt(s)' = Debt(s)
      BY <3>1 DEF Approving, Collecting, Debt
    <3> QED BY <2>0, <3>1, <3>2 DEF WriteFits
  <2>6. CASE Commit(s) \/ Drop(s)
    <3>1. pc'[s] = "idle" /\ tx'[s] = NoTx /\ \A i \in Sales : rowLock'[i] # s
      BY <2>6, NobodyIsNew DEF Commit, CommitCollect, CommitApprove, Drop, Reject, Abort, Finish,
                               Goto, TypeOK
    <3> QED BY <3>1 DEF WriteFits, NoTx, Zero
  <2> QED BY <1>2, <2>1, <2>2, <2>3, <2>4, <2>5, <2>6 DEF Step, Locking, Moving
<1>3. ASSUME NEW t \in Sessions PROVE WriteFits(t)'
  <2>1. CASE Asked \/ UNCHANGED vars
    BY <1>1, <2>1 DEF Asked, vars, locks, credit
  <2>2. ASSUME NEW s \in Sessions, Step(s) PROVE WriteFits(t)'
    <3>1. CASE t = s
      BY <1>2, <2>2, <3>1
    <3>2. CASE t # s
      BY <1>1, <2>2, <3>2, OthersKept, ChangeNeedsProfile
    <3> QED BY <3>1, <3>2
  <2> QED BY <2>1, <2>2, StepCases
<1> QED BY <1>3 DEF WritesAccounted, WriteFits

-----------------------------------------------------------------------------
LEMMA AccountsStep ==
    TypeOK /\ JobsFit /\ LocksFit /\ WritesAccounted /\ RowAccounts /\ [Next]_vars => RowAccounts'
<1> SUFFICES ASSUME TypeOK, JobsFit, LocksFit, WritesAccounted, RowAccounts, [Next]_vars
             PROVE  RowAccounts'
  OBVIOUS
<1>1. ASSUME NEW s \in Sessions, CommitCollect(s) PROVE RowAccounts'
  <2>1. ASSUME NEW i \in Sales PROVE rem'[i] = rem[i] - tx[s].share[i]
    <3>1. rem'[i] = IF rowLock[i] = s THEN tx[s].draft[i] ELSE rem[i]
      BY <1>1 DEF CommitCollect, Install
    <3>2. rowLock[i] = s => tx[s].draft[i] = rem[i] - tx[s].share[i]
      BY <1>1 DEF CommitCollect, WritesAccounted, Collecting
    <3>3. rowLock[i] # s => tx[s].share[i] = 0
      BY DEF WritesAccounted
    <3> QED BY <3>1, <3>2, <3>3 DEF TypeOK
  <2>2. \A i \in Sales : settled'[i] = settled[i] + tx[s].share[i]
    BY <1>1 DEF CommitCollect
  <2>3. amount' = amount /\ refunded' = refunded /\ \A i \in Sales : tx[s].share[i] \in Int
    BY <1>1 DEF CommitCollect, TypeOK, Tx
  <2> QED BY <2>1, <2>2, <2>3 DEF RowAccounts, TypeOK
<1>2. ASSUME NEW s \in Sessions, CommitApprove(s) PROVE RowAccounts'
  <2>1. pc[s] = "commit" /\ Approving(s) /\ ~Collecting(s) /\ Sale(s) \in Sales /\ Debt(s) \in Int
    BY <1>2 DEF CommitApprove, Approving, Collecting, JobsFit, Sale, Debt, TypeOK, RequestRow
  <2>2. ASSUME NEW i \in Sales
        PROVE  rem'[i] = IF i = Sale(s) /\ ReducesDebt(job[s].r) THEN rem[i] - Debt(s) ELSE rem[i]
    <3>1. rem'[i] = IF rowLock[i] = s THEN tx[s].draft[i] ELSE rem[i]
      BY <1>2 DEF CommitApprove, Install
    <3>2. rowLock[i] = s <=> i = Sale(s) /\ ReducesDebt(job[s].r)
      BY <2>1 DEF LocksFit
    <3>3. rowLock[i] = s => tx[s].draft[i] = rem[i] - Debt(s)
      BY <2>1 DEF WritesAccounted
    <3> QED BY <3>1, <3>2, <3>3
  <2>3. \A i \in Sales : refunded'[i] = IF i = Sale(s) /\ ReducesDebt(job[s].r)
                                       THEN refunded[i] + Debt(s) ELSE refunded[i]
    BY <1>2, <2>1 DEF CommitApprove, TypeOK
  <2>4. amount' = amount /\ settled' = settled
    BY <1>2 DEF CommitApprove
  <2> QED BY <2>1, <2>2, <2>3, <2>4 DEF RowAccounts, TypeOK
<1>3. ASSUME NEW s \in Sessions, Start(s) \/ Locking(s) \/ Moving(s) \/ Drop(s)
      PROVE  UNCHANGED <<rem, amount, settled, refunded>>
  BY <1>3 DEF Start, StartApprove, StartReject, StartCollect, Locking, ReduceRow, ReduceBalance,
          MarkApproved, PayDown, SettleNext, Moving, ListOpen, SettleDone, Drop, Reject, Abort,
          credit, history
<1>4. CASE Asked \/ UNCHANGED vars
  BY <1>4 DEF Asked, vars, credit, history, RowAccounts
<1>5. CASE UNCHANGED <<rem, amount, settled, refunded>>
  BY <1>5 DEF RowAccounts
<1> QED BY <1>1, <1>2, <1>3, <1>4, <1>5, StepCases DEF Step, Commit

-----------------------------------------------------------------------------
LEMMA ReviewsStep == TypeOK /\ JobsFit /\ ReviewsFit /\ [Next]_vars => ReviewsFit'
<1> SUFFICES ASSUME TypeOK, JobsFit, ReviewsFit, [Next]_vars,
                    NEW s \in Sessions, NEW r \in Requests, Reviewing(s, r)'
             PROVE  /\ \A t \in Sessions \ {s} : Reviewing(t, r)' => r \in contested'
                    /\ r \notin contested' => request'[r].status = "PENDING"
  BY DEF ReviewsFit
<1>1. CASE Asked \/ UNCHANGED vars
  <2>1. job' = job /\ contested' = contested
    BY <1>1 DEF Asked, vars, races
  <2>2. Reviewing(s, r) /\ request[r].status # "NONE"
    BY <2>1 DEF Reviewing, JobsFit
  <2>3. request'[r] = request[r]
    BY <1>1, <2>2 DEF Asked, vars, TypeOK
  <2> QED BY <2>1, <2>2, <2>3 DEF ReviewsFit, Reviewing
<1>2. ASSUME NEW u \in Sessions, StartApprove(u) \/ StartReject(u)
      PROVE  /\ \A t \in Sessions \ {s} : Reviewing(t, r)' => r \in contested'
             /\ r \notin contested' => request'[r].status = "PENDING"
  <2>1. PICK q \in Requests, op \in {"approve", "reject"} : StartReview(u, op, q)
    BY <1>2 DEF StartApprove, StartReject
  <2>2. /\ job'[u].op \in {"approve", "reject"} /\ job'[u].r = q
        /\ \A t \in Sessions \ {u} : job'[t] = job[t]
        /\ request[q].status = "PENDING" /\ request' = request
        /\ contested' = IF \E t \in Sessions \ {u} : Reviewing(t, q) THEN contested \cup {q}
                                                                    ELSE contested
    BY <1>2, <2>1 DEF StartReview, StartApprove, StartReject, TypeOK, NoJob, Reviewable
  <2>3. CASE s = u
    BY <2>2, <2>3 DEF Reviewing
  <2>4. CASE s # u
    <3>1. Reviewing(s, r)
      BY <2>2, <2>4 DEF Reviewing
    <3>2. ASSUME NEW t \in Sessions \ {s}, Reviewing(t, r)' PROVE r \in contested'
      <4>1. CASE t = u
        BY <2>2, <2>4, <3>1, <3>2, <4>1 DEF Reviewing
      <4>2. CASE t # u
        <5>1. Reviewing(t, r)
          BY <2>2, <3>2, <4>2 DEF Reviewing
        <5> QED BY <2>2, <3>1, <5>1 DEF ReviewsFit
      <4> QED BY <4>1, <4>2
    <3> QED BY <2>2, <3>1, <3>2 DEF ReviewsFit
  <2> QED BY <2>3, <2>4
<1>3. ASSUME NEW u \in Sessions, Step(u), ~StartApprove(u), ~StartReject(u)
      PROVE  /\ \A t \in Sessions \ {s} : Reviewing(t, r)' => r \in contested'
             /\ r \notin contested' => request'[r].status = "PENDING"
  <2>1. contested' = contested
    BY <1>3 DEF Step, Start, StartCollect, Locking, ReduceRow, ReduceBalance, MarkApproved, PayDown,
            SettleNext, Moving, ListOpen, SettleDone, Drop, Reject, Abort, Commit, CommitCollect,
            CommitApprove, races
  <2>2. \A t \in Sessions : job'[t] = job[t] \/ job'[t].op \in {"none", "collect"}
    <3>1. CASE StartCollect(u)
      BY <3>1 DEF StartCollect, TypeOK, NoJob
    <3>2. CASE Locking(u) \/ Moving(u)
      BY <3>2, MoveCases
    <3>3. CASE Commit(u) \/ Drop(u)
      BY <3>3 DEF Drop, Reject, Abort, Commit, CommitCollect, CommitApprove, Finish, NoJob, TypeOK
    <3> QED BY <1>3, <3>1, <3>2, <3>3 DEF Step, Start
  <2>3. \A t \in Sessions : Reviewing(t, r)' => Reviewing(t, r)
    BY <2>2 DEF Reviewing
  <2>4. r \notin contested => request'[r].status = "PENDING"
    <3>1. CASE CommitApprove(u) \/ Reject(u)
      <4>1. /\ job[u].op \in {"approve", "reject"} /\ job'[u].op = "none"
            /\ request' = [request EXCEPT ![job[u].r].status = request'[job[u].r].status]
        BY <3>1 DEF CommitApprove, Reject, JobsFit, Finish, NoJob, TypeOK
      <4>2. u # s
        BY <4>1 DEF Reviewing
      <4>3. job[u].r = r => r \in contested
        BY <2>3, <4>1, <4>2 DEF ReviewsFit, Reviewing
      <4> QED BY <2>3, <4>1, <4>3 DEF ReviewsFit, TypeOK
    <3>2. CASE ~CommitApprove(u) /\ ~Reject(u)
      <4>1. request' = request
        BY <1>3, <3>2 DEF Step, Start, StartCollect, Locking, ReduceRow, ReduceBalance, MarkApproved,
            PayDown, SettleNext, Moving, ListOpen, SettleDone, Drop, Abort, Commit, CommitCollect
      <4> QED BY <2>3, <4>1 DEF ReviewsFit
    <3> QED BY <3>1, <3>2
  <2> QED BY <2>1, <2>3, <2>4 DEF ReviewsFit
<1> QED BY <1>1, <1>2, <1>3, StepCases

LEMMA ExecutedStep ==
    TypeOK /\ JobsFit /\ ReviewsFit /\ ExecutedAsDecided /\ [Next]_vars => ExecutedAsDecided'
<1> SUFFICES ASSUME TypeOK, JobsFit, ReviewsFit, ExecutedAsDecided, [Next]_vars
             PROVE  ExecutedAsDecided'
  OBVIOUS
<1>1. CASE Asked
  <2>1. PICK q \in Requests :
           /\ request[q].status = "NONE"
           /\ request'[q].status = "PENDING"
           /\ \A r \in Requests \ {q} : request'[r] = request[r]
    BY <1>1 DEF Asked, TypeOK
  <2>2. executed' = executed /\ contested' = contested
    BY <1>1 DEF Asked, history, races
  <2>3. executed[q] = 0
    BY <2>1 DEF ExecutedAsDecided, Decisions, TypeOK
  <2>4. ASSUME NEW r \in Requests
        PROVE  /\ request'[r].status = "APPROVED" => executed'[r] > 0
               /\ executed'[r] > 0 => request'[r].status \in Decisions
               /\ r \notin contested' =>
                      executed'[r] = IF request'[r].status = "APPROVED" THEN 1 ELSE 0
    <3>1. CASE r = q
      BY <2>1, <2>2, <2>3, <3>1
    <3>2. CASE r # q
      BY <2>1, <2>2, <3>2 DEF ExecutedAsDecided
    <3> QED BY <3>1, <3>2
  <2> QED BY <2>4 DEF ExecutedAsDecided
<1>2. ASSUME NEW s \in Sessions, CommitApprove(s) PROVE ExecutedAsDecided'
  <2> DEFINE q == job[s].r
  <2>1. q \in Requests /\ Reviewing(s, q)
    BY <1>2 DEF CommitApprove, JobsFit, Reviewing
  <2>2. /\ request' = [request EXCEPT ![q].status = "APPROVED"]
        /\ executed' = [executed EXCEPT ![q] = executed[q] + 1] /\ contested' = contested
    BY <1>2 DEF CommitApprove, races
  <2>3. q \notin contested => request[q].status = "PENDING"
    BY <2>1 DEF ReviewsFit
  <2>4. q \notin contested => executed[q] = 0
    BY <2>1, <2>3 DEF ExecutedAsDecided
  <2>5. request'[q].status = "APPROVED" /\ executed'[q] = executed[q] + 1 /\ executed[q] \in Nat
    BY <2>1, <2>2 DEF TypeOK, RequestRow
  <2>6. \A r \in Requests \ {q} : request'[r] = request[r] /\ executed'[r] = executed[r]
    BY <2>2 DEF TypeOK
  <2> QED BY <2>1, <2>2, <2>4, <2>5, <2>6 DEF ExecutedAsDecided, Decisions
<1>3. ASSUME NEW s \in Sessions, Reject(s) PROVE ExecutedAsDecided'
  <2> DEFINE q == job[s].r
  <2>1. q \in Requests /\ Reviewing(s, q)
    BY <1>3 DEF Reject, JobsFit, Reviewing
  <2>2. /\ request' = [request EXCEPT ![q].status = "REJECTED"]
        /\ executed' = executed /\ contested' = contested
    BY <1>3 DEF Reject, races, history
  <2>3. q \notin contested => executed[q] = 0
    BY <2>1 DEF ReviewsFit, ExecutedAsDecided
  <2>4. request'[q].status = "REJECTED"
    BY <2>1, <2>2 DEF TypeOK, RequestRow
  <2>5. \A r \in Requests \ {q} : request'[r] = request[r]
    BY <2>2 DEF TypeOK
  <2> QED BY <2>1, <2>2, <2>3, <2>4, <2>5 DEF ExecutedAsDecided, Decisions
<1>4. ASSUME NEW s \in Sessions,
             Start(s) \/ Locking(s) \/ Moving(s) \/ CommitCollect(s) \/ Abort(s)
      PROVE  ExecutedAsDecided'
  <2>1. request' = request /\ executed' = executed /\ contested \subseteq contested'
    BY <1>4 DEF Start, StartApprove, StartReject, StartCollect, StartReview, Locking, ReduceRow,
            ReduceBalance, MarkApproved, PayDown, SettleNext, Moving, ListOpen, SettleDone, Abort,
            CommitCollect, history, races
  <2> QED BY <2>1 DEF ExecutedAsDecided
<1>5. CASE UNCHANGED vars
  BY <1>5 DEF vars, history, races, ExecutedAsDecided
<1> QED BY <1>1, <1>2, <1>3, <1>4, <1>5, StepCases DEF Step, Commit, Drop

-----------------------------------------------------------------------------
\* Only the commit of the holder of the profile changes the balance.
LEMMA BalanceKept ==
    ASSUME NEW s \in Sessions, Step(s)
    PROVE  \/ balance' = balance
           \/ Commit(s) /\ custLock = s /\ balance' = tx[s].balance
<1>1. CASE Commit(s)
  BY <1>1 DEF Commit, CommitCollect, CommitApprove, Install
<1>2. CASE ~Commit(s)
  BY <1>2 DEF Step, Start, StartApprove, StartReject, StartCollect, Locking, ReduceRow,
              ReduceBalance, MarkApproved, PayDown, SettleNext, Moving, ListOpen, SettleDone,
              Drop, Reject, Abort, credit
<1> QED BY <1>1, <1>2

\* An approval that commits takes the debt off its row, or nothing.
LEMMA ApproveTakes ==
    ASSUME TypeOK, JobsFit, LocksFit, WritesAccounted, NEW s \in Sessions, CommitApprove(s)
    PROVE  /\ Sale(s) \in Sales /\ Debt(s) \in Int
           /\ rem' = IF ReducesDebt(job[s].r) THEN [rem EXCEPT ![Sale(s)] = @ - Debt(s)] ELSE rem
           /\ ReducesDebt(job[s].r) => Debt(s) > 0 /\ custLock = s
<1>1. pc[s] = "commit" /\ Approving(s) /\ ~Collecting(s) /\ Sale(s) \in Sales /\ Debt(s) \in Int
  BY DEF CommitApprove, Approving, Collecting, JobsFit, Sale, Debt, TypeOK, RequestRow
<1>2. ASSUME NEW i \in Sales
      PROVE  rem'[i] = IF i = Sale(s) /\ ReducesDebt(job[s].r) THEN rem[i] - Debt(s) ELSE rem[i]
  <2>1. rem'[i] = IF rowLock[i] = s THEN tx[s].draft[i] ELSE rem[i]
    BY DEF CommitApprove, Install
  <2>2. rowLock[i] = s <=> i = Sale(s) /\ ReducesDebt(job[s].r)
    BY <1>1 DEF LocksFit
  <2>3. rowLock[i] = s => tx[s].draft[i] = rem[i] - Debt(s)
    BY <1>1 DEF WritesAccounted
  <2> QED BY <2>1, <2>2, <2>3
<1>3. rem' = [i \in Sales |-> rem'[i]] /\ rem = [i \in Sales |-> rem[i]]
  BY DEF CommitApprove, Install, TypeOK
<1>4. ReducesDebt(job[s].r) => Debt(s) > 0 /\ custLock = s
  BY <1>1 DEF ReducesDebt, Debt, LocksFit
<1>5. CASE ReducesDebt(job[s].r)
  <2>1. \A i \in Sales : rem'[i] = [rem EXCEPT ![Sale(s)] = @ - Debt(s)][i]
    BY <1>2, <1>3, <1>5
  <2> QED BY <1>1, <1>3, <1>4, <1>5, <2>1
<1>6. CASE ~ReducesDebt(job[s].r)
  <2>1. \A i \in Sales : rem'[i] = rem[i]
    BY <1>2, <1>6
  <2> QED BY <1>1, <1>3, <1>6, <2>1
<1> QED BY <1>5, <1>6

\* A collection that commits takes the shares off the rows.
LEMMA CollectTakes ==
    ASSUME TypeOK, WritesAccounted, NEW s \in Sessions, CommitCollect(s), NEW i \in Sales
    PROVE  rem'[i] = rem[i] - tx[s].share[i]
<1>1. rem'[i] = IF rowLock[i] = s THEN tx[s].draft[i] ELSE rem[i]
  BY DEF CommitCollect, Install
<1>2. rowLock[i] = s => tx[s].draft[i] = rem[i] - tx[s].share[i]
  BY DEF CommitCollect, WritesAccounted, Collecting
<1>3. rowLock[i] # s => tx[s].share[i] = 0
  BY DEF WritesAccounted
<1> QED BY <1>1, <1>2, <1>3 DEF TypeOK

LEMMA PaidStep ==
    TypeOK /\ JobsFit /\ LocksFit /\ WritesAccounted /\ PaidRowsClear /\ [Next]_vars => PaidRowsClear'
<1> SUFFICES ASSUME TypeOK, JobsFit, LocksFit, WritesAccounted, PaidRowsClear, [Next]_vars,
                    NEW i \in Sales, paid'[i]
             PROVE  rem'[i] <= 0
  BY DEF PaidRowsClear
<1>1. ASSUME NEW s \in Sessions, CommitCollect(s) PROVE rem'[i] <= 0
  <2>1. /\ rowLock[i] = s => (paid'[i] <=> tx[s].draft[i] = 0)
        /\ rowLock[i] # s => (paid'[i] <=> paid[i])
        /\ rem'[i] = IF rowLock[i] = s THEN tx[s].draft[i] ELSE rem[i]
    BY <1>1 DEF CommitCollect, Install
  <2>2. CASE rowLock[i] = s
    BY <2>1, <2>2
  <2>3. CASE rowLock[i] # s
    BY <2>1, <2>3 DEF PaidRowsClear
  <2> QED BY <2>2, <2>3
<1>2. ASSUME NEW s \in Sessions, CommitApprove(s) PROVE rem'[i] <= 0
  <2>1. paid[i]
    BY <1>2 DEF CommitApprove
  <2>2. rem[i] <= 0 /\ rem[i] \in Int
    BY <2>1 DEF PaidRowsClear, TypeOK
  <2>3. rem'[i] = rem[i] \/ \E d \in Int : d > 0 /\ rem'[i] = rem[i] - d
    BY <1>2, ApproveTakes DEF TypeOK
  <2> QED BY <2>2, <2>3
<1>3. ASSUME NEW s \in Sessions, Start(s) \/ Locking(s) \/ Moving(s) \/ Drop(s)
      PROVE  rem' = rem /\ paid' = paid
  BY <1>3 DEF Start, StartApprove, StartReject, StartCollect, Locking, ReduceRow, ReduceBalance,
          MarkApproved, PayDown, SettleNext, Moving, ListOpen, SettleDone, Drop, Reject, Abort, credit
<1>4. CASE Asked \/ UNCHANGED vars
  BY <1>4 DEF Asked, vars, credit, PaidRowsClear
<1> QED BY <1>1, <1>2, <1>3, <1>4, StepCases DEF Step, Commit, PaidRowsClear

-----------------------------------------------------------------------------
\* The clauses of MoneyFits about one session.
MoneyFit(s) ==
    /\ custLock = s => \/ pc[s] \in {"mark", "commit"} /\ Approving(s) /\ ReducesDebt(job[s].r)
                       \/ pc[s] \in {"list", "settle", "commit"} /\ Collecting(s)
    /\ custLock = s /\ Approving(s)  => tx[s].balance = balance - Debt(s)
    /\ custLock = s /\ Collecting(s) => tx[s].balance = tx[s].seen - job[s].n
    /\ Collecting(s) => job[s].n <= tx[s].seen
    /\ pc[s] \in {"settle", "commit"} /\ Collecting(s) =>
           /\ tx[s].left >= 0
           /\ tx[s].left + SumFunctionOnSet(tx[s].share, Sales) = job[s].n
           /\ tx[s].left > 0 => \A i \in Sales \ tx[s].open : rem[i] - tx[s].share[i] <= 0
    /\ pc[s] = "commit" /\ Collecting(s) => tx[s].left = 0 \/ tx[s].open = {}

\* The next row that is open takes its share of what is left.
LEMMA SettleFits ==
    ASSUME TypeOK, NEW s \in Sessions, SettleNext(s), JobFits(s), WriteFits(s), MoneyFit(s)
    PROVE  MoneyFit(s)'
<1>1. PICK k \in Sales :
         /\ NextOpen(s, k)
         /\ rowLock' = [rowLock EXCEPT ![k] = s]
         /\ LET due   == tx[s].snap[k]
                share == Share(tx[s].left, due)
            IN  tx' = [tx EXCEPT ![s] = [@ EXCEPT !.left     = tx[s].left - share,
                                                  !.open     = tx[s].open \ {k},
                                                  !.draft[k] = due - share,
                                                  !.share[k] = share]]
  BY DEF SettleNext
<1>2. /\ pc[s] = "settle" /\ pc' = pc /\ job' = job /\ request' = request /\ custLock' = custLock
      /\ UNCHANGED <<rem, balance>> /\ tx[s].left > 0
  BY DEF SettleNext, credit
<1> DEFINE due   == tx[s].snap[k]
           share == Share(tx[s].left, due)
           shares == tx[s].share
<1>3. /\ tx'[s].left = tx[s].left - share /\ tx'[s].open = tx[s].open \ {k}
      /\ tx'[s].share = [shares EXCEPT ![k] = share]
      /\ tx'[s].balance = tx[s].balance /\ tx'[s].seen = tx[s].seen
  BY <1>1 DEF TypeOK, Tx
<1>4. /\ tx[s].left \in Int /\ due \in Int /\ shares \in [Sales -> Int] /\ rem \in [Sales -> Int]
      /\ job[s].n \in Int
  BY DEF TypeOK, Tx, Job
<1>5. /\ share \in Int /\ share <= tx[s].left
      /\ share = due \/ share = tx[s].left
  BY <1>4 DEF Share
<1>6. Collecting(s) /\ ~Approving(s)
  BY <1>2 DEF JobFits, Collecting, Approving
<1>7. due = rem[k] /\ shares[k] = 0
  BY <1>1, <1>2, <1>6 DEF NextOpen, WriteFits
<1> HIDE DEF due, share, shares
<1> DEFINE shares2 == [shares EXCEPT ![k] = share]
<1>8. SumFunctionOnSet(shares2, Sales) = SumFunctionOnSet(shares, Sales) + share
  <2>1. /\ \A i \in Sales : shares[i] \in Int /\ shares2[i] \in Int
        /\ \A i \in Sales \ {k} : shares2[i] = shares[i]
        /\ shares2[k] = share
    BY <1>4, <1>5
  <2>2. SumFunctionOnSet(shares2, Sales) = SumFunctionOnSet(shares, Sales) - shares[k] + shares2[k]
    <3> HIDE DEF shares2
    <3> QED BY <2>1, SalesFinite, SumChange
  <2>3. SumFunctionOnSet(shares, Sales) \in Int
    BY <2>1, SalesFinite, SumIsInt
  <2> QED BY <1>5, <1>7, <2>1, <2>2, <2>3
<1>9. SumFunctionOnSet(shares, Sales) \in Int
  BY <1>4, SalesFinite, SumIsInt
<1>10. tx[s].left >= 0 /\ tx[s].left + SumFunctionOnSet(shares, Sales) = job[s].n
  BY <1>2, <1>6 DEF MoneyFit, shares
<1>11. tx'[s].left >= 0 /\ tx'[s].left + SumFunctionOnSet(tx'[s].share, Sales) = job[s].n
  BY <1>3, <1>4, <1>5, <1>8, <1>9, <1>10
<1>12. ASSUME tx'[s].left > 0, NEW i \in Sales \ tx'[s].open
       PROVE  rem[i] - tx'[s].share[i] <= 0
  <2>1. CASE i = k
    <3>1. share = due
      BY <1>3, <1>4, <1>5, <1>12
    <3>2. tx'[s].share[i] = share
      BY <1>3, <1>4, <2>1
    <3> QED BY <1>4, <1>7, <2>1, <3>1, <3>2
  <2>2. CASE i # k
    <3>1. i \in Sales \ tx[s].open /\ tx'[s].share[i] = shares[i]
      BY <1>3, <1>4, <1>12, <2>2
    <3>2. rem[i] - shares[i] <= 0
      BY <1>2, <1>6, <3>1 DEF MoneyFit, shares
    <3> QED BY <3>1, <3>2
  <2> QED BY <2>1, <2>2
<1>13. Collecting(s)' /\ ~Approving(s)'
  BY <1>2, <1>6 DEF Collecting, Approving
<1>14. /\ custLock = s => tx[s].balance = tx[s].seen - job[s].n
       /\ job[s].n <= tx[s].seen
  BY <1>6 DEF MoneyFit
<1> QED BY <1>2, <1>3, <1>11, <1>12, <1>13, <1>14 DEF MoneyFit

\* A collection that lists the open rows has everything left; what it does not
\* list is PAID.
LEMMA ListFits ==
    ASSUME TypeOK, PaidRowsClear, NEW s \in Sessions, ListOpen(s), JobFits(s), LockFits(s),
           WriteFits(s), MoneyFit(s)
    PROVE  MoneyFit(s)'
<1>1. /\ pc[s] = "list" /\ pc'[s] = "settle" /\ job' = job /\ request' = request
      /\ UNCHANGED <<rem, balance, custLock>>
      /\ tx'[s].left = job[s].n /\ tx'[s].open = {i \in Sales : ~paid[i]}
      /\ tx'[s].share = tx[s].share /\ tx'[s].balance = tx[s].balance /\ tx'[s].seen = tx[s].seen
  BY DEF ListOpen, credit, locks, Goto, TypeOK, Tx
<1>2. Collecting(s) /\ Collecting(s)' /\ ~Approving(s)'
  BY <1>1 DEF JobFits, Collecting, Approving
<1>3. \A i \in Sales : tx[s].share[i] = 0
  BY <1>1 DEF LockFits, WriteFits
<1>4. SumFunctionOnSet(tx[s].share, Sales) = 0 /\ job[s].n \in Nat
  BY <1>3, SalesFinite, SumZero DEF TypeOK, Job
<1>5. \A i \in Sales \ tx'[s].open : rem[i] - tx'[s].share[i] <= 0
  BY <1>1, <1>3 DEF PaidRowsClear, TypeOK
<1>6. /\ custLock = s => tx[s].balance = tx[s].seen - job[s].n
      /\ job[s].n <= tx[s].seen
  BY <1>2 DEF MoneyFit
<1> QED BY <1>1, <1>2, <1>4, <1>5, <1>6 DEF MoneyFit

LEMMA MoneyStep ==
    /\ TypeOK /\ JobsFit /\ LocksFit /\ WritesAccounted /\ PaidRowsClear /\ MoneyFits
    /\ [Next]_vars
    => MoneyFits'
<1> SUFFICES ASSUME TypeOK, JobsFit, LocksFit, WritesAccounted, PaidRowsClear, MoneyFits, [Next]_vars
             PROVE  MoneyFits'
  OBVIOUS
<1>a. \A t \in Sessions : MoneyFit(t) /\ WriteFits(t) /\ LockFits(t) /\ JobFits(t)
  BY DEF MoneyFits, MoneyFit, WritesAccounted, WriteFits, LocksFit, LockFits, JobsFit, JobFits
<1>1. ASSUME NEW t \in Sessions, pc'[t] = pc[t], job'[t] = job[t], tx'[t] = tx[t],
             custLock' = t <=> custLock = t,
             custLock = t => balance' = balance /\ \A i \in Sales : rem'[i] = rem[i]
      PROVE  MoneyFit(t)'
  <2>1. MoneyFit(t) /\ LockFits(t)
    BY <1>a
  <2>2. (Approving(t)' <=> Approving(t)) /\ (Collecting(t)' <=> Collecting(t))
    BY <1>1 DEF Approving, Collecting
  <2>3. Approving(t) => Debt(t)' = Debt(t) /\ (ReducesDebt(job[t].r)' <=> ReducesDebt(job[t].r))
    BY <1>1, JobKept DEF Approving
  <2>5. pc[t] \in {"settle", "commit"} /\ Collecting(t) => custLock = t
    BY <2>1 DEF LockFits
  <2>6. Approving(t) => ~Collecting(t)
    BY DEF Approving, Collecting
  <2>7. custLock' = t => \/ pc'[t] \in {"mark", "commit"} /\ Approving(t)' /\ ReducesDebt(job[t].r)'
                         \/ pc'[t] \in {"list", "settle", "commit"} /\ Collecting(t)'
    BY <1>1, <2>1, <2>2, <2>3 DEF MoneyFit
  <2>8. custLock' = t /\ Approving(t)' => tx'[t].balance = balance' - Debt(t)'
    BY <1>1, <2>1, <2>2, <2>3 DEF MoneyFit
  <2>9. /\ custLock' = t /\ Collecting(t)' => tx'[t].balance = tx'[t].seen - job'[t].n
        /\ Collecting(t)' => job'[t].n <= tx'[t].seen
        /\ pc'[t] = "commit" /\ Collecting(t)' => tx'[t].left = 0 \/ tx'[t].open = {}
    BY <1>1, <2>1, <2>2 DEF MoneyFit
  <2>10. ASSUME pc'[t] \in {"settle", "commit"}, Collecting(t)'
         PROVE  /\ tx'[t].left >= 0
                /\ tx'[t].left + SumFunctionOnSet(tx'[t].share, Sales) = job'[t].n
                /\ tx'[t].left > 0 =>
                       \A i \in Sales \ tx'[t].open : rem'[i] - tx'[t].share[i] <= 0
    BY <1>1, <2>1, <2>2, <2>5, <2>10 DEF MoneyFit
  <2> QED BY <2>7, <2>8, <2>9, <2>10 DEF MoneyFit
<1>2. ASSUME NEW s \in Sessions, Step(s) PROVE MoneyFit(s)'
  <2>0. MoneyFit(s) /\ WriteFits(s) /\ LockFits(s) /\ JobFits(s)
    BY <1>a
  <2>1. CASE StartApprove(s) \/ StartReject(s)
    <3>1. PICK r \in Requests, op \in {"approve", "reject"} : StartReview(s, op, r)
      BY <2>1 DEF StartApprove, StartReject
    <3>2. pc[s] = "idle" /\ ~Collecting(s)' /\ custLock' = custLock
      BY <2>1, <3>1 DEF StartReview, StartApprove, StartReject, TypeOK, NoJob, Collecting, locks
    <3>3. custLock # s
      BY <2>0, <3>2 DEF MoneyFit
    <3> QED BY <3>2, <3>3 DEF MoneyFit
  <2>2. CASE StartCollect(s)
    <3>1. PICK n \in Amounts : n <= balance
                               /\ job' = [job EXCEPT ![s] = [NoJob EXCEPT !.op = "collect", !.n = n]]
                               /\ tx' = [tx EXCEPT ![s].seen = balance]
      BY <2>2 DEF StartCollect
    <3>2. /\ pc[s] = "idle" /\ pc'[s] = "pay" /\ custLock' = custLock
          /\ job'[s].n = n /\ job'[s].op = "collect" /\ tx'[s].seen = balance
      <4>1. pc[s] = "idle" /\ pc'[s] = "pay" /\ custLock' = custLock
        BY <2>2 DEF StartCollect, Goto, locks, TypeOK
      <4>2. job'[s].n = n /\ job'[s].op = "collect"
        BY <3>1 DEF NoJob, TypeOK
      <4>3. tx'[s].seen = balance
        BY <3>1 DEF TypeOK, Tx
      <4> QED BY <4>1, <4>2, <4>3
    <3>3. custLock # s
      BY <2>0, <3>2 DEF MoneyFit
    <3> QED BY <3>1, <3>2, <3>3 DEF MoneyFit, Collecting, Approving
  <2>3. CASE ListOpen(s)
    BY <2>0, <2>3, ListFits
  <2>4. CASE SettleNext(s)
    BY <2>0, <2>4, SettleFits
  <2>5. CASE ReduceRow(s) \/ MarkApproved(s) \/ SettleDone(s)
    <3>1. /\ job' = job /\ request' = request /\ UNCHANGED <<rem, balance, custLock>>
          /\ tx'[s].balance = tx[s].balance
      <4> USE DEF credit, locks, TypeOK, Tx
      <4>1. CASE ReduceRow(s)
        BY <4>1 DEF ReduceRow
      <4>2. CASE MarkApproved(s)
        BY <4>2 DEF MarkApproved
      <4>3. CASE SettleDone(s)
        BY <4>3 DEF SettleDone
      <4> QED BY <2>5, <4>1, <4>2, <4>3
    <3>2. /\ (Approving(s)' <=> Approving(s)) /\ Debt(s)' = Debt(s)
          /\ Collecting(s)' <=> Collecting(s)
          /\ ReducesDebt(job[s].r)' <=> ReducesDebt(job[s].r)
      BY <3>1 DEF Approving, Collecting, Debt, ReducesDebt
    <3>3. CASE SettleDone(s)
      <4>1. pc[s] = "settle" /\ pc'[s] = "commit" /\ tx' = tx /\ (tx[s].left <= 0 \/ tx[s].open = {})
        BY <3>3 DEF SettleDone, Goto, TypeOK
      <4>2. Collecting(s) /\ ~Approving(s) /\ tx[s].left \in Int
        BY <2>0, <4>1 DEF JobFits, Collecting, Approving, TypeOK, Tx
      <4> QED BY <2>0, <3>1, <3>2, <4>1, <4>2 DEF MoneyFit
    <3>4. CASE ReduceRow(s) \/ MarkApproved(s)
      <4>1. \/ pc[s] = "row" /\ pc'[s] = "profile"
            \/ pc[s] = "mark" /\ pc'[s] = "commit"
        BY <3>4 DEF ReduceRow, MarkApproved, Goto, TypeOK
      <4>2. Approving(s) /\ ~Collecting(s)
        BY <2>0, <4>1 DEF JobFits, Approving, Collecting
      <4> QED BY <2>0, <3>1, <3>2, <4>1, <4>2 DEF MoneyFit
    <3> QED BY <2>5, <3>3, <3>4
  <2>6. CASE ReduceBalance(s)
    <3>1. /\ pc[s] = "profile" /\ pc'[s] = "mark" /\ job' = job /\ request' = request
          /\ balance' = balance /\ tx'[s].balance = balance - Debt(s)
      BY <2>6 DEF ReduceBalance, Reduced, credit, Goto, TypeOK, Tx
    <3>2. Approving(s) /\ ReducesDebt(job[s].r)
      BY <2>0, <3>1 DEF JobFits
    <3>3. Approving(s)' /\ ~Collecting(s)' /\ Debt(s)' = Debt(s) /\ ReducesDebt(job[s].r)'
      BY <3>1, <3>2 DEF Approving, Collecting, Debt, ReducesDebt
    <3> QED BY <3>1, <3>3 DEF MoneyFit
  <2>7. CASE PayDown(s)
    <3>1. /\ pc[s] = "pay" /\ pc'[s] = "list" /\ job' = job
          /\ tx'[s].balance = tx[s].seen - job[s].n /\ tx'[s].seen = tx[s].seen
      BY <2>7 DEF PayDown, Goto, TypeOK, Tx
    <3>2. Collecting(s)
      BY <2>0, <3>1 DEF JobFits
    <3>3. Collecting(s)' /\ ~Approving(s)'
      BY <3>1, <3>2 DEF Collecting, Approving
    <3>4. job[s].n <= tx[s].seen
      BY <2>0, <3>2 DEF MoneyFit
    <3> QED BY <3>1, <3>3, <3>4 DEF MoneyFit
  <2>8. CASE Commit(s) \/ Drop(s)
    <3>1. pc'[s] = "idle" /\ job'[s] = NoJob /\ custLock' # s
      BY <2>8, NobodyIsNew DEF Commit, CommitCollect, CommitApprove, Drop, Reject, Abort, Finish,
                               Goto, TypeOK
    <3> QED BY <3>1 DEF MoneyFit, NoJob, Collecting
  <2> QED BY <1>2, <2>1, <2>2, <2>3, <2>4, <2>5, <2>6, <2>7, <2>8 DEF Step, Start, Locking, Moving
<1>3. ASSUME NEW t \in Sessions PROVE MoneyFit(t)'
  <2>1. CASE Asked \/ UNCHANGED vars
    BY <1>1, <2>1 DEF Asked, vars, locks, credit
  <2>2. ASSUME NEW s \in Sessions, Step(s) PROVE MoneyFit(t)'
    <3>1. CASE t = s
      BY <1>2, <2>2, <3>1
    <3>2. CASE t # s
      <4>1. custLock = t => balance' = balance /\ \A i \in Sales : rem'[i] = rem[i]
        BY <2>2, <3>2, BalanceKept, ChangeNeedsProfile
      <4> QED BY <1>1, <2>2, <3>2, <4>1, OthersKept
    <3> QED BY <3>1, <3>2
  <2> QED BY <2>1, <2>2, StepCases
<1> QED BY <1>3 DEF MoneyFits, MoneyFit

-----------------------------------------------------------------------------
\* A collection that starts beside an approval or a collection, or the other way
\* round, is remembered; nobody else touches the balance.
LEMMA AloneStep ==
    TypeOK /\ JobsFit /\ LocksFit /\ MoneyFits /\ CollectsAlone /\ [Next]_vars => CollectsAlone'
<1> SUFFICES ASSUME TypeOK, JobsFit, LocksFit, MoneyFits, CollectsAlone, [Next]_vars,
                    ~overlapped', NEW t \in Sessions, Collecting(t)'
             PROVE  tx'[t].seen = balance' /\ ~OthersOn(t, {"collect", "approve"})'
  BY DEF CollectsAlone
<1>1. ASSUME NEW s \in Sessions, StartCollect(s)
      PROVE  tx'[t].seen = balance' /\ ~OthersOn(t, {"collect", "approve"})'
  <2>1. /\ ~overlapped /\ ~OthersOn(s, {"collect", "approve"}) /\ balance' = balance
        /\ tx' = [tx EXCEPT ![s].seen = balance] /\ \A u \in Sessions \ {s} : job'[u] = job[u]
    BY <1>1 DEF StartCollect, credit, TypeOK
  <2>2. t = s
    BY <2>1 DEF OthersOn, Collecting
  <2>3. tx'[s].seen = balance
    BY <2>1 DEF TypeOK, Tx
  <2> QED BY <2>1, <2>2, <2>3 DEF OthersOn
<1>2. ASSUME NEW s \in Sessions, StartApprove(s)
      PROVE  tx'[t].seen = balance' /\ ~OthersOn(t, {"collect", "approve"})'
  <2>1. /\ ~overlapped /\ ~OthersOn(s, {"collect"})
        /\ \A u \in Sessions \ {s} : job'[u] = job[u]
        /\ job'[s].op = "approve"
    BY <1>2 DEF StartApprove, StartReview, TypeOK, NoJob
  <2>2. t # s /\ Collecting(t)
    BY <2>1 DEF Collecting
  <2> QED BY <2>1, <2>2 DEF OthersOn, Collecting
<1>3. ASSUME NEW s \in Sessions, Step(s), ~StartCollect(s), ~StartApprove(s)
      PROVE  tx'[t].seen = balance' /\ ~OthersOn(t, {"collect", "approve"})'
  <2>1. overlapped' = overlapped
    BY <1>3 DEF Step, Start, StartReject, Locking, ReduceRow, ReduceBalance, MarkApproved, PayDown,
            SettleNext, Moving, ListOpen, SettleDone, Drop, Reject, Abort, Commit, CommitCollect,
            CommitApprove, races
  <2>2. \A u \in Sessions : job'[u] = job[u] \/ job'[u].op \in {"none", "reject"}
    <3>1. CASE StartReject(s)
      BY <3>1 DEF StartReject, StartReview, TypeOK, NoJob
    <3>2. CASE Locking(s) \/ Moving(s)
      BY <3>2, MoveCases
    <3>3. CASE Commit(s) \/ Drop(s)
      BY <3>3 DEF Drop, Reject, Abort, Commit, CommitCollect, CommitApprove, Finish, NoJob, TypeOK
    <3> QED BY <1>3, <3>1, <3>2, <3>3 DEF Step, Start
  <2>3. Collecting(t) /\ tx[t].seen = balance /\ ~OthersOn(t, {"collect", "approve"})
    BY <2>1, <2>2 DEF Collecting, CollectsAlone
  <2>4. ~OthersOn(t, {"collect", "approve"})'
    BY <2>2, <2>3 DEF OthersOn
  <2>5. CASE s = t
    <3>1. ~Commit(s) /\ ~Drop(s) /\ ~StartReject(s)
      <4>1. job'[s].op = "collect"
        BY <2>5 DEF Collecting
      <4>2. Commit(s) \/ Drop(s) => job'[s] = NoJob
        BY DEF Drop, Reject, Abort, Commit, CommitCollect, CommitApprove, Finish, TypeOK
      <4>3. StartReject(s) => job'[s].op = "reject"
        BY DEF StartReject, StartReview, TypeOK, NoJob
      <4> QED BY <4>1, <4>2, <4>3 DEF NoJob
    <3>2. Locking(s) \/ Moving(s)
      BY <1>3, <3>1 DEF Step, Start
    <3>3. tx'[s].seen = tx[s].seen /\ balance' = balance
      <4> USE DEF credit, TypeOK, Tx
      <4>1. CASE ReduceRow(s)
        BY <4>1 DEF ReduceRow
      <4>2. CASE ReduceBalance(s)
        BY <4>2 DEF ReduceBalance
      <4>3. CASE MarkApproved(s)
        BY <4>3 DEF MarkApproved
      <4>4. CASE PayDown(s)
        BY <4>4 DEF PayDown
      <4>5. CASE SettleNext(s)
        BY <4>5 DEF SettleNext
      <4>6. CASE ListOpen(s)
        BY <4>6 DEF ListOpen
      <4>7. CASE SettleDone(s)
        BY <4>7 DEF SettleDone
      <4> QED BY <3>2, <4>1, <4>2, <4>3, <4>4, <4>5, <4>6, <4>7 DEF Locking, Moving
    <3> QED BY <2>3, <2>4, <2>5, <3>3
  <2>6. CASE s # t
    <3>1. tx'[t] = tx[t]
      BY <1>3, <2>6, OthersKept
    <3>2. custLock # s
      BY <2>3, <2>6 DEF MoneyFits, OthersOn, Approving, Collecting
    <3>3. balance' = balance
      BY <1>3, <3>2, BalanceKept
    <3> QED BY <2>3, <2>4, <3>1, <3>3
  <2> QED BY <2>5, <2>6
<1>4. CASE Asked \/ UNCHANGED vars
  BY <1>4 DEF Asked, vars, credit, races, CollectsAlone, Collecting, OthersOn
<1> QED BY <1>1, <1>2, <1>3, <1>4, StepCases

-----------------------------------------------------------------------------
\* A commit takes the same off the balance and off the rows, or leaves no row that
\* owes anything.
LEMMA CoversStep ==
    /\ TypeOK /\ TypeOK' /\ JobsFit /\ LocksFit /\ WritesAccounted /\ MoneyFits /\ CollectsAlone
    /\ BalanceCoversRows /\ [Next]_vars
    => BalanceCoversRows'
<1> SUFFICES ASSUME TypeOK, TypeOK', JobsFit, LocksFit, WritesAccounted, MoneyFits, CollectsAlone,
                    BalanceCoversRows, [Next]_vars, ~overlapped'
             PROVE  Owed' <= balance'
  BY DEF BalanceCoversRows
<1>a. Owed \in Int /\ balance \in Int /\ \A i \in Sales : rem[i] \in Int /\ rem'[i] \in Int
  BY RowsAddUp DEF TypeOK
<1>1. ASSUME NEW s \in Sessions, CommitApprove(s) PROVE Owed' <= balance'
  <2>1. overlapped' = overlapped
    BY <1>1 DEF CommitApprove, races
  <2>2. Approving(s) /\ ~Collecting(s) /\ pc[s] = "commit"
    BY <1>1 DEF CommitApprove, Approving, Collecting
  <2>3. CASE ReducesDebt(job[s].r)
    <3>1. custLock = s /\ Sale(s) \in Sales /\ Debt(s) \in Int
          /\ rem' = [rem EXCEPT ![Sale(s)] = rem[Sale(s)] - Debt(s)]
      BY <1>1, <2>3, ApproveTakes
    <3>2. balance' = balance - Debt(s)
      BY <1>1, <2>2, <3>1 DEF CommitApprove, Install, MoneyFits
    <3>3. /\ rem'[Sale(s)] = rem[Sale(s)] - Debt(s)
          /\ \A i \in Sales \ {Sale(s)} : rem'[i] = rem[i]
      BY <3>1 DEF TypeOK
    <3>4. Owed' = Owed - rem[Sale(s)] + rem'[Sale(s)]
      <4> DEFINE k == Sale(s)
      <4>1. k \in Sales /\ \A i \in Sales \ {k} : rem'[i] = rem[i]
        BY <3>1, <3>3
      <4> HIDE DEF k
      <4>2. SumFunctionOnSet(rem', Sales) = SumFunctionOnSet(rem, Sales) - rem[k] + rem'[k]
        BY <1>a, <4>1, SalesFinite, SumChange
      <4> QED BY <4>2 DEF Owed, k
    <3> QED BY <1>a, <2>1, <3>1, <3>2, <3>3, <3>4 DEF BalanceCoversRows
  <2>4. CASE ~ReducesDebt(job[s].r)
    <3>1. custLock # s
      BY <2>2, <2>4 DEF MoneyFits
    <3>2. rem' = rem /\ balance' = balance
      BY <1>1, <2>4, <3>1, ApproveTakes DEF CommitApprove, Install
    <3> QED BY <2>1, <3>2 DEF BalanceCoversRows, Owed
  <2> QED BY <2>3, <2>4
<1>2. ASSUME NEW s \in Sessions, CommitCollect(s) PROVE Owed' <= balance'
  <2>1. ~overlapped
    BY <1>2 DEF CommitCollect, races
  <2>2. Collecting(s) /\ pc[s] = "commit"
    BY <1>2 DEF CommitCollect, Collecting
  <2>3. custLock = s /\ tx[s].seen = balance
    BY <2>1, <2>2 DEF LocksFit, CollectsAlone
  <2> DEFINE n == job[s].n
             left == tx[s].left
             share == tx[s].share
  <2>4. n \in Int /\ left \in Int /\ \A i \in Sales : share[i] \in Int
    BY DEF TypeOK, Tx, Job
  <2>5. /\ tx[s].balance = tx[s].seen - n /\ n <= tx[s].seen
        /\ left >= 0 /\ left + SumFunctionOnSet(share, Sales) = n
        /\ left > 0 => \A i \in Sales \ tx[s].open : rem[i] - share[i] <= 0
        /\ left = 0 \/ tx[s].open = {}
    BY <2>2, <2>3 DEF MoneyFits
  <2>6. balance' = balance - n /\ n <= balance
    BY <1>2, <2>3, <2>5 DEF CommitCollect, Install
  <2>7. \A i \in Sales : rem'[i] = rem[i] - share[i]
    BY <1>2, CollectTakes
  <2>8. SumFunctionOnSet(share, Sales) \in Int /\ SumFunctionOnSet(rem', Sales) \in Int
    BY <1>a, <2>4, SalesFinite, SumIsInt
  <2>9. Owed = SumFunctionOnSet(rem', Sales) + SumFunctionOnSet(share, Sales)
    <3>1. \A i \in Sales : rem'[i] \in Int /\ share[i] \in Int /\ rem[i] = rem'[i] + share[i]
      BY <1>a, <2>4, <2>7
    <3> HIDE DEF share
    <3> QED BY <3>1, SalesFinite, SumOfTwo DEF Owed
  <2>10. CASE left = 0
    BY <1>a, <2>1, <2>4, <2>5, <2>6, <2>8, <2>9, <2>10 DEF BalanceCoversRows, Owed
  <2>11. CASE left > 0
    <3> DEFINE zero == [i \in Sales |-> 0]
    <3>1. \A i \in Sales : rem'[i] \in Int /\ zero[i] \in Int /\ rem'[i] <= zero[i]
      BY <1>a, <2>5, <2>7, <2>11
    <3>2. SumFunctionOnSet(rem', Sales) <= SumFunctionOnSet(zero, Sales)
      <4> HIDE DEF zero
      <4> QED BY <3>1, SalesFinite, SumMonotone
    <3>3. SumFunctionOnSet(zero, Sales) = 0
      <4>1. \A i \in Sales : zero[i] = 0
        OBVIOUS
      <4> HIDE DEF zero
      <4> QED BY <4>1, SalesFinite, SumZero
    <3>4. SumFunctionOnSet(rem', Sales) <= 0
      BY <3>2, <3>3
    <3> QED BY <1>a, <2>4, <2>6, <2>8, <3>4 DEF Owed
  <2> QED BY <2>4, <2>5, <2>10, <2>11
<1>3. ASSUME NEW s \in Sessions, Start(s) \/ Locking(s) \/ Moving(s) \/ Drop(s)
      PROVE  rem' = rem /\ balance' = balance /\ (overlapped => overlapped')
  <2>1. rem' = rem /\ balance' = balance
    BY <1>3 DEF Start, StartApprove, StartReject, StartCollect, Locking, ReduceRow, ReduceBalance,
            MarkApproved, PayDown, SettleNext, Moving, ListOpen, SettleDone, Drop, Reject, Abort,
            credit
  <2>2. overlapped => overlapped'
    <3>1. CASE StartApprove(s) \/ StartCollect(s)
      BY <3>1 DEF StartApprove, StartCollect, OthersOn, TypeOK
    <3>2. CASE StartReject(s) \/ Locking(s) \/ Moving(s) \/ Drop(s)
      BY <3>2 DEF StartReject, Locking, ReduceRow, ReduceBalance, MarkApproved, PayDown,
              SettleNext, Moving, ListOpen, SettleDone, Drop, Reject, Abort, races
    <3> QED BY <1>3, <3>1, <3>2 DEF Start
  <2> QED BY <2>1, <2>2
<1>4. CASE Asked \/ UNCHANGED vars
  BY <1>4 DEF Asked, vars, credit, races, BalanceCoversRows, Owed
<1>5. CASE rem' = rem /\ balance' = balance /\ (overlapped => overlapped')
  BY <1>5 DEF BalanceCoversRows, Owed
<1> QED BY <1>1, <1>2, <1>3, <1>4, <1>5, StepCases DEF Step, Commit

-----------------------------------------------------------------------------
\* The inductive invariant holds in every reachable state.
THEOREM Inductive == Spec => []IInv
<1>1. IInv /\ [Next]_vars => IInv'
  BY TypeStep, JobsStep, LocksStep, WritesStep, ReviewsStep, AccountsStep, ExecutedStep,
     PaidStep, MoneyStep, AloneStep, CoversStep DEF IInv
<1> QED BY InitIInv, <1>1, PTL DEF Spec

\* Every variable keeps its type.
THEOREM TypeCorrect == Spec => []TypeOK
<1>1. IInv => TypeOK
  BY DEF IInv
<1> QED BY <1>1, Inductive, PTL

\* However returns and collections interleave and fail, a credit row owes what
\* was neither paid nor refunded.
THEOREM RowsAlwaysAccount == Spec => []RowAccounts
<1>1. IInv => RowAccounts
  BY DEF IInv
<1> QED BY <1>1, Inductive, PTL

\* A request whose reviews never overlapped is executed exactly when it is
\* APPROVED, exactly once.
THEOREM ExecutedAsItSays == Spec => []ExecutedAsDecided
<1>1. IInv => ExecutedAsDecided
  BY DEF IInv
<1> QED BY <1>1, Inductive, PTL

\* While no collection overlaps another change of money, what the rows of the
\* customer owe stays within the balance: a refund takes the same off both, and a
\* collection takes more off the balance only when no row owes anything any more.
THEOREM BalanceAlwaysCovers == Spec => []BalanceCoversRows
<1>1. IInv => BalanceCoversRows
  BY DEF IInv
<1> QED BY <1>1, Inductive, PTL
=============================================================================
