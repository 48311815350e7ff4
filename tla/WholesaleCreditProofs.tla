------------------------ MODULE WholesaleCreditProofs ------------------------
(* Proofs about WholesaleCredit, for any customers, sessions and invoices.  *)
(* IInv is inductive; the properties of the interleaved run follow from it. *)
EXTENDS CreditBooks, SumTheorems, FiniteSetTheorems, TLAPS

\* What the assumptions say of single amounts and limits.
LEMMA Numbers == /\ \A a \in Amounts : a \in Nat /\ a > 0
                 /\ \A l \in Limits : l \in Nat /\ l > 0
  BY AmountsPositive, LimitsPositive

\* The placeholders are values of their types.
LEMMA PlaceholdersTyped == NoRow \in Row /\ NoRequest \in Request /\ NoTx \in Tx
<1>1. 0 \in Days
  BY BoundsNatural DEF Days
<1>2. NoRow \in Row
  BY <1>1 DEF NoRow, Row, Statuses
<1>3. NoRequest \in Request
  BY DEF NoRequest, Request, Types, NoDue, Unset
<1>4. NoTx \in Tx
  BY <1>2 DEF NoTx, Tx
<1> QED BY <1>2, <1>3, <1>4

\* Ending a request keeps the session variables typed.
LEMMA FinishTyped ==
    ASSUME TypeOK, NEW s \in Sessions, Finish(s)
    PROVE  /\ pc' \in [Sessions -> Steps] /\ req' \in [Sessions -> Request]
           /\ tx' \in [Sessions -> Tx] /\ lock' \in [Customers -> Sessions \cup {Nobody}]
  BY PlaceholdersTyped DEF TypeOK, Finish, Steps

\* An invoice as it is issued, and one as a settlement writes it, are rows.
LEMMA NewRowTyped ==
    ASSUME NEW c \in Customers, NEW d \in Days, NEW a \in Nat
    PROVE  NewRow(c, d, a) \in Row
  BY DEF NewRow, Row, Statuses

LEMMA SettledTyped ==
    ASSUME TypeOK, NEW i \in Invoices, NEW rem \in Nat, NEW left \in Nat
    PROVE  Settled(i, rem, left) \in Row /\ Rest(left, rem) \in Nat
<1>1. invoice[i] \in Row
  BY DEF TypeOK
<1>2. CASE left >= rem
  <2>1. left - rem \in Nat
    BY <1>2
  <2> QED BY <1>1, <1>2, <2>1 DEF Settled, Rest, Row, Statuses
<1>3. CASE ~(left >= rem)
  <2>1. rem - left \in Nat
    BY <1>3
  <2> QED BY <1>1, <1>3, <2>1 DEF Settled, Rest, Row, Statuses
<1> QED BY <1>2, <1>3

-----------------------------------------------------------------------------
LEMMA InitIInv == Init => IInv
<1> SUFFICES ASSUME Init PROVE IInv
  OBVIOUS
<1>1. TypeOK
  <2>1. ctype \in [Customers -> Types] /\ profiled \in [Customers -> BOOLEAN]
    BY DEF Init
  <2>2. /\ limit \in [Customers -> Nat] /\ balance \in [Customers -> Nat]
        /\ charged \in [Customers -> Nat] /\ collected \in [Customers -> Nat]
        /\ payments \in [Customers -> Nat]
    <3>1. \A a \in Amounts \cup {0} : a \in Nat
      BY Numbers
    <3>2. \A l \in Limits \cup {0} : l \in Nat
      BY Numbers
    <3>3. limit \in [Customers -> Nat] /\ balance \in [Customers -> Nat]
      BY <3>1, <3>2 DEF Init
    <3> QED BY <3>3 DEF Init
  <2>3. invoice \in [Invoices -> Row] /\ now \in Days
    BY PlaceholdersTyped, BoundsNatural DEF Init, Days
  <2>4. /\ lock \in [Customers -> Sessions \cup {Nobody}] /\ pc \in [Sessions -> Steps]
        /\ req \in [Sessions -> Request] /\ tx \in [Sessions -> Tx]
    BY PlaceholdersTyped DEF Init, Steps
  <2> QED BY <2>1, <2>2, <2>3, <2>4 DEF TypeOK
<1>2. WholesaleProfiled
  BY DEF Init, WholesaleProfiled
<1>3. StatusMatchesBalance
  BY DEF Init, StatusMatchesBalance, RowShape, NoRow
<1>4. LockDiscipline
  BY NobodyIsNew DEF Init, LockDiscipline, LockSteps
<1>5. LocalsFit
  BY DEF Init, LocalsFit
<1>6. DraftFit
  BY DEF Init, DraftFit, Written, NoTx, NoRow
<1>7. SettlementFresh
  BY DEF Init, SettlementFresh
<1> QED BY <1>1, <1>2, <1>3, <1>4, <1>5, <1>6, <1>7 DEF IInv

-----------------------------------------------------------------------------
\* Every step keeps every variable in its type.
LEMMA TypeStep == IInv /\ [Next]_vars => TypeOK'
<1> SUFFICES ASSUME IInv, [Next]_vars PROVE TypeOK'
  OBVIOUS
<1> USE DEF Cust, Goto
<1>0. TypeOK /\ LocalsFit
  BY DEF IInv
<1>1. ASSUME NEW s \in Sessions, StartCheckout(s) PROVE TypeOK'
  <2>1. PICK c \in Customers, a \in Amounts, d \in Days \cup {NoDue}, o \in BOOLEAN :
            /\ charged[c] + a <= MaxCharged
            /\ d # NoDue => RoomForInvoice
            /\ ctype[c] = "WHOLESALE"
            /\ profiled[c] => WithinLimit(c, a)
            /\ req' = [req EXCEPT ![s] = [NoRequest EXCEPT !.op = "checkout", !.cust = c,
                                            !.amount = a, !.due = d, !.override = o]]
            /\ Goto(s, IF profiled[c] THEN "overdue" ELSE "issue")
    BY <1>1 DEF StartCheckout
  <2>2. req' \in [Sessions -> Request]
    BY <1>0, <2>1, PlaceholdersTyped, AmountsPositive DEF TypeOK, Request, NoRequest
  <2>3. pc' \in [Sessions -> Steps]
    BY <1>0, <1>1 DEF TypeOK, StartCheckout, Steps
  <2> QED BY <1>0, <1>1, <2>2, <2>3 DEF TypeOK, StartCheckout, customerVars, history
<1>2. ASSUME NEW s \in Sessions, CheckOverdue(s) PROVE TypeOK'
  BY <1>0, <1>2 DEF TypeOK, CheckOverdue, customerVars, history, Steps
<1>3. ASSUME NEW s \in Sessions, RefuseOverdue(s) PROVE TypeOK'
  BY <1>0, <1>3, FinishTyped DEF TypeOK, RefuseOverdue, customerVars, history
<1>4. ASSUME NEW s \in Sessions, RaiseBalance(s) PROVE TypeOK'
  <2>1. Cust(s) \in Customers /\ Raised(Cust(s), req[s].amount) \in Nat
    BY <1>0, <1>4 DEF TypeOK, RaiseBalance, LocalsFit, Raised, Request
  <2>2. tx' \in [Sessions -> Tx]
    BY <1>0, <1>4, <2>1 DEF TypeOK, RaiseBalance, Tx
  <2> QED BY <1>0, <1>4, <2>1, <2>2 DEF TypeOK, RaiseBalance, customerVars, history, Steps
<1>5. ASSUME NEW s \in Sessions, IssueInvoice(s) PROVE TypeOK'
  <2>1. tx' \in [Sessions -> Tx]
    <3>1. CASE UNCHANGED tx
      BY <1>0, <3>1 DEF TypeOK
    <3>2. CASE req[s].due # NoDue /\ ~UNCHANGED tx
      <4>1. PICK i \in Invoices :
              tx' = [tx EXCEPT ![s].draft[i] = NewRow(Cust(s), req[s].due, req[s].amount)]
        BY <1>5, <3>2 DEF IssueInvoice
      <4>2. NewRow(Cust(s), req[s].due, req[s].amount) \in Row
        BY <1>0, <1>5, <3>2, NewRowTyped DEF TypeOK, LocalsFit, IssueInvoice, Request
      <4> QED BY <1>0, <4>1, <4>2 DEF TypeOK, Tx
    <3> QED BY <1>5, <3>1, <3>2 DEF IssueInvoice
  <2> QED BY <1>0, <1>5, <2>1 DEF TypeOK, IssueInvoice, customerVars, history, Steps
<1>6. ASSUME NEW s \in Sessions, StartCollect(s) PROVE TypeOK'
  <2>1. PICK c \in Customers, a \in Amounts :
          /\ req' = [req EXCEPT ![s] = [NoRequest EXCEPT !.op = "collect", !.cust = c,
                                                         !.amount = a]]
          /\ tx' = [tx EXCEPT ![s].seen = balance[c]]
    BY <1>6 DEF StartCollect
  <2>2. req' \in [Sessions -> Request]
    BY <1>0, <2>1, PlaceholdersTyped, AmountsPositive DEF TypeOK, Request, NoRequest
  <2>3. tx' \in [Sessions -> Tx]
    BY <1>0, <2>1 DEF TypeOK, Tx
  <2> QED BY <1>0, <1>6, <2>2, <2>3 DEF TypeOK, StartCollect, customerVars, history, Steps
<1>7. ASSUME NEW s \in Sessions, PayDown(s) PROVE TypeOK'
  <2>1. Cust(s) \in Customers /\ tx[s].seen - req[s].amount \in Nat
    BY <1>0, <1>7 DEF TypeOK, PayDown, LocalsFit, Request, Tx
  <2>2. tx' \in [Sessions -> Tx]
    BY <1>0, <1>7, <2>1 DEF TypeOK, PayDown, Tx
  <2> QED BY <1>0, <1>7, <2>1, <2>2 DEF TypeOK, PayDown, customerVars, history, Steps
<1>8. ASSUME NEW s \in Sessions, ListOpen(s) PROVE TypeOK'
  <2> DEFINE open == OpenInvoices(Cust(s))
             snap == [i \in Invoices |-> IF i \in open THEN RecordBalance(i) ELSE 0]
  <2>1. open \in SUBSET Invoices /\ req[s].amount \in Nat
    BY <1>0 DEF OpenInvoices, InvoicesOf, TypeOK, Request
  <2>2. snap \in [Invoices -> Nat]
    BY <1>0 DEF TypeOK, Row, RecordBalance
  <2>3. tx' = [tx EXCEPT ![s] = [@ EXCEPT !.left = req[s].amount, !.open = open,
                                             !.snap = snap]]
    BY <1>8 DEF ListOpen
  <2>4. tx' \in [Sessions -> Tx]
    <3> HIDE DEF open, snap
    <3>1. tx[s] \in Tx
      BY <1>0 DEF TypeOK
    <3>2. [tx[s] EXCEPT !.left = req[s].amount, !.open = open, !.snap = snap] \in Tx
      BY <2>1, <2>2, <3>1 DEF Tx
    <3> QED BY <1>0, <2>3, <3>2 DEF TypeOK
  <2> QED BY <1>0, <1>8, <2>4 DEF TypeOK, ListOpen, customerVars, history, Steps
<1>9. ASSUME NEW s \in Sessions, SettleNext(s) PROVE TypeOK'
  <2>1. PICK i \in Oldest(tx[s].open) :
          tx' = [tx EXCEPT ![s] =
                   [@ EXCEPT !.left     = Rest(tx[s].left, tx[s].snap[i]),
                             !.open     = tx[s].open \ {i},
                             !.draft[i] = Settled(i, tx[s].snap[i], tx[s].left)]]
    BY <1>9 DEF SettleNext
  <2>2. i \in Invoices /\ tx[s].snap[i] \in Nat /\ tx[s].left \in Nat
    BY <1>0 DEF TypeOK, Tx, Oldest
  <2>3. /\ Rest(tx[s].left, tx[s].snap[i]) \in Nat
        /\ Settled(i, tx[s].snap[i], tx[s].left) \in Row
    BY <1>0, <2>2, SettledTyped
  <2>4. tx' \in [Sessions -> Tx]
    <3>1. tx[s] \in Tx
      BY <1>0 DEF TypeOK
    <3>2. [tx[s] EXCEPT !.left = Rest(tx[s].left, tx[s].snap[i]),
                        !.open = tx[s].open \ {i},
                        !.draft[i] = Settled(i, tx[s].snap[i], tx[s].left)] \in Tx
      BY <2>2, <2>3, <3>1 DEF Tx
    <3> QED BY <1>0, <2>1, <3>2 DEF TypeOK
  <2> QED BY <1>0, <1>9, <2>4 DEF TypeOK, SettleNext, customerVars, history
<1>10. ASSUME NEW s \in Sessions, SettleDone(s) PROVE TypeOK'
  BY <1>0, <1>10 DEF TypeOK, SettleDone, customerVars, history, Steps
<1>11. ASSUME NEW s \in Sessions, Commit(s) PROVE TypeOK'
  <2>1. invoice' \in [Invoices -> Row] /\ balance' \in [Customers -> Nat]
    BY <1>0, <1>11 DEF TypeOK, Commit, Tx
  <2>2. /\ charged' \in [Customers -> Nat] /\ collected' \in [Customers -> Nat]
        /\ payments' \in [Customers -> Nat]
    <3>1. Cust(s) \in Customers /\ req[s].amount \in Nat
      BY <1>0, <1>11 DEF Commit, LocalsFit, TypeOK, Request
    <3> QED BY <1>0, <1>11, <3>1 DEF TypeOK, Commit
  <2> QED BY <1>0, <1>11, <2>1, <2>2, FinishTyped DEF TypeOK, Commit
<1>12. ASSUME NEW s \in Sessions, StartUpdate(s) PROVE TypeOK'
  <2>1. PICK c \in Customers, t \in Types \cup {"UNSET"}, l \in Limits \cup {Unset} :
          req' = [req EXCEPT ![s] = [NoRequest EXCEPT !.op = "update", !.cust = c,
                                       !.ctype = t, !.limit = l]]
    BY <1>12 DEF StartUpdate
  <2>2. req' \in [Sessions -> Request]
    BY <1>0, <2>1, PlaceholdersTyped DEF TypeOK, Request, NoRequest
  <2>3. pc' \in [Sessions -> Steps]
    BY <1>0, <1>12 DEF TypeOK, StartUpdate, Steps
  <2> QED BY <1>0, <1>12, <2>2, <2>3 DEF TypeOK, StartUpdate, customerVars, history
<1>13. ASSUME NEW s \in Sessions, CountPayments(s) PROVE TypeOK'
  BY <1>0, <1>13 DEF TypeOK, CountPayments, customerVars, history, Steps
<1>14. ASSUME NEW s \in Sessions, ApplyUpsert(s) PROVE TypeOK'
  <2>1. Cust(s) \in Customers /\ req[s].limit \in Nat
    <3>1. req[s] \in Request
      BY <1>0 DEF TypeOK
    <3>2. req[s].limit \in Limits \cup {0}
      BY <3>1 DEF Request, Unset
    <3>3. Cust(s) \in Customers
      BY <1>0, <1>14 DEF ApplyUpsert, LocalsFit
    <3>4. req[s].limit \in Nat
      BY <3>2, Numbers
    <3> QED BY <3>3, <3>4
  <2>2. Retyped(Cust(s), req[s].ctype) \in [Customers -> Types]
    BY <1>0, <2>1 DEF Retyped, TypeOK, Request
  <2> QED BY <1>0, <1>14, <2>1, <2>2, FinishTyped DEF TypeOK, ApplyUpsert, history
<1>15. ASSUME NEW s \in Sessions, ApplyRetain(s) PROVE TypeOK'
  <2>1. Retyped(Cust(s), "RETAIL") \in [Customers -> Types]
    BY <1>0 DEF Retyped, TypeOK, Types
  <2> QED BY <1>0, <1>15, <2>1, FinishTyped DEF TypeOK, ApplyRetain, history
<1>16. ASSUME NEW s \in Sessions, ApplyDelete(s) PROVE TypeOK'
  <2>1. Retyped(Cust(s), "RETAIL") \in [Customers -> Types]
    BY <1>0 DEF Retyped, TypeOK, Types
  <2> QED BY <1>0, <1>16, <2>1, FinishTyped DEF TypeOK, ApplyDelete, history
<1>17. ASSUME NEW s \in Sessions, ProfileGone(s) PROVE TypeOK'
  BY <1>0, <1>17, FinishTyped DEF TypeOK, ProfileGone, customerVars, history
<1>18. ASSUME NEW s \in Sessions, Abort(s) PROVE TypeOK'
  BY <1>0, <1>18, FinishTyped DEF TypeOK, Abort, customerVars, history
<1>19. CASE MarkOverdue
  BY <1>0, <1>19 DEF TypeOK, MarkOverdue, customerVars, history, session, Row, Statuses
<1>20. CASE Tick
  BY <1>0, <1>20, BoundsNatural DEF TypeOK, Tick, customerVars, history, session, Days
<1>21. CASE UNCHANGED vars
  BY <1>0, <1>21 DEF TypeOK, vars
<1> QED
  BY <1>1, <1>2, <1>3, <1>4, <1>5, <1>6, <1>7, <1>8, <1>9, <1>10, <1>11, <1>12, <1>13,
     <1>14, <1>15, <1>16, <1>17, <1>18, <1>19, <1>20, <1>21
     DEF Next, Begin, Continue, Checkout, Collect, Update

-----------------------------------------------------------------------------
\* Only the three ways to apply an update write the type or the profile.
LEMMA ProfileWriters ==
    ASSUME [Next]_vars,
           ~(\E s \in Sessions : ApplyUpsert(s) \/ ApplyRetain(s) \/ ApplyDelete(s))
    PROVE  UNCHANGED <<ctype, profiled>>
  BY DEF Next, Begin, Continue, Checkout, Collect, Update, vars, StartCheckout, CheckOverdue,
     RefuseOverdue, RaiseBalance, IssueInvoice, StartCollect, PayDown, ListOpen, SettleNext,
     SettleDone, Commit, StartUpdate, CountPayments, ProfileGone, Abort, MarkOverdue, Tick,
     customerVars

LEMMA ProfiledStep == IInv /\ [Next]_vars => WholesaleProfiled'
<1> SUFFICES ASSUME IInv, [Next]_vars PROVE WholesaleProfiled'
  OBVIOUS
<1>0. TypeOK /\ WholesaleProfiled
  BY DEF IInv
<1>1. ASSUME NEW s \in Sessions, ApplyUpsert(s) PROVE WholesaleProfiled'
  BY <1>0, <1>1 DEF TypeOK, WholesaleProfiled, ApplyUpsert, Retyped, Cust
<1>2. ASSUME NEW s \in Sessions, ApplyRetain(s) PROVE WholesaleProfiled'
  BY <1>0, <1>2 DEF TypeOK, WholesaleProfiled, ApplyRetain, Retyped, Cust
<1>3. ASSUME NEW s \in Sessions, ApplyDelete(s) PROVE WholesaleProfiled'
  BY <1>0, <1>3 DEF TypeOK, WholesaleProfiled, ApplyDelete, Retyped, Cust
<1>4. CASE UNCHANGED <<ctype, profiled>>
  BY <1>0, <1>4 DEF WholesaleProfiled
<1> QED BY <1>1, <1>2, <1>3, <1>4, ProfileWriters

-----------------------------------------------------------------------------
\* Only a commit and the overdue scan write committed invoices.
LEMMA InvoiceWriters ==
    ASSUME [Next]_vars, ~(\E s \in Sessions : Commit(s)), ~MarkOverdue
    PROVE  UNCHANGED invoice
  BY DEF Next, Begin, Continue, Checkout, Collect, Update, vars, StartCheckout, CheckOverdue,
     RefuseOverdue, RaiseBalance, IssueInvoice, StartCollect, PayDown, ListOpen, SettleNext,
     SettleDone, StartUpdate, CountPayments, ApplyUpsert, ApplyRetain, ApplyDelete,
     ProfileGone, Abort, Tick

LEMMA StatusStep == IInv /\ [Next]_vars => StatusMatchesBalance'
<1> SUFFICES ASSUME IInv, [Next]_vars PROVE StatusMatchesBalance'
  OBVIOUS
<1>0. TypeOK /\ StatusMatchesBalance /\ DraftFit
  BY DEF IInv
<1>1. ASSUME NEW s \in Sessions, Commit(s) PROVE StatusMatchesBalance'
  <2> SUFFICES ASSUME NEW i \in Invoices PROVE RowShape(invoice'[i])
    BY DEF StatusMatchesBalance
  <2>1. invoice'[i] = IF Written(s, i) THEN tx[s].draft[i] ELSE invoice[i]
    BY <1>1 DEF Commit
  <2>2. Written(s, i) => RowShape(tx[s].draft[i])
    BY <1>0 DEF DraftFit
  <2>3. RowShape(invoice[i])
    BY <1>0 DEF StatusMatchesBalance
  <2> QED BY <2>1, <2>2, <2>3
<1>2. CASE MarkOverdue
  <2> SUFFICES ASSUME NEW i \in Invoices PROVE RowShape(invoice'[i])
    BY DEF StatusMatchesBalance
  <2>1. invoice[i] \in Row /\ RowShape(invoice[i])
    BY <1>0 DEF TypeOK, StatusMatchesBalance
  <2>2. CASE PastDue(i)
    <3>1. invoice'[i] = [invoice[i] EXCEPT !.status = "OVERDUE"]
      BY <1>2, <2>2 DEF MarkOverdue
    <3> QED BY <2>1, <2>2, <3>1 DEF PastDue, RowShape, Row
  <2>3. CASE ~PastDue(i)
    <3>1. invoice'[i] = invoice[i]
      BY <1>2, <2>3 DEF MarkOverdue
    <3> QED BY <2>1, <3>1
  <2> QED BY <2>2, <2>3
<1>3. CASE UNCHANGED invoice
  BY <1>0, <1>3 DEF StatusMatchesBalance
<1> QED BY <1>1, <1>2, <1>3, InvoiceWriters

-----------------------------------------------------------------------------
\* Ending a request releases exactly its own lock.
LEMMA FinishLock ==
    ASSUME IInv, NEW s \in Sessions, Finish(s)
    PROVE  LockDiscipline'
<1>1. TypeOK /\ LockDiscipline
  BY DEF IInv
<1>2. ASSUME NEW c \in Customers, NEW t \in Sessions, lock'[c] = t
      PROVE  req'[t].cust = c /\ pc'[t] \in LockSteps
  <2>1. lock[c] = t /\ t # s
    BY <1>2, NobodyIsNew DEF Finish
  <2> QED BY <1>1, <2>1 DEF Finish, LockDiscipline, TypeOK, Cust
<1>3. ASSUME NEW t \in Sessions, pc'[t] \in LockSteps
      PROVE  lock'[req'[t].cust] = t
  <2>1. t # s
    BY <1>1, <1>3 DEF Finish, TypeOK, LockSteps
  <2>2. pc'[t] = pc[t] /\ req'[t] = req[t]
    BY <1>1, <2>1 DEF Finish, TypeOK
  <2>3. lock[req[t].cust] = t /\ req[t].cust \in Customers
    BY <1>3, <2>2 DEF IInv, LockDiscipline, LocalsFit, Cust, LockSteps
  <2> QED BY <2>1, <2>2, <2>3 DEF Finish
<1> QED BY <1>2, <1>3 DEF LockDiscipline, Cust

\* A step that neither moves a lock nor a session into or out of the locked part.
LEMMA LockKept ==
    ASSUME IInv, NEW s \in Sessions, NEW step, pc' = [pc EXCEPT ![s] = step],
           pc[s] \in LockSteps <=> step \in LockSteps, pc[s] \in LockSteps => req'[s] = req[s],
           \A t \in Sessions \ {s} : req'[t] = req[t], UNCHANGED lock
    PROVE  LockDiscipline'
<1>1. TypeOK /\ LockDiscipline
  BY DEF IInv
<1>2. ASSUME NEW t \in Sessions
      PROVE  /\ pc'[t] \in LockSteps <=> pc[t] \in LockSteps
             /\ pc[t] \in LockSteps => req'[t] = req[t]
  BY <1>1 DEF TypeOK
<1> QED BY <1>1, <1>2 DEF LockDiscipline, Cust

LEMMA LockStep == IInv /\ [Next]_vars => LockDiscipline'
<1> SUFFICES ASSUME IInv, [Next]_vars PROVE LockDiscipline'
  OBVIOUS
<1>0. TypeOK /\ LockDiscipline /\ LocalsFit /\ WholesaleProfiled
  BY DEF IInv
<1>1. ASSUME NEW s \in Sessions, StartCheckout(s) PROVE LockDiscipline'
  <2>1. pc' = [pc EXCEPT ![s] = "overdue"]
    BY <1>0, <1>1 DEF StartCheckout, Goto, WholesaleProfiled
  <2> QED BY <1>0, <1>1, <2>1, LockKept DEF StartCheckout, LockSteps, TypeOK
<1>2. ASSUME NEW s \in Sessions, CheckOverdue(s) PROVE LockDiscipline'
  BY <1>2, LockKept DEF CheckOverdue, Goto, LockSteps
<1>3. ASSUME NEW s \in Sessions, RaiseBalance(s) \/ PayDown(s) PROVE LockDiscipline'
  <2>1. PICK step \in {"issue", "list"} : pc' = [pc EXCEPT ![s] = step]
    BY <1>3 DEF RaiseBalance, PayDown, Goto
  <2>2. /\ pc[s] \notin LockSteps /\ LockFree(Cust(s), s) /\ Cust(s) \in Customers
        /\ lock' = [lock EXCEPT ![Cust(s)] = s] /\ UNCHANGED req
    BY <1>0, <1>3 DEF RaiseBalance, PayDown, LockSteps, LocalsFit
  <2>3. lock[Cust(s)] = Nobody
    BY <1>0, <2>2, NobodyIsNew DEF LockFree, LockDiscipline
  <2> QED BY <1>0, <2>1, <2>2, <2>3, NobodyIsNew DEF LockDiscipline, LockSteps, TypeOK, Cust
<1>4. ASSUME NEW s \in Sessions, IssueInvoice(s) PROVE LockDiscipline'
  BY <1>4, LockKept DEF IssueInvoice, Goto, LockSteps
<1>5. ASSUME NEW s \in Sessions, StartCollect(s) PROVE LockDiscipline'
  BY <1>0, <1>5, LockKept DEF StartCollect, Goto, LockSteps, TypeOK
<1>6. ASSUME NEW s \in Sessions, ListOpen(s) PROVE LockDiscipline'
  BY <1>6, LockKept DEF ListOpen, Goto, LockSteps
<1>7. ASSUME NEW s \in Sessions, SettleNext(s) PROVE LockDiscipline'
  BY <1>0, <1>7 DEF SettleNext, LockDiscipline, Cust
<1>8. ASSUME NEW s \in Sessions, SettleDone(s) PROVE LockDiscipline'
  BY <1>8, LockKept DEF SettleDone, Goto, LockSteps
<1>9. ASSUME NEW s \in Sessions, StartUpdate(s) PROVE LockDiscipline'
  <2>1. PICK step \in {"upsert", "count", "retain"} : pc' = [pc EXCEPT ![s] = step]
    BY <1>9 DEF StartUpdate, Goto
  <2>2. pc[s] = "idle" /\ UNCHANGED lock /\ \A t \in Sessions \ {s} : req'[t] = req[t]
    BY <1>0, <1>9 DEF StartUpdate, TypeOK
  <2> QED BY <2>1, <2>2, LockKept DEF LockSteps
<1>10. ASSUME NEW s \in Sessions, CountPayments(s) PROVE LockDiscipline'
  <2>1. PICK step \in {"retain", "delete"} : pc' = [pc EXCEPT ![s] = step]
    BY <1>10 DEF CountPayments, Goto
  <2> QED BY <1>10, <2>1, LockKept DEF CountPayments, LockSteps
<1>11. ASSUME NEW s \in Sessions, Finish(s) PROVE LockDiscipline'
  BY <1>11, FinishLock
<1>12. CASE MarkOverdue \/ Tick \/ UNCHANGED vars
  BY <1>0, <1>12 DEF MarkOverdue, Tick, vars, session, LockDiscipline, Cust
<1> QED
  BY <1>1, <1>2, <1>3, <1>4, <1>5, <1>6, <1>7, <1>8, <1>9, <1>10, <1>11, <1>12
     DEF Next, Begin, Continue, Checkout, Collect, Update, RefuseOverdue, Commit, ApplyUpsert,
         ApplyRetain, ApplyDelete, ProfileGone, Abort

-----------------------------------------------------------------------------
\* What LocalsFit says of one session.
Fits(s) == /\ pc[s] = "idle" => tx[s] = NoTx /\ req[s] = NoRequest
           /\ pc[s] # "idle" => req[s].cust \in Customers
           /\ pc[s] \in {"overdue", "raise", "issue"} => req[s].op = "checkout" /\ req[s].amount > 0
           /\ pc[s] = "pay" => req[s].amount <= tx[s].seen

\* A step of one session leaves the locals of the others alone.
LEMMA OthersKept ==
    ASSUME [Next]_vars, TypeOK
    PROVE  \/ UNCHANGED session
           \/ \E s \in Sessions :
                 /\ Begin(s) \/ Continue(s) \/ Abort(s)
                 /\ \A t \in Sessions \ {s} : pc'[t] = pc[t] /\ req'[t] = req[t] /\ tx'[t] = tx[t]
<1>1. ASSUME NEW s \in Sessions, Begin(s) \/ Continue(s) \/ Abort(s)
      PROVE  \A t \in Sessions \ {s} : pc'[t] = pc[t] /\ req'[t] = req[t] /\ tx'[t] = tx[t]
  <2>1. ASSUME Finish(s)
        PROVE  \A t \in Sessions \ {s} : pc'[t] = pc[t] /\ req'[t] = req[t] /\ tx'[t] = tx[t]
    BY <2>1 DEF Finish, TypeOK
  <2>2. CASE StartCheckout(s) \/ StartCollect(s) \/ StartUpdate(s)
    BY <2>2 DEF StartCheckout, StartCollect, StartUpdate, Goto, TypeOK
  <2>3. CASE CheckOverdue(s) \/ RaiseBalance(s) \/ IssueInvoice(s)
    BY <2>3 DEF CheckOverdue, RaiseBalance, IssueInvoice, Goto, TypeOK
  <2>4. CASE PayDown(s) \/ ListOpen(s) \/ SettleNext(s) \/ SettleDone(s) \/ CountPayments(s)
    BY <2>4 DEF PayDown, ListOpen, SettleNext, SettleDone, CountPayments, Goto, TypeOK
  <2> QED
    BY <1>1, <2>1, <2>2, <2>3, <2>4 DEF Begin, Continue, Checkout, Collect, Update, RefuseOverdue,
       Commit, ApplyUpsert, ApplyRetain, ApplyDelete, ProfileGone, Abort
<1> QED BY <1>1 DEF Next, vars, session, MarkOverdue, Tick

\* The steps there are: of the clock, of the scan, or of one session alone.
LEMMA StepCases ==
    ASSUME [Next]_vars, TypeOK
    PROVE  \/ MarkOverdue \/ Tick \/ UNCHANGED vars
           \/ \E s \in Sessions :
                 /\ Begin(s) \/ Continue(s) \/ Abort(s)
                 /\ \A t \in Sessions \ {s} : pc'[t] = pc[t] /\ req'[t] = req[t] /\ tx'[t] = tx[t]
<1>1. ASSUME NEW s \in Sessions, Begin(s) \/ Continue(s) \/ Abort(s), UNCHANGED session
      PROVE  \A t \in Sessions \ {s} : pc'[t] = pc[t] /\ req'[t] = req[t] /\ tx'[t] = tx[t]
  BY <1>1 DEF session
<1> QED BY <1>1, OthersKept DEF Next

LEMMA LocalsStep == IInv /\ [Next]_vars => LocalsFit'
<1> SUFFICES ASSUME IInv, [Next]_vars PROVE LocalsFit'
  OBVIOUS
<1>0. TypeOK /\ WholesaleProfiled /\ \A s \in Sessions : Fits(s)
  BY DEF IInv, LocalsFit, Fits, Cust
<1>1. CASE UNCHANGED session
  BY <1>0, <1>1 DEF session, LocalsFit, Fits, Cust
<1>2. ASSUME NEW s \in Sessions, Begin(s) \/ Continue(s) \/ Abort(s),
             \A t \in Sessions \ {s} : pc'[t] = pc[t] /\ req'[t] = req[t] /\ tx'[t] = tx[t]
      PROVE  LocalsFit'
  <2>0. SUFFICES Fits(s)'
    BY <1>0, <1>2 DEF LocalsFit, Fits, Cust
  <2>1. CASE StartCheckout(s)
    <3>1. PICK c \in Customers, a \in Amounts, d \in Days \cup {NoDue}, o \in BOOLEAN :
            /\ charged[c] + a <= MaxCharged
            /\ d # NoDue => RoomForInvoice
            /\ ctype[c] = "WHOLESALE"
            /\ profiled[c] => WithinLimit(c, a)
            /\ req' = [req EXCEPT ![s] = [NoRequest EXCEPT !.op = "checkout", !.cust = c,
                                            !.amount = a, !.due = d, !.override = o]]
            /\ Goto(s, IF profiled[c] THEN "overdue" ELSE "issue")
      BY <2>1 DEF StartCheckout
    <3>2. pc'[s] = "overdue"
      BY <1>0, <3>1 DEF WholesaleProfiled, Goto, TypeOK
    <3>3. req'[s].op = "checkout" /\ req'[s].cust = c /\ req'[s].amount = a
      BY <1>0, <3>1 DEF TypeOK, NoRequest
    <3> QED BY <3>2, <3>3, Numbers DEF Fits
  <2>2. CASE StartCollect(s)
    <3>1. PICK c \in Customers, a \in Amounts :
            /\ a <= balance[c]
            /\ req' = [req EXCEPT ![s] = [NoRequest EXCEPT !.op = "collect", !.cust = c,
                                                           !.amount = a]]
            /\ tx' = [tx EXCEPT ![s].seen = balance[c]]
      BY <2>2 DEF StartCollect, Payable
    <3>2. pc'[s] = "pay"
      BY <1>0, <2>2 DEF StartCollect, Goto, TypeOK
    <3>3. req'[s].cust = c /\ req'[s].amount = a /\ tx'[s].seen = balance[c]
      BY <1>0, <3>1 DEF TypeOK, NoRequest, Tx
    <3> QED BY <3>1, <3>2, <3>3 DEF Fits
  <2>3. CASE StartUpdate(s)
    <3>1. PICK c \in Customers, t \in Types \cup {"UNSET"}, l \in Limits \cup {Unset} :
            req' = [req EXCEPT ![s] = [NoRequest EXCEPT !.op = "update", !.cust = c,
                                         !.ctype = t, !.limit = l]]
      BY <2>3 DEF StartUpdate
    <3>2. req'[s].cust = c
      BY <1>0, <3>1 DEF TypeOK, NoRequest
    <3>3. pc'[s] \in {"upsert", "count", "retain"}
      BY <1>0, <2>3 DEF StartUpdate, Goto, TypeOK
    <3> QED BY <3>2, <3>3 DEF Fits
  <2>4. CASE Finish(s)
    BY <1>0, <2>4 DEF Finish, Fits, TypeOK
  <2>5. CASE CheckOverdue(s)
    BY <1>0, <2>5 DEF CheckOverdue, Goto, Fits, TypeOK
  <2>6. CASE RaiseBalance(s)
    BY <1>0, <2>6 DEF RaiseBalance, Goto, Fits, TypeOK
  <2>7. CASE PayDown(s) \/ ListOpen(s) \/ IssueInvoice(s)
    BY <1>0, <2>7 DEF PayDown, ListOpen, IssueInvoice, Goto, Fits, TypeOK
  <2>8. CASE SettleNext(s) \/ SettleDone(s)
    BY <1>0, <2>8 DEF SettleNext, SettleDone, Goto, Fits, TypeOK
  <2>9. CASE CountPayments(s)
    BY <1>0, <2>9 DEF CountPayments, Goto, Fits, TypeOK
  <2> QED
    BY <1>2, <2>1, <2>2, <2>3, <2>4, <2>5, <2>6, <2>7, <2>8, <2>9 DEF Begin, Continue, Checkout,
       Collect, Update, RefuseOverdue, Commit, ApplyUpsert, ApplyRetain, ApplyDelete,
       ProfileGone, Abort
<1> QED BY <1>0, <1>1, <1>2, OthersKept
-----------------------------------------------------------------------------
\* What DraftFit says of invoice i in the draft of session s.
DraftOk(s, i) ==
    /\ pc[s] \in {"settle", "commit"}
    /\ RowShape(tx[s].draft[i])
    /\ tx[s].draft[i].cust = req[s].cust
    /\ invoice[i].status # "NONE" =>
          /\ invoice[i].status \in OpenStatuses
          /\ invoice[i].cust = tx[s].draft[i].cust
          /\ invoice[i].due = tx[s].draft[i].due
          /\ invoice[i].amount = tx[s].draft[i].amount
          /\ tx[s].draft[i].rem <= invoice[i].rem
    /\ RowFree(i, s)

LEMMA DraftFitIs == DraftFit <=> \A s \in Sessions, i \in Invoices : Written(s, i) => DraftOk(s, i)
  BY DEF DraftFit, DraftOk, Cust

\* Steps that write neither drafts nor invoices.
LEMMA DraftKept ==
    ASSUME DraftFit, UNCHANGED invoice,
           \A t \in Sessions : /\ tx'[t].draft = tx[t].draft
                               /\ pc[t] \in {"settle", "commit"} =>
                                     pc'[t] \in {"settle", "commit"} /\ req'[t] = req[t]
    PROVE  DraftFit'
<1>1. \A t \in Sessions, i \in Invoices : Written(t, i)' <=> Written(t, i)
  BY DEF Written
<1>2. \A t \in Sessions, i \in Invoices : Written(t, i) => DraftOk(t, i)'
  BY <1>1, DraftFitIs DEF DraftOk, RowFree
<1> QED BY <1>1, <1>2 DEF DraftFit, DraftOk, Cust

\* Session s writes row d for invoice i, and no other draft changes.
LEMMA DraftWrite ==
    ASSUME TypeOK, DraftFit, UNCHANGED <<invoice, req>>,
           NEW s \in Sessions, NEW i \in Invoices, RowFree(i, s),
           \A t \in Sessions \ {s} : tx'[t] = tx[t] /\ pc'[t] = pc[t],
           \A j \in Invoices \ {i} : tx'[s].draft[j] = tx[s].draft[j],
           pc'[s] \in {"settle", "commit"},
           RowShape(tx'[s].draft[i]),
           tx'[s].draft[i].cust = req[s].cust,
           invoice[i].status # "NONE" =>
              /\ invoice[i].status \in OpenStatuses
              /\ invoice[i].cust = tx'[s].draft[i].cust
              /\ invoice[i].due = tx'[s].draft[i].due
              /\ invoice[i].amount = tx'[s].draft[i].amount
              /\ tx'[s].draft[i].rem <= invoice[i].rem
    PROVE  DraftFit'
<1>1. ASSUME NEW t \in Sessions, NEW j \in Invoices, Written(t, j)'
      PROVE  DraftOk(t, j)'
  <2>1. CASE t = s /\ j = i
    <3>1. RowFree(i, s)'
      BY DEF RowFree, Written
    <3> QED BY <2>1, <3>1 DEF DraftOk
  <2>2. CASE t = s /\ j # i
    <3>1. Written(s, j)
      BY <1>1, <2>2 DEF Written
    <3>2. DraftOk(s, j)
      BY <3>1, DraftFitIs
    <3>3. RowFree(j, s)'
      BY <3>2 DEF DraftOk, RowFree, Written
    <3> QED BY <2>2, <3>2, <3>3 DEF DraftOk
  <2>3. CASE t # s
    <3>1. Written(t, j)
      BY <1>1, <2>3 DEF Written
    <3>2. DraftOk(t, j) /\ j # i
      BY <2>3, <3>1, DraftFitIs DEF RowFree
    <3>3. RowFree(j, t)'
      BY <2>3, <3>2 DEF DraftOk, RowFree, Written
    <3> QED BY <2>3, <3>2, <3>3 DEF DraftOk
  <2> QED BY <2>1, <2>2, <2>3
<1> QED BY <1>1 DEF DraftFit, DraftOk, Cust

LEMMA DraftStep == IInv /\ [Next]_vars => DraftFit'
<1> SUFFICES ASSUME IInv, [Next]_vars PROVE DraftFit'
  OBVIOUS
<1>0. TypeOK /\ LocalsFit /\ DraftFit /\ SettlementFresh /\ StatusMatchesBalance
  BY DEF IInv
<1>1. CASE UNCHANGED <<invoice, session>>
  BY <1>0, <1>1, DraftKept DEF session
<1>2. CASE MarkOverdue
  <2>1. ASSUME NEW s \in Sessions, NEW i \in Invoices, Written(s, i)
        PROVE  invoice'[i] = invoice[i]
    BY <1>2, <2>1 DEF MarkOverdue
  <2>2. ASSUME NEW s \in Sessions, NEW i \in Invoices, Written(s, i)'
        PROVE  DraftOk(s, i)'
    <3>1. Written(s, i) /\ DraftOk(s, i)
      BY <1>0, <1>2, <2>2, DraftFitIs DEF MarkOverdue, session, Written
    <3> QED BY <1>2, <2>1, <3>1 DEF MarkOverdue, session, DraftOk, RowFree, Written
  <2> QED BY <2>2 DEF DraftFit, DraftOk, Cust
<1>3. ASSUME NEW s \in Sessions, Begin(s) \/ Continue(s) \/ Abort(s),
             \A t \in Sessions \ {s} : pc'[t] = pc[t] /\ req'[t] = req[t] /\ tx'[t] = tx[t]
      PROVE  DraftFit'
  <2>1. CASE StartCheckout(s) \/ CheckOverdue(s) \/ StartUpdate(s) \/ CountPayments(s)
    <3>1. pc[s] \notin {"settle", "commit"} /\ UNCHANGED <<invoice, tx>>
      BY <2>1 DEF StartCheckout, CheckOverdue, StartUpdate, CountPayments
    <3> QED BY <1>0, <1>3, <3>1, DraftKept
  <2>2. CASE StartCollect(s) \/ RaiseBalance(s) \/ PayDown(s) \/ ListOpen(s)
    <3>1. pc[s] \notin {"settle", "commit"} /\ UNCHANGED invoice
      BY <2>2 DEF StartCollect, RaiseBalance, PayDown, ListOpen
    <3>2. tx'[s].draft = tx[s].draft
      <4>1. tx[s] \in Tx
        BY <1>0 DEF TypeOK
      <4>2. CASE StartCollect(s)
        <5>1. PICK c \in Customers : tx' = [tx EXCEPT ![s].seen = balance[c]]
          BY <4>2 DEF StartCollect
        <5> QED BY <1>0, <4>1, <5>1 DEF TypeOK, Tx
      <4>3. CASE RaiseBalance(s) \/ PayDown(s)
        BY <1>0, <4>1, <4>3 DEF RaiseBalance, PayDown, TypeOK, Tx
      <4>4. CASE ListOpen(s)
        BY <1>0, <4>1, <4>4 DEF ListOpen, TypeOK, Tx
      <4> QED BY <2>2, <4>2, <4>3, <4>4
    <3> QED BY <1>0, <1>3, <3>1, <3>2, DraftKept
  <2>3. CASE SettleDone(s)
    BY <1>0, <2>3, DraftKept DEF SettleDone, Goto, TypeOK
  <2>4. CASE Finish(s) /\ (~Commit(s) => UNCHANGED invoice)
    <3>1. \A i \in Invoices : ~Written(s, i)'
      BY <1>0, <2>4 DEF Finish, Written, NoTx, NoRow, TypeOK
    <3>2. ASSUME NEW t \in Sessions, NEW i \in Invoices, Written(t, i)'
          PROVE  DraftOk(t, i)'
      <4>1. t # s /\ Written(t, i) /\ DraftOk(t, i)
        BY <1>0, <1>3, <3>1, <3>2, DraftFitIs DEF Written
      <4>2. ~Written(s, i)
        BY <4>1 DEF DraftOk, RowFree
      <4>3. invoice'[i] = invoice[i]
        BY <2>4, <4>2 DEF Commit
      <4>4. RowFree(i, t)'
        BY <1>3, <3>1, <4>1 DEF DraftOk, RowFree, Written
      <4> QED BY <1>3, <4>1, <4>3, <4>4 DEF DraftOk
    <3> QED BY <3>2 DEF DraftFit, DraftOk, Cust
  <2>5. CASE IssueInvoice(s)
    <3>0. /\ pc[s] = "issue" /\ pc' = [pc EXCEPT ![s] = "commit"]
          /\ UNCHANGED <<invoice, req>>
      BY <2>5 DEF IssueInvoice, Goto
    <3>1. CASE UNCHANGED tx
      BY <1>0, <1>3, <3>0, <3>1, DraftKept DEF TypeOK
    <3>2. CASE ~UNCHANGED tx
      <4>1. PICK i \in Invoices :
              /\ invoice[i].status = "NONE" /\ RowFree(i, s)
              /\ tx' = [tx EXCEPT ![s].draft[i] = NewRow(Cust(s), req[s].due, req[s].amount)]
        BY <2>5, <3>2 DEF IssueInvoice
      <4> DEFINE row == NewRow(Cust(s), req[s].due, req[s].amount)
      <4>2. /\ tx'[s].draft[i] = row
            /\ \A j \in Invoices \ {i} : tx'[s].draft[j] = tx[s].draft[j]
        BY <1>0, <4>1 DEF TypeOK, Tx
      <4>3. RowShape(row) /\ row.cust = req[s].cust
        BY <1>0, <3>0 DEF NewRow, RowShape, LocalsFit, Cust, TypeOK, Request
      <4>4. pc'[s] = "commit"
        BY <1>0, <3>0 DEF TypeOK
      <4> HIDE DEF row
      <4> QED BY <1>0, <1>3, <3>0, <4>1, <4>2, <4>3, <4>4, DraftWrite
    <3> QED BY <3>1, <3>2
  <2>6. CASE SettleNext(s)
    <3>1. PICK i \in Oldest(tx[s].open) :
            /\ RowFree(i, s)
            /\ tx' = [tx EXCEPT ![s] =
                        [@ EXCEPT !.left     = Rest(tx[s].left, tx[s].snap[i]),
                                  !.open     = tx[s].open \ {i},
                                  !.draft[i] = Settled(i, tx[s].snap[i], tx[s].left)]]
      BY <2>6 DEF SettleNext
    <3> DEFINE row == Settled(i, tx[s].snap[i], tx[s].left)
    <3>2. /\ pc[s] = "settle" /\ tx[s].left > 0 /\ UNCHANGED <<invoice, req, pc>>
          /\ i \in Invoices /\ i \in tx[s].open /\ tx[s].left \in Nat
      BY <1>0, <2>6, <3>1 DEF SettleNext, Oldest, TypeOK, Tx
    <3>3. /\ tx'[s].draft[i] = row
          /\ \A j \in Invoices \ {i} : tx'[s].draft[j] = tx[s].draft[j]
      BY <1>0, <3>1, <3>2 DEF TypeOK, Tx
    <3>4. /\ invoice[i] \in Row /\ RowShape(invoice[i])
          /\ invoice[i].cust = req[s].cust /\ invoice[i].status \in OpenStatuses
          /\ tx[s].snap[i] = invoice[i].rem
      BY <1>0, <3>2 DEF SettlementFresh, StatusMatchesBalance, TypeOK, Cust
    <3>5. /\ RowShape(row) /\ row.cust = invoice[i].cust /\ row.due = invoice[i].due
          /\ row.amount = invoice[i].amount /\ row.rem <= invoice[i].rem
      <4>1. invoice[i].rem \in Nat /\ invoice[i].amount \in Nat /\ invoice[i].rem # 0
            /\ invoice[i].rem <= invoice[i].amount
        BY <3>4 DEF Row, RowShape, OpenStatuses
      <4>2. CASE tx[s].left >= invoice[i].rem
        BY <3>4, <4>1, <4>2 DEF Settled, RowShape, Row
      <4>3. CASE ~(tx[s].left >= invoice[i].rem)
        <5>1. /\ invoice[i].rem - tx[s].left \in Nat /\ invoice[i].rem - tx[s].left # 0
              /\ invoice[i].rem - tx[s].left < invoice[i].rem
          BY <3>2, <4>1, <4>3
        <5> QED BY <3>4, <4>1, <4>3, <5>1 DEF Settled, RowShape, Row
      <4> QED BY <4>2, <4>3
    <3> HIDE DEF row
    <3> QED BY <1>0, <1>3, <3>1, <3>2, <3>3, <3>4, <3>5, DraftWrite
  <2> QED
    BY <1>3, <2>1, <2>2, <2>3, <2>4, <2>5, <2>6 DEF Begin, Continue, Checkout, Collect, Update,
       RefuseOverdue, Commit, ApplyUpsert, ApplyRetain, ApplyDelete, ProfileGone, Abort
<1>4. CASE Tick \/ UNCHANGED vars
  BY <1>1, <1>4 DEF Tick, vars, session
<1> QED BY <1>0, <1>2, <1>3, <1>4, StepCases

-----------------------------------------------------------------------------
\* What SettlementFresh says of invoice i, still to be settled by session s.
Fresh(s, i) == /\ invoice[i].cust = req[s].cust
               /\ invoice[i].status \in OpenStatuses
               /\ invoice[i].rem = tx[s].snap[i]
               /\ ~Written(s, i)

\* A commit of one session leaves alone what a settlement of another has listed:
\* both would hold the lock of the same profile.
LEMMA CommitSpares ==
    ASSUME IInv, NEW s \in Sessions, NEW t \in Sessions \ {s}, NEW i \in Invoices,
           Commit(s), pc[t] = "settle", Fresh(t, i)
    PROVE  invoice'[i] = invoice[i]
<1>1. CASE Written(s, i)
  <2>1. DraftOk(s, i)
    BY <1>1, DraftFitIs DEF IInv
  <2>2. req[s].cust = req[t].cust
    BY <2>1 DEF DraftOk, Fresh, OpenStatuses
  <2>3. lock[req[s].cust] = s /\ lock[req[t].cust] = t
    BY DEF IInv, LockDiscipline, LockSteps, Commit, Cust
  <2> QED BY <2>2, <2>3
<1>2. CASE ~Written(s, i)
  BY <1>2 DEF Commit
<1> QED BY <1>1, <1>2

LEMMA FreshStep == IInv /\ [Next]_vars => SettlementFresh'
<1> SUFFICES ASSUME IInv, [Next]_vars, NEW t \in Sessions, pc'[t] = "settle",
                    NEW i \in tx'[t].open
             PROVE  Fresh(t, i)'
  BY DEF SettlementFresh, Fresh, Cust
<1>0. TypeOK /\ LocalsFit /\ DraftFit
  BY DEF IInv
<1>1. ASSUME pc[t] = "settle", i \in tx[t].open PROVE i \in Invoices /\ Fresh(t, i)
  BY <1>0, <1>1 DEF IInv, SettlementFresh, Fresh, Cust, TypeOK, Tx
<1>2. CASE MarkOverdue
  <2>1. i \in Invoices /\ Fresh(t, i)
    BY <1>1, <1>2 DEF MarkOverdue, session
  <2>2. /\ invoice'[i].cust = invoice[i].cust /\ invoice'[i].rem = invoice[i].rem
        /\ invoice'[i].status \in OpenStatuses
    <3>1. invoice[i] \in Row /\ invoice[i].status \in OpenStatuses
      BY <1>0, <2>1 DEF TypeOK, Fresh
    <3> QED BY <1>2, <2>1, <3>1 DEF MarkOverdue, Row, OpenStatuses
  <2> QED BY <1>2, <2>1, <2>2 DEF MarkOverdue, session, Fresh, Written
<1>3. CASE Tick \/ UNCHANGED vars
  BY <1>1, <1>3 DEF Tick, vars, session, Fresh, Written
<1>4. ASSUME NEW s \in Sessions, Begin(s) \/ Continue(s) \/ Abort(s),
             \A u \in Sessions \ {s} : pc'[u] = pc[u] /\ req'[u] = req[u] /\ tx'[u] = tx[u]
      PROVE  Fresh(t, i)'
  <2>1. CASE t # s
    <3>1. pc[t] = "settle" /\ i \in Invoices /\ Fresh(t, i)
      BY <1>1, <1>4, <2>1
    <3>2. invoice'[i] = invoice[i]
      <4>1. CASE Commit(s)
        BY <2>1, <3>1, <4>1, CommitSpares
      <4>2. CASE UNCHANGED invoice
        BY <4>2
      <4> QED
        BY <1>4, <4>1, <4>2 DEF Begin, Continue, Checkout, Collect, Update, StartCheckout,
           CheckOverdue, RefuseOverdue, RaiseBalance, IssueInvoice, StartCollect, PayDown, ListOpen,
           SettleNext, SettleDone, StartUpdate, CountPayments, ApplyUpsert, ApplyRetain,
           ApplyDelete, ProfileGone, Abort
    <3> QED BY <1>4, <2>1, <3>1, <3>2 DEF Fresh, Written
  <2>2. CASE t = s /\ ListOpen(s)
    <3> DEFINE open == OpenInvoices(req[s].cust)
    <3>1. /\ tx'[s].open = open /\ tx'[s].draft = tx[s].draft
          /\ tx'[s].snap = [j \in Invoices |-> IF j \in open THEN RecordBalance(j) ELSE 0]
      <4>1. tx[s] \in Tx
        BY <1>0 DEF TypeOK
      <4> QED BY <1>0, <2>2, <4>1 DEF ListOpen, Cust, TypeOK, Tx
    <3>2. i \in Invoices /\ i \in open
      BY <2>2, <3>1 DEF OpenInvoices, InvoicesOf
    <3>3. ~Written(s, i)
      BY <1>0, <2>2, <3>2 DEF DraftFit, ListOpen
    <3>4. tx'[s].snap[i] = invoice[i].rem
      BY <3>1, <3>2 DEF RecordBalance
    <3> QED BY <2>2, <3>1, <3>2, <3>3, <3>4 DEF Fresh, OpenInvoices, InvoicesOf, Written, ListOpen
  <2>3. CASE t = s /\ SettleNext(s)
    <3>1. PICK k \in Oldest(tx[s].open) :
            tx' = [tx EXCEPT ![s] =
                     [@ EXCEPT !.left     = Rest(tx[s].left, tx[s].snap[k]),
                               !.open     = tx[s].open \ {k},
                               !.draft[k] = Settled(k, tx[s].snap[k], tx[s].left)]]
      BY <2>3 DEF SettleNext
    <3>2. tx[s] \in Tx /\ k \in Invoices
      BY <1>0, <3>1 DEF TypeOK, Tx, Oldest
    <3>3. /\ tx'[s].open = tx[s].open \ {k} /\ tx'[s].snap = tx[s].snap
          /\ \A j \in Invoices \ {k} : tx'[s].draft[j] = tx[s].draft[j]
      BY <1>0, <3>1, <3>2 DEF TypeOK, Tx
    <3>4. i # k /\ i \in tx[s].open /\ i \in Invoices /\ Fresh(s, i)
      BY <1>1, <2>3, <3>3 DEF SettleNext
    <3> QED BY <2>3, <3>3, <3>4 DEF Fresh, Written, SettleNext
  <2>4. ASSUME t = s, ~ListOpen(s), ~SettleNext(s) PROVE FALSE
    <3>1. ~Finish(s)
      BY <1>0, <2>4 DEF Finish, TypeOK
    <3>2. ~(StartCheckout(s) \/ StartCollect(s) \/ StartUpdate(s))
      BY <1>0, <2>4 DEF StartCheckout, StartCollect, StartUpdate, Goto, TypeOK
    <3>3. ~(CheckOverdue(s) \/ RaiseBalance(s) \/ IssueInvoice(s) \/ PayDown(s))
      BY <1>0, <2>4 DEF CheckOverdue, RaiseBalance, IssueInvoice, PayDown, Goto, TypeOK
    <3>4. ~(SettleDone(s) \/ CountPayments(s))
      BY <1>0, <2>4 DEF SettleDone, CountPayments, Goto, TypeOK
    <3> QED
      BY <1>4, <2>4, <3>1, <3>2, <3>3, <3>4 DEF Begin, Continue, Checkout, Collect, Update,
         RefuseOverdue, Commit, ApplyUpsert, ApplyRetain, ApplyDelete, ProfileGone, Abort
  <2> QED BY <2>1, <2>2, <2>3, <2>4
<1> QED BY <1>0, <1>2, <1>3, <1>4, StepCases

-----------------------------------------------------------------------------
\* The strengthened invariant holds in every reachable state.
THEOREM Inductive == Spec => []IInv
<1>1. IInv /\ [Next]_vars => IInv'
  BY TypeStep, ProfiledStep, StatusStep, LockStep, LocalsStep, DraftStep, FreshStep DEF IInv
<1> QED BY InitIInv, <1>1, PTL DEF Spec

\* Every variable keeps its type; in particular no balance goes below zero.
THEOREM TypeCorrect == Spec => []TypeOK
  BY Inductive, PTL DEF IInv

\* A wholesale customer always has its profile, so that the checks of a credit
\* sale that the code makes only with a profile are never skipped.
THEOREM ProfileAlwaysThere == Spec => []WholesaleProfiled
  BY Inductive, PTL DEF IInv

\* The status of every credit_payment row agrees with what remains of it.
THEOREM StatusAlwaysMatches == Spec => []StatusMatchesBalance
  BY Inductive, PTL DEF IInv

\* The rows a settlement has listed are still as it read them when it writes them.
THEOREM SettlementNeverStale == Spec => []SettlementFresh
  BY Inductive, PTL DEF IInv

\* No step of any request or of the scan makes an invoice grow, reopens a paid
\* one, or changes what it was issued for.
THEOREM InvoicesOnlyPaidDown == Spec => InvoiceOnlyPaidDown
<1> DEFINE Kept(i) == /\ invoice'[i].cust = invoice[i].cust
                      /\ invoice'[i].due = invoice[i].due
                      /\ invoice'[i].amount = invoice[i].amount
                      /\ invoice'[i].rem <= invoice[i].rem
                      /\ invoice[i].status = "PAID" => invoice'[i].status = "PAID"
                      /\ invoice'[i].status # "NONE"
<1>1. ASSUME IInv, [Next]_vars, NEW i \in Invoices, invoice[i].status # "NONE" PROVE Kept(i)
  <2>0. invoice[i] \in Row /\ TypeOK
    BY <1>1 DEF IInv, TypeOK
  <2>1. ASSUME NEW s \in Sessions, Commit(s) PROVE Kept(i)
    <3>1. CASE Written(s, i)
      <4>1. DraftOk(s, i) /\ invoice'[i] = tx[s].draft[i]
        BY <1>1, <2>1, <3>1, DraftFitIs DEF IInv, Commit
      <4>2. invoice'[i].status # "NONE"
        BY <3>1, <4>1 DEF Written
      <4> QED BY <1>1, <4>1, <4>2 DEF DraftOk, OpenStatuses
    <3>2. CASE ~Written(s, i)
      <4>1. invoice'[i] = invoice[i]
        BY <2>1, <3>2 DEF Commit
      <4> QED BY <1>1, <2>0, <4>1 DEF Row
    <3> QED BY <3>1, <3>2
  <2>2. CASE MarkOverdue
    <3>1. CASE PastDue(i)
      <4>1. invoice'[i] = [invoice[i] EXCEPT !.status = "OVERDUE"]
        BY <2>2, <3>1 DEF MarkOverdue
      <4> QED BY <2>0, <3>1, <4>1 DEF PastDue, Row
    <3>2. CASE ~PastDue(i)
      <4>1. invoice'[i] = invoice[i]
        BY <2>2, <3>2 DEF MarkOverdue
      <4> QED BY <1>1, <2>0, <4>1 DEF Row
    <3> QED BY <3>1, <3>2
  <2>3. CASE UNCHANGED invoice
    BY <1>1, <2>0, <2>3 DEF Row
  <2> QED BY <1>1, <2>1, <2>2, <2>3, InvoiceWriters
<1>2. IInv /\ [Next]_vars => [\A i \in Invoices : invoice[i].status # "NONE" => Kept(i)]_vars
  BY <1>1
<1> QED BY Inductive, <1>2, PTL DEF Spec, InvoiceOnlyPaidDown

-----------------------------------------------------------------------------
(* The drafts of checkouts and collections: DraftsInOrder is inductive.     *)

\* What another session or the scan does while t holds the lock of a profile: the rows
\* t has drafted and the open invoices of its customer keep what t has read of them.
LEMMA RowsSpared ==
    ASSUME IInv, [Next]_vars, NEW t \in Sessions, pc[t] \in LockSteps, ~Commit(t),
           NEW CONSTANT c, c = Cust(t)
    PROVE  /\ \A i \in Invoices : Written(t, i) => invoice'[i] = invoice[i]
           /\ OpenInvoices(c)' = OpenInvoices(c)
           /\ \A i \in OpenInvoices(c) : /\ invoice'[i].due = invoice[i].due
                                         /\ invoice'[i].rem = invoice[i].rem
<1>0. TypeOK /\ DraftFit /\ LockDiscipline
  BY DEF IInv
<1>1. ASSUME NEW s \in Sessions, Commit(s)
      PROVE  /\ \A i \in Invoices : Written(t, i) => invoice'[i] = invoice[i]
             /\ \A i \in Invoices : \/ invoice'[i] = invoice[i]
                                    \/ /\ invoice'[i].cust # c
                                       /\ i \notin OpenInvoices(c)
  <2>1. s # t /\ lock[Cust(s)] = s /\ lock[Cust(t)] = t
    BY <1>0, <1>1 DEF LockDiscipline, LockSteps, Commit
  <2>2. ASSUME NEW i \in Invoices, Written(s, i)
        PROVE  ~Written(t, i) /\ invoice'[i].cust # c /\ i \notin OpenInvoices(c)
    <3>1. DraftOk(s, i) /\ invoice'[i] = tx[s].draft[i]
      BY <1>0, <1>1, <2>2, DraftFitIs DEF Commit
    <3>2. ~Written(t, i)
      BY <2>1, <3>1 DEF DraftOk, RowFree
    <3>3. invoice'[i].cust # c
      BY <2>1, <3>1 DEF DraftOk, Cust
    <3>4. i \notin OpenInvoices(c)
      BY <3>1, <3>3 DEF DraftOk, OpenInvoices, InvoicesOf, OpenStatuses
    <3> QED BY <3>2, <3>3, <3>4
  <2>3. \A i \in Invoices : ~Written(s, i) => invoice'[i] = invoice[i]
    BY <1>1 DEF Commit
  <2> QED BY <2>2, <2>3
<1>2. CASE \E s \in Sessions : Commit(s)
  BY <1>1, <1>2 DEF OpenInvoices, InvoicesOf
<1>3. CASE MarkOverdue
  <2>1. ASSUME NEW i \in Invoices
        PROVE  \/ invoice'[i] = invoice[i]
               \/ /\ PastDue(i) /\ ~Written(t, i)
                  /\ invoice'[i].cust = invoice[i].cust /\ invoice'[i].due = invoice[i].due
                  /\ invoice'[i].rem = invoice[i].rem /\ invoice'[i].status = "OVERDUE"
    <3>1. invoice[i] \in Row
      BY <1>0 DEF TypeOK
    <3> QED BY <1>3, <3>1 DEF MarkOverdue, Row
  <2> QED BY <2>1 DEF OpenInvoices, InvoicesOf, OpenStatuses, PastDue
<1>4. CASE UNCHANGED invoice
  BY <1>4 DEF OpenInvoices, InvoicesOf
<1> QED BY <1>2, <1>3, <1>4, InvoiceWriters

\* Whatever others do, the drafts of a session that does not move stay in order.
LEMMA OrderKept ==
    ASSUME IInv, [Next]_vars, NEW t \in Sessions, ~Commit(t),
           pc'[t] = pc[t], req'[t] = req[t], tx'[t] = tx[t],
           OpFits(t), IssuesOne(t), SettlesInOrder(t)
    PROVE  OpFits(t)' /\ IssuesOne(t)' /\ SettlesInOrder(t)'
<1>1. OpFits(t)'
  BY DEF OpFits
<1>2. WrittenBy(t)' = WrittenBy(t) /\ \A i \in Invoices : Written(t, i)' <=> Written(t, i)
  BY DEF WrittenBy, Written
<1>3. CASE pc[t] \notin LockSteps
  BY <1>1, <1>3 DEF IssuesOne, SettlesInOrder, Settling, LockSteps
<1>4. CASE pc[t] \in LockSteps
  <2>1. PICK c : c = Cust(t) /\ Cust(t)' = c
    BY DEF Cust
  <2>2. /\ \A i \in Invoices : Written(t, i) => invoice'[i] = invoice[i]
        /\ OpenInvoices(c)' = OpenInvoices(c)
        /\ \A i \in OpenInvoices(c) : invoice'[i].due = invoice[i].due
    BY <1>4, <2>1, RowsSpared
  <2>3. IssuesOne(t)'
    <3> SUFFICES ASSUME pc[t] = "commit", req[t].op = "checkout" PROVE IssuesOne(t)'
      BY DEF IssuesOne
    <3>1. CASE req[t].due = NoDue /\ WrittenBy(t) = {}
      BY <1>2, <3>1 DEF IssuesOne
    <3>2. ASSUME NEW i \in Invoices, WrittenBy(t) = {i}, invoice[i].status = "NONE",
                 tx[t].draft[i] = NewRow(Cust(t), req[t].due, req[t].amount)
          PROVE  IssuesOne(t)'
      <4>1. invoice'[i] = invoice[i]
        BY <2>2, <3>2 DEF WrittenBy
      <4> QED BY <1>2, <2>1, <3>2, <4>1 DEF IssuesOne
    <3> QED BY <3>1, <3>2 DEF IssuesOne
  <2>4. SettlesInOrder(t)'
    <3> SUFFICES ASSUME Settling(t) PROVE SettlesInOrder(t)'
      BY DEF SettlesInOrder, Settling
    <3> DEFINE W == WrittenBy(t)
               open == tx[t].open
    <3>0. /\ OpenInvoices(c) = W \cup open
          /\ \A i \in W : PaysPart(t, i)
          /\ \A i \in W, j \in open : invoice[i].due <= invoice[j].due
          /\ \A i, j \in W : invoice[i].due < invoice[j].due => tx[t].draft[i].rem = 0
          /\ \A i, j \in W : i # j => 0 \in {tx[t].draft[i].rem, tx[t].draft[j].rem}
          /\ tx[t].left > 0 => \A i \in W : tx[t].draft[i].rem = 0
          /\ Allocated(t) + tx[t].left = req[t].amount
          /\ pc[t] = "commit" => LoopEnds(t)
      BY <2>1 DEF SettlesInOrder
    <3>1. \A i \in W : invoice'[i] = invoice[i]
      BY <2>2 DEF WrittenBy
    <3>2. \A i \in W \cup open : invoice'[i].due = invoice[i].due
      BY <2>2, <3>0
    <3>3. Allocated(t)' = Allocated(t)
      <4>1. \A i \in Invoices : Payment(t, i)' = Payment(t, i)
        BY <1>2, <2>2 DEF Payment
      <4> QED BY <4>1 DEF Allocated
    <3>4. \A i \in W : PaysPart(t, i)'
      BY <3>0, <3>1 DEF PaysPart
    <3>5. LoopEnds(t)' <=> LoopEnds(t)
      BY DEF LoopEnds
    <3>6. OpenInvoices(Cust(t))' = W \cup open
      BY <2>1, <2>2, <3>0 DEF OpenInvoices, InvoicesOf, Cust
    <3>7. WrittenBy(t)' = W
      BY <1>2
    <3> HIDE DEF W
    <3>8. /\ \A i \in W, j \in open : invoice'[i].due <= invoice'[j].due
          /\ \A i, j \in W : invoice'[i].due < invoice'[j].due => tx[t].draft[i].rem = 0
      BY <3>0, <3>2
    <3> QED BY <3>0, <3>3, <3>4, <3>5, <3>6, <3>7, <3>8 DEF SettlesInOrder
  <2> QED BY <1>1, <2>3, <2>4
<1> QED BY <1>3, <1>4

\* A settlement starts with nothing paid and every open invoice ahead.
LEMMA ListingInOrder ==
    ASSUME IInv, NEW s \in Sessions, ListOpen(s), OpFits(s)
    PROVE  OpFits(s)' /\ SettlesInOrder(s)'
<1>0. TypeOK /\ DraftFit /\ tx[s] \in Tx /\ pc[s] = "list" /\ pc'[s] = "settle"
      /\ UNCHANGED <<invoice, req>>
  BY DEF IInv, TypeOK, ListOpen, Goto
<1>1. /\ tx'[s].open = OpenInvoices(Cust(s)) /\ tx'[s].draft = tx[s].draft
      /\ tx'[s].left = req[s].amount
  BY <1>0 DEF ListOpen, TypeOK, Tx
<1>2. \A i \in Invoices : ~Written(s, i)'
  BY <1>0, <1>1 DEF DraftFit, Written
<1>3. WrittenBy(s)' = {}
  BY <1>2 DEF WrittenBy
<1>4. Allocated(s)' = 0
  <2>1. \A i \in Invoices : [k \in Invoices |-> Payment(s, k)'][i] = 0
    BY <1>2 DEF Payment
  <2> HIDE DEF Payment
  <2> QED BY <2>1, InvoicesFinite, SumZero DEF Allocated
<1>5. req[s].amount \in Nat
  BY <1>0 DEF TypeOK, Request
<1>6. OpenInvoices(Cust(s))' = OpenInvoices(Cust(s))
  BY <1>0 DEF OpenInvoices, InvoicesOf, Cust
<1>7. OpFits(s)'
  BY <1>0 DEF OpFits
<1> QED BY <1>0, <1>1, <1>3, <1>4, <1>5, <1>6, <1>7 DEF SettlesInOrder

\* One iteration of the settlement loop: the next invoice is the oldest of those left,
\* and it is paid in full unless it takes all that is left.
LEMMA SettlingInOrder ==
    ASSUME IInv, NEW s \in Sessions, SettleNext(s), OpFits(s), SettlesInOrder(s)
    PROVE  OpFits(s)' /\ SettlesInOrder(s)'
<1>0. /\ TypeOK /\ SettlementFresh /\ StatusMatchesBalance /\ tx[s] \in Tx
      /\ pc[s] = "settle" /\ UNCHANGED <<invoice, req, pc>> /\ tx[s].left > 0
      /\ tx[s].left \in Nat /\ tx[s].open \subseteq Invoices
  BY DEF IInv, TypeOK, Tx, SettleNext
<1>1. PICK k \in Oldest(tx[s].open) :
          tx' = [tx EXCEPT ![s] =
                   [@ EXCEPT !.left     = Rest(tx[s].left, tx[s].snap[k]),
                             !.open     = tx[s].open \ {k},
                             !.draft[k] = Settled(k, tx[s].snap[k], tx[s].left)]]
  BY DEF SettleNext
<1> DEFINE R == invoice[k].rem
           L == tx[s].left
           W == WrittenBy(s)
           open == tx[s].open
           rem(i) == tx[s].draft[i].rem
<1>2. k \in Invoices /\ k \in open /\ \A j \in open : invoice[k].due <= invoice[j].due
  BY <1>0, <1>1 DEF Oldest
<1>3. /\ invoice[k] \in Row /\ tx[s].snap[k] = R /\ ~Written(s, k)
      /\ R \in Nat /\ R > 0
  <2>1. invoice[k] \in Row /\ RowShape(invoice[k]) /\ tx[s].snap[k] = R /\ ~Written(s, k)
        /\ invoice[k].status \in OpenStatuses
    BY <1>0, <1>2 DEF TypeOK, SettlementFresh, StatusMatchesBalance
  <2> QED BY <2>1 DEF Row, RowShape, OpenStatuses
<1>4. /\ tx'[s].open = open \ {k} /\ tx'[s].left = Rest(L, R)
      /\ tx'[s].draft[k] = Settled(k, R, L)
      /\ \A j \in Invoices \ {k} : tx'[s].draft[j] = tx[s].draft[j]
  BY <1>0, <1>1, <1>2, <1>3 DEF TypeOK, Tx
<1>5. /\ tx'[s].draft[k].rem = IF L >= R THEN 0 ELSE R - L
      /\ tx'[s].draft[k] = [invoice[k] EXCEPT
            !.rem = tx'[s].draft[k].rem,
            !.status = IF tx'[s].draft[k].rem = 0 THEN "PAID" ELSE "PARTIALLY_PAID"]
      /\ tx'[s].draft[k].status # "NONE"
  <2>1. Settled(k, R, L).rem = IF L >= R THEN 0 ELSE R - L
    BY <1>3 DEF Settled, Row
  <2>2. (L >= R) <=> Settled(k, R, L).rem = 0
    BY <1>0, <1>3, <2>1
  <2>3. Settled(k, R, L).status # "NONE"
    BY <1>3 DEF Settled, Row
  <2>4. Settled(k, R, L) = [invoice[k] EXCEPT
            !.rem = Settled(k, R, L).rem,
            !.status = IF Settled(k, R, L).rem = 0 THEN "PAID" ELSE "PARTIALLY_PAID"]
    BY <2>1, <2>2 DEF Settled
  <2> QED BY <1>4, <2>1, <2>3, <2>4
<1>6. /\ \A i \in Invoices : Written(s, i)' <=> Written(s, i) \/ i = k
      /\ WrittenBy(s)' = W \cup {k} /\ k \notin W
  BY <1>2, <1>3, <1>4, <1>5 DEF Written, WrittenBy
<1>7. /\ OpenInvoices(Cust(s)) = W \cup open
      /\ \A i \in W : PaysPart(s, i) /\ i \in Invoices
      /\ \A i \in W, j \in open : invoice[i].due <= invoice[j].due
      /\ \A i \in W : rem(i) = 0
      /\ Allocated(s) + L = req[s].amount
  BY <1>0 DEF SettlesInOrder, Settling, WrittenBy
<1>8. OpenInvoices(Cust(s))' = W \cup open
  BY <1>0, <1>7 DEF OpenInvoices, InvoicesOf, Cust
<1>9. \A i \in W : tx'[s].draft[i] = tx[s].draft[i]
  BY <1>4, <1>6, <1>7
<1>10. \A i \in W \cup {k} : PaysPart(s, i)'
  <2>1. PaysPart(s, k)'
    <3>1. tx'[s].draft[k].rem < invoice[k].rem
      BY <1>0, <1>3, <1>5
    <3> QED BY <1>0, <1>5, <3>1 DEF PaysPart
  <2>2. \A i \in W : PaysPart(s, i)'
    BY <1>0, <1>7, <1>9 DEF PaysPart
  <2> QED BY <2>1, <2>2
<1>11. Allocated(s)' + tx'[s].left = req[s].amount
  <2> DEFINE f == [i \in Invoices |-> Payment(s, i)]
             g == [i \in Invoices |-> Payment(s, i)']
  <2>1. \A i \in Invoices : invoice[i].rem \in Int /\ tx[s].draft[i].rem \in Int
    BY <1>0 DEF TypeOK, Tx, Row
  <2>2. \A i \in Invoices : f[i] \in Int
    BY <2>1 DEF Payment
  <2>3. \A i \in Invoices \ {k} : g[i] = f[i]
    BY <1>0, <1>4, <1>6 DEF Payment
  <2>4. f[k] = 0 /\ g[k] = R - tx'[s].draft[k].rem
    BY <1>0, <1>2, <1>3, <1>6 DEF Payment
  <2>5. g[k] \in Int
    BY <1>0, <1>3, <1>5, <2>4
  <2>6. Allocated(s) = SumFunctionOnSet(f, Invoices) /\ Allocated(s)' = SumFunctionOnSet(g, Invoices)
    BY DEF Allocated
  <2> HIDE DEF f, g
  <2>7. \A i \in Invoices : f[i] \in Int /\ g[i] \in Int
    BY <2>2, <2>3, <2>5
  <2>8. SumFunctionOnSet(g, Invoices) = SumFunctionOnSet(f, Invoices) - f[k] + g[k]
    <3>1. k \in Invoices /\ IsFiniteSet(Invoices)
      BY <1>2, InvoicesFinite
    <3> HIDE DEF R, L, W, open
    <3> QED BY <2>3, <2>7, <3>1, SumChange
  <2>9. SumFunctionOnSet(f, Invoices) \in Int
    BY <2>7, InvoicesFinite, SumIsInt
  <2>10. Allocated(s)' = Allocated(s) + (R - tx'[s].draft[k].rem) /\ Allocated(s) \in Int
    BY <2>4, <2>5, <2>6, <2>8, <2>9
  <2>11. tx'[s].left = IF L >= R THEN L - R ELSE 0
    BY <1>4 DEF Rest
  <2> HIDE DEF R, L
  <2>12. R \in Nat /\ L \in Nat /\ tx'[s].draft[k].rem = IF L >= R THEN 0 ELSE R - L
    BY <1>0, <1>3, <1>5 DEF R, L
  <2> QED BY <1>7, <2>10, <2>11, <2>12
<1>12. /\ \A i \in W \cup {k}, j \in open \ {k} : invoice[i].due <= invoice[j].due
       /\ \A i, j \in W \cup {k} : invoice[i].due < invoice[j].due => tx'[s].draft[i].rem = 0
  <2>1. \A i \in Invoices : invoice[i].due \in Int
    BY <1>0 DEF TypeOK, Row, Days
  <2>2. \A j \in W : ~(invoice[k].due < invoice[j].due)
    BY <1>2, <1>7, <2>1
  <2> QED BY <1>2, <1>7, <1>9, <2>1, <2>2
<1>13. \A i, j \in W \cup {k} : i # j => 0 \in {tx'[s].draft[i].rem, tx'[s].draft[j].rem}
  BY <1>7, <1>9
<1>14. tx'[s].left > 0 => \A i \in W \cup {k} : tx'[s].draft[i].rem = 0
  <2>1. tx'[s].left > 0 => L >= R
    BY <1>4 DEF Rest
  <2> QED BY <1>5, <1>7, <1>9, <2>1
<1>15. OpFits(s)' /\ pc'[s] = "settle" /\ (W \cup {k}) \cup (open \ {k}) = W \cup open
       /\ req'[s].amount = req[s].amount
  BY <1>0, <1>2 DEF OpFits
<1> HIDE DEF W, open, R, L
<1> QED BY <1>4, <1>6, <1>8, <1>0, <1>10, <1>11, <1>12, <1>13, <1>14, <1>15
        DEF SettlesInOrder, open

LEMMA OwnDrafts ==
    ASSUME IInv, NEW s \in Sessions, Begin(s) \/ Continue(s) \/ Abort(s),
           OpFits(s), IssuesOne(s), SettlesInOrder(s)
    PROVE  OpFits(s)' /\ IssuesOne(s)' /\ SettlesInOrder(s)'
<1>0. TypeOK /\ LocalsFit /\ DraftFit /\ WholesaleProfiled /\ tx[s] \in Tx
  BY DEF IInv, TypeOK
<1>1. ASSUME pc'[s] \notin {"pay", "list", "settle", "commit"}
      PROVE  OpFits(s)' /\ IssuesOne(s)' /\ SettlesInOrder(s)'
  BY <1>1 DEF OpFits, IssuesOne, SettlesInOrder, Settling
<1>2. CASE Finish(s) \/ StartCheckout(s) \/ StartUpdate(s) \/ CheckOverdue(s) \/ RaiseBalance(s)
           \/ CountPayments(s)
  <2>1. Finish(s) => pc'[s] = "idle"
    BY <1>0 DEF Finish, TypeOK
  <2>2. StartCheckout(s) => pc'[s] \in {"overdue", "issue"}
    BY <1>0 DEF StartCheckout, Goto, TypeOK
  <2>3. StartUpdate(s) => pc'[s] \in {"upsert", "count", "retain"}
    BY <1>0 DEF StartUpdate, Goto, TypeOK
  <2>4. CheckOverdue(s) \/ RaiseBalance(s) \/ CountPayments(s) =>
            pc'[s] \in {"raise", "issue", "retain", "delete"}
    BY <1>0 DEF CheckOverdue, RaiseBalance, CountPayments, Goto, TypeOK
  <2> QED BY <1>1, <1>2, <2>1, <2>2, <2>3, <2>4
<1>3. CASE StartCollect(s)
  <2>1. PICK c \in Customers, a \in Amounts :
            req' = [req EXCEPT ![s] = [NoRequest EXCEPT !.op = "collect", !.cust = c, !.amount = a]]
    BY <1>3 DEF StartCollect
  <2>2. pc'[s] = "pay" /\ req'[s].op = "collect" /\ req'[s].amount = a /\ a > 0
    BY <1>0, <1>3, <2>1, Numbers DEF StartCollect, Goto, TypeOK, NoRequest
  <2> QED BY <2>2 DEF OpFits, IssuesOne, SettlesInOrder, Settling
<1>4. CASE PayDown(s)
  <2>1. pc[s] = "pay" /\ pc'[s] = "list" /\ UNCHANGED req
    BY <1>0, <1>4 DEF PayDown, Goto, TypeOK
  <2> QED BY <2>1 DEF OpFits, IssuesOne, SettlesInOrder, Settling
<1>5. CASE ListOpen(s)
  <2>1. pc'[s] = "settle"
    BY <1>0, <1>5 DEF ListOpen, Goto, TypeOK
  <2> QED BY <1>5, <2>1, ListingInOrder DEF IssuesOne
<1>6. CASE SettleNext(s)
  <2>1. pc'[s] = "settle"
    BY <1>6 DEF SettleNext
  <2> QED BY <1>6, <2>1, SettlingInOrder DEF IssuesOne
<1>7. CASE SettleDone(s)
  <2>1. /\ pc[s] = "settle" /\ pc'[s] = "commit" /\ UNCHANGED <<invoice, req, tx>> /\ LoopEnds(s)
    BY <1>0, <1>7 DEF SettleDone, Goto, TypeOK
  <2>2. OpFits(s)' /\ IssuesOne(s)'
    BY <2>1 DEF OpFits, IssuesOne
  <2>3. /\ WrittenBy(s)' = WrittenBy(s) /\ Cust(s)' = Cust(s) /\ LoopEnds(s)'
        /\ OpenInvoices(Cust(s))' = OpenInvoices(Cust(s))
    BY <2>1 DEF WrittenBy, Written, Cust, LoopEnds, OpenInvoices, InvoicesOf
  <2>4. /\ \A i : PaysPart(s, i)' <=> PaysPart(s, i)
        /\ Allocated(s)' = Allocated(s)
    BY <2>1 DEF PaysPart, Allocated, Payment, Written
  <2>5. SettlesInOrder(s)'
    BY <2>1, <2>3, <2>4 DEF SettlesInOrder, Settling
  <2> QED BY <2>2, <2>5
<1>8. CASE IssueInvoice(s)
  <2>1. /\ pc[s] = "issue" /\ pc'[s] = "commit" /\ UNCHANGED <<invoice, req>>
        /\ req[s].op = "checkout" /\ req[s].amount > 0
        /\ WrittenBy(s) = {}
    BY <1>0, <1>8 DEF IssueInvoice, Goto, TypeOK, LocalsFit, DraftFit, WrittenBy
  <2>2. OpFits(s)' /\ SettlesInOrder(s)'
    BY <2>1 DEF OpFits, SettlesInOrder, Settling
  <2>3. CASE req[s].due = NoDue /\ UNCHANGED tx
    <3>1. WrittenBy(s)' = WrittenBy(s) /\ req'[s].due = NoDue
      BY <2>1, <2>3 DEF WrittenBy, Written
    <3>2. IssuesOne(s)'
      BY <2>1, <3>1 DEF IssuesOne
    <3> QED BY <2>2, <3>2
  <2>4. ASSUME NEW i \in Invoices, invoice[i].status = "NONE",
               tx' = [tx EXCEPT ![s].draft[i] = NewRow(Cust(s), req[s].due, req[s].amount)]
        PROVE  IssuesOne(s)'
    <3>1. /\ tx'[s].draft[i] = NewRow(Cust(s), req[s].due, req[s].amount)
          /\ \A j \in Invoices \ {i} : tx'[s].draft[j] = tx[s].draft[j]
      BY <1>0, <2>4 DEF TypeOK, Tx
    <3>2. WrittenBy(s)' = {i}
      BY <2>1, <3>1 DEF WrittenBy, Written, NewRow
    <3> QED BY <2>1, <2>4, <3>1, <3>2 DEF IssuesOne, Cust
  <2> QED BY <1>8, <2>2, <2>3, <2>4 DEF IssueInvoice
<1> QED
  BY <1>2, <1>3, <1>4, <1>5, <1>6, <1>7, <1>8 DEF Begin, Continue, Checkout, Collect, Update,
     RefuseOverdue, Commit, ApplyUpsert, ApplyRetain, ApplyDelete, ProfileGone, Abort

LEMMA DraftsStep == IInv /\ DraftsInOrder /\ [Next]_vars => DraftsInOrder'
<1> SUFFICES ASSUME IInv, DraftsInOrder, [Next]_vars, NEW t \in Sessions
             PROVE  OpFits(t)' /\ IssuesOne(t)' /\ SettlesInOrder(t)'
  BY DEF DraftsInOrder
<1>1. TypeOK /\ OpFits(t) /\ IssuesOne(t) /\ SettlesInOrder(t)
  BY DEF IInv, DraftsInOrder
<1>2. CASE UNCHANGED session
  <2>1. Commit(t) => pc'[t] # pc[t]
    BY <1>1 DEF Commit, Finish, TypeOK
  <2> QED BY <1>1, <1>2, <2>1, OrderKept DEF session
<1>3. ASSUME NEW s \in Sessions, Begin(s) \/ Continue(s) \/ Abort(s),
             \A u \in Sessions \ {s} : pc'[u] = pc[u] /\ req'[u] = req[u] /\ tx'[u] = tx[u]
      PROVE  OpFits(t)' /\ IssuesOne(t)' /\ SettlesInOrder(t)'
  <2>1. CASE t = s
    BY <1>1, <1>3, <2>1, OwnDrafts
  <2>2. CASE t # s
    <3>1. Commit(t) => pc'[t] # pc[t]
      BY <1>1 DEF Commit, Finish, TypeOK
    <3> QED BY <1>1, <1>3, <2>2, <3>1, OrderKept
  <2> QED BY <2>1, <2>2
<1> QED BY <1>1, <1>2, <1>3, OthersKept

LEMMA InitDrafts == Init => DraftsInOrder
  BY DEF Init, DraftsInOrder, OpFits, IssuesOne, SettlesInOrder, Settling

\* Where the drafts of checkouts and collections are, in every interleaving.
THEOREM DraftsAlwaysInOrder == Spec => []DraftsInOrder
<1>1. IInv /\ DraftsInOrder /\ [Next]_vars => DraftsInOrder'
  BY DraftsStep
<1> QED BY Inductive, InitDrafts, <1>1, PTL DEF Spec

-----------------------------------------------------------------------------
(* Every step of WholesaleCredit is a step of CreditLedger or a stutter.     *)

LEMMA LedgerSum == \A f, S : Ledger!SumFunctionOnSet(f, S) = SumFunctionOnSet(f, S)
  BY DEF Ledger!SumFunctionOnSet, Ledger!FoldFunctionOnSet, Ledger!MapThenFoldSet,
         SumFunctionOnSet, FoldFunctionOnSet, MapThenFoldSet

LEMMA LedgerMin ==
    ASSUME NEW a \in Int, NEW b \in Int
    PROVE  Ledger!Min({a, b}) = IF a <= b THEN a ELSE b
<1>1. Ledger!Min({a, b}) = Min({a, b})
  BY DEF Ledger!Min, Min
<1>2. IsFiniteSet({a, b})
  <2>1. {a, b} = {a} \cup {b}
    OBVIOUS
  <2>2. IsFiniteSet({a})
    BY FS_Singleton
  <2>3. IsFiniteSet({a} \cup {b})
    BY <2>2, FS_AddElement
  <2> QED BY <2>1, <2>3
<1>3. /\ Min({a, b}) \in {a, b} /\ \A x \in {a, b} : Min({a, b}) <= x
  <2>1. {a, b} \subseteq Int /\ {a, b} # {}
    OBVIOUS
  <2> QED BY <1>2, <2>1, FiniteHasBounds
<1> HIDE DEF Min
<1> QED BY <1>1, <1>3

LEMMA OpenIsAccounts == \A c : Ledger!Accounts(c) = OpenInvoices(c)
  BY DEF Ledger!Accounts, Ledger!OpenStates, OpenInvoices, InvoicesOf, OpenStatuses

\* What a commit leaves of each invoice, and how much of it the draft paid.
LEMMA CommitRows ==
    ASSUME TypeOK, TypeOK', NEW s \in Sessions, Commit(s)
    PROVE  \A i \in Invoices :
              /\ Written(s, i) => invoice'[i] = tx[s].draft[i]
              /\ ~Written(s, i) => invoice'[i] = invoice[i]
              /\ Payment(s, i) = invoice[i].rem - invoice'[i].rem
              /\ invoice[i].rem \in Nat /\ invoice'[i].rem \in Nat
<1> SUFFICES ASSUME NEW i \in Invoices
             PROVE  /\ Written(s, i) => invoice'[i] = tx[s].draft[i]
                    /\ ~Written(s, i) => invoice'[i] = invoice[i]
                    /\ Payment(s, i) = invoice[i].rem - invoice'[i].rem
                    /\ invoice[i].rem \in Nat /\ invoice'[i].rem \in Nat
  OBVIOUS
<1>1. /\ Written(s, i) => invoice'[i] = tx[s].draft[i]
      /\ ~Written(s, i) => invoice'[i] = invoice[i]
  BY DEF Commit
<1>2. invoice[i].rem \in Nat /\ invoice'[i].rem \in Nat
  BY DEF TypeOK, Row
<1> QED BY <1>1, <1>2 DEF Payment

\* The commit of a checkout issues its invoice, if it has one.
LEMMA CheckoutPosts ==
    ASSUME TypeOK, TypeOK', NEW s \in Sessions, Commit(s), IssuesOne(s), req[s].op = "checkout"
    PROVE  Ledger!Issue \/ UNCHANGED <<invoice, collected>>
<1>1. collected' = collected /\ pc[s] = "commit"
  BY DEF Commit
<1>2. CASE WrittenBy(s) = {}
  <2>1. \A i \in Invoices : invoice'[i] = invoice[i]
    BY <1>2, CommitRows DEF WrittenBy
  <2>2. invoice' = invoice
    BY <2>1 DEF TypeOK
  <2> QED BY <1>1, <2>2
<1>3. ASSUME NEW i \in Invoices, WrittenBy(s) = {i}, invoice[i].status = "NONE",
             tx[s].draft[i] = NewRow(Cust(s), req[s].due, req[s].amount)
      PROVE  Ledger!Issue
  <2>1. invoice'[i] = NewRow(Cust(s), req[s].due, req[s].amount)
    BY <1>3, CommitRows DEF WrittenBy
  <2>2. \A j \in Invoices \ {i} : invoice'[j] = invoice[j]
    BY <1>3, CommitRows DEF WrittenBy
  <2> QED BY <1>1, <1>3, <2>1, <2>2 DEF Ledger!Issue, NewRow
<1> QED BY <1>1, <1>2, <1>3 DEF IssuesOne

\* What SettlesInOrder says at the end of a collection.
LEMMA Collected ==
    ASSUME TypeOK, TypeOK', NEW s \in Sessions, Commit(s), SettlesInOrder(s),
           OpFits(s), req[s].op = "collect"
    PROVE  /\ \A i \in Invoices \ OpenInvoices(Cust(s)) : invoice'[i] = invoice[i]
           /\ \A i \in OpenInvoices(Cust(s)) :
                 \/ i \in tx[s].open /\ ~Written(s, i) /\ invoice'[i] = invoice[i]
                 \/ /\ Written(s, i) /\ invoice'[i].rem < invoice[i].rem
                    /\ invoice'[i] = [invoice[i] EXCEPT
                          !.rem = invoice'[i].rem,
                          !.status = IF invoice'[i].rem = 0 THEN "PAID" ELSE "PARTIALLY_PAID"]
           /\ Allocated(s) \in Int /\ tx[s].left \in Nat /\ req[s].amount \in Nat
           /\ Allocated(s) + tx[s].left = req[s].amount /\ req[s].amount > 0
           /\ tx[s].left > 0 => \A i \in OpenInvoices(Cust(s)) : invoice'[i].rem = 0
<1>1. pc[s] = "commit" /\ Settling(s) /\ req[s].amount > 0
  BY DEF Commit, Settling, OpFits
<1>2. /\ OpenInvoices(Cust(s)) = WrittenBy(s) \cup tx[s].open
      /\ \A i \in WrittenBy(s) : PaysPart(s, i)
      /\ tx[s].left > 0 => \A i \in WrittenBy(s) : tx[s].draft[i].rem = 0
      /\ Allocated(s) + tx[s].left = req[s].amount
      /\ tx[s].left = 0 \/ tx[s].open = {}
  BY <1>1 DEF SettlesInOrder, LoopEnds
<1>3. \A i \in Invoices \ OpenInvoices(Cust(s)) : invoice'[i] = invoice[i]
  BY <1>2, CommitRows DEF WrittenBy
<1>4. \A i \in OpenInvoices(Cust(s)) :
         \/ i \in tx[s].open /\ ~Written(s, i) /\ invoice'[i] = invoice[i]
         \/ /\ Written(s, i) /\ invoice'[i].rem < invoice[i].rem
            /\ invoice'[i] = [invoice[i] EXCEPT
                  !.rem = invoice'[i].rem,
                  !.status = IF invoice'[i].rem = 0 THEN "PAID" ELSE "PARTIALLY_PAID"]
  <2> SUFFICES ASSUME NEW i \in OpenInvoices(Cust(s))
               PROVE  \/ i \in tx[s].open /\ ~Written(s, i) /\ invoice'[i] = invoice[i]
                      \/ /\ Written(s, i) /\ invoice'[i].rem < invoice[i].rem
                         /\ invoice'[i] = [invoice[i] EXCEPT
                               !.rem = invoice'[i].rem,
                               !.status = IF invoice'[i].rem = 0 THEN "PAID" ELSE "PARTIALLY_PAID"]
    OBVIOUS
  <2>1. i \in Invoices
    BY DEF OpenInvoices, InvoicesOf
  <2>2. CASE Written(s, i)
    <3>1. PaysPart(s, i) /\ invoice'[i] = tx[s].draft[i]
      BY <1>2, <2>1, <2>2, CommitRows DEF WrittenBy
    <3> QED BY <2>2, <3>1 DEF PaysPart
  <2>3. CASE ~Written(s, i)
    BY <1>2, <2>1, <2>3, CommitRows DEF WrittenBy
  <2> QED BY <2>2, <2>3
<1>5. Allocated(s) \in Int /\ tx[s].left \in Nat /\ req[s].amount \in Nat
  <2>1. \A i \in Invoices : [k \in Invoices |-> Payment(s, k)][i] \in Int
    BY CommitRows
  <2>2. Allocated(s) \in Int
    BY <2>1, InvoicesFinite, SumIsInt DEF Allocated
  <2> QED BY <2>2 DEF TypeOK, Tx, Request
<1>6. tx[s].left > 0 => \A i \in OpenInvoices(Cust(s)) : invoice'[i].rem = 0
  <2> SUFFICES ASSUME tx[s].left > 0, NEW i \in OpenInvoices(Cust(s)) PROVE invoice'[i].rem = 0
    OBVIOUS
  <2>1. i \in WrittenBy(s) /\ tx[s].draft[i].rem = 0
    BY <1>2, <1>5
  <2> QED BY <2>1, CommitRows DEF WrittenBy
<1> QED BY <1>1, <1>2, <1>3, <1>4, <1>5, <1>6

\* The commit of a collection pays the oldest invoices of the customer.
LEMMA CollectionPosts ==
    ASSUME TypeOK, TypeOK', NEW s \in Sessions, Commit(s), SettlesInOrder(s),
           OpFits(s), req[s].op = "collect", Cust(s) \in Customers
    PROVE  Ledger!Collect(Cust(s))
<1> DEFINE c == Cust(s)
           a == req[s].amount
           open == OpenInvoices(c)
           share == [i \in Invoices |-> Ledger!Share(i)]
           rems == [i \in Invoices |-> invoice[i].rem]
<1>1. pc[s] = "commit" /\ Settling(s)
  BY DEF Commit, Settling
<1>2. collected' = [collected EXCEPT ![c] = @ + a] /\ collected[c] \in Nat
  BY DEF Commit, TypeOK
<1>3. /\ collected'[c] - collected[c] = a
      /\ \A d \in Customers \ {c} : collected'[d] = collected[d]
  <2>1. a \in Nat
    BY Collected
  <2> HIDE DEF a
  <2> QED BY <1>2, <2>1 DEF TypeOK
<1>4. \A i \in Invoices : /\ Ledger!Share(i) = Payment(s, i)
                          /\ share[i] = invoice[i].rem - invoice'[i].rem
                          /\ rems[i] = invoice[i].rem
                          /\ share[i] \in Int /\ rems[i] \in Int /\ share[i] <= rems[i]
  BY CommitRows DEF Ledger!Share
<1>5. open \subseteq Invoices /\ IsFiniteSet(open)
  <2>1. open \subseteq Invoices
    BY DEF OpenInvoices, InvoicesOf
  <2> QED BY <2>1, InvoicesFinite, FS_Subset
<1>6. SumFunctionOnSet(share, open) = Allocated(s)
  <2>1. Allocated(s) = SumFunctionOnSet(share, Invoices)
    <3>1. [i \in Invoices |-> Payment(s, i)] = share
      BY <1>4
    <3> QED BY <3>1 DEF Allocated
  <2>2. \A i \in Invoices \ open : share[i] = 0
    <3> SUFFICES ASSUME NEW i \in Invoices \ open PROVE share[i] = 0
      OBVIOUS
    <3>1. invoice'[i] = invoice[i]
      BY Collected
    <3>2. invoice[i].rem \in Nat
      BY DEF TypeOK, Row
    <3> QED BY <1>4, <3>1, <3>2
  <2> HIDE DEF share, open
  <2>3. SumFunctionOnSet(share, Invoices) = SumFunctionOnSet(share, open)
    BY <1>4, <1>5, <2>2, InvoicesFinite, SumSupport
  <2> QED BY <2>1, <2>3
<1>7. SumFunctionOnSet(share, open) <= SumFunctionOnSet(rems, open)
      /\ SumFunctionOnSet(rems, open) \in Int
  <2> HIDE DEF share, open, rems
  <2>1. \A i \in open : share[i] \in Int /\ rems[i] \in Int /\ share[i] <= rems[i]
    BY <1>4, <1>5
  <2> QED BY <1>5, <2>1, SumMonotone, SumIsInt
<1>8. tx[s].left > 0 => SumFunctionOnSet(share, open) = SumFunctionOnSet(rems, open)
  <2> SUFFICES ASSUME tx[s].left > 0
               PROVE  SumFunctionOnSet(share, open) = SumFunctionOnSet(rems, open)
    OBVIOUS
  <2>1. \A i \in open : rems[i] \in Int /\ share[i] = rems[i]
    <3>1. \A i \in open : invoice'[i].rem = 0
      BY Collected
    <3> QED BY <1>4, <1>5, <3>1, CommitRows
  <2> HIDE DEF share, open, rems
  <2> QED BY <1>5, <2>1, SumEqual
<1>9. Ledger!SumFunctionOnSet(share, open) = Ledger!Min({a, Ledger!Remaining(open)})
  <2>1. Ledger!Remaining(open) = SumFunctionOnSet(rems, open)
    BY LedgerSum DEF Ledger!Remaining
  <2>2. /\ Allocated(s) \in Int /\ tx[s].left \in Nat /\ a \in Nat
        /\ Allocated(s) + tx[s].left = a
    BY Collected
  <2> HIDE DEF share, rems, open, a
  <2>3. Ledger!Min({a, SumFunctionOnSet(rems, open)}) =
            IF a <= SumFunctionOnSet(rems, open) THEN a ELSE SumFunctionOnSet(rems, open)
    BY <1>7, <2>2, LedgerMin
  <2>4. Allocated(s) = IF a <= SumFunctionOnSet(rems, open) THEN a ELSE SumFunctionOnSet(rems, open)
    BY <1>6, <1>7, <1>8, <2>2
  <2> QED BY <1>6, <2>1, <2>3, <2>4, LedgerSum
<1>10. \A i \in open :
         /\ 0 <= invoice'[i].rem
         /\ invoice'[i] = IF Ledger!Share(i) = 0 THEN invoice[i]
                          ELSE [invoice[i] EXCEPT
                                  !.rem = invoice'[i].rem,
                                  !.status = IF invoice'[i].rem = 0 THEN "PAID"
                                                                    ELSE "PARTIALLY_PAID"]
  <2> SUFFICES ASSUME NEW i \in open
               PROVE  /\ 0 <= invoice'[i].rem
                      /\ invoice'[i] = IF Ledger!Share(i) = 0 THEN invoice[i]
                                       ELSE [invoice[i] EXCEPT
                                               !.rem = invoice'[i].rem,
                                               !.status = IF invoice'[i].rem = 0 THEN "PAID"
                                                          ELSE "PARTIALLY_PAID"]
    OBVIOUS
  <2>1. Ledger!Share(i) = invoice[i].rem - invoice'[i].rem
        /\ invoice[i].rem \in Nat /\ invoice'[i].rem \in Nat
    BY <1>5, CommitRows DEF Ledger!Share
  <2>2. \/ invoice'[i] = invoice[i]
        \/ /\ invoice'[i].rem < invoice[i].rem
           /\ invoice'[i] = [invoice[i] EXCEPT
                 !.rem = invoice'[i].rem,
                 !.status = IF invoice'[i].rem = 0 THEN "PAID" ELSE "PARTIALLY_PAID"]
    BY Collected
  <2> QED BY <2>1, <2>2
<1>11. \A i \in open : Ledger!Share(i) # 0 => i \in WrittenBy(s)
  BY <1>4, <1>5 DEF Payment, WrittenBy
<1>12. \A i, j \in open :
         /\ invoice[i].due < invoice[j].due /\ Ledger!Share(j) # 0 => invoice'[i].rem = 0
         /\ i # j /\ Ledger!Share(i) # 0 /\ Ledger!Share(j) # 0 =>
                0 \in {invoice'[i].rem, invoice'[j].rem}
  <2>1. /\ open = WrittenBy(s) \cup tx[s].open
        /\ \A i \in WrittenBy(s), j \in tx[s].open : invoice[i].due <= invoice[j].due
        /\ \A i, j \in WrittenBy(s) : invoice[i].due < invoice[j].due => tx[s].draft[i].rem = 0
        /\ \A i, j \in WrittenBy(s) : i # j => 0 \in {tx[s].draft[i].rem, tx[s].draft[j].rem}
    BY <1>1 DEF SettlesInOrder
  <2>2. \A i \in WrittenBy(s) : invoice'[i].rem = tx[s].draft[i].rem
    BY CommitRows DEF WrittenBy
  <2>3. \A i \in Invoices : invoice[i].due \in Int
    BY DEF TypeOK, Row, Days
  <2>4. ASSUME NEW i \in open, NEW j \in open, invoice[i].due < invoice[j].due,
               Ledger!Share(j) # 0
        PROVE  invoice'[i].rem = 0
    <3>1. j \in WrittenBy(s)
      BY <1>11, <2>4
    <3>2. i \notin tx[s].open
      BY <1>5, <2>1, <2>3, <2>4, <3>1
    <3>3. i \in WrittenBy(s)
      BY <2>1, <3>2
    <3> QED BY <2>1, <2>2, <2>4, <3>1, <3>3
  <2>5. ASSUME NEW i \in open, NEW j \in open, i # j, Ledger!Share(i) # 0, Ledger!Share(j) # 0
        PROVE  0 \in {invoice'[i].rem, invoice'[j].rem}
    <3>1. i \in WrittenBy(s) /\ j \in WrittenBy(s)
      BY <1>11, <2>5
    <3> QED BY <2>1, <2>2, <2>5, <3>1
  <2> QED BY <2>4, <2>5
<1>13. Ledger!Accounts(c) = open /\ a > 0 /\ \A i \in Invoices \ open : invoice'[i] = invoice[i]
  BY Collected, OpenIsAccounts
<1> HIDE DEF a, open
<1> QED BY <1>3, <1>9, <1>10, <1>12, <1>13 DEF Ledger!Collect

\* The scan flags, and nothing else touches the rows the ledger is made of.
LEMMA ScanFlags == MarkOverdue => Ledger!Flag
<1> SUFFICES ASSUME MarkOverdue PROVE Ledger!Flag
  OBVIOUS
<1>1. collected' = collected
  BY DEF MarkOverdue, history
<1>2. \A i \in Invoices :
         \/ invoice'[i] = invoice[i]
         \/ /\ invoice[i].status \in OpenStatuses
            /\ invoice'[i] = [invoice[i] EXCEPT !.status = "OVERDUE"]
  BY DEF MarkOverdue, PastDue, OpenStatuses
<1> QED BY <1>1, <1>2 DEF Ledger!Flag, Ledger!OpenStates, OpenStatuses

LEMMA HistoryWriters ==
    ASSUME [Next]_vars, ~(\E s \in Sessions : Commit(s))
    PROVE  UNCHANGED <<charged, collected>>
  BY DEF Next, Begin, Continue, Checkout, Collect, Update, vars, StartCheckout, CheckOverdue,
     RefuseOverdue, RaiseBalance, IssueInvoice, StartCollect, PayDown, ListOpen, SettleNext,
     SettleDone, StartUpdate, CountPayments, ApplyUpsert, ApplyRetain, ApplyDelete,
     ProfileGone, Abort, MarkOverdue, Tick, history

LEMMA LedgerStep ==
    IInv /\ IInv' /\ DraftsInOrder /\ [Next]_vars => [Ledger!LedgerNext]_<<invoice, collected>>
<1> SUFFICES ASSUME IInv, IInv', DraftsInOrder, [Next]_vars
             PROVE  Ledger!LedgerNext \/ UNCHANGED <<invoice, collected>>
  OBVIOUS
<1>0. TypeOK /\ TypeOK' /\ LocalsFit
  BY DEF IInv
<1>1. ASSUME NEW s \in Sessions, Commit(s)
      PROVE  Ledger!LedgerNext \/ UNCHANGED <<invoice, collected>>
  <2>1. /\ OpFits(s) /\ IssuesOne(s) /\ SettlesInOrder(s) /\ Cust(s) \in Customers
        /\ req[s].op \in {"checkout", "collect"}
    BY <1>0, <1>1 DEF DraftsInOrder, LocalsFit, Commit
  <2>2. CASE req[s].op = "checkout"
    BY <1>0, <1>1, <2>1, <2>2, CheckoutPosts DEF Ledger!LedgerNext
  <2>3. CASE req[s].op = "collect"
    BY <1>0, <1>1, <2>1, <2>3, CollectionPosts DEF Ledger!LedgerNext
  <2> QED BY <2>1, <2>2, <2>3
<1>2. CASE MarkOverdue
  BY <1>2, ScanFlags DEF Ledger!LedgerNext
<1>3. CASE ~MarkOverdue /\ ~\E s \in Sessions : Commit(s)
  BY <1>3, InvoiceWriters, HistoryWriters
<1> QED BY <1>1, <1>2, <1>3

LEMMA InitLedger == Init => Ledger!LedgerInit
  BY DEF Init, Ledger!LedgerInit, NoRow

\* In every interleaving the rows of WholesaleCredit behave as CreditLedger says.
THEOREM ImplementsCreditLedger == Spec => ImplementsLedger
<1>1. IInv /\ IInv' /\ DraftsInOrder /\ [Next]_vars => [Ledger!LedgerNext]_<<invoice, collected>>
  BY LedgerStep
<1> QED BY Inductive, DraftsAlwaysInOrder, InitLedger, <1>1, PTL
        DEF Spec, ImplementsLedger, Ledger!Spec

-----------------------------------------------------------------------------
(* What a customer owes, as a sum over all rows.                            *)

DueOf(rows, c) ==
    [i \in Invoices |-> IF rows[i].cust = c /\ rows[i].status \in OpenStatuses THEN rows[i].rem ELSE 0]

LEMMA OwedOverRows ==
    ASSUME NEW rows, NEW c, \A i \in Invoices : rows[i].rem \in Int
    PROVE  SumFunctionOnSet([i \in Invoices |-> rows[i].rem],
                            {i \in Invoices : rows[i].cust = c /\ rows[i].status \in OpenStatuses}) =
               SumFunctionOnSet(DueOf(rows, c), Invoices)
<1> DEFINE open == {i \in Invoices : rows[i].cust = c /\ rows[i].status \in OpenStatuses}
           rems == [i \in Invoices |-> rows[i].rem]
           dues == DueOf(rows, c)
<1>1. open \subseteq Invoices /\ \A i \in Invoices \ open : dues[i] = 0
  BY DEF DueOf
<1>2. \A i \in open : dues[i] \in Int /\ rems[i] = dues[i]
  BY DEF DueOf
<1>3. \A i \in Invoices : dues[i] \in Int
  BY DEF DueOf
<1> HIDE DEF open, rems, dues
<1>4. IsFiniteSet(open)
  BY <1>1, InvoicesFinite, FS_Subset
<1>5. SumFunctionOnSet(rems, open) = SumFunctionOnSet(dues, open)
  BY <1>2, <1>4, SumEqual
<1>6. SumFunctionOnSet(dues, Invoices) = SumFunctionOnSet(dues, open)
  BY <1>1, <1>3, InvoicesFinite, SumSupport
<1> QED BY <1>5, <1>6 DEF open, rems, dues

LEMMA OwedIs ==
    ASSUME TypeOK, TypeOK', NEW CONSTANT c
    PROVE  /\ Owed(c) = SumFunctionOnSet(DueOf(invoice, c), Invoices)
           /\ Owed(c)' = SumFunctionOnSet(DueOf(invoice', c), Invoices)
           /\ Owed(c) \in Int /\ Owed(c)' \in Int
           /\ \A i \in Invoices : DueOf(invoice, c)[i] \in Int /\ DueOf(invoice', c)[i] \in Int
<1>1. \A i \in Invoices : invoice[i].rem \in Int /\ invoice'[i].rem \in Int
  BY DEF TypeOK, Row
<1>2. \A i \in Invoices : DueOf(invoice, c)[i] \in Int /\ DueOf(invoice', c)[i] \in Int
  BY <1>1 DEF DueOf
<1>3. OpenInvoices(c) = {i \in Invoices : invoice[i].cust = c /\ invoice[i].status \in OpenStatuses}
  BY DEF OpenInvoices, InvoicesOf
<1>4. OpenInvoices(c)' =
          {i \in Invoices : invoice'[i].cust = c /\ invoice'[i].status \in OpenStatuses}
  BY DEF OpenInvoices, InvoicesOf
<1>5. Owed(c) = SumFunctionOnSet(DueOf(invoice, c), Invoices)
  BY <1>1, <1>3, OwedOverRows DEF Owed
<1>6. Owed(c)' = SumFunctionOnSet(DueOf(invoice', c), Invoices)
  BY <1>1, <1>4, OwedOverRows DEF Owed
<1>7. /\ SumFunctionOnSet(DueOf(invoice, c), Invoices) \in Int
      /\ SumFunctionOnSet(DueOf(invoice', c), Invoices) \in Int
  BY <1>2, InvoicesFinite, SumIsInt
<1> QED BY <1>2, <1>5, <1>6, <1>7

\* A checkout adds what it issues to what its customer owes, which is at most its
\* amount, and to nobody else's debt.
LEMMA CheckoutOwes ==
    ASSUME TypeOK, TypeOK', NEW s \in Sessions, Commit(s), IssuesOne(s), req[s].op = "checkout",
           NEW CONSTANT c, NEW CONSTANT d, d = Cust(s)
    PROVE  /\ c # d => Owed(c)' = Owed(c)
           /\ Owed(c)' <= Owed(c) + req[s].amount
<1> DEFINE f == DueOf(invoice, c)
           g == DueOf(invoice', c)
<1>0. /\ pc[s] = "commit" /\ req[s].amount \in Nat
      /\ Owed(c) = SumFunctionOnSet(f, Invoices) /\ Owed(c)' = SumFunctionOnSet(g, Invoices)
      /\ Owed(c) \in Int /\ Owed(c)' \in Int
      /\ \A i \in Invoices : f[i] \in Int /\ g[i] \in Int
  BY OwedIs DEF Commit, TypeOK, Request
<1>1. \A i \in Invoices : ~Written(s, i) => g[i] = f[i]
  BY CommitRows DEF DueOf
<1>2. CASE WrittenBy(s) = {}
  <2>1. \A i \in Invoices : g[i] = f[i]
    BY <1>1, <1>2 DEF WrittenBy
  <2> HIDE DEF f, g
  <2>2. SumFunctionOnSet(g, Invoices) = SumFunctionOnSet(f, Invoices)
    BY <1>0, <2>1, InvoicesFinite, SumEqual
  <2> QED BY <1>0, <2>2
<1>3. ASSUME NEW k \in Invoices, WrittenBy(s) = {k}, invoice[k].status = "NONE",
             tx[s].draft[k] = NewRow(d, req[s].due, req[s].amount)
      PROVE  /\ c # d => Owed(c)' = Owed(c)
             /\ Owed(c)' <= Owed(c) + req[s].amount
  <2>1. \A i \in Invoices \ {k} : g[i] = f[i]
    BY <1>1, <1>3 DEF WrittenBy
  <2>2. f[k] = 0
    BY <1>3 DEF DueOf, OpenStatuses
  <2>3. g[k] = IF c = d THEN req[s].amount ELSE 0
    <3>1. invoice'[k] = NewRow(d, req[s].due, req[s].amount)
      BY <1>3, CommitRows DEF WrittenBy
    <3> QED BY <3>1 DEF DueOf, NewRow, OpenStatuses
  <2> HIDE DEF f, g
  <2>4. SumFunctionOnSet(g, Invoices) = SumFunctionOnSet(f, Invoices) - f[k] + g[k]
    BY <1>0, <1>3, <2>1, InvoicesFinite, SumChange
  <2> QED BY <1>0, <2>2, <2>3, <2>4
<1> QED BY <1>0, <1>2, <1>3 DEF IssuesOne

\* A collection takes what it allocates off what its customer owes; money is left only
\* when nothing is owed any more.
LEMMA CollectionOwes ==
    ASSUME TypeOK, TypeOK', NEW s \in Sessions, Commit(s), SettlesInOrder(s),
           OpFits(s), req[s].op = "collect",
           NEW CONSTANT c, NEW CONSTANT d, d = Cust(s)
    PROVE  /\ c # d => Owed(c)' = Owed(c)
           /\ Owed(d)' = 0 \/ Owed(d)' = Owed(d) - req[s].amount
<1>1. c # d => Owed(c)' = Owed(c)
  <2> SUFFICES ASSUME c # d PROVE Owed(c)' = Owed(c)
    OBVIOUS
  <2>1. ASSUME NEW i \in Invoices PROVE DueOf(invoice', c)[i] = DueOf(invoice, c)[i]
    <3>1. CASE i \in OpenInvoices(d)
      <4>1. invoice[i].cust = d /\ invoice[i] \in Row
        BY <3>1 DEF OpenInvoices, InvoicesOf, TypeOK
      <4>2. invoice'[i].cust = d
        BY <3>1, <4>1, Collected DEF Row
      <4> QED BY <4>1, <4>2 DEF DueOf
    <3>2. CASE i \notin OpenInvoices(d)
      BY <3>2, Collected DEF DueOf
    <3> QED BY <3>1, <3>2
  <2>2. SumFunctionOnSet(DueOf(invoice', c), Invoices) = SumFunctionOnSet(DueOf(invoice, c), Invoices)
    BY <2>1, OwedIs, InvoicesFinite, SumEqual
  <2> QED BY <2>2, OwedIs
<1>2. Owed(d)' = 0 \/ Owed(d)' = Owed(d) - req[s].amount
  <2> DEFINE f == DueOf(invoice, d)
             g == DueOf(invoice', d)
             h == [i \in Invoices |-> Payment(s, i)]
  <2>1. ASSUME NEW i \in Invoices
        PROVE  /\ f[i] = g[i] + h[i] /\ g[i] \in Int /\ h[i] \in Int
               /\ tx[s].left > 0 => g[i] = 0
    <3>1. /\ invoice[i] \in Row /\ invoice[i].rem \in Nat /\ invoice'[i].rem \in Nat
          /\ h[i] = invoice[i].rem - invoice'[i].rem
      BY CommitRows DEF TypeOK
    <3>2. CASE i \notin OpenInvoices(d)
      <4>1. invoice'[i] = invoice[i]
        BY <3>2, Collected
      <4> QED BY <3>1, <3>2, <4>1 DEF DueOf, OpenInvoices, InvoicesOf
    <3>3. CASE i \in OpenInvoices(d)
      <4>1. f[i] = invoice[i].rem
        BY <3>3 DEF DueOf, OpenInvoices, InvoicesOf
      <4>2. g[i] = invoice'[i].rem
        <5>1. CASE invoice'[i] = invoice[i]
          BY <4>1, <5>1 DEF DueOf
        <5>2. CASE invoice'[i] = [invoice[i] EXCEPT
                        !.rem = invoice'[i].rem,
                        !.status = IF invoice'[i].rem = 0 THEN "PAID" ELSE "PARTIALLY_PAID"]
          <6>1. /\ invoice'[i].cust = d
                /\ invoice'[i].status = IF invoice'[i].rem = 0 THEN "PAID" ELSE "PARTIALLY_PAID"
            BY <3>1, <3>3, <5>2 DEF Row, OpenInvoices, InvoicesOf
          <6> QED BY <6>1 DEF DueOf, OpenStatuses
        <5> QED BY <3>3, <5>1, <5>2, Collected
      <4>3. tx[s].left > 0 => invoice'[i].rem = 0
        BY <3>3, Collected
      <4> QED BY <3>1, <4>1, <4>2, <4>3
    <3> QED BY <3>2, <3>3
  <2>2. /\ Owed(d) = SumFunctionOnSet(f, Invoices) /\ Owed(d)' = SumFunctionOnSet(g, Invoices)
        /\ Owed(d) \in Int /\ Owed(d)' \in Int
    BY OwedIs
  <2>3. /\ Allocated(s) = SumFunctionOnSet(h, Invoices) /\ Allocated(s) \in Int
        /\ tx[s].left \in Nat /\ req[s].amount \in Nat
        /\ Allocated(s) + tx[s].left = req[s].amount
    BY Collected DEF Allocated
  <2> HIDE DEF f, g, h
  <2>4. SumFunctionOnSet(f, Invoices) = SumFunctionOnSet(g, Invoices) + SumFunctionOnSet(h, Invoices)
    BY <2>1, InvoicesFinite, SumOfTwo
  <2>5. tx[s].left > 0 => Owed(d)' = 0
    BY <2>1, <2>2, InvoicesFinite, SumZero
  <2> QED BY <2>2, <2>3, <2>4, <2>5
<1> QED BY <1>1, <1>2

-----------------------------------------------------------------------------
(* Requests that follow one another: the books balance.                      *)

LEMMA HeldStep == IInv /\ ProfileHeld /\ [Next]_vars => ProfileHeld'
<1> SUFFICES ASSUME IInv, ProfileHeld, [Next]_vars PROVE ProfileHeld'
  OBVIOUS
<1>0. TypeOK /\ LockDiscipline /\ LocalsFit
  BY DEF IInv
<1>1. ASSUME NEW s \in Sessions, Finish(s), UNCHANGED <<profiled, balance>> PROVE ProfileHeld'
  BY <1>0, <1>1 DEF ProfileHeld, Finish, TypeOK
<1>2. ASSUME NEW s \in Sessions, RaiseBalance(s) \/ PayDown(s) PROVE ProfileHeld'
  BY <1>0, <1>2 DEF ProfileHeld, RaiseBalance, PayDown, TypeOK, customerVars
<1>3. ASSUME NEW s \in Sessions, Commit(s) PROVE ProfileHeld'
  BY <1>0, <1>3, NobodyIsNew DEF ProfileHeld, Commit, Finish, TypeOK
<1>4. ASSUME NEW s \in Sessions, ApplyUpsert(s) PROVE ProfileHeld'
  BY <1>0, <1>4 DEF ProfileHeld, ApplyUpsert, Finish, TypeOK
<1>5. ASSUME NEW s \in Sessions, ApplyDelete(s) PROVE ProfileHeld'
  <2>1. lock[Cust(s)] = Nobody /\ Cust(s) \in Customers
    BY <1>0, <1>5, NobodyIsNew DEF ApplyDelete, LockFree, LockDiscipline, LockSteps, LocalsFit
  <2>2. \A c \in Customers : lock'[c] # Nobody => lock[c] # Nobody /\ c # Cust(s)
    BY <1>5, <2>1, NobodyIsNew DEF ApplyDelete, Finish
  <2> QED BY <1>0, <1>5, <2>1, <2>2 DEF ProfileHeld, ApplyDelete, TypeOK
<1>6. CASE UNCHANGED <<profiled, balance, lock>>
  BY <1>6 DEF ProfileHeld
<1> QED
  BY <1>1, <1>2, <1>3, <1>4, <1>5, <1>6 DEF Next, Begin, Continue, Checkout, Collect, Update, vars,
     StartCheckout, CheckOverdue, RefuseOverdue, IssueInvoice, StartCollect, ListOpen, SettleNext,
     SettleDone, StartUpdate, CountPayments, ApplyRetain, ProfileGone, Abort, MarkOverdue, Tick,
     customerVars

\* What holds of the books before and after a step that touches neither.
LEMMA BooksKept ==
    ASSUME TypeOK, TypeOK', BooksBalance, BalanceCoversInvoices,
           UNCHANGED <<balance, charged, collected>>, UNCHANGED invoice \/ MarkOverdue
    PROVE  BooksBalance' /\ BalanceCoversInvoices'
<1>1. BooksBalance'
  BY DEF BooksBalance
<1>2. ASSUME NEW c \in Customers PROVE Owed(c)' = Owed(c)
  <2>1. CASE UNCHANGED invoice
    BY <2>1 DEF Owed, OpenInvoices, InvoicesOf
  <2>2. CASE MarkOverdue
    <3>1. ASSUME NEW i \in Invoices PROVE DueOf(invoice', c)[i] = DueOf(invoice, c)[i]
      <4>1. invoice[i] \in Row
        BY DEF TypeOK
      <4>2. CASE PastDue(i)
        <5>1. invoice'[i] = [invoice[i] EXCEPT !.status = "OVERDUE"]
          BY <2>2, <4>2 DEF MarkOverdue
        <5> QED BY <4>1, <4>2, <5>1 DEF DueOf, PastDue, OpenStatuses, Row
      <4>3. CASE ~PastDue(i)
        <5>1. invoice'[i] = invoice[i]
          BY <2>2, <4>3 DEF MarkOverdue
        <5> QED BY <5>1 DEF DueOf
      <4> QED BY <4>2, <4>3
    <3>2. SumFunctionOnSet(DueOf(invoice', c), Invoices) =
              SumFunctionOnSet(DueOf(invoice, c), Invoices)
      BY <3>1, OwedIs, InvoicesFinite, SumEqual
    <3> QED BY <3>2, OwedIs
  <2> QED BY <2>1, <2>2
<1> QED BY <1>1, <1>2 DEF BalanceCoversInvoices

\* A commit of the only session moves the balance by what it charges or collects.
LEMMA CommitBalances ==
    ASSUME IInv, IInv', NEW s \in Sessions, Commit(s), OpFits(s), IssuesOne(s), SettlesInOrder(s),
           ReadStillHolds(s), BooksBalance, BalanceCoversInvoices
    PROVE  /\ BooksBalance' /\ BalanceCoversInvoices'
           /\ \A c \in Customers : balance'[c] > balance[c] => balance'[c] <= limit[c]
<1>d. PICK d : d = Cust(s)
  OBVIOUS
<1> USE <1>d
<1> DEFINE a == req[s].amount
<1>0. /\ TypeOK /\ TypeOK' /\ pc[s] = "commit" /\ d \in Customers /\ a \in Nat
      /\ req[s].op \in {"checkout", "collect"} /\ req[s].amount > 0
  BY DEF IInv, Commit, LocalsFit, OpFits, TypeOK, Request
<1>1. /\ balance'[d] = tx[s].balance
      /\ \A c \in Customers \ {d} : balance'[c] = balance[c]
      /\ \A c \in Customers : balance[c] \in Nat /\ balance'[c] \in Nat
  <2>1. lock[d] = s /\ \A c \in Customers \ {d} : lock[c] # s
    BY <1>0 DEF IInv, LockDiscipline, LockSteps
  <2>2. \A c \in Customers : balance[c] \in Nat /\ balance'[c] \in Nat
    BY <1>0 DEF TypeOK
  <2> QED BY <1>0, <2>1, <2>2 DEF Commit
<1>2. /\ balance'[d] = IF req[s].op = "checkout" THEN balance[d] + a ELSE balance[d] - a
      /\ req[s].op = "checkout" => balance[d] + a <= limit[d]
  BY <1>0, <1>1 DEF ReadStillHolds, LockSteps
<1>3. CASE req[s].op = "checkout"
  <2>1. charged' = [charged EXCEPT ![d] = @ + a] /\ collected' = collected
    BY <1>3 DEF Commit
  <2>2. BooksBalance'
    BY <1>0, <1>1, <1>2, <1>3, <2>1 DEF BooksBalance, TypeOK
  <2>3. ASSUME NEW c \in Customers PROVE Owed(c)' <= balance'[c]
    <3>1. /\ c # d => Owed(c)' = Owed(c)
          /\ Owed(c)' <= Owed(c) + a
      BY <1>0, <1>3, CheckoutOwes
    <3>2. Owed(c) \in Int /\ Owed(c)' \in Int /\ Owed(c) <= balance[c]
      BY <1>0, OwedIs DEF BalanceCoversInvoices
    <3> QED BY <1>0, <1>1, <1>2, <1>3, <3>1, <3>2
  <2> QED BY <1>1, <1>2, <1>3, <2>2, <2>3 DEF BalanceCoversInvoices
<1>4. CASE req[s].op = "collect"
  <2>1. charged' = charged /\ collected' = [collected EXCEPT ![d] = @ + a]
    BY <1>4 DEF Commit
  <2>2. BooksBalance'
    BY <1>0, <1>1, <1>2, <1>4, <2>1 DEF BooksBalance, TypeOK
  <2>3. ASSUME NEW c \in Customers PROVE Owed(c)' <= balance'[c]
    <3>1. /\ c # d => Owed(c)' = Owed(c)
          /\ Owed(d)' = 0 \/ Owed(d)' = Owed(d) - a
      BY <1>0, <1>4, CollectionOwes
    <3>2. /\ Owed(c) \in Int /\ Owed(c)' \in Int /\ Owed(c) <= balance[c]
      BY <1>0, OwedIs DEF BalanceCoversInvoices
    <3>3. CASE c = d
      BY <1>0, <1>1, <1>2, <1>4, <3>1, <3>2, <3>3
    <3>4. CASE c # d
      BY <1>1, <3>1, <3>2, <3>4
    <3> QED BY <3>3, <3>4
  <2>4. ~(balance'[d] > balance[d])
    BY <1>0, <1>1, <1>2, <1>4
  <2>5. \A c \in Customers : ~(balance'[c] > balance[c])
    BY <1>1, <2>4
  <2> QED BY <2>2, <2>3, <2>5 DEF BalanceCoversInvoices
<1> QED BY <1>0, <1>3, <1>4

\* The only session there is, or was: what it has read still holds after its step.
LEMMA OwnReading ==
    ASSUME IInv, NEW s \in Sessions, Begin(s) \/ Continue(s) \/ Abort(s),
           OpFits(s), ReadStillHolds(s)
    PROVE  ReadStillHolds(s)'
<1>0. /\ TypeOK /\ LocalsFit /\ WholesaleProfiled /\ tx[s] \in Tx
      /\ pc[s] # "idle" => Cust(s) \in Customers
  BY DEF IInv, TypeOK, LocalsFit
<1>1. CASE Finish(s)
  <2>1. pc'[s] = "idle"
    BY <1>0, <1>1 DEF Finish, TypeOK
  <2> QED BY <2>1 DEF ReadStillHolds, LockSteps
<1>2. CASE StartCheckout(s)
  <2>1. PICK c \in Customers, a \in Amounts, d \in Days \cup {NoDue}, o \in BOOLEAN :
            /\ ctype[c] = "WHOLESALE"
            /\ profiled[c] => WithinLimit(c, a)
            /\ req' = [req EXCEPT ![s] = [NoRequest EXCEPT !.op = "checkout", !.cust = c,
                                            !.amount = a, !.due = d, !.override = o]]
            /\ Goto(s, IF profiled[c] THEN "overdue" ELSE "issue")
    BY <1>2 DEF StartCheckout
  <2>2. /\ profiled[c] /\ pc'[s] = "overdue" /\ req'[s].cust = c /\ req'[s].amount = a
        /\ balance[c] + a <= limit[c]
    BY <1>0, <2>1 DEF WholesaleProfiled, Goto, TypeOK, NoRequest, WithinLimit
  <2>3. UNCHANGED <<balance, limit>>
    BY <1>2 DEF StartCheckout, customerVars
  <2> QED BY <2>2, <2>3 DEF ReadStillHolds, LockSteps, Cust
<1>3. CASE StartCollect(s)
  <2>1. PICK c \in Customers, a \in Amounts :
            /\ req' = [req EXCEPT ![s] = [NoRequest EXCEPT !.op = "collect", !.cust = c,
                                                           !.amount = a]]
            /\ tx' = [tx EXCEPT ![s].seen = balance[c]]
    BY <1>3 DEF StartCollect
  <2>2. pc'[s] = "pay" /\ req'[s].cust = c /\ tx'[s].seen = balance[c] /\ balance' = balance
    BY <1>0, <1>3, <2>1 DEF StartCollect, Goto, TypeOK, NoRequest, Tx
  <2> QED BY <2>2 DEF ReadStillHolds, LockSteps, Cust
<1>4. CASE StartUpdate(s)
  <2>1. PICK c \in Customers, t \in Types \cup {"UNSET"}, l \in Limits \cup {Unset} :
            /\ req' = [req EXCEPT ![s] = [NoRequest EXCEPT !.op = "update", !.cust = c,
                                            !.ctype = t, !.limit = l]]
            /\ Goto(s, "upsert") \/ (DebtFree(c) /\ Goto(s, "count")) \/ Goto(s, "retain")
    BY <1>4 DEF StartUpdate
  <2>2. /\ pc'[s] \in {"upsert", "count", "retain"} /\ req'[s].cust = c
        /\ pc'[s] = "count" => DebtFree(c)
    BY <1>0, <2>1 DEF Goto, TypeOK, NoRequest
  <2>3. balance' = balance /\ balance[c] \in Nat
    BY <1>0, <1>4 DEF StartUpdate, TypeOK
  <2>4. pc'[s] = "count" => balance'[req'[s].cust] = 0
    BY <2>2, <2>3 DEF DebtFree
  <2> QED BY <2>2, <2>4 DEF ReadStillHolds, LockSteps, Cust
<1>5. CASE CheckOverdue(s)
  <2>1. pc[s] = "overdue" /\ pc'[s] = "raise" /\ UNCHANGED <<balance, limit, req>>
    BY <1>0, <1>5 DEF CheckOverdue, Goto, TypeOK, customerVars
  <2> QED BY <2>1 DEF ReadStillHolds, LockSteps, Cust
<1>6. CASE RaiseBalance(s)
  <2>1. /\ pc[s] = "raise" /\ pc'[s] = "issue" /\ UNCHANGED <<balance, limit, req>>
        /\ tx'[s].balance = balance[Cust(s)] + req[s].amount /\ req[s].op = "checkout"
    BY <1>0, <1>6 DEF RaiseBalance, Goto, TypeOK, customerVars, Tx, Raised, LocalsFit
  <2> QED BY <2>1 DEF ReadStillHolds, LockSteps, Cust
<1>7. CASE PayDown(s)
  <2>1. /\ pc[s] = "pay" /\ pc'[s] = "list" /\ UNCHANGED <<balance, limit, req>>
        /\ tx'[s].balance = tx[s].seen - req[s].amount /\ req[s].op = "collect"
    BY <1>0, <1>7 DEF PayDown, Goto, TypeOK, customerVars, Tx, OpFits
  <2> QED BY <2>1 DEF ReadStillHolds, LockSteps, Cust
<1>8. CASE IssueInvoice(s) \/ ListOpen(s) \/ SettleNext(s) \/ SettleDone(s)
  <2>1. /\ pc[s] \in LockSteps /\ pc'[s] \in LockSteps /\ UNCHANGED <<balance, limit, req>>
        /\ pc[s] \notin {"count", "delete", "pay"} /\ pc'[s] \notin {"count", "delete", "pay"}
    BY <1>0, <1>8 DEF IssueInvoice, ListOpen, SettleNext, SettleDone, Goto, TypeOK, customerVars,
                      LockSteps
  <2>2. tx'[s].balance = tx[s].balance
    <3>1. CASE SettleNext(s)
      <4>1. PICK i \in Oldest(tx[s].open) :
              tx' = [tx EXCEPT ![s] =
                       [@ EXCEPT !.left     = Rest(tx[s].left, tx[s].snap[i]),
                                 !.open     = tx[s].open \ {i},
                                 !.draft[i] = Settled(i, tx[s].snap[i], tx[s].left)]]
        BY <3>1 DEF SettleNext
      <4> QED BY <1>0, <4>1 DEF TypeOK, Tx
    <3>2. CASE IssueInvoice(s)
      <4>1. CASE UNCHANGED tx
        BY <4>1
      <4>2. CASE \E i \in Invoices : tx' = [tx EXCEPT ![s].draft[i] =
                                            NewRow(Cust(s), req[s].due, req[s].amount)]
        BY <1>0, <4>2 DEF TypeOK, Tx
      <4> QED BY <3>2, <4>1, <4>2 DEF IssueInvoice
    <3>3. CASE ListOpen(s)
      BY <1>0, <3>3 DEF ListOpen, TypeOK, Tx
    <3>4. CASE SettleDone(s)
      BY <3>4 DEF SettleDone
    <3> QED BY <1>8, <3>1, <3>2, <3>3, <3>4
  <2> QED BY <2>1, <2>2 DEF ReadStillHolds, Cust
<1>9. CASE CountPayments(s)
  <2>1. /\ pc[s] = "count" /\ pc'[s] \in {"retain", "delete"} /\ UNCHANGED <<balance, payments, req>>
        /\ pc'[s] = "delete" => ~HasHistory(Cust(s))
    BY <1>0, <1>9 DEF CountPayments, Goto, TypeOK, customerVars
  <2>2. payments[Cust(s)] \in Nat
    BY <1>0, <2>1 DEF TypeOK
  <2> QED BY <2>1, <2>2 DEF ReadStillHolds, LockSteps, Cust, HasHistory
<1> QED
  BY <1>1, <1>2, <1>3, <1>4, <1>5, <1>6, <1>7, <1>8, <1>9 DEF Begin, Continue, Checkout, Collect,
     Update, RefuseOverdue, Commit, ApplyUpsert, ApplyRetain, ApplyDelete, ProfileGone, Abort

\* The steps of the only session there is keep the books.
LEMMA OwnBooks ==
    ASSUME IInv, IInv', ProfileHeld, NEW s \in Sessions, Begin(s) \/ Continue(s) \/ Abort(s),
           OpFits(s), IssuesOne(s), SettlesInOrder(s), ReadStillHolds(s),
           BooksBalance, BalanceCoversInvoices
    PROVE  BooksBalance' /\ BalanceCoversInvoices'
<1>0. TypeOK /\ TypeOK' /\ LocalsFit
  BY DEF IInv
<1>1. CASE Commit(s)
  BY <1>1, CommitBalances
<1>2. CASE UNCHANGED <<balance, charged, collected, invoice>>
  BY <1>0, <1>2, BooksKept
<1>3. CASE ApplyUpsert(s) \/ ApplyDelete(s)
  <2>1. UNCHANGED <<charged, collected, invoice>>
    BY <1>3 DEF ApplyUpsert, ApplyDelete, history
  <2>2. balance' = balance
    <3>1. Cust(s) \in Customers
      BY <1>0, <1>3 DEF ApplyUpsert, ApplyDelete, LocalsFit
    <3>2. ApplyDelete(s) => balance[Cust(s)] = 0
      BY DEF ApplyDelete, ReadStillHolds
    <3>3. ~profiled[Cust(s)] => balance[Cust(s)] = 0
      BY <3>1 DEF ProfileHeld
    <3> QED BY <1>0, <1>3, <3>1, <3>2, <3>3 DEF ApplyUpsert, ApplyDelete, TypeOK
  <2> QED BY <1>0, <2>1, <2>2, BooksKept
<1> QED
  BY <1>1, <1>2, <1>3 DEF Begin, Continue, Checkout, Collect, Update, StartCheckout, CheckOverdue,
     RefuseOverdue, RaiseBalance, IssueInvoice, StartCollect, PayDown, ListOpen, SettleNext,
     SettleDone, StartUpdate, CountPayments, ApplyRetain, ProfileGone, Abort, history

\* Without an overlap, the session that moves is the only one.
LEMMA OnlyOne ==
    ASSUME TypeOK, ~Overlap, ~Overlap', NEW s \in Sessions, Begin(s) \/ Continue(s) \/ Abort(s),
           NEW t \in Sessions \ {s}, pc'[t] = pc[t]
    PROVE  pc'[t] = "idle" /\ pc[t] = "idle"
<1>1. pc[s] # "idle" \/ pc'[s] # "idle"
  <2>1. CASE Begin(s)
    BY <2>1 DEF Begin, StartCheckout, StartCollect, StartUpdate, Goto, TypeOK
  <2>2. CASE Continue(s) \/ Abort(s)
    BY <2>2 DEF Continue, Checkout, Collect, Update, CheckOverdue, RefuseOverdue, RaiseBalance,
       IssueInvoice, PayDown, ListOpen, SettleNext, SettleDone, Commit, CountPayments, ApplyUpsert,
       ApplyRetain, ApplyDelete, ProfileGone, Abort
  <2> QED BY <2>1, <2>2
<1> QED BY <1>1 DEF Overlap

LEMMA AloneStep ==
    IInv /\ IInv' /\ DraftsInOrder /\ ProfileHeld /\ BooksAlone /\ [BooksNext]_booksVars
        => BooksAlone'
<1> SUFFICES ASSUME IInv, IInv', DraftsInOrder, ProfileHeld, BooksAlone, [BooksNext]_booksVars,
                    ~overlapped'
             PROVE  /\ ~Overlap'
                    /\ BooksBalance' /\ BalanceCoversInvoices'
                    /\ \A t \in Sessions : ReadStillHolds(t)'
  BY DEF BooksAlone
<1>0. /\ TypeOK /\ TypeOK' /\ ~overlapped /\ [Next]_vars
      /\ (BooksNext \/ UNCHANGED booksVars)
  <2>1. TypeOK /\ TypeOK'
    BY DEF IInv
  <2>2. CASE BooksNext
    BY <2>1, <2>2, Zenon DEF BooksNext
  <2>3. CASE UNCHANGED booksVars
    <3>1. UNCHANGED vars /\ UNCHANGED overlapped
      BY <2>3 DEF booksVars
    <3> QED BY <2>1, <2>3, <3>1, Zenon
  <2> QED BY <2>2, <2>3, Zenon
<1>1. /\ ~Overlap /\ BooksBalance /\ BalanceCoversInvoices
      /\ \A t \in Sessions : ReadStillHolds(t)
  BY <1>0 DEF BooksAlone
<1>2. ~Overlap'
  BY <1>0, <1>1 DEF BooksNext, booksVars, vars, Overlap
<1>3. CASE MarkOverdue \/ Tick \/ UNCHANGED vars
  <2>1. /\ UNCHANGED <<session, balance, limit, payments, charged, collected>>
        /\ UNCHANGED invoice \/ MarkOverdue
    BY <1>3 DEF MarkOverdue, Tick, vars, customerVars, history, session
  <2>2. \A t \in Sessions : ReadStillHolds(t)'
    BY <1>1, <2>1 DEF ReadStillHolds, session, Cust
  <2>3. BooksBalance' /\ BalanceCoversInvoices'
    BY <1>0, <1>1, <2>1, BooksKept
  <2> QED BY <1>2, <2>2, <2>3
<1>4. ASSUME NEW s \in Sessions, Begin(s) \/ Continue(s) \/ Abort(s),
             \A t \in Sessions \ {s} : pc'[t] = pc[t] /\ req'[t] = req[t] /\ tx'[t] = tx[t]
      PROVE  BooksBalance' /\ BalanceCoversInvoices' /\ \A t \in Sessions : ReadStillHolds(t)'
  <2>1. OpFits(s) /\ IssuesOne(s) /\ SettlesInOrder(s) /\ ReadStillHolds(s)
    BY <1>1 DEF DraftsInOrder
  <2>2. BooksBalance' /\ BalanceCoversInvoices'
    BY <1>1, <1>4, <2>1, OwnBooks
  <2>3. ReadStillHolds(s)'
    BY <1>4, <2>1, OwnReading
  <2>4. ASSUME NEW t \in Sessions \ {s} PROVE ReadStillHolds(t)'
    <3>1. pc'[t] = "idle"
      BY <1>0, <1>1, <1>2, <1>4, OnlyOne
    <3> QED BY <3>1 DEF ReadStillHolds, LockSteps
  <2> QED BY <2>2, <2>3, <2>4
<1> QED BY <1>0, <1>2, <1>3, <1>4, StepCases

LEMMA InitBooks == BooksInit => Init /\ ProfileHeld /\ BooksAlone
<1> SUFFICES ASSUME BooksInit PROVE Init /\ ProfileHeld /\ BooksAlone
  OBVIOUS
<1>1. Init /\ \A s \in Sessions : pc[s] = "idle"
  BY DEF BooksInit, Init
<1>2. ProfileHeld
  BY <1>1 DEF ProfileHeld, Init
<1>3. ~Overlap /\ \A s \in Sessions : ReadStillHolds(s)
  BY <1>1 DEF Overlap, ReadStillHolds, LockSteps
<1>4. \A c \in Customers : balance[c] \in Nat
  BY <1>1, Numbers DEF Init
<1>5. BooksBalance
  BY <1>1, <1>4 DEF BooksBalance, Init
<1>6. BalanceCoversInvoices
  <2> SUFFICES ASSUME NEW c \in Customers PROVE Owed(c) <= balance[c]
    BY DEF BalanceCoversInvoices
  <2>1. OpenInvoices(c) = {}
    BY <1>1 DEF OpenInvoices, InvoicesOf, Init, NoRow, OpenStatuses
  <2>2. Owed(c) = 0
    BY <2>1, SumEmpty DEF Owed
  <2> QED BY <1>4, <2>2
<1> QED BY <1>1, <1>2, <1>3, <1>5, <1>6 DEF BooksAlone

\* Beside the history variable, the books have the behaviours of WholesaleCredit.
LEMMA BooksAreCredit == BooksSpec => Spec
<1>1. [BooksNext]_booksVars => [Next]_vars
  BY DEF BooksNext, booksVars
<1> QED BY <1>1, InitBooks, PTL DEF BooksSpec, Spec

THEOREM BooksInductive == BooksSpec => [](IInv /\ DraftsInOrder /\ ProfileHeld /\ BooksAlone)
<1>1. [BooksNext]_booksVars => [Next]_vars
  BY DEF BooksNext, booksVars
<1>2. IInv /\ ProfileHeld /\ [Next]_vars => ProfileHeld'
  BY HeldStep
<1>3. IInv /\ IInv' /\ DraftsInOrder /\ ProfileHeld /\ BooksAlone /\ [BooksNext]_booksVars
          => BooksAlone'
  BY AloneStep
<1> QED BY <1>1, <1>2, <1>3, InitBooks, BooksAreCredit, Inductive, DraftsAlwaysInOrder, PTL
        DEF BooksSpec

\* As long as requests follow one another, the balance of a customer is what it was
\* charged less what was collected, and covers its open invoices.
THEOREM BooksAlwaysBalance == BooksSpec => []BooksBalanceAlone
<1>1. BooksAlone => BooksBalanceAlone
  BY DEF BooksAlone, BooksBalanceAlone
<1> QED BY <1>1, BooksInductive, PTL

\* As long as requests follow one another, no step takes a balance above the limit of
\* its customer.
THEOREM LimitAlwaysHeld == BooksSpec => LimitHeldAlone
<1>1. ASSUME IInv, IInv', DraftsInOrder, BooksAlone, [Next]_vars, ~overlapped,
             NEW c \in Customers, balance'[c] > balance[c]
      PROVE  balance'[c] <= limit[c]
  <2>0. TypeOK /\ TypeOK' /\ balance[c] \in Nat
    BY <1>1 DEF IInv, TypeOK
  <2>1. ASSUME NEW s \in Sessions, Commit(s) PROVE balance'[c] <= limit[c]
    BY <1>1, <2>1, CommitBalances DEF BooksAlone, DraftsInOrder
  <2>2. ASSUME NEW s \in Sessions, ApplyUpsert(s) \/ ApplyDelete(s) PROVE FALSE
    <3>1. balance'[c] = balance[c] \/ balance'[c] = 0
      BY <2>0, <2>2 DEF ApplyUpsert, ApplyDelete, TypeOK
    <3> QED BY <1>1, <2>0, <3>1
  <2>3. CASE UNCHANGED balance
    BY <1>1, <2>0, <2>3
  <2> QED
    BY <1>1, <2>1, <2>2, <2>3 DEF Next, Begin, Continue, Checkout, Collect, Update, vars,
       StartCheckout, CheckOverdue, RefuseOverdue, RaiseBalance, IssueInvoice, StartCollect, PayDown,
       ListOpen, SettleNext, SettleDone, StartUpdate, CountPayments, ApplyRetain, ProfileGone, Abort,
       MarkOverdue, Tick
<1>2. IInv /\ IInv' /\ DraftsInOrder /\ BooksAlone /\ [BooksNext]_booksVars =>
          [~overlapped => \A c \in Customers : balance'[c] > balance[c] => balance'[c] <= limit[c]]_vars
  BY <1>1 DEF BooksNext, booksVars
<1> QED BY <1>2, BooksInductive, PTL DEF BooksSpec, LimitHeldAlone

\* As long as requests follow one another, only a profile without debt and without
\* payments is deleted.
THEOREM OnlyClearDeleted == BooksSpec => DeletedWhenClearAlone
<1>1. ASSUME IInv, BooksAlone, [Next]_vars, ~overlapped,
             NEW c \in Customers, profiled[c], ~profiled'[c]
      PROVE  balance[c] = 0 /\ payments[c] = 0
  <2>0. TypeOK
    BY <1>1 DEF IInv
  <2>1. PICK s \in Sessions : ApplyDelete(s)
    <3>1. ASSUME NEW s \in Sessions, ApplyUpsert(s) \/ ApplyRetain(s) PROVE FALSE
      BY <1>1, <2>0, <3>1 DEF ApplyUpsert, ApplyRetain, TypeOK
    <3>2. profiled' # profiled
      BY <1>1
    <3> QED BY <1>1, <3>1, <3>2, ProfileWriters
  <2>2. c = Cust(s) /\ pc[s] = "delete"
    BY <1>1, <2>0, <2>1 DEF ApplyDelete, TypeOK
  <2> QED BY <1>1, <2>2 DEF BooksAlone, ReadStillHolds
<1>2. IInv /\ BooksAlone /\ [BooksNext]_booksVars =>
          [~overlapped => \A c \in Customers : profiled[c] /\ ~profiled'[c] =>
               balance[c] = 0 /\ payments[c] = 0]_vars
  BY <1>1 DEF BooksNext, booksVars
<1> QED BY <1>2, BooksInductive, PTL DEF BooksSpec, DeletedWhenClearAlone
==============================================================================
