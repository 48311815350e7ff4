-------------------------- MODULE StockLedgerProofs --------------------------
(* Proofs about StockLedger, for any products, sessions and quantities.     *)
EXTENDS StockLedger, SumTheorems, SequenceTheorems, TLAPS

USE DEF history

LEMMA Numbers == \A n \in Amounts : n \in Nat /\ n > 0
  BY AmountsPositive

\* Quantities and conversions are positive, so a call always asks for something.
LEMMA BaseUnits ==
    ASSUME TypeOK, NEW c \in Call
    PROVE  /\ Conversion(c.p, c.uom) \in Nat
           /\ c.n * Conversion(c.p, c.uom) \in Nat
           /\ Conversion(c.p, c.uom) # 0 => c.n * Conversion(c.p, c.uom) > 0
           /\ c.n * ItemFactor(c) \in Nat \ {0}
<1>1. c.n \in Nat /\ c.n > 0
  BY Numbers DEF Call
<1>2. Conversion(c.p, c.uom) \in Nat
  BY DEF Conversion, TypeOK, Call
<1>3. \A a, b \in Nat : a > 0 /\ b > 0 => a * b \in Nat /\ a * b > 0
  OBVIOUS
<1>4. c.n * 0 = 0
  BY <1>1
<1>5. CASE Conversion(c.p, c.uom) = 0
  BY <1>1, <1>3, <1>4, <1>5 DEF ItemFactor
<1>6. CASE Conversion(c.p, c.uom) # 0
  BY <1>1, <1>2, <1>3, <1>6 DEF ItemFactor
<1> QED BY <1>2, <1>5, <1>6

\* Every request is a non-empty sequence of calls.
LEMMA PlansAreCalls ==
    ASSUME NEW op \in Operations, NEW calls \in Plans(op)
    PROVE  calls \in Seq(Call) /\ calls # <<>>
<1>1. \A kind, units, overrides : Lines(kind, units, overrides) \subseteq Call
  BY DEF Lines
<1>2. \A c \in Call : <<c>> \in Seq(Call) /\ <<c>> # <<>>
  OBVIOUS
<1>3. \A c, d \in Call : <<c, d>> \in Seq(Call) /\ <<c, d>> # <<>>
  OBVIOUS
<1>4. CASE op = "checkout"
  <2>1. PICK n \in 1 .. MaxItems, o \in BOOLEAN : calls \in [1 .. n -> Lines("out", Units, {o})]
    <3>1. calls \in CheckoutPlans
      BY <1>4 DEF Plans
    <3>2. PICK o \in BOOLEAN : calls \in CheckoutLines(o)
      BY <3>1 DEF CheckoutPlans
    <3>3. PICK n \in 1 .. MaxItems : calls \in [1 .. n -> Lines("out", Units, {o})]
      BY <3>2 DEF CheckoutLines
    <3> QED BY <3>3
  <2>2. calls \in [1 .. n -> Call] /\ n \in Nat /\ n > 0
    BY <1>1, <2>1, BoundsNatural
  <2>3. calls \in Seq(Call)
    BY <2>2
  <2>4. Len(calls) = n
    BY <2>2, <2>3
  <2> QED BY <2>2, <2>3, <2>4
<1>5. CASE op = "exchange"
  <2>1. calls \in ExchangePlans
    BY <1>5 DEF Plans
  <2>2. \/ \E c \in Call : calls = <<c>>
        \/ \E c, d \in Call : calls = <<c, d>>
    BY <1>1, <2>1 DEF ExchangePlans
  <2> QED BY <1>2, <1>3, <2>2
<1>6. CASE op \in {"adjust", "stockIn", "stockOut"}
  BY <1>1, <1>2, <1>6 DEF Plans
<1> QED BY <1>4, <1>5, <1>6, OperationsKnown

LEMMA NoTxTyped == NoTx \in Tx
  BY EmptySeq DEF NoTx, Tx

\* Ending a request keeps the session variables typed.
LEMMA FinishTyped ==
    ASSUME TypeOK, NEW s \in Sessions, Finish(s)
    PROVE  /\ pc' \in [Sessions -> Steps] /\ plan' \in [Sessions -> Seq(Call)]
           /\ tx' \in [Sessions -> Tx] /\ lock' \in [Products -> Sessions \cup {Nobody}]
<1>1. <<>> \in Seq(Call)
  OBVIOUS
<1> QED BY <1>1, NoTxTyped DEF TypeOK, Finish, Goto, Steps

\* The call a session is serving.
LEMMA CurrentTyped ==
    ASSUME TypeOK, LocalsFit, NEW s \in Sessions, pc[s] \in {"read", "refuse", "write", "log"}
    PROVE  /\ plan[s] \in Seq(Call) /\ plan[s] # <<>>
           /\ Current(s) \in Call /\ Current(s).p \in Products
           /\ Tail(plan[s]) \in Seq(Call)
           /\ Len(plan[s]) # 1 => Tail(plan[s]) # <<>>
<1>1. plan[s] \in Seq(Call) /\ plan[s] # <<>>
  BY DEF TypeOK, LocalsFit
<1>2. Head(plan[s]) \in Call /\ Tail(plan[s]) \in Seq(Call) /\ Len(Tail(plan[s])) = Len(plan[s]) - 1
  BY <1>1, HeadTailProperties
<1>3. Len(plan[s]) \in Nat
  BY <1>1
<1>4. Len(plan[s]) # 1 => Tail(plan[s]) # <<>>
  <2>1. Len(plan[s]) # 1 => Len(Tail(plan[s])) # 0
    BY <1>2, <1>3
  <2> QED BY <2>1, EmptySeq
<1> QED BY <1>1, <1>2, <1>4 DEF Current, Call

\* The product row as a statement sees it.
LEMMA RowTyped ==
    ASSUME TypeOK, NEW s \in Sessions, NEW p \in Products
    PROVE  Row(s, p).qty \in Int /\ Row(s, p).recount \in BOOLEAN
<1>1. tx[s].draft[p].qty \in Int /\ tx[s].draft[p].recount \in BOOLEAN
  BY DEF TypeOK, Tx
<1>2. qty[p] \in Int /\ recount[p] \in BOOLEAN
  BY DEF TypeOK
<1> QED BY <1>1, <1>2 DEF Row

LEMMA TargetTyped ==
    ASSUME TypeOK, NEW c \in Call, NEW q \in Int
    PROVE  Target(c, q) \in Int
  BY BaseUnits DEF Target, Call, Kinds

-----------------------------------------------------------------------------
(* Sequences of movements.                                                  *)

LEMMA Appended ==
    ASSUME NEW m \in Seq(Move), NEW e \in Move
    PROVE  /\ Append(m, e) \in Seq(Move) /\ Append(m, e) # <<>>
           /\ LastNew(Append(m, e)) = e.new
           /\ Forced(m) => Forced(Append(m, e))
           /\ e.overridden => Forced(Append(m, e))
<1>1. /\ Append(m, e) \in Seq(Move) /\ Len(Append(m, e)) = Len(m) + 1
      /\ Append(m, e)[Len(m) + 1] = e
      /\ \A k \in 1 .. Len(m) : Append(m, e)[k] = m[k]
      /\ Len(m) \in Nat /\ DOMAIN m = 1 .. Len(m)
      /\ DOMAIN Append(m, e) = 1 .. Len(m) + 1
  OBVIOUS
<1>2. Append(m, e) # <<>>
  BY <1>1
<1>3. LastNew(Append(m, e)) = e.new
  BY <1>1 DEF LastNew
<1>4. Forced(m) => Forced(Append(m, e))
  BY <1>1 DEF Forced
<1>5. e.overridden => Forced(Append(m, e))
  <2>1. Len(m) + 1 \in DOMAIN Append(m, e)
    BY <1>1
  <2> QED BY <1>1, <2>1 DEF Forced
<1> QED BY <1>1, <1>2, <1>3, <1>4, <1>5

LEMMA Joined ==
    ASSUME NEW m \in Seq(Move), NEW n \in Seq(Move)
    PROVE  /\ m \o n \in Seq(Move)
           /\ n = <<>> => m \o n = m
           /\ n # <<>> => m \o n # <<>> /\ LastNew(m \o n) = LastNew(n)
           /\ Forced(m) \/ Forced(n) => Forced(m \o n)
<1>1. /\ m \o n \in Seq(Move) /\ Len(m \o n) = Len(m) + Len(n)
      /\ \A k \in 1 .. Len(m) + Len(n) :
            (m \o n)[k] = IF k <= Len(m) THEN m[k] ELSE n[k - Len(m)]
  BY ConcatProperties
<1>2. /\ Len(m) \in Nat /\ DOMAIN m = 1 .. Len(m)
      /\ Len(n) \in Nat /\ DOMAIN n = 1 .. Len(n)
      /\ DOMAIN (m \o n) = 1 .. Len(m) + Len(n)
  BY <1>1, LenProperties
<1>3. n = <<>> => m \o n = m
  BY ConcatEmptySeq
<1>4. n # <<>> => m \o n # <<>> /\ LastNew(m \o n) = LastNew(n)
  <2>1. SUFFICES ASSUME n # <<>> PROVE m \o n # <<>> /\ LastNew(m \o n) = LastNew(n)
    OBVIOUS
  <2>2. Len(n) > 0
    BY <1>2, <2>1, EmptySeq
  <2>3. Len(m) + Len(n) \in 1 .. Len(m) + Len(n) /\ ~(Len(m) + Len(n) <= Len(m))
    BY <1>2, <2>2
  <2>4. (m \o n)[Len(m) + Len(n)] = n[Len(n)]
    BY <1>1, <1>2, <2>3
  <2>5. m \o n # <<>>
    BY <2>1, ConcatEqualIffEmpty
  <2> QED BY <1>1, <2>4, <2>5 DEF LastNew
<1>5. Forced(m) => Forced(m \o n)
  <2>1. SUFFICES ASSUME NEW k \in DOMAIN m, m[k].overridden
                 PROVE  Forced(m \o n)
    BY DEF Forced
  <2>2. k \in 1 .. Len(m) + Len(n) /\ k <= Len(m)
    BY <1>2
  <2> QED BY <1>1, <1>2, <2>1, <2>2 DEF Forced
<1>6. Forced(n) => Forced(m \o n)
  <2>1. SUFFICES ASSUME NEW k \in DOMAIN n, n[k].overridden
                 PROVE  Forced(m \o n)
    BY DEF Forced
  <2>2. Len(m) + k \in 1 .. Len(m) + Len(n) /\ ~(Len(m) + k <= Len(m)) /\ Len(m) + k - Len(m) = k
    BY <1>2
  <2> QED BY <1>1, <1>2, <2>1, <2>2 DEF Forced
<1> QED BY <1>1, <1>3, <1>4, <1>5, <1>6

-----------------------------------------------------------------------------
LEMMA InitIInv == Init => IInv
<1> SUFFICES ASSUME Init PROVE IInv
  OBVIOUS
<1>1. TypeOK
  <2>1. <<>> \in Seq(Move) /\ <<>> \in Seq(Item) /\ <<>> \in Seq(Call)
    OBVIOUS
  <2>2. \A q \in Openings : q \in Nat /\ q \in Int
    BY OpeningsNatural
  <2>3. \A f \in Factors \cup {0} : f \in Nat
    BY FactorsPositive
  <2>4. qty \in [Products -> Int] /\ opening \in [Products -> Nat]
    BY <2>2 DEF Init
  <2>5. factor \in [Products -> Nat]
    BY <2>3 DEF Init
  <2> QED BY <2>1, <2>4, <2>5, NoTxTyped DEF Init, TypeOK, Steps
<1>2. LocalsFit
  BY NobodyIsNew DEF Init, LocalsFit
<1>3. WritesAreLogged
  BY NobodyIsNew DEF Init, WritesAreLogged, NoTx
<1>4. HalvesAgree
  BY DEF Init, HalvesAgree
<1>5. NegativesExcused
  BY NobodyIsNew DEF Init, NegativesExcused, HalfDone
<1>6. LastMoveIsLevel
  BY DEF Init, LastMoveIsLevel
<1>7. NegativeHasOverride
  <2>1. \A q \in Openings : ~(q < 0)
    BY OpeningsNatural
  <2> QED BY <2>1 DEF Init, NegativeHasOverride
<1> QED BY <1>1, <1>2, <1>3, <1>4, <1>5, <1>6, <1>7 DEF IInv

-----------------------------------------------------------------------------
LEMMA TypeStep == IInv /\ [Next]_vars => TypeOK'
<1> SUFFICES ASSUME IInv, [Next]_vars PROVE TypeOK'
  OBVIOUS
<1>0. TypeOK /\ LocalsFit
  BY DEF IInv
<1>1. ASSUME NEW s \in Sessions, Start(s) PROVE TypeOK'
  <2>1. PICK op \in Operations : \E calls \in Plans(op) :
            /\ RoomToMove(s)
            /\ plan' = [plan EXCEPT ![s] = calls]
            /\ tx' = [tx EXCEPT ![s].items =
                         IF op = "checkout"
                         THEN [k \in DOMAIN calls |->
                                  [p |-> calls[k].p, base |-> calls[k].n * ItemFactor(calls[k])]]
                         ELSE <<>>]
    BY <1>1 DEF Start
  <2>2. PICK calls \in Plans(op) :
            /\ plan' = [plan EXCEPT ![s] = calls]
            /\ tx' = [tx EXCEPT ![s].items =
                         IF op = "checkout"
                         THEN [k \in DOMAIN calls |->
                                  [p |-> calls[k].p, base |-> calls[k].n * ItemFactor(calls[k])]]
                         ELSE <<>>]
    BY <2>1
  <2>3. calls \in Seq(Call)
    BY PlansAreCalls
  <2> DEFINE rows == [k \in DOMAIN calls |->
                         [p |-> calls[k].p, base |-> calls[k].n * ItemFactor(calls[k])]]
  <2>4. DOMAIN calls = 1 .. Len(calls) /\ Len(calls) \in Nat
    BY <2>3
  <2>5. \A k \in 1 .. Len(calls) :
            [p |-> calls[k].p, base |-> calls[k].n * ItemFactor(calls[k])] \in Item
    <3>1. TAKE k \in 1 .. Len(calls)
    <3>2. calls[k] \in Call
      BY <2>3, ElementOfSeq
    <3>3. calls[k].n * ItemFactor(calls[k]) \in Nat \ {0}
      BY <1>0, <3>2, BaseUnits
    <3> QED BY <3>2, <3>3 DEF Item, Call
  <2>6. rows \in Seq(Item)
    <3>1. rows \in [1 .. Len(calls) -> Item]
      BY <2>4, <2>5
    <3> QED BY <2>4, <3>1
  <2>7. <<>> \in Seq(Item)
    OBVIOUS
  <2>8. tx' \in [Sessions -> Tx]
    <3>1. PICK x \in Seq(Item) : tx' = [tx EXCEPT ![s].items = x]
      <4>1. CASE op = "checkout"
        BY <2>2, <2>6, <4>1
      <4>2. CASE op # "checkout"
        BY <2>2, <2>7, <4>2
      <4> QED BY <4>1, <4>2
    <3> QED BY <1>0, <3>1 DEF TypeOK, Tx
  <2>9. plan' \in [Sessions -> Seq(Call)]
    BY <1>0, <2>2, <2>3 DEF TypeOK
  <2>10. pc' \in [Sessions -> Steps]
    BY <1>0, <1>1 DEF TypeOK, Start, Goto, Steps
  <2> QED BY <1>0, <1>1, <2>8, <2>9, <2>10 DEF TypeOK, Start, product, ledger
<1>2. ASSUME NEW s \in Sessions, Read(s) PROVE TypeOK'
  <2>1. Current(s) \in Call /\ Current(s).p \in Products
    BY <1>0, <1>2, CurrentTyped DEF Read
  <2>2. Row(s, Current(s).p).qty \in Int
    BY <1>0, <2>1, RowTyped
  <2>3. Target(Current(s), Row(s, Current(s).p).qty) \in Int
    BY <1>0, <2>1, <2>2, TargetTyped
  <2>4. tx' \in [Sessions -> Tx]
    BY <1>0, <1>2, <2>2, <2>3 DEF TypeOK, Read, Tx
  <2>5. pc' \in [Sessions -> Steps]
    BY <1>0, <1>2 DEF TypeOK, Read, Goto, Steps
  <2> QED BY <1>0, <1>2, <2>4, <2>5 DEF TypeOK, Read, product, ledger
<1>3. ASSUME NEW s \in Sessions, Finish(s), UNCHANGED <<product, ledger, history>> PROVE TypeOK'
  BY <1>0, <1>3, FinishTyped DEF TypeOK, product, ledger
<1>4. ASSUME NEW s \in Sessions, Write(s) PROVE TypeOK'
  <2>1. /\ Current(s) \in Call /\ Current(s).p \in Products
        /\ Tail(plan[s]) \in Seq(Call)
    BY <1>0, <1>4, CurrentTyped DEF Write
  <2>2. tx[s].new \in Int
    BY <1>0 DEF TypeOK, Tx
  <2>3. Flag(Current(s), tx[s].new, Row(s, Current(s).p).recount) \in BOOLEAN
    BY <1>0, <2>1, RowTyped DEF Flag
  <2>4. tx' \in [Sessions -> Tx]
    BY <1>0, <1>4, <2>1, <2>2, <2>3 DEF TypeOK, Write, Tx
  <2>5. pc' \in [Sessions -> Steps] /\ plan' \in [Sessions -> Seq(Call)]
    BY <1>0, <1>4, <2>1 DEF TypeOK, Write, Advance, Goto, Steps
  <2>6. lock' \in [Products -> Sessions \cup {Nobody}]
    BY <1>0, <1>4 DEF TypeOK, Write
  <2> QED BY <1>0, <1>4, <2>4, <2>5, <2>6 DEF TypeOK, Write, product, ledger
<1>5. ASSUME NEW s \in Sessions, Log(s) PROVE TypeOK'
  <2>1. /\ Current(s) \in Call /\ Current(s).p \in Products
        /\ Tail(plan[s]) \in Seq(Call)
    BY <1>0, <1>5, CurrentTyped DEF Log
  <2> DEFINE e == [kind |-> Current(s).kind, prev |-> LoggedBefore(s), new |-> LoggedAfter(s),
                   overridden |-> Overridden(Current(s), LoggedAfter(s)),
                   sale |-> IsSale(s)]
  <2>2. e \in Move
    BY <1>0, <2>1 DEF TypeOK, Tx, Move, Call, LoggedBefore, LoggedAfter, Overridden, IsSale
  <2>3. tx[s].moves[Current(s).p] \in Seq(Move)
    BY <1>0, <2>1 DEF TypeOK, Tx
  <2>4. Append(tx[s].moves[Current(s).p], e) \in Seq(Move)
    BY <2>2, <2>3, Appended
  <2>5. tx' = [tx EXCEPT ![s].moves[Current(s).p] = Append(@, e)]
    BY <1>5 DEF Log
  <2>6. tx' \in [Sessions -> Tx]
    BY <1>0, <2>1, <2>4, <2>5 DEF TypeOK, Tx
  <2>7. pc' \in [Sessions -> Steps] /\ plan' \in [Sessions -> Seq(Call)]
    BY <1>0, <1>5, <2>1 DEF TypeOK, Log, Advance, Goto, Steps
  <2> QED BY <1>0, <1>5, <2>6, <2>7 DEF TypeOK, Log, product, ledger
<1>6. ASSUME NEW s \in Sessions, Commit(s) PROVE TypeOK'
  <2>1. qty' \in [Products -> Int] /\ recount' \in [Products -> BOOLEAN]
    BY <1>0, <1>6, RowTyped DEF Commit
  <2>2. moves' \in [Products -> Seq(Move)]
    <3>1. \A p \in Products : moves[p] \in Seq(Move) /\ tx[s].moves[p] \in Seq(Move)
      BY <1>0 DEF TypeOK, Tx
    <3>2. \A p \in Products : moves[p] \o tx[s].moves[p] \in Seq(Move)
      BY <3>1, ConcatProperties
    <3> QED BY <1>6, <3>2 DEF Commit
  <2>3. items' \in Seq(Item)
    <3>1. items \in Seq(Item) /\ tx[s].items \in Seq(Item)
      BY <1>0 DEF TypeOK, Tx
    <3> QED BY <1>6, <3>1, ConcatProperties DEF Commit
  <2> QED BY <1>0, <1>6, <2>1, <2>2, <2>3, FinishTyped DEF TypeOK, Commit
<1>7. ASSUME NEW p \in Products, UpdateProduct(p) PROVE TypeOK'
  <2>1. PICK f \in Factors \cup {0, factor[p]}, flag \in BOOLEAN :
            /\ factor'  = [factor EXCEPT ![p] = f]
            /\ recount' = [recount EXCEPT ![p] = flag]
    BY <1>7 DEF UpdateProduct
  <2>2. f \in Nat
    BY <1>0, FactorsPositive DEF TypeOK
  <2> QED BY <1>0, <1>7, <2>1, <2>2 DEF TypeOK, UpdateProduct, ledger
<1>8. CASE UNCHANGED vars
  BY <1>0, <1>8 DEF TypeOK, vars, product, ledger
<1> QED
  BY <1>1, <1>2, <1>3, <1>4, <1>5, <1>6, <1>7, <1>8
     DEF Next, Continue, RefuseUnit, RefuseStock, Abort, BreakDeadlock

-----------------------------------------------------------------------------
(* One session alone steps.                                                 *)

\* A request ends without a commit.
Drop(s) == Finish(s) /\ UNCHANGED <<moves, qty, opening>>
Step(s) == Start(s) \/ Read(s) \/ Write(s) \/ Log(s) \/ Commit(s) \/ Drop(s)

LEMMA StepCases ==
    ASSUME [Next]_vars
    PROVE  \/ UNCHANGED <<pc, plan, tx, lock, moves, qty, opening>>
           \/ \E s \in Sessions : Step(s)
<1>1. ASSUME NEW s \in Sessions, Continue(s) \/ Abort(s) \/ BreakDeadlock(s) PROVE Step(s)
  BY <1>1 DEF Continue, RefuseUnit, RefuseStock, Abort, BreakDeadlock, Drop, Step, product, ledger
<1>2. ASSUME NEW p \in Products, UpdateProduct(p)
      PROVE  UNCHANGED <<pc, plan, tx, lock, moves, qty, opening>>
  BY <1>2 DEF UpdateProduct, ledger
<1>3. CASE UNCHANGED vars
  BY <1>3 DEF vars, product, ledger
<1> QED BY <1>1, <1>2, <1>3 DEF Next, Step

\* A step of s leaves the other sessions, and the rows they hold, alone.
LEMMA OthersKept ==
    ASSUME TypeOK, NEW s \in Sessions, Step(s), NEW t \in Sessions, t # s
    PROVE  /\ pc'[t] = pc[t] /\ plan'[t] = plan[t] /\ tx'[t] = tx[t]
           /\ \A p \in Products : lock'[p] = t <=> lock[p] = t
<1>0. t # Nobody /\ s # Nobody
  BY NobodyIsNew
<1>1. CASE Start(s)
  <2>1. plan'[t] = plan[t] /\ tx'[t] = tx[t]
    BY <1>1 DEF Start, TypeOK
  <2> QED BY <1>1, <2>1 DEF Start, Goto, TypeOK
<1>2. CASE Read(s)
  BY <1>2 DEF Read, Goto, TypeOK
<1>3. CASE Write(s)
  <2>1. \A p \in Products : lock'[p] = t <=> lock[p] = t
    BY <1>0, <1>3 DEF Write, LockFree, TypeOK
  <2>2. tx'[t] = tx[t]
    BY <1>3 DEF Write, TypeOK
  <2> QED BY <1>3, <2>1, <2>2 DEF Write, Advance, Goto, TypeOK
<1>4. CASE Log(s)
  <2>1. tx'[t] = tx[t] /\ lock' = lock
    BY <1>4 DEF Log, TypeOK
  <2> QED BY <1>4, <2>1 DEF Log, Advance, Goto, TypeOK
<1>5. CASE Finish(s)
  BY <1>0, <1>5 DEF Finish, Goto, TypeOK
<1> QED BY <1>1, <1>2, <1>3, <1>4, <1>5 DEF Step, Commit, Drop

\* After its own end a session holds nothing.
LEMMA Finished ==
    ASSUME TypeOK, NEW s \in Sessions, Finish(s)
    PROVE  /\ pc'[s] = "idle" /\ tx'[s] = NoTx
           /\ \A p \in Products : lock'[p] # s /\ tx'[s].moves[p] = <<>>
  BY NobodyIsNew DEF TypeOK, Finish, Goto, NoTx

LEMMA LocalsStep == IInv /\ [Next]_vars => LocalsFit'
<1> SUFFICES ASSUME IInv, [Next]_vars PROVE LocalsFit'
  OBVIOUS
<1>0. TypeOK /\ LocalsFit
  BY DEF IInv
<1>1. CASE UNCHANGED <<pc, plan, tx, lock, moves, qty, opening>>
  BY <1>0, <1>1 DEF LocalsFit
<1>2. ASSUME NEW s \in Sessions, Step(s) PROVE LocalsFit'
  <2> DEFINE Fits(t) == /\ pc'[t] = "idle" => tx'[t] = NoTx /\ \A p \in Products : lock'[p] # t
                        /\ pc'[t] \in {"read", "refuse", "write", "log"} => plan'[t] # <<>>
  <2>1. \A t \in Sessions \ {s} : Fits(t)
    BY <1>0, <1>2, OthersKept DEF LocalsFit
  <2>2. Fits(s)
    <3>1. CASE Start(s)
      BY <1>0, <3>1, PlansAreCalls DEF Start, Goto, TypeOK
    <3>2. CASE Read(s)
      BY <1>0, <3>2 DEF Read, Goto, TypeOK, LocalsFit
    <3>3. ASSUME Advance(s), pc[s] \in {"write", "log"} PROVE Fits(s)
      BY <1>0, <3>3, CurrentTyped DEF Advance, Goto, TypeOK
    <3>4. CASE Write(s)
      BY <1>0, <3>3, <3>4 DEF Write, Goto, TypeOK, LocalsFit
    <3>5. CASE Log(s)
      BY <1>0, <3>3, <3>5 DEF Log, Goto, TypeOK, LocalsFit
    <3>6. CASE Finish(s)
      BY <1>0, <3>6, Finished
    <3> QED BY <1>2, <3>1, <3>2, <3>4, <3>5, <3>6 DEF Step, Commit, Drop
  <2> QED BY <2>1, <2>2 DEF LocalsFit
<1> QED BY <1>1, <1>2, StepCases

\* What a log appends, and what it leaves alone.
LEMMA Logging ==
    ASSUME TypeOK, LocalsFit, NEW s \in Sessions, Log(s)
    PROVE  LET p == Current(s).p IN
           /\ tx'[s].moves[p] # <<>> /\ LastNew(tx'[s].moves[p]) = tx[s].new
           /\ Forced(tx[s].moves[p]) => Forced(tx'[s].moves[p])
           /\ Overridden(Current(s), tx[s].new) => Forced(tx'[s].moves[p])
           /\ \A q \in Products \ {p} : tx'[s].moves[q] = tx[s].moves[q]
           /\ tx'[s].draft = tx[s].draft /\ tx'[s].new = tx[s].new
<1>1. Current(s) \in Call /\ Current(s).p \in Products
  BY CurrentTyped DEF Log
<1> DEFINE e == [kind |-> Current(s).kind, prev |-> LoggedBefore(s), new |-> LoggedAfter(s),
                 overridden |-> Overridden(Current(s), LoggedAfter(s)),
                   sale |-> IsSale(s)]
<1>2. e \in Move
  BY <1>1 DEF TypeOK, Tx, Move, Call, LoggedBefore, LoggedAfter, Overridden, IsSale
<1>3. tx[s].moves[Current(s).p] \in Seq(Move)
  BY <1>1 DEF TypeOK, Tx
<1>4. tx' = [tx EXCEPT ![s].moves[Current(s).p] = Append(@, e)]
  BY DEF Log
<1>5. tx'[s] = [tx[s] EXCEPT !.moves[Current(s).p] = Append(@, e)]
  BY <1>4 DEF TypeOK
<1>6. /\ tx'[s].moves = [tx[s].moves EXCEPT ![Current(s).p] = Append(@, e)]
      /\ tx'[s].draft = tx[s].draft /\ tx'[s].new = tx[s].new
  BY <1>5 DEF TypeOK, Tx
<1>7. /\ tx'[s].moves[Current(s).p] = Append(tx[s].moves[Current(s).p], e)
      /\ \A q \in Products \ {Current(s).p} : tx'[s].moves[q] = tx[s].moves[q]
  BY <1>1, <1>6 DEF TypeOK, Tx
<1>8. /\ e.new = tx[s].new /\ e.overridden = Overridden(Current(s), tx[s].new)
  BY DEF LoggedAfter
<1> QED BY <1>2, <1>3, <1>6, <1>7, <1>8, Appended

\* What a write changes, and what it leaves alone.
LEMMA Writing ==
    ASSUME TypeOK, LocalsFit, NEW s \in Sessions, Write(s)
    PROVE  LET p == Current(s).p IN
           /\ lock'[p] = s /\ tx'[s].draft[p].qty = tx[s].new
           /\ \A q \in Products \ {p} : lock'[q] = lock[q] /\ tx'[s].draft[q] = tx[s].draft[q]
           /\ tx'[s].moves = tx[s].moves /\ tx'[s].new = tx[s].new
<1>1. Current(s).p \in Products
  BY CurrentTyped DEF Write
<1>2. tx' = [tx EXCEPT ![s].draft[Current(s).p] =
                 [qty     |-> tx[s].new,
                  recount |-> Flag(Current(s), tx[s].new, Row(s, Current(s).p).recount)]]
  BY DEF Write
<1>3. /\ tx'[s].draft = [tx[s].draft EXCEPT ![Current(s).p] =
                 [qty     |-> tx[s].new,
                  recount |-> Flag(Current(s), tx[s].new, Row(s, Current(s).p).recount)]]
      /\ tx'[s].moves = tx[s].moves /\ tx'[s].new = tx[s].new
  BY <1>2 DEF TypeOK, Tx
<1>4. /\ tx'[s].draft[Current(s).p].qty = tx[s].new
      /\ \A q \in Products \ {Current(s).p} : tx'[s].draft[q] = tx[s].draft[q]
  BY <1>1, <1>3 DEF TypeOK, Tx
<1>5. lock' = [lock EXCEPT ![Current(s).p] = s]
  BY DEF Write
<1> QED BY <1>1, <1>3, <1>4, <1>5 DEF TypeOK

\* Reading and starting touch nothing of what is written or logged.
LEMMA Reading ==
    ASSUME TypeOK, NEW s \in Sessions, Start(s) \/ Read(s)
    PROVE  /\ tx'[s].draft = tx[s].draft /\ tx'[s].moves = tx[s].moves
           /\ UNCHANGED <<lock, moves, qty, opening>>
<1>1. CASE Start(s)
  <2>1. \E x : tx' = [tx EXCEPT ![s].items = x]
    BY <1>1 DEF Start
  <2> QED BY <1>1, <2>1 DEF Start, product, ledger, TypeOK, Tx
<1>2. CASE Read(s)
  BY <1>2 DEF Read, product, ledger, TypeOK, Tx
<1> QED BY <1>1, <1>2

\* Where a call leads.
LEMMA Moving ==
    ASSUME TypeOK, NEW s \in Sessions
    PROVE  /\ Start(s) => pc[s] = "idle" /\ pc'[s] = "read"
           /\ Read(s) => /\ pc[s] = "read" /\ plan'[s] = plan[s]
                         /\ pc'[s] = "log" => Current(s).kind = "adjust"
                         /\ pc'[s] = "write" => Current(s).kind # "adjust"
           /\ Write(s) => /\ pc[s] = "write"
                          /\ Current(s).kind = "adjust" => pc'[s] \in {"commit", "read"}
                          /\ Current(s).kind # "adjust" => pc'[s] = "log" /\ plan'[s] = plan[s]
           /\ Log(s) => /\ pc[s] = "log"
                        /\ Current(s).kind = "adjust" => pc'[s] = "write" /\ plan'[s] = plan[s]
                        /\ Current(s).kind # "adjust" => pc'[s] \in {"commit", "read"}
<1>1. ASSUME Start(s) PROVE pc[s] = "idle" /\ pc'[s] = "read"
  BY <1>1 DEF Start, Goto, TypeOK
<1>2. ASSUME Read(s) PROVE  /\ pc[s] = "read" /\ plan'[s] = plan[s]
                            /\ pc'[s] = "log" => Current(s).kind = "adjust"
                            /\ pc'[s] = "write" => Current(s).kind # "adjust"
  BY <1>2 DEF Read, Goto, TypeOK
<1>3. ASSUME Write(s) PROVE /\ pc[s] = "write"
                            /\ Current(s).kind = "adjust" => pc'[s] \in {"commit", "read"}
                            /\ Current(s).kind # "adjust" => pc'[s] = "log" /\ plan'[s] = plan[s]
  BY <1>3 DEF Write, Advance, Goto, TypeOK
<1>4. ASSUME Log(s) PROVE /\ pc[s] = "log"
                          /\ Current(s).kind = "adjust" => pc'[s] = "write" /\ plan'[s] = plan[s]
                          /\ Current(s).kind # "adjust" => pc'[s] \in {"commit", "read"}
  BY <1>4 DEF Log, Advance, Goto, TypeOK
<1> QED BY <1>1, <1>2, <1>3, <1>4

-----------------------------------------------------------------------------
LEMMA LoggedStep == IInv /\ [Next]_vars => WritesAreLogged'
<1> SUFFICES ASSUME IInv, [Next]_vars PROVE WritesAreLogged'
  OBVIOUS
<1>0. TypeOK /\ LocalsFit /\ WritesAreLogged /\ HalvesAgree
  BY DEF IInv
<1>1. CASE UNCHANGED <<pc, plan, tx, lock, moves, qty, opening>>
  BY <1>0, <1>1 DEF WritesAreLogged, HalfDone, Current
<1>2. ASSUME NEW s \in Sessions, Step(s) PROVE WritesAreLogged'
  <2> DEFINE Logged(t, p) == ~HalfDone(t, p)' =>
                 /\ lock'[p] = t <=> tx'[t].moves[p] # <<>>
                 /\ lock'[p] = t => tx'[t].draft[p].qty = LastNew(tx'[t].moves[p])
  <2>1. ASSUME NEW t \in Sessions, t # s, NEW p \in Products PROVE Logged(t, p)
    <3>1. HalfDone(t, p)' <=> HalfDone(t, p)
      BY <1>0, <1>2, <2>1, OthersKept DEF HalfDone, Current
    <3> QED BY <1>0, <1>2, <2>1, <3>1, OthersKept DEF WritesAreLogged
  <2>2. ASSUME NEW p \in Products PROVE Logged(s, p)
    <3>1. CASE Start(s) \/ Read(s)
      <4>1. ~HalfDone(s, p)
        BY <1>0, <3>1, Moving DEF HalfDone
      <4> QED BY <1>0, <3>1, <4>1, Reading DEF WritesAreLogged
    <3>2. CASE Write(s)
      <4>1. CASE p = Current(s).p /\ Current(s).kind = "adjust"
        <5>1. /\ tx[s].moves[p] # <<>> /\ LastNew(tx[s].moves[p]) = tx[s].new
          BY <1>0, <3>2, <4>1, Moving DEF HalvesAgree
        <5> QED BY <1>0, <3>2, <4>1, <5>1, Writing
      <4>2. CASE p = Current(s).p /\ Current(s).kind # "adjust"
        BY <1>0, <3>2, <4>2, Moving DEF HalfDone, Current
      <4>3. CASE p # Current(s).p
        <5>1. ~HalfDone(s, p)
          BY <4>3 DEF HalfDone
        <5> QED BY <1>0, <3>2, <4>3, <5>1, Writing DEF WritesAreLogged
      <4> QED BY <4>1, <4>2, <4>3
    <3>3. CASE Log(s)
      <4>0. lock' = lock
        BY <3>3 DEF Log
      <4>1. CASE p = Current(s).p /\ Current(s).kind # "adjust"
        <5>1. lock[p] = s /\ tx[s].draft[p].qty = tx[s].new
          BY <1>0, <3>3, <4>1, Moving DEF HalvesAgree
        <5> QED BY <1>0, <3>3, <4>0, <4>1, <5>1, Logging
      <4>2. CASE p = Current(s).p /\ Current(s).kind = "adjust"
        BY <1>0, <3>3, <4>2, Moving DEF HalfDone, Current
      <4>3. CASE p # Current(s).p
        <5>1. ~HalfDone(s, p)
          BY <4>3 DEF HalfDone
        <5> QED BY <1>0, <3>3, <4>0, <4>3, <5>1, Logging DEF WritesAreLogged
      <4> QED BY <4>1, <4>2, <4>3
    <3>4. CASE Finish(s)
      BY <1>0, <3>4, Finished
    <3> QED BY <1>2, <3>1, <3>2, <3>3, <3>4 DEF Step, Commit, Drop
  <2> QED BY <2>1, <2>2 DEF WritesAreLogged
<1> QED BY <1>1, <1>2, StepCases

LEMMA HalvesStep == IInv /\ [Next]_vars => HalvesAgree'
<1> SUFFICES ASSUME IInv, [Next]_vars PROVE HalvesAgree'
  OBVIOUS
<1>0. TypeOK /\ LocalsFit /\ HalvesAgree
  BY DEF IInv
<1>1. CASE UNCHANGED <<pc, plan, tx, lock, moves, qty, opening>>
  BY <1>0, <1>1 DEF HalvesAgree, Current
<1>2. ASSUME NEW s \in Sessions, Step(s) PROVE HalvesAgree'
  <2> DEFINE Agree(t) ==
        LET p == Current(t)'.p
        IN  /\ pc'[t] = "log" /\ Current(t)'.kind # "adjust" =>
                   lock'[p] = t /\ tx'[t].draft[p].qty = tx'[t].new
            /\ pc'[t] = "write" /\ Current(t)'.kind = "adjust" =>
                   tx'[t].moves[p] # <<>> /\ LastNew(tx'[t].moves[p]) = tx'[t].new
  <2>1. ASSUME NEW t \in Sessions, t # s PROVE Agree(t)
    <3>1. Current(t)' = Current(t) /\ pc'[t] = pc[t] /\ tx'[t] = tx[t]
      BY <1>0, <1>2, <2>1, OthersKept DEF Current
    <3>2. pc[t] = "log" => Current(t).p \in Products
      BY <1>0, CurrentTyped
    <3> QED BY <1>0, <1>2, <2>1, <3>1, <3>2, OthersKept DEF HalvesAgree
  <2>2. Agree(s)
    <3>1. CASE Start(s) \/ Read(s)
      BY <1>0, <3>1, Moving DEF Current
    <3>2. CASE Write(s)
      BY <1>0, <3>2, Moving, Writing DEF Current
    <3>3. CASE Log(s)
      BY <1>0, <3>3, Moving, Logging DEF Current
    <3>4. CASE Finish(s)
      BY <1>0, <3>4, Finished
    <3> QED BY <1>2, <3>1, <3>2, <3>3, <3>4 DEF Step, Commit, Drop
  <2> QED BY <2>1, <2>2 DEF HalvesAgree
<1> QED BY <1>1, <1>2, StepCases

\* Committed movements only grow, and so does the excuse they are.
LEMMA ForcedStays ==
    ASSUME TypeOK, NEW s \in Sessions, Step(s), NEW p \in Products
    PROVE  Forced(moves[p]) => Forced(moves'[p])
<1>1. CASE Commit(s)
  <2>1. moves[p] \in Seq(Move) /\ tx[s].moves[p] \in Seq(Move)
    BY DEF TypeOK, Tx
  <2>2. moves'[p] = moves[p] \o tx[s].moves[p]
    BY <1>1 DEF Commit
  <2> QED BY <2>1, <2>2, Joined
<1>2. CASE ~Commit(s)
  BY <1>2 DEF Step, Start, Read, Write, Log, Drop, ledger
<1> QED BY <1>1, <1>2

LEMMA ExcusedStep == IInv /\ [Next]_vars => NegativesExcused'
<1> SUFFICES ASSUME IInv, [Next]_vars PROVE NegativesExcused'
  OBVIOUS
<1>0. TypeOK /\ LocalsFit /\ NegativesExcused /\ NegativeHasOverride
  BY DEF IInv
<1>1. CASE UNCHANGED <<pc, plan, tx, lock, moves, qty, opening>>
  BY <1>0, <1>1 DEF NegativesExcused, Excused, Forced, Forcing, HalfDone, Current
<1>2. ASSUME NEW s \in Sessions, Step(s) PROVE NegativesExcused'
  <2> DEFINE Right(t, p) ==
        /\ lock'[p] = t /\ tx'[t].draft[p].qty < 0 => Excused(t, p)'
        /\ HalfDone(t, p)' /\ tx'[t].new < 0 => Excused(t, p)'
  <2>1. ASSUME NEW t \in Sessions, t # s, NEW p \in Products PROVE Right(t, p)
    <3>1. /\ Current(t)' = Current(t) /\ pc'[t] = pc[t] /\ tx'[t] = tx[t]
          /\ lock'[p] = t <=> lock[p] = t
      BY <1>0, <1>2, <2>1, OthersKept DEF Current
    <3>2. (HalfDone(t, p)' <=> HalfDone(t, p)) /\ (Forcing(t, p)' <=> Forcing(t, p))
      BY <3>1 DEF HalfDone, Forcing
    <3>3. Excused(t, p) => Excused(t, p)'
      <4>1. Forced(moves[p]) => Forced(moves[p])'
        BY <1>0, <1>2, ForcedStays DEF Forced
      <4>2. Forced(tx[t].moves[p]) => Forced(tx[t].moves[p])'
        BY <3>1 DEF Forced
      <4> QED BY <3>2, <4>1, <4>2 DEF Excused
    <3> QED BY <1>0, <3>1, <3>2, <3>3 DEF NegativesExcused
  <2>2. ASSUME NEW p \in Products PROVE Right(s, p)
    <3>0. tx[s].draft[p].qty \in Int /\ tx[s].new \in Int /\ qty[p] \in Int
      BY <1>0 DEF TypeOK, Tx
    <3>1. Forced(moves[p]) => Forced(moves[p])'
      BY <1>0, <1>2, ForcedStays DEF Forced
    <3>2. CASE Start(s)
      BY <1>0, <3>2, Moving, Reading DEF LocalsFit, HalfDone
    <3>3. CASE Read(s)
      <4> DEFINE c == Current(s)
      <4>1. /\ c \in Call /\ pc[s] = "read" /\ plan'[s] = plan[s] /\ Current(s)' = c
        BY <1>0, <3>3, CurrentTyped, Moving DEF Read, Current
      <4>2. Excused(s, p) => Excused(s, p)'
        BY <1>0, <3>1, <3>3, <4>1, Reading DEF Excused, Forcing, HalfDone, Forced
      <4>3. lock'[p] = s /\ tx'[s].draft[p].qty < 0 => Excused(s, p)'
        BY <1>0, <3>3, <4>2, Reading DEF NegativesExcused
      <4>4. ASSUME HalfDone(s, p)', tx'[s].new < 0 PROVE Excused(s, p)'
        <5>1. p = c.p
          BY <4>1, <4>4 DEF HalfDone
        <5> DEFINE q == Row(s, p).qty
        <5>2. tx'[s].new = Target(c, q) /\ Conversion(c.p, c.uom) # 0
          BY <1>0, <3>3, <5>1 DEF Read, TypeOK, Tx
        <5>3. q \in Int
          BY <1>0, RowTyped
        <5>4. CASE c.kind = "adjust"
          BY <1>0, <4>1, <4>4, <5>2, <5>4, BaseUnits DEF Target
        <5>5. CASE c.kind = "in"
          <6>1. q < 0
            <7>1. c.n * Conversion(c.p, c.uom) \in Nat /\ tx'[s].new = q + c.n * Conversion(c.p, c.uom)
              BY <1>0, <4>1, <5>2, <5>5, BaseUnits DEF Target
            <7> QED BY <4>4, <5>3, <7>1
          <6>2. Excused(s, p)
            BY <1>0, <6>1 DEF Row, NegativesExcused, NegativeHasOverride, Excused, Forced
          <6> QED BY <4>2, <6>2
        <5>6. CASE c.kind = "out"
          <6>1. ~Insufficient(c, Target(c, q))
            BY <1>0, <3>3, <4>4, <5>1 DEF Read, Goto, HalfDone, TypeOK
          <6>2. c.override
            BY <4>4, <5>2, <5>6, <6>1 DEF Insufficient
          <6>3. Forcing(s, p)'
            BY <4>1, <4>4, <5>6, <6>2 DEF Forcing, Overridden
          <6> QED BY <6>3 DEF Excused
        <5> QED BY <4>1, <5>4, <5>5, <5>6 DEF Call, Kinds
      <4> QED BY <4>3, <4>4
    <3>4. CASE Write(s)
      <4>0. UNCHANGED moves
        BY <3>4 DEF Write, ledger
      <4>1. pc[s] = "write"
        BY <1>0, <3>4, Moving
      <4>2. CASE p # Current(s).p
        <5>1. ~HalfDone(s, p)
          BY <4>2 DEF HalfDone
        <5>2. ~HalfDone(s, p)'
          BY <1>0, <3>4, <4>2, Moving DEF HalfDone, Current
        <5>3. Excused(s, p) => Excused(s, p)'
          BY <1>0, <3>4, <4>0, <5>1, Writing DEF Excused, Forcing, Forced
        <5> QED BY <1>0, <3>4, <4>2, <5>2, <5>3, Writing DEF NegativesExcused
      <4>3. CASE p = Current(s).p
        <5>1. HalfDone(s, p)
          BY <4>1, <4>3 DEF HalfDone
        <5>2. tx[s].new < 0 => Excused(s, p)
          BY <1>0, <5>1 DEF NegativesExcused
        <5>3. Forcing(s, p) => Forcing(s, p)'
          <6>1. CASE Current(s).kind = "adjust"
            BY <6>1 DEF Forcing, Overridden
          <6>2. CASE Current(s).kind # "adjust"
            <7>1. Current(s)' = Current(s) /\ pc'[s] = "log" /\ tx'[s].new = tx[s].new
              BY <1>0, <3>4, <6>2, Moving, Writing DEF Current
            <7> QED BY <4>3, <7>1 DEF Forcing, HalfDone
          <6> QED BY <6>1, <6>2
        <5>4. Excused(s, p) => Excused(s, p)'
          BY <1>0, <3>4, <4>0, <5>3, Writing DEF Excused, Forced
        <5> QED BY <1>0, <3>4, <4>3, <5>2, <5>4, Writing
      <4> QED BY <4>2, <4>3
    <3>5. CASE Log(s)
      <4>0. UNCHANGED <<moves, lock>>
        BY <3>5 DEF Log, ledger
      <4>1. pc[s] = "log"
        BY <1>0, <3>5, Moving
      <4>2. Excused(s, p) => Excused(s, p)'
        <5>1. Forced(tx[s].moves[p]) => Forced(tx'[s].moves[p])
          BY <1>0, <3>5, Logging
        <5>2. Forcing(s, p) => Forced(tx'[s].moves[p])
          BY <1>0, <3>5, Logging DEF Forcing, HalfDone
        <5>3. Forced(tx'[s].moves[p]) <=> Forced(tx[s].moves[p])'
          BY DEF Forced
        <5> QED BY <3>1, <5>1, <5>2, <5>3 DEF Excused
      <4>3. HalfDone(s, p)' => HalfDone(s, p)
        BY <1>0, <3>5, <4>1, Moving DEF HalfDone, Current
      <4> QED BY <1>0, <3>5, <4>0, <4>2, <4>3, Logging DEF NegativesExcused
    <3>6. CASE Finish(s)
      BY <1>0, <3>6, Finished DEF HalfDone
    <3> QED BY <1>2, <3>2, <3>3, <3>4, <3>5, <3>6 DEF Step, Commit, Drop
  <2> QED BY <2>1, <2>2 DEF NegativesExcused
<1> QED BY <1>1, <1>2, StepCases

-----------------------------------------------------------------------------
LEMMA LevelStep == IInv /\ [Next]_vars => LastMoveIsLevel' /\ NegativeHasOverride'
<1> SUFFICES ASSUME IInv, [Next]_vars PROVE LastMoveIsLevel' /\ NegativeHasOverride'
  OBVIOUS
<1>0. /\ TypeOK /\ LocalsFit /\ WritesAreLogged /\ NegativesExcused
      /\ LastMoveIsLevel /\ NegativeHasOverride
  BY DEF IInv
<1>1. CASE UNCHANGED <<moves, qty, opening>>
  BY <1>0, <1>1 DEF LastMoveIsLevel, NegativeHasOverride
<1>2. ASSUME NEW s \in Sessions, Commit(s) PROVE LastMoveIsLevel' /\ NegativeHasOverride'
  <2>1. ASSUME NEW p \in Products
        PROVE  /\ qty'[p] = IF moves'[p] = <<>> THEN opening'[p] ELSE LastNew(moves'[p])
               /\ qty'[p] < 0 => Forced(moves'[p])
    <3>1. /\ moves[p] \in Seq(Move) /\ tx[s].moves[p] \in Seq(Move)
          /\ moves'[p] = moves[p] \o tx[s].moves[p] /\ opening' = opening
          /\ qty'[p] = Row(s, p).qty
      BY <1>0, <1>2 DEF TypeOK, Tx, Commit
    <3>2. ~HalfDone(s, p)
      BY <1>2 DEF Commit, HalfDone
    <3>3. CASE lock[p] = s
      <4>1. /\ tx[s].moves[p] # <<>> /\ tx[s].draft[p].qty = LastNew(tx[s].moves[p])
            /\ tx[s].draft[p].qty < 0 => Forced(moves[p]) \/ Forced(tx[s].moves[p])
        BY <1>0, <3>2, <3>3 DEF WritesAreLogged, NegativesExcused, Excused, Forcing
      <4>2. qty'[p] = tx[s].draft[p].qty
        BY <3>1, <3>3 DEF Row
      <4> QED BY <3>1, <4>1, <4>2, Joined
    <3>4. CASE lock[p] # s
      <4>1. tx[s].moves[p] = <<>>
        BY <1>0, <3>2, <3>4 DEF WritesAreLogged
      <4>2. moves'[p] = moves[p]
        BY <3>1, <4>1, Joined
      <4>3. qty'[p] = qty[p]
        BY <3>1, <3>4 DEF Row
      <4> QED BY <1>0, <3>1, <4>2, <4>3 DEF LastMoveIsLevel, NegativeHasOverride, Forced, LastNew
    <3> QED BY <3>3, <3>4
  <2> QED BY <2>1 DEF LastMoveIsLevel, NegativeHasOverride, Forced, LastNew
<1>3. ASSUME NEW s \in Sessions, Start(s) \/ Read(s) \/ Write(s) \/ Log(s) \/ Drop(s)
      PROVE  UNCHANGED <<moves, qty, opening>>
  BY <1>3 DEF Start, Read, Write, Log, Drop, product, ledger
<1> QED BY <1>1, <1>2, <1>3, StepCases DEF Step

-----------------------------------------------------------------------------
\* The inductive invariant holds in every reachable state.
THEOREM Inductive == Spec => []IInv
<1>1. IInv /\ [Next]_vars => IInv'
  BY TypeStep, LocalsStep, LoggedStep, HalvesStep, ExcusedStep, LevelStep DEF IInv
<1> QED BY InitIInv, <1>1, PTL DEF Spec

\* Every variable keeps its type.
THEOREM TypeCorrect == Spec => []TypeOK
<1>1. IInv => TypeOK
  BY DEF IInv
<1> QED BY <1>1, Inductive, PTL

\* However stock requests interleave and fail, the quantity of a product is the
\* one its last committed movement says.
THEOREM LastMoveAlwaysLevel == Spec => []LastMoveIsLevel
<1>1. IInv => LastMoveIsLevel
  BY DEF IInv
<1> QED BY <1>1, Inductive, PTL

\* However stock requests interleave and fail, stock below zero has an overridden
\* stock-out behind it.
THEOREM NegativeAlwaysOverridden == Spec => []NegativeHasOverride
<1>1. IInv => NegativeHasOverride
  BY DEF IInv
<1> QED BY <1>1, Inductive, PTL

-----------------------------------------------------------------------------
(* StockLedger implements StockBook.                                        *)

\* A book has an entry for each movement, in its place.
LEMMA EntriesTyped ==
    ASSUME NEW m \in Seq(Move)
    PROVE  /\ Len(m) \in Nat
           /\ Entries(m) \in Seq(Book!Entry)
           /\ Len(Entries(m)) = Len(m) /\ DOMAIN Entries(m) = 1 .. Len(m)
           /\ \A k \in 1 .. Len(m) : Entries(m)[k] = [level |-> m[k].new, forced |-> m[k].overridden]
<1>1. /\ Len(m) \in Nat /\ DOMAIN m = 1 .. Len(m)
      /\ \A k \in 1 .. Len(m) : m[k] \in Move
  BY LenProperties, ElementOfSeq
<1>2. \A k \in 1 .. Len(m) : [level |-> m[k].new, forced |-> m[k].overridden] \in Book!Entry
  BY <1>1 DEF Move, Book!Entry
<1>3. Entries(m) = [k \in 1 .. Len(m) |-> [level |-> m[k].new, forced |-> m[k].overridden]]
  BY <1>1 DEF Entries
<1>4. Entries(m) \in [1 .. Len(m) -> Book!Entry]
  BY <1>2, <1>3
<1>5. Entries(m) \in Seq(Book!Entry) /\ Len(Entries(m)) = Len(m)
  BY <1>1, <1>4
<1> QED BY <1>1, <1>3, <1>5

\* A step leaves the rows of a product alone, or adds to its movements.
LEMMA PostingCases ==
    ASSUME IInv, [Next]_vars, NEW p \in Products
    PROVE  \/ qty'[p] = qty[p] /\ moves'[p] = moves[p]
           \/ \E n \in Seq(Move) : n # <<>> /\ moves'[p] = moves[p] \o n
<1>0. TypeOK /\ WritesAreLogged
  BY DEF IInv
<1>1. CASE UNCHANGED <<moves, qty, opening>>
  BY <1>1
<1>2. ASSUME NEW s \in Sessions, Commit(s)
      PROVE  \/ qty'[p] = qty[p] /\ moves'[p] = moves[p]
             \/ \E n \in Seq(Move) : n # <<>> /\ moves'[p] = moves[p] \o n
  <2>1. /\ moves[p] \in Seq(Move) /\ tx[s].moves[p] \in Seq(Move)
        /\ moves'[p] = moves[p] \o tx[s].moves[p] /\ qty'[p] = Row(s, p).qty
    BY <1>0, <1>2 DEF TypeOK, Tx, Commit
  <2>2. ~HalfDone(s, p)
    BY <1>2 DEF Commit, HalfDone
  <2>3. CASE lock[p] = s
    BY <1>0, <2>1, <2>2, <2>3 DEF WritesAreLogged
  <2>4. CASE lock[p] # s
    <3>1. tx[s].moves[p] = <<>> /\ qty'[p] = qty[p]
      BY <1>0, <2>1, <2>2, <2>4 DEF WritesAreLogged, Row
    <3> QED BY <2>1, <3>1, Joined
  <2> QED BY <2>3, <2>4
<1>3. ASSUME NEW s \in Sessions, Start(s) \/ Read(s) \/ Write(s) \/ Log(s) \/ Drop(s)
      PROVE  UNCHANGED <<moves, qty, opening>>
  BY <1>3 DEF Start, Read, Write, Log, Drop, product, ledger
<1> QED BY <1>1, <1>2, <1>3, StepCases DEF Step

\* Movements that are added to are a longer book with the old entries in their places.
LEMMA Extended ==
    ASSUME NEW m \in Seq(Move), NEW n \in Seq(Move), n # <<>>
    PROVE  /\ Len(m \o n) > Len(m) /\ m \o n # <<>>
           /\ \A k \in 1 .. Len(m) : (m \o n)[k] = m[k]
<1>1. /\ Len(m \o n) = Len(m) + Len(n) /\ Len(m) \in Nat /\ Len(n) \in Nat
      /\ \A k \in 1 .. Len(m) + Len(n) :
            (m \o n)[k] = IF k <= Len(m) THEN m[k] ELSE n[k - Len(m)]
  BY ConcatProperties, LenProperties
<1>2. Len(n) > 0
  BY <1>1, EmptySeq
<1>3. \A k \in 1 .. Len(m) : k \in 1 .. Len(m) + Len(n) /\ k <= Len(m)
  BY <1>1
<1>4. m \o n # <<>>
  BY Joined
<1> QED BY <1>1, <1>2, <1>3, <1>4

\* What a longer list of movements with the level and the excuse in it does to the
\* book of a product.
LEMMA PostedEntries ==
    ASSUME NEW m \in Seq(Move), NEW n \in Seq(Move), n # <<>>,
           NEW after, after = m \o n, NEW new \in Int, new = LastNew(after),
           new < 0 => Forced(after)
    PROVE  /\ Len(Entries(m)) < Len(Entries(after))
           /\ \A k \in DOMAIN Entries(m) : Entries(after)[k] = Entries(m)[k]
           /\ new = Entries(after)[Len(Entries(after))].level
           /\ new < 0 => \E k \in DOMAIN Entries(after) : Entries(after)[k].forced
<1>1. after \in Seq(Move)
  BY ConcatProperties
<1>2. /\ Len(after) > Len(m) /\ \A k \in 1 .. Len(m) : after[k] = m[k]
  BY Extended
<1>3. /\ Len(m) \in Nat /\ Len(Entries(m)) = Len(m) /\ DOMAIN Entries(m) = 1 .. Len(m)
      /\ \A k \in 1 .. Len(m) : Entries(m)[k] = [level |-> m[k].new, forced |-> m[k].overridden]
  BY EntriesTyped
<1>4. /\ Len(after) \in Nat /\ Len(Entries(after)) = Len(after)
      /\ DOMAIN Entries(after) = 1 .. Len(after) /\ DOMAIN after = 1 .. Len(after)
      /\ \A k \in 1 .. Len(after) :
             Entries(after)[k] = [level |-> after[k].new, forced |-> after[k].overridden]
  BY <1>1, EntriesTyped, LenProperties
<1>5. \A k \in 1 .. Len(m) : k \in 1 .. Len(after)
  BY <1>2, <1>3, <1>4
<1>6. \A k \in DOMAIN Entries(m) : Entries(after)[k] = Entries(m)[k]
  BY <1>2, <1>3, <1>4, <1>5
<1>7. new = Entries(after)[Len(Entries(after))].level
  <2>1. Len(after) \in 1 .. Len(after)
    BY <1>2, <1>3, <1>4
  <2> QED BY <2>1, <1>4 DEF LastNew
<1>8. ASSUME new < 0 PROVE \E k \in DOMAIN Entries(after) : Entries(after)[k].forced
  <2>1. PICK k \in DOMAIN after : after[k].overridden
    BY <1>8 DEF Forced
  <2>2. Entries(after)[k].forced
    BY <2>1, <1>4
  <2> QED BY <2>1, <2>2, <1>4
<1> QED BY <1>2, <1>3, <1>4, <1>6, <1>7, <1>8

\* Each step is one posting of StockBook, or leaves the book as it is.
LEMMA StepPosts ==
    ASSUME IInv, IInv', [Next]_vars
    PROVE  Book!Post
<1>0. /\ TypeOK /\ TypeOK' /\ LastMoveIsLevel' /\ NegativeHasOverride'
  BY DEF IInv
<1>1. qty' \in [Products -> Int]
  BY <1>0 DEF TypeOK
<1>2. BookOfRows' \in [Products -> Seq(Book!Entry)]
  <2>1. \A p \in Products : moves'[p] \in Seq(Move)
    BY <1>0 DEF TypeOK
  <2>2. \A p \in Products : Entries(moves'[p]) \in Seq(Book!Entry)
    BY <2>1, EntriesTyped
  <2>3. BookOfRows' = [p \in Products |-> Entries(moves'[p])]
    BY DEF BookOfRows, Entries
  <2> QED BY <2>2, <2>3
<1>3. ASSUME NEW p \in Products PROVE Book!Kept(p) \/ Book!Posted(p)
  <2>1. BookOfRows[p] = Entries(moves[p]) /\ BookOfRows'[p] = Entries(moves'[p])
    BY DEF BookOfRows, Entries
  <2>2. CASE qty'[p] = qty[p] /\ moves'[p] = moves[p]
    BY <2>1, <2>2 DEF Book!Kept
  <2>3. CASE \E n \in Seq(Move) : n # <<>> /\ moves'[p] = moves[p] \o n
    <3>1. PICK n \in Seq(Move) : n # <<>> /\ moves'[p] = moves[p] \o n
      BY <2>3
    <3>2. moves[p] \in Seq(Move) /\ moves'[p] # <<>> /\ qty'[p] \in Int
      BY <1>0, <3>1, Extended DEF TypeOK
    <3>3. /\ qty'[p] = LastNew(moves'[p])
          /\ qty'[p] < 0 => Forced(moves'[p])
      BY <1>0, <3>2 DEF LastMoveIsLevel, NegativeHasOverride, LastNew, Forced
    <3>4. /\ Len(Entries(moves[p])) < Len(Entries(moves'[p]))
          /\ \A k \in DOMAIN Entries(moves[p]) : Entries(moves'[p])[k] = Entries(moves[p])[k]
          /\ qty'[p] = Entries(moves'[p])[Len(Entries(moves'[p]))].level
          /\ qty'[p] < 0 => \E k \in DOMAIN Entries(moves'[p]) : Entries(moves'[p])[k].forced
      BY <3>1, <3>2, <3>3, PostedEntries
    <3> QED BY <2>1, <3>4 DEF Book!Posted
  <2> QED BY <2>2, <2>3, PostingCases
<1> QED BY <1>1, <1>2, <1>3 DEF Book!Post

\* The rows start as an empty book.
LEMMA InitBook == Init => Book!Init
<1> SUFFICES ASSUME Init PROVE Book!Init
  OBVIOUS
<1>1. qty \in [Products -> Nat]
  BY OpeningsNatural DEF Init
<1>2. \A p \in Products : Entries(moves[p]) = <<>>
  BY DEF Init, Entries
<1>3. BookOfRows = [p \in Products |-> <<>>]
  BY <1>2 DEF BookOfRows
<1> QED BY <1>1, <1>3 DEF Book!Init

\* Inventory implements the book: whatever interleaving of requests, aborts and
\* deadlocks, the committed quantities and movements behave as StockBook says.
THEOREM ImplementsStockBook == Spec => ImplementsBook
<1>1. IInv /\ IInv' /\ [Next]_vars => [Book!Post]_<<qty, BookOfRows>>
  BY StepPosts
<1> QED BY <1>1, InitBook, Inductive, PTL DEF Spec, ImplementsBook, Book!Spec

-----------------------------------------------------------------------------
(* Requests that follow one another: the ledger is a chain, and a shortage   *)
(* is flagged.                                                               *)

\* The steps of a session that is at work afterwards, or was before.
AtWork(s) == Start(s) \/ Read(s) \/ Write(s) \/ Log(s) \/ Commit(s)

\* Who overlaps whom is remembered when a request starts, and only then.
LEMMA TurnCases ==
    ASSUME [Next]_vars
    PROVE  \/ UNCHANGED <<pc, plan, tx, lock, moves, qty, opening, overlapped>>
           \/ \E s \in Sessions : AtWork(s) \/ (Drop(s) /\ overlapped' = overlapped)
<1>1. ASSUME NEW s \in Sessions, Continue(s) \/ Abort(s) \/ BreakDeadlock(s)
      PROVE  AtWork(s) \/ (Drop(s) /\ overlapped' = overlapped)
  BY <1>1 DEF Continue, RefuseUnit, RefuseStock, Abort, BreakDeadlock, Drop, AtWork, product, ledger
<1>2. ASSUME NEW p \in Products, UpdateProduct(p)
      PROVE  UNCHANGED <<pc, plan, tx, lock, moves, qty, opening, overlapped>>
  BY <1>2 DEF UpdateProduct, ledger
<1>3. CASE UNCHANGED vars
  BY <1>3 DEF vars, product, ledger
<1> QED BY <1>1, <1>2, <1>3 DEF Next, AtWork

\* A session at work without overlap is the only one.
LEMMA OnlyOne ==
    ASSUME TypeOK, TakesTurns, NEW s \in Sessions, AtWork(s), ~overlapped'
    PROVE  ~overlapped /\ \A t \in Sessions \ {s} : pc[t] = "idle"
<1>1. CASE Start(s)
  BY <1>1 DEF Start, Busy
<1>2. CASE Read(s) \/ Write(s) \/ Log(s) \/ Commit(s)
  <2>1. pc[s] # "idle" /\ overlapped' = overlapped
    BY <1>2 DEF Read, Write, Log, Commit
  <2> QED BY <2>1 DEF TakesTurns
<1> QED BY <1>1, <1>2 DEF AtWork

LEMMA TurnsStep == TypeOK /\ TakesTurns /\ [Next]_vars => TakesTurns'
<1> SUFFICES ASSUME TypeOK, TakesTurns, [Next]_vars, ~overlapped',
                    NEW t \in Sessions, NEW u \in Sessions, pc'[t] # "idle", pc'[u] # "idle"
             PROVE  t = u
  BY DEF TakesTurns
<1>1. CASE UNCHANGED <<pc, plan, tx, lock, moves, qty, opening, overlapped>>
  BY <1>1 DEF TakesTurns
<1>2. ASSUME NEW s \in Sessions, AtWork(s) PROVE t = u
  <2>1. \A v \in Sessions \ {s} : pc'[v] = "idle"
    <3>1. Step(s)
      BY <1>2 DEF AtWork, Step
    <3> QED BY <1>2, <3>1, OnlyOne, OthersKept
  <2> QED BY <2>1
<1>3. ASSUME NEW s \in Sessions, Drop(s), overlapped' = overlapped PROVE t = u
  <2>1. /\ pc'[s] = "idle"
        /\ \A v \in Sessions \ {s} : pc'[v] = pc[v]
    BY <1>3, Finished, OthersKept DEF Drop, Step
  <2> QED BY <1>3, <2>1 DEF TakesTurns
<1> QED BY <1>1, <1>2, <1>3, TurnCases

LEMMA ChainAppended ==
    ASSUME NEW m \in Seq(Move), NEW e \in Move, NEW q, Chained(m, q),
           e.prev = IF m = <<>> THEN q ELSE LastNew(m)
    PROVE  Chained(Append(m, e), q)
<1>1. /\ Len(Append(m, e)) = Len(m) + 1 /\ Append(m, e)[Len(m) + 1] = e
      /\ \A k \in 1 .. Len(m) : Append(m, e)[k] = m[k]
      /\ Len(m) \in Nat /\ DOMAIN m = 1 .. Len(m)
      /\ DOMAIN Append(m, e) = 1 .. Len(m) + 1
      /\ m = <<>> <=> Len(m) = 0
  BY EmptySeq
<1> DEFINE a == Append(m, e)
<1> HIDE DEF a
<1> SUFFICES ASSUME NEW k \in 1 .. Len(m) + 1
             PROVE  a[k].prev = IF k = 1 THEN q ELSE a[k - 1].new
  BY <1>1 DEF Chained, a
<1>2. CASE k = Len(m) + 1
  <2>1. CASE k = 1
    <3>1. m = <<>>
      BY <1>1, <1>2, <2>1
    <3>2. a[k] = e
      BY <1>1, <1>2 DEF a
    <3> QED BY <2>1, <3>1, <3>2
  <2>2. CASE k # 1
    <3>1. k - 1 = Len(m) /\ k - 1 \in 1 .. Len(m) /\ m # <<>>
      BY <1>1, <1>2, <2>2
    <3>2. a[k] = e /\ a[k - 1] = m[Len(m)]
      BY <1>1, <1>2, <3>1 DEF a
    <3> QED BY <2>2, <3>1, <3>2 DEF LastNew
  <2> QED BY <2>1, <2>2
<1>3. CASE k \in 1 .. Len(m)
  <2>1. a[k] = m[k] /\ (k # 1 => k - 1 \in 1 .. Len(m) /\ a[k - 1] = m[k - 1])
    BY <1>1, <1>3 DEF a
  <2>2. m[k].prev = IF k = 1 THEN q ELSE m[k - 1].new
    BY <1>1, <1>3 DEF Chained
  <2> QED BY <2>1, <2>2
<1> QED BY <1>1, <1>2, <1>3

LEMMA ChainJoined ==
    ASSUME NEW m \in Seq(Move), NEW n \in Seq(Move), NEW q, Chained(m, q),
           Chained(n, IF m = <<>> THEN q ELSE LastNew(m))
    PROVE  Chained(m \o n, q)
<1>1. /\ DOMAIN (m \o n) = 1 .. Len(m) + Len(n)
      /\ \A k \in 1 .. Len(m) + Len(n) :
            (m \o n)[k] = IF k <= Len(m) THEN m[k] ELSE n[k - Len(m)]
  BY ConcatProperties, LenProperties
<1>2. /\ Len(m) \in Nat /\ DOMAIN m = 1 .. Len(m) /\ Len(n) \in Nat /\ DOMAIN n = 1 .. Len(n)
      /\ m = <<>> <=> Len(m) = 0
  BY LenProperties, EmptySeq
<1> DEFINE j == m \o n
<1> HIDE DEF j
<1> SUFFICES ASSUME NEW k \in 1 .. Len(m) + Len(n)
             PROVE  j[k].prev = IF k = 1 THEN q ELSE j[k - 1].new
  BY <1>1 DEF Chained, j
<1>3. CASE k <= Len(m)
  <2>1. k \in 1 .. Len(m) /\ j[k] = m[k] /\ (k # 1 => j[k - 1] = m[k - 1])
    BY <1>1, <1>2, <1>3 DEF j
  <2>2. m[k].prev = IF k = 1 THEN q ELSE m[k - 1].new
    BY <1>2, <2>1 DEF Chained
  <2> QED BY <2>1, <2>2
<1>4. CASE ~(k <= Len(m))
  <2> DEFINE l == k - Len(m)
  <2>1. l \in 1 .. Len(n) /\ j[k] = n[l]
    BY <1>1, <1>2, <1>4 DEF j
  <2>2. n[l].prev = IF l = 1 THEN (IF m = <<>> THEN q ELSE LastNew(m)) ELSE n[l - 1].new
    BY <1>2, <2>1 DEF Chained
  <2>3. CASE l = 1
    <3>1. CASE m = <<>>
      <4>1. k = 1
        BY <1>2, <2>3, <3>1
      <4> QED BY <2>1, <2>2, <2>3, <3>1, <4>1
    <3>2. CASE m # <<>>
      <4>1. k # 1 /\ k - 1 = Len(m) /\ k - 1 \in 1 .. Len(m) + Len(n)
        BY <1>2, <2>3, <3>2
      <4>2. j[k - 1] = m[Len(m)]
        BY <1>1, <1>2, <4>1 DEF j
      <4> QED BY <2>1, <2>2, <2>3, <3>2, <4>1, <4>2 DEF LastNew
    <3> QED BY <3>1, <3>2
  <2>4. CASE l # 1
    <3>1. k # 1 /\ k - 1 \in 1 .. Len(m) + Len(n) /\ ~(k - 1 <= Len(m)) /\ (k - 1) - Len(m) = l - 1
      BY <1>2, <1>4, <2>1, <2>4
    <3>2. j[k - 1] = n[l - 1]
      <4>1. j[k - 1] = n[(k - 1) - Len(m)]
        BY <1>1, <3>1 DEF j
      <4> QED BY <3>1, <4>1
    <3> QED BY <2>1, <2>2, <2>4, <3>1, <3>2
  <2> QED BY <2>3, <2>4
<1> QED BY <1>3, <1>4

\* Before its first write to p and between calls, what a session reads of p is the
\* level its movements tell.
LEMMA RowIsLevel ==
    ASSUME WritesAreLogged, NEW s \in Sessions, NEW p \in Products, ~HalfDone(s, p)
    PROVE  Row(s, p).qty = LevelFor(s, p)
  BY DEF WritesAreLogged, Row, LevelFor

\* What ChainsGrow and WritesFlagged say of one session.
ChainGrows(s) ==
    /\ pc[s] # "idle" => \A p \in Products : Chained(tx[s].moves[p], qty[p])
    /\ Unlogged(s) => tx[s].seen = LevelFor(s, Current(s).p)
WriteFlagged(s) ==
    /\ \A p \in Products : lock[p] = s =>
           (tx[s].draft[p].qty < 0 /\ tx[s].draft[p].qty < qty[p] => tx[s].draft[p].recount)
    /\ pc[s] \in {"log", "write"} /\ Current(s).kind = "adjust" => tx[s].new >= 0
    /\ pc[s] = "write" /\ Current(s).kind = "in" => tx[s].new > Row(s, Current(s).p).qty

LEMMA AloneFacts ==
    ASSUME ChainsGrow, WritesFlagged, ~overlapped, NEW s \in Sessions
    PROVE  ChainGrows(s) /\ WriteFlagged(s)
<1>1. \A p \in Products : lock[p] = s =>
         (tx[s].draft[p].qty < 0 /\ tx[s].draft[p].qty < qty[p] => tx[s].draft[p].recount)
  BY DEF WritesFlagged
<1>2. ChainGrows(s)
  BY DEF ChainsGrow, ChainGrows
<1> QED BY <1>1, <1>2 DEF WritesFlagged, WriteFlagged

\* A session that does nothing keeps both, as long as the committed quantities do.
LEMMA IdleAlone ==
    ASSUME TypeOK, LocalsFit, NEW t \in Sessions, pc[t] = "idle"
    PROVE  ChainGrows(t) /\ WriteFlagged(t)
  BY DEF LocalsFit, ChainGrows, WriteFlagged, Unlogged

LEMMA KeptAlone ==
    ASSUME TypeOK, LocalsFit, NEW t \in Sessions, ChainGrows(t), WriteFlagged(t), qty' = qty,
           pc'[t] = pc[t], plan'[t] = plan[t], tx'[t] = tx[t],
           \A p \in Products : lock'[p] = t <=> lock[p] = t
    PROVE  ChainGrows(t)' /\ WriteFlagged(t)'
<1>1. Current(t)' = Current(t) /\ (Unlogged(t)' <=> Unlogged(t))
  BY DEF Current, Unlogged
<1>2. \A p \in Products : LevelFor(t, p)' = LevelFor(t, p) /\ Row(t, p)'.qty = Row(t, p).qty
  BY DEF LevelFor, LastNew, Row
<1>3. pc[t] \in {"log", "write"} => Current(t).p \in Products
  BY CurrentTyped
<1>4. ChainGrows(t)'
  <2>1. \A p \in Products : Chained(tx[t].moves[p], qty[p])' <=> Chained(tx[t].moves[p], qty[p])
    BY DEF Chained
  <2>2. pc'[t] # "idle" => \A p \in Products : Chained(tx[t].moves[p], qty[p])'
    BY <2>1 DEF ChainGrows
  <2>3. Unlogged(t)' => tx'[t].seen = LevelFor(t, Current(t).p)'
    <3>1. Unlogged(t) => LevelFor(t, Current(t).p)' = LevelFor(t, Current(t).p)
      BY <1>1, <1>3 DEF Unlogged, LevelFor, LastNew
    <3> QED BY <1>1, <3>1 DEF ChainGrows
  <2> QED BY <2>2, <2>3 DEF ChainGrows
<1>5. WriteFlagged(t)'
  <2>1. pc[t] = "write" => Row(t, Current(t).p)'.qty = Row(t, Current(t).p).qty
    BY <1>1, <1>3 DEF Row
  <2> QED BY <1>1, <2>1 DEF WriteFlagged
<1> QED BY <1>4, <1>5

\* What else a call leaves: what it has read, and the flag it writes.
LEMMA CallKeeps ==
    ASSUME TypeOK, LocalsFit, NEW s \in Sessions
    PROVE  /\ Write(s) => /\ tx'[s].seen = tx[s].seen /\ tx'[s].items = tx[s].items
                          /\ tx'[s].draft[Current(s).p].recount =
                                 Flag(Current(s), tx[s].new, Row(s, Current(s).p).recount)
           /\ Log(s) => /\ tx'[s].seen = tx[s].seen /\ tx'[s].items = tx[s].items
                        /\ \E e \in Move :
                              /\ tx'[s].moves[Current(s).p] = Append(tx[s].moves[Current(s).p], e)
                              /\ e.prev = tx[s].seen /\ e.new = tx[s].new
                              /\ e.sale = IsSale(s)
           /\ Read(s) => /\ tx'[s].seen = Row(s, Current(s).p).qty
                         /\ tx'[s].new = Target(Current(s), Row(s, Current(s).p).qty)
                         /\ tx'[s].items = tx[s].items
<1>1. ASSUME Write(s)
      PROVE  /\ tx'[s].seen = tx[s].seen /\ tx'[s].items = tx[s].items
             /\ tx'[s].draft[Current(s).p].recount =
                    Flag(Current(s), tx[s].new, Row(s, Current(s).p).recount)
  <2>1. Current(s).p \in Products
    BY <1>1, CurrentTyped DEF Write
  <2> DEFINE row == [qty     |-> tx[s].new,
                     recount |-> Flag(Current(s), tx[s].new, Row(s, Current(s).p).recount)]
  <2>2. tx' = [tx EXCEPT ![s].draft[Current(s).p] = row]
    BY <1>1 DEF Write
  <2> HIDE DEF row
  <2>3. /\ tx'[s].seen = tx[s].seen /\ tx'[s].items = tx[s].items
        /\ tx'[s].draft[Current(s).p] = row
    BY <2>1, <2>2 DEF TypeOK, Tx
  <2> QED BY <2>3 DEF row
<1>2. ASSUME Log(s)
      PROVE  /\ tx'[s].seen = tx[s].seen /\ tx'[s].items = tx[s].items
             /\ \E e \in Move :
                   /\ tx'[s].moves[Current(s).p] = Append(tx[s].moves[Current(s).p], e)
                   /\ e.prev = tx[s].seen /\ e.new = tx[s].new
                   /\ e.sale = IsSale(s)
  <2>1. Current(s) \in Call /\ Current(s).p \in Products
    BY <1>2, CurrentTyped DEF Log
  <2> DEFINE e == [kind |-> Current(s).kind, prev |-> LoggedBefore(s), new |-> LoggedAfter(s),
                   overridden |-> Overridden(Current(s), LoggedAfter(s)),
                   sale |-> IsSale(s)]
  <2>2. e \in Move
    BY <2>1 DEF TypeOK, Tx, Move, Call, LoggedBefore, LoggedAfter, Overridden, IsSale
  <2>3. e.prev = tx[s].seen /\ e.new = tx[s].new /\ e.sale = IsSale(s)
    BY DEF LoggedBefore, LoggedAfter
  <2>4. tx' = [tx EXCEPT ![s].moves[Current(s).p] = Append(@, e)]
    BY <1>2 DEF Log
  <2> HIDE DEF e
  <2>5. /\ tx'[s].seen = tx[s].seen /\ tx'[s].items = tx[s].items
        /\ tx'[s].moves[Current(s).p] = Append(tx[s].moves[Current(s).p], e)
    BY <2>1, <2>4 DEF TypeOK, Tx
  <2> QED BY <2>2, <2>3, <2>5
<1>3. ASSUME Read(s)
      PROVE  /\ tx'[s].seen = Row(s, Current(s).p).qty
             /\ tx'[s].new = Target(Current(s), Row(s, Current(s).p).qty)
             /\ tx'[s].items = tx[s].items
  BY <1>3 DEF Read, TypeOK, Tx
<1> QED BY <1>1, <1>2, <1>3

\* The session that steps keeps both.
LEMMA OwnChain ==
    ASSUME IInv, NEW s \in Sessions, AtWork(s), ChainGrows(s)
    PROVE  ChainGrows(s)'
<1>0. TypeOK /\ LocalsFit /\ WritesAreLogged
  BY DEF IInv
<1> DEFINE p == Current(s).p
<1>1. CASE Start(s)
  <2>1. /\ pc[s] = "idle" /\ pc'[s] = "read" /\ tx'[s].moves = tx[s].moves /\ qty' = qty
    BY <1>0, <1>1, Moving, Reading
  <2>2. \A q \in Products : tx'[s].moves[q] = <<>>
    BY <1>0, <2>1 DEF LocalsFit, NoTx
  <2>3. \A q \in Products : Chained(tx[s].moves[q], qty[q])'
    BY <2>2 DEF Chained
  <2> QED BY <2>1, <2>3 DEF ChainGrows, Unlogged
<1>2. CASE Read(s)
  <2>1. /\ pc[s] = "read" /\ tx'[s].moves = tx[s].moves /\ qty' = qty /\ plan'[s] = plan[s]
        /\ Current(s)' = Current(s) /\ p \in Products
    BY <1>0, <1>2, Moving, Reading, CurrentTyped DEF Current
  <2>2. \A q \in Products : Chained(tx[s].moves[q], qty[q])' <=> Chained(tx[s].moves[q], qty[q])
    BY <2>1 DEF Chained
  <2>3. ~HalfDone(s, p)
    BY <2>1 DEF HalfDone
  <2>4. tx'[s].seen = LevelFor(s, p)
    BY <1>0, <1>2, <2>1, <2>3, RowIsLevel, CallKeeps
  <2>5. LevelFor(s, Current(s).p)' = LevelFor(s, p)
    BY <2>1 DEF LevelFor, LastNew
  <2> QED BY <2>1, <2>2, <2>4, <2>5 DEF ChainGrows
<1>3. CASE Write(s)
  <2>1. /\ pc[s] = "write" /\ tx'[s].moves = tx[s].moves /\ qty' = qty /\ tx'[s].seen = tx[s].seen
    BY <1>0, <1>3, Moving, Writing, CallKeeps DEF Write, product
  <2>2. \A q \in Products : Chained(tx[s].moves[q], qty[q])' <=> Chained(tx[s].moves[q], qty[q])
    BY <2>1 DEF Chained
  <2>3. ASSUME Unlogged(s)' PROVE tx'[s].seen = LevelFor(s, Current(s).p)'
    <3>1. Current(s).kind # "adjust" /\ plan'[s] = plan[s]
      BY <1>0, <1>3, <2>3, Moving DEF Unlogged
    <3>2. Current(s)' = Current(s) /\ Unlogged(s)
      BY <2>1, <3>1 DEF Current, Unlogged
    <3>3. LevelFor(s, Current(s).p)' = LevelFor(s, p)
      BY <2>1, <3>2 DEF LevelFor, LastNew
    <3> QED BY <2>1, <3>2, <3>3 DEF ChainGrows
  <2> QED BY <2>1, <2>2, <2>3 DEF ChainGrows
<1>4. CASE Log(s)
  <2>0. PICK k \in Products : k = Current(s).p
    BY <1>0, <1>4, CurrentTyped DEF Log
  <2>1. pc[s] = "log" /\ qty' = qty
    BY <1>0, <1>4, Moving DEF Log, product
  <2>2. PICK e \in Move : tx'[s].moves[k] = Append(tx[s].moves[k], e) /\ e.prev = tx[s].seen
    BY <1>0, <1>4, <2>0, CallKeeps
  <2>3. e.prev = IF tx[s].moves[k] = <<>> THEN qty[k] ELSE LastNew(tx[s].moves[k])
    BY <2>0, <2>1, <2>2 DEF ChainGrows, Unlogged, LevelFor
  <2>4. tx[s].moves[k] \in Seq(Move) /\ Chained(tx[s].moves[k], qty[k])
    BY <1>0, <2>1 DEF ChainGrows, TypeOK, Tx
  <2>5. Chained(tx[s].moves[k], qty[k])'
    <3>1. Chained(Append(tx[s].moves[k], e), qty[k])
      BY <2>3, <2>4, ChainAppended
    <3> QED BY <2>1, <2>2, <3>1 DEF Chained
  <2>6. \A q \in Products \ {k} : Chained(tx[s].moves[q], qty[q])'
    BY <1>0, <1>4, <2>0, <2>1, Logging DEF ChainGrows, Chained
  <2>7. ~Unlogged(s)'
    <3>1. CASE Current(s).kind = "adjust"
      BY <1>0, <1>4, <3>1, Moving DEF Unlogged, Current
    <3>2. CASE Current(s).kind # "adjust"
      BY <1>0, <1>4, <3>2, Moving DEF Unlogged
    <3> QED BY <3>1, <3>2
  <2>8. \A q \in Products : Chained(tx[s].moves[q], qty[q])'
    <3> SUFFICES ASSUME NEW q \in Products PROVE Chained(tx[s].moves[q], qty[q])'
      OBVIOUS
    <3>1. CASE q = k
      BY <2>2, <2>5, <3>1 DEF Chained
    <3> QED BY <2>6, <3>1
  <2> QED BY <2>7, <2>8 DEF ChainGrows
<1>5. CASE Commit(s)
  BY <1>0, <1>5, Finished DEF Commit, ChainGrows, Unlogged
<1> QED BY <1>1, <1>2, <1>3, <1>4, <1>5 DEF AtWork

LEMMA OwnFlags ==
    ASSUME IInv, NEW s \in Sessions, AtWork(s), WriteFlagged(s)
    PROVE  WriteFlagged(s)'
<1>0. TypeOK /\ LocalsFit /\ WritesAreLogged
  BY DEF IInv
<1> DEFINE c == Current(s)
           p == c.p
<1>1. CASE Start(s)
  BY <1>0, <1>1, Moving, Reading DEF WriteFlagged, LocalsFit
<1>2. CASE Read(s)
  <2>1. /\ pc[s] = "read" /\ tx'[s].draft = tx[s].draft /\ UNCHANGED <<lock, qty>>
        /\ Current(s)' = c /\ c \in Call /\ p \in Products
    BY <1>0, <1>2, Moving, Reading, CurrentTyped DEF Current
  <2> DEFINE q == Row(s, p).qty
  <2>2. /\ tx'[s].new = Target(c, q) /\ q \in Int /\ Conversion(p, c.uom) # 0
    BY <1>0, <1>2, <2>1, CallKeeps, RowTyped DEF Read
  <2>3. c.n * Conversion(p, c.uom) \in Nat /\ c.n * Conversion(p, c.uom) > 0
    BY <1>0, <2>1, <2>2, BaseUnits
  <2>4. Row(s, Current(s).p)'.qty = q
    BY <2>1 DEF Row
  <2>5. c.kind = "adjust" => tx'[s].new >= 0
    BY <2>2, <2>3 DEF Target
  <2>6. c.kind = "in" => tx'[s].new > q
    <3> HIDE DEF q
    <3> QED BY <2>2, <2>3 DEF Target
  <2> QED BY <2>1, <2>4, <2>5, <2>6 DEF WriteFlagged
<1>3. CASE Write(s)
  <2>1. pc[s] = "write" /\ qty' = qty /\ c \in Call /\ p \in Products
    BY <1>0, <1>3, Moving, CurrentTyped DEF Write, product
  <2>2. /\ lock'[p] = s /\ tx'[s].draft[p].qty = tx[s].new
        /\ tx'[s].draft[p].recount = Flag(c, tx[s].new, Row(s, p).recount)
        /\ \A q \in Products \ {p} : lock'[q] = lock[q] /\ tx'[s].draft[q] = tx[s].draft[q]
    BY <1>0, <1>3, Writing, CallKeeps
  <2>3. tx[s].new \in Int /\ qty[p] \in Int /\ tx[s].draft[p].qty \in Int
    BY <1>0, <2>1 DEF TypeOK, Tx
  <2>4. ASSUME tx[s].new < 0, tx[s].new < qty[p] PROVE Flag(c, tx[s].new, Row(s, p).recount)
    <3>1. c.kind # "adjust"
      BY <2>1, <2>3, <2>4 DEF WriteFlagged
    <3>2. CASE c.kind = "out"
      BY <2>4, <3>2 DEF Flag
    <3>3. CASE c.kind = "in"
      <4>1. tx[s].new > Row(s, p).qty
        BY <2>1, <3>3 DEF WriteFlagged
      <4>2. lock[p] = s
        BY <2>3, <2>4, <4>1 DEF Row
      <4>3. tx[s].draft[p].qty < 0 /\ tx[s].draft[p].qty < qty[p]
        BY <2>3, <2>4, <4>1, <4>2 DEF Row
      <4>4. tx[s].draft[p].recount
        BY <2>1, <4>2, <4>3 DEF WriteFlagged
      <4>5. Row(s, p).recount
        BY <4>2, <4>4 DEF Row
      <4> QED BY <3>3, <4>5 DEF Flag
    <3> QED BY <2>1, <3>1, <3>2, <3>3 DEF Call, Kinds
  <2>5. ASSUME NEW q \in Products, lock'[q] = s, tx'[s].draft[q].qty < 0,
               tx'[s].draft[q].qty < qty'[q]
        PROVE  tx'[s].draft[q].recount
    <3>1. CASE q = p
      BY <2>1, <2>2, <2>4, <2>5, <3>1
    <3>2. CASE q # p
      BY <2>1, <2>2, <2>5, <3>2 DEF WriteFlagged
    <3> QED BY <3>1, <3>2
  <2>6. /\ pc'[s] # "write"
        /\ pc'[s] = "log" => Current(s)' = c /\ c.kind # "adjust"
    BY <1>0, <1>3, Moving DEF Current
  <2> QED BY <2>5, <2>6 DEF WriteFlagged
<1>4. CASE Log(s)
  <2>1. /\ pc[s] = "log" /\ UNCHANGED <<lock, qty>> /\ tx'[s].draft = tx[s].draft
        /\ tx'[s].new = tx[s].new
    BY <1>0, <1>4, Moving, Logging DEF Log, product
  <2>2. /\ pc'[s] # "log"
        /\ pc'[s] = "write" => Current(s)' = c /\ c.kind = "adjust"
    BY <1>0, <1>4, Moving DEF Current
  <2> QED BY <2>1, <2>2 DEF WriteFlagged
<1>5. CASE Commit(s)
  BY <1>0, <1>5, Finished DEF Commit, WriteFlagged
<1> QED BY <1>1, <1>2, <1>3, <1>4, <1>5 DEF AtWork

\* What is committed stays a chain, as long as requests follow one another.
LEMMA LedgerChain ==
    ASSUME IInv, NEW s \in Sessions, Commit(s), ChainGrows(s), LevelBeforeChange
    PROVE  LevelBeforeChange'
<1> SUFFICES ASSUME NEW p \in Products PROVE Chained(moves'[p], opening'[p])
  BY DEF LevelBeforeChange, Chained
<1>1. /\ moves[p] \in Seq(Move) /\ tx[s].moves[p] \in Seq(Move)
      /\ moves'[p] = moves[p] \o tx[s].moves[p] /\ opening' = opening
  BY DEF IInv, TypeOK, Tx, Commit
<1>2. Chained(moves[p], opening[p])
  BY DEF LevelBeforeChange, Chained
<1>3. Chained(tx[s].moves[p], qty[p])
  BY DEF ChainGrows, Commit
<1>4. qty[p] = IF moves[p] = <<>> THEN opening[p] ELSE LastNew(moves[p])
  BY DEF IInv, LastMoveIsLevel, LastNew
<1> QED BY <1>1, <1>2, <1>3, <1>4, ChainJoined

LEMMA AloneStep == IInv /\ LocalsFit' /\ TypeOK' /\ AloneInv /\ [Next]_vars => AloneInv'
<1> SUFFICES ASSUME IInv, LocalsFit', TypeOK', AloneInv, [Next]_vars PROVE AloneInv'
  OBVIOUS
<1>0. /\ TypeOK /\ LocalsFit /\ TakesTurns /\ ChainsGrow /\ WritesFlagged /\ ChainWhenAlone
      /\ TakesTurns'
  BY TurnsStep DEF IInv, AloneInv
<1> SUFFICES ASSUME ~overlapped'
             PROVE  LevelBeforeChange' /\ \A t \in Sessions : ChainGrows(t)' /\ WriteFlagged(t)'
  <2>1. CASE overlapped'
    BY <1>0, <2>1 DEF AloneInv, ChainsGrow, WritesFlagged, ChainWhenAlone
  <2>2. CASE LevelBeforeChange' /\ \A t \in Sessions : ChainGrows(t)' /\ WriteFlagged(t)'
    <3>1. ChainsGrow'
      BY <2>2 DEF ChainsGrow, ChainGrows
    <3>2. WritesFlagged'
      <4>1. \A t \in Sessions : WriteFlagged(t)'
        BY <2>2
      <4> QED BY <4>1 DEF WritesFlagged, WriteFlagged
    <3> QED BY <1>0, <2>2, <3>1, <3>2 DEF AloneInv, ChainWhenAlone
  <2> QED BY <2>1, <2>2
<1>1. CASE UNCHANGED <<pc, plan, tx, lock, moves, qty, opening, overlapped>>
  <2>1. LevelBeforeChange'
    BY <1>0, <1>1 DEF ChainWhenAlone, LevelBeforeChange
  <2>2. ASSUME NEW t \in Sessions PROVE ChainGrows(t)' /\ WriteFlagged(t)'
    <3>1. ChainGrows(t) /\ WriteFlagged(t)
      BY <1>0, <1>1, AloneFacts
    <3> QED BY <1>0, <1>1, <3>1, KeptAlone
  <2> QED BY <2>1, <2>2
<1>2. ASSUME NEW s \in Sessions, AtWork(s)
      PROVE  LevelBeforeChange' /\ \A t \in Sessions : ChainGrows(t)' /\ WriteFlagged(t)'
  <2>1. ~overlapped /\ \A t \in Sessions \ {s} : pc[t] = "idle"
    BY <1>0, <1>2, OnlyOne
  <2>2. ChainGrows(s)' /\ WriteFlagged(s)'
    <3>1. ChainGrows(s) /\ WriteFlagged(s)
      BY <1>0, <2>1, AloneFacts
    <3> QED BY <1>2, <3>1, OwnChain, OwnFlags
  <2>3. ASSUME NEW t \in Sessions \ {s} PROVE ChainGrows(t)' /\ WriteFlagged(t)'
    <3>1. pc'[t] = "idle"
      <4>1. Step(s)
        BY <1>2 DEF AtWork, Step
      <4> QED BY <1>0, <2>1, <4>1, OthersKept
    <3>2. /\ \A p \in Products : lock'[p] # t
      BY <3>1 DEF LocalsFit
    <3> QED BY <3>1, <3>2 DEF ChainGrows, WriteFlagged, Unlogged
  <2>4. LevelBeforeChange'
    <3>1. CASE Commit(s)
      <4>1. ChainGrows(s) /\ LevelBeforeChange
        BY <1>0, <2>1, AloneFacts DEF ChainWhenAlone
      <4> QED BY <3>1, <4>1, LedgerChain
    <3>2. CASE ~Commit(s)
      <4>1. moves' = moves /\ opening' = opening
        BY <1>2, <3>2 DEF AtWork, Start, Read, Write, Log, ledger
      <4> QED BY <1>0, <2>1, <4>1 DEF ChainWhenAlone, LevelBeforeChange
    <3> QED BY <3>1, <3>2
  <2> QED BY <2>2, <2>3, <2>4
<1>3. ASSUME NEW s \in Sessions, Drop(s), overlapped' = overlapped
      PROVE  LevelBeforeChange' /\ \A t \in Sessions : ChainGrows(t)' /\ WriteFlagged(t)'
  <2>1. ~overlapped /\ UNCHANGED <<moves, qty, opening>>
    BY <1>3 DEF Drop
  <2>2. LevelBeforeChange'
    BY <1>0, <2>1 DEF ChainWhenAlone, LevelBeforeChange
  <2>3. ChainGrows(s)' /\ WriteFlagged(s)'
    BY <1>0, <1>3, Finished DEF Drop, ChainGrows, WriteFlagged, Unlogged
  <2>4. ASSUME NEW t \in Sessions \ {s} PROVE ChainGrows(t)' /\ WriteFlagged(t)'
    <3>1. ChainGrows(t) /\ WriteFlagged(t) /\ Step(s)
      BY <1>0, <1>3, <2>1, AloneFacts DEF Step
    <3> QED BY <1>0, <2>1, <3>1, OthersKept, KeptAlone
  <2> QED BY <2>2, <2>3, <2>4
<1> QED BY <1>1, <1>2, <1>3, TurnCases

LEMMA InitAlone == Init => AloneInv
<1> SUFFICES ASSUME Init PROVE AloneInv
  OBVIOUS
<1>1. \A p \in Products : moves[p] = <<>> /\ lock[p] \notin Sessions
  BY NobodyIsNew DEF Init
<1>2. \A s \in Sessions : pc[s] = "idle"
  BY DEF Init
<1> QED BY <1>1, <1>2 DEF AloneInv, TakesTurns, ChainsGrow, WritesFlagged, ChainWhenAlone,
                          LevelBeforeChange, Unlogged

\* As long as requests follow one another, each movement of the ledger starts from
\* the level the one before it left.
THEOREM AloneIsChained == Spec => []ChainWhenAlone
<1>1. IInv /\ IInv' /\ AloneInv /\ [Next]_vars => AloneInv'
  BY AloneStep DEF IInv
<1>2. AloneInv => ChainWhenAlone
  BY DEF AloneInv
<1> QED BY <1>1, <1>2, InitAlone, Inductive, PTL DEF Spec

\* As long as requests follow one another, a step that takes a product below zero
\* leaves it flagged for a recount.
THEOREM ShortageAlwaysFlagged == Spec => ShortageFlagged
<1>1. ASSUME IInv, AloneInv, [Next]_vars, ~overlapped, NEW p \in Products,
             qty'[p] < 0, qty'[p] < qty[p]
      PROVE  recount'[p]
  <2>0. TypeOK
    BY <1>1 DEF IInv
  <2>1. PICK s \in Sessions : Commit(s)
    <3>1. qty' # qty
      BY <1>1, <2>0 DEF TypeOK
    <3>2. ASSUME NEW s \in Sessions, Step(s), ~Commit(s) PROVE qty' = qty
      BY <3>2 DEF Step, Start, Read, Write, Log, Drop, product
    <3> QED BY <1>1, <3>1, <3>2, StepCases
  <2>2. qty'[p] = Row(s, p).qty /\ recount'[p] = Row(s, p).recount
    BY <2>1 DEF Commit
  <2>3. lock[p] = s
    BY <1>1, <2>0, <2>2 DEF Row, TypeOK
  <2>4. WriteFlagged(s)
    BY <1>1, AloneFacts DEF AloneInv
  <2> QED BY <1>1, <2>2, <2>3, <2>4 DEF Row, WriteFlagged
<1>2. IInv /\ AloneInv /\ [Next]_vars =>
          [~overlapped => \A p \in Products : qty'[p] < 0 /\ qty'[p] < qty[p] => recount'[p]]_vars
  BY <1>1
<1>3. IInv /\ IInv' /\ AloneInv /\ [Next]_vars => AloneInv'
  BY AloneStep DEF IInv
<1> QED BY <1>2, <1>3, InitAlone, Inductive, PTL DEF Spec, ShortageFlagged

-----------------------------------------------------------------------------
(* While products are edited only between requests, what the invoices bill   *)
(* is what the movements of sales took.                                      *)

TakenAt(m) == [k \in DOMAIN m |-> IF m[k].sale THEN m[k].prev - m[k].new ELSE 0]
BilledAt(rows, p) == [k \in DOMAIN rows |-> IF rows[k].p = p THEN rows[k].base ELSE 0]

LEMMA TakenIsInt ==
    ASSUME NEW m \in Seq(Move)
    PROVE  /\ \A k \in 1 .. Len(m) : TakenAt(m)[k] \in Int
           /\ TakenBy(m) = SumFunctionOnSet(TakenAt(m), 1 .. Len(m))
           /\ TakenBy(m) \in Int
<1>1. Len(m) \in Nat /\ DOMAIN m = 1 .. Len(m) /\ \A k \in 1 .. Len(m) : m[k] \in Move
  BY LenProperties, ElementOfSeq
<1>2. \A k \in 1 .. Len(m) : TakenAt(m)[k] \in Int
  BY <1>1 DEF TakenAt, Move
<1>3. TakenBy(m) = SumFunctionOnSet(TakenAt(m), 1 .. Len(m))
  BY <1>1 DEF TakenBy, TakenAt
<1>4. IsFiniteSet(1 .. Len(m))
  BY <1>1, FS_Interval
<1>5. SumFunctionOnSet(TakenAt(m), 1 .. Len(m)) \in Int
  BY <1>2, <1>4, SumIsInt
<1> QED BY <1>2, <1>3, <1>5

LEMMA TakenAppended ==
    ASSUME NEW m \in Seq(Move), NEW e \in Move
    PROVE  TakenBy(Append(m, e)) = TakenBy(m) + (IF e.sale THEN e.prev - e.new ELSE 0)
<1> DEFINE a == Append(m, e)
           n == Len(m)
<1>1. /\ a \in Seq(Move) /\ Len(a) = n + 1 /\ n \in Nat /\ DOMAIN m = 1 .. n /\ DOMAIN a = 1 .. n + 1
      /\ a[n + 1] = e /\ \A k \in 1 .. n : a[k] = m[k]
  BY Appended
<1> HIDE DEF a, n
<1>2. TakenBy(a) = SumFunctionOnSet(TakenAt(a), 1 .. n + 1)
      /\ \A k \in 1 .. n + 1 : TakenAt(a)[k] \in Int
  BY <1>1, TakenIsInt
<1>3. SumFunctionOnSet(TakenAt(a), 1 .. n + 1) =
          SumFunctionOnSet(TakenAt(a), 1 .. n) + TakenAt(a)[n + 1]
  BY <1>1, <1>2, SumInterval
<1>4. SumFunctionOnSet(TakenAt(a), 1 .. n) = SumFunctionOnSet(TakenAt(m), 1 .. n)
  <2>1. \A k \in 1 .. n : TakenAt(m)[k] \in Int /\ TakenAt(a)[k] = TakenAt(m)[k]
    <3>1. \A k \in 1 .. n : TakenAt(m)[k] \in Int
      BY TakenIsInt DEF n
    <3>2. \A k \in 1 .. n : k \in 1 .. n + 1
      BY <1>1
    <3> QED BY <1>1, <3>1, <3>2 DEF TakenAt
  <2>2. IsFiniteSet(1 .. n)
    BY <1>1, FS_Interval
  <2> QED BY <2>1, <2>2, SumEqual
<1>5. TakenAt(a)[n + 1] = IF e.sale THEN e.prev - e.new ELSE 0
  <2>1. n + 1 \in DOMAIN a
    BY <1>1
  <2> QED BY <1>1, <2>1 DEF TakenAt
<1>6. TakenBy(m) = SumFunctionOnSet(TakenAt(m), 1 .. n)
  BY TakenIsInt DEF n
<1> QED BY <1>2, <1>3, <1>4, <1>5, <1>6 DEF a

LEMMA TakenJoined ==
    ASSUME NEW a \in Seq(Move), NEW b \in Seq(Move)
    PROVE  TakenBy(a \o b) = TakenBy(a) + TakenBy(b)
<1> DEFINE j == a \o b
<1>1. /\ j \in Seq(Move) /\ Len(j) = Len(a) + Len(b) /\ Len(a) \in Nat /\ Len(b) \in Nat
      /\ \A k \in 1 .. Len(a) + Len(b) : j[k] = IF k <= Len(a) THEN a[k] ELSE b[k - Len(a)]
      /\ DOMAIN a = 1 .. Len(a) /\ DOMAIN b = 1 .. Len(b) /\ DOMAIN j = 1 .. Len(a) + Len(b)
  BY ConcatProperties, LenProperties
<1> HIDE DEF j
<1>2. ASSUME NEW k \in 1 .. Len(a) PROVE TakenAt(a)[k] \in Int /\ TakenAt(j)[k] = TakenAt(a)[k]
  <2>1. k \in DOMAIN j /\ j[k] = a[k]
    BY <1>1
  <2> QED BY <1>1, <2>1, TakenIsInt DEF TakenAt
<1>3. ASSUME NEW k \in 1 .. Len(b)
      PROVE  TakenAt(b)[k] \in Int /\ TakenAt(j)[Len(a) + k] = TakenAt(b)[k]
  <2>1. /\ Len(a) + k \in DOMAIN j /\ ~(Len(a) + k <= Len(a)) /\ (Len(a) + k) - Len(a) = k
    BY <1>1
  <2>2. j[Len(a) + k] = b[k]
    <3>1. j[Len(a) + k] = b[(Len(a) + k) - Len(a)]
      BY <1>1, <2>1
    <3> QED BY <2>1, <3>1
  <2> QED BY <1>1, <2>1, <2>2, TakenIsInt DEF TakenAt
<1>4. SumFunctionOnSet(TakenAt(j), 1 .. Len(a) + Len(b)) =
          SumFunctionOnSet(TakenAt(a), 1 .. Len(a)) + SumFunctionOnSet(TakenAt(b), 1 .. Len(b))
  <2>1. Len(a) \in Nat /\ Len(b) \in Nat
    BY <1>1
  <2>2. \A k \in 1 .. Len(a) : TakenAt(a)[k] \in Int /\ TakenAt(j)[k] = TakenAt(a)[k]
    BY <1>2
  <2>3. \A k \in 1 .. Len(b) : TakenAt(b)[k] \in Int /\ TakenAt(j)[Len(a) + k] = TakenAt(b)[k]
    BY <1>3
  <2>4. Continues(TakenAt(j), TakenAt(a), Len(a), TakenAt(b), Len(b))
    BY <2>2, <2>3 DEF Continues
  <2> QED BY <2>1, <2>4, SumConcatenation
<1>5. /\ TakenBy(j) = SumFunctionOnSet(TakenAt(j), 1 .. Len(a) + Len(b))
      /\ TakenBy(a) = SumFunctionOnSet(TakenAt(a), 1 .. Len(a))
      /\ TakenBy(b) = SumFunctionOnSet(TakenAt(b), 1 .. Len(b))
  BY <1>1, TakenIsInt
<1> QED BY <1>4, <1>5 DEF j

LEMMA BilledIsInt ==
    ASSUME NEW rows \in Seq(Item), NEW p
    PROVE  /\ Len(rows) \in Nat /\ DOMAIN rows = 1 .. Len(rows)
           /\ \A k \in 1 .. Len(rows) : BilledAt(rows, p)[k] \in Int
           /\ \A n : BilledBy(rows, p, n) = SumFunctionOnSet(BilledAt(rows, p), 1 .. n)
<1>1. Len(rows) \in Nat /\ DOMAIN rows = 1 .. Len(rows) /\ \A k \in 1 .. Len(rows) : rows[k] \in Item
  BY LenProperties, ElementOfSeq
<1> QED BY <1>1 DEF BilledAt, BilledBy, Item

\* Nothing is billed by no lines.
LEMMA BilledNothing ==
    ASSUME NEW rows, NEW p, NEW n \in Int, n <= 0
    PROVE  BilledBy(rows, p, n) = 0
<1>1. 1 .. n = {}
  OBVIOUS
<1> QED BY <1>1, SumEmpty DEF BilledBy

\* One line more.
LEMMA BilledNext ==
    ASSUME NEW rows \in Seq(Item), NEW p, NEW n \in Nat, n < Len(rows)
    PROVE  BilledBy(rows, p, n + 1) =
               BilledBy(rows, p, n) + (IF rows[n + 1].p = p THEN rows[n + 1].base ELSE 0)
<1>1. \A k \in 1 .. n + 1 : k \in 1 .. Len(rows)
  BY BilledIsInt
<1>2. \A k \in 1 .. n + 1 : BilledAt(rows, p)[k] \in Int
  BY <1>1, BilledIsInt
<1>3. SumFunctionOnSet(BilledAt(rows, p), 1 .. n + 1) =
          SumFunctionOnSet(BilledAt(rows, p), 1 .. n) + BilledAt(rows, p)[n + 1]
  BY <1>2, SumInterval
<1>4. BilledAt(rows, p)[n + 1] = IF rows[n + 1].p = p THEN rows[n + 1].base ELSE 0
  <2>1. n + 1 \in DOMAIN rows
    BY <1>1, BilledIsInt
  <2> QED BY <2>1 DEF BilledAt
<1> QED BY <1>3, <1>4, BilledIsInt

LEMMA BilledJoined ==
    ASSUME NEW a \in Seq(Item), NEW b \in Seq(Item), NEW p
    PROVE  BilledBy(a \o b, p, Len(a \o b)) = BilledBy(a, p, Len(a)) + BilledBy(b, p, Len(b))
<1> DEFINE j == a \o b
<1>1. /\ j \in Seq(Item) /\ Len(j) = Len(a) + Len(b) /\ Len(a) \in Nat /\ Len(b) \in Nat
      /\ \A k \in 1 .. Len(a) + Len(b) : j[k] = IF k <= Len(a) THEN a[k] ELSE b[k - Len(a)]
      /\ DOMAIN a = 1 .. Len(a) /\ DOMAIN b = 1 .. Len(b) /\ DOMAIN j = 1 .. Len(a) + Len(b)
  BY ConcatProperties, LenProperties
<1> HIDE DEF j
<1>2. ASSUME NEW k \in 1 .. Len(a)
      PROVE  BilledAt(a, p)[k] \in Int /\ BilledAt(j, p)[k] = BilledAt(a, p)[k]
  <2>1. k \in DOMAIN j /\ j[k] = a[k]
    BY <1>1
  <2> QED BY <1>1, <2>1, BilledIsInt DEF BilledAt
<1>3. ASSUME NEW k \in 1 .. Len(b)
      PROVE  BilledAt(b, p)[k] \in Int /\ BilledAt(j, p)[Len(a) + k] = BilledAt(b, p)[k]
  <2>1. /\ Len(a) + k \in DOMAIN j /\ ~(Len(a) + k <= Len(a)) /\ (Len(a) + k) - Len(a) = k
    BY <1>1
  <2>2. j[Len(a) + k] = b[k]
    <3>1. j[Len(a) + k] = b[(Len(a) + k) - Len(a)]
      BY <1>1, <2>1
    <3> QED BY <2>1, <3>1
  <2> QED BY <1>1, <2>1, <2>2, BilledIsInt DEF BilledAt
<1>4. SumFunctionOnSet(BilledAt(j, p), 1 .. Len(a) + Len(b)) =
          SumFunctionOnSet(BilledAt(a, p), 1 .. Len(a)) + SumFunctionOnSet(BilledAt(b, p), 1 .. Len(b))
  <2>1. Len(a) \in Nat /\ Len(b) \in Nat
    BY <1>1
  <2>2. \A k \in 1 .. Len(a) : BilledAt(a, p)[k] \in Int /\ BilledAt(j, p)[k] = BilledAt(a, p)[k]
    BY <1>2
  <2>3. \A k \in 1 .. Len(b) : BilledAt(b, p)[k] \in Int /\ BilledAt(j, p)[Len(a) + k] = BilledAt(b, p)[k]
    BY <1>3
  <2>4. Continues(BilledAt(j, p), BilledAt(a, p), Len(a), BilledAt(b, p), Len(b))
    BY <2>2, <2>3 DEF Continues
  <2> QED BY <2>1, <2>4, SumConcatenation
<1>5. /\ BilledBy(j, p, Len(j)) = SumFunctionOnSet(BilledAt(j, p), 1 .. Len(a) + Len(b))
      /\ BilledBy(a, p, Len(a)) = SumFunctionOnSet(BilledAt(a, p), 1 .. Len(a))
      /\ BilledBy(b, p, Len(b)) = SumFunctionOnSet(BilledAt(b, p), 1 .. Len(b))
  BY <1>1, BilledIsInt
<1> QED BY <1>4, <1>5 DEF j

-----------------------------------------------------------------------------
\* What LinesLeft and DeductedSoFar say of one session.
LineLeft(s) == IsSale(s) =>
    /\ LinesDone(s) >= 0
    /\ \A k \in DOMAIN plan[s] :
           /\ plan[s][k].kind = "out"
           /\ tx[s].items[LinesDone(s) + k] =
                  [p |-> plan[s][k].p, base |-> plan[s][k].n * ItemFactor(plan[s][k])]
    /\ pc[s] \in {"write", "log"} =>
           tx[s].new = tx[s].seen - tx[s].items[LinesDone(s) + 1].base
Deducted(s) ==
    /\ pc[s] \in {"idle", "commit"} => plan[s] = <<>>
    /\ \A p \in Products : TakenBy(tx[s].moves[p]) = BilledBy(tx[s].items, p, LinesDone(s))

\* With products edited between requests, a factor changes only while nobody is at
\* work.
LEMMA QuietCases ==
    ASSUME [QuietNext]_vars
    PROVE  \/ /\ UNCHANGED <<pc, plan, tx, moves, items>>
              /\ factor' = factor \/ \A s \in Sessions : pc[s] = "idle"
           \/ \E s \in Sessions : factor' = factor /\ (AtWork(s) \/ (Drop(s) /\ items' = items))
<1>1. ASSUME NEW s \in Sessions, Start(s) \/ Continue(s) \/ Abort(s) \/ BreakDeadlock(s)
      PROVE  factor' = factor /\ (AtWork(s) \/ (Drop(s) /\ items' = items))
  BY <1>1 DEF Start, Continue, Read, Write, Log, Commit, RefuseUnit, RefuseStock, Abort,
              BreakDeadlock, Drop, AtWork, product, ledger
<1>2. ASSUME NEW p \in Products, UpdateProduct(p)
      PROVE  UNCHANGED <<pc, plan, tx, moves, items>>
  BY <1>2 DEF UpdateProduct, ledger
<1>3. CASE UNCHANGED vars
  BY <1>3 DEF vars, product, ledger
<1> QED BY <1>1, <1>2, <1>3 DEF QuietNext

LEMMA QuietIsNext == [QuietNext]_vars => [Next]_vars
  BY DEF QuietNext, Next

LEMMA KeptLines ==
    ASSUME TypeOK, LocalsFit, NEW t \in Sessions, LineLeft(t), Deducted(t),
           pc'[t] = pc[t], plan'[t] = plan[t], tx'[t] = tx[t],
           factor' = factor \/ pc[t] = "idle"
    PROVE  LineLeft(t)' /\ Deducted(t)'
<1>1. (IsSale(t)' <=> IsSale(t)) /\ LinesDone(t)' = LinesDone(t)
  BY DEF IsSale, LinesDone
<1>2. Deducted(t)'
  BY <1>1 DEF Deducted, TakenBy, BilledBy
<1>3. CASE pc[t] = "idle"
  <2>1. ~IsSale(t)
    BY <1>3 DEF LocalsFit, NoTx, IsSale
  <2> QED BY <1>1, <1>2, <2>1 DEF LineLeft
<1>4. CASE factor' = factor
  <2>1. ASSUME NEW k \in DOMAIN plan[t]
        PROVE  ItemFactor(plan[t][k])' = ItemFactor(plan[t][k])
    BY <1>4 DEF ItemFactor, Conversion
  <2> QED BY <1>1, <1>2, <1>4 DEF LineLeft, ItemFactor, Conversion
<1> QED BY <1>3, <1>4

\* A call that is over was the first of those that were left.
LEMMA Advanced ==
    ASSUME TypeOK, NEW s \in Sessions, Advance(s), plan[s] # <<>>, tx'[s].items = tx[s].items
    PROVE  /\ LinesDone(s)' = LinesDone(s) + 1 /\ LinesDone(s) \in Int
           /\ \A k \in DOMAIN plan'[s] : k \in Nat /\ k + 1 \in DOMAIN plan[s]
                                         /\ plan'[s][k] = plan[s][k + 1]
           /\ pc'[s] \in {"read", "commit"}
           /\ pc'[s] = "commit" => plan'[s] = <<>>
           /\ 1 \in DOMAIN plan[s] /\ plan[s][1] = Current(s)
<1>1. plan[s] \in Seq(Call) /\ plan'[s] = Tail(plan[s])
  BY DEF Advance, TypeOK
<1>2. /\ Tail(plan[s]) \in Seq(Call) /\ Len(Tail(plan[s])) = Len(plan[s]) - 1
      /\ \A k \in 1 .. Len(Tail(plan[s])) : Tail(plan[s])[k] = plan[s][k + 1]
  BY <1>1, HeadTailProperties
<1>3. /\ Len(plan[s]) \in Nat /\ DOMAIN plan[s] = 1 .. Len(plan[s])
      /\ DOMAIN Tail(plan[s]) = 1 .. Len(plan[s]) - 1
      /\ Len(plan[s]) > 0
  BY <1>1, <1>2, LenProperties, EmptySeq
<1>4. Len(tx[s].items) \in Nat
  BY LenProperties DEF TypeOK, Tx
<1>5. /\ LinesDone(s)' = LinesDone(s) + 1 /\ LinesDone(s) \in Int
  <2>1. LinesDone(s)' = Len(tx'[s].items) - Len(plan'[s])
    BY DEF LinesDone
  <2>2. Len(tx'[s].items) = Len(tx[s].items) /\ Len(plan'[s]) = Len(plan[s]) - 1
    BY <1>1, <1>2
  <2> QED BY <1>3, <1>4, <2>1, <2>2 DEF LinesDone
<1>6. \A k \in DOMAIN plan'[s] : k \in Nat /\ k + 1 \in DOMAIN plan[s]
                                 /\ plan'[s][k] = plan[s][k + 1]
  BY <1>1, <1>2, <1>3
<1>7. pc'[s] = IF Len(plan[s]) = 1 THEN "commit" ELSE "read"
  BY DEF Advance, Goto, TypeOK
<1>8. Len(plan[s]) = 1 => plan'[s] = <<>>
  <2>1. \A call \in Seq(Call) : call # <<>> => Len(call) \in Nat \ {0}
    BY EmptySeq
  <2>2. Len(plan[s]) = 1 => Len(plan'[s]) = 0
    BY <1>1, <1>2
  <2> QED BY <1>1, <1>2, <2>1, <2>2
<1>9. 1 \in DOMAIN plan[s] /\ plan[s][1] = Current(s)
  BY <1>1, <1>3 DEF Current
<1> QED BY <1>5, <1>6, <1>7, <1>8, <1>9

\* A checkout starts with every line before it; another request bills nothing.
LEMMA LinesStart ==
    ASSUME TypeOK, TypeOK', LocalsFit, NEW s \in Sessions, Start(s), factor' = factor
    PROVE  LineLeft(s)' /\ Deducted(s)'
<1>0. /\ pc[s] = "idle" /\ pc'[s] = "read" /\ tx'[s].moves = tx[s].moves
  BY Moving, Reading
<1>a. PICK op \in Operations : \E calls \in Plans(op) :
          /\ plan' = [plan EXCEPT ![s] = calls]
          /\ tx' = [tx EXCEPT ![s].items =
                       IF op = "checkout"
                       THEN [k \in DOMAIN calls |->
                                [p |-> calls[k].p, base |-> calls[k].n * ItemFactor(calls[k])]]
                       ELSE <<>>]
  BY DEF Start
<1>1. PICK calls \in Plans(op) :
          /\ plan' = [plan EXCEPT ![s] = calls]
          /\ tx' = [tx EXCEPT ![s].items =
                       IF op = "checkout"
                       THEN [k \in DOMAIN calls |->
                                [p |-> calls[k].p, base |-> calls[k].n * ItemFactor(calls[k])]]
                       ELSE <<>>]
  BY <1>a
<1> DEFINE rows == [k \in DOMAIN calls |->
                       [p |-> calls[k].p, base |-> calls[k].n * ItemFactor(calls[k])]]
<1>2. plan'[s] = calls /\ tx'[s].items = IF op = "checkout" THEN rows ELSE <<>>
  BY <1>1 DEF TypeOK, Tx
<1>3. calls \in Seq(Call) /\ Len(calls) \in Nat /\ DOMAIN calls = 1 .. Len(calls)
  BY PlansAreCalls, LenProperties
<1>4. Len(tx'[s].items) \in Nat /\ DOMAIN tx'[s].items = 1 .. Len(tx'[s].items)
  <2>1. tx'[s].items \in Seq(Item)
    BY DEF TypeOK, Tx
  <2> QED BY <2>1, LenProperties
<1>5. op # "checkout" => tx'[s].items = <<>> /\ Len(tx'[s].items) = 0
  BY <1>2, EmptySeq
<1>6. op = "checkout" => Len(tx'[s].items) = Len(calls)
  <2> SUFFICES ASSUME op = "checkout" PROVE Len(tx'[s].items) = Len(calls)
    OBVIOUS
  <2>1. DOMAIN tx'[s].items = 1 .. Len(calls)
    BY <1>2, <1>3
  <2> QED BY <1>3, <1>4, <2>1
<1>7. LinesDone(s)' = Len(tx'[s].items) - Len(calls)
  BY <1>2 DEF LinesDone
<1>8. Deducted(s)'
  <2>1. \A p \in Products : tx'[s].moves[p] = <<>>
    BY <1>0 DEF LocalsFit, NoTx
  <2>2. \A p \in Products : TakenBy(tx'[s].moves[p]) = 0
    <3>1. TakenBy(<<>>) = 0
      BY SumEmpty DEF TakenBy
    <3> QED BY <2>1, <3>1
  <2>3. LinesDone(s)' \in Int /\ LinesDone(s)' <= 0
    BY <1>3, <1>4, <1>5, <1>6, <1>7
  <2>4. \A p \in Products : BilledBy(tx'[s].items, p, LinesDone(s)') = 0
    BY <2>3, BilledNothing
  <2> QED BY <1>0, <2>2, <2>4 DEF Deducted
<1>9. LineLeft(s)'
  <2> SUFFICES ASSUME op = "checkout"
               PROVE  LineLeft(s)'
    BY <1>5 DEF LineLeft, IsSale
  <2>1. LinesDone(s)' = 0
    BY <1>3, <1>6, <1>7
  <2>2. \A k \in DOMAIN calls : calls[k].kind = "out"
    <3>1. calls \in CheckoutPlans
      BY DEF Plans
    <3>2. PICK o \in BOOLEAN : calls \in CheckoutLines(o)
      BY <3>1 DEF CheckoutPlans
    <3>3. PICK n \in 1 .. MaxItems : calls \in [1 .. n -> Lines("out", Units, {o})]
      BY <3>2 DEF CheckoutLines
    <3> QED BY <3>3 DEF Lines
  <2>3. ASSUME NEW k \in DOMAIN calls
        PROVE  tx'[s].items[LinesDone(s)' + k] =
                   [p |-> calls[k].p, base |-> calls[k].n * ItemFactor(calls[k])']
    <3>1. LinesDone(s)' + k = k
      BY <1>3, <2>1
    <3>2. ItemFactor(calls[k])' = ItemFactor(calls[k])
      BY DEF ItemFactor, Conversion
    <3>3. tx'[s].items[k] = [p |-> calls[k].p, base |-> calls[k].n * ItemFactor(calls[k])]
      BY <1>2
    <3> QED BY <3>1, <3>2, <3>3
  <2>4. ASSUME NEW k \in DOMAIN plan'[s]
        PROVE  /\ plan'[s][k].kind = "out"
               /\ tx'[s].items[LinesDone(s)' + k] =
                      [p |-> plan'[s][k].p, base |-> plan'[s][k].n * ItemFactor(plan[s][k])']
    BY <1>2, <2>2, <2>3 DEF ItemFactor, Conversion
  <2> QED BY <1>0, <2>1, <2>4 DEF LineLeft
<1> QED BY <1>8, <1>9

\* A call reads what its line deducts, and is logged with it.
LEMMA LinesCall ==
    ASSUME TypeOK, TypeOK', LocalsFit, NEW s \in Sessions, Read(s) \/ Write(s) \/ Log(s),
           factor' = factor, LineLeft(s), Deducted(s)
    PROVE  LineLeft(s)' /\ Deducted(s)'
<1> DEFINE it == tx[s].items
           d  == LinesDone(s)
           c  == Current(s)
<1>0. /\ pc[s] \in {"read", "write", "log"} /\ tx'[s].items = it
      /\ plan[s] \in Seq(Call) /\ plan[s] # <<>> /\ c \in Call /\ c.p \in Products
  BY CurrentTyped, Moving, CallKeeps
<1>1. /\ 1 \in DOMAIN plan[s] /\ plan[s][1] = c /\ Len(plan[s]) \in Nat
      /\ it \in Seq(Item) /\ Len(it) \in Nat /\ d \in Int /\ d < Len(it)
  <2>1. /\ Len(plan[s]) \in Nat /\ DOMAIN plan[s] = 1 .. Len(plan[s]) /\ Len(plan[s]) > 0
    BY <1>0, LenProperties, EmptySeq
  <2>2. it \in Seq(Item) /\ Len(it) \in Nat
    BY LenProperties DEF TypeOK, Tx
  <2>3. plan[s][1] = c
    BY <1>0 DEF Current
  <2>4. d = Len(it) - Len(plan[s])
    BY DEF LinesDone
  <2>5. 1 \in DOMAIN plan[s] /\ d \in Int /\ d < Len(it)
    <3> HIDE DEF it, d
    <3> QED BY <2>1, <2>2, <2>4
  <2> QED BY <2>1, <2>2, <2>3, <2>5
<1>2. IsSale(s)' <=> IsSale(s)
  BY <1>0 DEF IsSale
<1>3. IsSale(s) => /\ c.kind = "out" /\ d >= 0
                   /\ it[d + 1] = [p |-> c.p, base |-> c.n * ItemFactor(c)]
  BY <1>1 DEF LineLeft
<1>5. \A call : (IF Conversion(call.p, call.uom) = 0 THEN 1 ELSE Conversion(call.p, call.uom))' =
                ItemFactor(call)
  BY DEF ItemFactor, Conversion
<1>6. ~IsSale(s) => d <= 0
  BY <1>0, <1>1, EmptySeq DEF IsSale, LinesDone
<1>7. CASE Read(s)
  <2>1. /\ pc'[s] \in {"refuse", "log", "write"} /\ plan'[s] = plan[s]
        /\ tx'[s].moves = tx[s].moves /\ tx'[s].seen = Row(s, c.p).qty
        /\ tx'[s].new = Target(c, Row(s, c.p).qty) /\ Conversion(c.p, c.uom) # 0
    <3>1. pc'[s] \in {"refuse", "log", "write"}
      BY <1>7 DEF Read, Goto, TypeOK
    <3> QED BY <1>7, <3>1, Moving, Reading, CallKeeps DEF Read
  <2>2. LinesDone(s)' = d
    BY <1>0, <2>1 DEF LinesDone
  <2>3. Deducted(s)'
    BY <1>0, <2>1, <2>2 DEF Deducted, TakenBy, BilledBy
  <2>4. IsSale(s) => tx'[s].new = tx'[s].seen - it[d + 1].base
    BY <1>3, <2>1 DEF Target, ItemFactor
  <2>5. LineLeft(s)'
    BY <1>0, <1>2, <1>5, <2>1, <2>2, <2>4 DEF LineLeft, ItemFactor, Conversion
  <2> QED BY <2>3, <2>5
<1>8. CASE (Write(s) /\ c.kind # "adjust") \/ (Log(s) /\ c.kind = "adjust")
  <2>1. /\ pc'[s] \in {"log", "write"} /\ pc[s] \in {"log", "write"} /\ plan'[s] = plan[s]
        /\ tx'[s].seen = tx[s].seen /\ tx'[s].new = tx[s].new
    BY <1>8, Moving, Writing, Logging, CallKeeps
  <2>2. LinesDone(s)' = d
    BY <1>0, <2>1 DEF LinesDone
  <2>3. LineLeft(s)'
    BY <1>0, <1>2, <1>5, <2>1, <2>2 DEF LineLeft, ItemFactor, Conversion
  <2>4. ASSUME NEW p \in Products PROVE TakenBy(tx'[s].moves[p]) = TakenBy(tx[s].moves[p])
    <3>1. CASE Write(s)
      BY <3>1, Writing
    <3>2. CASE Log(s) /\ p # c.p
      BY <3>2, Logging
    <3>3. CASE Log(s) /\ p = c.p
      <4>1. PICK e \in Move : tx'[s].moves[p] = Append(tx[s].moves[p], e) /\ e.sale = IsSale(s)
        BY <3>3, CallKeeps
      <4>2. ~IsSale(s)
        BY <1>3, <1>8, <3>3, Moving
      <4>3. tx[s].moves[p] \in Seq(Move)
        BY DEF TypeOK, Tx
      <4>4. TakenBy(tx'[s].moves[p]) = TakenBy(tx[s].moves[p]) + 0
        BY <4>1, <4>2, <4>3, TakenAppended
      <4> QED BY <4>3, <4>4, TakenIsInt
    <3> QED BY <1>8, <3>1, <3>2, <3>3
  <2>5. Deducted(s)'
    BY <1>0, <2>1, <2>2, <2>4 DEF Deducted
  <2> QED BY <2>3, <2>5
<1>9. CASE (Write(s) /\ c.kind = "adjust") \/ (Log(s) /\ c.kind # "adjust")
  <2>1. Advance(s)
    BY <1>9 DEF Write, Log
  <2>2. /\ LinesDone(s)' = d + 1
        /\ \A k \in DOMAIN plan'[s] : k \in Nat /\ k + 1 \in DOMAIN plan[s]
                                      /\ plan'[s][k] = plan[s][k + 1]
        /\ pc'[s] \in {"read", "commit"} /\ (pc'[s] = "commit" => plan'[s] = <<>>)
    BY <1>0, <2>1, Advanced
  <2>3. LineLeft(s)'
    <3> SUFFICES ASSUME IsSale(s) PROVE LineLeft(s)'
      BY <1>2 DEF LineLeft
    <3>1. d + 1 >= 0
      BY <1>1, <1>3
    <3>2. ASSUME NEW k \in DOMAIN plan'[s]
          PROVE  /\ plan'[s][k].kind = "out"
                 /\ tx'[s].items[LinesDone(s)' + k] =
                        [p |-> plan'[s][k].p, base |-> plan'[s][k].n * ItemFactor(plan'[s][k])]
      <4>1. k + 1 \in DOMAIN plan[s] /\ plan'[s][k] = plan[s][k + 1] /\ k \in Nat
        BY <2>2
      <4>2. LinesDone(s)' + k = d + (k + 1)
        BY <1>1, <2>2, <4>1
      <4> QED BY <1>0, <4>1, <4>2 DEF LineLeft
    <3>3. ASSUME NEW k \in DOMAIN plan'[s]
          PROVE  /\ plan'[s][k].kind = "out"
                 /\ tx'[s].items[LinesDone(s)' + k] =
                        [p |-> plan'[s][k].p, base |-> plan'[s][k].n * ItemFactor(plan[s][k])']
      BY <1>5, <3>2 DEF ItemFactor, Conversion
    <3> QED BY <2>2, <3>1, <3>3 DEF LineLeft
  <2>4. ASSUME NEW p \in Products
        PROVE  TakenBy(tx'[s].moves[p]) = BilledBy(it, p, d + 1)
    <3>0. /\ TakenBy(tx[s].moves[p]) = BilledBy(it, p, d)
          /\ tx[s].moves[p] \in Seq(Move) /\ TakenBy(tx[s].moves[p]) \in Int
      BY TakenIsInt DEF Deducted, TypeOK, Tx
    <3>1. CASE IsSale(s)
      <4>1. Log(s) /\ pc[s] = "log"
        BY <1>3, <1>9, <3>1, Moving
      <4>2. tx[s].new = tx[s].seen - it[d + 1].base /\ it[d + 1].p = c.p /\ d \in Nat
        BY <1>1, <1>3, <3>1, <4>1 DEF LineLeft
      <4>3. it[d + 1].base \in Int /\ tx[s].seen \in Int /\ tx[s].new \in Int
        <5>1. d + 1 \in 1 .. Len(it)
          BY <1>1, <4>2
        <5>2. it[d + 1] \in Item
          BY <1>1, <5>1, ElementOfSeq
        <5> QED BY <5>2 DEF TypeOK, Tx, Item
      <4>4. BilledBy(it, p, d + 1) = BilledBy(it, p, d) + (IF c.p = p THEN it[d + 1].base ELSE 0)
        BY <1>1, <4>2, BilledNext
      <4>5. CASE p = c.p
        <5>1. PICK e \in Move : /\ tx'[s].moves[p] = Append(tx[s].moves[p], e)
                                /\ e.prev = tx[s].seen /\ e.new = tx[s].new /\ e.sale = IsSale(s)
          BY <4>1, <4>5, CallKeeps
        <5>2. TakenBy(tx'[s].moves[p]) = TakenBy(tx[s].moves[p]) + (tx[s].seen - tx[s].new)
          BY <3>0, <3>1, <5>1, TakenAppended
        <5>3. tx[s].seen - tx[s].new = it[d + 1].base
          BY <4>2, <4>3
        <5> QED BY <3>0, <4>4, <4>5, <5>2, <5>3
      <4>6. CASE p # c.p
        BY <3>0, <4>1, <4>4, <4>6, Logging
      <4> QED BY <4>5, <4>6
    <3>2. CASE ~IsSale(s)
      <4>1. BilledBy(it, p, d) = 0 /\ BilledBy(it, p, d + 1) = 0
        <5>1. it = <<>> /\ Len(it) = 0
          BY <3>2, EmptySeq DEF IsSale
        <5>2. d < 0
          BY <1>1, <5>1
        <5> QED BY <1>1, <5>2, BilledNothing
      <4>2. TakenBy(tx'[s].moves[p]) = TakenBy(tx[s].moves[p])
        <5>1. CASE Write(s)
          BY <5>1, Writing
        <5>2. CASE Log(s) /\ p # c.p
          BY <5>2, Logging
        <5>3. CASE Log(s) /\ p = c.p
          <6>1. PICK e \in Move : tx'[s].moves[p] = Append(tx[s].moves[p], e) /\ e.sale = IsSale(s)
            BY <5>3, CallKeeps
          <6>2. TakenBy(tx'[s].moves[p]) = TakenBy(tx[s].moves[p]) + 0
            BY <3>0, <3>2, <6>1, TakenAppended
          <6> QED BY <3>0, <6>2
        <5> QED BY <1>9, <5>1, <5>2, <5>3
      <4> QED BY <3>0, <4>1, <4>2
    <3> QED BY <3>1, <3>2
  <2>5. Deducted(s)'
    BY <1>0, <2>2, <2>4 DEF Deducted
  <2> QED BY <2>3, <2>5
<1> QED BY <1>7, <1>8, <1>9

\* A session that has ended has no line and no movement left.
LEMMA LinesEnd ==
    ASSUME TypeOK, NEW s \in Sessions, Finish(s)
    PROVE  LineLeft(s)' /\ Deducted(s)'
<1>1. pc'[s] = "idle" /\ tx'[s] = NoTx /\ plan'[s] = <<>>
  BY Finished DEF Finish, TypeOK
<1>2. tx'[s].items = <<>> /\ \A p \in Products : tx'[s].moves[p] = <<>>
  BY <1>1 DEF NoTx
<1>3. LinesDone(s)' = 0
  <2>1. LinesDone(s)' = Len(<<>>) - Len(<<>>)
    BY <1>1, <1>2 DEF LinesDone
  <2> QED BY <2>1
<1>4. TakenBy(<<>>) = 0
  BY SumEmpty DEF TakenBy
<1>5. \A p \in Products : BilledBy(tx'[s].items, p, 0) = 0
  BY BilledNothing
<1> QED BY <1>1, <1>2, <1>3, <1>4, <1>5 DEF LineLeft, Deducted, IsSale

LEMMA SaleStep == IInv /\ IInv' /\ SaleInv /\ [QuietNext]_vars => SaleInv'
<1> SUFFICES ASSUME IInv, IInv', SaleInv, [QuietNext]_vars PROVE SaleInv'
  OBVIOUS
<1>0. /\ TypeOK /\ TypeOK' /\ LocalsFit /\ SoldIsDeducted
      /\ \A t \in Sessions : LineLeft(t) /\ Deducted(t)
  BY DEF IInv, SaleInv, LinesLeft, LineLeft, DeductedSoFar, Deducted
<1> SUFFICES SoldIsDeducted' /\ \A t \in Sessions : LineLeft(t)' /\ Deducted(t)'
  <2>1. \A t \in Sessions : LineLeft(t)'
    OBVIOUS
  <2>2. LinesLeft'
    BY <2>1 DEF LinesLeft, LineLeft
  <2>3. DeductedSoFar'
    BY DEF DeductedSoFar, Deducted
  <2> QED BY <2>2, <2>3 DEF SaleInv
<1>1. CASE /\ UNCHANGED <<pc, plan, tx, moves, items>>
           /\ factor' = factor \/ \A s \in Sessions : pc[s] = "idle"
  <2>1. SoldIsDeducted'
    BY <1>0, <1>1 DEF SoldIsDeducted, TakenBy, BilledBy
  <2>2. \A t \in Sessions : LineLeft(t)' /\ Deducted(t)'
    BY <1>0, <1>1, KeptLines
  <2> QED BY <2>1, <2>2
<1>2. ASSUME NEW s \in Sessions, factor' = factor, AtWork(s) \/ (Drop(s) /\ items' = items)
      PROVE  SoldIsDeducted' /\ \A t \in Sessions : LineLeft(t)' /\ Deducted(t)'
  <2>1. Step(s)
    BY <1>2 DEF AtWork, Step
  <2>2. \A t \in Sessions \ {s} : LineLeft(t)' /\ Deducted(t)'
    BY <1>0, <1>2, <2>1, OthersKept, KeptLines
  <2>3. LineLeft(s)' /\ Deducted(s)'
    <3>1. CASE Start(s)
      BY <1>0, <1>2, <3>1, LinesStart
    <3>2. CASE Read(s) \/ Write(s) \/ Log(s)
      BY <1>0, <1>2, <3>2, LinesCall
    <3>3. CASE Finish(s)
      BY <1>0, <3>3, LinesEnd
    <3> QED BY <1>2, <3>1, <3>2, <3>3 DEF AtWork, Commit, Drop
  <2>4. SoldIsDeducted'
    <3>1. CASE Commit(s)
      <4> SUFFICES ASSUME NEW p \in Products
                   PROVE  BilledBy(items', p, Len(items')) = TakenBy(moves'[p])
        BY DEF SoldIsDeducted
      <4>1. /\ moves'[p] = moves[p] \o tx[s].moves[p] /\ items' = items \o tx[s].items
            /\ moves[p] \in Seq(Move) /\ tx[s].moves[p] \in Seq(Move)
            /\ items \in Seq(Item) /\ tx[s].items \in Seq(Item) /\ pc[s] = "commit"
        BY <1>0, <3>1 DEF Commit, TypeOK, Tx
      <4>2. LinesDone(s) = Len(tx[s].items)
        <5>1. plan[s] = <<>>
          BY <1>0, <4>1 DEF Deducted
        <5>2. Len(plan[s]) = 0 /\ Len(tx[s].items) \in Nat
          BY <4>1, <5>1, EmptySeq, LenProperties
        <5> QED BY <5>2 DEF LinesDone
      <4>3. /\ TakenBy(tx[s].moves[p]) = BilledBy(tx[s].items, p, Len(tx[s].items))
            /\ BilledBy(items, p, Len(items)) = TakenBy(moves[p])
        BY <1>0, <4>2 DEF Deducted, SoldIsDeducted
      <4>4. TakenBy(moves'[p]) = TakenBy(moves[p]) + TakenBy(tx[s].moves[p])
        BY <4>1, TakenJoined
      <4>5. BilledBy(items', p, Len(items')) =
                BilledBy(items, p, Len(items)) + BilledBy(tx[s].items, p, Len(tx[s].items))
        BY <4>1, BilledJoined
      <4> QED BY <4>3, <4>4, <4>5
    <3>2. CASE ~Commit(s)
      <4>1. moves' = moves /\ items' = items
        BY <1>2, <3>2 DEF AtWork, Start, Read, Write, Log, Drop, ledger
      <4> QED BY <1>0, <4>1 DEF SoldIsDeducted, TakenBy, BilledBy
    <3> QED BY <3>1, <3>2
  <2> QED BY <2>2, <2>3, <2>4
<1> QED BY <1>1, <1>2, QuietCases

LEMMA InitSale == Init => SaleInv
<1> SUFFICES ASSUME Init PROVE SaleInv
  OBVIOUS
<1>1. TakenBy(<<>>) = 0 /\ \A rows, p : BilledBy(rows, p, 0) = 0
  BY SumEmpty, BilledNothing DEF TakenBy
<1>2. Len(<<>>) = 0
  OBVIOUS
<1>3. \A s \in Sessions : tx[s].items = <<>> /\ plan[s] = <<>> /\ LinesDone(s) = 0
                          /\ \A p \in Products : tx[s].moves[p] = <<>>
  BY <1>2 DEF Init, NoTx, LinesDone
<1>4. LinesLeft
  BY <1>3 DEF LinesLeft, IsSale
<1>5. DeductedSoFar
  BY <1>1, <1>3 DEF DeductedSoFar
<1>6. SoldIsDeducted
  BY <1>1, <1>2 DEF Init, SoldIsDeducted
<1> QED BY <1>4, <1>5, <1>6 DEF SaleInv

\* As long as products are edited between requests, the invoices bill what the
\* movements of sales took, in every interleaving of the requests themselves.
THEOREM SoldAlwaysDeducted == QuietSpec => []SoldIsDeducted
<1>1. Init /\ [][QuietNext]_vars => Spec
  BY QuietIsNext, PTL DEF Spec
<1>2. IInv /\ IInv' /\ SaleInv /\ [QuietNext]_vars => SaleInv'
  BY SaleStep
<1>3. SaleInv => SoldIsDeducted
  BY DEF SaleInv
<1> QED BY <1>1, <1>2, <1>3, InitSale, Inductive, PTL DEF QuietSpec
=============================================================================
