-------------------------- MODULE ProcurementProofs --------------------------
(***************************************************************************)
(* Proofs about Procurement, for any orders, products, lines and sessions.  *)
(*                                                                          *)
(* None of the invariants is inductive alone: what a commit installs was     *)
(* read and computed statements before.  IInv says what a request knows at   *)
(* each step: JobsFit which order it works on, StockFits what it has read    *)
(* and written of the stock of products it has locked, PastFits what it      *)
(* knows of the deliveries of its order, and AloneFits that without overlap  *)
(* all it has read of the order is still so.                                *)
(***************************************************************************)
EXTENDS Procurement, SumTheorems, TLAPS

Delivering == {"products", "reprice", "read", "write", "status", "commit"}

JobsFit ==
    \A s \in Sessions :
        /\ pc[s] = "idle" => job[s] = NoJob /\ tx[s] = NoTx
        /\ pc[s] # "idle" => job[s].order \in Orders /\ order[job[s].order].status # "NONE"
        /\ pc[s] \in Delivering => Items(job[s].items) # {}

\* A product of the delivery of s that it has finished with.
Done(s, p) ==
    /\ p \in Items(job[s].items) \ tx[s].left
    /\ ~(pc[s] \in {"read", "write"} /\ p \in tx[s].at)

StockFits ==
    \A s \in Sessions :
        /\ pc[s] \in {"reprice", "read", "write", "status", "commit"} => \A p \in Products :
              /\ p \in tx[s].at /\ pc[s] \in {"read", "write"} => stockLock[p] = s
              /\ p \in tx[s].at /\ pc[s] = "write" => tx[s].read = quantity[p]
              /\ Done(s, p) => /\ stockLock[p] = s
                               /\ tx[s].newQty[p] = quantity[p] + job[s].items[p]
        /\ pc[s] = "products" => tx[s].left = Items(job[s].items)
        /\ pc[s] \in {"read", "write"} => \E p \in Products : tx[s].at = {p}
        /\ pc[s] \in {"status", "commit"} => tx[s].left = {}

PastFits ==
    \A s \in Sessions :
        /\ pc[s] \in Delivering =>
              \A p \in Products : tx[s].past[p] <= received[job[s].order][p]
        /\ pc[s] = "commit" =>
              tx[s].status = IF Reached(s) THEN "FULFILLED" ELSE "PARTIALLY_FULFILLED"

AloneFits ==
    \A s \in Sessions : LET o == job[s].order IN
        pc[s] # "idle" /\ o \notin overlapped =>
            /\ \A t \in Sessions \ {s} : job[t].order # o
            /\ ~Immutable(o)
            /\ pc[s] \in Delivering => tx[s].past = received[o]
            /\ pc[s] = "update" /\ job[s].status = "CANCELLED" => ~HasDeliveries(o)

\* No order, no deliveries.
NothingReceived == \A o \in Orders : order[o].status = "NONE" => received[o] = Zero

\* What a unit of the order of s may come to, and that v is no less than something in S
\* and no more than something in it.
UnitPrices(s, p) == Rounded(order[job[s].order].unitCost[p], order[job[s].order].factor[p])
Between(S, v) == (\E x \in S : x <= v) /\ (\E x \in S : v <= x)

\* A cost a delivery has read, however long ago, is between costs that were paid, and so
\* is the one it writes, with what it is about to pay.
CostsFit ==
    /\ \A p \in Products : IsFiniteSet(paid[p]) /\ Between(paid[p], cost[p])
    /\ \A s \in Sessions : pc[s] \in Delivering \ {"products"} => \A p \in Products :
          /\ Between(paid[p], tx[s].cost[p])
          /\ p \in Items(job[s].items) \ tx[s].left =>
                Between(paid[p] \cup UnitPrices(s, p), tx[s].newCost[p])

IInv ==
    /\ TypeOK /\ JobsFit /\ StockFits /\ PastFits /\ AloneFits /\ NothingReceived /\ CostsFit
    /\ StockedAsReceived /\ FulfilledIsReceived /\ StatusTellsDeliveries

-----------------------------------------------------------------------------
LEMMA RoundedNat ==
    ASSUME NEW n \in Nat, NEW d \in Nat \ {0}
    PROVE  /\ RoundedDown(n, d) \in Nat /\ RoundedUp(n, d) \in Nat
           /\ Rounded(n, d) \subseteq Nat
<1>1. ASSUME NEW x \in Nat, NEW y \in Nat \ {0} PROVE x \div y \in Nat
  BY <1>1
<1>2. 2 * n + d - 1 \in Nat /\ 2 * n + d \in Nat /\ 2 * d \in Nat \ {0}
  OBVIOUS
<1> QED BY <1>1, <1>2 DEF Rounded, RoundedDown, RoundedUp

LEMMA TimesNat == \A a, b \in Nat : a * b \in Nat
  OBVIOUS
LEMMA TimesPositive == \A a, b \in Nat \ {0} : a * b \in Nat \ {0}
  OBVIOUS

\* An average of natural costs is one, whatever the stock.
LEMMA WeightedNat ==
    ASSUME NEW q \in Int, NEW c \in Nat, NEW r \in Nat, NEW u \in Nat, NEW f \in Nat \ {0}
    PROVE  Weighted(q, c, r, u, f) \subseteq Nat
<1>1. CASE q > 0
  <2>1. q * c * f + r * u \in Nat
    <3>1. q * c \in Nat /\ r * u \in Nat
      BY <1>1, TimesNat
    <3>2. q * c * f \in Nat
      BY <3>1, TimesNat
    <3> QED BY <3>1, <3>2
  <2>2. f * (q + r) \in Nat \ {0}
    <3>1. q + r \in Nat \ {0}
      BY <1>1
    <3> QED BY <3>1, TimesPositive
  <2> QED BY <1>1, <2>1, <2>2, RoundedNat DEF Weighted
<1>2. CASE ~(q > 0)
  BY <1>2, RoundedNat DEF Weighted
<1> QED BY <1>1, <1>2

\* What division rounds down to.
LEMMA Quotient ==
    ASSUME NEW x \in Nat, NEW y \in Nat \ {0}
    PROVE  /\ x \div y \in Nat
           /\ y * (x \div y) <= x
           /\ x < y * (x \div y + 1)
<1> DEFINE q == x \div y
           m == x % y
<1>1. q \in Nat /\ m \in Nat /\ m < y /\ x = y * q + m
  OBVIOUS
<1>2. y * (q + 1) = y * q + y /\ y * q \in Nat
  BY <1>1
<1> HIDE DEF q, m
<1>3. y * q <= x /\ x < y * (q + 1)
  BY <1>1, <1>2
<1> QED BY <1>1, <1>3 DEF q

LEMMA Scaled ==
    ASSUME NEW a \in Nat, NEW b \in Nat, NEW d \in Nat, a <= b
    PROVE  d * a <= d * b
OBVIOUS

LEMMA ScaledStrictly ==
    ASSUME NEW a \in Nat, NEW b \in Nat, NEW d \in Nat \ {0}, d * a < d * (b + 1)
    PROVE  a <= b
<1> SUFFICES ASSUME b + 1 <= a
             PROVE  FALSE
  OBVIOUS
<1>1. d * (b + 1) <= d * a
  BY Scaled
<1>2. d * (b + 1) \in Nat /\ d * a \in Nat
  OBVIOUS
<1> QED BY <1>1, <1>2

\* The rounded average of q units at c and r at u for f lies between c and what a unit
\* of the latter comes to, rounded.
LEMMA AverageWithin ==
    ASSUME NEW q \in Nat \ {0}, NEW c \in Nat, NEW r \in Nat, NEW u \in Nat, NEW f \in Nat \ {0},
           NEW lo \in Nat, NEW hi \in Nat,
           lo <= c, c <= hi, lo <= RoundedDown(u, f), RoundedUp(u, f) <= hi
    PROVE  \A w \in Rounded(q * c * f + r * u, f * (q + r)) : lo <= w /\ w <= hi
<1> DEFINE N == q * c * f + r * u
           D == f * (q + r)
           V == RoundedDown(N, D)
           W == RoundedUp(N, D)
           l == RoundedDown(u, f)
           v == RoundedUp(u, f)
           A == q * f
           B == A * (2 * c + 1)
           C == r * (2 * u + f)
           X == 2 * N + D
<1>1. A \in Nat \ {0} /\ D \in Nat \ {0} /\ N \in Nat /\ X \in Nat /\ B \in Nat /\ C \in Nat
  <2>1. A \in Nat \ {0}
    BY TimesPositive
  <2>2. q + r \in Nat \ {0}
    OBVIOUS
  <2>3. D \in Nat \ {0}
    BY <2>2, TimesPositive
  <2>4. q * c \in Nat /\ r * u \in Nat
    BY TimesNat
  <2>5. N \in Nat
    BY <2>4, TimesNat
  <2>6. 2 * c + 1 \in Nat /\ 2 * u + f \in Nat
    OBVIOUS
  <2>7. B \in Nat /\ C \in Nat
    BY <2>1, <2>6, TimesNat
  <2> HIDE DEF N, D
  <2> QED BY <2>1, <2>3, <2>5, <2>7
<1>2. X = B + C
  OBVIOUS
<1>3. W \in Nat /\ (2 * D) * W <= X /\ X < (2 * D) * (W + 1)
  <2>1. X \in Nat /\ 2 * D \in Nat \ {0}
    BY <1>1
  <2> HIDE DEF X
  <2>2. X \div (2 * D) \in Nat /\ (2 * D) * (X \div (2 * D)) <= X /\ X < (2 * D) * (X \div (2 * D) + 1)
    BY <2>1, Quotient
  <2> QED BY <2>2 DEF RoundedUp, X
<1>a. V \in Nat /\ (2 * D) * V <= X - 1 /\ X - 1 < (2 * D) * (V + 1)
  <2>1. X - 1 \in Nat /\ 2 * D \in Nat \ {0}
    <3> HIDE DEF N, D
    <3> QED BY <1>1
  <2> HIDE DEF X
  <2>2. /\ (X - 1) \div (2 * D) \in Nat
        /\ (2 * D) * ((X - 1) \div (2 * D)) <= X - 1
        /\ X - 1 < (2 * D) * ((X - 1) \div (2 * D) + 1)
    BY <2>1, Quotient
  <2> QED BY <2>2 DEF RoundedDown, X
<1>4. v \in Nat /\ (2 * f) * v <= 2 * u + f /\ 2 * u + f < (2 * f) * (v + 1)
  <2>1. 2 * u + f \in Nat /\ 2 * f \in Nat \ {0}
    OBVIOUS
  <2> QED BY <2>1, Quotient DEF RoundedUp
<1>b. l \in Nat /\ (2 * f) * l <= 2 * u + f - 1
  <2>1. 2 * u + f - 1 \in Nat /\ 2 * f \in Nat \ {0}
    OBVIOUS
  <2> QED BY <2>1, Quotient DEF RoundedDown
<1>5. (2 * D) * lo < X
  <2>1. A * (2 * lo) < B
    <3>1. A * (2 * lo) <= A * (2 * c)
      <4>1. 2 * lo <= 2 * c
        OBVIOUS
      <4> HIDE DEF A
      <4> QED BY <1>1, <4>1, Scaled
    <3>2. A * (2 * c + 1) = A * (2 * c) + A
      <4> HIDE DEF A
      <4> QED BY <1>1
    <3>3. A * (2 * lo) \in Nat /\ A * (2 * c) \in Nat
      BY <1>1, TimesNat
    <3> HIDE DEF A
    <3> QED BY <1>1, <3>1, <3>2, <3>3
  <2>2. (2 * f) * lo <= 2 * u + f
    <3>1. (2 * f) * lo <= (2 * f) * l
      BY <1>b, Scaled
    <3>2. (2 * f) * lo \in Nat /\ (2 * f) * l \in Nat
      BY <1>b, TimesNat
    <3> HIDE DEF l
    <3> QED BY <1>b, <3>1, <3>2
  <2>3. r * ((2 * f) * lo) <= C
    <3>1. (2 * f) * lo \in Nat /\ 2 * u + f \in Nat
      BY TimesNat
    <3> QED BY <2>2, <3>1, Scaled
  <2>4. (2 * D) * lo = A * (2 * lo) + r * ((2 * f) * lo)
    OBVIOUS
  <2>5. A * (2 * lo) \in Nat /\ r * ((2 * f) * lo) \in Nat
    BY <1>1, TimesNat
  <2> HIDE DEF A, B, C, D, X
  <2> QED BY <1>1, <1>2, <2>1, <2>3, <2>4, <2>5
<1>6. X < (2 * D) * (hi + 1)
  <2>1. B < A * (2 * (hi + 1))
    <3>1. A * (2 * c + 1) <= A * (2 * hi + 1)
      <4>1. 2 * c + 1 <= 2 * hi + 1
        OBVIOUS
      <4> HIDE DEF A
      <4> QED BY <1>1, <4>1, Scaled
    <3>2. A * (2 * (hi + 1)) = A * (2 * hi + 1) + A
      <4> HIDE DEF A
      <4> QED BY <1>1
    <3>3. A * (2 * hi + 1) \in Nat
      BY <1>1, TimesNat
    <3> HIDE DEF A
    <3> QED BY <1>1, <3>1, <3>2, <3>3
  <2>2. 2 * u + f <= (2 * f) * (hi + 1)
    <3>1. (2 * f) * (v + 1) <= (2 * f) * (hi + 1)
      BY <1>4, Scaled
    <3>2. (2 * f) * (v + 1) \in Nat /\ (2 * f) * (hi + 1) \in Nat
      BY <1>4, TimesNat
    <3> HIDE DEF v
    <3> QED BY <1>4, <3>1, <3>2
  <2>3. C <= r * ((2 * f) * (hi + 1))
    <3>1. (2 * f) * (hi + 1) \in Nat /\ 2 * u + f \in Nat
      BY TimesNat
    <3> QED BY <2>2, <3>1, Scaled
  <2>4. (2 * D) * (hi + 1) = A * (2 * (hi + 1)) + r * ((2 * f) * (hi + 1))
    OBVIOUS
  <2>5. A * (2 * (hi + 1)) \in Nat /\ r * ((2 * f) * (hi + 1)) \in Nat
    BY <1>1, TimesNat
  <2> HIDE DEF A, B, C, D, X
  <2> QED BY <1>1, <1>2, <2>1, <2>3, <2>4, <2>5
<1>7. 2 * D \in Nat \ {0} /\ (2 * D) * lo \in Nat /\ (2 * D) * W \in Nat /\ (2 * D) * (hi + 1) \in Nat
      /\ (2 * D) * (W + 1) \in Nat /\ (2 * D) * V \in Nat /\ (2 * D) * (V + 1) \in Nat
  <2> HIDE DEF D, V, W
  <2> QED BY <1>1, <1>3, <1>a, TimesNat
<1> HIDE DEF X, D, V, W
<1>8. /\ (2 * D) * lo < (2 * D) * (V + 1)
      /\ (2 * D) * V < (2 * D) * (W + 1)
      /\ (2 * D) * W < (2 * D) * (hi + 1)
  BY <1>1, <1>3, <1>a, <1>5, <1>6, <1>7
<1>9. lo <= V /\ V <= W /\ W <= hi
  BY <1>3, <1>a, <1>7, <1>8, ScaledStrictly
<1> QED BY <1>3, <1>a, <1>9 DEF V, W, D, Rounded

LEMMA BetweenGrows ==
    ASSUME NEW S, NEW T, S \subseteq T, NEW v, Between(S, v)
    PROVE  Between(T, v)
BY DEF Between

\* An average is between what it is an average of.
LEMMA WeightedBetween ==
    ASSUME NEW q \in Int, NEW c \in Nat, NEW r \in Nat \ {0}, NEW u \in Nat, NEW f \in Nat \ {0},
           NEW S \in SUBSET Nat, Between(S, c)
    PROVE  \A w \in Weighted(q, c, r, u, f) : Between(S \cup Rounded(u, f), w)
<1> DEFINE V == Rounded(u, f)
           d == RoundedDown(u, f)
           v == RoundedUp(u, f)
<1> SUFFICES ASSUME NEW w \in Weighted(q, c, r, u, f) PROVE Between(S \cup V, w)
  OBVIOUS
<1>0. d \in Nat /\ v \in Nat /\ V \subseteq Nat /\ V = {d, v}
  BY RoundedNat DEF Rounded
<1> HIDE DEF V, d, v
<1>1. CASE q > 0
  <2>1. q \in Nat \ {0} /\ w \in Rounded(q * c * f + r * u, f * (q + r))
    BY <1>1 DEF Weighted
  <2>2. PICK l \in S, h \in S : l <= c /\ c <= h
    BY DEF Between
  <2>3. \A a, b \in Nat : a <= b \/ b <= a
    OBVIOUS
  <2>4. PICK lo \in S \cup V : lo <= c /\ lo <= d
    BY <1>0, <2>2, <2>3
  <2>5. PICK hi \in S \cup V : c <= hi /\ v <= hi
    BY <1>0, <2>2, <2>3
  <2>6. lo \in Nat /\ hi \in Nat
    BY <1>0
  <2>7. lo <= w /\ w <= hi
    <3>1. lo <= RoundedDown(u, f) /\ RoundedUp(u, f) <= hi
      BY <2>4, <2>5 DEF d, v
    <3>2. \A x \in Rounded(q * c * f + r * u, f * (q + r)) : lo <= x /\ x <= hi
      BY <2>1, <2>4, <2>5, <2>6, <3>1, AverageWithin, ZenonT(30)
    <3> QED BY <2>1, <3>2, Zenon
  <2> QED BY <2>4, <2>5, <2>7 DEF Between
<1>2. CASE ~(q > 0)
  <2>1. w \in V
    BY <1>2 DEF Weighted, V
  <2>2. w <= w
    BY <1>0, <2>1
  <2> QED BY <2>1, <2>2 DEF Between
<1> QED BY <1>1, <1>2

LEMMA Nothing ==
    /\ NoJob \in Job /\ NoTx \in Tx /\ NoOrder \in OrderRow
    /\ Zero \in [Products -> Nat] /\ Items(Zero) = {} /\ Nobody \notin Sessions \cup Orders
  BY NobodyIsNew DEF NoJob, Job, NoTx, Tx, Zero, NoOrder, OrderRow, Statuses, Items

LEMMA StatusesOk == Terminal \cup Receivable \subseteq Statuses /\ "NONE" \notin Statuses
  BY DEF Terminal, Receivable, Statuses

\* Only Zero has no items.
LEMMA ZeroItems == \A f \in [Products -> Nat] : Items(f) = {} => f = Zero
<1> SUFFICES ASSUME NEW f \in [Products -> Nat], Items(f) = {} PROVE f = Zero
  OBVIOUS
<1>1. \A p \in Products : f[p] = 0
  BY DEF Items
<1> QED BY <1>1 DEF Zero

\* The steps of session s.
Start(s) == StartDelivery(s) \/ StartUpdate(s)
Reading(s) == ReadProducts(s) \/ ReadStock(s)
Locking(s) == Reprice(s) \/ WriteStock(s) \/ SetStatus(s)
Commit(s) == CommitDelivery(s) \/ Update(s)
Step(s) == Start(s) \/ Reading(s) \/ Locking(s) \/ Commit(s) \/ Abort(s)

LEMMA StepCases == [Next]_vars => Create \/ (\E s \in Sessions : Step(s)) \/ UNCHANGED vars
  BY DEF Next, Step, Start, Reading, Locking, Commit

LEMMA FinishTyped ==
    ASSUME TypeOK, NEW s \in Sessions, Finish(s)
    PROVE  /\ pc' \in [Sessions -> Steps] /\ job' \in [Sessions -> Job] /\ tx' \in [Sessions -> Tx]
           /\ orderLock' \in [Orders -> Sessions \cup {Nobody}]
           /\ stockLock' \in [Products -> Sessions \cup {Nobody}]
  BY Nothing DEF TypeOK, Finish, Goto, Steps

-----------------------------------------------------------------------------
\* Each way a step changes the locals of its request, or an order, keeps their type.
LEMMA PastTyped ==
    ASSUME NEW t \in Tx, NEW past \in [Products -> Nat], NEW left \in SUBSET Products
    PROVE  [t EXCEPT !.past = past, !.left = left] \in Tx
  BY DEF Tx
LEMMA SeenTyped ==
    ASSUME NEW t \in Tx, NEW q \in [Products -> Int], NEW c \in [Products -> Nat]
    PROVE  [t EXCEPT !.qty = q, !.cost = c] \in Tx
  BY DEF Tx
LEMMA RepricedTyped ==
    ASSUME NEW t \in Tx, NEW p \in Products, NEW c \in Nat
    PROVE  [t EXCEPT !.newCost[p] = c, !.at = {p}, !.left = @ \ {p}] \in Tx
  BY DEF Tx
LEMMA ReadTyped ==
    ASSUME NEW t \in Tx, NEW n \in Int
    PROVE  [t EXCEPT !.read = n] \in Tx
  BY DEF Tx
LEMMA WrittenTyped ==
    ASSUME NEW t \in Tx, NEW p, NEW n \in Int
    PROVE  [t EXCEPT !.newQty[p] = n] \in Tx
  BY DEF Tx
LEMMA StatusTyped ==
    ASSUME NEW status \in Statuses
    PROVE  /\ \A t \in Tx : [t EXCEPT !.status = status] \in Tx
           /\ \A row \in OrderRow : [row EXCEPT !.status = status] \in OrderRow
<1>1. \A t \in Tx : [t EXCEPT !.status = status] \in Tx
  BY DEF Tx
<1>2. \A row \in OrderRow : [row EXCEPT !.status = status] \in OrderRow
  BY DEF OrderRow
<1> QED BY <1>1, <1>2
LEMMA ItemsTyped == \A items \in [Products -> Amounts \cup {0}] : items \in [Products -> Nat]
<1>1. \A n \in Amounts \cup {0} : n \in Nat
  BY AmountsPositive
<1> QED BY <1>1
\* The locals of a request are typed.
LEMMA LocalsTyped ==
    ASSUME TypeOK, NEW s \in Sessions
    PROVE  /\ tx[s] \in Tx /\ job[s] \in Job
           /\ tx[s].left \subseteq Products /\ tx[s].at \subseteq Products
           /\ tx[s].status \in Statuses /\ job[s].status \in Statuses
           /\ tx[s].read \in Int /\ job[s].items \in [Products -> Nat]
           /\ tx[s].past \in [Products -> Nat] /\ tx[s].newQty \in [Products -> Int]
           /\ tx[s].qty \in [Products -> Int] /\ tx[s].cost \in [Products -> Nat]
           /\ tx[s].newCost \in [Products -> Nat]
<1>1. tx[s] \in Tx /\ job[s] \in Job
  BY DEF TypeOK
<1> QED BY <1>1 DEF Tx, Job

-----------------------------------------------------------------------------
LEMMA CreatedTyped ==
    ASSUME TypeOK, NEW lines \in [Products -> Lines \cup {NoLine}]
    PROVE  [status |-> "PENDING",
            expected |-> [p \in Products |-> Expected(lines[p])],
            factor   |-> [p \in Products |-> lines[p].factor],
            unitCost |-> [p \in Products |-> UnitCost(lines[p], p)]] \in OrderRow
<1>1. \A p \in Products : /\ lines[p].quantity \in Nat /\ lines[p].factor \in Nat \ {0}
                          /\ lines[p].cost \in Nat
  <2> SUFFICES ASSUME NEW p \in Products
               PROVE  /\ lines[p].quantity \in Nat /\ lines[p].factor \in Nat \ {0}
                      /\ lines[p].cost \in Nat
    OBVIOUS
  <2>1. CASE lines[p] \in Lines
    BY <2>1, LinesTyped DEF Line
  <2>2. CASE lines[p] = NoLine
    BY <2>2 DEF NoLine
  <2> QED BY <2>1, <2>2
<1>2. \A p \in Products : Expected(lines[p]) \in Nat
  BY <1>1, TimesNat DEF Expected
<1>3. \A p \in Products : UnitCost(lines[p], p) \in Nat
  <2>1. \A p \in Products : cost[p] * lines[p].factor \in Nat
    BY <1>1, TimesNat DEF TypeOK
  <2> QED BY <1>1, <2>1 DEF UnitCost
<1> QED BY <1>1, <1>2, <1>3 DEF OrderRow, Statuses

LEMMA InitIInv == Init => IInv
<1> SUFFICES ASSUME Init PROVE IInv
  OBVIOUS
<1>1. TypeOK
  <2>1. quantity \in [Products -> Int] /\ cost \in [Products -> Nat]
    BY OpeningsAreIntegers, PricesNatural DEF Init
  <2>2. paid \in [Products -> SUBSET Nat]
    BY <2>1 DEF Init
  <2> QED BY <2>1, <2>2, Nothing DEF Init, TypeOK, Steps
<1>2. JobsFit /\ StockFits /\ PastFits /\ AloneFits
  BY DEF Init, JobsFit, StockFits, PastFits, AloneFits, Delivering
<1>3. NothingReceived /\ FulfilledIsReceived /\ StatusTellsDeliveries
  BY DEF Init, NothingReceived, FulfilledIsReceived, StatusTellsDeliveries, NoOrder
<1>4. StockedAsReceived
  BY <1>1 DEF Init, StockedAsReceived, Zero, TypeOK
<1>5. CostsFit
  <2>1. ASSUME NEW p \in Products PROVE IsFiniteSet(paid[p]) /\ Between(paid[p], cost[p])
    <3>1. paid[p] = {cost[p]} /\ cost[p] <= cost[p]
      BY <1>1 DEF Init, TypeOK
    <3> QED BY <3>1, FS_Singleton DEF Between
  <2> QED BY <2>1 DEF Init, CostsFit, Delivering
<1> QED BY <1>1, <1>2, <1>3, <1>4, <1>5 DEF IInv

LEMMA TypeStep == TypeOK /\ JobsFit /\ [Next]_vars => TypeOK'
<1> SUFFICES ASSUME TypeOK, JobsFit, [Next]_vars PROVE TypeOK'
  OBVIOUS
<1> USE DEF tables, locks, history, races, Goto
<1>1. CASE Create
  <2>1. PICK o \in Orders, lines \in [Products -> Lines \cup {NoLine}] :
            order' = [order EXCEPT ![o] =
              [status |-> "PENDING",
               expected |-> [p \in Products |-> Expected(lines[p])],
               factor   |-> [p \in Products |-> lines[p].factor],
               unitCost |-> [p \in Products |-> UnitCost(lines[p], p)]]]
    BY <1>1 DEF Create
  <2>2. order' \in [Orders -> OrderRow]
    BY <2>1, CreatedTyped DEF TypeOK
  <2> QED BY <1>1, <2>2 DEF TypeOK, Create
<1>2. ASSUME NEW s \in Sessions, StartDelivery(s) PROVE TypeOK'
  <2>1. PICK o \in Orders, items \in [Products -> Amounts \cup {0}] :
          /\ job' = [job EXCEPT ![s] = [op |-> "deliver", order |-> o, items |-> items,
                                        status |-> "PENDING"]]
          /\ tx' = [tx EXCEPT ![s].past = received[o], ![s].left = Items(items)]
          /\ Overlap(s, o)
    BY <1>2 DEF StartDelivery
  <2>2. items \in [Products -> Nat]
    BY ItemsTyped
  <2>3. job' \in [Sessions -> Job]
    BY <2>1, <2>2 DEF TypeOK, Job, Statuses
  <2>4. tx' \in [Sessions -> Tx]
    <3>1. [tx[s] EXCEPT !.past = received[o], !.left = Items(items)] \in Tx
      <4>1. Items(items) \in SUBSET Products
        BY DEF Items
      <4>2. received[o] \in [Products -> Nat]
        BY DEF TypeOK
      <4> QED BY <4>1, <4>2, LocalsTyped, PastTyped
    <3> QED BY <2>1, <3>1 DEF TypeOK
  <2> QED BY <1>2, <2>1, <2>3, <2>4 DEF TypeOK, StartDelivery, Overlap, Steps
<1>3. ASSUME NEW s \in Sessions, StartUpdate(s) PROVE TypeOK'
  <2>1. PICK o \in Orders, status \in Statuses :
          /\ job' = [job EXCEPT ![s] = [op |-> "update", order |-> o, items |-> Zero,
                                        status |-> status]]
          /\ Overlap(s, o)
    BY <1>3 DEF StartUpdate
  <2>2. job' \in [Sessions -> Job]
    BY <2>1, Nothing DEF TypeOK, Job
  <2> QED BY <1>3, <2>1, <2>2 DEF TypeOK, StartUpdate, Overlap, Steps
<1>4. ASSUME NEW s \in Sessions, ReadProducts(s) PROVE TypeOK'
  <2>1. [tx[s] EXCEPT !.qty = quantity, !.cost = cost] \in Tx
    BY LocalsTyped, SeenTyped DEF TypeOK
  <2>2. tx' \in [Sessions -> Tx]
    BY <1>4, <2>1 DEF ReadProducts, TypeOK
  <2> QED BY <1>4, <2>2 DEF TypeOK, ReadProducts, Steps
<1>5. ASSUME NEW s \in Sessions, Reprice(s) PROVE TypeOK'
  <2>1. PICK p \in tx[s].left : \E new \in NewCosts(s, p) :
          tx' = [tx EXCEPT ![s].newCost[p] = new, ![s].at = {p}, ![s].left = @ \ {p}]
    BY <1>5 DEF Reprice
  <2>a. PICK new \in NewCosts(s, p) :
          tx' = [tx EXCEPT ![s].newCost[p] = new, ![s].at = {p}, ![s].left = @ \ {p}]
    BY <2>1
  <2>2. p \in Products
    BY LocalsTyped
  <2>3. new \in Nat
    <3>1. job[s].order \in Orders
      BY <1>5 DEF Reprice, JobsFit
    <3>2. /\ tx[s].qty[p] \in Int /\ tx[s].cost[p] \in Nat /\ job[s].items[p] \in Nat
          /\ order[job[s].order].unitCost[p] \in Nat
          /\ order[job[s].order].factor[p] \in Nat \ {0}
      BY <2>2, <3>1, LocalsTyped DEF TypeOK, OrderRow
    <3>3. NewCosts(s, p) \subseteq Nat
      BY <3>2, WeightedNat DEF NewCosts
    <3> QED BY <3>3
  <2>4. [tx[s] EXCEPT !.newCost[p] = new, !.at = {p}, !.left = @ \ {p}] \in Tx
    BY <2>2, <2>3, LocalsTyped, RepricedTyped
  <2>5. tx' \in [Sessions -> Tx]
    BY <2>a, <2>4 DEF TypeOK
  <2> QED BY <1>5, <2>5 DEF TypeOK, Reprice, Steps
<1>6. ASSUME NEW s \in Sessions, ReadStock(s) PROVE TypeOK'
  <2>1. PICK p \in tx[s].at : tx' = [tx EXCEPT ![s].read = quantity[p]]
    BY <1>6 DEF ReadStock
  <2>2. [tx[s] EXCEPT !.read = quantity[p]] \in Tx
    <3>1. quantity[p] \in Int
      BY LocalsTyped DEF TypeOK
    <3> QED BY <3>1, LocalsTyped, ReadTyped
  <2>3. tx' \in [Sessions -> Tx]
    BY <2>1, <2>2 DEF TypeOK
  <2> QED BY <1>6, <2>3 DEF TypeOK, ReadStock, Steps
<1>7. ASSUME NEW s \in Sessions, WriteStock(s) PROVE TypeOK'
  <2>1. PICK p \in tx[s].at :
          tx' = [tx EXCEPT ![s].newQty[p] = tx[s].read + job[s].items[p]]
    BY <1>7 DEF WriteStock
  <2>2. tx[s].read + job[s].items[p] \in Int
    BY LocalsTyped
  <2>3. [tx[s] EXCEPT !.newQty[p] = tx[s].read + job[s].items[p]] \in Tx
    BY <2>2, LocalsTyped, WrittenTyped
  <2>4. tx' \in [Sessions -> Tx]
    BY <2>1, <2>3 DEF TypeOK
  <2> QED BY <1>7, <2>4 DEF TypeOK, WriteStock, Steps
<1>8. ASSUME NEW s \in Sessions, SetStatus(s) PROVE TypeOK'
  <2>1. \A st \in Statuses : [tx[s] EXCEPT !.status = st] \in Tx
    BY LocalsTyped, StatusTyped
  <2>2. tx' \in [Sessions -> Tx]
    BY <1>8, <2>1 DEF SetStatus, TypeOK, Statuses
  <2> QED BY <1>8, <2>2 DEF TypeOK, SetStatus, Steps
<1>9. ASSUME NEW s \in Sessions, CommitDelivery(s) PROVE TypeOK'
  <2>1. job[s].order \in Orders /\ job[s].items \in [Products -> Nat]
    BY <1>9, LocalsTyped DEF CommitDelivery, JobsFit
  <2>2. order' \in [Orders -> OrderRow]
    <3>1. [order[job[s].order] EXCEPT !.status = tx[s].status] \in OrderRow
      BY <2>1, LocalsTyped, StatusTyped DEF TypeOK
    <3> QED BY <1>9, <3>1 DEF CommitDelivery, TypeOK
  <2>3. received' \in [Orders -> [Products -> Nat]] /\ delivered' \in [Products -> Nat]
    BY <1>9, <2>1 DEF CommitDelivery, TypeOK
  <2>4. quantity' \in [Products -> Int] /\ cost' \in [Products -> Nat]
    BY <1>9, LocalsTyped DEF CommitDelivery, TypeOK
  <2>5. paid' \in [Products -> SUBSET Nat]
    <3>1. \A p \in Products :
            Rounded(order[job[s].order].unitCost[p], order[job[s].order].factor[p]) \subseteq Nat
      <4>1. \A p \in Products : /\ order[job[s].order].unitCost[p] \in Nat
                                /\ order[job[s].order].factor[p] \in Nat \ {0}
        BY <2>1 DEF TypeOK, OrderRow
      <4> QED BY <4>1, RoundedNat
    <3> QED BY <1>9, <3>1 DEF CommitDelivery, TypeOK
  <2> QED BY <1>9, <2>2, <2>3, <2>4, <2>5, FinishTyped DEF CommitDelivery, TypeOK
<1>10. ASSUME NEW s \in Sessions, Update(s) PROVE TypeOK'
  <2>1. job[s].order \in Orders
    BY <1>10 DEF Update, JobsFit
  <2>2. order' \in [Orders -> OrderRow]
    <3>1. [order[job[s].order] EXCEPT !.status = job[s].status] \in OrderRow
      BY <2>1, LocalsTyped, StatusTyped DEF TypeOK
    <3> QED BY <1>10, <3>1 DEF Update, TypeOK
  <2>3. byHand' \subseteq Orders
    BY <1>10, <2>1 DEF Update, TypeOK
  <2> QED BY <1>10, <2>2, <2>3, FinishTyped DEF Update, TypeOK
<1>11. ASSUME NEW s \in Sessions, Abort(s) PROVE TypeOK'
  BY <1>11, FinishTyped DEF Abort, TypeOK
<1>12. CASE UNCHANGED vars
  BY <1>12 DEF TypeOK, vars
<1> QED BY <1>1, <1>2, <1>3, <1>4, <1>5, <1>6, <1>7, <1>8, <1>9, <1>10, <1>11, <1>12, StepCases
        DEF Step, Start, Reading, Locking, Commit

-----------------------------------------------------------------------------
USE DEF tables, locks, history, races, Goto

\* Of the session s that moves on, the others notice nothing but its locks.
LEMMA OthersKept ==
    ASSUME TypeOK, NEW s \in Sessions, NEW t \in Sessions, t # s, Step(s)
    PROVE  /\ pc'[t] = pc[t] /\ job'[t] = job[t] /\ tx'[t] = tx[t]
           /\ \A p \in Products : stockLock[p] = t => stockLock'[p] = t
<1>0. t # Nobody
  BY NobodyIsNew
<1>1. CASE Start(s)
  BY <1>1 DEF Start, StartDelivery, StartUpdate, TypeOK
<1>2. CASE Reading(s)
  BY <1>2 DEF Reading, ReadProducts, ReadStock, TypeOK
<1>3. CASE Locking(s)
  BY <1>0, <1>3 DEF Locking, Reprice, WriteStock, SetStatus, Repriced, Free, TypeOK
<1>4. CASE Finish(s)
  BY <1>0, <1>4 DEF Finish, TypeOK
<1> QED BY <1>1, <1>2, <1>3, <1>4 DEF Step, Commit, CommitDelivery, Update, Abort

\* What an order was placed for does not change.
SamePlaced(o) == /\ order'[o].expected = order[o].expected
                 /\ order'[o].factor = order[o].factor /\ order'[o].unitCost = order[o].unitCost
LEMMA OrdersKept ==
    ASSUME TypeOK, JobsFit, [Next]_vars, NEW o \in Orders, order[o].status # "NONE"
    PROVE  order'[o].status # "NONE" /\ SamePlaced(o)
<1>1. CASE Create
  BY <1>1 DEF Create, TypeOK, SamePlaced
<1>2. ASSUME NEW s \in Sessions, Commit(s)
      PROVE  order'[o].status # "NONE" /\ SamePlaced(o)
  <2>1. job[s].order \in Orders /\ tx[s].status # "NONE" /\ job[s].status # "NONE"
    BY <1>2, LocalsTyped, StatusesOk DEF Commit, CommitDelivery, Update, JobsFit
  <2>2. ASSUME NEW q \in Orders, NEW status, status # "NONE",
               order' = [order EXCEPT ![q].status = status]
        PROVE  order'[o].status # "NONE" /\ SamePlaced(o)
    BY <2>2 DEF TypeOK, OrderRow, SamePlaced
  <2> QED BY <1>2, <2>1, <2>2 DEF Commit, CommitDelivery, Update
<1>3. ASSUME NEW s \in Sessions, Start(s) \/ Reading(s) \/ Locking(s) \/ Abort(s)
      PROVE  order' = order
  BY <1>3 DEF Start, StartDelivery, StartUpdate, Reading, ReadProducts, ReadStock, Locking,
              Reprice, WriteStock, SetStatus, Abort
<1>4. CASE UNCHANGED vars
  BY <1>4 DEF vars, SamePlaced
<1> QED BY <1>1, <1>2, <1>3, <1>4, StepCases DEF Step, SamePlaced

\* The rows of an order change by a commit for that order alone, or by its creation.
LEMMA RowsKept ==
    ASSUME TypeOK, JobsFit, [Next]_vars, NEW o \in Orders
    PROVE  \/ order'[o] = order[o] /\ received'[o] = received[o] /\ (o \in byHand => o \in byHand')
           \/ Create /\ order[o].status = "NONE" /\ order'[o].status = "PENDING"
                     /\ received' = received
           \/ \E s \in Sessions : Commit(s) /\ job[s].order = o
<1>1. ASSUME Create
      PROVE  /\ received' = received /\ byHand' = byHand
             /\ \/ order'[o] = order[o]
                \/ order[o].status = "NONE" /\ order'[o].status = "PENDING"
  <2>1. PICK q \in Orders, lines \in [Products -> Lines \cup {NoLine}] :
          /\ order[q].status = "NONE"
          /\ order' = [order EXCEPT ![q] =
              [status |-> "PENDING",
               expected |-> [p \in Products |-> Expected(lines[p])],
               factor   |-> [p \in Products |-> lines[p].factor],
               unitCost |-> [p \in Products |-> UnitCost(lines[p], p)]]]
    BY <1>1 DEF Create
  <2>2. CASE q = o
    BY <1>1, <2>1, <2>2 DEF Create, TypeOK
  <2>3. CASE q # o
    BY <1>1, <2>1, <2>3 DEF Create, TypeOK
  <2> QED BY <2>2, <2>3
<1>2. ASSUME NEW s \in Sessions, Commit(s), job[s].order # o
      PROVE  order'[o] = order[o] /\ received'[o] = received[o] /\ (o \in byHand => o \in byHand')
  BY <1>2 DEF Commit, CommitDelivery, Update, TypeOK
<1>3. ASSUME NEW s \in Sessions, Start(s) \/ Reading(s) \/ Locking(s) \/ Abort(s)
      PROVE  order' = order /\ received' = received /\ byHand' = byHand
  BY <1>3 DEF Start, StartDelivery, StartUpdate, Reading, ReadProducts, ReadStock, Locking,
              Reprice, WriteStock, SetStatus, Abort
<1>4. CASE UNCHANGED vars
  BY <1>4 DEF vars
<1> QED BY <1>1, <1>2, <1>3, <1>4, StepCases DEF Step

\* JobsFit, and below StockFits, PastFits and AloneFits, for one session.
JobFits(s) ==
    /\ pc[s] = "idle" => job[s] = NoJob /\ tx[s] = NoTx
    /\ pc[s] # "idle" => job[s].order \in Orders /\ order[job[s].order].status # "NONE"
    /\ pc[s] \in Delivering => Items(job[s].items) # {}

LEMMA JobsStep == TypeOK /\ JobsFit /\ [Next]_vars => JobsFit'
<1> SUFFICES ASSUME TypeOK, JobsFit, [Next]_vars PROVE JobsFit'
  OBVIOUS
<1>a. \A t \in Sessions : JobFits(t)
  BY DEF JobsFit, JobFits
<1>1. ASSUME NEW t \in Sessions, pc'[t] = pc[t], job'[t] = job[t], tx'[t] = tx[t]
      PROVE  JobFits(t)'
  BY <1>a, <1>1, OrdersKept DEF JobFits
<1>2. ASSUME NEW s \in Sessions, Step(s) PROVE JobFits(s)'
  <2>1. CASE StartDelivery(s)
    <3>1. PICK o \in Orders, items \in [Products -> Amounts \cup {0}] :
            /\ order[o].status \in Receivable
            /\ items # Zero
            /\ job' = [job EXCEPT ![s] = [op |-> "deliver", order |-> o, items |-> items,
                                          status |-> "PENDING"]]
      BY <2>1 DEF StartDelivery
    <3>2. Items(items) # {}
      BY <3>1, ItemsTyped, ZeroItems
    <3> QED BY <2>1, <3>1, <3>2 DEF StartDelivery, JobFits, TypeOK, Receivable, Delivering
  <2>2. CASE StartUpdate(s)
    BY <2>2 DEF StartUpdate, JobFits, TypeOK, Delivering
  <2>3. CASE Reading(s) \/ Locking(s)
    <3>1. job'[s] = job[s] /\ order' = order /\ pc[s] \in Delivering /\ pc'[s] \in Delivering
      BY <2>3 DEF Reading, ReadProducts, ReadStock, Locking, Reprice, WriteStock, SetStatus,
                  Delivering, TypeOK
    <3> QED BY <1>a, <3>1 DEF JobFits, Delivering
  <2>4. CASE Finish(s)
    BY <2>4 DEF Finish, JobFits, TypeOK, Delivering
  <2> QED BY <1>2, <2>1, <2>2, <2>3, <2>4 DEF Step, Start, Commit, CommitDelivery, Update, Abort
<1>3. CASE Create
  BY <1>1, <1>3 DEF Create, JobsFit, JobFits
<1>4. CASE UNCHANGED vars
  BY <1>1, <1>4 DEF vars, JobsFit, JobFits
<1>5. ASSUME NEW s \in Sessions, Step(s) PROVE JobsFit'
  BY <1>1, <1>2, <1>5, OthersKept DEF JobsFit, JobFits
<1> QED BY <1>3, <1>4, <1>5, StepCases

-----------------------------------------------------------------------------
StockFit(s) ==
    /\ pc[s] \in {"reprice", "read", "write", "status", "commit"} => \A p \in Products :
          /\ p \in tx[s].at /\ pc[s] \in {"read", "write"} => stockLock[p] = s
          /\ p \in tx[s].at /\ pc[s] = "write" => tx[s].read = quantity[p]
          /\ Done(s, p) => /\ stockLock[p] = s
                           /\ tx[s].newQty[p] = quantity[p] + job[s].items[p]
    /\ pc[s] = "products" => tx[s].left = Items(job[s].items)
    /\ pc[s] \in {"read", "write"} => \E p \in Products : tx[s].at = {p}
    /\ pc[s] \in {"status", "commit"} => tx[s].left = {}

\* Only the delivery that has locked a product changes its stock, by what it brings.
LEMMA QuantityKept ==
    ASSUME TypeOK, StockFits, [Next]_vars, NEW p \in Products
    PROVE  \/ quantity'[p] = quantity[p] /\ delivered'[p] = delivered[p]
           \/ \E s \in Sessions : /\ CommitDelivery(s) /\ stockLock[p] = s
                                  /\ quantity'[p] = quantity[p] + job[s].items[p]
                                  /\ delivered'[p] = delivered[p] + job[s].items[p]
<1>1. ASSUME NEW s \in Sessions, CommitDelivery(s), p \in Items(job[s].items)
      PROVE  /\ stockLock[p] = s
             /\ quantity'[p] = quantity[p] + job[s].items[p]
             /\ delivered'[p] = delivered[p] + job[s].items[p]
  <2>1. Done(s, p)
    BY <1>1 DEF CommitDelivery, StockFits, Done
  <2>2. stockLock[p] = s /\ tx[s].newQty[p] = quantity[p] + job[s].items[p]
    BY <1>1, <2>1 DEF CommitDelivery, StockFits
  <2> QED BY <1>1, <2>2 DEF CommitDelivery, TypeOK
<1>2. ASSUME NEW s \in Sessions, CommitDelivery(s), p \notin Items(job[s].items)
      PROVE  quantity'[p] = quantity[p] /\ delivered'[p] = delivered[p]
  <2>1. job[s].items[p] = 0
    BY <1>2, LocalsTyped DEF Items
  <2> QED BY <1>2, <2>1 DEF CommitDelivery, TypeOK
<1>3. ASSUME NEW s \in Sessions, Start(s) \/ Reading(s) \/ Locking(s) \/ Update(s) \/ Abort(s)
      PROVE  quantity' = quantity /\ delivered' = delivered
  BY <1>3 DEF Start, StartDelivery, StartUpdate, Reading, ReadProducts, ReadStock, Locking,
              Reprice, WriteStock, SetStatus, Update, Abort
<1>4. CASE Create \/ UNCHANGED vars
  BY <1>4 DEF Create, vars
<1> QED BY <1>1, <1>2, <1>3, <1>4, StepCases DEF Step, Commit

LEMMA StockStep == TypeOK /\ StockFits /\ [Next]_vars => StockFits'
<1> SUFFICES ASSUME TypeOK, StockFits, [Next]_vars PROVE StockFits'
  OBVIOUS
<1>a. \A t \in Sessions : StockFit(t)
  BY DEF StockFits, StockFit
<1>1. ASSUME NEW t \in Sessions, pc'[t] = pc[t], job'[t] = job[t], tx'[t] = tx[t],
             \A p \in Products : stockLock[p] = t => stockLock'[p] = t /\ quantity'[p] = quantity[p]
      PROVE  StockFit(t)'
  BY <1>a, <1>1 DEF StockFit, Done
<1>2. ASSUME NEW s \in Sessions, Step(s) PROVE StockFit(s)'
  <2>1. CASE StartDelivery(s)
    <3>1. PICK o \in Orders, items \in [Products -> Amounts \cup {0}] :
            /\ job' = [job EXCEPT ![s] = [op |-> "deliver", order |-> o, items |-> items,
                                          status |-> "PENDING"]]
            /\ tx' = [tx EXCEPT ![s].past = received[o], ![s].left = Items(items)]
      BY <2>1 DEF StartDelivery
    <3>2. tx'[s].left = Items(job'[s].items) /\ pc'[s] = "products"
      BY <2>1, <3>1 DEF StartDelivery, TypeOK, Tx
    <3> QED BY <3>2 DEF StockFit
  <2>2. CASE ReadProducts(s)
    <3>1. /\ pc[s] = "products" /\ pc'[s] = "reprice" /\ job'[s] = job[s]
          /\ tx'[s] = [tx[s] EXCEPT !.qty = quantity, !.cost = cost]
      BY <2>2 DEF ReadProducts, TypeOK
    <3>2. tx'[s].left = Items(job[s].items)
      BY <1>a, <3>1, LocalsTyped DEF StockFit, Tx
    <3> QED BY <3>1, <3>2 DEF StockFit, Done
  <2>3. CASE Reprice(s)
    <3>0. PICK p \in tx[s].left :
            /\ stockLock' = [q \in Products |-> IF q \in Repriced(s, p) THEN s ELSE stockLock[q]]
            /\ \E new \in NewCosts(s, p) :
                  tx' = [tx EXCEPT ![s].newCost[p] = new, ![s].at = {p}, ![s].left = @ \ {p}]
      BY <2>3 DEF Reprice
    <3>1. PICK new \in NewCosts(s, p) :
            /\ stockLock' = [q \in Products |-> IF q \in Repriced(s, p) THEN s ELSE stockLock[q]]
            /\ tx' = [tx EXCEPT ![s].newCost[p] = new, ![s].at = {p}, ![s].left = @ \ {p}]
      BY <3>0
    <3>2. p \in Products /\ stockLock'[p] = s
          /\ \A q \in Products : stockLock[q] = s => stockLock'[q] = s
      BY <3>1, LocalsTyped DEF Repriced
    <3>3. /\ tx'[s].at = {p} /\ tx'[s].left = tx[s].left \ {p} /\ tx'[s].newQty = tx[s].newQty
          /\ pc[s] = "reprice" /\ pc'[s] = "read" /\ job'[s] = job[s] /\ quantity' = quantity
      BY <2>3, <3>1, LocalsTyped DEF Reprice, Tx, TypeOK
    <3>4. \A q \in Products : Done(s, q)' => Done(s, q)
      BY <3>3 DEF Done
    <3> QED BY <1>a, <3>2, <3>3, <3>4 DEF StockFit
  <2>4. CASE ReadStock(s)
    <3>1. PICK p \in tx[s].at : tx' = [tx EXCEPT ![s].read = quantity[p]]
      BY <2>4 DEF ReadStock
    <3>2. tx[s].at = {p} /\ p \in Products
      BY <1>a, <2>4, <3>1 DEF StockFit, ReadStock
    <3>3. /\ tx'[s].at = {p} /\ tx'[s].left = tx[s].left /\ tx'[s].newQty = tx[s].newQty
          /\ tx'[s].read = quantity[p] /\ pc[s] = "read" /\ pc'[s] = "write"
          /\ job'[s] = job[s] /\ quantity' = quantity /\ stockLock' = stockLock
      BY <2>4, <3>1, <3>2, LocalsTyped DEF ReadStock, Tx, TypeOK
    <3>4. \A q \in Products : Done(s, q)' => Done(s, q)
      BY <3>2, <3>3 DEF Done
    <3> QED BY <1>a, <3>2, <3>3, <3>4 DEF StockFit
  <2>5. CASE WriteStock(s)
    <3>1. PICK p \in tx[s].at :
            /\ stockLock' = [stockLock EXCEPT ![p] = s]
            /\ tx' = [tx EXCEPT ![s].newQty[p] = tx[s].read + job[s].items[p]]
      BY <2>5 DEF WriteStock
    <3>2. tx[s].at = {p} /\ p \in Products /\ tx[s].read = quantity[p] /\ stockLock[p] = s
      BY <1>a, <2>5, <3>1 DEF StockFit, WriteStock
    <3>3. /\ tx'[s].at = {p} /\ tx'[s].left = tx[s].left
          /\ tx'[s].newQty[p] = quantity[p] + job[s].items[p]
          /\ \A q \in Products \ {p} : tx'[s].newQty[q] = tx[s].newQty[q]
          /\ pc[s] = "write" /\ pc'[s] = (IF tx[s].left = {} THEN "status" ELSE "reprice")
          /\ job'[s] = job[s] /\ quantity' = quantity
      BY <2>5, <3>1, <3>2, LocalsTyped DEF WriteStock, Tx, TypeOK
    <3>4. \A q \in Products : stockLock[q] = s => stockLock'[q] = s
      BY <3>1 DEF TypeOK
    <3>5. stockLock'[p] = s
      BY <3>1, <3>2 DEF TypeOK
    <3>6. \A q \in Products \ {p} : Done(s, q)' => Done(s, q)
      BY <3>2, <3>3 DEF Done
    <3> QED BY <1>a, <3>3, <3>4, <3>5, <3>6 DEF StockFit
  <2>6. CASE SetStatus(s)
    <3>1. /\ tx'[s].at = tx[s].at /\ tx'[s].left = tx[s].left /\ tx'[s].newQty = tx[s].newQty
          /\ pc[s] = "status" /\ pc'[s] = "commit" /\ job'[s] = job[s]
          /\ quantity' = quantity /\ stockLock' = stockLock
      BY <2>6, LocalsTyped DEF SetStatus, Tx, TypeOK
    <3> QED BY <1>a, <3>1 DEF StockFit, Done
  <2>7. CASE StartUpdate(s) \/ Finish(s)
    BY <2>7 DEF StartUpdate, Finish, StockFit, TypeOK
  <2> QED BY <1>2, <2>1, <2>2, <2>3, <2>4, <2>5, <2>6, <2>7
          DEF Step, Start, Reading, Locking, Commit, CommitDelivery, Update, Abort
<1>3. CASE Create \/ UNCHANGED vars
  BY <1>1, <1>3 DEF Create, vars, StockFits, StockFit
<1>4. ASSUME NEW s \in Sessions, Step(s), NEW t \in Sessions, t # s PROVE StockFit(t)'
  <2>1. \A p \in Products : stockLock[p] = t => quantity'[p] = quantity[p]
    <3> SUFFICES ASSUME NEW p \in Products, stockLock[p] = t, quantity'[p] # quantity[p]
                 PROVE  FALSE
      OBVIOUS
    <3>1. PICK u \in Sessions : CommitDelivery(u) /\ stockLock[p] = u
      BY QuantityKept
    <3>2. pc[t] = "commit" /\ pc'[t] = "idle"
      BY <3>1 DEF CommitDelivery, Finish, TypeOK
    <3> QED BY <1>4, <3>2, OthersKept
  <2> QED BY <1>1, <1>4, <2>1, OthersKept
<1> QED BY <1>2, <1>3, <1>4, StepCases DEF StockFits, StockFit

LEMMA StockedStep ==
    TypeOK /\ StockFits /\ StockedAsReceived /\ [Next]_vars => StockedAsReceived'
<1> SUFFICES ASSUME TypeOK, StockFits, StockedAsReceived, [Next]_vars, NEW p \in Products
             PROVE  (quantity[p] = opening[p] + delivered[p])'
  BY DEF StockedAsReceived
<1>1. opening' = opening
  BY StepCases DEF Step, Start, StartDelivery, StartUpdate, Reading, ReadProducts, ReadStock,
     Locking, Reprice, WriteStock, SetStatus, Commit, CommitDelivery, Update, Abort, Create, vars
<1>2. ASSUME NEW s \in Sessions, quantity'[p] = quantity[p] + job[s].items[p],
             delivered'[p] = delivered[p] + job[s].items[p]
      PROVE  (quantity[p] = opening[p] + delivered[p])'
  <2>1. job[s].items[p] \in Int
    BY LocalsTyped
  <2> QED BY <1>1, <1>2, <2>1 DEF StockedAsReceived, TypeOK
<1> QED BY <1>1, <1>2, QuantityKept DEF StockedAsReceived

-----------------------------------------------------------------------------
LEMMA ReceivedGrows ==
    ASSUME TypeOK, JobsFit, [Next]_vars, NEW o \in Orders, NEW p \in Products
    PROVE  received[o][p] <= received'[o][p]
<1>1. ASSUME NEW s \in Sessions, CommitDelivery(s) PROVE received[o][p] <= received'[o][p]
  <2>1. job[s].items[p] \in Nat /\ received[o][p] \in Nat
    BY LocalsTyped DEF TypeOK
  <2>2. \/ received'[o] = received[o]
        \/ received'[o] = [q \in Products |-> received[o][q] + job[s].items[q]]
    BY <1>1 DEF CommitDelivery, TypeOK
  <2> QED BY <2>1, <2>2
<1>2. ASSUME received' = received PROVE received[o][p] <= received'[o][p]
  BY <1>2 DEF TypeOK
<1>3. ASSUME NEW s \in Sessions, Start(s) \/ Reading(s) \/ Locking(s) \/ Update(s) \/ Abort(s)
      PROVE  received' = received
  BY <1>3 DEF Start, StartDelivery, StartUpdate, Reading, ReadProducts, ReadStock, Locking,
              Reprice, WriteStock, SetStatus, Update, Abort, tables
<1>4. CASE Create \/ UNCHANGED vars
  BY <1>2, <1>4 DEF Create, vars, tables
<1> QED BY <1>1, <1>2, <1>3, <1>4, StepCases DEF Step, Commit

\* What a delivery knows of those before it, it read at its start.
LEMMA PastRead ==
    ASSUME TypeOK, NEW s \in Sessions, Reading(s) \/ Locking(s)
    PROVE  tx'[s].past = tx[s].past
<1>0. tx[s] \in Tx /\ tx \in [Sessions -> Tx]
  BY DEF TypeOK
<1>1. CASE ReadProducts(s)
  BY <1>0, <1>1 DEF ReadProducts, Tx
<1>2. CASE ReadStock(s)
  BY <1>0, <1>2 DEF ReadStock, Tx
<1>3. CASE Reprice(s)
  BY <1>0, <1>3 DEF Reprice, Tx
<1>4. CASE WriteStock(s)
  BY <1>0, <1>4 DEF WriteStock, Tx
<1>5. CASE SetStatus(s)
  BY <1>0, <1>5 DEF SetStatus, Tx
<1> QED BY <1>1, <1>2, <1>3, <1>4, <1>5 DEF Reading, Locking

PastFit(s) ==
    /\ pc[s] \in Delivering =>
          \A p \in Products : tx[s].past[p] <= received[job[s].order][p]
    /\ pc[s] = "commit" =>
          tx[s].status = IF Reached(s) THEN "FULFILLED" ELSE "PARTIALLY_FULFILLED"

LEMMA PastStep == TypeOK /\ JobsFit /\ PastFits /\ [Next]_vars => PastFits'
<1> SUFFICES ASSUME TypeOK, JobsFit, PastFits, [Next]_vars PROVE PastFits'
  OBVIOUS
<1>a. \A t \in Sessions : PastFit(t)
  BY DEF PastFits, PastFit
\* What the request knows stays true while it does not end.
<1>0. ASSUME NEW t \in Sessions, pc[t] \in Delivering, job'[t] = job[t], tx'[t].past = tx[t].past
      PROVE  /\ \A p \in Products : tx'[t].past[p] <= received'[job'[t].order][p]
             /\ Reached(t)' <=> Reached(t)
  <2>1. job[t].order \in Orders /\ order[job[t].order].status # "NONE"
    BY <1>0 DEF JobsFit, Delivering
  <2>2. ASSUME NEW p \in Products PROVE tx'[t].past[p] <= received'[job'[t].order][p]
    <3>1. /\ tx[t].past[p] \in Nat /\ received[job[t].order][p] \in Nat
          /\ received'[job[t].order][p] \in Nat
      BY <2>1, LocalsTyped, TypeStep DEF TypeOK
    <3>2. tx[t].past[p] <= received[job[t].order][p]
      BY <1>0, <1>a DEF PastFit
    <3>3. received[job[t].order][p] <= received'[job[t].order][p]
      BY <2>1, ReceivedGrows
    <3> QED BY <1>0, <3>1, <3>2, <3>3
  <2>3. order'[job[t].order].expected = order[job[t].order].expected
    BY <2>1, OrdersKept DEF SamePlaced
  <2> QED BY <1>0, <2>2, <2>3 DEF Reached, Received, Items
<1>1. ASSUME NEW t \in Sessions, pc'[t] = pc[t], job'[t] = job[t], tx'[t] = tx[t]
      PROVE  PastFit(t)'
  BY <1>0, <1>1, <1>a DEF PastFit, Delivering
<1>2. ASSUME NEW s \in Sessions, Step(s) PROVE PastFit(s)'
  <2>1. CASE StartDelivery(s)
    <3>1. PICK o \in Orders, items \in [Products -> Amounts \cup {0}] :
            /\ job' = [job EXCEPT ![s] = [op |-> "deliver", order |-> o, items |-> items,
                                          status |-> "PENDING"]]
            /\ tx' = [tx EXCEPT ![s].past = received[o], ![s].left = Items(items)]
      BY <2>1 DEF StartDelivery
    <3>2. tx'[s].past = received[o] /\ job'[s].order = o /\ received' = received
          /\ pc'[s] = "products"
      BY <2>1, <3>1, LocalsTyped DEF StartDelivery, TypeOK, Tx, tables, Goto
    <3>3. \A p \in Products : received[o][p] <= received[o][p]
      BY DEF TypeOK
    <3> QED BY <3>2, <3>3 DEF PastFit
  <2>2. CASE StartUpdate(s)
    BY <2>2 DEF StartUpdate, PastFit, TypeOK, Delivering, Goto
  <2>3. CASE Reading(s) \/ Reprice(s) \/ WriteStock(s)
    <3>1. tx'[s].past = tx[s].past
      BY <2>3, PastRead DEF Locking
    <3>2. job'[s] = job[s] /\ pc[s] \in Delivering /\ pc'[s] # "commit"
      BY <2>3 DEF Reading, ReadProducts, ReadStock, Reprice, WriteStock, Delivering, TypeOK
    <3> QED BY <1>0, <3>1, <3>2 DEF PastFit
  <2>4. CASE SetStatus(s)
    <3>1. /\ tx'[s].past = tx[s].past /\ job'[s] = job[s] /\ pc[s] \in Delivering
          /\ tx'[s].status = IF Reached(s) THEN "FULFILLED" ELSE "PARTIALLY_FULFILLED"
      BY <2>4, LocalsTyped DEF SetStatus, Delivering, TypeOK, Tx
    <3> QED BY <1>0, <3>1 DEF PastFit
  <2>5. CASE Finish(s)
    BY <2>5 DEF Finish, PastFit, TypeOK, Delivering, Goto
  <2> QED BY <1>2, <2>1, <2>2, <2>3, <2>4, <2>5
          DEF Step, Start, Locking, Commit, CommitDelivery, Update, Abort
<1>3. CASE Create \/ UNCHANGED vars
  BY <1>1, <1>3 DEF Create, vars, PastFits, PastFit
<1>4. ASSUME NEW s \in Sessions, Step(s) PROVE PastFits'
  BY <1>1, <1>2, <1>4, OthersKept DEF PastFits, PastFit
<1> QED BY <1>3, <1>4, StepCases

-----------------------------------------------------------------------------
AloneFit(s) == LET o == job[s].order IN
    pc[s] # "idle" /\ o \notin overlapped =>
        /\ \A t \in Sessions \ {s} : job[t].order # o
        /\ ~Immutable(o)
        /\ pc[s] \in Delivering => tx[s].past = received[o]
        /\ pc[s] = "update" /\ job[s].status = "CANCELLED" => ~HasDeliveries(o)

\* A request goes on with its order, ends, or begins and notes who else is at it.
LEMMA OrderOfJob ==
    ASSUME TypeOK, NEW s \in Sessions, Step(s)
    PROVE  /\ overlapped \subseteq overlapped'
           /\ \/ job'[s].order \in {job[s].order, Nobody}
              \/ \A t \in Sessions \ {s} :
                    job[t].order = job'[s].order => job'[s].order \in overlapped'
<1>1. CASE Start(s)
  <2>1. ASSUME NEW o \in Orders, job'[s].order = o, Overlap(s, o)
        PROVE  /\ overlapped \subseteq overlapped'
               /\ \A t \in Sessions \ {s} : job[t].order = o => o \in overlapped'
    BY <2>1 DEF Overlap
  <2>2. PICK o \in Orders : job'[s].order = o /\ Overlap(s, o)
    <3>1. CASE StartDelivery(s)
      BY <3>1 DEF StartDelivery, TypeOK
    <3>2. CASE StartUpdate(s)
      BY <3>2 DEF StartUpdate, TypeOK
    <3> QED BY <1>1, <3>1, <3>2 DEF Start
  <2> QED BY <2>1, <2>2
<1>2. CASE Reading(s) \/ Locking(s)
  BY <1>2 DEF Reading, ReadProducts, ReadStock, Locking, Reprice, WriteStock, SetStatus, races
<1>3. CASE Commit(s) \/ Abort(s)
  BY <1>3 DEF Commit, CommitDelivery, Update, Abort, Finish, TypeOK, NoJob, races
<1> QED BY <1>1, <1>2, <1>3 DEF Step

\* A commit ends its request.
LEMMA CommitEnds ==
    ASSUME TypeOK, NEW s \in Sessions, Commit(s)
    PROVE  pc[s] # "idle" /\ pc'[s] = "idle"
  BY DEF Commit, CommitDelivery, Update, Finish, Goto, TypeOK

LEMMA AloneStep == TypeOK /\ JobsFit /\ AloneFits /\ [Next]_vars => AloneFits'
<1> SUFFICES ASSUME TypeOK, JobsFit, AloneFits, [Next]_vars PROVE AloneFits'
  OBVIOUS
<1>a. \A t \in Sessions : AloneFit(t)
  BY DEF AloneFits, AloneFit
\* The rows of an order that a request has to itself stay, unless it ends.
<1>0. ASSUME NEW t \in Sessions, pc[t] # "idle", pc'[t] # "idle", job[t].order \notin overlapped
      PROVE  /\ order'[job[t].order] = order[job[t].order]
             /\ received'[job[t].order] = received[job[t].order]
  <2>1. job[t].order \in Orders /\ order[job[t].order].status # "NONE"
    BY <1>0 DEF JobsFit
  <2>2. ASSUME NEW u \in Sessions, Commit(u), job[u].order = job[t].order PROVE FALSE
    <3>1. u = t
      BY <1>0, <1>a, <2>2 DEF AloneFit
    <3> QED BY <1>0, <2>2, <3>1, CommitEnds
  <2> QED BY <2>1, <2>2, RowsKept
<1>1. ASSUME NEW t \in Sessions, pc'[t] = pc[t], job'[t] = job[t], tx'[t] = tx[t],
             overlapped \subseteq overlapped',
             \A u \in Sessions \ {t} :
                 \/ job'[u].order \in {job[u].order, Nobody}
                 \/ job[t].order = job'[u].order => job'[u].order \in overlapped'
      PROVE  AloneFit(t)'
  <2> SUFFICES ASSUME pc[t] # "idle", job[t].order \notin overlapped' PROVE AloneFit(t)'
    BY <1>1 DEF AloneFit
  <2>1. job[t].order \notin overlapped /\ job[t].order # Nobody
    BY <1>1, Nothing DEF JobsFit
  <2>2. /\ order'[job[t].order] = order[job[t].order]
        /\ received'[job[t].order] = received[job[t].order]
    BY <1>0, <1>1, <2>1
  <2>3. \A u \in Sessions \ {t} : job'[u].order # job[t].order
    BY <1>1, <1>a, <2>1 DEF AloneFit
  <2> QED BY <1>1, <1>a, <2>1, <2>2, <2>3 DEF AloneFit, Immutable, HasDeliveries
<1>2. ASSUME NEW s \in Sessions, Step(s) PROVE AloneFit(s)'
  <2>0. \A u \in Sessions \ {s} : job'[u] = job[u]
    BY <1>2, OthersKept
  <2>1. CASE StartDelivery(s)
    <3>1. PICK o \in Orders, items \in [Products -> Amounts \cup {0}] :
            /\ order[o].status \in Receivable
            /\ job' = [job EXCEPT ![s] = [op |-> "deliver", order |-> o, items |-> items,
                                          status |-> "PENDING"]]
            /\ tx' = [tx EXCEPT ![s].past = received[o], ![s].left = Items(items)]
            /\ Overlap(s, o)
      BY <2>1 DEF StartDelivery
    <3>2. /\ tx'[s].past = received[o] /\ job'[s].order = o /\ received' = received
          /\ order' = order /\ pc'[s] = "products"
      BY <2>1, <3>1, LocalsTyped DEF StartDelivery, TypeOK, Tx, tables, Goto
    <3>3. o \notin overlapped' => \A u \in Sessions \ {s} : job[u].order # o
      BY <3>1 DEF Overlap
    <3>4. ~Immutable(o)'
      BY <3>1, <3>2 DEF Immutable, Terminal, Receivable
    <3> QED BY <2>0, <3>2, <3>3, <3>4 DEF AloneFit
  <2>2. CASE StartUpdate(s)
    <3>1. PICK o \in Orders, status \in Statuses :
            /\ ~Immutable(o)
            /\ ~(HasDeliveries(o) /\ status = "CANCELLED")
            /\ job' = [job EXCEPT ![s] = [op |-> "update", order |-> o, items |-> Zero,
                                          status |-> status]]
            /\ Overlap(s, o)
      BY <2>2 DEF StartUpdate
    <3>2. /\ job'[s].order = o /\ job'[s].status = status /\ received' = received
          /\ order' = order /\ pc'[s] = "update"
      BY <2>2, <3>1 DEF StartUpdate, TypeOK, tables, Goto
    <3>3. o \notin overlapped' => \A u \in Sessions \ {s} : job[u].order # o
      BY <3>1 DEF Overlap
    <3>4. ~Immutable(o)' /\ (status = "CANCELLED" => ~HasDeliveries(o)')
      BY <3>1, <3>2 DEF Immutable, HasDeliveries
    <3> QED BY <2>0, <3>2, <3>3, <3>4 DEF AloneFit, Delivering
  <2>3. CASE Reading(s) \/ Locking(s)
    <3>1. tx'[s].past = tx[s].past
      BY <2>3, PastRead
    <3>2. /\ job'[s] = job[s] /\ order' = order
          /\ received' = received /\ overlapped' = overlapped
          /\ pc[s] \in Delivering /\ pc'[s] \in Delivering
      BY <2>3 DEF Reading, ReadProducts, ReadStock, Locking, Reprice, WriteStock, SetStatus,
                  Delivering, TypeOK, races
    <3> QED BY <1>a, <2>0, <3>1, <3>2 DEF AloneFit, Immutable, HasDeliveries, Delivering
  <2>4. CASE Finish(s)
    BY <2>4 DEF Finish, AloneFit, TypeOK, Goto
  <2> QED BY <1>2, <2>1, <2>2, <2>3, <2>4 DEF Step, Start, Commit, CommitDelivery, Update, Abort
<1>3. CASE Create \/ UNCHANGED vars
  BY <1>1, <1>3 DEF Create, vars, races, AloneFits, AloneFit
<1>4. ASSUME NEW s \in Sessions, Step(s), NEW t \in Sessions, t # s PROVE AloneFit(t)'
  <2>1. pc'[t] = pc[t] /\ job'[t] = job[t] /\ tx'[t] = tx[t]
    BY <1>4, OthersKept
  <2>2. \A u \in Sessions \ {s} : job'[u] = job[u]
    BY <1>4, OthersKept
  <2> QED BY <1>1, <1>4, <2>1, <2>2, OrderOfJob
<1> QED BY <1>2, <1>3, <1>4, StepCases DEF AloneFits, AloneFit

-----------------------------------------------------------------------------
\* What a commit for order o does to its rows.
LEMMA OwnRows ==
    ASSUME TypeOK, JobsFit, PastFits, NEW o \in Orders, NEW s \in Sessions, Commit(s),
           job[s].order = o
    PROVE  \/ /\ pc[s] = "commit" /\ order'[o].expected = order[o].expected
              /\ order'[o].status = IF Reached(s) THEN "FULFILLED" ELSE "PARTIALLY_FULFILLED"
              /\ \A p \in Products : received'[o][p] = received[o][p] + job[s].items[p]
           \/ /\ pc[s] = "update" /\ order'[o].status = job[s].status
              /\ received'[o] = received[o]
              /\ o \notin byHand' => job[s].status = "CANCELLED"
<1>0. order[o] \in OrderRow
  BY DEF TypeOK
<1>1. CASE CommitDelivery(s)
  <2>1. order'[o] = [order[o] EXCEPT !.status = tx[s].status]
    BY <1>1 DEF CommitDelivery, TypeOK
  <2>2. \A p \in Products : received'[o][p] = received[o][p] + job[s].items[p]
    BY <1>1 DEF CommitDelivery, TypeOK
  <2> QED BY <1>0, <1>1, <2>1, <2>2 DEF CommitDelivery, PastFits, OrderRow
<1>2. CASE Update(s)
  <2>1. order'[o] = [order[o] EXCEPT !.status = job[s].status]
    BY <1>2 DEF Update, TypeOK
  <2> QED BY <1>0, <1>2, <2>1 DEF Update, OrderRow
<1> QED BY <1>1, <1>2 DEF Commit

LEMMA NothingStep ==
    TypeOK /\ JobsFit /\ NothingReceived /\ [Next]_vars => NothingReceived'
<1> SUFFICES ASSUME TypeOK, JobsFit, NothingReceived, [Next]_vars, NEW o \in Orders,
                    order'[o].status = "NONE"
             PROVE  received'[o] = Zero
  BY DEF NothingReceived, Zero
<1>1. order[o].status = "NONE"
  BY OrdersKept
<1>2. ~\E s \in Sessions : Commit(s) /\ job[s].order = o
  BY <1>1, CommitEnds DEF JobsFit
<1> QED BY <1>1, <1>2, RowsKept DEF NothingReceived

LEMMA FulfilledStep ==
    /\ TypeOK /\ JobsFit /\ PastFits /\ NothingReceived /\ FulfilledIsReceived /\ [Next]_vars
    => FulfilledIsReceived'
<1> SUFFICES ASSUME TypeOK, JobsFit, PastFits, FulfilledIsReceived, [Next]_vars,
                    NEW o \in Orders, o \notin byHand', order'[o].status = "FULFILLED",
                    NEW p \in Products
             PROVE  received'[o][p] >= order'[o].expected[p]
  BY DEF FulfilledIsReceived
<1>1. CASE order'[o] = order[o] /\ received'[o] = received[o] /\ o \notin byHand
  BY <1>1 DEF FulfilledIsReceived
<1>2. ASSUME NEW s \in Sessions, Commit(s), job[s].order = o
      PROVE  received'[o][p] >= order'[o].expected[p]
  <2>1. /\ order'[o].expected = order[o].expected /\ Reached(s)
        /\ received'[o][p] = received[o][p] + job[s].items[p] /\ pc[s] = "commit"
    BY <1>2, OwnRows
  <2>2. tx[s].past[p] <= received[o][p]
    BY <1>2, <2>1 DEF PastFits, Delivering
  <2>3. /\ tx[s].past[p] \in Nat /\ received[o][p] \in Nat /\ job[s].items[p] \in Nat
        /\ order[o].expected[p] \in Nat
    BY LocalsTyped DEF TypeOK, OrderRow
  <2>4. CASE order[o].expected[p] > 0
    BY <1>2, <2>1, <2>2, <2>3, <2>4 DEF Reached, Received, Items
  <2>5. CASE order[o].expected[p] = 0
    BY <2>1, <2>3, <2>5
  <2> QED BY <2>3, <2>4, <2>5
<1> QED BY <1>1, <1>2, RowsKept

LEMMA StatusStep ==
    /\ TypeOK /\ JobsFit /\ PastFits /\ AloneFits /\ NothingReceived
    /\ StatusTellsDeliveries /\ [Next]_vars
    => StatusTellsDeliveries'
<1> DEFINE Tells(o, row, came) ==
        /\ row.status \in {"PENDING", "CANCELLED"} => came = Zero
        /\ row.status = "PARTIALLY_FULFILLED" =>
              /\ came # Zero
              /\ \E p \in Products : came[p] < row.expected[p]
<1> SUFFICES ASSUME TypeOK, JobsFit, PastFits, AloneFits, NothingReceived,
                    StatusTellsDeliveries, [Next]_vars,
                    NEW o \in Orders, o \notin byHand', o \notin overlapped'
             PROVE  Tells(o, order'[o], received'[o])
  BY DEF StatusTellsDeliveries, Zero
<1>0. o \notin overlapped
  BY OrderOfJob, StepCases DEF Create, vars, races
<1>1. CASE order'[o] = order[o] /\ received'[o] = received[o] /\ o \notin byHand
  BY <1>0, <1>1 DEF StatusTellsDeliveries
<1>2. CASE order[o].status = "NONE" /\ order'[o].status = "PENDING" /\ received' = received
  BY <1>2 DEF NothingReceived
<1>3. ASSUME NEW s \in Sessions, Commit(s), job[s].order = o
      PROVE  Tells(o, order'[o], received'[o])
  <2>0. pc[s] # "idle"
    BY <1>3, CommitEnds
  <2>1. CASE /\ pc[s] = "commit" /\ order'[o].expected = order[o].expected
             /\ order'[o].status = IF Reached(s) THEN "FULFILLED" ELSE "PARTIALLY_FULFILLED"
             /\ \A p \in Products : received'[o][p] = received[o][p] + job[s].items[p]
    <3>1. tx[s].past = received[o]
      BY <1>0, <1>3, <2>0, <2>1 DEF AloneFits, Delivering
    <3>2. ASSUME ~Reached(s) PROVE \E p \in Products : received'[o][p] < order'[o].expected[p]
      <4>1. PICK p \in Products : ~(Received(s, p) >= order[o].expected[p])
        BY <1>3, <3>2 DEF Reached, Items
      <4>2. /\ received[o][p] \in Nat /\ job[s].items[p] \in Nat
            /\ order[o].expected[p] \in Nat
        BY LocalsTyped DEF TypeOK, OrderRow
      <4> QED BY <2>1, <3>1, <4>1, <4>2 DEF Received
    <3>3. received'[o] # Zero
      <4>1. PICK p \in Products : job[s].items[p] > 0
        BY <2>1 DEF JobsFit, Delivering, Items
      <4>2. received[o][p] \in Nat /\ job[s].items[p] \in Nat
        BY LocalsTyped DEF TypeOK
      <4>3. received'[o][p] # 0
        BY <2>1, <4>1, <4>2
      <4> QED BY <4>3 DEF Zero
    <3> QED BY <2>1, <3>2, <3>3
  <2>2. CASE /\ pc[s] = "update" /\ order'[o].status = job[s].status
             /\ received'[o] = received[o]
             /\ o \notin byHand' => job[s].status = "CANCELLED"
    <3>1. ~HasDeliveries(o)
      BY <1>0, <1>3, <2>0, <2>2 DEF AloneFits
    <3>2. received[o] = Zero
      BY <3>1, ZeroItems DEF HasDeliveries, TypeOK
    <3> QED BY <2>2, <3>2
  <2> QED BY <1>3, <2>1, <2>2, OwnRows
<1> QED BY <1>1, <1>2, <1>3, RowsKept

-----------------------------------------------------------------------------
(* Costs.                                                                   *)

\* What a step adds to the costs paid, and whose cost it writes.
LEMMA PaidGrows ==
    ASSUME TypeOK, JobsFit, StockFits, [Next]_vars, NEW p \in Products
    PROVE  \/ paid'[p] = paid[p] /\ cost'[p] = cost[p]
           \/ \E s \in Sessions : /\ pc[s] = "commit" /\ p \in Items(job[s].items) \ tx[s].left
                                  /\ paid'[p] = paid[p] \cup UnitPrices(s, p)
                                  /\ cost'[p] = tx[s].newCost[p]
<1>1. ASSUME NEW s \in Sessions, CommitDelivery(s), p \in Items(job[s].items)
      PROVE  /\ pc[s] = "commit" /\ p \in Items(job[s].items) \ tx[s].left
             /\ paid'[p] = paid[p] \cup UnitPrices(s, p)
             /\ cost'[p] = tx[s].newCost[p]
  BY <1>1 DEF CommitDelivery, StockFits, UnitPrices
<1>2. ASSUME NEW s \in Sessions, CommitDelivery(s), p \notin Items(job[s].items)
      PROVE  paid'[p] = paid[p] /\ cost'[p] = cost[p]
  BY <1>2 DEF CommitDelivery
<1>3. ASSUME NEW s \in Sessions, Start(s) \/ Reading(s) \/ Locking(s) \/ Update(s) \/ Abort(s)
      PROVE  paid' = paid /\ cost' = cost
  BY <1>3 DEF Start, StartDelivery, StartUpdate, Reading, ReadProducts, ReadStock, Locking,
              Reprice, WriteStock, SetStatus, Update, Abort
<1>4. CASE Create \/ UNCHANGED vars
  BY <1>4 DEF Create, vars
<1> QED BY <1>1, <1>2, <1>3, <1>4, StepCases DEF Step, Commit

CostFit(s) ==
    pc[s] \in Delivering \ {"products"} => \A p \in Products :
        /\ Between(paid[p], tx[s].cost[p])
        /\ p \in Items(job[s].items) \ tx[s].left =>
              Between(paid[p] \cup UnitPrices(s, p), tx[s].newCost[p])

LEMMA CostsStep == TypeOK /\ JobsFit /\ StockFits /\ CostsFit /\ [Next]_vars => CostsFit'
<1> SUFFICES ASSUME TypeOK, JobsFit, StockFits, CostsFit, [Next]_vars PROVE CostsFit'
  OBVIOUS
<1>a. \A t \in Sessions : CostFit(t)
  BY DEF CostsFit, CostFit
<1>b. \A p \in Products : paid[p] \in SUBSET Nat /\ paid[p] \subseteq paid'[p]
  BY PaidGrows DEF TypeOK
<1>1. ASSUME NEW p \in Products PROVE IsFiniteSet(paid'[p]) /\ Between(paid'[p], cost'[p])
  <2>1. IsFiniteSet(paid[p]) /\ Between(paid[p], cost[p])
    BY DEF CostsFit
  <2>2. ASSUME NEW s \in Sessions, pc[s] = "commit", p \in Items(job[s].items) \ tx[s].left,
               paid'[p] = paid[p] \cup UnitPrices(s, p), cost'[p] = tx[s].newCost[p]
        PROVE  IsFiniteSet(paid'[p]) /\ Between(paid'[p], cost'[p])
    <3>1. IsFiniteSet(paid'[p])
      <4>1. PICK a, b : UnitPrices(s, p) = {a, b}
        BY DEF UnitPrices, Rounded
      <4>2. IsFiniteSet(paid[p] \cup {a})
        BY <2>1, FS_AddElement
      <4>3. IsFiniteSet((paid[p] \cup {a}) \cup {b})
        BY <4>2, FS_AddElement
      <4>4. paid'[p] = (paid[p] \cup {a}) \cup {b}
        BY <2>2, <4>1
      <4> QED BY <4>3, <4>4
    <3>2. Between(paid'[p], cost'[p])
      BY <1>a, <2>2 DEF CostFit, Delivering
    <3> QED BY <3>1, <3>2
  <2> QED BY <2>1, <2>2, PaidGrows
\* What a unit comes to does not change.
<1>2. ASSUME NEW t \in Sessions, pc[t] # "idle", job'[t] = job[t], NEW p \in Products
      PROVE  UnitPrices(t, p)' = UnitPrices(t, p)
  <2>1. job[t].order \in Orders /\ order[job[t].order].status # "NONE"
    BY <1>2 DEF JobsFit
  <2>2. SamePlaced(job[t].order)
    BY <2>1, OrdersKept
  <2> QED BY <1>2, <2>2 DEF UnitPrices, SamePlaced
\* Nor does it matter what else a product is had for.
<1>3. ASSUME NEW t \in Sessions, pc[t] \in Delivering \ {"products"}, job'[t] = job[t],
             NEW p \in Products, tx'[t].cost[p] = tx[t].cost[p],
             p \in Items(job[t].items) \ tx[t].left, tx'[t].newCost[p] = tx[t].newCost[p]
      PROVE  Between(paid'[p] \cup UnitPrices(t, p)', tx'[t].newCost[p])
  <2>1. UnitPrices(t, p)' = UnitPrices(t, p)
    BY <1>2, <1>3 DEF Delivering
  <2>2. Between(paid[p] \cup UnitPrices(t, p), tx[t].newCost[p])
    BY <1>3, <1>a DEF CostFit
  <2>3. paid[p] \cup UnitPrices(t, p) \subseteq paid'[p] \cup UnitPrices(t, p)
    BY <1>b
  <2> QED BY <1>3, <2>1, <2>2, <2>3, BetweenGrows
<1>4. ASSUME NEW t \in Sessions, pc[t] \in Delivering \ {"products"}, NEW p \in Products,
             tx'[t].cost[p] = tx[t].cost[p]
      PROVE  Between(paid'[p], tx'[t].cost[p])
  <2>1. Between(paid[p], tx[t].cost[p]) /\ paid[p] \subseteq paid'[p]
    BY <1>4, <1>a, <1>b DEF CostFit
  <2> QED BY <1>4, <2>1, BetweenGrows
<1>5. ASSUME NEW t \in Sessions, pc'[t] = pc[t], job'[t] = job[t], tx'[t] = tx[t]
      PROVE  CostFit(t)'
  BY <1>3, <1>4, <1>5 DEF CostFit
<1>6. ASSUME NEW s \in Sessions, Step(s) PROVE CostFit(s)'
  <2>1. CASE Start(s) \/ Finish(s)
    BY <2>1 DEF Start, StartDelivery, StartUpdate, Finish, CostFit, TypeOK, Delivering
  <2>2. CASE ReadProducts(s)
    <3>1. /\ pc[s] = "products" /\ job'[s] = job[s] /\ paid' = paid
          /\ tx'[s] = [tx[s] EXCEPT !.qty = quantity, !.cost = cost]
      BY <2>2 DEF ReadProducts, TypeOK
    <3>2. tx'[s].left = Items(job[s].items) /\ tx'[s].cost = cost
      BY <3>1, LocalsTyped DEF StockFits, Tx
    <3> QED BY <3>1, <3>2 DEF CostFit, CostsFit
  <2>3. CASE Reprice(s)
    <3>0. PICK n \in tx[s].left : \E new \in NewCosts(s, n) :
             tx' = [tx EXCEPT ![s].newCost[n] = new, ![s].at = {n}, ![s].left = @ \ {n}]
      BY <2>3 DEF Reprice
    <3>1. PICK new \in NewCosts(s, n) :
             tx' = [tx EXCEPT ![s].newCost[n] = new, ![s].at = {n}, ![s].left = @ \ {n}]
      BY <3>0
    <3>2. /\ tx'[s].cost = tx[s].cost /\ tx'[s].left = tx[s].left \ {n}
          /\ n \in Products /\ tx'[s].newCost[n] = new
          /\ \A p \in Products \ {n} : tx'[s].newCost[p] = tx[s].newCost[p]
          /\ pc[s] = "reprice" /\ job'[s] = job[s]
      BY <2>3, <3>1, LocalsTyped DEF Reprice, Tx, TypeOK
    <3>3. pc[s] \in Delivering \ {"products"} /\ pc[s] # "idle"
      BY <3>2 DEF Delivering
    <3>4. ASSUME n \in Items(job[s].items)
          PROVE  Between(paid'[n] \cup UnitPrices(s, n)', new)
      <4>1. job[s].order \in Orders
        BY <3>3 DEF JobsFit
      <4>2. /\ tx[s].qty[n] \in Int /\ tx[s].cost[n] \in Nat /\ job[s].items[n] \in Nat \ {0}
            /\ order[job[s].order].unitCost[n] \in Nat
            /\ order[job[s].order].factor[n] \in Nat \ {0}
        BY <3>2, <3>4, <4>1, LocalsTyped DEF TypeOK, OrderRow, Items
      <4>3. Between(paid[n], tx[s].cost[n])
        BY <1>a, <3>2, <3>3 DEF CostFit
      <4>4. Between(paid[n] \cup UnitPrices(s, n), new)
        BY <1>b, <3>1, <3>2, <4>2, <4>3, WeightedBetween DEF NewCosts, UnitPrices
      <4>5. UnitPrices(s, n)' = UnitPrices(s, n)
        BY <1>2, <3>2, <3>3
      <4>6. paid[n] \cup UnitPrices(s, n) \subseteq paid'[n] \cup UnitPrices(s, n)'
        BY <1>b, <3>2, <4>5
      <4> QED BY <4>4, <4>6, BetweenGrows
    <3>5. ASSUME NEW p \in Products, p \in Items(job[s].items) \ (tx[s].left \ {n})
          PROVE  Between(paid'[p] \cup UnitPrices(s, p)', tx'[s].newCost[p])
      <4>1. CASE p = n
        BY <3>2, <3>4, <3>5, <4>1
      <4>2. CASE p # n
        BY <1>3, <3>2, <3>3, <3>5, <4>2
      <4> QED BY <4>1, <4>2
    <3> QED BY <1>4, <3>2, <3>3, <3>5 DEF CostFit
  <2>4. CASE ReadStock(s) \/ WriteStock(s) \/ SetStatus(s)
    <3>1. /\ tx'[s].cost = tx[s].cost /\ tx'[s].left = tx[s].left
          /\ tx'[s].newCost = tx[s].newCost
      <4>1. tx[s] \in Tx
        BY LocalsTyped
      <4>2. CASE ReadStock(s)
        BY <4>1, <4>2 DEF ReadStock, Tx, TypeOK
      <4>3. CASE WriteStock(s)
        BY <4>1, <4>3 DEF WriteStock, Tx, TypeOK
      <4>4. CASE SetStatus(s)
        BY <4>1, <4>4 DEF SetStatus, Tx, TypeOK
      <4> QED BY <2>4, <4>2, <4>3, <4>4
    <3>2. pc[s] \in Delivering \ {"products"} /\ job'[s] = job[s]
      BY <2>4 DEF ReadStock, WriteStock, SetStatus, Delivering
    <3> QED BY <1>3, <1>4, <3>1, <3>2 DEF CostFit
  <2> QED BY <1>6, <2>1, <2>2, <2>3, <2>4
          DEF Step, Reading, Locking, Commit, CommitDelivery, Update, Abort
<1>7. ASSUME NEW s \in Sessions, Step(s) PROVE CostsFit'
  BY <1>1, <1>5, <1>6, <1>7, OthersKept DEF CostsFit, CostFit
<1>8. CASE Create \/ UNCHANGED vars
  BY <1>1, <1>5, <1>8 DEF Create, vars, CostsFit, CostFit
<1> QED BY <1>7, <1>8, StepCases

-----------------------------------------------------------------------------
\* The invariant with everything a request in progress knows.
THEOREM Inductive == Spec => []IInv
<1>1. IInv /\ [Next]_vars => IInv'
  BY TypeStep, JobsStep, StockStep, PastStep, AloneStep, NothingStep, StockedStep,
     FulfilledStep, StatusStep, CostsStep DEF IInv
<1> QED BY <1>1, InitIInv, PTL DEF Spec

\* No cost is ever negative, and no row or local leaves its type.
THEOREM TypeCorrect == Spec => []TypeOK
<1>1. IInv => TypeOK
  BY DEF IInv
<1> QED BY <1>1, Inductive, PTL

\* Deliveries lose no stock: processDelivery locks the product before it reads it.
THEOREM StockAlwaysReceived == Spec => []StockedAsReceived
<1>1. IInv => StockedAsReceived
  BY DEF IInv
<1> QED BY <1>1, Inductive, PTL

\* However old the quantities and costs that processDelivery averages, and however it
\* rounds, a product costs no less than the cheapest and no more than the dearest unit.
THEOREM CostAlwaysWithinPaid == Spec => []CostWithinPaid
<1>1. IInv => CostWithinPaid
  <2> SUFFICES ASSUME IInv, NEW p \in Products
               PROVE  Min(paid[p]) <= cost[p] /\ cost[p] <= Max(paid[p])
    BY DEF CostWithinPaid
  <2>1. IsFiniteSet(paid[p]) /\ paid[p] \subseteq Nat /\ cost[p] \in Nat
    BY DEF IInv, CostsFit, TypeOK
  <2>2. PICK x \in paid[p], y \in paid[p] : x <= cost[p] /\ cost[p] <= y
    BY DEF IInv, CostsFit, Between
  <2>3. /\ Min(paid[p]) \in paid[p] /\ Min(paid[p]) <= x
        /\ Max(paid[p]) \in paid[p] /\ y <= Max(paid[p])
    <3>1. paid[p] \subseteq Int /\ paid[p] # {}
      BY <2>1, <2>2
    <3> QED BY <2>1, <3>1, FiniteHasBounds
  <2>4. /\ Min(paid[p]) \in Nat /\ Max(paid[p]) \in Nat /\ x \in Nat /\ y \in Nat
    BY <2>1, <2>3
  <2> QED BY <2>1, <2>2, <2>3, <2>4
<1> QED BY <1>1, Inductive, PTL

\* processDelivery sets FULFILLED only on an order whose goods have all come.
THEOREM FulfilledAlwaysReceived == Spec => []FulfilledIsReceived
<1>1. IInv => FulfilledIsReceived
  BY DEF IInv
<1> QED BY <1>1, Inductive, PTL

\* Where no requests overlap on it, the status of an order tells what it has received.
THEOREM StatusAlwaysTells == Spec => []StatusTellsDeliveries
<1>1. IInv => StatusTellsDeliveries
  BY DEF IInv
<1> QED BY <1>1, Inductive, PTL

\* Where no requests overlap on it, an order that is FULFILLED or CANCELLED stays so.
THEOREM TerminalAlwaysKept == Spec => TerminalKept
<1>1. IInv /\ [Next]_vars =>
        \A o \in Orders \ overlapped : order[o].status \in Terminal =>
            order'[o] = order[o] /\ received'[o] = received[o]
  <2> SUFFICES ASSUME IInv, [Next]_vars, NEW o \in Orders, o \notin overlapped,
                      order[o].status \in Terminal
               PROVE  order'[o] = order[o] /\ received'[o] = received[o]
    OBVIOUS
  <2>1. TypeOK /\ JobsFit /\ AloneFits
    BY DEF IInv
  <2>2. order[o].status # "NONE"
    BY StatusesOk
  <2>3. ASSUME NEW s \in Sessions, Commit(s), job[s].order = o PROVE FALSE
    <3>1. pc[s] # "idle"
      BY <2>1, <2>3, CommitEnds
    <3> QED BY <2>1, <2>3, <3>1 DEF AloneFits, Immutable
  <2> QED BY <2>1, <2>2, <2>3, RowsKept
<1> QED BY <1>1, Inductive, PTL DEF Spec, TerminalKept
=============================================================================
