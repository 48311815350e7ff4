----------------------------- MODULE StockLedger -----------------------------
(***************************************************************************)
(* Stock levels and the movement ledger: InventoryService, and the requests *)
(* that call it with several lines in one transaction (POS checkout,        *)
(* approved exchanges), against concurrent edits of a product.              *)
(*                                                                          *)
(* A request is a plan: the calls of adjustInventory, restockProductStock   *)
(* and reduceProductStock its transaction makes, in order.  Each call reads *)
(* the product, then writes an absolute quantity, then (before the write,   *)
(* for an adjustment) logs a stock_movement.  Statements read committed     *)
(* data or the transaction's own writes, and an UPDATE locks its row.       *)
(***************************************************************************)
EXTENDS Integers, Sequences, FiniteSetsExt

CONSTANTS
    Products,   \* ids of products
    Sessions,   \* requests that may be in progress at once
    Operations, \* operations offered in an instance
    Amounts,    \* quantities a request can name
    Openings,   \* initial quantities of a product
    Factors,    \* conversion factors an alternate unit can have
    MaxItems,   \* bound of the lines of a checkout
    MaxMoves,   \* bound of the movements there are when a request starts
    MaxAlone,   \* the same bound for one that starts while no other is in progress
    Nobody      \* no lock holder

ASSUME OperationsKnown == Operations \subseteq {"adjust", "stockIn", "stockOut", "checkout", "exchange"}
ASSUME AmountsPositive == Amounts \subseteq Nat \ {0}
ASSUME OpeningsNatural == Openings \subseteq Nat
ASSUME FactorsPositive == Factors \subseteq Nat \ {0}
ASSUME BoundsNatural == {MaxItems, MaxMoves, MaxAlone} \subseteq Nat
ASSUME NobodyIsNew == Nobody \notin Sessions

VARIABLES
    qty,      \* product.current_quantity, in base units
    recount,  \* product.needsRecount
    factor,   \* conversion factor of the alternate unit, 0 when none is configured
    moves,    \* stock_movement rows of each product, in the order they are committed in
    items,    \* transaction_item rows: product and base_quantity_deducted
    lock,     \* session that has written the product row and not ended
    pc,       \* where each session is in its handler
    plan,     \* the calls its request makes
    tx,       \* what its transaction has read and written
    opening,  \* history: the quantity the product was created with
    overlapped \* history: two requests have been in progress at once

product == <<qty, recount, factor>>
ledger  == <<moves, items>>
history == <<opening, overlapped>>
vars == <<product, ledger, lock, pc, plan, tx, history>>

-----------------------------------------------------------------------------
Units == {"BASE", "ALT"}
Kinds == {"adjust", "in", "out"}
Call  == [kind : Kinds, p : Products, n : Amounts, uom : Units, override : BOOLEAN]
Steps == {"idle", "read", "refuse", "write", "log", "commit"}

\* A stock_movement row: previous_quantity, new_quantity, and what its reason tells:
\* (OVERRIDDEN), or a POS sale.
Move == [kind : Kinds, prev : Int, new : Int, overridden : BOOLEAN, sale : BOOLEAN]

Item == [p : Products, base : Nat \ {0}]

Tx   == [seen : Int, new : Int, draft : [Products -> [qty : Int, recount : BOOLEAN]],
         moves : [Products -> Seq(Move)], items : Seq(Item)]
NoTx == [seen |-> 0, new |-> 0, draft |-> [p \in Products |-> [qty |-> 0, recount |-> FALSE]],
         moves |-> [p \in Products |-> <<>>], items |-> <<>>]

\* Base units in one unit u of p, as configured now; 0 when u is not configured.
Conversion(p, u) == IF u = "BASE" THEN 1 ELSE factor[p]

Goto(s, step)  == pc' = [pc EXCEPT ![s] = step]
LockFree(p, s) == lock[p] \in {Nobody, s}
\* The product row as a statement of s sees it.
Row(s, p) == IF lock[p] = s THEN tx[s].draft[p] ELSE [qty |-> qty[p], recount |-> recount[p]]

\* The transaction of s ends: its locks are released, its locals are gone.
Finish(s) == /\ Goto(s, "idle")
             /\ plan' = [plan EXCEPT ![s] = <<>>]
             /\ tx'   = [tx EXCEPT ![s] = NoTx]
             /\ lock' = [p \in Products |-> IF lock[p] = s THEN Nobody ELSE lock[p]]

-----------------------------------------------------------------------------
\* createProduct: an initial quantity, which no movement records.
Init ==
    /\ qty \in [Products -> Openings]
    /\ recount = [p \in Products |-> FALSE]
    /\ factor  \in [Products -> Factors \cup {0}]
    /\ moves   = [p \in Products |-> <<>>]
    /\ items   = <<>>
    /\ lock    = [p \in Products |-> Nobody]
    /\ pc      = [s \in Sessions |-> "idle"]
    /\ plan    = [s \in Sessions |-> <<>>]
    /\ tx      = [s \in Sessions |-> NoTx]
    /\ opening = qty
    /\ overlapped = FALSE

-----------------------------------------------------------------------------
(* The requests.                                                            *)

Lines(kind, units, overrides) ==
    {c \in Call : c.kind = kind /\ c.uom \in units /\ c.override \in overrides}

\* The lines of a checkout share the override flag of the request, and no two of
\* them name one product.
CheckoutLines(override) == UNION {[1 .. n -> Lines("out", Units, {override})] : n \in 1 .. MaxItems}
ItemsUnique(calls) == \A j, k \in DOMAIN calls : calls[j].p = calls[k].p => j = k
CheckoutPlans == {calls \in CheckoutLines(TRUE) \cup CheckoutLines(FALSE) : ItemsUnique(calls)}

\* An approved exchange issues the new item, then takes the old one back unless
\* it is defective; both in base units.  The two may be the same product.
ExchangePlans ==
    LET issues == Lines("out", {"BASE"}, BOOLEAN)
        backs  == Lines("in", {"BASE"}, {FALSE})
    IN  {<<i>> : i \in issues} \cup {<<i, b>> : i \in issues, b \in backs}

Plans(op) == CASE op = "adjust"   -> {<<c>> : c \in Lines("adjust", Units, {FALSE})}
               [] op = "stockIn"  -> {<<c>> : c \in Lines("in", Units, {FALSE})}
               [] op = "stockOut" -> {<<c>> : c \in Lines("out", Units, BOOLEAN)}
               [] op = "checkout" -> CheckoutPlans
               [] op = "exchange" -> ExchangePlans

ItemFactorRaw(c)  == Conversion(c.p, c.uom)                                            \* mutant
ItemFactorBase(c) == 1                                                                \* mutant
\* checkout falls back to factor 1 for a unit that is not configured (the call
\* of reduceProductStock refuses such a line later).
ItemFactor(c) == IF Conversion(c.p, c.uom) = 0 THEN 1 ELSE Conversion(c.p, c.uom)

Busy(s) == \E t \in Sessions \ {s} : pc[t] # "idle"

\* Bound: a request starts only while few movements have been committed.
RoomToMove(s) == MapThenSumSet(LAMBDA p : Len(moves[p]), Products) <
                     IF Busy(s) THEN MaxMoves ELSE MaxAlone

Start(s) ==
    /\ pc[s] = "idle"
    /\ \E op \in Operations : \E calls \in Plans(op) :
        /\ RoomToMove(s)
        /\ plan' = [plan EXCEPT ![s] = calls]
        /\ tx' = [tx EXCEPT ![s].items =
                     IF op = "checkout"
                     THEN [k \in DOMAIN calls |->
                              [p |-> calls[k].p, base |-> calls[k].n * ItemFactor(calls[k])]]
                     ELSE <<>>]
    /\ Goto(s, "read")
    /\ overlapped' = (overlapped \/ Busy(s))
    /\ UNCHANGED <<product, ledger, lock, opening>>

-----------------------------------------------------------------------------
(* One call of the inventory service.                                       *)

Current(s) == Head(plan[s])
IsSale(s)  == tx[s].items # <<>>

\* The quantity a call c computes from the quantity q it has read.
Target(c, q) == LET base == c.n * Conversion(c.p, c.uom)
                IN  CASE c.kind = "adjust" -> base
                      [] c.kind = "in"     -> q + base
                      [] c.kind = "out"    -> q - base

InsufficientByOne(c, new) == c.kind = "out" /\ new < -1 /\ ~c.override                 \* mutant
Insufficient(c, new) == c.kind = "out" /\ new < 0 /\ ~c.override

\* validateAndGetProduct, and the computation of the new quantity.
Read(s) ==
    LET c   == Current(s)
        q   == Row(s, c.p).qty
        new == Target(c, q)
    IN  /\ pc[s] = "read"
        /\ Conversion(c.p, c.uom) # 0
        /\ tx' = [tx EXCEPT ![s] = [@ EXCEPT !.seen = q, !.new = new]]
        /\ \/ Insufficient(c, new) /\ Goto(s, "refuse")
           \/ ~Insufficient(c, new) /\ Goto(s, IF c.kind = "adjust" THEN "log" ELSE "write")
        /\ UNCHANGED <<product, ledger, lock, plan, history>>

\* UOMMismatchException.
RefuseUnit(s) ==
    /\ pc[s] = "read"
    /\ Conversion(Current(s).p, Current(s).uom) = 0
    /\ Finish(s)
    /\ UNCHANGED <<product, ledger, history>>

RefusalFlags(s) == LockFree(Current(s).p, s)

\* InsufficientStockException: needsRecount is written first, which waits for the
\* row, and the exception rolls it back.
RefuseStock(s) ==
    /\ pc[s] = "refuse"
    /\ RefusalFlags(s)
    /\ Finish(s)
    /\ UNCHANGED <<product, ledger, history>>

FlagWhenShort(c, new, old) == IF c.kind = "adjust" THEN FALSE                          \* mutant
                              ELSE IF c.kind = "out" /\ new < -1 THEN TRUE ELSE old
\* needsRecount after a call writes quantity new to a row where it was old.
Flag(c, new, old) == IF c.kind = "adjust" THEN FALSE
                     ELSE IF c.kind = "out" /\ new < 0 THEN TRUE ELSE old

\* The call is over: the next one, or the end of the transaction.
Advance(s) == /\ plan' = [plan EXCEPT ![s] = Tail(@)]
              /\ Goto(s, IF Len(plan[s]) = 1 THEN "commit" ELSE "read")

Write(s) ==
    LET c == Current(s)
    IN  /\ pc[s] = "write"
        /\ LockFree(c.p, s)
        /\ lock' = [lock EXCEPT ![c.p] = s]
        /\ tx' = [tx EXCEPT ![s].draft[c.p] =
                     [qty     |-> tx[s].new,
                      recount |-> Flag(c, tx[s].new, Row(s, c.p).recount)]]
        /\ \/ c.kind = "adjust" /\ Advance(s)
           \/ c.kind # "adjust" /\ Goto(s, "log") /\ UNCHANGED plan
        /\ UNCHANGED <<product, ledger, history>>

LoggedOpening(s) == qty[Current(s).p]                                                 \* mutant
\* The level a movement is logged with.
LoggedBefore(s) == tx[s].seen
LoggedAfter(s)  == tx[s].new
\* The reason of a forced stock-out says so (the isOverride column keeps its default).
Overridden(c, new) == c.kind = "out" /\ c.override /\ new < 0

\* The row is inserted.  Its id is of this moment (its date too, unless an adjustment
\* brings one), its place in moves of the commit: of two adjustments of one product,
\* the one with the smaller id may be the one that lasts.
Log(s) ==
    LET c == Current(s)
    IN  /\ pc[s] = "log"
        /\ tx' = [tx EXCEPT ![s].moves[c.p] =
                     Append(@, [kind |-> c.kind, prev |-> LoggedBefore(s), new |-> LoggedAfter(s),
                                overridden |-> Overridden(c, LoggedAfter(s)),
                                sale |-> IsSale(s)])]
        /\ \/ c.kind = "adjust" /\ Goto(s, "write") /\ UNCHANGED plan
           \/ c.kind # "adjust" /\ Advance(s)
        /\ UNCHANGED <<product, ledger, lock, history>>

Commit(s) ==
    /\ pc[s] = "commit"
    /\ qty'     = [p \in Products |-> Row(s, p).qty]
    /\ recount' = [p \in Products |-> Row(s, p).recount]
    /\ moves'   = [p \in Products |-> moves[p] \o tx[s].moves[p]]
    /\ items'   = items \o tx[s].items
    /\ Finish(s)
    /\ UNCHANGED <<factor, history>>

\* A later check that fails, the transaction timeout, a lost connection, a crash.
Abort(s) ==
    /\ pc[s] # "idle"
    /\ Finish(s)
    /\ UNCHANGED <<product, ledger, history>>

\* s waits for a row that t has written.
WaitsFor(s, t) == /\ s # t
                  /\ pc[s] \in {"write", "refuse"}
                  /\ lock[Current(s).p] = t
Deadlocked(s) == \E D \in SUBSET Sessions :
                     /\ s \in D
                     /\ \A t \in D : (\E u \in D : WaitsFor(t, u)) /\ (\E u \in D : WaitsFor(u, t))

\* PostgreSQL ends one transaction of a cycle of waiters.
BreakDeadlock(s) ==
    /\ Deadlocked(s)
    /\ Finish(s)
    /\ UNCHANGED <<product, ledger, history>>

\* ProductsService.updateProduct: the units are replaced, and needsRecount is set
\* or cleared by hand.  Its last statement writes the product row.
UpdateProduct(p) ==
    /\ lock[p] = Nobody
    /\ \E f \in Factors \cup {0, factor[p]}, flag \in BOOLEAN :
          /\ factor'  = [factor EXCEPT ![p] = f]
          /\ recount' = [recount EXCEPT ![p] = flag]
    /\ UNCHANGED <<qty, ledger, lock, pc, plan, tx, history>>

-----------------------------------------------------------------------------
\* The next statement of the handler session s runs.
Continue(s) == Read(s) \/ RefuseUnit(s) \/ RefuseStock(s) \/ Write(s) \/ Log(s) \/ Commit(s)

Next == \/ \E s \in Sessions : Start(s) \/ Continue(s) \/ Abort(s) \/ BreakDeadlock(s)
        \/ \E p \in Products : UpdateProduct(p)

Spec == Init /\ [][Next]_vars

\* Requests interleave, but products are edited only between them.
QuietNext == \/ \E s \in Sessions : Start(s) \/ Continue(s) \/ Abort(s) \/ BreakDeadlock(s)
             \/ (\A s \in Sessions : pc[s] = "idle") /\ \E p \in Products : UpdateProduct(p)
QuietSpec == Init /\ [][QuietNext]_vars

-----------------------------------------------------------------------------
(* PROPERTIES *)

TypeOK ==
    /\ qty \in [Products -> Int]
    /\ recount \in [Products -> BOOLEAN]
    /\ factor \in [Products -> Nat]
    /\ moves \in [Products -> Seq(Move)]
    /\ items \in Seq(Item)
    /\ lock \in [Products -> Sessions \cup {Nobody}]
    /\ pc \in [Sessions -> Steps]
    /\ plan \in [Sessions -> Seq(Call)]
    /\ tx \in [Sessions -> Tx]
    /\ opening \in [Products -> Nat]
    /\ overlapped \in BOOLEAN

\* The quantity of a product is what its last committed movement says, and the
\* opening quantity before the first one: of two requests that overwrite each
\* other's quantity, the one that commits last is also last in the ledger.
LastMoveIsLevel ==
    \A p \in Products :
        qty[p] = IF moves[p] = <<>> THEN opening[p] ELSE moves[p][Len(moves[p])].new

\* Stock below zero always has an overridden stock-out in its ledger, in every
\* interleaving: InsufficientStockException is never bypassed by a stale read, a
\* refused line or a later line of the same request.
NegativeHasOverride ==
    \A p \in Products : qty[p] < 0 =>
        \E k \in DOMAIN moves[p] : moves[p][k].overridden

\* A movement starts from the level the one before it left ("DB level before
\* change", schema.prisma:399): the ledger of a product is a chain.
LevelBeforeChange ==
    \A p \in Products : \A k \in DOMAIN moves[p] :
        moves[p][k].prev = IF k = 1 THEN opening[p] ELSE moves[p][k - 1].new

\* It is one as long as requests follow one another, also for the two calls of an
\* exchange of a product for itself.
ChainWhenAlone == ~overlapped => LevelBeforeChange

\* What the invoices say was deducted ("Converted inventory deduction",
\* schema.prisma:62) is what the movements of POS sales took.
TakenBy(m) == SumFunctionOnSet([k \in DOMAIN m |-> IF m[k].sale THEN m[k].prev - m[k].new ELSE 0],
                               DOMAIN m)
\* What the first n of some invoice lines bill of product p.
BilledBy(rows, p, n) ==
    SumFunctionOnSet([k \in DOMAIN rows |-> IF rows[k].p = p THEN rows[k].base ELSE 0], 1 .. n)
SoldIsDeducted == \A p \in Products : BilledBy(items, p, Len(items)) = TakenBy(moves[p])

\* As long as requests follow one another, a step that leaves a product below zero
\* with less stock than before flags it for a recount ("Set to TRUE during forced
\* stock-out overrides", schema.prisma:319).
ShortageFlagged ==
    [][~overlapped => \A p \in Products : qty'[p] < 0 /\ qty'[p] < qty[p] => recount'[p]]_vars

\* The book of the products, as StockBook sees it: level and forcing of every movement.
Entries(m) == [k \in DOMAIN m |-> [level |-> m[k].new, forced |-> m[k].overridden]]
BookOfRows == [p \in Products |-> Entries(moves[p])]
Book == INSTANCE StockBook WITH level <- qty, book <- BookOfRows

\* In every interleaving of requests the committed rows behave as a book that is only
\* added to: a level changes together with movements that explain it, two requests that
\* overwrite each other included, and goes below zero only with an override.
ImplementsBook == Book!Spec

-----------------------------------------------------------------------------
(* The inductive invariant behind LastMoveIsLevel and NegativeHasOverride.  *)
(* A call is half done between its log and its write; everywhere else, what *)
(* a transaction has written and what it has logged agree.                  *)

LastNew(m) == m[Len(m)].new
Forced(m)  == \E k \in DOMAIN m : m[k].overridden

\* A session that is serving a call has one; an idle one has nothing.
LocalsFit ==
    \A s \in Sessions :
        /\ pc[s] = "idle" => tx[s] = NoTx /\ \A p \in Products : lock[p] # s
        /\ pc[s] \in {"read", "refuse", "write", "log"} => plan[s] # <<>>

\* Session s is in the middle of a call on p.
HalfDone(s, p) == pc[s] \in {"write", "log"} /\ Current(s).p = p

\* A session that is not in the middle of a call on p has locked the row exactly
\* if it has logged a movement, and the last one says what the row will hold.
WritesAreLogged ==
    \A s \in Sessions, p \in Products : ~HalfDone(s, p) =>
        /\ lock[p] = s <=> tx[s].moves[p] # <<>>
        /\ lock[p] = s => tx[s].draft[p].qty = LastNew(tx[s].moves[p])

\* In the middle of a call, the half that is done is done with the new quantity.
HalvesAgree ==
    \A s \in Sessions :
        LET p == Current(s).p
        IN  /\ pc[s] = "log" /\ Current(s).kind # "adjust" =>
                   lock[p] = s /\ tx[s].draft[p].qty = tx[s].new
            /\ pc[s] = "write" /\ Current(s).kind = "adjust" =>
                   tx[s].moves[p] # <<>> /\ LastNew(tx[s].moves[p]) = tx[s].new

\* The call session s is in the middle of may take p below zero.
Forcing(s, p) == HalfDone(s, p) /\ Overridden(Current(s), tx[s].new)

\* What makes a negative quantity of p legitimate in the eyes of session s.
Excused(s, p) == Forced(moves[p]) \/ Forced(tx[s].moves[p]) \/ Forcing(s, p)

\* No session is about to make a quantity negative without an excuse.
NegativesExcused ==
    \A s \in Sessions, p \in Products :
        /\ lock[p] = s /\ tx[s].draft[p].qty < 0 => Excused(s, p)
        /\ HalfDone(s, p) /\ tx[s].new < 0 => Excused(s, p)

IInv == /\ TypeOK
        /\ LocalsFit
        /\ WritesAreLogged
        /\ HalvesAgree
        /\ NegativesExcused
        /\ LastMoveIsLevel
        /\ NegativeHasOverride

-----------------------------------------------------------------------------
(* Behind ChainWhenAlone and ShortageFlagged: what a request that is alone   *)
(* has read is still what the row holds, and what it has written is flagged. *)

TakesTurns == ~overlapped =>
    \A s, t \in Sessions : pc[s] # "idle" /\ pc[t] # "idle" => s = t

\* Each movement of m starts from the level before it, the first from q.
Chained(m, q) == \A k \in DOMAIN m : m[k].prev = IF k = 1 THEN q ELSE m[k - 1].new

\* The level p has in the eyes of s, by what s has logged.
LevelFor(s, p) == IF tx[s].moves[p] = <<>> THEN qty[p] ELSE LastNew(tx[s].moves[p])

\* Session s is in a call it has not logged yet.
Unlogged(s) == \/ pc[s] = "log"
               \/ pc[s] = "write" /\ Current(s).kind # "adjust"

ChainsGrow == ~overlapped =>
    \A s \in Sessions :
        /\ pc[s] # "idle" => \A p \in Products : Chained(tx[s].moves[p], qty[p])
        /\ Unlogged(s) => tx[s].seen = LevelFor(s, Current(s).p)

\* A quantity about to be written is short only if it takes something off.
WritesFlagged == ~overlapped =>
    \A s \in Sessions :
        /\ \A p \in Products : lock[p] = s =>
               LET row == tx[s].draft[p] IN row.qty < 0 /\ row.qty < qty[p] => row.recount
        /\ pc[s] \in {"log", "write"} /\ Current(s).kind = "adjust" => tx[s].new >= 0
        /\ pc[s] = "write" /\ Current(s).kind = "in" => tx[s].new > Row(s, Current(s).p).qty

AloneInv == TakesTurns /\ ChainsGrow /\ WritesFlagged /\ ChainWhenAlone

-----------------------------------------------------------------------------
(* Behind SoldIsDeducted: the lines a checkout has still to deduct are the   *)
(* last ones of its invoice, with the factors of now, and what it has logged *)
(* is what the lines before them bill.                                       *)

LinesDone(s) == Len(tx[s].items) - Len(plan[s])

LinesLeft ==
    \A s \in Sessions : IsSale(s) =>
        /\ LinesDone(s) >= 0
        /\ \A k \in DOMAIN plan[s] :
               /\ plan[s][k].kind = "out"
               /\ tx[s].items[LinesDone(s) + k] =
                      [p |-> plan[s][k].p, base |-> plan[s][k].n * ItemFactor(plan[s][k])]
        /\ pc[s] \in {"write", "log"} =>
               tx[s].new = tx[s].seen - tx[s].items[LinesDone(s) + 1].base

DeductedSoFar ==
    \A s \in Sessions :
        /\ pc[s] \in {"idle", "commit"} => plan[s] = <<>>
        /\ \A p \in Products : TakenBy(tx[s].moves[p]) = BilledBy(tx[s].items, p, LinesDone(s))

SaleInv == LinesLeft /\ DeductedSoFar /\ SoldIsDeducted
=============================================================================
