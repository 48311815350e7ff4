----------------------------- MODULE Procurement -----------------------------
(***************************************************************************)
(* Purchase orders and deliveries: an order is placed for quantities of      *)
(* products, deliveries receive them in any number of parts, each of them    *)
(* adds to the stock of its products, mixes its cost into theirs (weighted   *)
(* average) and sets the status of the order; staff set the status by hand.  *)
(*                                                                          *)
(* Database statements are atomic, read committed data, and an UPDATE locks  *)
(* its row to the end of the transaction.  Stock is changed by deliveries    *)
(* alone; the other operations on it are in StockLedger.                    *)
(***************************************************************************)
EXTENDS Integers, FiniteSetsExt

CONSTANTS
    Orders,        \* ids a purchase order can take (bounds the orders)
    Products,
    Lines,         \* what may be ordered of a product, see Line
    Amounts,       \* base quantities a delivery may receive of a product
    Openings,      \* stock a product may start with, also negative
    Prices,        \* cost a product may start with, in cents
    Sessions,      \* HTTP requests that may be in progress at once
    MaxDelivered,  \* bound: no delivery of a product that has had so much
    Nobody         \* no lock holder, no order

\* The lines of one product, consolidated, with the conversion factor they resolve
\* to; a cost, which may be 0, that the client or the unit has named, or none.
Line == [quantity : Nat \ {0}, factor : Nat \ {0}, named : BOOLEAN, cost : Nat]

ASSUME LinesTyped == Lines \subseteq Line
ASSUME AmountsPositive == Amounts \subseteq Nat \ {0}
ASSUME OpeningsAreIntegers == Openings \subseteq Int
ASSUME PricesNatural == Prices \subseteq Nat
ASSUME NobodyIsNew == Nobody \notin Sessions \cup Orders

VARIABLES
    order,      \* purchase_order rows with their items
    received,   \* sum of actual_base_quantity of an order's deliveries, per product
    quantity,   \* product.current_quantity
    cost,       \* product.cost_price
    orderLock,  \* holder of each purchase_order row
    stockLock,  \* holder of each product row
    pc,         \* where each session is in its handler
    job,        \* what it was asked to do
    tx,         \* what it has read and written
    opening,    \* history: the stock a product started with
    delivered,  \* history: what committed deliveries brought of a product
    paid,       \* history: costs a unit of a product was had for
    byHand,     \* history: orders whose progress was set by staff
    overlapped  \* history: orders two requests have worked on at once

tables  == <<order, received, quantity, cost>>
locks   == <<orderLock, stockLock>>
history == <<opening, delivered, paid>>
races   == <<byHand, overlapped>>
vars == <<tables, locks, pc, job, tx, history, races>>

-----------------------------------------------------------------------------
Statuses == {"PENDING", "PARTIALLY_FULFILLED", "FULFILLED", "CANCELLED"}
Terminal == {"FULFILLED", "CANCELLED"}
Receivable == {"PENDING", "PARTIALLY_FULFILLED"}

\* A purchase_order row and its po_item rows: the base quantity expected of a
\* product (0: no such item), and what one of its factor base units costs.
OrderRow == [status : Statuses \cup {"NONE"}, expected : [Products -> Nat],
             factor : [Products -> Nat \ {0}], unitCost : [Products -> Nat]]
NoLine == [quantity |-> 0, factor |-> 1, named |-> FALSE, cost |-> 0]

Zero == [p \in Products |-> 0]
NoOrder == [status |-> "NONE", expected |-> Zero, factor |-> [p \in Products |-> 1],
            unitCost |-> Zero]

Steps == {"idle", "products", "reprice", "read", "write", "status", "commit", "update"}
Job == [op : {"none", "deliver", "update"}, order : Orders \cup {Nobody},
        items : [Products -> Nat], status : Statuses]
Tx  == [past : [Products -> Nat], qty : [Products -> Int], cost : [Products -> Nat],
        left : SUBSET Products, at : SUBSET Products, read : Int, status : Statuses,
        newQty : [Products -> Int], newCost : [Products -> Nat]]

NoJob == [op |-> "none", order |-> Nobody, items |-> Zero, status |-> "PENDING"]
NoTx  == [past |-> Zero, qty |-> Zero, cost |-> Zero, left |-> {}, at |-> {}, read |-> 0,
          status |-> "PENDING", newQty |-> Zero, newCost |-> Zero]

Goto(s, step) == pc' = [pc EXCEPT ![s] = step]
Free(holder, s) == holder \in {Nobody, s}
Items(items) == {p \in Products : items[p] > 0}

\* The request of s ends: its locks are released, its locals are gone.
Finish(s) ==
    /\ Goto(s, "idle")
    /\ job' = [job EXCEPT ![s] = NoJob]
    /\ tx'  = [tx EXCEPT ![s] = NoTx]
    /\ orderLock' = [o \in Orders |-> IF orderLock[o] = s THEN Nobody ELSE orderLock[o]]
    /\ stockLock' = [p \in Products |-> IF stockLock[p] = s THEN Nobody ELSE stockLock[p]]

\* A request on order o begins; another one may be working on it.
Overlap(s, o) ==
    overlapped' = IF \E other \in Sessions \ {s} : job[other].order = o
                  THEN overlapped \cup {o} ELSE overlapped

Init ==
    /\ order = [o \in Orders |-> NoOrder]
    /\ received = [o \in Orders |-> Zero]
    /\ quantity \in [Products -> Openings]
    /\ cost \in [Products -> Prices]
    /\ orderLock = [o \in Orders |-> Nobody]
    /\ stockLock = [p \in Products |-> Nobody]
    /\ pc  = [s \in Sessions |-> "idle"]
    /\ job = [s \in Sessions |-> NoJob]
    /\ tx  = [s \in Sessions |-> NoTx]
    /\ opening = quantity
    /\ delivered = Zero
    /\ paid = [p \in Products |-> {cost[p]}]
    /\ byHand = {}
    /\ overlapped = {}

-----------------------------------------------------------------------------
(* PurchaseOrdersService.createPurchaseOrder.  The cost read of a product is  *)
(* the quote where no other is named; one statement creates the order.       *)

UnitCost(line, p) == IF line.named THEN line.cost ELSE cost[p] * line.factor
Expected(line) == line.quantity * line.factor

Create ==
    /\ \E o \in Orders, lines \in [Products -> Lines \cup {NoLine}] :
        /\ order[o].status = "NONE"
        /\ \E p \in Products : lines[p] # NoLine
        /\ order' = [order EXCEPT ![o] =
              [status |-> "PENDING",
               expected |-> [p \in Products |-> Expected(lines[p])],
               factor   |-> [p \in Products |-> lines[p].factor],
               unitCost |-> [p \in Products |-> UnitCost(lines[p], p)]]]
    /\ UNCHANGED <<received, quantity, cost, locks, pc, job, tx, history, races>>

-----------------------------------------------------------------------------
(* DeliveriesService.processDelivery                                         *)

\* The order with its items and past deliveries is read outside the transaction.
\* A payload that names a product twice is refused (167), one the order lacks too.
StartDelivery(s) ==
    /\ pc[s] = "idle"
    /\ \E o \in Orders, items \in [Products -> Amounts \cup {0}] :
        /\ order[o].status \in Receivable
        /\ items # Zero
        /\ Items(items) \subseteq Items(order[o].expected)
        /\ \A p \in Items(items) : delivered[p] < MaxDelivered
        /\ job' = [job EXCEPT ![s] = [op |-> "deliver", order |-> o, items |-> items,
                                      status |-> "PENDING"]]
        /\ tx' = [tx EXCEPT ![s].past = received[o], ![s].left = Items(items)]
        /\ Overlap(s, o)
    /\ Goto(s, "products")
    /\ UNCHANGED <<tables, locks, history, byHand>>

\* productMap, also read outside the transaction.
ReadProducts(s) ==
    /\ pc[s] = "products"
    /\ tx' = [tx EXCEPT ![s].qty = quantity, ![s].cost = cost]
    /\ Goto(s, "reprice")
    /\ UNCHANGED <<tables, locks, job, history, races>>

\* What toFixed(2) may make of n / d cents: exactly between two cents, the double it is
\* given may lie a bit above or below.
RoundedDown(n, d) == (2 * n + d - 1) \div (2 * d)
RoundedUp(n, d)   == (2 * n + d) \div (2 * d)
Rounded(n, d) == {RoundedDown(n, d), RoundedUp(n, d)}

\* Weighted average cost per base unit: what is there, if anything, at its cost, and
\* what comes at the unit cost of the order over its factor.
WeightedPerBox(q, c, r, u, f) ==  \* mutant
    IF q > 0 THEN Rounded(q * c + r * u, q + r) ELSE {u}
WeightedByTotal(q, c, r, u, f) ==  \* mutant
    IF q + r > 0 THEN Rounded(q * c * f + r * u, f * (q + r)) ELSE Rounded(u, f)
Weighted(q, c, r, u, f) ==
    IF q > 0 THEN Rounded(q * c * f + r * u, f * (q + r)) ELSE Rounded(u, f)

NewCosts(s, p) ==
    LET o == job[s].order
    IN  Weighted(tx[s].qty[p], tx[s].cost[p], job[s].items[p],
                 order[o].unitCost[p], order[o].factor[p])

RepricedWhenNew(s, p) == IF tx[s].cost[p] \in NewCosts(s, p) THEN {} ELSE {p}  \* mutant
\* Products whose row is updated, and so locked, before their stock is read.
Repriced(s, p) == {p}

\* Step A, for the next item: the product's cost_price.
Reprice(s) ==
    /\ pc[s] = "reprice"
    /\ \E p \in tx[s].left :
        /\ Free(stockLock[p], s)
        /\ stockLock' = [q \in Products |-> IF q \in Repriced(s, p) THEN s ELSE stockLock[q]]
        /\ \E new \in NewCosts(s, p) :
              tx' = [tx EXCEPT ![s].newCost[p] = new, ![s].at = {p}, ![s].left = @ \ {p}]
    /\ Goto(s, "read")
    /\ UNCHANGED <<tables, orderLock, job, history, races>>

\* Step B, InventoryService.restockProductStock: read, then write an absolute quantity.
ReadStock(s) ==
    /\ pc[s] = "read"
    /\ \E p \in tx[s].at : tx' = [tx EXCEPT ![s].read = quantity[p]]
    /\ Goto(s, "write")
    /\ UNCHANGED <<tables, locks, job, history, races>>

WriteStock(s) ==
    /\ pc[s] = "write"
    /\ \E p \in tx[s].at :
        /\ Free(stockLock[p], s)
        /\ stockLock' = [stockLock EXCEPT ![p] = s]
        /\ tx' = [tx EXCEPT ![s].newQty[p] = tx[s].read + job[s].items[p]]
    /\ Goto(s, IF tx[s].left = {} THEN "status" ELSE "reprice")
    /\ UNCHANGED <<tables, orderLock, job, history, races>>

ReceivedNow(s, p) == job[s].items[p]  \* mutant
\* What has come of a product, as far as this request knows.
Received(s, p) == tx[s].past[p] + job[s].items[p]

ReachedByItems(s) ==  \* mutant
    \A p \in Items(job[s].items) : Received(s, p) >= order[job[s].order].expected[p]
Reached(s) ==
    \A p \in Items(order[job[s].order].expected) :
        Received(s, p) >= order[job[s].order].expected[p]

SetStatus(s) ==
    /\ pc[s] = "status"
    /\ LET o == job[s].order
       IN  /\ Free(orderLock[o], s)
           /\ orderLock' = [orderLock EXCEPT ![o] = s]
    /\ tx' = [tx EXCEPT ![s].status =
                 IF Reached(s) THEN "FULFILLED" ELSE "PARTIALLY_FULFILLED"]
    /\ Goto(s, "commit")
    /\ UNCHANGED <<tables, stockLock, job, history, races>>

CommitDelivery(s) ==
    /\ pc[s] = "commit"
    /\ LET o == job[s].order
           items == job[s].items
           came == Items(items)
       IN  /\ order' = [order EXCEPT ![o].status = tx[s].status]
           /\ received' = [received EXCEPT ![o] = [p \in Products |-> @[p] + items[p]]]
           /\ quantity' = [p \in Products |-> IF p \in came THEN tx[s].newQty[p] ELSE quantity[p]]
           /\ cost' = [p \in Products |-> IF p \in came THEN tx[s].newCost[p] ELSE cost[p]]
           /\ delivered' = [p \in Products |-> delivered[p] + items[p]]
           /\ paid' = [p \in Products |->
                 IF p \in came
                 THEN paid[p] \cup Rounded(order[o].unitCost[p], order[o].factor[p])
                 ELSE paid[p]]
    /\ Finish(s)
    /\ UNCHANGED <<opening, races>>

-----------------------------------------------------------------------------
(* PurchaseOrdersService.updatePurchaseOrderStatus                           *)

Immutable(o) == order[o].status \in Terminal
HasDeliveries(o) == Items(received[o]) # {}

\* The order and its deliveries are read.
StartUpdate(s) ==
    /\ pc[s] = "idle"
    /\ \E o \in Orders, status \in Statuses :
        /\ order[o].status # "NONE"
        /\ ~Immutable(o)
        /\ ~(HasDeliveries(o) /\ status = "CANCELLED")
        /\ job' = [job EXCEPT ![s] = [op |-> "update", order |-> o, items |-> Zero,
                                      status |-> status]]
        /\ Overlap(s, o)
    /\ Goto(s, "update")
    /\ UNCHANGED <<tables, locks, tx, history, byHand>>

\* One statement, committed at once, whatever the row has become.
Update(s) ==
    /\ pc[s] = "update"
    /\ LET o == job[s].order
       IN  /\ orderLock[o] = Nobody
           /\ order' = [order EXCEPT ![o].status = job[s].status]
           /\ byHand' = IF job[s].status = "CANCELLED" THEN byHand ELSE byHand \cup {o}
    /\ Finish(s)
    /\ UNCHANGED <<received, quantity, cost, history, overlapped>>

-----------------------------------------------------------------------------
\* An exception, a deadlock, a timeout or a crash ends a request, rolled back.
Abort(s) ==
    /\ pc[s] # "idle"
    /\ Finish(s)
    /\ UNCHANGED <<tables, history, races>>

Next ==
    \/ Create
    \/ \E s \in Sessions :
        \/ StartDelivery(s) \/ ReadProducts(s) \/ Reprice(s) \/ ReadStock(s)
        \/ WriteStock(s) \/ SetStatus(s) \/ CommitDelivery(s)
        \/ StartUpdate(s) \/ Update(s) \/ Abort(s)

Spec == Init /\ [][Next]_vars

-----------------------------------------------------------------------------
\* Types: in particular no cost is ever negative, however low the stock.
TypeOK ==
    /\ order \in [Orders -> OrderRow]
    /\ received \in [Orders -> [Products -> Nat]]
    /\ quantity \in [Products -> Int]
    /\ cost \in [Products -> Nat]
    /\ orderLock \in [Orders -> Sessions \cup {Nobody}]
    /\ stockLock \in [Products -> Sessions \cup {Nobody}]
    /\ pc \in [Sessions -> Steps]
    /\ job \in [Sessions -> Job]
    /\ tx \in [Sessions -> Tx]
    /\ opening \in [Products -> Int]
    /\ delivered \in [Products -> Nat]
    /\ paid \in [Products -> SUBSET Nat]
    /\ byHand \subseteq Orders
    /\ overlapped \subseteq Orders

\* The stock of a product is what it started with and every delivery of it, however
\* deliveries of the same and of different orders interleave: restockProductStock
\* reads after the delivery has locked the row.
StockedAsReceived ==
    \A p \in Products : quantity[p] = opening[p] + delivered[p]

\* Whatever stale quantities and costs the average is made of, a product never costs
\* less than the cheapest or more than the dearest unit it was ever had for.
CostWithinPaid ==
    \A p \in Products : Min(paid[p]) <= cost[p] /\ cost[p] <= Max(paid[p])

\* An order is FULFILLED only when everything expected has come, also when its
\* deliveries overlap - unless staff said so.
FulfilledIsReceived ==
    \A o \in Orders \ byHand : order[o].status = "FULFILLED" =>
        \A p \in Products : received[o][p] >= order[o].expected[p]

\* Without overlapping requests the status tells what has come: PENDING and CANCELLED
\* that nothing has, PARTIALLY_FULFILLED that something is missing.
StatusTellsDeliveries ==
    \A o \in Orders \ (byHand \cup overlapped) :
        /\ order[o].status \in {"PENDING", "CANCELLED"} => received[o] = Zero
        /\ order[o].status = "PARTIALLY_FULFILLED" =>
              /\ received[o] # Zero
              /\ \E p \in Products : received[o][p] < order[o].expected[p]

\* "Orders that are already FULFILLED or CANCELLED cannot be updated": a terminal
\* status stays, and nothing more is received, unless requests overlap.
TerminalKept ==
    [][\A o \in Orders \ overlapped : order[o].status \in Terminal =>
          order'[o] = order[o] /\ received'[o] = received[o]]_vars
=============================================================================
