# TLA+ verification of the hardware-store POS API

This directory models the parts of the NestJS / Prisma / PostgreSQL / Redis API
in `src/` that are hard to get right when requests overlap: credit, stock,
returns, retries, procurement, shipments, sign-in and master data. The code has no tests beyond
"should be defined", so the behaviours below are checked nowhere else.

Every module is translated from the service code; `PROJECT.json` maps each
definition to its lines. TLC checks small instances, TLAPS proves the main
safety properties for every value of the constants.

File names are shortened below: *POS* `pos/pos.service.ts`, *CUST*
`customers/customers.service.ts`, *INV* `inventory/inventory.service.ts`, *DEL*
`deliveries/deliveries.service.ts`, *PO* `purchase-orders/purchase-orders.service.ts`,
*SHP* `shipments/shipments.service.ts`, *FWD* `forwarder/forwarder.service.ts`,
*APP* `approval/approval.service.ts`, *RET* `returns/returns.service.ts`, *REF*
`returns/handlers/refund/refund-approval.handler.ts`, *IDEM*
`common/interceptors/idempotency.interceptor.ts`, *AUTH* `auth/auth.service.ts`,
*STAFF* `staff-user/staff-user.service.ts`, *PROD* `products/products.service.ts`, *SUP*
`suppliers/suppliers.service.ts` (all under `src/src/`), *SCH* `src/prisma/schema.prisma`.

## 1. Inventory

| Component | State it keeps | Operations | Hard behaviours | Module |
|---|---|---|---|---|
| Wholesale credit (CUST) | `wholesale_profile` (limit, balance), `credit_payment`, `customer_payment` | collect a payment, raise the balance, update / downgrade a customer, flag overdue rows | absolute writes from earlier reads, FIFO settlement against new sales and the daily scan, check-then-delete | WholesaleCredit, CreditLedger, CreditBooks |
| Checkout (POS) | none of its own; writes credit, stock, sales | checkout | a long transaction over both halves; limit checked long before the increment | WholesaleCredit (credit), StockLedger (stock) |
| Daily task (`tasks/`) | none | scan at 6 AM | competes with settlements | WholesaleCredit |
| Inventory (INV) | `product.current_quantity`, `needsRecount`, `stock_movement` | adjust, stock in, stock out, assign bin | reads without a lock, locks taken in the order of the lines | StockLedger, StockBook |
| Products (PROD) | product and its units | create, update, delete | units replaced while sales convert with them; base unit, attributes and history checked first and written later | StockLedger (units), Catalogue |
| Approvals (APP) | `approval_request` | request, approve, reject | status checked, then updated by id | ReturnApproval |
| Returns (RET, REF, exchange handler) | `return`, `exchange` | refund and exchange requests and their execution | debt reduction fixed when requested, executed later; opposite lock order to collections | ReturnApproval, StockLedger |
| Idempotency (IDEM) | Redis `idempotency:<key>` | wraps 28 routes | lookup and mark are two commands; crash, expiry, failing handler | Idempotency |
| Purchase orders (PO) | `purchase_order`, `po_item` | create, set the status | immutability of terminal states against deliveries | Procurement |
| Deliveries (DEL) | `delivery`, `delivery_item` | process a delivery | order and products are read before the transaction | Procurement |
| Shipments (SHP) | `shipment` | create, set status, edit, delete | no transaction at all | Shipments |
| Forwarders (FWD) | `forwarder` | create, update, delete or deactivate | count-then-delete against new shipments | Shipments |
| Suppliers (SUP) | `supplier` | create, update, delete or deactivate | count-then-delete and the active check of an order against each other | Catalogue |
| Authentication (AUTH) | Redis `refresh_token:<user>:<id>` | sign in, refresh, log out | rotation by get, delete, set in two stores; lost answers | AuthTokens |
| Staff users (STAFF) | `staff_user` | create, update | deactivation and new passwords against sign-in and refresh | AuthTokens |
| Sales and receipts | `transaction` | insert, by checkout; queries | invoice numbers from a sequence | part of checkout |
| Bin locations, settings, categories | one row each | single statements, queries | none | not modelled |
| HTTP layer, Prisma client, seeds, generated code | none | - | - | external |

How they interact: a controller passes the idempotency interceptor, then calls one
service; services share rows of one database. Checkout, exchanges and deliveries
call `InventoryService` inside their transaction; checkout calls
`adjustWholesaleBalance`; `approveRequest` runs the registered refund or exchange
handler in its own transaction; refunds write the same `credit_payment` and
profile rows as collections and checkout. Nothing is shared in memory, so that
several API processes behave as one.

What makes each component correct:

* credit: invoices are paid oldest first, only with money, never grow, never
  reopen; status and remaining balance agree; the balance covers the invoices;
  limits hold; no profile with debt or history is dropped.
* stock: the quantity is what the ledger says; each movement starts where the
  one before ended; nothing is sold below zero without an override; sold is deducted.
* returns: an approved request is executed once, a rejected one never; a credit
  row owes its credit less payments and refunds.
* idempotency: one key, one execution; answers are true; no mark stays behind.
* procurement: stock adds up; costs stay within what was paid; the status tells
  what has come; terminal states are final.
* shipments: one active shipment per sale; delivered means dispatched; delivered
  is final.
* sign-in: a refresh token is exchanged once, a session has one line of tokens and keeps
  it, pairs go to active users.
* master data: what is referred to is there; movements are in the base unit; no two
  products with the same attributes by accident; orders go to active suppliers.

`PROJECT.json` lists the hazards behind these at their lines.

## 2. Plan

Done, in this order: WholesaleCredit with CreditLedger, StockLedger,
ReturnApproval, Idempotency, Procurement, Shipments, StockBook as the abstract
specification of StockLedger, AuthTokens, Catalogue, CreditBooks over WholesaleCredit and
CreditLedger. Each component has its theorems in a `...Proofs` module, the two that live in
Redis, AuthTokens and Idempotency, together in RedisProofs. SumTheorems holds the facts
about finite sums the others cite. `MC...` modules hold what only TLC needs. The components
share no variables; where two of them describe the same rows (credit in WholesaleCredit and
ReturnApproval, stock in StockLedger and Procurement, orders in Procurement and
Catalogue) each names what it leaves to the other.

Worth doing next:

1. A composition of WholesaleCredit and ReturnApproval: refunds against checkout
   and limits, `StatusMatchesBalance` where the code breaks it.
2. Order lines with the base unit they were quoted in: Procurement over Catalogue.
3. An abstract specification of the idempotency cache (each key runs its handler at most
   once until its entry lapses), and of an order's deliveries, with their refinements.

## 3. How the code is modelled

**Database.** A *session* is one HTTP request in progress; every `await` lets
others run, so a statement is an action. PostgreSQL runs READ COMMITTED (Prisma's
default; no caller asks for more): a statement sees committed rows and the
transaction's own writes. An UPDATE takes the row lock, held in a `...lock`
variable to the end of the transaction; another writer of the row is disabled until
then. Writes are kept in `tx[s]` and installed by `Commit`. `Abort` may end any
request at any step: a later exception, Prisma's transaction timeout, a lost
connection, a crash; the transaction rolls back. A `findUnique` with `include`
is taken as one read, although Prisma may send two statements. An UPDATE that was
waiting sees the new version, which is why an increment (`increment:`) is safe and an
assignment of a value read before is not. A foreign key is a guard of the statement that
would break it.

**Requests that do nothing.** A request refused before its first write leaves no
trace and has no action. A refusal that waits for a lock or follows a write has one.

**Data.** Money and quantities are integers; `Decimal` arithmetic is exact. The weighted
average of a delivery alone is computed in JavaScript's doubles and cut by `toFixed(2)`
(DEL:233): `Rounded` is the nearest cent, and either neighbour when the exact value lies half
way between two, as the double may be on either side. Names, notes, dates of record and
log lines are left out.

### WholesaleCredit and CreditLedger

`ctype`, `profiled`, `limit`, `balance`, `payments`, `invoice` are the rows; `lock`
is the lock of the profile row; rows of `credit_payment` are locked by having a draft
(`Written`). Checkout is `StartCheckout` (POS:58-146, limit), `CheckOverdue` /
`RefuseOverdue`, `RaiseBalance` (increment), `IssueInvoice`, `Commit`. Collection is
`StartCollect` (reads the balance), `PayDown` (assigns `seen - amount`), `ListOpen`,
`SettleNext` per invoice, `SettleDone`, `Commit`. `updateCustomer` runs outside any
transaction: `StartUpdate`, `CountPayments`, `ApplyUpsert` / `ApplyRetain` /
`ApplyDelete`. `MarkOverdue` is the one UPDATE of the daily task, `Tick` the clock.
`charged` and `collected` are history.

CreditLedger says what a customer may rely on: `Issue`, `Collect` (oldest first, one
invoice in part at most, in one step), `Flag`. `ImplementsLedger` is
`Ledger!Spec`, with `invoice` and `collected` mapped to themselves.

CreditBooks puts the two together and adds what the rows amount to: `ImplementsLedger`,
what a customer owes (`Owed`), the history `overlapped`, the properties of requests that
follow one another, and the inductive invariants behind all of them.

Left out: refunds (ReturnApproval has them), hence balances never fall below zero
here and `StatusMatchesBalance` speaks of credit without refunds.

### StockLedger

A request is a *plan*, the sequence of inventory calls its transaction makes: one for
the three stock routes, one per line for checkout, one or two for an exchange. No two
lines of a checkout name one product (`ItemsUnique`; the DTO refuses such a cart), but an
exchange may give a product for itself. A call is `Read` (the product and the unit), then `Write` and `Log` - for an
adjustment `Log` before `Write`, as INV:108-127 does. `RefuseUnit`, `RefuseStock` are the
exceptions (the latter waits for the row, since it sets `needsRecount` first, and then
rolls that back). `UpdateProduct` replaces the alternate unit and sets the flag.
`BreakDeadlock` is PostgreSQL's deadlock detector. `moves` is the ledger in the order of
commit, which need not be that of the rows' ids and dates (section 5), `items` the invoice lines with the base quantity they claim. The base unit of a
product is fixed here (Catalogue has its changes); `assignBin` touches a column nothing
else uses.

StockBook says what a reader of stock may rely on, without requests or locks: a book of
entries per product that only grows, a level that is what the last entry says, and a
forced entry behind a level below zero. `Book` is `INSTANCE StockBook WITH level <- qty,
book <- BookOfRows`, where `BookOfRows` keeps of each committed movement the level it
was logged with and whether it was forced; `ImplementsBook` is `Book!Spec`. A commit is one
posting to all products of the request, every other step a stutter.

`QuietSpec` lets products be edited only between requests: `SoldIsDeducted` needs
it, because checkout reads the units twice (POS:204 and INV:39).

### ReturnApproval

`rem`, `paid` are the credit rows, `balance` the profile, `request` the approval
requests with the debt reduction of their payload: `RequestReturn` computes it from the
sale as it is then, `PostRequest` (`POST /approval`) takes any payload, so any of `Claims`,
negative or more than the sale owes. `StartApprove`, `ReduceRow`, `ReduceBalance`, `MarkApproved`,
`CommitApprove` are `approveRequest` with the refund handler; `StartReject`, `Reject`
run outside a transaction; collections are as in WholesaleCredit. Returns lock the
credit row before the profile, collections the profile before rows; the deadlock that
may follow is an `Abort`. Checkout, the return window, cash and item prices are left out.

### Idempotency

`cache` is Redis, `stage` where each request is in `intercept`. `Miss` is the lookup,
`Lock` the mark, `Return` / `Throw` / `ThrowHalfDone` the handler, `Keep` / `Clear` the
asynchronous callbacks after the response, `Crash` and `Lapse` the environment. A crash
while handlers run lets any of them have committed, which `executed` counts. A
result is identified with the request that produced it, so answers can be traced.

### Procurement

`order`, `received`, `quantity`, `cost` are the rows. A delivery is `StartDelivery`
(order and past deliveries) and `ReadProducts`, both before the transaction, then per
product `Reprice`, `ReadStock`, `WriteStock`, then `SetStatus`, `CommitDelivery`.
`StartUpdate`, `Update` set the status by hand. The cost of a line is the one it names, 0
included, or else that of the product when it is placed (`UnitCost`). Order lines are consolidated per
product, since the table allows no more (SCH `@@unique([poId, productId])`).

### Shipments

No handler opens a transaction, so each is its reads and one write: `StartCreate`,
`CheckCarrier`, `Create`; `StartStatus`, `SetStatus`; `StartEdit`, `CheckCarrier`,
`Edit`; `StartDelete`, `Delete`; `StartDrop`, `Deactivate` or `Drop`. Foreign keys
are guards (`Referable`, `Unreferenced`), and `CarriersThere` says what they are for: a
deleted forwarder stays a value of `Forwarders` in the state `DELETED`, and no
shipment names one. Forwarder names are left out.

### AuthTokens

`active`, `password` are the staff row, `store` the entries in Redis, `owner` the user a
token was signed for, `known` the tokens that reached a client. Sign-in is
`StartSignin` (reads the row, AUTH:32), `VerifyPassword`; refresh `StartRefresh` (AUTH:64),
`Lookup` (AUTH:84), `Reject` (AUTH:90) or `Remove` (AUTH:95); both end in `Store`
(AUTH:144) and `Answer`. `StartLogout`, `Forget` are logout with the empty `tokenId` it is
given; `UpdateStaff`, `Fail` (Redis, the process or the answer) and the two ways of
time are the rest: `Expire`, the entry's seven days in Redis, and `Outdate`, the `exp` the
token was signed with, which comes from another setting. `LookupFails` is a cache that
answers a failed `get` as if nothing were there (AUTH:84), so that the refresh goes on to
delete the entry; a `set` or `del` is done or ends the request. The entry of a token holds its hash, so a signed token with an entry matches.
Histories: the line (`chain`) of a sign-in, how often a token was `exchanged`, how many
refreshes with it were in progress at once (`peak`), and lines that `lost` a token.

### Catalogue

`product`, `supplier`, `order` are rows, `measured` the base units in which the movements
of a product were logged, `lock` the product rows a stock transaction has written.
Products: `StartCreate`, `Insert`; `StartUpdate`, `CountMoves` (only when the base unit is
to change), `CheckSpecs`, `Save`, where attributes may be left out, set or cleared; `StartDelete` (with the counts), `Delete`. A movement is
`StartMove` (reads the unit), `WriteLevel` (locks), `LogMove` with the commit; an adjustment
logs first, which the lock of the foreign key makes equivalent here. Orders: `StartOrder`
(active supplier), `ReadItems`, `Place`. Suppliers: `CreateSupplier`, `StartEdit`,
`SetActive`, `StartDrop`, `Retire` or `Remove`. The foreign keys (`ON DELETE RESTRICT`) are
guards of `Delete`, `Remove` and `Place`. SKUs and supplier names have unique indexes
and are left to them.

### Histories that excuse races

Several properties hold only if requests do not overlap on a row. Rather than weaken
them, history variables record the overlap and the properties name it:
`overlapped`, `contested` (found vacant together / reviewed together), `expired`,
`halfDone`, `orphaned`, `byHand`, `lost`, `crossed` (the user was updated meanwhile),
`met` (another request on the same product, supplier or attributes), `entangled`,
`tolerated`. What happens when they do overlap is in section 5.

## 4. Runs

| Run | Instance | What it shows |
|---|---|---|
| `credit_interleaved` | 1 customer, 2 sessions, 3 invoices | in every interleaving: types, status agrees with balance, settlements never write stale rows, CreditLedger is implemented; while requests do not overlap: books balance and cover the invoices, the limit holds, only clear profiles are deleted |
| `credit_progress` | 2 sessions, 1 invoice, fair | requests end; past-due invoices are flagged or paid |
| `credit_lost_update` | 2 sessions | violation: a collection erases a concurrent sale |
| `stock_interleaved` | 2 products, 2 sessions, all operations | StockBook is implemented, sold is deducted; without overlap the ledger is a chain, exchanges of a product for itself included, and shortages are flagged |
| `returns_interleaved` | 2 sales, 2 requests (computed, or claiming -1 or 3), 2 sessions | rows account for payments and refunds; requests are executed as decided; balance covers rows |
| `returns_double_execution` | 1 request, 2 managers | violation: executed twice, or executed and rejected |
| `idempotency_retries` | 3 attempts, 2 keys, fair | executed once, answered truly, marks are removed |
| `idempotency_double_lookup` | 2 attempts, 1 key | violation: both execute |
| `procurement_deliveries` | 1 order, 2 products, 2 sessions | stock, cost and status, as in section 1 |
| `shipments_interleaved` | 2 sales, 2 shipments, 2 forwarders, 2 sessions | no shipment without its forwarder, one active shipment, dispatched before delivered |
| `auth_rotation` | 1 user, 2 sessions, 3 tokens, 2 passwords | tokens are rotated once, a line stays one line, sessions are kept, pairs are issued to whom they may |
| `catalogue_races` | 2 products, 1 supplier, 1 order, 2 sessions, 2 units | movements in the base unit, distinct attributes, references resolve, orders to active suppliers |

**Bounds.** Two sessions suffice for every race known here: each is a pair of a read
and a write of another request. `Invoices`, `Requests`, `Shipments`, `Orders`,
`Attempts` bound rows by their ids, which are not reused; `RoomForInvoice` keeps a sale
with details from starting that would find no id. `MaxCharged`, `MaxCollected` bound money per
customer; against amounts 1 to 3 they give partial, exact and spilling payments.
In `credit_interleaved` requests that follow one another use all of the bounds (4 and 4,
three invoices, limits 2 and 3); from the first overlap on, which `overlapped` remembers,
`CloseBounds` of MCCreditInterleaved keeps a behaviour within 3 charged, 2 collected,
two invoices and one limit.
`MaxTime` = 1 or 2 gives an invoice due before, on and after the day. `MaxItems` = 2 gives
a cart with two products in either order, hence deadlocks. `MaxMoves` bounds the movements
when a request joins another one, `MaxAlone` when it runs alone (`RoomToMove`): 2 gives a
third request after a pair. `MaxDelivered` = 4 allows two part deliveries and one
beyond what was ordered. `Factors`, `Openings` include the values at which stock
crosses zero; deliveries start at -1 and 2 pieces. A line names a cost of 0 or none.
Three `Tokens` give two sign-ins of which one refreshes, or one that refreshes twice.
`Claims` are a reduction that is none and one above what any sale of the run owes. `MaxRows` = 2 gives two products, or one and the supplier, so that `Room`
keeps a behaviour to one kind of race. Symmetry is used on ids only, and in no run with liveness.

**Deadlock** is checked in all passing runs but five that may really stop: returns (all decided,
nothing owed), idempotency (all sent and expired), procurement (order closed), shipments
(every forwarder gone), and master data (every row gone).

**Fairness** is assumed in `credit_progress` and `idempotency_retries` alone. Only requests
that have started, and the daily scan, are fair; no client has to send or repeat
anything, nothing has to fail. Strong fairness of `Continue(s)` stands for PostgreSQL's
queue of waiters: a session that waits for a row gets it before those that come later.
Handlers end because Prisma limits a transaction to seconds and Redis answers.

## 5. Where the code and its comments disagree

Shown by a run:

* `credit_lost_update`: CUST:436 "Decrements `outstanding_balance`"; CUST:493 assigns a
  value computed from an earlier read. A sale committed in between keeps its invoice
  and loses its debt.
* `returns_double_execution`: the second approval is documented to fail
  (`approval.controller.ts:120`); APP:64 and APP:105 check a status read without a lock, and the
  updates go by id, so a request is executed twice or executed and rejected.
* `idempotency_double_lookup`: IDEM:53 "Lock key to prevent concurrent processing"; IDEM:35
  and IDEM:55 are two commands.

Met while modelling; the property named can be put into the cfg given to see it:

* Stock: restock, reduce and adjust write absolute quantities from unlocked reads
  (INV:195), so of two at once one is lost and "DB level before change" (SCH:399) is untrue:
  `LevelBeforeChange` with `MCStockLedger_interleaved.cfg`. The column `isOverride`
  (SCH:402) is never set; the reason text is.
* Movements: the ledger is read by date (INV:512), and dates, like ids, are of the insert,
  before the commit. An adjustment inserts its movement (INV:115) and only then waits for
  the row, so of two at once the one logged last need not be the one that lasts; it may
  also bring a date of its own. `StockBook` speaks of the order of commit, in which the
  last entry is the level.
* Limit: checked before the stock loop, raised after it (POS:134): drop
  `~overlapped` from `LimitHeldAlone` of CreditBooks.
* Downgrade: balance, history and delete are separate statements (CUST:350-379): the
  same with `DeletedWhenClearAlone`.
* Units: the invoice and the deduction read them separately (SCH:62): `SoldIsDeducted` with
  `SPECIFICATION Spec`.
* Orders: "Enforces immutability" (PO:355) fails when a delivery or another update
  overlaps: DEL:288 and PO:393 update unconditionally. Two overlapping part deliveries leave
  PARTIALLY_FULFILLED what is complete. Drop `overlapped` from `TerminalKept` and
  `StatusTellsDeliveries`.
* Deliveries: a payload naming a product twice is always refused (DEL:167 compares the
  number of rows with the number of ids), so the consolidation at DEL:258 never sees one.
* Order lines: consolidated by product and unit (PO:103), while the constraint the comment
  cites is on the product: two units of one product are an internal error.
* Shipments: "PENDING -> DISPATCHED -> DELIVERED" (SHP:204), but DISPATCHED may go back to
  PENDING; two creates at once give a sale two active shipments (SHP:93). The check that
  the sale is not cancelled never fails, as nothing cancels a sale. Status notes are read,
  appended to and written back (SHP:177).
* Forwarders: names are compared without case (FWD:34) but the constraint is case-sensitive.
* Returns: quantities are never compared with what was sold or returned, so repeated
  returns make a remaining credit negative; a refund that leaves 0 keeps the status UNPAID
  (REF:93), which the daily scan then flags.
* A refused sale sets `needsRecount` and rolls it back with the exception (INV:295).
* Logout: the access token carries no `tokenId` (AUTH:115), so `auth.controller.ts:57` passes
  an empty one and `Forget` deletes nothing: `SessionKept` holds across a logout.
  Were that repaired, `SessionKept` would have to excuse logout.
* Rotation: "Invalidate old token (Rotation)" (AUTH:94) is a get and a delete; two refreshes
  at once both get a pair, which is why `RotatedOnce` counts those in progress.
* Base unit: "Block base_uom change if stock movements exist" (PROD:397) counts, and writes two
  or more awaits later: drop `entangled` from `MovementsInBaseUnit`. An order line keeps its
  conversion to the base unit of the day (SCH:447); a delivery books the result in the
  unit of its own day (DEL:251).
* `docker-compose.yml` sets `REDISS_URL`, while `app.module.ts` reads `REDIS_URL`: in the
  container the cache is sought on localhost.

## 6. Theorems

All for any number of sessions, rows and values, from the named assumptions on
constants alone: ids are new, amounts positive, bounds natural, and the ids of rows that
are summed or counted finite (`InvoicesFinite`, `SalesFinite`, `TokensFinite`,
`SessionsFinite`; a table has finitely many). Each component proves that its `IInv` (of
Idempotency, `KeyInv`) is inductive; the theorems follow from it, action properties from
it and one step. Every invariant, action property and refinement a passing run checks is
also a theorem.

| Module | Theorems | What the inductive invariant adds, and why |
|---|---|---|
| WholesaleCreditProofs | `TypeCorrect`, `ProfileAlwaysThere`, `StatusAlwaysMatches`, `SettlementNeverStale`, `InvoicesOnlyPaidDown` | `LockDiscipline`, `LocalsFit`, `DraftFit`: a settlement is fresh because whoever could write the invoices of its customer first takes the profile row it holds; the scan changes the status alone |
| | `DraftsAlwaysInOrder`, `ImplementsCreditLedger` | `DraftsInOrder`: the draft of a checkout is one whole invoice; that of a collection pays an older part of the open invoices, all but the last one in full, and adds up with what is left to the amount. See below |
| | `BooksAlwaysBalance`, `LimitAlwaysHeld`, `OnlyClearDeleted` | `ProfileHeld`: a locked profile, or one with a balance, exists; `BooksAlone`: what a request that is alone has read still holds (`ReadStillHolds`) |
| StockLedgerProofs | `TypeCorrect`, `LastMoveAlwaysLevel`, `NegativeAlwaysOverridden`, `ImplementsStockBook` | `WritesAreLogged`, `HalvesAgree`: outside a half-done call a transaction has locked a row exactly if it logged it, with the same value; `NegativesExcused`: a negative value has its excuse before it is written. With them a commit appends to the book exactly what it installs (`StepPosts`), which is the refinement |
| | `AloneIsChained`, `ShortageAlwaysFlagged` | `AloneInv`: the movements of a request that is alone are a chain from the level of the row, and what it is about to log continues it; a quantity it writes that is short is flagged |
| | `SoldAlwaysDeducted` | `SaleInv`, for `QuietSpec`: what a checkout has still to deduct are the last lines of its invoice, with the factors of now (`LinesLeft`), and what it has logged is what the lines before them bill (`DeductedSoFar`) |
| ReturnApprovalProofs | `TypeCorrect`, `RowsAlwaysAccount`, `ExecutedAsItSays` | `LocksFit`: an approval has the row before the profile, a collection the profile before rows; hence what a collection listed cannot be decremented before it writes (`WritesAccounted`) |
| | `BalanceAlwaysCovers` | `MoneyFits`: an approval takes the same off row and balance; what a collection has not allocated yet is left, and when something stays left no row owes anything. `CollectsAlone`: a collection that no change of money overlaps |
| RedisProofs (AuthTokens) | `TypeCorrect`, `TokensRotatedOnce`, `SessionsKept`, `PairsIssuedCurrent` | `SpentStaysOut`: an entry that was removed never returns, and a token with an entry was not exchanged; `ExchangesCounted`: refreshes that found a token count as exchanges of it; `NewFits`: what is on its way to a client continues its line; `ReadCurrent` |
| | `LinesStaySingle` | `LinesAddUp`: over a line, tokens less exchanges make 1, a sum over all tokens; `OneLine`, which counts what can still be exchanged, follows when no token was exchanged twice |
| RedisProofs (Idempotency) | `CacheTypeCorrect`, `AlwaysExecutedOnce`, `AlwaysAnsweredTruly`, `MarkAlwaysOwned` | the entry of a key tells the stage of its attempts, and an uncontested key has one attempt past its lookup |
| ProcurementProofs | `TypeCorrect`, `StockAlwaysReceived`, `FulfilledAlwaysReceived`, `StatusAlwaysTells`, `TerminalAlwaysKept` | `StockFits`: from `Reprice` on the row is locked, so the quantity read and written is current; `PastFits`: what a delivery knows of the past only grows; `AloneFits`: without overlap it knows all |
| | `CostAlwaysWithinPaid` | `CostsFit`: every cost, in a row, a draft or a stale reading, lies between two prices that were paid. A weighted average lies between what it averages (two products of variables, bounded one at a time), and rounding to the cent does not leave a range of whole cents |
| ShipmentsProofs | `TypeCorrect`, `CarriersAlwaysThere`, `AlwaysOneActive`, `AlwaysDispatchedFirst`, `DeliveredAlwaysKept` | `AloneFits`: a request that has a sale to itself may rely on what it checked; `DispatchFits`: a stale status update to DELIVERED still comes from one that was dispatched |
| CatalogueProofs | `TypeCorrect`, `ReferencesAlwaysResolve`, `BaseUnitAlwaysKept`, `SpecsAlwaysDistinct`, `OrdersAlwaysToActive` | `MetKept`: related requests know of each other; `LockFits`: a movement that will be logged holds its product; `MovesFresh`, `UpdatesFresh`, `CreatesFresh`, `OrdersFresh`: what a request checked still holds unless it met another |

**WholesaleCredit implements CreditLedger.** `Init` gives `Ledger!Init`, and every step is a
step of the ledger or leaves `invoice` and `collected` alone. Only commits and the scan
touch them. A checkout's commit writes what `IssuesOne` says it drafted: `Issue`. A
collection's commit is `Collect`: the rows it writes are the open ones that
`SettlesInOrder` says it went through, oldest first, and the payments add up to the amount
unless nothing stays open (`LoopEnds`). That the rows are still as they were when listed is
`SettlementFresh`; that the scan may have flagged one meanwhile is why `PaysPart` compares
with the row of now, not with the listed one. The books then follow: what a commit takes
off the balance is at least what it takes off the open invoices.

**Sums.** The library states induction over finite sets with an operator as a parameter,
which none of the provers here can instantiate. SumTheorems goes around it: among the
subsets of a finite set for which a claim fails there is a smallest one (`Smallest`, from
the well-foundedness of strict inclusion), and removing one element refutes it. This gives
how `SumFunctionOnSet` unfolds (`SumUnfolds`, `SumRemove`), and from there that sums are
monotone, split over disjoint sets, change with one summand (`SumChange`), and go along
when a sequence is extended (`SumConcatenation`). `BilledBy`, `TakenBy`, `Owed`, `Allocated`
and the counts of a line are treated with these.

**Only model-checked.** Liveness: `RequestsEnd`, `OverdueFlagged`, `MarkRemoved` rest on
fairness and on what is enabled. The three runs that expect a violation. That the bounds
of a run are met is not a theorem: the theorems are about `Spec`, without the bounds of
the `MC...` modules. `WholesaleProfiled`, `InvoiceOnlyPaidDown`, `LastMoveIsLevel`,
`NegativeHasOverride`, `MarkHasOwner`, `TerminalKept`, `DeliveredKept` and the `TypeOK` of
Shipments are proved and in no run, as others that are say more.

## 7. Not modelled

SKUs and their generation, categories, bins and settings; the return window and
exchange price differences; prices and discounts, which checkout takes from the request
or the product without any state of its own; payments other than CREDIT; shipment notes;
queries, reports and receipts, which read only; HTTP validation, roles and error formats;
Redis or PostgreSQL themselves failing for good.

Of about 66,500 lines that count as implementation some 50,000 are the Prisma client
generated into `src/src/generated/` from the 640 lines of SCH, and most of the rest are DTOs,
Swagger decorators, queries and seeds. The services have some 5,400 lines,
queries and response mapping included; the map names some 2,600 of those, and the tables and
input checks they rely on in SCH and the DTOs. The share of the whole cannot be large.

## 8. Running

In this directory, with TLC and TLAPS installed:

    tlc -config MCShipments_interleaved.cfg MCShipments.tla
    tlapm ShipmentsProofs.tla

Runs take from seconds to about two and a half minutes, proofs some minutes per module.
