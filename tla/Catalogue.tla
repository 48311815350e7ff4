------------------------------ MODULE Catalogue ------------------------------
(***************************************************************************)
(* Master data and what refers to it: products and suppliers are created,  *)
(* edited and removed by handlers that check first and write later, while  *)
(* other requests place orders and move stock.                              *)
(*                                                                          *)
(* Every lookup of a handler is a statement of its own, outside any         *)
(* transaction; the database adds the foreign keys, which are checked when  *)
(* a row is written, and the lock of a product row that a stock movement    *)
(* holds from its write to its commit.  SKUs and supplier names are left to *)
(* their unique indexes; prices, bins and categories are data.  A request   *)
(* that is refused before it writes leaves no trace.                        *)
(***************************************************************************)
EXTENDS Integers, FiniteSets

CONSTANTS
    Products,   \* ids a product can take
    Suppliers,  \* ids a supplier can take
    Orders,     \* ids a purchase order can take (bounds the orders)
    Units,      \* units of measure
    Specs,      \* fastener attributes: category, size, thread and material
    Sessions,   \* requests that may be in progress at once
    MaxRows,    \* bound of the products and suppliers created in a behaviour
    None        \* no such value

ASSUME BoundNatural == MaxRows \in Nat
ASSUME NoneIsNew == None \notin Products \cup Suppliers \cup Units \cup Specs \cup Sessions

VARIABLES
    product,   \* product rows: are they there, base_uom, fastener attributes
    supplier,  \* supplier rows: are they there, is_active
    order,     \* purchase_order rows with one item
    measured,  \* base units the stock movements of a product were logged in
    lock,      \* session that has written the product row and not ended
    pc,        \* where each session is in its handler
    req,       \* the request it serves, and what it has read
    entangled, \* history: products whose base unit was written by an update that met another request
    tolerated  \* history: products last saved with allowDuplicate, or by a request that met another

rows    == <<product, supplier, order, measured>>
history == <<entangled, tolerated>>
vars == <<rows, lock, pc, req, history>>

-----------------------------------------------------------------------------
Presence == {"free", "live", "gone"}
Steps    == {"idle", "insert", "count", "specs", "save", "delete", "write", "log",
             "items", "place", "set", "retire", "remove"}

NoProduct  == [at |-> "free", base |-> None, spec |-> None]
NoSupplier == [at |-> "free", active |-> FALSE]
NoOrder    == [supplier |-> None, product |-> None, met |-> FALSE]
Deleted    == [at |-> "gone", base |-> None, spec |-> None]
Removed    == [at |-> "gone", active |-> FALSE]

\* A request: what it names and asks for, None where it leaves a field out; whether the
\* attributes are given (they may be given as null, which clears them); the base unit it
\* has read; the attributes the product will have; (history) whether it met a related
\* request.
Request == [op : {"none", "create", "update", "delete", "move", "order", "edit", "drop"},
            product : Products \cup {None}, supplier : Suppliers \cup {None},
            base : Units \cup {None}, given : BOOLEAN, spec : Specs \cup {None},
            duplicate : BOOLEAN, seen : Units \cup {None}, target : Specs \cup {None},
            active : BOOLEAN, met : BOOLEAN]
NoRequest == [op |-> "none", product |-> None, supplier |-> None, base |-> None,
              given |-> FALSE, spec |-> None, duplicate |-> FALSE,
              seen |-> None, target |-> None, active |-> FALSE, met |-> FALSE]

Live(p)     == product[p].at = "live"
Exists(v)   == supplier[v].at = "live"
OrdersOf(v) == {o \in Orders : order[o].supplier = v}
Lines(p)    == {o \in Orders : order[o].product = p}

\* Bound: there is room for another row.
Room == Cardinality({p \in Products : product[p].at # "free"})
        + Cardinality({v \in Suppliers : supplier[v].at # "free"}) < MaxRows

\* Two requests are about one product, one supplier, or attributes that must differ.
Related(r, q) == \/ r.product = q.product /\ r.product # None
                 \/ r.supplier = q.supplier /\ r.supplier # None
                 \/ {r.op, q.op} \subseteq {"create", "update"}

\* The requests whose meetings are remembered.
Watched == {"create", "update", "order"}

Begin(s, step, r) ==
    /\ pc[s] = "idle"
    /\ pc'  = [pc EXCEPT ![s] = step]
    /\ req' = [t \in Sessions |->
                  IF t = s THEN [r EXCEPT !.met = r.op \in Watched /\ \E q \in Sessions : Related(r, req[q])]
                  ELSE [req[t] EXCEPT !.met = @ \/ (req[t].op \in Watched /\ Related(r, req[t]))]]
Goto(s, step) == pc' = [pc EXCEPT ![s] = step]
\* The request of s ends; a lock it held is released.
Finish(s) == /\ Goto(s, "idle")
             /\ req'  = [req EXCEPT ![s] = NoRequest]
             /\ lock' = [p \in Products |-> IF lock[p] = s THEN None ELSE lock[p]]

Init ==
    /\ product   = [p \in Products |-> NoProduct]
    /\ supplier  = [v \in Suppliers |-> NoSupplier]
    /\ order     = [o \in Orders |-> NoOrder]
    /\ measured  = [p \in Products |-> {}]
    /\ lock      = [p \in Products |-> None]
    /\ pc        = [s \in Sessions |-> "idle"]
    /\ req       = [s \in Sessions |-> NoRequest]
    /\ entangled = {}
    /\ tolerated = {}

-----------------------------------------------------------------------------
(* ProductsService.createProduct                                            *)

\* Another product than p has these attributes (a product without them has none).
Taken(spec, p) == spec # None /\ \E q \in Products \ {p} : Live(q) /\ product[q].spec = spec

CheckedNever(r, spec, p) == FALSE                                                      \* mutant
\* The soft duplicate check.
Duplicate(r, spec, p) == Taken(spec, p) /\ ~r.duplicate

StartCreate(s) ==
    /\ \E u \in Units, spec \in Specs \cup {None}, dup \in BOOLEAN :
          /\ dup => spec # None
          /\ LET r == [NoRequest EXCEPT !.op = "create", !.base = u, !.spec = spec, !.duplicate = dup]
             IN  ~Duplicate(r, spec, None) /\ Begin(s, "insert", r)
    /\ UNCHANGED <<rows, lock, history>>

\* History: what the save of p by s says of its attributes.
Tolerate(s, p) == tolerated' = IF req[s].duplicate \/ req[s].met THEN tolerated \cup {p}
                                                                 ELSE tolerated \ {p}

Insert(s) ==
    /\ pc[s] = "insert"
    /\ Room
    /\ \E p \in Products :
          /\ product[p].at = "free"
          /\ product' = [product EXCEPT ![p] = [at |-> "live", base |-> req[s].base, spec |-> req[s].spec]]
          /\ Tolerate(s, p)
    /\ Finish(s)
    /\ UNCHANGED <<supplier, order, measured, entangled>>

-----------------------------------------------------------------------------
(* ProductsService.updateProduct                                            *)

\* A request to update p, with the attributes that p will have.
Update(p, u, given, spec, dup) ==
    [NoRequest EXCEPT !.op = "update", !.product = p, !.base = u, !.given = given,
                      !.spec = spec, !.duplicate = dup,
                      !.target = IF given THEN spec ELSE product[p].spec]

\* The product is read; base_uom, the attributes or both are given.  To clear one
\* attribute leaves the product without the set that is compared.
StartUpdate(s) ==
    /\ \E p \in Products, u \in Units \cup {None}, given \in BOOLEAN, spec \in Specs \cup {None},
          dup \in BOOLEAN :
          /\ Live(p)
          /\ u # None \/ given
          /\ ~given => spec = None
          /\ dup => spec # None \/ (~given /\ product[p].spec # None)
          /\ Begin(s, IF u \notin {None, product[p].base} THEN "count" ELSE "specs",
                   Update(p, u, given, spec, dup))
    /\ UNCHANGED <<rows, lock, history>>

NoLines(p)   == Lines(p) = {}                                                          \* mutant
\* Base UoM immutability rule: no movements may exist.
NoHistory(p) == measured[p] = {}

CountMoves(s) ==
    /\ pc[s] = "count"
    /\ \/ NoHistory(req[s].product) /\ Goto(s, "specs") /\ UNCHANGED <<req, lock>>
       \/ ~NoHistory(req[s].product) /\ Finish(s)
    /\ UNCHANGED <<rows, history>>

CheckSpecs(s) ==
    LET clash == Duplicate(req[s], req[s].target, req[s].product)
    IN  /\ pc[s] = "specs"
        /\ \/ ~clash /\ Goto(s, "save") /\ UNCHANGED <<req, lock>>
           \/ clash /\ Finish(s)
        /\ UNCHANGED <<rows, history>>

BaseAsGiven(s, p) == req[s].base                                                       \* mutant
SavedBase(s, p)   == IF req[s].base = None THEN product[p].base ELSE req[s].base

\* The transaction replaces the units and updates the row, waiting for its lock; a
\* product that is gone fails it.  A base unit that is given is written, also when it
\* was the one read and no movement was counted.
Save(s) ==
    LET p == req[s].product
    IN  /\ pc[s] = "save"
        /\ lock[p] = None
        /\ \/ /\ Live(p)
              /\ product' = [product EXCEPT ![p].base = SavedBase(s, p),
                                            ![p].spec = IF req[s].given THEN req[s].spec ELSE @]
              /\ entangled' = IF req[s].base # None /\ req[s].met THEN entangled \cup {p} ELSE entangled
              /\ Tolerate(s, p)
           \/ ~Live(p) /\ UNCHANGED <<product, history>>
        /\ Finish(s)
        /\ UNCHANGED <<supplier, order, measured>>

-----------------------------------------------------------------------------
(* ProductsService.deleteProduct                                            *)

StartDelete(s) ==
    /\ \E p \in Products :
          /\ Live(p) /\ measured[p] = {} /\ Lines(p) = {}
          /\ Begin(s, "delete", [NoRequest EXCEPT !.op = "delete", !.product = p])
    /\ UNCHANGED <<rows, lock, history>>

UnreferencedByStock(p) == measured[p] = {}                                             \* mutant
\* No row that refers to the product with ON DELETE RESTRICT.
Unreferenced(p) == measured[p] = {} /\ Lines(p) = {}

Delete(s) ==
    LET p == req[s].product
    IN  /\ pc[s] = "delete"
        /\ lock[p] = None
        /\ \/ /\ Live(p) /\ Unreferenced(p)
              /\ product'   = [product EXCEPT ![p] = Deleted]
              /\ entangled' = entangled \ {p}
              /\ tolerated' = tolerated \ {p}
           \/ ~(Live(p) /\ Unreferenced(p)) /\ UNCHANGED <<product, history>>
        /\ Finish(s)
        /\ UNCHANGED <<supplier, order, measured>>

-----------------------------------------------------------------------------
(* A stock movement: InventoryService.restockProductStock and its like.     *)

StartMove(s) ==
    /\ \E p \in Products :
          /\ Live(p)
          /\ Begin(s, "write", [NoRequest EXCEPT !.op = "move", !.product = p, !.seen = product[p].base])
    /\ UNCHANGED <<rows, lock, history>>

WriteLevel(s) ==
    LET p == req[s].product
    IN  /\ pc[s] = "write"
        /\ lock[p] = None
        /\ \/ Live(p) /\ lock' = [lock EXCEPT ![p] = s] /\ Goto(s, "log") /\ UNCHANGED req
           \/ ~Live(p) /\ Finish(s)
        /\ UNCHANGED <<rows, history>>

\* The movement is logged, in the base unit that was read, and the transaction commits.
LogMove(s) ==
    /\ pc[s] = "log"
    /\ measured' = [measured EXCEPT ![req[s].product] = @ \cup {req[s].seen}]
    /\ Finish(s)
    /\ UNCHANGED <<product, supplier, order, history>>

-----------------------------------------------------------------------------
(* PurchaseOrdersService.createPurchaseOrder                                *)

MayOrderAny(v) == Exists(v)                                                            \* mutant
MayOrder(v)    == Exists(v) /\ supplier[v].active

StartOrder(s) ==
    /\ \E v \in Suppliers, p \in Products :
          /\ MayOrder(v)
          /\ Begin(s, "items", [NoRequest EXCEPT !.op = "order", !.supplier = v, !.product = p])
    /\ UNCHANGED <<rows, lock, history>>

ReadItems(s) ==
    /\ pc[s] = "items"
    /\ \/ Live(req[s].product) /\ Goto(s, "place") /\ UNCHANGED <<req, lock>>
       \/ ~Live(req[s].product) /\ Finish(s)
    /\ UNCHANGED <<rows, history>>

\* Order and items are one insert; the foreign keys refuse rows that are gone.
Place(s) ==
    LET v == req[s].supplier
        p == req[s].product
    IN  /\ pc[s] = "place"
        /\ \/ /\ Exists(v) /\ Live(p)
              /\ \E o \in Orders :
                    /\ order[o] = NoOrder
                    /\ order' = [order EXCEPT ![o] = [supplier |-> v, product |-> p, met |-> req[s].met]]
           \/ ~(Exists(v) /\ Live(p)) /\ UNCHANGED order
        /\ Finish(s)
        /\ UNCHANGED <<product, supplier, measured, history>>

-----------------------------------------------------------------------------
(* SuppliersService                                                         *)

CreateSupplier ==
    /\ Room
    /\ \E v \in Suppliers, a \in BOOLEAN :
          /\ supplier[v].at = "free"
          /\ supplier' = [supplier EXCEPT ![v] = [at |-> "live", active |-> a]]
    /\ UNCHANGED <<product, order, measured, lock, pc, req, history>>

\* update: the supplier is looked up, then the row is written as the client sent it.
StartEdit(s) ==
    /\ \E v \in Suppliers, a \in BOOLEAN :
          /\ Exists(v)
          /\ Begin(s, "set", [NoRequest EXCEPT !.op = "edit", !.supplier = v, !.active = a])
    /\ UNCHANGED <<rows, lock, history>>

SetActive(s) ==
    LET v == req[s].supplier
    IN  /\ pc[s] = "set"
        /\ supplier' = IF Exists(v) THEN [supplier EXCEPT ![v].active = req[s].active] ELSE supplier
        /\ Finish(s)
        /\ UNCHANGED <<product, order, measured, history>>

\* remove: a supplier with orders is deactivated, one without is deleted.
RemovalStep(v) == IF OrdersOf(v) = {} THEN "remove" ELSE "retire"

StartDrop(s) ==
    /\ \E v \in Suppliers :
          /\ Exists(v)
          /\ Begin(s, RemovalStep(v), [NoRequest EXCEPT !.op = "drop", !.supplier = v])
    /\ UNCHANGED <<rows, lock, history>>

Retire(s) ==
    LET v == req[s].supplier
    IN  /\ pc[s] = "retire"
        /\ supplier' = IF Exists(v) THEN [supplier EXCEPT ![v].active = FALSE] ELSE supplier
        /\ Finish(s)
        /\ UNCHANGED <<product, order, measured, history>>

Remove(s) ==
    LET v == req[s].supplier
        allowed == Exists(v) /\ OrdersOf(v) = {}
    IN  /\ pc[s] = "remove"
        /\ supplier' = IF allowed THEN [supplier EXCEPT ![v] = Removed] ELSE supplier
        /\ Finish(s)
        /\ UNCHANGED <<product, order, measured, history>>

-----------------------------------------------------------------------------
\* A statement fails, a connection is lost, the process dies.
Fail(s) ==
    /\ pc[s] # "idle"
    /\ Finish(s)
    /\ UNCHANGED <<rows, history>>

Start(s) == StartCreate(s) \/ StartUpdate(s) \/ StartDelete(s) \/ StartMove(s)
            \/ StartOrder(s) \/ StartEdit(s) \/ StartDrop(s)
Continue(s) == Insert(s) \/ CountMoves(s) \/ CheckSpecs(s) \/ Save(s) \/ Delete(s)
               \/ WriteLevel(s) \/ LogMove(s) \/ ReadItems(s) \/ Place(s)
               \/ SetActive(s) \/ Retire(s) \/ Remove(s)

Next == (\E s \in Sessions : Start(s) \/ Continue(s) \/ Fail(s)) \/ CreateSupplier

Spec == Init /\ [][Next]_vars

-----------------------------------------------------------------------------
(* PROPERTIES *)

TypeOK ==
    /\ product \in [Products -> [at : Presence, base : Units \cup {None}, spec : Specs \cup {None}]]
    /\ \A p \in Products : Live(p) => product[p].base # None
    /\ supplier \in [Suppliers -> [at : Presence, active : BOOLEAN]]
    /\ order \in [Orders -> [supplier : Suppliers \cup {None}, product : Products \cup {None},
                             met : BOOLEAN]]
    /\ measured \in [Products -> SUBSET Units]
    /\ lock \in [Products -> Sessions \cup {None}]
    /\ pc \in [Sessions -> Steps]
    /\ req \in [Sessions -> Request]
    /\ entangled \subseteq Products
    /\ tolerated \subseteq Products

\* The movements of a product are all in the base unit it has ("Block base_uom change if
\* stock movements exist", products.service.ts:397), unless an update that named a base
\* unit met another request on the product: a movement that had read the old unit, or a
\* second update that wrote back the unit it had read.
MovementsInBaseUnit ==
    \A p \in Products \ entangled : measured[p] \subseteq {product[p].base}

\* Of two products with the same fastener attributes one was saved with allowDuplicate, or
\* by a request that met another one: the check is soft and no index stands behind it.
SpecsDistinct ==
    \A p, q \in {r \in Products : Live(r) /\ product[r].spec # None} :
        p # q /\ product[p].spec = product[q].spec => tolerated \cap {p, q} # {}

\* An order goes to a supplier that is active when it is placed, unless the supplier was
\* edited or removed while the request was in progress: is_active is read first, before
\* the products are, and the order is written last.
OrdersToActive ==
    [][\A o \in Orders : order[o] = NoOrder /\ order'[o] # NoOrder /\ ~order'[o].met =>
           supplier[order'[o].supplier].active]_vars

\* What movements and orders refer to is there ("Safe because zero history exists",
\* products.service.ts:667): counting first and deleting later loses no history, whatever
\* is written in between.
ReferencesResolve ==
    /\ \A p \in Products : measured[p] # {} \/ Lines(p) # {} => Live(p)
    /\ \A v \in Suppliers : OrdersOf(v) # {} => Exists(v)
-----------------------------------------------------------------------------
(* The inductive invariant behind the properties above.                     *)

\* The step, the operation and the locals of a session fit each other.
LocalsFit ==
    \A s \in Sessions :
        LET r == req[s]
        IN  /\ pc[s] = "idle" => r = NoRequest
            /\ pc[s] = "insert" => r.op = "create"
            /\ pc[s] \in {"count", "specs", "save"} => r.op = "update"
            /\ pc[s] = "delete" => r.op = "delete"
            /\ pc[s] \in {"write", "log"} => r.op = "move"
            /\ pc[s] \in {"items", "place"} => r.op = "order"
            /\ pc[s] = "set" => r.op = "edit"
            /\ pc[s] \in {"retire", "remove"} => r.op = "drop"
            /\ r.op = "create" => r.base # None
            /\ r.op \in {"update", "delete", "move"} =>
                   r.product # None /\ product[r.product].at # "free"
            /\ r.op = "order" => r.product # None
            /\ r.op \in {"order", "edit", "drop"} => r.supplier # None
            /\ r.op = "move" => r.seen # None

\* A product row is locked by exactly the session that has written it and not ended.
LockFits ==
    /\ \A p \in Products, s \in Sessions : lock[p] = s => pc[s] = "log" /\ req[s].product = p
    /\ \A s \in Sessions : pc[s] = "log" => lock[req[s].product] = s /\ Live(req[s].product)

\* A watched request that is in progress together with a related one knows it.
MetKept ==
    \A s, t \in Sessions :
        s # t /\ req[s].op \in Watched /\ Related(req[s], req[t]) => req[s].met

\* A movement has read the base unit its product has.
MovesFresh ==
    \A s \in Sessions :
        LET p == req[s].product
        IN  req[s].op = "move" /\ Live(p) /\ p \notin entangled => req[s].seen = product[p].base

\* What an update that met nobody has found out about its product still holds.
UpdatesFresh ==
    \A s \in Sessions :
        LET r == req[s]
            p == req[s].product
        IN  r.op = "update" /\ ~r.met /\ Live(p) =>
              /\ r.target = IF r.given THEN r.spec ELSE product[p].spec
              /\ pc[s] \in {"specs", "save"} /\ r.base # None => r.base = product[p].base \/ measured[p] = {}
              /\ pc[s] = "save" => ~Duplicate(r, r.target, p)

\* So does what a creation has.
CreatesFresh ==
    \A s \in Sessions :
        req[s].op = "create" /\ ~req[s].met => ~Duplicate(req[s], req[s].spec, None)

\* The supplier of an order that met nobody is as it was read.
OrdersFresh ==
    \A s \in Sessions : req[s].op = "order" /\ ~req[s].met => MayOrder(req[s].supplier)

IInv == /\ TypeOK
        /\ LocalsFit
        /\ LockFits
        /\ MetKept
        /\ MovesFresh
        /\ UpdatesFresh
        /\ CreatesFresh
        /\ OrdersFresh
        /\ MovementsInBaseUnit
        /\ SpecsDistinct
        /\ ReferencesResolve
=============================================================================
