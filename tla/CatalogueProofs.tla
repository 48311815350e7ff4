--------------------------- MODULE CatalogueProofs ---------------------------
(* Proofs about Catalogue: its type invariant, that references resolve, and *)
(* what the checks of its handlers guarantee where requests do not meet.    *)
EXTENDS Catalogue, TLAPS

Act(s) == Start(s) \/ Continue(s) \/ Fail(s)

\* Request t is as it was, but may have met another one.
Same(t) ==
    /\ pc'[t] = pc[t]
    /\ req'[t].op = req[t].op /\ req'[t].product = req[t].product
    /\ req'[t].supplier = req[t].supplier /\ req'[t].base = req[t].base
    /\ req'[t].given = req[t].given /\ req'[t].spec = req[t].spec /\ req'[t].duplicate = req[t].duplicate
    /\ req'[t].seen = req[t].seen /\ req'[t].target = req[t].target
    /\ req'[t].active = req[t].active
    /\ req[t].met => req'[t].met

\* What is known of a request r that begins at a step.
Found(step, r) ==
    /\ step = "insert" <=> r.op = "create"
    /\ step \in {"count", "specs"} <=> r.op = "update"
    /\ step = "delete" <=> r.op = "delete"
    /\ step = "write" <=> r.op = "move"
    /\ step = "items" <=> r.op = "order"
    /\ step = "set" <=> r.op = "edit"
    /\ step \in {"retire", "remove"} <=> r.op = "drop"
    /\ r.op = "create" => r.base # None /\ ~Duplicate(r, r.spec, None)
    /\ r.op \in {"update", "delete", "move"} => r.product \in Products /\ Live(r.product)
    /\ r.op = "order" => r.product \in Products /\ r.supplier \in Suppliers /\ MayOrder(r.supplier)
    /\ r.op \in {"edit", "drop"} => r.supplier \in Suppliers
    /\ r.op = "move" => r.seen = product[r.product].base
    /\ r.op = "update" =>
          /\ r.target = IF r.given THEN r.spec ELSE product[r.product].spec
          /\ step = "specs" /\ r.base # None => r.base = product[r.product].base

\* A step that begins a request leaves the rows alone.
LEMMA StartCases ==
    ASSUME TypeOK, NEW s \in Sessions, Start(s)
    PROVE  /\ UNCHANGED <<rows, lock, history>>
           /\ \E step \in Steps \ {"idle", "log", "save", "place"}, r \in Request :
                 Begin(s, step, r) /\ ~r.met /\ Found(step, r)
<1>0. None \notin Units
  BY NoneIsNew
<1>1. CASE StartCreate(s)
  <2>1. PICK u \in Units, spec \in Specs \cup {None}, dup \in BOOLEAN :
           /\ ~Duplicate([NoRequest EXCEPT !.op = "create", !.base = u, !.spec = spec, !.duplicate = dup], spec, None)
           /\ Begin(s, "insert", [NoRequest EXCEPT !.op = "create", !.base = u, !.spec = spec, !.duplicate = dup])
    BY <1>1 DEF StartCreate
  <2> DEFINE r == [NoRequest EXCEPT !.op = "create", !.base = u, !.spec = spec, !.duplicate = dup]
  <2>2. r \in Request /\ ~r.met
    BY DEF Request, NoRequest, TypeOK
  <2>3. Found("insert", r)
    BY <1>0, <2>1 DEF Found, NoRequest
  <2>4. "insert" \in Steps \ {"idle", "log", "save", "place"}
    BY DEF Steps
  <2>5. UNCHANGED <<rows, lock, history>>
    BY <1>1 DEF StartCreate
  <2> HIDE DEF r
  <2> QED BY <2>1, <2>2, <2>3, <2>4, <2>5 DEF r
<1>2. CASE StartUpdate(s)
  <2>1. PICK p \in Products, u \in Units \cup {None}, given \in BOOLEAN,
           spec \in Specs \cup {None}, dup \in BOOLEAN :
           /\ Live(p)
           /\ Begin(s, IF u \notin {None, product[p].base} THEN "count" ELSE "specs",
                    Update(p, u, given, spec, dup))
    BY <1>2 DEF StartUpdate
  <2> DEFINE r == Update(p, u, given, spec, dup)
  <2> DEFINE step == IF u \notin {None, product[p].base} THEN "count" ELSE "specs"
  <2>2. r \in Request /\ ~r.met
    BY DEF Update, Request, NoRequest, TypeOK
  <2>3. Found(step, r)
    BY <1>0, <2>1 DEF Update, Found, NoRequest
  <2>4. step \in Steps \ {"idle", "log", "save", "place"}
    <3>1. step \in {"count", "specs"}
      OBVIOUS
    <3> HIDE DEF step
    <3> QED BY <3>1 DEF Steps
  <2>5. UNCHANGED <<rows, lock, history>>
    BY <1>2 DEF StartUpdate
  <2>6. Begin(s, step, r)
    BY <2>1
  <2> HIDE DEF r, step
  <2> QED BY <2>2, <2>3, <2>4, <2>5, <2>6
<1>3. CASE StartDelete(s)
  <2>1. PICK p \in Products :
           /\ Live(p)
           /\ Begin(s, "delete", [NoRequest EXCEPT !.op = "delete", !.product = p])
    BY <1>3 DEF StartDelete
  <2> DEFINE r == [NoRequest EXCEPT !.op = "delete", !.product = p]
  <2>2. r \in Request /\ ~r.met
    BY DEF Request, NoRequest, TypeOK
  <2>3. Found("delete", r)
    BY <1>0, <2>1 DEF Found, NoRequest
  <2>4. "delete" \in Steps \ {"idle", "log", "save", "place"}
    BY DEF Steps
  <2>5. UNCHANGED <<rows, lock, history>>
    BY <1>3 DEF StartDelete
  <2> HIDE DEF r
  <2> QED BY <2>1, <2>2, <2>3, <2>4, <2>5 DEF r
<1>4. CASE StartMove(s)
  <2>1. PICK p \in Products :
           /\ Live(p)
           /\ Begin(s, "write", [NoRequest EXCEPT !.op = "move", !.product = p, !.seen = product[p].base])
    BY <1>4 DEF StartMove
  <2> DEFINE r == [NoRequest EXCEPT !.op = "move", !.product = p, !.seen = product[p].base]
  <2>2. r \in Request /\ ~r.met
    BY DEF Request, NoRequest, TypeOK
  <2>3. Found("write", r)
    BY <1>0, <2>1 DEF Found, NoRequest
  <2>4. "write" \in Steps \ {"idle", "log", "save", "place"}
    BY DEF Steps
  <2>5. UNCHANGED <<rows, lock, history>>
    BY <1>4 DEF StartMove
  <2> HIDE DEF r
  <2> QED BY <2>1, <2>2, <2>3, <2>4, <2>5 DEF r
<1>5. CASE StartOrder(s)
  <2>1. PICK v \in Suppliers, p \in Products :
           /\ MayOrder(v)
           /\ Begin(s, "items", [NoRequest EXCEPT !.op = "order", !.supplier = v, !.product = p])
    BY <1>5 DEF StartOrder
  <2> DEFINE r == [NoRequest EXCEPT !.op = "order", !.supplier = v, !.product = p]
  <2>2. r \in Request /\ ~r.met
    BY DEF Request, NoRequest, TypeOK
  <2>3. Found("items", r)
    BY <1>0, <2>1 DEF Found, NoRequest
  <2>4. "items" \in Steps \ {"idle", "log", "save", "place"}
    BY DEF Steps
  <2>5. UNCHANGED <<rows, lock, history>>
    BY <1>5 DEF StartOrder
  <2> HIDE DEF r
  <2> QED BY <2>1, <2>2, <2>3, <2>4, <2>5 DEF r
<1>6. CASE StartEdit(s)
  <2>1. PICK v \in Suppliers, a \in BOOLEAN :
           /\ Exists(v)
           /\ Begin(s, "set", [NoRequest EXCEPT !.op = "edit", !.supplier = v, !.active = a])
    BY <1>6 DEF StartEdit
  <2> DEFINE r == [NoRequest EXCEPT !.op = "edit", !.supplier = v, !.active = a]
  <2>2. r \in Request /\ ~r.met
    BY DEF Request, NoRequest, TypeOK
  <2>3. Found("set", r)
    BY <1>0, <2>1 DEF Found, NoRequest
  <2>4. "set" \in Steps \ {"idle", "log", "save", "place"}
    BY DEF Steps
  <2>5. UNCHANGED <<rows, lock, history>>
    BY <1>6 DEF StartEdit
  <2> HIDE DEF r
  <2> QED BY <2>1, <2>2, <2>3, <2>4, <2>5 DEF r
<1>7. CASE StartDrop(s)
  <2>1. PICK v \in Suppliers :
           /\ Exists(v)
           /\ Begin(s, RemovalStep(v), [NoRequest EXCEPT !.op = "drop", !.supplier = v])
    BY <1>7 DEF StartDrop
  <2> DEFINE r == [NoRequest EXCEPT !.op = "drop", !.supplier = v]
  <2>2. r \in Request /\ ~r.met
    BY DEF Request, NoRequest, TypeOK
  <2>3. Found(RemovalStep(v), r)
    BY <1>0, <2>1 DEF Found, NoRequest, RemovalStep
  <2>4. RemovalStep(v) \in Steps \ {"idle", "log", "save", "place"}
    BY DEF Steps, RemovalStep
  <2>5. UNCHANGED <<rows, lock, history>>
    BY <1>7 DEF StartDrop
  <2> HIDE DEF r
  <2> QED BY <2>1, <2>2, <2>3, <2>4, <2>5 DEF r
<1> QED BY <1>1, <1>2, <1>3, <1>4, <1>5, <1>6, <1>7 DEF Start

\* The request of s goes on.
Goes(s, from, to) == pc[s] = from /\ pc' = [pc EXCEPT ![s] = to] /\ req' = req

\* What a step does to the requests: the one of s begins, goes on or ends, the others
\* stay.
LEMMA RequestCases ==
    ASSUME TypeOK, NEW s \in Sessions, Act(s)
    PROVE  \/ /\ UNCHANGED <<rows, lock, history>>
              /\ \E step \in Steps \ {"idle", "log", "save", "place"}, r \in Request :
                    Begin(s, step, r) /\ ~r.met /\ Found(step, r)
           \/ lock' = lock /\ (Goes(s, "count", "specs") \/ Goes(s, "specs", "save") \/ Goes(s, "items", "place"))
           \/ /\ Goes(s, "write", "log")
              /\ lock[req[s].product] = None /\ Live(req[s].product)
              /\ lock' = [lock EXCEPT ![req[s].product] = s]
           \/ Finish(s) /\ pc[s] # "idle"
<1>1. CASE Start(s)
  BY <1>1, StartCases
<1>2. CASE Continue(s)
  BY <1>2 DEF Continue, Insert, CountMoves, CheckSpecs, Save, Delete, WriteLevel, LogMove,
              ReadItems, Place, SetActive, Retire, Remove, Goto, Finish, Goes
<1>3. CASE Fail(s)
  BY <1>3 DEF Fail
<1> QED BY <1>1, <1>2, <1>3 DEF Act

\* The types of pc and req are kept, and the requests of the other sessions.
LEMMA RequestStep ==
    ASSUME TypeOK, NEW s \in Sessions, Act(s)
    PROVE  /\ pc' \in [Sessions -> Steps] /\ req' \in [Sessions -> Request]
           /\ \A t \in Sessions \ {s} : Same(t)
<1>1. ASSUME NEW step \in Steps, NEW r \in Request, Begin(s, step, r)
      PROVE  /\ pc' \in [Sessions -> Steps] /\ req' \in [Sessions -> Request]
             /\ \A t \in Sessions \ {s} : Same(t)
  <2>1. \A q \in Request, b \in BOOLEAN : [q EXCEPT !.met = b] \in Request
    BY DEF Request
  <2>2. \A t \in Sessions : req[t] \in Request /\ req[t].met \in BOOLEAN
    BY DEF TypeOK, Request
  <2>3. \A t \in Sessions : req'[t] \in Request
    BY <1>1, <2>1, <2>2 DEF Begin
  <2>4. req' \in [Sessions -> Request]
    BY <1>1, <2>3 DEF Begin
  <2>5. pc' \in [Sessions -> Steps]
    BY <1>1 DEF Begin, TypeOK
  <2>6. ASSUME NEW t \in Sessions \ {s} PROVE Same(t)
    <3>1. req'[t] = [req[t] EXCEPT !.met = req[t].met \/ (req[t].op \in Watched /\ Related(r, req[t]))]
      BY <1>1, <2>6 DEF Begin
    <3>2. pc'[t] = pc[t]
      BY <1>1, <2>6 DEF Begin, TypeOK
    <3> QED BY <2>2, <3>1, <3>2 DEF Same, Request
  <2> QED BY <2>4, <2>5, <2>6
<1>2. ASSUME NEW from \in Steps, NEW to \in Steps, Goes(s, from, to)
      PROVE  /\ pc' \in [Sessions -> Steps] /\ req' \in [Sessions -> Request]
             /\ \A t \in Sessions \ {s} : Same(t)
  BY <1>2 DEF TypeOK, Same, Goes
<1>3. CASE Finish(s)
  <2>1. NoRequest \in Request
    BY DEF NoRequest, Request
  <2> QED BY <1>3, <2>1 DEF TypeOK, Same, Finish, Goto, Steps
<1>4. {"count", "specs", "save", "write", "log", "items", "place"} \subseteq Steps
  BY DEF Steps
<1> QED BY <1>1, <1>2, <1>3, <1>4, RequestCases

LEMMA StepCases ==
    ASSUME [Next]_vars
    PROVE  UNCHANGED vars \/ CreateSupplier \/ \E s \in Sessions : Act(s)
BY DEF Next, Act

\* The actions that write a row.
Writing(s) == Insert(s) \/ Save(s) \/ Delete(s) \/ LogMove(s) \/ Place(s)
              \/ SetActive(s) \/ Retire(s) \/ Remove(s)

LEMMA WriteCases ==
    ASSUME TypeOK, NEW s \in Sessions, Act(s)
    PROVE  Writing(s) \/ UNCHANGED <<rows, history>>
<1>1. CASE Start(s)
  BY <1>1, StartCases
<1>2. CASE Continue(s)
  BY <1>2 DEF Continue, Writing, CountMoves, CheckSpecs, WriteLevel, ReadItems
<1>3. CASE Fail(s)
  BY <1>3 DEF Fail
<1> QED BY <1>1, <1>2, <1>3 DEF Act

-----------------------------------------------------------------------------
(* Types                                                                    *)

ProductRow == [at : Presence, base : Units \cup {None}, spec : Specs \cup {None}]

\* A request's fields are of their types.
LEMMA Fields ==
    ASSUME TypeOK, NEW s \in Sessions
    PROVE  /\ req[s] \in Request /\ req[s].met \in BOOLEAN /\ req[s].duplicate \in BOOLEAN
           /\ req[s].product \in Products \cup {None} /\ req[s].supplier \in Suppliers \cup {None}
           /\ req[s].base \in Units \cup {None} /\ req[s].seen \in Units \cup {None}
           /\ req[s].spec \in Specs \cup {None} /\ req[s].target \in Specs \cup {None}
           /\ req[s].active \in BOOLEAN
BY DEF TypeOK, Request

RowsOK ==
    /\ product \in [Products -> ProductRow]
    /\ \A p \in Products : Live(p) => product[p].base # None
    /\ supplier \in [Suppliers -> [at : Presence, active : BOOLEAN]]
    /\ order \in [Orders -> [supplier : Suppliers \cup {None}, product : Products \cup {None},
                             met : BOOLEAN]]
    /\ measured \in [Products -> SUBSET Units]
    /\ entangled \subseteq Products
    /\ tolerated \subseteq Products

LEMMA RowsStep ==
    ASSUME IInv, NEW s \in Sessions, Writing(s)
    PROVE  RowsOK'
<1>0. TypeOK /\ LocalsFit
  BY DEF IInv
<1>1. RowsOK
  BY <1>0 DEF RowsOK, TypeOK, ProductRow
<1>2. CASE Insert(s)
  <2>1. PICK p \in Products :
           /\ product' = [product EXCEPT ![p] = [at |-> "live", base |-> req[s].base, spec |-> req[s].spec]]
           /\ tolerated' \in {tolerated \cup {p}, tolerated \ {p}}
    BY <1>2 DEF Insert, Tolerate
  <2>2. req[s].base # None
    BY <1>0, <1>2 DEF Insert, LocalsFit
  <2>3. [at |-> "live", base |-> req[s].base, spec |-> req[s].spec] \in ProductRow
    BY <1>0, Fields DEF ProductRow, Presence
  <2> QED BY <1>1, <1>2, <2>1, <2>2, <2>3 DEF RowsOK, Insert, Live
<1>3. CASE Save(s)
  <2>1. CASE UNCHANGED <<product, history>>
    BY <1>1, <1>3, <2>1 DEF RowsOK, Save, Live, history
  <2>2. CASE Live(req[s].product) /\ ~UNCHANGED <<product, history>>
    <3> DEFINE p == req[s].product
               row == [product[p] EXCEPT !.base = SavedBase(s, p),
                                         !.spec = IF req[s].given THEN req[s].spec ELSE @]
    <3>1. p \in Products
      BY <1>0, <1>3, Fields DEF Save, LocalsFit
    <3>2. product' = [product EXCEPT ![p] = row]
      BY <1>1, <1>3, <2>2, <3>1 DEF Save, RowsOK
    <3>3. product[p] \in ProductRow /\ product[p].base # None
      BY <1>1, <2>2, <3>1 DEF RowsOK
    <3>4. SavedBase(s, p) \in Units \cup {None} /\ SavedBase(s, p) # None
      BY <1>0, <3>3, Fields DEF SavedBase, ProductRow
    <3>5. row \in ProductRow /\ row.base # None
      BY <1>0, <3>3, <3>4, Fields DEF ProductRow
    <3>6. tolerated' \subseteq Products /\ entangled' \subseteq Products
      BY <1>1, <1>3, <2>2, <3>1 DEF Save, Tolerate, RowsOK
    <3> HIDE DEF p, row
    <3> QED BY <1>1, <1>3, <3>1, <3>2, <3>5, <3>6 DEF RowsOK, Save, Live
  <2> QED BY <1>3, <2>1, <2>2 DEF Save
<1>4. CASE Delete(s)
  <2>1. Deleted \in ProductRow /\ Deleted.at # "live"
    BY DEF Deleted, ProductRow, Presence
  <2>2. \/ product' = product
        \/ product' = [product EXCEPT ![req[s].product] = Deleted]
    BY <1>4 DEF Delete, history
  <2>3. tolerated' \subseteq Products /\ entangled' \subseteq Products
    BY <1>1, <1>4 DEF Delete, history, RowsOK
  <2> QED BY <1>1, <1>4, <2>1, <2>2, <2>3 DEF RowsOK, Delete, Live
<1>5. CASE LogMove(s)
  <2>1. req[s].seen \in Units
    BY <1>0, <1>5, Fields DEF LogMove, LocalsFit
  <2> QED BY <1>1, <1>5, <2>1 DEF RowsOK, LogMove, Live, history
<1>6. CASE Place(s)
  <2>1. [supplier |-> req[s].supplier, product |-> req[s].product, met |-> req[s].met] \in
           [supplier : Suppliers \cup {None}, product : Products \cup {None}, met : BOOLEAN]
    BY <1>0, Fields
  <2> QED BY <1>1, <1>6, <2>1 DEF RowsOK, Place, Live, history
<1>7. CASE SetActive(s)
  <2>1. req[s].active \in BOOLEAN
    BY <1>0, Fields
  <2> QED BY <1>1, <1>7, <2>1 DEF RowsOK, SetActive, Live, history
<1>8. CASE Retire(s)
  BY <1>1, <1>8 DEF RowsOK, Retire, Live, history
<1>9. CASE Remove(s)
  <2>1. Removed \in [at : Presence, active : BOOLEAN]
    BY DEF Removed, Presence
  <2> QED BY <1>1, <1>9, <2>1 DEF RowsOK, Remove, Live, history
<1> QED BY <1>2, <1>3, <1>4, <1>5, <1>6, <1>7, <1>8, <1>9 DEF Writing

LEMMA LockTyped ==
    ASSUME TypeOK, NEW s \in Sessions, Act(s)
    PROVE  lock' \in [Products -> Sessions \cup {None}]
<1>1. CASE Start(s)
  BY <1>1, StartCases DEF TypeOK
<1>2. CASE Continue(s)
  BY <1>2 DEF Continue, Insert, CountMoves, CheckSpecs, Save, Delete, WriteLevel, LogMove,
              ReadItems, Place, SetActive, Retire, Remove, Finish, TypeOK
<1>3. CASE Fail(s)
  BY <1>3 DEF Fail, Finish, TypeOK
<1> QED BY <1>1, <1>2, <1>3 DEF Act

LEMMA TypeStep == ASSUME IInv, [Next]_vars PROVE TypeOK'
<1>0. TypeOK
  BY DEF IInv
<1>1. CASE UNCHANGED vars
  BY <1>0, <1>1 DEF vars, rows, history, TypeOK, Live
<1>2. CASE CreateSupplier
  <2>1. PICK v \in Suppliers, a \in BOOLEAN :
           supplier' = [supplier EXCEPT ![v] = [at |-> "live", active |-> a]]
    BY <1>2 DEF CreateSupplier
  <2>2. [at |-> "live", active |-> a] \in [at : Presence, active : BOOLEAN]
    BY DEF Presence
  <2>3. supplier' \in [Suppliers -> [at : Presence, active : BOOLEAN]]
    BY <1>0, <2>1, <2>2 DEF TypeOK
  <2> QED BY <1>0, <1>2, <2>3 DEF CreateSupplier, history, TypeOK, Live
<1>3. ASSUME NEW s \in Sessions, Act(s) PROVE TypeOK'
  <2>1. RowsOK'
    <3>1. RowsOK
      BY <1>0 DEF RowsOK, TypeOK, ProductRow
    <3>2. CASE UNCHANGED <<rows, history>>
      BY <3>1, <3>2 DEF RowsOK, rows, history, Live
    <3> QED BY <1>0, <1>3, <3>2, WriteCases, RowsStep
  <2> QED BY <1>0, <1>3, <2>1, RequestStep, LockTyped DEF RowsOK, TypeOK, ProductRow
<1> QED BY <1>1, <1>2, <1>3, StepCases

-----------------------------------------------------------------------------
(* The locals of the sessions                                               *)

\* How a step of s writes the row of a product.
LEMMA ProductCases ==
    ASSUME IInv, NEW s \in Sessions, Act(s), NEW p \in Products
    PROVE  \/ product'[p] = product[p]
           \/ Insert(s) /\ product[p].at = "free" /\ product'[p].at = "live"
           \/ Save(s) /\ p = req[s].product /\ Live(p) /\ product'[p].at = "live"
           \/ Delete(s) /\ p = req[s].product /\ Live(p) /\ product'[p].at = "gone"
<1>0. TypeOK /\ LocalsFit
  BY DEF IInv
<1>1. CASE UNCHANGED <<rows, history>>
  BY <1>1 DEF rows
<1>2. CASE Insert(s)
  <2>1. PICK q \in Products :
           /\ product[q].at = "free"
           /\ product' = [product EXCEPT ![q] = [at |-> "live", base |-> req[s].base, spec |-> req[s].spec]]
    BY <1>2 DEF Insert
  <2> QED BY <1>0, <1>2, <2>1 DEF TypeOK
<1>3. CASE Save(s)
  BY <1>0, <1>3 DEF Save, TypeOK, Live
<1>4. CASE Delete(s)
  BY <1>0, <1>4 DEF Delete, TypeOK, Live, Deleted
<1>5. CASE LogMove(s) \/ Place(s) \/ SetActive(s) \/ Retire(s) \/ Remove(s)
  BY <1>5 DEF LogMove, Place, SetActive, Retire, Remove
<1> QED BY <1>0, <1>1, <1>2, <1>3, <1>4, <1>5, WriteCases DEF Writing

\* No row becomes free again.
LEMMA NeverFree ==
    ASSUME IInv, NEW s \in Sessions, Act(s), NEW p \in Products, product[p].at # "free"
    PROVE  product'[p].at # "free"
BY ProductCases

\* What LocalsFit says of a session whose request is r, at a step.
FitsAt(step, r) ==
    /\ step = "idle" => r = NoRequest
    /\ step = "insert" => r.op = "create"
    /\ step \in {"count", "specs", "save"} => r.op = "update"
    /\ step = "delete" => r.op = "delete"
    /\ step \in {"write", "log"} => r.op = "move"
    /\ step \in {"items", "place"} => r.op = "order"
    /\ step = "set" => r.op = "edit"
    /\ step \in {"retire", "remove"} => r.op = "drop"
    /\ r.op = "create" => r.base # None
    /\ r.op \in {"update", "delete", "move"} => r.product # None /\ product[r.product].at # "free"
    /\ r.op = "order" => r.product # None
    /\ r.op \in {"order", "edit", "drop"} => r.supplier # None
    /\ r.op = "move" => r.seen # None

\* The request that s begins, as it is afterwards.
LEMMA BegunRequest ==
    ASSUME TypeOK, NEW s \in Sessions, NEW step, NEW r \in Request, Begin(s, step, r)
    PROVE  /\ pc'[s] = step
           /\ req'[s] = [r EXCEPT !.met = r.op \in Watched /\ \E q \in Sessions : Related(r, req[q])]
           /\ \A t \in Sessions \ {s} :
                 req'[t] = [req[t] EXCEPT !.met = @ \/ (req[t].op \in Watched /\ Related(r, req[t]))]
BY DEF Begin, TypeOK

LEMMA LocalsStep == ASSUME IInv, [Next]_vars PROVE LocalsFit'
<1>0. TypeOK /\ LocalsFit /\ None \notin Products \cup Suppliers \cup Units
  BY NoneIsNew DEF IInv
<1>1. CASE UNCHANGED vars
  BY <1>0, <1>1 DEF vars, rows, LocalsFit
<1>2. CASE CreateSupplier
  BY <1>0, <1>2 DEF CreateSupplier, LocalsFit
<1>3. ASSUME NEW s \in Sessions, Act(s), NEW t \in Sessions PROVE FitsAt(pc[t], req[t])'
  <2>0. FitsAt(pc[t], req[t])
    BY <1>0 DEF LocalsFit, FitsAt
  <2>1. CASE t # s
    <3>1. Same(t) /\ (req[t] = NoRequest => req'[t] = NoRequest)
      <4>1. Same(t)
        BY <1>0, <1>3, <2>1, RequestStep
      <4>2. ASSUME NEW step, NEW r \in Request, Begin(s, step, r), req[t] = NoRequest
            PROVE  req'[t] = NoRequest
        <5>1. req[t].op \notin Watched /\ req[t].met = FALSE
          BY <4>2 DEF NoRequest, Watched
        <5>2. req'[t] = [req[t] EXCEPT !.met = req[t].met \/ (req[t].op \in Watched /\ Related(r, req[t]))]
          BY <2>1, <4>2 DEF Begin
        <5>3. req'[t] = [NoRequest EXCEPT !.met = FALSE]
          BY <4>2, <5>1, <5>2
        <5> QED BY <5>3 DEF NoRequest
      <4>3. ASSUME Finish(s) \/ req' = req PROVE req'[t] = req[t]
        BY <1>0, <2>1, <4>3 DEF Finish, TypeOK
      <4> QED BY <1>0, <1>3, <4>1, <4>2, <4>3, RequestCases DEF Goes
    <3>2. req[t].product # None => req[t].product \in Products
      BY <1>0, Fields
    <3>3. req[t].product \in Products /\ product[req[t].product].at # "free" =>
             product'[req[t].product].at # "free"
      BY <1>3, NeverFree
    <3> QED BY <2>0, <3>1, <3>2, <3>3 DEF Same, FitsAt
  <2>2. CASE t = s
    <3>1. ASSUME NEW step \in Steps \ {"idle", "log", "save", "place"}, NEW r \in Request,
                 Begin(s, step, r), Found(step, r), UNCHANGED <<rows, lock, history>>
          PROVE  FitsAt(pc[s], req[s])'
      <4>1. /\ pc'[s] = step
            /\ req'[s] = [r EXCEPT !.met = r.op \in Watched /\ \E q \in Sessions : Related(r, req[q])]
        BY <1>0, <3>1, BegunRequest
      <4>2. /\ req'[s].op = r.op /\ req'[s].product = r.product /\ req'[s].supplier = r.supplier
            /\ req'[s].base = r.base /\ req'[s].seen = r.seen
        BY <4>1 DEF Request
      <4>3. r.op = "move" => r.seen # None
        BY <1>0, <3>1 DEF Found, TypeOK
      <4>4. product' = product
        BY <3>1 DEF rows
      <4>5. r.op \in {"update", "delete", "move"} => r.product # None /\ product[r.product].at # "free"
        BY <1>0, <3>1 DEF Found, Live
      <4> QED BY <1>0, <3>1, <4>1, <4>2, <4>3, <4>4, <4>5 DEF Found, FitsAt
    <3>2. ASSUME Goes(s, "count", "specs") \/ Goes(s, "specs", "save")
                 \/ Goes(s, "write", "log") \/ Goes(s, "items", "place")
          PROVE  FitsAt(pc[s], req[s])'
      <4>1. pc'[s] # "idle" /\ req'[s] = req[s]
        BY <1>0, <3>2 DEF Goes, TypeOK
      <4>2. req[s].product # None => req[s].product \in Products
        BY <1>0, Fields
      <4>3. req[s].product \in Products /\ product[req[s].product].at # "free" =>
               product'[req[s].product].at # "free"
        BY <1>3, NeverFree
      <4> QED BY <1>0, <2>0, <2>2, <3>2, <4>1, <4>2, <4>3 DEF Goes, FitsAt, TypeOK
    <3>3. ASSUME Finish(s) PROVE FitsAt(pc[s], req[s])'
      BY <1>0, <3>3 DEF Finish, Goto, FitsAt, NoRequest, TypeOK
    <3> QED BY <1>0, <1>3, <2>2, <3>1, <3>2, <3>3, RequestCases
  <2> QED BY <2>1, <2>2
<1>4. (\A t \in Sessions : FitsAt(pc[t], req[t])') => LocalsFit'
  BY DEF LocalsFit, FitsAt
<1> QED BY <1>1, <1>2, <1>3, <1>4, StepCases

-----------------------------------------------------------------------------
(* The locks of product rows                                                *)

LEMMA LockStep == ASSUME IInv, [Next]_vars PROVE LockFits'
<1>0. TypeOK /\ LocalsFit /\ LockFits /\ None \notin Products \cup Sessions
  BY NoneIsNew DEF IInv
<1>1. CASE UNCHANGED vars
  BY <1>0, <1>1 DEF vars, rows, LockFits, Live
<1>2. CASE CreateSupplier
  BY <1>0, <1>2 DEF CreateSupplier, LockFits, Live
<1>3. ASSUME NEW s \in Sessions, Act(s) PROVE LockFits'
  <2>1. \A t \in Sessions : pc[t] = "log" => req[t].product \in Products
    BY <1>0, Fields DEF LocalsFit
  <2>2. ASSUME NEW t \in Sessions, pc[t] = "log" PROVE Live(req[t].product)'  \/ req'[t].product # req[t].product
    <3>1. req[t].product \in Products /\ lock[req[t].product] # None /\ Live(req[t].product)
      BY <1>0, <2>1, <2>2 DEF LockFits
    <3>2. ~(Save(s) /\ req[t].product = req[s].product) /\ ~(Delete(s) /\ req[t].product = req[s].product)
      BY <3>1 DEF Save, Delete
    <3> QED BY <1>3, <3>1, <3>2, ProductCases DEF Live
  <2>3. ASSUME NEW step \in Steps \ {"idle", "log", "save", "place"}, NEW r \in Request,
               Begin(s, step, r), UNCHANGED <<rows, lock, history>>
        PROVE  LockFits'
    <3>1. \A t \in Sessions : pc'[t] = IF t = s THEN step ELSE pc[t]
      BY <1>0, <2>3 DEF Begin, TypeOK
    <3>2. \A t \in Sessions \ {s} : Same(t)
      BY <1>0, <1>3, RequestStep
    <3>3. pc[s] = "idle"
      BY <2>3 DEF Begin
    <3> QED BY <1>0, <2>3, <3>1, <3>2, <3>3 DEF LockFits, Same, Live, rows
  <2>4. ASSUME lock' = lock, Goes(s, "count", "specs") \/ Goes(s, "specs", "save") \/ Goes(s, "items", "place")
        PROVE  LockFits'
    <3>1. \A t \in Sessions : (pc'[t] = "log" <=> pc[t] = "log") /\ req'[t] = req[t]
      BY <1>0, <2>4 DEF Goes, TypeOK
    <3> QED BY <1>0, <2>2, <2>4, <3>1 DEF LockFits
  <2>5. ASSUME Goes(s, "write", "log"), lock[req[s].product] = None, Live(req[s].product),
               lock' = [lock EXCEPT ![req[s].product] = s]
        PROVE  LockFits'
    <3>1. req[s].product \in Products /\ req' = req
      BY <1>0, <2>5, Fields DEF LocalsFit, Goes
    <3>2. \A t \in Sessions : pc'[t] = IF t = s THEN "log" ELSE pc[t]
      BY <1>0, <2>5 DEF Goes, TypeOK
    <3>3. \A p \in Products : lock'[p] = IF p = req[s].product THEN s ELSE lock[p]
      BY <1>0, <2>5, <3>1 DEF TypeOK
    <3>4. Live(req[s].product)'
      <4>1. ~Save(s) /\ ~Delete(s)
        BY <2>5 DEF Save, Delete, Goes
      <4> QED BY <1>3, <2>5, <3>1, <4>1, ProductCases DEF Live
    <3>5. \A p \in Products, t \in Sessions : lock'[p] = t => pc'[t] = "log" /\ req'[t].product = p
      BY <1>0, <3>1, <3>2, <3>3 DEF LockFits
    <3>6. \A t \in Sessions : pc'[t] = "log" => lock'[req'[t].product] = t /\ Live(req[t].product)'
      BY <1>0, <2>1, <2>2, <2>5, <3>1, <3>2, <3>3, <3>4 DEF LockFits
    <3> QED BY <3>1, <3>5, <3>6 DEF LockFits
  <2>6. ASSUME Finish(s) PROVE LockFits'
    <3>1. \A t \in Sessions : pc'[t] = IF t = s THEN "idle" ELSE pc[t]
      BY <1>0, <2>6 DEF Finish, Goto, TypeOK
    <3>2. \A t \in Sessions \ {s} : req'[t] = req[t]
      BY <1>0, <2>6 DEF Finish, TypeOK
    <3>3. \A p \in Products : lock'[p] = IF lock[p] = s THEN None ELSE lock[p]
      BY <2>6 DEF Finish
    <3>4. \A p \in Products, t \in Sessions : lock'[p] = t => pc'[t] = "log" /\ req'[t].product = p
      BY <1>0, <3>1, <3>2, <3>3 DEF LockFits
    <3>5. \A t \in Sessions : pc'[t] = "log" => lock'[req'[t].product] = t /\ Live(req[t].product)'
      BY <1>0, <2>1, <2>2, <3>1, <3>2, <3>3 DEF LockFits
    <3>6. \A t \in Sessions : pc'[t] = "log" => req'[t] = req[t]
      BY <3>1, <3>2
    <3> QED BY <3>4, <3>5, <3>6 DEF LockFits
  <2> QED BY <1>0, <1>3, <2>3, <2>4, <2>5, <2>6, RequestCases
<1> QED BY <1>1, <1>2, <1>3, StepCases

-----------------------------------------------------------------------------
(* Requests that meet                                                       *)

LEMMA MetStep == ASSUME IInv, [Next]_vars PROVE MetKept'
<1>0. TypeOK /\ LocalsFit /\ MetKept
  BY DEF IInv
<1>1. CASE UNCHANGED vars \/ CreateSupplier
  <2>1. req' = req
    BY <1>1 DEF vars, CreateSupplier
  <2> QED BY <1>0, <2>1 DEF MetKept, Related
<1>2. ASSUME NEW s \in Sessions, Act(s) PROVE MetKept'
  <2>1. ASSUME NEW step, NEW r \in Request, Begin(s, step, r) PROVE MetKept'
    <3>1. \A t \in Sessions \ {s} : Same(t)
      BY <1>0, <1>2, RequestStep
    <3>2. ASSUME NEW t \in Sessions \ {s}, req[t].op \in Watched, Related(r, req[t]) PROVE req'[t].met
      <4>1. req[t] \in Request
        BY <1>0, Fields
      <4>2. req'[t] = [req[t] EXCEPT !.met = req[t].met \/ (req[t].op \in Watched /\ Related(r, req[t]))]
        BY <2>1 DEF Begin
      <4>3. req'[t] = [req[t] EXCEPT !.met = TRUE]
        BY <3>2, <4>2
      <4> QED BY <4>1, <4>3 DEF Request
    <3>3. req'[s] = [r EXCEPT !.met = r.op \in Watched /\ \E q \in Sessions : Related(r, req[q])]
      BY <2>1 DEF Begin
    <3>4. /\ req'[s].op = r.op /\ req'[s].product = r.product /\ req'[s].supplier = r.supplier
          /\ req'[s].met = (r.op \in Watched /\ \E q \in Sessions : Related(r, req[q]))
      BY <3>3 DEF Request
    <3>5. ASSUME NEW t \in Sessions \ {s} PROVE Related(req'[s], req'[t]) => Related(r, req[t])
      BY <3>1, <3>4 DEF Same, Related
    <3>6. ASSUME NEW t \in Sessions \ {s} PROVE Related(req'[t], req'[s]) => Related(r, req[t])
      BY <3>1, <3>4 DEF Same, Related
    <3>7. ASSUME NEW t \in Sessions \ {s}, NEW u \in Sessions \ {s}
          PROVE  Related(req'[t], req'[u]) => Related(req[t], req[u])
      BY <3>1 DEF Same, Related
    <3>8. ASSUME NEW t \in Sessions, NEW u \in Sessions, t # u, req'[t].op \in Watched, Related(req'[t], req'[u])
          PROVE  req'[t].met
      <4>1. CASE t = s
        BY <3>4, <3>5, <3>8, <4>1
      <4>2. CASE u = s
        <5>1. req'[t].op = req[t].op
          BY <3>1, <3>8, <4>2 DEF Same
        <5> QED BY <3>2, <3>6, <3>8, <4>2, <5>1
      <4>3. CASE t # s /\ u # s
        <5>1. req'[t].op = req[t].op /\ (req[t].met => req'[t].met)
          BY <3>1, <4>3 DEF Same
        <5> QED BY <1>0, <3>7, <3>8, <4>3, <5>1 DEF MetKept
      <4> QED BY <4>1, <4>2, <4>3
    <3> QED BY <3>8 DEF MetKept, Related
  <2>2. CASE req' = req
    BY <1>0, <2>2 DEF MetKept, Related
  <2>3. CASE Finish(s)
    <3>1. req'[s] = NoRequest /\ \A t \in Sessions \ {s} : req'[t] = req[t]
      BY <1>0, <2>3 DEF Finish, TypeOK
    <3>2. \A q : ~Related(NoRequest, q) /\ ~Related(q, NoRequest)
      BY DEF NoRequest, Related
    <3> QED BY <1>0, <3>1, <3>2 DEF MetKept, Related
  <2> QED BY <1>0, <1>2, <2>1, <2>2, <2>3, RequestCases DEF Goes
<1> QED BY <1>1, <1>2, StepCases

-----------------------------------------------------------------------------
(* References                                                               *)

LEMMA ReferencesStep == ASSUME IInv, [Next]_vars PROVE ReferencesResolve'
<1>0. TypeOK /\ LocalsFit /\ LockFits /\ ReferencesResolve
  BY DEF IInv
<1>1. CASE UNCHANGED vars
  BY <1>0, <1>1 DEF vars, rows, ReferencesResolve, Live, Lines, OrdersOf, Exists
<1>2. CASE CreateSupplier
  <2>1. \A v \in Suppliers : Exists(v) => supplier'[v].at = "live"
    BY <1>0, <1>2 DEF CreateSupplier, TypeOK, Exists
  <2> QED BY <1>0, <1>2, <2>1 DEF CreateSupplier, ReferencesResolve, Live, Lines, OrdersOf, Exists
<1>3. ASSUME NEW s \in Sessions, Act(s) PROVE ReferencesResolve'
  <2>1. CASE UNCHANGED <<rows, history>>
    BY <1>0, <2>1 DEF rows, ReferencesResolve, Live, Lines, OrdersOf, Exists
  <2>2. ASSUME NEW p \in Products, Live(p), ~(Delete(s) /\ p = req[s].product) PROVE Live(p)'
    BY <1>3, <2>2, ProductCases DEF Live
  <2>3. CASE Insert(s) \/ Save(s)
    <3>1. UNCHANGED <<supplier, order, measured>> /\ ~Delete(s)
      BY <2>3 DEF Insert, Save, Delete
    <3> QED BY <1>0, <2>2, <3>1 DEF ReferencesResolve, Lines, OrdersOf, Exists
  <2>4. CASE Delete(s)
    <3>1. UNCHANGED <<supplier, order, measured>>
      BY <2>4 DEF Delete
    <3>2. ASSUME NEW p \in Products, measured[p] # {} \/ Lines(p) # {}, Live(p) PROVE Live(p)'
      <4>1. CASE p = req[s].product
        BY <2>4, <3>2, <4>1 DEF Delete, Unreferenced, Live
      <4> QED BY <2>2, <3>2, <4>1
    <3> QED BY <1>0, <3>1, <3>2 DEF ReferencesResolve, Lines, OrdersOf, Exists
  <2>5. CASE LogMove(s)
    <3>1. UNCHANGED <<product, supplier, order>> /\ Live(req[s].product)
      BY <1>0, <2>5 DEF LogMove, LockFits
    <3>2. \A p \in Products : measured'[p] # {} => measured[p] # {} \/ p = req[s].product
      BY <1>0, <2>5 DEF LogMove, TypeOK
    <3> QED BY <1>0, <3>1, <3>2 DEF ReferencesResolve, Lines, OrdersOf, Exists, Live
  <2>6. CASE Place(s)
    <3>1. UNCHANGED <<product, supplier, measured>>
      BY <2>6 DEF Place
    <3>2. CASE order' = order
      BY <1>0, <3>1, <3>2 DEF ReferencesResolve, Lines, OrdersOf, Exists, Live
    <3>3. CASE order' # order
      <4>1. PICK o \in Orders :
               order' = [order EXCEPT ![o] = [supplier |-> req[s].supplier, product |-> req[s].product,
                                              met |-> req[s].met]]
        BY <2>6, <3>3 DEF Place
      <4>2. Exists(req[s].supplier) /\ Live(req[s].product)
        BY <2>6, <3>3 DEF Place
      <4>3. \A x \in Orders : \/ order'[x] = order[x]
                              \/ order'[x].supplier = req[s].supplier /\ order'[x].product = req[s].product
        BY <1>0, <4>1 DEF TypeOK
      <4>4. \A p \in Products : Lines(p)' # {} => Lines(p) # {} \/ p = req[s].product
        BY <4>3 DEF Lines
      <4>5. \A v \in Suppliers : OrdersOf(v)' # {} => OrdersOf(v) # {} \/ v = req[s].supplier
        BY <4>3 DEF OrdersOf
      <4> QED BY <1>0, <3>1, <4>2, <4>4, <4>5 DEF ReferencesResolve, Exists, Live
    <3> QED BY <3>2, <3>3
  <2>7. CASE SetActive(s) \/ Retire(s) \/ Remove(s)
    <3>1. UNCHANGED <<product, order, measured>>
      BY <2>7 DEF SetActive, Retire, Remove
    <3>2. \A v \in Suppliers : OrdersOf(v) # {} => supplier'[v].at = supplier[v].at
      BY <1>0, <2>7 DEF SetActive, Retire, Remove, TypeOK
    <3> QED BY <1>0, <3>1, <3>2 DEF ReferencesResolve, Live, Lines, OrdersOf, Exists
  <2> QED BY <1>0, <1>3, <2>1, <2>3, <2>4, <2>5, <2>6, <2>7, WriteCases DEF Writing
<1> QED BY <1>1, <1>2, <1>3, StepCases

-----------------------------------------------------------------------------
(* What requests have read                                                  *)

\* What a save writes, when the product is there.
LEMMA SaveWrites ==
    ASSUME IInv, NEW s \in Sessions, Save(s), Live(req[s].product)
    PROVE  LET p == req[s].product
           IN  /\ p \in Products
               /\ product'[p].base = SavedBase(s, p)
               /\ product'[p].spec = IF req[s].given THEN req[s].spec ELSE product[p].spec
               /\ \A q \in Products \ {p} : product'[q] = product[q]
               /\ entangled' = IF req[s].base # None /\ req[s].met THEN entangled \cup {p} ELSE entangled
               /\ tolerated' = IF req[s].duplicate \/ req[s].met THEN tolerated \cup {p} ELSE tolerated \ {p}
               /\ UNCHANGED <<supplier, order, measured>>
<1>1. req[s].product \in Products /\ product \in [Products -> ProductRow]
  BY Fields DEF IInv, LocalsFit, Save, TypeOK, ProductRow
<1>2. product' = [product EXCEPT ![req[s].product].base = SavedBase(s, req[s].product),
                                 ![req[s].product].spec = IF req[s].given THEN req[s].spec ELSE @]
  BY DEF Save
<1>3. product[req[s].product] \in ProductRow
  BY <1>1
<1>4. /\ product'[req[s].product].base = SavedBase(s, req[s].product)
      /\ product'[req[s].product].spec =
             IF req[s].given THEN req[s].spec ELSE product[req[s].product].spec
      /\ \A q \in Products \ {req[s].product} : product'[q] = product[q]
  BY <1>1, <1>2, <1>3 DEF ProductRow
<1> QED BY <1>1, <1>4 DEF Save, Tolerate

\* What a creation writes.
LEMMA InsertWrites ==
    ASSUME IInv, NEW s \in Sessions, Insert(s)
    PROVE  \E p \in Products :
               /\ product[p].at = "free" /\ product'[p].spec = req[s].spec
               /\ \A q \in Products \ {p} : product'[q] = product[q]
               /\ tolerated' = IF req[s].duplicate \/ req[s].met THEN tolerated \cup {p} ELSE tolerated \ {p}
               /\ UNCHANGED <<supplier, order, measured, entangled>>
<1>1. PICK p \in Products :
         /\ product[p].at = "free"
         /\ product' = [product EXCEPT ![p] = [at |-> "live", base |-> req[s].base, spec |-> req[s].spec]]
         /\ tolerated' = IF req[s].duplicate \/ req[s].met THEN tolerated \cup {p} ELSE tolerated \ {p}
  BY DEF Insert, Tolerate
<1>2. product'[p].spec = req[s].spec /\ \A q \in Products \ {p} : product'[q] = product[q]
  BY <1>1 DEF IInv, TypeOK
<1> QED BY <1>1, <1>2 DEF Insert

\* What a deletion writes.
LEMMA DeleteWrites ==
    ASSUME IInv, NEW s \in Sessions, Delete(s)
    PROVE  /\ UNCHANGED <<supplier, order, measured>>
           /\ \/ UNCHANGED <<product, history>>
              \/ LET p == req[s].product
                 IN  /\ Live(p) /\ measured[p] = {} /\ product'[p].at = "gone"
                     /\ \A q \in Products \ {p} : product'[q] = product[q]
                     /\ entangled' = entangled \ {p} /\ tolerated' = tolerated \ {p}
<1>1. req[s].product \in Products /\ product \in [Products -> ProductRow]
  BY Fields DEF IInv, LocalsFit, Delete, TypeOK, ProductRow
<1> QED BY <1>1 DEF Delete, Unreferenced, Deleted

\* A product marked for an update that met another request stays so until it is gone.
LEMMA StaysEntangled ==
    ASSUME IInv, NEW s \in Sessions, Act(s), NEW p \in entangled, Live(p)'
    PROVE  p \in entangled'
<1>1. p \in Products
  BY DEF IInv, TypeOK
<1>2. CASE Delete(s)
  BY <1>1, <1>2, DeleteWrites DEF Live, history
<1>3. CASE Save(s)
  BY <1>3 DEF Save, history
<1>4. CASE ~Delete(s) /\ ~Save(s)
  BY <1>4, WriteCases DEF IInv, Writing, Insert, LogMove, Place, SetActive, Retire, Remove, history
<1> QED BY <1>2, <1>3, <1>4

\* The request that s has after the step: a new one, the same one, or none.
LEMMA OwnRequest ==
    ASSUME IInv, NEW s \in Sessions, Act(s)
    PROVE  \/ /\ UNCHANGED <<rows, history>>
              /\ Found(pc'[s], req'[s]) /\ pc'[s] # "save"
           \/ /\ UNCHANGED <<rows, history>> /\ req'[s] = req[s]
              /\ \/ pc[s] = "count" /\ pc'[s] = "specs" /\ NoHistory(req[s].product)
                 \/ pc[s] = "specs" /\ pc'[s] = "save" /\ ~Duplicate(req[s], req[s].target, req[s].product)
                 \/ pc[s] = "write" /\ pc'[s] = "log"
                 \/ pc[s] = "items" /\ pc'[s] = "place"
           \/ req'[s] = NoRequest
<1>0. TypeOK
  BY DEF IInv
<1>1. ASSUME NEW step \in Steps \ {"idle", "log", "save", "place"}, NEW r \in Request,
             Begin(s, step, r), Found(step, r), UNCHANGED <<rows, lock, history>>
      PROVE  UNCHANGED <<rows, history>> /\ Found(pc'[s], req'[s]) /\ pc'[s] # "save"
  <2>1. pc'[s] = step
    BY <1>0, <1>1 DEF Begin, TypeOK
  <2>2. req'[s] = [r EXCEPT !.met = r.op \in Watched /\ \E q \in Sessions : Related(r, req[q])]
    BY <1>1 DEF Begin
  <2>3. /\ req'[s].op = r.op /\ req'[s].product = r.product /\ req'[s].supplier = r.supplier
        /\ req'[s].base = r.base /\ req'[s].seen = r.seen /\ req'[s].given = r.given /\ req'[s].spec = r.spec
        /\ req'[s].target = r.target /\ req'[s].duplicate = r.duplicate
    BY <2>2 DEF Request
  <2> QED BY <1>1, <2>1, <2>3 DEF Found, Duplicate
<1>2. ASSUME Goes(s, "count", "specs") \/ Goes(s, "specs", "save")
             \/ Goes(s, "write", "log") \/ Goes(s, "items", "place")
      PROVE  /\ UNCHANGED <<rows, history>> /\ req'[s] = req[s]
             /\ \/ pc[s] = "count" /\ pc'[s] = "specs" /\ NoHistory(req[s].product)
                \/ pc[s] = "specs" /\ pc'[s] = "save" /\ ~Duplicate(req[s], req[s].target, req[s].product)
                \/ pc[s] = "write" /\ pc'[s] = "log"
                \/ pc[s] = "items" /\ pc'[s] = "place"
  <2>1. /\ req' = req /\ pc[s] \in {"count", "specs", "write", "items"}
        /\ pc[s] = "count" => pc'[s] = "specs"
        /\ pc[s] = "specs" => pc'[s] = "save"
        /\ pc[s] = "write" => pc'[s] = "log"
        /\ pc[s] = "items" => pc'[s] = "place"
    BY <1>0, <1>2 DEF Goes, TypeOK
  <2>2. CountMoves(s) \/ CheckSpecs(s) \/ WriteLevel(s) \/ ReadItems(s)
    <3>1. ~Start(s)
      BY <2>1, StartCases, <1>0 DEF Begin
    <3>2. ~Fail(s)
      BY <1>0, <2>1 DEF Fail, Finish, Goto, TypeOK
    <3> QED BY <2>1, <3>1, <3>2 DEF Act, Continue, Insert, Save, Delete, LogMove, Place, SetActive, Retire, Remove
  <2>3. ~Finish(s)
    BY <1>0, <2>1 DEF Finish, Goto, TypeOK
  <2> QED BY <2>1, <2>2, <2>3 DEF CountMoves, CheckSpecs, WriteLevel, ReadItems
<1>3. ASSUME Finish(s) PROVE req'[s] = NoRequest
  BY <1>0, <1>3 DEF Finish, TypeOK
<1> QED BY <1>0, <1>1, <1>2, <1>3, RequestCases

\* A watched request that has met nobody is not related to that of the session s.
LEMMA Unrelated ==
    ASSUME IInv, NEW s \in Sessions, Act(s), NEW t \in Sessions \ {s},
           req[t].op \in Watched, ~req'[t].met
    PROVE  ~req[t].met /\ ~Related(req[t], req[s]) /\ Same(t)
BY RequestStep DEF IInv, MetKept, Same

\* Attributes that are taken after a step of an unrelated request were so before it.
LEMMA TakenBefore ==
    ASSUME IInv, NEW s \in Sessions, Act(s), NEW t \in Sessions \ {s},
           req[t].op \in {"create", "update"}, ~req'[t].met,
           NEW q \in Products, Live(q)'
    PROVE  Live(q) /\ product'[q] = product[q]
<1>1. ~Related(req[t], req[s])
  BY Unrelated DEF Watched
<1>2. req[s].op \notin {"create", "update"}
  BY <1>1 DEF Related
<1>3. ~Insert(s) /\ ~Save(s)
  BY <1>2 DEF IInv, LocalsFit, Insert, Save
<1> QED BY <1>3, ProductCases DEF Live

LEMMA MovesStep == ASSUME IInv, [Next]_vars PROVE MovesFresh'
<1>0. TypeOK /\ LocalsFit /\ MetKept /\ MovesFresh
  BY DEF IInv
<1>1. CASE UNCHANGED vars \/ CreateSupplier
  <2>1. UNCHANGED <<product, req, entangled>>
    BY <1>1 DEF vars, rows, history, CreateSupplier
  <2> QED BY <1>0, <2>1 DEF MovesFresh, Live
<1>2. ASSUME NEW s \in Sessions, Act(s), NEW t \in Sessions,
             req'[t].op = "move", Live(req[t].product)', req'[t].product \notin entangled'
      PROVE  req'[t].seen = product'[req'[t].product].base
  <2>1. CASE t = s
    <3>1. CASE UNCHANGED <<rows, history>> /\ Found(pc'[s], req'[s])
      BY <1>2, <2>1, <3>1 DEF Found, rows
    <3>2. CASE UNCHANGED <<rows, history>> /\ req'[s] = req[s]
      BY <1>0, <1>2, <2>1, <3>2 DEF MovesFresh, Live, rows, history
    <3>3. req'[s] # NoRequest
      BY <1>2, <2>1 DEF NoRequest
    <3> QED BY <1>2, <3>1, <3>2, <3>3, OwnRequest
  <2>2. CASE t # s
    <3> DEFINE p == req[t].product
    <3>1. /\ req[t].op = "move" /\ req'[t].product = p /\ req'[t].seen = req[t].seen
      BY <1>0, <1>2, <2>2, RequestStep DEF Same
    <3>2. p \in Products /\ product[p].at # "free" /\ p # None
      BY <1>0, <3>1, Fields DEF LocalsFit
    <3>3. p \notin entangled
      BY <1>2, <3>1, StaysEntangled
    <3>4. CASE product'[p] = product[p]
      BY <1>0, <1>2, <3>1, <3>3, <3>4 DEF MovesFresh, Live
    <3>5. CASE Save(s) /\ p = req[s].product /\ Live(p)
      <4>1. /\ entangled' = IF req[s].base # None /\ req[s].met THEN entangled \cup {p} ELSE entangled
            /\ product'[p].base = SavedBase(s, p)
        BY <3>5, SaveWrites
      <4>2. CASE req[s].base = None
        BY <1>0, <3>1, <3>3, <3>5, <4>1, <4>2 DEF MovesFresh, SavedBase
      <4>3. CASE req[s].base # None
        <5>1. req[s].op \in Watched /\ Related(req[s], req[t])
          BY <1>0, <3>2, <3>5 DEF LocalsFit, Save, Watched, Related
        <5>2. req[s].met
          BY <1>0, <2>2, <5>1 DEF MetKept
        <5> QED BY <1>2, <3>1, <4>1, <4>3, <5>2
      <4> QED BY <4>2, <4>3
    <3> QED BY <1>2, <3>1, <3>2, <3>4, <3>5, ProductCases DEF Live
  <2> QED BY <2>1, <2>2
<1> QED BY <1>1, <1>2, StepCases DEF MovesFresh

\* What UpdatesFresh says of an update in progress.
UpdateFresh(t) ==
    LET r == req[t]
        p == req[t].product
    IN  /\ r.target = IF r.given THEN r.spec ELSE product[p].spec
        /\ pc[t] \in {"specs", "save"} /\ r.base # None => r.base = product[p].base \/ measured[p] = {}
        /\ pc[t] = "save" => ~Duplicate(r, r.target, p)

LEMMA UpdatesStep == ASSUME IInv, [Next]_vars PROVE UpdatesFresh'
<1>0. TypeOK /\ LocalsFit /\ MetKept /\ UpdatesFresh
  BY DEF IInv
<1>1. CASE UNCHANGED vars \/ CreateSupplier
  <2>1. UNCHANGED <<product, measured, pc, req>>
    BY <1>1 DEF vars, rows, history, CreateSupplier
  <2> QED BY <1>0, <2>1 DEF UpdatesFresh, Live, Duplicate, Taken
<1>2. ASSUME NEW s \in Sessions, Act(s), NEW t \in Sessions,
             req'[t].op = "update", ~req'[t].met, Live(req[t].product)'
      PROVE  UpdateFresh(t)'
  <2>1. CASE t = s
    <3>1. CASE UNCHANGED <<rows, history>> /\ Found(pc'[s], req'[s]) /\ pc'[s] # "save"
      BY <1>2, <2>1, <3>1 DEF Found, rows, UpdateFresh
    <3>2. CASE /\ UNCHANGED <<rows, history>> /\ req'[s] = req[s]
               /\ pc[s] = "count" /\ pc'[s] = "specs" /\ NoHistory(req[s].product)
      BY <1>0, <1>2, <2>1, <3>2 DEF UpdatesFresh, UpdateFresh, Live, rows, NoHistory
    <3>3. CASE /\ UNCHANGED <<rows, history>> /\ req'[s] = req[s]
               /\ pc[s] = "specs" /\ pc'[s] = "save" /\ ~Duplicate(req[s], req[s].target, req[s].product)
      BY <1>0, <1>2, <2>1, <3>3 DEF UpdatesFresh, UpdateFresh, Live, rows, Duplicate, Taken
    <3>4. pc[s] \notin {"write", "items"} \/ req'[s] # req[s]
      BY <1>0, <1>2, <2>1 DEF NoRequest, LocalsFit
    <3>5. req'[s] # NoRequest
      BY <1>2, <2>1 DEF NoRequest
    <3> QED BY <1>2, <3>1, <3>2, <3>3, <3>4, <3>5, OwnRequest
  <2>2. CASE t # s
    <3> DEFINE p == req[t].product
    <3>1. Same(t) /\ req[t].op = "update"
      BY <1>0, <1>2, <2>2, RequestStep DEF Same
    <3>2. ~req[t].met /\ ~Related(req[t], req[s])
      BY <1>2, <2>2, <3>1, Unrelated DEF Watched
    <3>3. p \in Products /\ p # None /\ req[s].product # p
      BY <1>0, <3>1, <3>2, Fields DEF LocalsFit, Related
    <3>4. req'[t].product = p /\ Live(p)'
      BY <1>2, <3>1 DEF Same, Live
    <3>5. Live(p) /\ product'[p] = product[p]
      BY <1>2, <2>2, <3>1, <3>3, <3>4, TakenBefore
    <3>6. measured'[p] = measured[p]
      <4>1. CASE LogMove(s)
        BY <1>0, <3>3, <4>1 DEF LogMove, TypeOK
      <4> QED BY <1>0, <1>2, <4>1, WriteCases DEF Writing, Insert, Save, Delete, Place, SetActive, Retire, Remove, rows
    <3>7. Duplicate(req[t], req[t].target, p)' => Duplicate(req[t], req[t].target, p)
      <4>1. \A q \in Products : Live(q)' => Live(q) /\ product'[q] = product[q]
        BY <1>2, <2>2, <3>1, TakenBefore
      <4> QED BY <3>1, <3>4, <4>1 DEF Duplicate, Taken, Same
    <3> HIDE DEF p
    <3>8. /\ req[t].target = IF req[t].given THEN req[t].spec ELSE product[p].spec
          /\ pc[t] \in {"specs", "save"} /\ req[t].base # None => req[t].base = product[p].base \/ measured[p] = {}
          /\ pc[t] = "save" => ~Duplicate(req[t], req[t].target, p)
      BY <1>0, <3>1, <3>2, <3>5 DEF UpdatesFresh, p
    <3> QED BY <3>1, <3>4, <3>5, <3>6, <3>7, <3>8 DEF Same, p, UpdateFresh, Duplicate, Taken
  <2> QED BY <2>1, <2>2
<1> QED BY <1>1, <1>2, StepCases DEF UpdatesFresh, UpdateFresh

LEMMA CreatesStep == ASSUME IInv, [Next]_vars PROVE CreatesFresh'
<1>0. TypeOK /\ LocalsFit /\ CreatesFresh
  BY DEF IInv
<1>1. CASE UNCHANGED vars \/ CreateSupplier
  <2>1. UNCHANGED <<product, req>>
    BY <1>1 DEF vars, rows, CreateSupplier
  <2> QED BY <1>0, <2>1 DEF CreatesFresh, Live, Duplicate, Taken
<1>2. ASSUME NEW s \in Sessions, Act(s), NEW t \in Sessions, req'[t].op = "create", ~req'[t].met
      PROVE  ~Duplicate(req[t], req[t].spec, None)'
  <2>1. CASE t = s
    <3>1. CASE UNCHANGED <<rows, history>> /\ Found(pc'[s], req'[s])
      BY <1>2, <2>1, <3>1 DEF Found, rows, Duplicate, Taken, Live
    <3>2. req'[s] # NoRequest
      BY <1>2, <2>1 DEF NoRequest
    <3>3. ~(req'[s] = req[s] /\ pc[s] \in {"count", "specs", "write", "items"})
      BY <1>0, <1>2, <2>1 DEF LocalsFit
    <3> QED BY <1>2, <3>1, <3>2, <3>3, OwnRequest
  <2>2. CASE t # s
    <3>1. Same(t) /\ req[t].op = "create" /\ ~req[t].met
      BY <1>0, <1>2, <2>2, RequestStep DEF Same
    <3>2. \A q \in Products : Live(q)' => Live(q) /\ product'[q] = product[q]
      BY <1>2, <2>2, <3>1, TakenBefore
    <3> QED BY <1>0, <3>1, <3>2 DEF CreatesFresh, Same, Duplicate, Taken
  <2> QED BY <2>1, <2>2
<1> QED BY <1>1, <1>2, StepCases DEF CreatesFresh

\* A step of an unrelated request leaves the supplier of an order alone.
LEMMA OrdersStep == ASSUME IInv, [Next]_vars PROVE OrdersFresh'
<1>0. TypeOK /\ LocalsFit /\ OrdersFresh
  BY DEF IInv
<1>1. CASE UNCHANGED vars
  BY <1>0, <1>1 DEF vars, rows, OrdersFresh, MayOrder, Exists
<1>2. CASE CreateSupplier
  <2>1. req' = req /\ \A v \in Suppliers : Exists(v) => supplier'[v] = supplier[v]
    BY <1>0, <1>2 DEF CreateSupplier, TypeOK, Exists
  <2>2. \A t \in Sessions : req[t].op = "order" => req[t].supplier \in Suppliers
    BY <1>0, Fields DEF LocalsFit
  <2> QED BY <1>0, <2>1, <2>2 DEF OrdersFresh, MayOrder, Exists
<1>3. ASSUME NEW s \in Sessions, Act(s), NEW t \in Sessions, req'[t].op = "order", ~req'[t].met
      PROVE  MayOrder(req[t].supplier)'
  <2>1. CASE t = s
    <3>1. CASE UNCHANGED <<rows, history>> /\ Found(pc'[s], req'[s])
      BY <1>3, <2>1, <3>1 DEF Found, rows, MayOrder, Exists
    <3>2. CASE UNCHANGED <<rows, history>> /\ req'[s] = req[s]
      BY <1>0, <1>3, <2>1, <3>2 DEF OrdersFresh, rows, MayOrder, Exists
    <3>3. req'[s] # NoRequest
      BY <1>3, <2>1 DEF NoRequest
    <3> QED BY <1>3, <3>1, <3>2, <3>3, OwnRequest
  <2>2. CASE t # s
    <3> DEFINE v == req[t].supplier
    <3>1. Same(t) /\ req[t].op = "order"
      BY <1>0, <1>3, <2>2, RequestStep DEF Same
    <3>2. ~req[t].met /\ ~Related(req[t], req[s])
      BY <1>3, <2>2, <3>1, Unrelated DEF Watched
    <3>3. v \in Suppliers /\ req[s].supplier # v /\ MayOrder(v)
      BY <1>0, <3>1, <3>2, Fields DEF LocalsFit, Related, OrdersFresh
    <3>4. supplier'[v] = supplier[v]
      <4>1. CASE SetActive(s) \/ Retire(s) \/ Remove(s)
        BY <1>0, <3>3, <4>1 DEF SetActive, Retire, Remove, TypeOK
      <4> QED BY <1>0, <1>3, <4>1, WriteCases DEF Writing, Insert, Save, Delete, LogMove, Place, rows
    <3> QED BY <3>1, <3>3, <3>4 DEF Same, MayOrder, Exists
  <2> QED BY <2>1, <2>2
<1> QED BY <1>1, <1>2, <1>3, StepCases DEF OrdersFresh

-----------------------------------------------------------------------------
(* Base units and attributes                                                *)

LEMMA MovementsStep == ASSUME IInv, [Next]_vars PROVE MovementsInBaseUnit'
<1>0. /\ TypeOK /\ LocalsFit /\ LockFits /\ MovesFresh /\ UpdatesFresh
      /\ MovementsInBaseUnit /\ ReferencesResolve
  BY DEF IInv
<1>1. CASE UNCHANGED vars \/ CreateSupplier
  <2>1. UNCHANGED <<product, measured, entangled>>
    BY <1>1 DEF vars, rows, history, CreateSupplier
  <2> QED BY <1>0, <2>1 DEF MovementsInBaseUnit
<1>2. ASSUME NEW s \in Sessions, Act(s), NEW p \in Products, p \notin entangled'
      PROVE  measured'[p] \subseteq {product'[p].base}
  <2>1. CASE Insert(s)
    <3>1. PICK q \in Products : /\ product[q].at = "free" /\ UNCHANGED <<measured, entangled>>
                                /\ \A x \in Products \ {q} : product'[x] = product[x]
      BY <2>1, InsertWrites
    <3>2. p = q => measured[p] = {}
      BY <1>0, <3>1 DEF ReferencesResolve, Live
    <3> QED BY <1>0, <1>2, <3>1, <3>2 DEF MovementsInBaseUnit
  <2>2. CASE Save(s)
    <3> DEFINE q == req[s].product
    <3>1. CASE ~Live(q)
      BY <1>0, <1>2, <2>2, <3>1 DEF Save, history, MovementsInBaseUnit
    <3>2. CASE Live(q)
      <4>1. /\ q \in Products /\ product'[q].base = SavedBase(s, q)
            /\ \A x \in Products \ {q} : product'[x] = product[x]
            /\ entangled' = IF req[s].base # None /\ req[s].met THEN entangled \cup {q} ELSE entangled
            /\ measured' = measured
        BY <2>2, <3>2, SaveWrites
      <4>2. p \notin entangled /\ measured[p] \subseteq {product[p].base}
        BY <1>0, <1>2, <4>1 DEF MovementsInBaseUnit
      <4>3. CASE p = q /\ req[s].base # None
        <5>1. ~req[s].met /\ req[s].op = "update"
          BY <1>0, <1>2, <2>2, <4>1, <4>3 DEF Save, LocalsFit
        <5>2. req[s].base = product[q].base \/ measured[q] = {}
          BY <1>0, <2>2, <3>2, <4>3, <5>1 DEF UpdatesFresh, Save
        <5> QED BY <4>1, <4>2, <4>3, <5>2 DEF SavedBase
      <4>4. CASE ~(p = q /\ req[s].base # None)
        BY <4>1, <4>2, <4>4 DEF SavedBase
      <4> QED BY <4>3, <4>4
    <3> QED BY <3>1, <3>2
  <2>3. CASE Delete(s)
    <3>1. CASE UNCHANGED <<product, history>>
      BY <1>0, <1>2, <2>3, <3>1, DeleteWrites DEF history, MovementsInBaseUnit
    <3>2. CASE ~UNCHANGED <<product, history>>
      BY <1>0, <1>2, <2>3, <3>2, DeleteWrites DEF MovementsInBaseUnit
    <3> QED BY <3>1, <3>2
  <2>4. CASE LogMove(s)
    <3> DEFINE q == req[s].product
    <3>1. /\ UNCHANGED <<product, entangled>>
          /\ measured' = [measured EXCEPT ![q] = @ \cup {req[s].seen}]
          /\ Live(q) /\ req[s].op = "move"
      BY <1>0, <2>4 DEF LogMove, LockFits, LocalsFit, history
    <3>2. q \in Products
      BY <1>0, <3>1, Fields DEF LocalsFit
    <3>3. measured[p] \subseteq {product[p].base}
      BY <1>0, <1>2, <3>1 DEF MovementsInBaseUnit
    <3>4. p = q => req[s].seen = product[p].base
      BY <1>0, <1>2, <3>1 DEF MovesFresh
    <3>5. measured'[p] \subseteq measured[p] \cup (IF p = q THEN {req[s].seen} ELSE {})
      BY <1>0, <3>1, <3>2 DEF TypeOK
    <3> QED BY <3>1, <3>3, <3>4, <3>5
  <2>5. CASE Place(s) \/ SetActive(s) \/ Retire(s) \/ Remove(s)
    BY <1>0, <1>2, <2>5 DEF Place, SetActive, Retire, Remove, history, MovementsInBaseUnit
  <2>6. CASE UNCHANGED <<rows, history>>
    BY <1>0, <1>2, <2>6 DEF rows, history, MovementsInBaseUnit
  <2> QED BY <1>0, <1>2, <2>1, <2>2, <2>3, <2>4, <2>5, <2>6, WriteCases DEF Writing
<1>3. entangled' \subseteq Products
  BY TypeStep DEF TypeOK
<1> QED BY <1>1, <1>2, StepCases DEF MovementsInBaseUnit

LEMMA SpecsStep == ASSUME IInv, [Next]_vars PROVE SpecsDistinct'
<1>0. /\ TypeOK /\ LocalsFit /\ UpdatesFresh /\ CreatesFresh /\ SpecsDistinct
  BY DEF IInv
<1>1. CASE UNCHANGED vars \/ CreateSupplier
  <2>1. UNCHANGED <<product, tolerated>>
    BY <1>1 DEF vars, rows, history, CreateSupplier
  <2> QED BY <1>0, <2>1 DEF SpecsDistinct, Live
<1>2. ASSUME NEW s \in Sessions, Act(s), NEW p \in Products, NEW q \in Products, p # q,
             Live(p)', Live(q)', product'[p].spec # None, product'[p].spec = product'[q].spec
      PROVE  tolerated' \cap {p, q} # {}
  <2>0. Live(p) /\ Live(q) /\ product[p].spec # None /\ product[p].spec = product[q].spec =>
           tolerated \cap {p, q} # {}
    BY <1>0, <1>2 DEF SpecsDistinct
  <2>1. CASE Insert(s)
    <3>1. PICK x \in Products :
             /\ product[x].at = "free" /\ product'[x].spec = req[s].spec
             /\ \A y \in Products \ {x} : product'[y] = product[y]
             /\ tolerated' = IF req[s].duplicate \/ req[s].met THEN tolerated \cup {x} ELSE tolerated \ {x}
      BY <2>1, InsertWrites
    <3>2. CASE x \notin {p, q}
      BY <1>2, <2>0, <3>1, <3>2 DEF Live
    <3>3. CASE x \in {p, q} /\ ~req[s].duplicate /\ ~req[s].met
      <4>1. req[s].op = "create"
        BY <1>0, <2>1 DEF LocalsFit, Insert
      <4>2. ~Taken(req[s].spec, None)
        BY <1>0, <3>3, <4>1 DEF CreatesFresh, Duplicate
      <4>3. PICK y \in {p, q} : y # x /\ product'[y].spec = req[s].spec /\ req[s].spec # None
        BY <1>2, <3>1, <3>3
      <4>4. Live(y) /\ product[y].spec = req[s].spec /\ y # None
        BY <1>2, <3>1, <4>3, NoneIsNew DEF Live
      <4> QED BY <4>2, <4>3, <4>4 DEF Taken
    <3>4. CASE x \in {p, q} /\ (req[s].duplicate \/ req[s].met)
      BY <3>1, <3>4
    <3> QED BY <3>2, <3>3, <3>4
  <2>2. CASE Save(s)
    <3> DEFINE x == req[s].product
    <3>1. CASE ~Live(x)
      BY <1>2, <2>0, <2>2, <3>1 DEF Save, history, Live
    <3>2. CASE Live(x)
      <4>1. /\ x \in Products
            /\ product'[x].spec = IF req[s].given THEN req[s].spec ELSE product[x].spec
            /\ \A y \in Products \ {x} : product'[y] = product[y]
            /\ tolerated' = IF req[s].duplicate \/ req[s].met THEN tolerated \cup {x} ELSE tolerated \ {x}
        BY <2>2, <3>2, SaveWrites
      <4>2. CASE x \notin {p, q}
        BY <1>2, <2>0, <4>1, <4>2 DEF Live
      <4>3. CASE x \in {p, q} /\ ~req[s].duplicate /\ ~req[s].met
        <5>1. req[s].op = "update"
          BY <1>0, <2>2 DEF LocalsFit, Save
        <5>2. /\ req[s].target = IF req[s].given THEN req[s].spec ELSE product[x].spec
              /\ ~Duplicate(req[s], req[s].target, x)
          BY <1>0, <2>2, <3>2, <4>3, <5>1 DEF UpdatesFresh, Save
        <5>3. PICK y \in {p, q} : y # x /\ product'[y].spec = product'[x].spec /\ product'[x].spec # None
          BY <1>2, <4>3
        <5>4. Live(y) /\ product[y].spec = req[s].target /\ req[s].target # None
          BY <1>2, <4>1, <5>2, <5>3 DEF Live
        <5> QED BY <4>3, <5>2, <5>3, <5>4 DEF Taken, Duplicate
      <4>4. CASE x \in {p, q} /\ (req[s].duplicate \/ req[s].met)
        BY <4>1, <4>4
      <4> QED BY <4>2, <4>3, <4>4
    <3> QED BY <3>1, <3>2
  <2>3. CASE Delete(s)
    <3>1. CASE UNCHANGED <<product, history>>
      BY <1>2, <2>0, <3>1 DEF history, Live
    <3>2. CASE ~UNCHANGED <<product, history>>
      <4> DEFINE x == req[s].product
      <4>1. /\ product'[x].at = "gone" /\ tolerated' = tolerated \ {x}
            /\ \A y \in Products \ {x} : product'[y] = product[y]
        BY <2>3, <3>2, DeleteWrites
      <4>2. x \notin {p, q}
        BY <1>2, <4>1 DEF Live
      <4> QED BY <1>2, <2>0, <4>1, <4>2 DEF Live
    <3> QED BY <3>1, <3>2
  <2>4. CASE UNCHANGED <<product, tolerated>>
    BY <1>2, <2>0, <2>4 DEF Live
  <2> QED BY <1>0, <1>2, <2>1, <2>2, <2>3, <2>4, WriteCases
          DEF Writing, LogMove, Place, SetActive, Retire, Remove, rows, history
<1> QED BY <1>1, <1>2, StepCases DEF SpecsDistinct

-----------------------------------------------------------------------------
(* The theorems                                                             *)

LEMMA InitIInv == Init => IInv
<1> SUFFICES ASSUME Init PROVE IInv
  OBVIOUS
<1>0. None \notin Products \cup Suppliers \cup Sessions
  BY NoneIsNew
<1>1. NoRequest \in Request
  BY DEF NoRequest, Request
<1>2. /\ NoProduct \in [at : Presence, base : Units \cup {None}, spec : Specs \cup {None}]
      /\ NoSupplier \in [at : Presence, active : BOOLEAN]
      /\ NoOrder \in [supplier : Suppliers \cup {None}, product : Products \cup {None}, met : BOOLEAN]
      /\ "idle" \in Steps
  BY DEF NoProduct, NoSupplier, NoOrder, Presence, Steps
<1>3. TypeOK
  BY <1>1, <1>2 DEF Init, TypeOK, Live, NoProduct
<1>4. LocalsFit /\ MetKept /\ MovesFresh /\ UpdatesFresh /\ CreatesFresh /\ OrdersFresh
  BY DEF Init, NoRequest, LocalsFit, MetKept, MovesFresh, UpdatesFresh, CreatesFresh, OrdersFresh, Watched
<1>5. LockFits
  BY <1>0 DEF Init, LockFits
<1>6. MovementsInBaseUnit /\ SpecsDistinct
  BY DEF Init, MovementsInBaseUnit, SpecsDistinct, Live, NoProduct
<1>7. ReferencesResolve
  BY <1>0 DEF Init, ReferencesResolve, Lines, OrdersOf, NoOrder
<1> QED BY <1>3, <1>4, <1>5, <1>6, <1>7 DEF IInv

\* The inductive invariant holds in every reachable state.
THEOREM Inductive == Spec => []IInv
<1>1. IInv /\ [Next]_vars => IInv'
  BY TypeStep, LocalsStep, LockStep, MetStep, MovesStep, UpdatesStep, CreatesStep, OrdersStep,
     MovementsStep, SpecsStep, ReferencesStep DEF IInv
<1> QED BY <1>1, InitIInv, PTL DEF Spec

\* Every variable keeps its type, and a product that is there has a base unit.
THEOREM TypeCorrect == Spec => []TypeOK
<1>1. IInv => TypeOK
  BY DEF IInv
<1> QED BY <1>1, Inductive, PTL

\* Neither deleteProduct nor the removal of a supplier ever takes away a row that a
\* movement or an order refers to.
THEOREM ReferencesAlwaysResolve == Spec => []ReferencesResolve
<1>1. IInv => ReferencesResolve
  BY DEF IInv
<1> QED BY <1>1, Inductive, PTL

\* updateProduct keeps the base unit of a product with movements, unless it meets
\* another request on the product.
THEOREM BaseUnitAlwaysKept == Spec => []MovementsInBaseUnit
<1>1. IInv => MovementsInBaseUnit
  BY DEF IInv
<1> QED BY <1>1, Inductive, PTL

\* createProduct and updateProduct let two products have the same attributes only if
\* they were asked to, or met each other.
THEOREM SpecsAlwaysDistinct == Spec => []SpecsDistinct
<1>1. IInv => SpecsDistinct
  BY DEF IInv
<1> QED BY <1>1, Inductive, PTL

\* createPurchaseOrder orders from an active supplier, unless it meets an edit of it.
THEOREM OrdersAlwaysToActive == Spec => OrdersToActive
<1>1. ASSUME IInv, [Next]_vars, NEW o \in Orders, order[o] = NoOrder, order'[o] # NoOrder, ~order'[o].met
      PROVE  supplier[order'[o].supplier].active
  <2>1. TypeOK /\ LocalsFit /\ OrdersFresh
    BY <1>1 DEF IInv
  <2>2. PICK s \in Sessions : Place(s)
    BY <1>1, <2>1, StepCases, WriteCases
       DEF vars, rows, CreateSupplier, Writing, Insert, Save, Delete, LogMove, SetActive, Retire, Remove
  <2>3. PICK x \in Orders :
           order' = [order EXCEPT ![x] = [supplier |-> req[s].supplier, product |-> req[s].product,
                                          met |-> req[s].met]]
    BY <1>1, <2>2 DEF Place
  <2>4. order'[o].supplier = req[s].supplier /\ order'[o].met = req[s].met
    BY <1>1, <2>1, <2>3 DEF TypeOK
  <2> QED BY <1>1, <2>1, <2>2, <2>4 DEF Place, LocalsFit, OrdersFresh, MayOrder
<1>2. IInv /\ [Next]_vars =>
        \A o \in Orders : order[o] = NoOrder /\ order'[o] # NoOrder /\ ~order'[o].met =>
           supplier[order'[o].supplier].active
  BY <1>1
<1> QED BY <1>2, Inductive, PTL DEF Spec, OrdersToActive
=============================================================================
