--------------------------- MODULE ShipmentsProofs ---------------------------
(***************************************************************************)
(* Proofs about Shipments, for any sales, shipments, forwarders, sessions.  *)
(*                                                                          *)
(* What a request has checked may have changed when it writes, so that IInv *)
(* has to say what is left of it: JobsFit which rows it works on,           *)
(* DispatchFits that a shipment it will set DELIVERED has been DISPATCHED,  *)
(* AloneFits that without overlap all it has checked is still so.           *)
(***************************************************************************)
EXTENDS Shipments, TLAPS

OnShipment == {"status", "edit", "delete"}

JobsFit ==
    \A s \in Sessions :
        /\ pc[s] = "idle" => job[s] = NoJob
        /\ pc[s] \in {"carrier", "create"} \cup OnShipment => job[s].sale \in Sales
        /\ pc[s] \in OnShipment => job[s].id \in Shipments
        /\ pc[s] = "carrier" => job[s].carrier \in Forwarders
        /\ pc[s] = "create" => job[s].id = None /\ job[s].carrier \in Forwarders
        /\ pc[s] \in {"drop", "deactivate"} =>
              job[s].sale = None /\ job[s].id = None /\ job[s].carrier \in Forwarders
        /\ job[s].id # None => shipment[job[s].id].sale \in {job[s].sale, None}
                               /\ shipment[job[s].id] # NoRow

DispatchFits ==
    /\ \A i \in Shipments : shipment[i].status = "DISPATCHED" => i \in dispatched
    /\ \A s \in Sessions :
          pc[s] = "status" /\ job[s].target = "DELIVERED" => job[s].id \in dispatched

AloneFits ==
    \A s \in Sessions : job[s].sale \in Sales \ overlapped =>
        /\ \A t \in Sessions \ {s} : job[t].sale # job[s].sale
        /\ job[s].id = None => ~HasActive(job[s].sale)
        /\ job[s].id # None /\ Exists(job[s].id) =>
              /\ pc[s] = "status" => Transition(shipment[job[s].id].status, job[s].target)
              /\ pc[s] \in {"carrier", "edit"} => shipment[job[s].id].status # "DELIVERED"

IInv ==
    /\ TypeOK /\ JobsFit /\ DispatchFits /\ AloneFits
    /\ CarriersThere /\ OneActive /\ DeliveredAfterDispatch

-----------------------------------------------------------------------------
USE DEF Goto, rows

\* A request begins with something it may work on.
Start(s) == StartCreate(s) \/ StartStatus(s) \/ StartEdit(s) \/ StartDelete(s) \/ StartDrop(s)
\* It changes a shipment, or a forwarder, and ends.
Write(s) == Create(s) \/ SetStatus(s) \/ Edit(s) \/ Delete(s)
End(s) == Deactivate(s) \/ Drop(s) \/ Fail(s)
Step(s) == Start(s) \/ CheckCarrier(s) \/ Write(s) \/ End(s)

LEMMA StepCases ==
    [Next]_vars => EditForwarders \/ (\E s \in Sessions : Step(s)) \/ UNCHANGED vars
  BY DEF Next, Step, Start, Write, End

LEMMA RowsApart ==
    /\ NoRow.status \notin Statuses /\ Gone.status \notin Statuses /\ NoRow # Gone
    /\ NoRow.sale = None /\ Gone.sale = None /\ None \notin Sales
    /\ \A r \in Row : r.status \in Statuses /\ r.sale \in Sales /\ r.carrier \in Forwarders
                      /\ r # NoRow /\ r # Gone
<1>1. NoRow.status = "NONE" /\ Gone.status = "DELETED" /\ NoRow.sale = None /\ Gone.sale = None
  BY DEF NoRow, Gone
<1>2. \A r \in Row : r.status \in Statuses /\ r.sale \in Sales /\ r.carrier \in Forwarders
  BY DEF Row
<1> QED BY <1>1, <1>2, NoneIsNew DEF Statuses

\* A shipment that exists is a row of a sale and a forwarder.
LEMMA Existing ==
    ASSUME TypeOK, NEW i \in Shipments
    PROVE  /\ Exists(i) <=> shipment[i] \in Row
           /\ Exists(i) => shipment[i].sale \in Sales /\ shipment[i].status \in Statuses
           /\ ~Exists(i) => shipment[i].sale = None /\ shipment[i] \in {NoRow, Gone}
<1>1. shipment[i] \in Row \/ shipment[i] = NoRow \/ shipment[i] = Gone
  BY DEF TypeOK
<1> QED BY <1>1, RowsApart DEF Exists

LEMMA NoJobTyped ==
    /\ NoJob \in Job /\ NoJob.sale = None /\ NoJob.id = None
    /\ \A t \in Sales \cup {None}, i \in Shipments \cup {None}, f \in Forwarders \cup {None},
          target \in Statuses :
          /\ [NoJob EXCEPT !.sale = t, !.id = i, !.target = target] \in Job
          /\ [NoJob EXCEPT !.sale = t, !.id = i, !.carrier = f] \in Job
          /\ [NoJob EXCEPT !.sale = t, !.id = i] \in Job
  BY DEF NoJob, Job, Statuses

\* What each beginning leaves with: its step and its job.
LEMMA Begun ==
    ASSUME TypeOK, NEW s \in Sessions, Start(s)
    PROVE  \E step \in Steps, what \in Job :
              /\ Begin(s, step, what)
              /\ \/ /\ step = "carrier" /\ what.sale \in Sales /\ what.carrier \in Forwarders
                    /\ what.id = None /\ ~HasActive(what.sale)
                 \/ /\ step \in OnShipment \cup {"carrier"} /\ what.id \in Shipments
                    /\ Exists(what.id) /\ what.sale = shipment[what.id].sale
                    /\ step = "status" => Transition(shipment[what.id].status, what.target)
                    /\ step \in {"carrier", "edit"} => shipment[what.id].status # "DELIVERED"
                    /\ step = "carrier" => what.carrier \in Forwarders
                 \/ /\ step \in {"drop", "deactivate"} /\ what.sale = None /\ what.id = None
                    /\ what.carrier \in Forwarders
<1> DEFINE P(step, what) ==
              /\ Begin(s, step, what)
              /\ \/ /\ step = "carrier" /\ what.sale \in Sales /\ what.carrier \in Forwarders
                    /\ what.id = None /\ ~HasActive(what.sale)
                 \/ /\ step \in OnShipment \cup {"carrier"} /\ what.id \in Shipments
                    /\ Exists(what.id) /\ what.sale = shipment[what.id].sale
                    /\ step = "status" => Transition(shipment[what.id].status, what.target)
                    /\ step \in {"carrier", "edit"} => shipment[what.id].status # "DELIVERED"
                    /\ step = "carrier" => what.carrier \in Forwarders
                 \/ /\ step \in {"drop", "deactivate"} /\ what.sale = None /\ what.id = None
                    /\ what.carrier \in Forwarders
<1>0. {"carrier", "status", "edit", "delete", "drop", "deactivate"} \subseteq Steps
  BY DEF Steps
<1>1. CASE StartCreate(s)
  <2>1. PICK t \in Sales, f \in Forwarders :
          ~HasActive(t) /\ Begin(s, "carrier", [NoJob EXCEPT !.sale = t, !.carrier = f])
    BY <1>1 DEF StartCreate
  <2> DEFINE what == [NoJob EXCEPT !.sale = t, !.carrier = f]
  <2>2. what \in Job /\ what.sale = t /\ what.carrier = f /\ what.id = None
    <3>1. what \in Job
      BY DEF NoJob, Job, Statuses
    <3> QED BY <3>1 DEF NoJob
  <2>3. P("carrier", what)
    BY <2>1, <2>2
  <2> QED BY <1>0, <2>2, <2>3
<1>2. CASE StartStatus(s)
  <2>1. PICK i \in Shipments, target \in Statuses :
          /\ Exists(i) /\ Transition(shipment[i].status, target)
          /\ Begin(s, "status", [NoJob EXCEPT !.sale = shipment[i].sale, !.id = i,
                                              !.target = target])
    BY <1>2 DEF StartStatus
  <2> DEFINE what == [NoJob EXCEPT !.sale = shipment[i].sale, !.id = i, !.target = target]
  <2>2. what \in Job /\ what.sale = shipment[i].sale /\ what.id = i /\ what.target = target
    BY <2>1, NoJobTyped, Existing DEF NoJob
  <2>3. P("status", what)
    BY <2>1, <2>2 DEF OnShipment
  <2> QED BY <1>0, <2>2, <2>3
<1>3. CASE StartEdit(s)
  <2>1. PICK i \in Shipments, f \in Forwarders \cup {None} :
          /\ Exists(i) /\ shipment[i].status # "DELIVERED"
          /\ Begin(s, IF f = None THEN "edit" ELSE "carrier",
                   [NoJob EXCEPT !.sale = shipment[i].sale, !.id = i, !.carrier = f])
    BY <1>3 DEF StartEdit
  <2> DEFINE what == [NoJob EXCEPT !.sale = shipment[i].sale, !.id = i, !.carrier = f]
             step == IF f = None THEN "edit" ELSE "carrier"
  <2>2. what \in Job /\ what.sale = shipment[i].sale /\ what.id = i /\ what.carrier = f
    BY <2>1, NoJobTyped, Existing DEF NoJob
  <2>3. P(step, what)
    BY <2>1, <2>2 DEF OnShipment
  <2>4. step \in Steps
    BY <1>0
  <2> QED BY <2>2, <2>3, <2>4
<1>4. CASE StartDelete(s)
  <2>1. PICK i \in Shipments :
          /\ Exists(i)
          /\ Begin(s, "delete", [NoJob EXCEPT !.sale = shipment[i].sale, !.id = i])
    BY <1>4 DEF StartDelete
  <2> DEFINE what == [NoJob EXCEPT !.sale = shipment[i].sale, !.id = i]
  <2>2. what \in Job /\ what.sale = shipment[i].sale /\ what.id = i
    BY <2>1, NoJobTyped, Existing DEF NoJob
  <2>3. P("delete", what)
    BY <2>1, <2>2 DEF OnShipment
  <2> QED BY <1>0, <2>2, <2>3
<1>5. CASE StartDrop(s)
  <2>1. PICK f \in Forwarders :
          Begin(s, IF Carries(f) THEN "deactivate" ELSE "drop", [NoJob EXCEPT !.carrier = f])
    BY <1>5 DEF StartDrop
  <2> DEFINE what == [NoJob EXCEPT !.carrier = f]
             step == IF Carries(f) THEN "deactivate" ELSE "drop"
  <2>2. what \in Job /\ what.sale = None /\ what.id = None /\ what.carrier = f
    <3>1. what \in Job
      BY DEF NoJob, Job, Statuses
    <3> QED BY <3>1 DEF NoJob
  <2>3. P(step, what)
    BY <2>1, <2>2
  <2>4. step \in Steps
    BY <1>0
  <2> QED BY <2>2, <2>3, <2>4
<1> QED BY <1>1, <1>2, <1>3, <1>4, <1>5 DEF Start

-----------------------------------------------------------------------------
LEMMA InitIInv == Init => IInv
<1> SUFFICES ASSUME Init PROVE IInv
  OBVIOUS
<1>1. TypeOK
  BY NoJobTyped DEF Init, TypeOK, Steps
<1>2. \A i \in Shipments : shipment[i].status = "NONE"
  BY DEF Init, NoRow
<1>3. \A s \in Sessions : job[s].sale = None /\ job[s].id = None
  BY NoJobTyped DEF Init
<1>4. JobsFit
  BY <1>3 DEF Init, JobsFit, OnShipment
<1>5. DispatchFits /\ DeliveredAfterDispatch
  BY <1>2 DEF Init, DispatchFits, DeliveredAfterDispatch
<1>6. AloneFits
  BY <1>3, NoneIsNew DEF AloneFits
<1>7. OneActive
  BY <1>2 DEF OneActive, Active
<1>8. CarriersThere
  BY <1>2 DEF CarriersThere, Exists, Statuses
<1> QED BY <1>1, <1>4, <1>5, <1>6, <1>7, <1>8 DEF IInv

\* Of a step of s the other sessions notice nothing in their locals.
LEMMA OthersKept ==
    ASSUME TypeOK, NEW s \in Sessions, Step(s), NEW t \in Sessions \ {s}
    PROVE  pc'[t] = pc[t] /\ job'[t] = job[t]
<1>1. CASE Start(s)
  <2>1. PICK step \in Steps, what \in Job : Begin(s, step, what)
    BY <1>1, Begun
  <2> QED BY <2>1 DEF Begin, TypeOK
<1>2. CASE Finish(s)
  BY <1>2 DEF Finish, TypeOK
<1>3. CASE CheckCarrier(s)
  BY <1>2, <1>3 DEF CheckCarrier, TypeOK
<1> QED BY <1>1, <1>2, <1>3 DEF Step, Write, Create, SetStatus, Edit, Delete, End, Deactivate,
           Drop, Fail

\* What the write of a request does to its shipment.
LEMMA Written ==
    ASSUME TypeOK, JobsFit, NEW s \in Sessions, Write(s)
    PROVE  /\ pc[s] # "idle" /\ Finish(s) /\ UNCHANGED <<forwarder, overlapped>>
           /\ job[s].sale \in Sales /\ dispatched \subseteq dispatched'
           /\ \E i \in Shipments :
                 /\ \A j \in Shipments \ {i} : shipment'[j] = shipment[j]
                 /\ shipment'[i] \in Row \cup {Gone}
                 /\ \/ /\ Create(s) /\ pc[s] = "create" /\ shipment[i] = NoRow
                       /\ job[s].id = None /\ shipment'[i].status = "PENDING"
                       /\ shipment'[i].sale = job[s].sale
                    \/ /\ job[s].id = i /\ Exists(i)
                       /\ \/ /\ pc[s] = "status" /\ shipment'[i].status = job[s].target
                             /\ shipment'[i].sale = shipment[i].sale
                             /\ job[s].target = "DISPATCHED" => i \in dispatched'
                          \/ /\ pc[s] = "edit" /\ shipment'[i].status = shipment[i].status
                             /\ shipment'[i].sale = shipment[i].sale
                          \/ shipment'[i] = Gone
<1> DEFINE Does(i) ==
                 /\ \A j \in Shipments \ {i} : shipment'[j] = shipment[j]
                 /\ shipment'[i] \in Row \cup {Gone}
                 /\ \/ /\ Create(s) /\ pc[s] = "create" /\ shipment[i] = NoRow
                       /\ job[s].id = None /\ shipment'[i].status = "PENDING"
                       /\ shipment'[i].sale = job[s].sale
                    \/ /\ job[s].id = i /\ Exists(i)
                       /\ \/ /\ pc[s] = "status" /\ shipment'[i].status = job[s].target
                             /\ shipment'[i].sale = shipment[i].sale
                             /\ job[s].target = "DISPATCHED" => i \in dispatched'
                          \/ /\ pc[s] = "edit" /\ shipment'[i].status = shipment[i].status
                             /\ shipment'[i].sale = shipment[i].sale
                          \/ shipment'[i] = Gone
<1>0. job[s] \in Job /\ job[s].target \in Statuses
  BY DEF TypeOK, Job
<1>1. CASE Create(s)
  <2>1. PICK i \in Shipments :
          /\ shipment[i] = NoRow
          /\ shipment' = [shipment EXCEPT ![i] =
                [status |-> "PENDING", sale |-> job[s].sale, carrier |-> job[s].carrier]]
    BY <1>1 DEF Create
  <2>2. job[s].sale \in Sales /\ job[s].carrier \in Forwarders /\ job[s].id = None
    BY <1>1 DEF Create, JobsFit, OnShipment
  <2>3. [status |-> "PENDING", sale |-> job[s].sale, carrier |-> job[s].carrier] \in Row
    BY <2>2 DEF Row, Statuses
  <2>4. Does(i)
    BY <1>1, <2>1, <2>2, <2>3 DEF Create, TypeOK
  <2> QED BY <1>1, <2>2, <2>4 DEF Create
<1>2. CASE SetStatus(s)
  <2>1. job[s].sale \in Sales /\ job[s].id \in Shipments
    BY <1>2 DEF SetStatus, JobsFit, OnShipment
  <2>2. shipment[job[s].id] \in Row /\ Exists(job[s].id)
    BY <1>2, <2>1, Existing DEF SetStatus
  <2>3. /\ [shipment[job[s].id] EXCEPT !.status = job[s].target] \in Row
        /\ [shipment[job[s].id] EXCEPT !.status = job[s].target].status = job[s].target
        /\ [shipment[job[s].id] EXCEPT !.status = job[s].target].sale = shipment[job[s].id].sale
    BY <1>0, <2>2 DEF Row
  <2>4. Does(job[s].id)
    BY <1>2, <2>1, <2>2, <2>3 DEF SetStatus, TypeOK
  <2> QED BY <1>2, <2>1, <2>4 DEF SetStatus
<1>3. CASE Edit(s)
  <2>1. job[s].sale \in Sales /\ job[s].id \in Shipments
    BY <1>3 DEF Edit, JobsFit, OnShipment
  <2>2. shipment[job[s].id] \in Row /\ Exists(job[s].id)
    BY <1>3, <2>1, Existing DEF Edit
  <2>3. Assigned(s) \in Forwarders
    BY <1>0, <2>2 DEF Assigned, Row, Job
  <2>4. /\ [shipment[job[s].id] EXCEPT !.carrier = Assigned(s)] \in Row
        /\ [shipment[job[s].id] EXCEPT !.carrier = Assigned(s)].status = shipment[job[s].id].status
        /\ [shipment[job[s].id] EXCEPT !.carrier = Assigned(s)].sale = shipment[job[s].id].sale
    BY <2>2, <2>3 DEF Row
  <2>5. Does(job[s].id)
    BY <1>3, <2>1, <2>2, <2>4 DEF Edit, TypeOK
  <2> QED BY <1>3, <2>1, <2>5 DEF Edit
<1>4. CASE Delete(s)
  <2>1. job[s].sale \in Sales /\ job[s].id \in Shipments
    BY <1>4 DEF Delete, JobsFit, OnShipment
  <2>2. Does(job[s].id)
    BY <1>4, <2>1 DEF Delete, TypeOK
  <2> QED BY <1>4, <2>1, <2>2 DEF Delete
<1> QED BY <1>1, <1>2, <1>3, <1>4 DEF Write

\* What a request that begins or has its forwarder checked changes.
LEMMA Rest ==
    ASSUME TypeOK, NEW s \in Sessions, Start(s) \/ CheckCarrier(s) \/ End(s)
    PROVE  /\ shipment' = shipment /\ dispatched' = dispatched
           /\ overlapped \subseteq overlapped' /\ overlapped' \subseteq overlapped \cup {job'[s].sale}
           /\ forwarder' \in [Forwarders -> {"NONE", "ACTIVE", "INACTIVE", "DELETED"}]
<1>1. CASE Start(s)
  <2>1. PICK step \in Steps, what \in Job : Begin(s, step, what)
    BY <1>1, Begun
  <2> QED BY <2>1 DEF Begin, TypeOK
<1>2. CASE CheckCarrier(s)
  BY <1>2 DEF CheckCarrier, TypeOK
<1>3. CASE End(s)
  BY <1>3 DEF End, Deactivate, Drop, Fail, TypeOK
<1> QED BY <1>1, <1>2, <1>3

\* Where the check of a forwarder, or an end, leaves the request.
LEMMA Locals ==
    ASSUME TypeOK, NEW s \in Sessions
    PROVE  /\ Finish(s) => pc'[s] = "idle" /\ job'[s] = NoJob
           /\ Write(s) \/ End(s) => Finish(s)
           /\ CheckCarrier(s) => /\ pc[s] = "carrier"
                                 /\ \/ Finish(s)
                                    \/ /\ job'[s] = job[s]
                                       /\ pc'[s] = IF job[s].id = None THEN "create" ELSE "edit"
<1>1. Finish(s) => pc'[s] = "idle" /\ job'[s] = NoJob
  BY DEF Finish, TypeOK
<1>2. Write(s) \/ End(s) => Finish(s)
  BY DEF Write, Create, SetStatus, Edit, Delete, End, Deactivate, Drop, Fail
<1>3. CheckCarrier(s) => /\ pc[s] = "carrier"
                         /\ \/ Finish(s)
                            \/ /\ job'[s] = job[s]
                               /\ pc'[s] = IF job[s].id = None THEN "create" ELSE "edit"
  BY DEF CheckCarrier, TypeOK
<1> QED BY <1>1, <1>2, <1>3

LEMMA TypeStep == TypeOK /\ JobsFit /\ [Next]_vars => TypeOK'
<1> SUFFICES ASSUME TypeOK, JobsFit, [Next]_vars PROVE TypeOK'
  OBVIOUS
<1>1. CASE EditForwarders
  BY <1>1 DEF EditForwarders, CreateForwarder, UpdateForwarder, TypeOK
<1>2. ASSUME NEW s \in Sessions, Step(s) PROVE TypeOK'
  <2>1. pc' \in [Sessions -> Steps] /\ job' \in [Sessions -> Job]
    <3>1. CASE Start(s)
      <4>1. PICK step \in Steps, what \in Job : Begin(s, step, what)
        BY <3>1, Begun
      <4> QED BY <4>1 DEF Begin, TypeOK
    <3>2. CASE Finish(s)
      BY <3>2, NoJobTyped DEF Finish, TypeOK, Steps
    <3>3. CASE CheckCarrier(s)
      BY <3>2, <3>3 DEF CheckCarrier, TypeOK, Steps
    <3> QED BY <1>2, <3>1, <3>2, <3>3, Locals DEF Step
  <2>2. CASE Start(s) \/ CheckCarrier(s) \/ End(s)
    <3>1. overlapped' \subseteq Sales
      <4>1. CASE Start(s)
        <5>1. PICK step \in Steps, what \in Job : Begin(s, step, what)
          BY <4>1, Begun
        <5> QED BY <5>1 DEF Begin, TypeOK, Job
      <4>2. CASE CheckCarrier(s) \/ End(s)
        BY <4>2 DEF CheckCarrier, End, Deactivate, Drop, Fail, TypeOK
      <4> QED BY <2>2, <4>1, <4>2
    <3> QED BY <2>1, <2>2, <3>1, Rest DEF TypeOK
  <2>3. CASE Write(s)
    <3>1. shipment' \in [Shipments -> Row \cup {NoRow, Gone}]
      <4>1. DOMAIN shipment' = Shipments /\ shipment' = [i \in Shipments |-> shipment'[i]]
        BY <2>3 DEF Write, Create, SetStatus, Edit, Delete, TypeOK
      <4>2. \A i \in Shipments : shipment'[i] \in Row \cup {NoRow, Gone}
        BY <2>3, Written DEF TypeOK
      <4> QED BY <4>1, <4>2
    <3>2. dispatched' \subseteq Shipments
      <4>1. CASE SetStatus(s)
        <5>1. job[s].id \in Shipments
          BY <4>1 DEF SetStatus, JobsFit, OnShipment
        <5> QED BY <4>1, <5>1 DEF SetStatus, TypeOK
      <4>2. CASE Create(s) \/ Edit(s) \/ Delete(s)
        BY <4>2 DEF Create, Edit, Delete, TypeOK
      <4> QED BY <2>3, <4>1, <4>2 DEF Write
    <3> QED BY <2>1, <2>3, <3>1, <3>2, Written DEF TypeOK
  <2> QED BY <1>2, <2>2, <2>3 DEF Step
<1>3. CASE UNCHANGED vars
  BY <1>3 DEF TypeOK, vars
<1> QED BY <1>1, <1>2, <1>3, StepCases

\* The sale of a shipment stays, until the row is gone; ids are not used again.
LEMMA SaleKept ==
    ASSUME TypeOK, JobsFit, [Next]_vars, NEW i \in Shipments, shipment[i] # NoRow
    PROVE  /\ shipment'[i] # NoRow /\ shipment'[i].sale \in {shipment[i].sale, None}
<1>1. ASSUME NEW s \in Sessions, Write(s)
      PROVE  /\ shipment'[i] # NoRow /\ shipment'[i].sale \in {shipment[i].sale, None}
  BY <1>1, Written, RowsApart, Existing
<1>2. ASSUME NEW s \in Sessions, Start(s) \/ CheckCarrier(s) \/ End(s) PROVE shipment' = shipment
  BY <1>2, Rest
<1>3. CASE EditForwarders \/ UNCHANGED vars
  BY <1>3 DEF EditForwarders, vars
<1> QED BY <1>1, <1>2, <1>3, StepCases DEF Step

JobFits(s) ==
    /\ pc[s] = "idle" => job[s] = NoJob
    /\ pc[s] \in {"carrier", "create"} \cup OnShipment => job[s].sale \in Sales
    /\ pc[s] \in OnShipment => job[s].id \in Shipments
    /\ pc[s] = "carrier" => job[s].carrier \in Forwarders
    /\ pc[s] = "create" => job[s].id = None /\ job[s].carrier \in Forwarders
    /\ pc[s] \in {"drop", "deactivate"} =>
          job[s].sale = None /\ job[s].id = None /\ job[s].carrier \in Forwarders
    /\ job[s].id # None => shipment[job[s].id].sale \in {job[s].sale, None}
                           /\ shipment[job[s].id] # NoRow

LEMMA JobsStep == TypeOK /\ JobsFit /\ [Next]_vars => JobsFit'
<1> SUFFICES ASSUME TypeOK, JobsFit, [Next]_vars PROVE JobsFit'
  OBVIOUS
<1>a. \A t \in Sessions : JobFits(t)
  BY DEF JobsFit, JobFits
<1>1. ASSUME NEW t \in Sessions, pc'[t] = pc[t], job'[t] = job[t] PROVE JobFits(t)'
  <2>1. job[t].id \in Shipments \cup {None}
    BY DEF TypeOK, Job
  <2> QED BY <1>a, <1>1, <2>1, SaleKept DEF JobFits
<1>2. ASSUME NEW s \in Sessions, Step(s) PROVE JobFits(s)'
  <2>1. CASE Start(s)
    <3>1. shipment' = shipment
      BY <2>1, Rest
    <3>2. PICK step \in Steps, what \in Job :
              /\ Begin(s, step, what)
              /\ \/ /\ step = "carrier" /\ what.sale \in Sales /\ what.carrier \in Forwarders
                    /\ what.id = None
                 \/ /\ step \in OnShipment \cup {"carrier"} /\ what.id \in Shipments
                    /\ Exists(what.id) /\ what.sale = shipment[what.id].sale
                    /\ step = "carrier" => what.carrier \in Forwarders
                 \/ /\ step \in {"drop", "deactivate"} /\ what.sale = None /\ what.id = None
                    /\ what.carrier \in Forwarders
      BY <2>1, Begun
    <3>3. pc'[s] = step /\ job'[s] = what
      BY <3>2 DEF Begin, TypeOK
    <3>4. what.id \in Shipments /\ Exists(what.id) =>
              shipment[what.id].sale \in Sales /\ shipment[what.id] # NoRow
      BY Existing, RowsApart
    <3> QED BY <3>1, <3>2, <3>3, <3>4 DEF JobFits, OnShipment
  <2>2. CASE Finish(s)
    BY <2>2, Locals, NoJobTyped DEF JobFits, OnShipment
  <2>3. CASE CheckCarrier(s)
    <3>1. shipment' = shipment
      BY <2>3, Rest
    <3>2. CASE job'[s] = job[s] /\ pc'[s] = IF job[s].id = None THEN "create" ELSE "edit"
      <4>1. pc[s] = "carrier" /\ job[s].id \in Shipments \cup {None}
        BY <2>3, Locals DEF TypeOK, Job
      <4> QED BY <1>a, <3>1, <3>2, <4>1 DEF JobFits, OnShipment
    <3> QED BY <2>2, <2>3, <3>2, Locals
  <2> QED BY <1>2, <2>1, <2>2, <2>3, Locals DEF Step
<1>3. CASE EditForwarders \/ UNCHANGED vars
  BY <1>1, <1>3 DEF EditForwarders, vars, JobsFit, JobFits
<1>4. ASSUME NEW s \in Sessions, Step(s) PROVE JobsFit'
  BY <1>1, <1>2, <1>4, OthersKept DEF JobsFit, JobFits
<1> QED BY <1>3, <1>4, StepCases

LEMMA DispatchStep ==
    /\ TypeOK /\ JobsFit /\ DispatchFits /\ DeliveredAfterDispatch /\ [Next]_vars
    => DispatchFits' /\ DeliveredAfterDispatch'
<1> SUFFICES ASSUME TypeOK, JobsFit, DispatchFits, DeliveredAfterDispatch, [Next]_vars
             PROVE  DispatchFits' /\ DeliveredAfterDispatch'
  OBVIOUS
<1> DEFINE Was(i) == shipment[i].status \in {"DISPATCHED", "DELIVERED"} => i \in dispatched
           Will(s) == pc[s] = "status" /\ job[s].target = "DELIVERED" => job[s].id \in dispatched
<1>a. (\A i \in Shipments : Was(i)) /\ (\A s \in Sessions : Will(s))
  BY DEF DispatchFits, DeliveredAfterDispatch
<1>b. SUFFICES (\A i \in Shipments : Was(i)') /\ (\A s \in Sessions : Will(s)')
  BY DEF DispatchFits, DeliveredAfterDispatch
<1>1. CASE EditForwarders \/ UNCHANGED vars
  BY <1>1, <1>a DEF EditForwarders, vars
<1>2. ASSUME NEW s \in Sessions, Step(s), NEW i \in Shipments PROVE Was(i)'
  <2>1. CASE Start(s) \/ CheckCarrier(s) \/ End(s)
    BY <1>a, <2>1, Rest
  <2>2. CASE Write(s)
    <3>1. PICK k \in Shipments :
            /\ \A j \in Shipments \ {k} : shipment'[j] = shipment[j]
            /\ \/ shipment'[k].status = "PENDING"
               \/ /\ job[s].id = k
                  /\ \/ /\ pc[s] = "status" /\ shipment'[k].status = job[s].target
                        /\ job[s].target = "DISPATCHED" => k \in dispatched'
                     \/ shipment'[k].status = shipment[k].status
                     \/ shipment'[k] = Gone
      BY <2>2, Written
    <3>2. dispatched \subseteq dispatched' /\ Gone.status = "DELETED"
      BY <2>2, Written DEF Gone
    <3> QED BY <1>a, <3>1, <3>2
  <2> QED BY <1>2, <2>1, <2>2 DEF Step
<1>3. ASSUME NEW s \in Sessions, Step(s), NEW t \in Sessions PROVE Will(t)'
  <2>0. dispatched \subseteq dispatched'
    BY <1>3, Rest, Written DEF Step
  <2>1. CASE t # s
    BY <1>3, <1>a, <2>0, <2>1, OthersKept
  <2>2. CASE t = s /\ Start(s)
    <3>1. PICK step \in Steps, what \in Job :
            /\ Begin(s, step, what)
            /\ step = "status" => /\ what.id \in Shipments /\ Exists(what.id)
                                  /\ Transition(shipment[what.id].status, what.target)
      BY <2>2, Begun
    <3>2. pc'[s] = step /\ job'[s] = what
      BY <3>1 DEF Begin, TypeOK
    <3>3. ASSUME step = "status", what.target = "DELIVERED"
          PROVE  shipment[what.id].status \in {"DISPATCHED", "DELIVERED"}
      <4>2. shipment[what.id].status \in Statuses
        BY <3>1, <3>3, Existing
      <4> QED BY <3>1, <3>3, <4>2 DEF Transition, Statuses
    <3> QED BY <1>a, <2>0, <2>2, <3>1, <3>2, <3>3
  <2>3. CASE t = s /\ (CheckCarrier(s) \/ Finish(s))
    BY <2>3, Locals
  <2> QED BY <1>3, <2>1, <2>2, <2>3, Locals DEF Step
<1> QED BY <1>1, <1>2, <1>3, StepCases

-----------------------------------------------------------------------------
\* Rows of a sale change by a request on that sale alone.
LEMMA SaleRows ==
    ASSUME TypeOK, JobsFit, [Next]_vars, NEW t \in Sales
    PROVE  \/ \A i \in Shipments : shipment[i].sale = t \/ shipment'[i].sale = t
                                       => shipment'[i] = shipment[i]
           \/ \E s \in Sessions : Write(s) /\ job[s].sale = t
<1>1. ASSUME NEW s \in Sessions, Write(s), job[s].sale # t, NEW i \in Shipments,
             shipment[i].sale = t \/ shipment'[i].sale = t
      PROVE  shipment'[i] = shipment[i]
  <2>1. PICK k \in Shipments :
            /\ \A j \in Shipments \ {k} : shipment'[j] = shipment[j]
            /\ \/ shipment[k] = NoRow /\ shipment'[k].sale = job[s].sale
               \/ /\ job[s].id = k /\ Exists(k)
                  /\ shipment'[k].sale = shipment[k].sale \/ shipment'[k] = Gone
    BY <1>1, Written
  <2>2. job[s].id = k /\ Exists(k) => shipment[k].sale = job[s].sale
    <3>1. k # None
      BY NoneIsNew
    <3> QED BY <3>1, RowsApart, Existing DEF JobsFit
  <2>3. NoRow.sale # t /\ Gone.sale # t
    BY RowsApart
  <2>4. CASE i = k
    BY <1>1, <2>1, <2>2, <2>3, <2>4
  <2> QED BY <2>1, <2>4
<1>2. ASSUME NEW s \in Sessions, Start(s) \/ CheckCarrier(s) \/ End(s) PROVE shipment' = shipment
  BY <1>2, Rest
<1>3. CASE EditForwarders \/ UNCHANGED vars
  BY <1>3 DEF EditForwarders, vars
<1> QED BY <1>1, <1>2, <1>3, StepCases DEF Step

AloneFit(s) ==
    job[s].sale \in Sales \ overlapped =>
        /\ \A t \in Sessions \ {s} : job[t].sale # job[s].sale
        /\ job[s].id = None => ~HasActive(job[s].sale)
        /\ job[s].id # None /\ Exists(job[s].id) =>
              /\ pc[s] = "status" => Transition(shipment[job[s].id].status, job[s].target)
              /\ pc[s] \in {"carrier", "edit"} => shipment[job[s].id].status # "DELIVERED"

\* What a request has checked of its sale stays so while the rows of the sale stay.
LEMMA ChecksKept ==
    ASSUME TypeOK, JobsFit, [Next]_vars, NEW s \in Sessions, job[s].sale \in Sales,
           \A i \in Shipments : shipment[i].sale = job[s].sale \/ shipment'[i].sale = job[s].sale
                                    => shipment'[i] = shipment[i]
    PROVE  /\ \A i \in Shipments :
                 shipment'[i].sale = job[s].sale /\ shipment'[i].status \in Active =>
                     HasActive(job[s].sale)
           /\ job[s].id # None /\ shipment'[job[s].id].status \in Statuses =>
                 Exists(job[s].id) /\ shipment'[job[s].id] = shipment[job[s].id]
<1>1. \A i \in Shipments :
            shipment'[i].sale = job[s].sale /\ shipment'[i].status \in Active => HasActive(job[s].sale)
  BY DEF HasActive
<1>2. ASSUME NEW i \in Shipments, job[s].id = i, i # None, shipment'[i].status \in Statuses
      PROVE  Exists(i) /\ shipment'[i] = shipment[i]
  <2>1. shipment[i].sale \in {job[s].sale, None} /\ shipment[i] # NoRow
    BY <1>2 DEF JobsFit
  <2>2. shipment'[i].sale \in Sales
    <3>1. TypeOK'
      BY TypeStep
    <3>2. shipment'[i] \in Row \cup {NoRow, Gone}
      BY <3>1 DEF TypeOK
    <3> QED BY <1>2, <3>2, RowsApart DEF Row
  <2>3. shipment'[i].sale \in {shipment[i].sale, None}
    BY <2>1, SaleKept
  <2>4. shipment'[i] = shipment[i]
    BY <2>1, <2>2, <2>3, NoneIsNew
  <2> QED BY <1>2, <2>4 DEF Exists
<1>3. job[s].id \in Shipments \cup {None}
  BY DEF TypeOK, Job
<1> QED BY <1>1, <1>2, <1>3

LEMMA AloneStep == TypeOK /\ JobsFit /\ AloneFits /\ [Next]_vars => AloneFits'
<1> SUFFICES ASSUME TypeOK, JobsFit, AloneFits, [Next]_vars PROVE AloneFits'
  OBVIOUS
<1>a. \A t \in Sessions : AloneFit(t)
  BY DEF AloneFits, AloneFit
<1>0. \A t \in Sessions : job[t].sale \in Sales \cup {None} /\ job[t].id \in Shipments \cup {None}
  BY DEF TypeOK, Job
\* A sale that a request has to itself keeps its rows, unless the request ends.
<1>b. ASSUME NEW t \in Sessions, job[t].sale \in Sales \ overlapped, job'[t] # NoJob
      PROVE  \A i \in Shipments : shipment[i].sale = job[t].sale \/ shipment'[i].sale = job[t].sale
                                      => shipment'[i] = shipment[i]
  <2>1. ASSUME NEW u \in Sessions, Write(u), job[u].sale = job[t].sale PROVE FALSE
    BY <1>a, <1>b, <2>1, Locals DEF AloneFit
  <2> QED BY <1>b, <2>1, SaleRows
<1>1. ASSUME NEW t \in Sessions, pc'[t] = pc[t], job'[t] = job[t],
             overlapped \subseteq overlapped',
             \A u \in Sessions \ {t} : \/ job'[u] \in {job[u], NoJob}
                                       \/ job[t].sale = job'[u].sale => job'[u].sale \in overlapped'
      PROVE  AloneFit(t)'
  <2> SUFFICES ASSUME job[t].sale \in Sales \ overlapped' PROVE AloneFit(t)'
    BY <1>1 DEF AloneFit
  <2>1. job[t].sale \in Sales \ overlapped /\ job[t] # NoJob
    BY <1>1, NoJobTyped, NoneIsNew
  <2>2. /\ \A i \in Shipments :
              shipment'[i].sale = job[t].sale /\ shipment'[i].status \in Active =>
                  HasActive(job[t].sale)
        /\ job[t].id # None /\ shipment'[job[t].id].status \in Statuses =>
              Exists(job[t].id) /\ shipment'[job[t].id] = shipment[job[t].id]
    BY <1>1, <1>b, <2>1, ChecksKept
  <2>3. \A u \in Sessions \ {t} : job'[u].sale # job[t].sale
    BY <1>1, <1>a, <2>1, NoJobTyped, NoneIsNew DEF AloneFit
  <2>4. job[t].id = None => ~HasActive(job[t].sale)'
    BY <1>1, <1>a, <2>1, <2>2 DEF AloneFit, HasActive
  <2>5. ASSUME job[t].id # None, Exists(job[t].id)'
        PROVE  /\ pc[t] = "status" => Transition(shipment'[job[t].id].status, job[t].target)
               /\ pc[t] \in {"carrier", "edit"} => shipment'[job[t].id].status # "DELIVERED"
    <3>1. Exists(job[t].id) /\ shipment'[job[t].id] = shipment[job[t].id]
      BY <1>1, <2>2, <2>5 DEF Exists
    <3> QED BY <1>a, <2>1, <2>5, <3>1 DEF AloneFit
  <2> QED BY <1>1, <2>1, <2>3, <2>4, <2>5 DEF AloneFit
<1>2. ASSUME NEW s \in Sessions, Step(s) PROVE AloneFit(s)'
  <2>0. \A u \in Sessions \ {s} : job'[u] = job[u]
    BY <1>2, OthersKept
  <2>1. CASE Start(s)
    <3>1. PICK step \in Steps, what \in Job :
              /\ Begin(s, step, what)
              /\ \/ step = "carrier" /\ what.id = None /\ ~HasActive(what.sale)
                 \/ /\ what.id \in Shipments /\ Exists(what.id)
                    /\ step = "status" => Transition(shipment[what.id].status, what.target)
                    /\ step \in {"carrier", "edit"} => shipment[what.id].status # "DELIVERED"
                 \/ what.sale = None
      BY <2>1, Begun
    <3>2. pc'[s] = step /\ job'[s] = what /\ shipment' = shipment
      BY <3>1 DEF Begin, TypeOK
    <3>3. what.sale \in Sales \ overlapped' => \A u \in Sessions \ {s} : job[u].sale # what.sale
      BY <3>1, NoneIsNew DEF Begin
    <3>4. None \notin Sales /\ None \notin Shipments
      BY NoneIsNew
    <3> QED BY <2>0, <3>1, <3>2, <3>3, <3>4 DEF AloneFit, HasActive, Exists
  <2>2. CASE Finish(s)
    BY <2>2, Locals, NoJobTyped, NoneIsNew DEF AloneFit
  <2>3. CASE CheckCarrier(s)
    <3>1. shipment' = shipment /\ overlapped' = overlapped /\ pc[s] = "carrier"
      BY <2>3, Locals DEF CheckCarrier
    <3>2. CASE job'[s] = job[s] /\ pc'[s] = IF job[s].id = None THEN "create" ELSE "edit"
      BY <1>a, <2>0, <3>1, <3>2 DEF AloneFit, HasActive, Exists
    <3> QED BY <2>2, <2>3, <3>2, Locals
  <2> QED BY <1>2, <2>1, <2>2, <2>3, Locals DEF Step
<1>3. CASE EditForwarders \/ UNCHANGED vars
  BY <1>1, <1>3 DEF EditForwarders, vars, AloneFits, AloneFit
<1>4. ASSUME NEW s \in Sessions, Step(s), NEW t \in Sessions, t # s PROVE AloneFit(t)'
  <2>1. pc'[t] = pc[t] /\ job'[t] = job[t]
    BY <1>4, OthersKept
  <2>2. \A u \in Sessions \ {s} : job'[u] = job[u]
    BY <1>4, OthersKept
  <2>3. overlapped \subseteq overlapped'
    BY <1>4, Rest, Written DEF Step
  <2>a. CASE job[t].sale \notin Sales
    BY <2>1, <2>a DEF AloneFit
  <2>4. ASSUME job[t].sale \in Sales
        PROVE  \/ job'[s] \in {job[s], NoJob}
               \/ job[t].sale = job'[s].sale => job'[s].sale \in overlapped'
    <3>1. CASE Start(s)
      <4>1. PICK step \in Steps, what \in Job : Begin(s, step, what)
        BY <3>1, Begun
      <4>2. job'[s] = what
        BY <4>1 DEF Begin, TypeOK
      <4>3. CASE what.sale = None
        BY <2>4, <4>2, <4>3, NoneIsNew
      <4>4. CASE what.sale # None
        BY <1>4, <4>1, <4>2, <4>4 DEF Begin
      <4> QED BY <4>3, <4>4
    <3> QED BY <1>4, <3>1, Locals DEF Step
  <2> QED BY <1>1, <1>4, <2>1, <2>2, <2>3, <2>4, <2>a
<1> QED BY <1>2, <1>3, <1>4, StepCases DEF AloneFits, AloneFit

LEMMA ActiveStep ==
    TypeOK /\ JobsFit /\ AloneFits /\ OneActive /\ [Next]_vars => OneActive'
<1> SUFFICES ASSUME TypeOK, JobsFit, AloneFits, OneActive, [Next]_vars,
                    NEW t \in Sales, t \notin overlapped', NEW i \in Shipments, NEW j \in Shipments,
                    shipment'[i].sale = t, shipment'[i].status \in Active,
                    shipment'[j].sale = t, shipment'[j].status \in Active
             PROVE  i = j
  BY DEF OneActive
<1>0. t \notin overlapped
  BY StepCases, Rest, Written DEF Step, EditForwarders, vars
<1>1. CASE \A k \in Shipments : shipment[k].sale = t \/ shipment'[k].sale = t
                                    => shipment'[k] = shipment[k]
  BY <1>0, <1>1 DEF OneActive
<1>2. ASSUME NEW s \in Sessions, Write(s), job[s].sale = t PROVE i = j
  <2>1. PICK k \in Shipments :
            /\ \A l \in Shipments \ {k} : shipment'[l] = shipment[l]
            /\ \/ job[s].id = None
               \/ /\ job[s].id = k /\ Exists(k)
                  /\ \/ /\ pc[s] = "status" /\ shipment'[k].status = job[s].target
                        /\ shipment'[k].sale = shipment[k].sale
                     \/ /\ shipment'[k].status = shipment[k].status
                        /\ shipment'[k].sale = shipment[k].sale
                     \/ shipment'[k] = Gone
    BY <1>2, Written
  <2>2. CASE job[s].id = None
    <3>1. ~HasActive(t)
      BY <1>0, <1>2, <2>2 DEF AloneFits
    <3>2. \A l \in Shipments \ {k} : ~(shipment'[l].sale = t /\ shipment'[l].status \in Active)
      BY <2>1, <3>1 DEF HasActive
    <3> QED BY <3>2
  <2>3. CASE job[s].id = k /\ Exists(k)
    <3>1. k # None /\ Gone.status \notin Active
      BY NoneIsNew DEF Gone, Active
    <3>2. pc[s] = "status" => Transition(shipment[k].status, job[s].target)
      BY <1>0, <1>2, <2>3, <3>1 DEF AloneFits
    <3>3. shipment[k].status \in Statuses
      BY <2>3 DEF Exists
    <3>4. shipment'[k].status \in Active =>
              shipment[k].status \in Active /\ shipment'[k].sale = shipment[k].sale
      BY <2>1, <2>3, <3>1, <3>2, <3>3 DEF Transition, Active, Statuses
    <3>5. \A l \in Shipments : shipment'[l].sale = t /\ shipment'[l].status \in Active =>
              shipment[l].sale = t /\ shipment[l].status \in Active
      BY <2>1, <3>4
    <3> QED BY <1>0, <3>5 DEF OneActive
  <2> QED BY <2>1, <2>2, <2>3
<1> QED BY <1>1, <1>2, SaleRows

\* The forwarder of a shipment stays: one that is carried is not dropped, and one that
\* is assigned is there in the same statement.
LEMMA CarriersStep == TypeOK /\ JobsFit /\ CarriersThere /\ [Next]_vars => CarriersThere'
<1> SUFFICES ASSUME TypeOK, JobsFit, CarriersThere, [Next]_vars, NEW i \in Shipments, Exists(i)'
             PROVE  Referable(shipment[i].carrier)'
  BY DEF CarriersThere
<1>1. ASSUME shipment' = shipment, \A f \in Forwarders : Referable(f) /\ Carries(f) => Referable(f)'
      PROVE  Referable(shipment[i].carrier)'
  <2>1. Exists(i) /\ shipment[i] \in Row
    BY <1>1, Existing DEF Exists
  <2>2. shipment[i].carrier \in Forwarders /\ Carries(shipment[i].carrier)
    BY <2>1 DEF Row, Carries
  <2> QED BY <1>1, <2>1, <2>2 DEF CarriersThere, Referable
<1>2. ASSUME forwarder' = forwarder,
             \/ shipment'[i].carrier = shipment[i].carrier /\ Exists(i)
             \/ Referable(shipment'[i].carrier)
      PROVE  Referable(shipment[i].carrier)'
  BY <1>2 DEF CarriersThere, Referable
<1>3. CASE EditForwarders
  <2>1. \A f \in Forwarders : Referable(f) => Referable(f)'
    BY <1>3 DEF EditForwarders, CreateForwarder, UpdateForwarder, Referable, TypeOK
  <2> QED BY <1>1, <1>3, <2>1 DEF EditForwarders
<1>4. CASE UNCHANGED vars
  BY <1>2, <1>4 DEF vars, Exists
<1>5. ASSUME NEW s \in Sessions, Start(s) \/ CheckCarrier(s) \/ End(s)
      PROVE  Referable(shipment[i].carrier)'
  <2>1. CASE Start(s)
    <3>1. PICK step \in Steps, what \in Job : Begin(s, step, what)
      BY <2>1, Begun
    <3> QED BY <1>2, <3>1 DEF Begin, Exists
  <2>2. CASE CheckCarrier(s) \/ Fail(s)
    BY <1>2, <2>2 DEF CheckCarrier, Fail, Exists
  <2>3. CASE Deactivate(s) \/ Drop(s)
    <3>1. \A f \in Forwarders : Referable(f) /\ Carries(f) => Referable(f)'
      BY <2>3 DEF Deactivate, Drop, Unreferenced, Referable, TypeOK
    <3>2. shipment' = shipment
      BY <2>3 DEF Deactivate, Drop
    <3> QED BY <1>1, <3>1, <3>2
  <2> QED BY <1>5, <2>1, <2>2, <2>3 DEF End
<1>6. ASSUME NEW s \in Sessions, Write(s) PROVE Referable(shipment[i].carrier)'
  <2>0. forwarder' = forwarder
    BY <1>6, Written
  <2>1. CASE shipment'[i] = shipment[i]
    BY <1>2, <2>0, <2>1 DEF Exists
  <2>2. CASE Create(s) /\ shipment'[i] # shipment[i]
    <3>1. shipment'[i].carrier = job[s].carrier /\ Referable(job[s].carrier)
      BY <2>2 DEF Create, TypeOK
    <3> QED BY <1>2, <2>0, <3>1
  <2>3. CASE (SetStatus(s) \/ Edit(s) \/ Delete(s)) /\ shipment'[i] # shipment[i]
    <3>1. job[s].id = i
      BY <2>3 DEF SetStatus, Edit, Delete, TypeOK
    <3>2. CASE SetStatus(s)
      <4>1. shipment[i] \in Row /\ Exists(i)
        BY <3>1, <3>2, Existing DEF SetStatus
      <4>2. shipment'[i].carrier = shipment[i].carrier
        BY <3>1, <3>2, <4>1 DEF SetStatus, TypeOK, Row
      <4> QED BY <1>2, <2>0, <4>1, <4>2
    <3>3. CASE Edit(s)
      <4>1. shipment[i] \in Row /\ Exists(i)
        BY <3>1, <3>3, Existing DEF Edit
      <4>2. shipment'[i].carrier = Assigned(s)
        BY <3>1, <3>3, <4>1 DEF Edit, TypeOK, Row
      <4> QED BY <1>2, <2>0, <3>1, <3>3, <4>1, <4>2 DEF Edit, Assigned
    <3>4. CASE Delete(s)
      <4>1. shipment'[i] = Gone
        BY <3>1, <3>4 DEF Delete, TypeOK
      <4> QED BY <4>1, RowsApart DEF Exists
    <3> QED BY <2>3, <3>2, <3>3, <3>4
  <2> QED BY <1>6, <2>1, <2>2, <2>3 DEF Write
<1> QED BY <1>3, <1>4, <1>5, <1>6, StepCases DEF Step

-----------------------------------------------------------------------------
\* The invariant with what requests in progress know.
THEOREM Inductive == Spec => []IInv
<1>1. IInv /\ [Next]_vars => IInv'
  BY TypeStep, JobsStep, DispatchStep, AloneStep, CarriersStep, ActiveStep DEF IInv
<1> QED BY <1>1, InitIInv, PTL DEF Spec

\* Every variable keeps its type.
THEOREM TypeCorrect == Spec => []TypeOK
<1>1. IInv => TypeOK
  BY DEF IInv
<1> QED BY <1>1, Inductive, PTL

\* No shipment loses its forwarder, however deleteForwarder interleaves with
\* createShipment and updateShipment: the foreign key decides in the last statement.
THEOREM CarriersAlwaysThere == Spec => []CarriersThere
<1>1. IInv => CarriersThere
  BY DEF IInv
<1> QED BY <1>1, Inductive, PTL

\* createShipment leaves a sale one shipment under way, where no requests overlap.
THEOREM AlwaysOneActive == Spec => []OneActive
<1>1. IInv => OneActive
  BY DEF IInv
<1> QED BY <1>1, Inductive, PTL

\* updateShipmentStatus delivers nothing that has never been dispatched, however
\* requests interleave.
THEOREM AlwaysDispatchedFirst == Spec => []DeliveredAfterDispatch
<1>1. IInv => DeliveredAfterDispatch
  BY DEF IInv
<1> QED BY <1>1, Inductive, PTL

\* A delivered shipment is not changed any more, where no requests overlap.
THEOREM DeliveredAlwaysKept == Spec => DeliveredKept
<1>1. IInv /\ [Next]_vars =>
        \A i \in Shipments :
          shipment[i].status = "DELIVERED" /\ shipment[i].sale \notin overlapped =>
              shipment'[i] \in {shipment[i], Gone}
  <2> SUFFICES ASSUME IInv, [Next]_vars, NEW i \in Shipments,
                      shipment[i].status = "DELIVERED", shipment[i].sale \notin overlapped
               PROVE  shipment'[i] \in {shipment[i], Gone}
    OBVIOUS
  <2>0. TypeOK /\ JobsFit /\ AloneFits
    BY DEF IInv
  <2>1. Exists(i) /\ shipment[i].sale \in Sales \ overlapped /\ shipment[i] # NoRow
    BY <2>0, Existing DEF Exists, Statuses, NoRow
  <2>2. ASSUME NEW s \in Sessions, Write(s), shipment'[i] # shipment[i], shipment'[i] # Gone
        PROVE  FALSE
    <3>1. job[s].id = i /\ pc[s] \in {"status", "edit"}
      BY <2>0, <2>1, <2>2, Written
    <3>2. job[s].id # None /\ job[s].sale = shipment[i].sale
      BY <2>0, <2>1, <3>1, NoneIsNew DEF JobsFit
    <3>3. pc[s] = "status" /\ Transition("DELIVERED", job[s].target)
      BY <2>0, <2>1, <3>1, <3>2 DEF AloneFits
    <3>4. shipment'[i] = shipment[i]
      <4>1. SetStatus(s)
        BY <2>2, <3>3 DEF Write, Create, Edit, Delete
      <4>2. job[s].target = "DELIVERED"
        BY <3>3 DEF Transition
      <4>3. shipment[i] \in Row
        BY <2>0, <2>1, Existing
      <4>4. shipment' = [shipment EXCEPT ![i].status = "DELIVERED"]
        BY <3>1, <4>1, <4>2 DEF SetStatus
      <4>5. shipment'[i] = [shipment[i] EXCEPT !.status = "DELIVERED"]
        BY <2>0, <4>4 DEF TypeOK
      <4>6. \A r \in Row : r.status = "DELIVERED" => [r EXCEPT !.status = "DELIVERED"] = r
        BY DEF Row
      <4> QED BY <4>3, <4>5, <4>6
    <3> QED BY <2>2, <3>4
  <2>3. ASSUME NEW s \in Sessions, Start(s) \/ CheckCarrier(s) \/ End(s)
        PROVE  shipment' = shipment
    BY <2>0, <2>3, Rest
  <2>4. CASE EditForwarders \/ UNCHANGED vars
    BY <2>4 DEF EditForwarders, vars
  <2> QED BY <2>2, <2>3, <2>4, StepCases DEF Step
<1> QED BY <1>1, Inductive, PTL DEF Spec, DeliveredKept
=============================================================================
