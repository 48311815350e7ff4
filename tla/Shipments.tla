------------------------------ MODULE Shipments ------------------------------
(***************************************************************************)
(* Shipments of sales and the forwarders that carry them: ShipmentsService  *)
(* and ForwarderService.  No handler opens a transaction: it reads, decides *)
(* and writes in statements of their own, each committed at once, so that   *)
(* any request may come between two of another.                             *)
(*                                                                          *)
(* Sales are never cancelled (nothing in the code does it), so the check of *)
(* the sale in createShipment always succeeds and is left out; so are notes *)
(* and tracking numbers, which no decision reads.                           *)
(***************************************************************************)
EXTENDS Integers

CONSTANTS
    Sales,       \* transactions that may be shipped
    Shipments,   \* ids a shipment row can take, never reused (bounds the rows)
    Forwarders,  \* ids of forwarders
    Sessions,    \* HTTP requests that may be in progress at once
    None         \* no sale, shipment or forwarder

ASSUME NoneIsNew == None \notin Sales \cup Shipments \cup Forwarders

VARIABLES
    shipment,    \* shipment rows
    forwarder,   \* forwarder rows: whether they are there and active
    pc,          \* where each session is in its handler
    job,         \* what it was asked to do
    dispatched,  \* history: shipments that have been DISPATCHED
    overlapped   \* history: sales two requests have worked on at once

rows == <<shipment, forwarder>>
vars == <<rows, pc, job, dispatched, overlapped>>

-----------------------------------------------------------------------------
Statuses == {"PENDING", "DISPATCHED", "DELIVERED"}
Active   == {"PENDING", "DISPATCHED"}
Row   == [status : Statuses, sale : Sales, carrier : Forwarders]
NoRow == [status |-> "NONE", sale |-> None, carrier |-> None]
Gone  == [status |-> "DELETED", sale |-> None, carrier |-> None]

Steps == {"idle", "carrier", "create", "status", "edit", "delete", "drop", "deactivate"}
Job   == [sale : Sales \cup {None}, id : Shipments \cup {None},
          carrier : Forwarders \cup {None}, target : Statuses]
NoJob == [sale |-> None, id |-> None, carrier |-> None, target |-> "PENDING"]

Exists(i) == shipment[i].status \in Statuses
Referable(f) == forwarder[f] \in {"ACTIVE", "INACTIVE"}

Goto(s, step) == pc' = [pc EXCEPT ![s] = step]
\* The request of s ends, with an answer or an error.
Finish(s) == Goto(s, "idle") /\ job' = [job EXCEPT ![s] = NoJob]

\* A request begins and goes on at step; others may be at work on the same sale.
Begin(s, step, what) ==
    /\ pc[s] = "idle"
    /\ Goto(s, step)
    /\ job' = [job EXCEPT ![s] = what]
    /\ overlapped' = IF what.sale # None /\ \E t \in Sessions \ {s} : job[t].sale = what.sale
                     THEN overlapped \cup {what.sale} ELSE overlapped
    /\ UNCHANGED <<rows, dispatched>>

Init ==
    /\ shipment  = [i \in Shipments |-> NoRow]
    /\ forwarder \in [Forwarders -> {"ACTIVE", "NONE"}]
    /\ pc  = [s \in Sessions |-> "idle"]
    /\ job = [s \in Sessions |-> NoJob]
    /\ dispatched = {}
    /\ overlapped = {}

-----------------------------------------------------------------------------
(* ShipmentsService.createShipment                                           *)

HasPending(t) == \E i \in Shipments : shipment[i].sale = t /\ shipment[i].status = "PENDING" \* mutant
HasActive(t) == \E i \in Shipments : shipment[i].sale = t /\ shipment[i].status \in Active

StartCreate(s) ==
    \E t \in Sales, f \in Forwarders :
        /\ ~HasActive(t)
        /\ Begin(s, "carrier", [NoJob EXCEPT !.sale = t, !.carrier = f])

\* The forwarder is read; one that is missing or inactive is refused.
CheckCarrier(s) ==
    /\ pc[s] = "carrier"
    /\ IF forwarder[job[s].carrier] = "ACTIVE"
       THEN Goto(s, IF job[s].id = None THEN "create" ELSE "edit") /\ UNCHANGED job
       ELSE Finish(s)
    /\ UNCHANGED <<rows, dispatched, overlapped>>

\* The foreign key refuses a forwarder deleted since.
Create(s) ==
    /\ pc[s] = "create"
    /\ Referable(job[s].carrier)
    /\ \E i \in Shipments :
        /\ shipment[i] = NoRow
        /\ shipment' = [shipment EXCEPT ![i] =
              [status |-> "PENDING", sale |-> job[s].sale, carrier |-> job[s].carrier]]
    /\ Finish(s)
    /\ UNCHANGED <<forwarder, dispatched, overlapped>>

-----------------------------------------------------------------------------
(* ShipmentsService.updateShipmentStatus, updateShipment, deleteShipment     *)

TransitionNoSkip(current, target) == current = target \/ current # "DELIVERED"             \* mutant
\* validateStatusTransition: DISPATCHED may also go back to PENDING.
Transition(current, target) ==
    \/ current = target
    \/ current # "DELIVERED" /\ ~(current = "PENDING" /\ target = "DELIVERED")

StartStatus(s) ==
    \E i \in Shipments, target \in Statuses :
        /\ Exists(i)
        /\ Transition(shipment[i].status, target)
        /\ Begin(s, "status", [NoJob EXCEPT !.sale = shipment[i].sale, !.id = i,
                                            !.target = target])

\* The update writes the status asked for, whatever the row has become.
SetStatus(s) ==
    /\ pc[s] = "status"
    /\ Exists(job[s].id)
    /\ shipment' = [shipment EXCEPT ![job[s].id].status = job[s].target]
    /\ dispatched' = IF job[s].target = "DISPATCHED" THEN dispatched \cup {job[s].id}
                     ELSE dispatched
    /\ Finish(s)
    /\ UNCHANGED <<forwarder, overlapped>>

\* A shipment not DELIVERED is edited, which may name another forwarder; that one is
\* read after the shipment.
StartEdit(s) ==
    \E i \in Shipments, f \in Forwarders \cup {None} :
        /\ Exists(i)
        /\ shipment[i].status # "DELIVERED"
        /\ Begin(s, IF f = None THEN "edit" ELSE "carrier",
                 [NoJob EXCEPT !.sale = shipment[i].sale, !.id = i, !.carrier = f])

Assigned(s) == IF job[s].carrier = None THEN shipment[job[s].id].carrier ELSE job[s].carrier

Edit(s) ==
    /\ pc[s] = "edit"
    /\ Exists(job[s].id)
    /\ job[s].carrier # None => Referable(job[s].carrier)
    /\ shipment' = [shipment EXCEPT ![job[s].id].carrier = Assigned(s)]
    /\ Finish(s)
    /\ UNCHANGED <<forwarder, dispatched, overlapped>>

\* A shipment is deleted in any status.
StartDelete(s) ==
    \E i \in Shipments :
        /\ Exists(i)
        /\ Begin(s, "delete", [NoJob EXCEPT !.sale = shipment[i].sale, !.id = i])

Delete(s) ==
    /\ pc[s] = "delete"
    /\ Exists(job[s].id)
    /\ shipment' = [shipment EXCEPT ![job[s].id] = Gone]
    /\ Finish(s)
    /\ UNCHANGED <<forwarder, dispatched, overlapped>>

-----------------------------------------------------------------------------
(* ForwarderService.  Of createForwarder and updateForwarder only the last   *)
(* statement counts: what they read is the name.                             *)

Carries(f) == \E i \in Shipments : Exists(i) /\ shipment[i].carrier = f

CreateForwarder(f) == forwarder[f] = "NONE" /\ forwarder' = [forwarder EXCEPT ![f] = "ACTIVE"]

UpdateForwarder(f) ==
    /\ Referable(f)
    /\ \E state \in {"ACTIVE", "INACTIVE"} : forwarder' = [forwarder EXCEPT ![f] = state]

EditForwarders ==
    /\ \E f \in Forwarders : CreateForwarder(f) \/ UpdateForwarder(f)
    /\ UNCHANGED <<shipment, pc, job, dispatched, overlapped>>

\* deleteForwarder counts its shipments first.
StartDrop(s) ==
    \E f \in Forwarders :
        /\ Referable(f)
        /\ Begin(s, IF Carries(f) THEN "deactivate" ELSE "drop", [NoJob EXCEPT !.carrier = f])

Deactivate(s) ==
    /\ pc[s] = "deactivate"
    /\ Referable(job[s].carrier)
    /\ forwarder' = [forwarder EXCEPT ![job[s].carrier] = "INACTIVE"]
    /\ Finish(s)
    /\ UNCHANGED <<shipment, dispatched, overlapped>>

UnreferencedAlways(f) == TRUE                                                          \* mutant
\* The foreign key refuses to leave a shipment without its forwarder.
Unreferenced(f) == ~Carries(f)

Drop(s) ==
    /\ pc[s] = "drop"
    /\ Referable(job[s].carrier)
    /\ Unreferenced(job[s].carrier)
    /\ forwarder' = [forwarder EXCEPT ![job[s].carrier] = "DELETED"]
    /\ Finish(s)
    /\ UNCHANGED <<shipment, dispatched, overlapped>>

-----------------------------------------------------------------------------
\* A row that is gone, a foreign key, a lost connection or a crash ends a request.
Fail(s) == pc[s] # "idle" /\ Finish(s) /\ UNCHANGED <<rows, dispatched, overlapped>>

Next ==
    \/ EditForwarders
    \/ \E s \in Sessions :
        \/ StartCreate(s) \/ CheckCarrier(s) \/ Create(s)
        \/ StartStatus(s) \/ SetStatus(s) \/ StartEdit(s) \/ Edit(s)
        \/ StartDelete(s) \/ Delete(s) \/ StartDrop(s) \/ Deactivate(s) \/ Drop(s)
        \/ Fail(s)

Spec == Init /\ [][Next]_vars

-----------------------------------------------------------------------------
\* Types: a shipment that is there has a sale, and a forwarder's id.
TypeOK ==
    /\ shipment \in [Shipments -> Row \cup {NoRow, Gone}]
    /\ forwarder \in [Forwarders -> {"NONE", "ACTIVE", "INACTIVE", "DELETED"}]
    /\ pc \in [Sessions -> Steps]
    /\ job \in [Sessions -> Job]
    /\ dispatched \subseteq Shipments
    /\ overlapped \subseteq Sales

\* The forwarder of a shipment is there, active or not, although shipments are counted
\* before a forwarder is deleted (forwarder.service.ts:175) and the forwarder is read
\* before it is assigned (shipments.service.ts:110, 379), each in an earlier statement.
CarriersThere == \A i \in Shipments : Exists(i) => Referable(shipment[i].carrier)

\* "Prevent duplicate active shipments for the same transaction": a sale that no two
\* requests worked on at once has one shipment under way at most.
OneActive ==
    \A t \in Sales \ overlapped : \A i, j \in Shipments :
        /\ shipment[i].sale = t /\ shipment[i].status \in Active
        /\ shipment[j].sale = t /\ shipment[j].status \in Active
        => i = j

\* In every interleaving a DELIVERED shipment has been DISPATCHED at some time,
\* although the status checked may not be the one that is overwritten.
DeliveredAfterDispatch ==
    \A i \in Shipments : shipment[i].status = "DELIVERED" => i \in dispatched

\* "Shipment is already delivered and its status cannot be modified": unless requests
\* overlap on its sale, a delivered shipment keeps its status and its forwarder until
\* it is deleted.
DeliveredKept ==
    [][\A i \in Shipments :
          shipment[i].status = "DELIVERED" /\ shipment[i].sale \notin overlapped =>
              shipment'[i] \in {shipment[i], Gone}]_vars
=============================================================================
