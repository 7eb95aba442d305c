--------------------------- MODULE EventIngestion ---------------------------
(***************************************************************************)
(* Concurrent requests to ingest_partner_event, down to the statements of  *)
(* the transaction in persist_normalized_event.  Each request runs in its  *)
(* own server thread; PostgreSQL runs the transactions at READ COMMITTED.  *)
(*                                                                         *)
(*   select         SELECT shipment FOR UPDATE                             *)
(*   flushShipment  first flush: INSERT or UPDATE the shipment             *)
(*   flushEvent     second flush: INSERT the event                         *)
(*   commit         INSERT the outbox row and commit                       *)
(*   conflict       the transaction was rolled back by IntegrityError;     *)
(*                  look the original event up in a session of its own     *)
(*                                                                         *)
(* shipments, events and outbox hold committed rows.  A row inserted by an *)
(* open transaction is the one its pc and its payload determine.           *)
(***************************************************************************)
EXTENDS IngestionContract

CONSTANT DatabaseMayFail    \* may connections break and commits go unconfirmed?

ASSUME DatabaseMayFailAssumption == DatabaseMayFail \in BOOLEAN

VARIABLES
    shipments,      \* committed rows of shipments, by tracking number
    events,         \* committed rows of events
    outbox,         \* event ids of the committed rows of delivery_outbox
    lock,           \* owner of the FOR UPDATE lock on a shipment row
    pc,             \* where each request is
    payload,        \* what each request carries
    seen,           \* the shipment row each transaction read
    response        \* what each request was answered

vars == <<shipments, events, outbox, lock, pc, payload, seen, response>>
tables == <<shipments, events, outbox>>

NoPayload == NoRequest
NoLock == NoRequest

Location == {"idle", "select", "flushShipment", "flushEvent", "commit", "conflict", "done"}

Init ==
    /\ shipments = [t \in Shipments |-> NoShipment]
    /\ events = {}
    /\ outbox = {}
    /\ lock = [t \in Shipments |-> NoLock]
    /\ pc = [r \in Requests |-> "idle"]
    /\ payload = [r \in Requests |-> NoPayload]
    /\ seen = [r \in Requests |-> NoShipment]
    /\ response = [r \in Requests |-> NoResponse]

-----------------------------------------------------------------------------
(* Helpers *)

Goto(r, l) == pc' = [pc EXCEPT ![r] = l]
Answer(r, answer) == response' = [response EXCEPT ![r] = answer]
Tracking(r) == payload[r].tracking

\* The transaction is open and has read its shipment row.
InTransaction(r) == pc[r] \in {"flushShipment", "flushEvent", "commit"}

\* An uncommitted INSERT holds the primary key of its shipment and, after the
\* second flush, the unique key (partner_id, partner_event_id) of its event:
\* an INSERT of the same key waits until that transaction ends.
HoldsShipmentKey(r) == pc[r] \in {"flushEvent", "commit"} /\ seen[r] = NoShipment
HoldsEventKey(r) == pc[r] = "commit"

\* The end of a transaction releases its row lock.
Unlock(r) == lock' = [t \in Shipments |-> IF lock[t] = r THEN NoLock ELSE lock[t]]

-----------------------------------------------------------------------------
(* The handler before the transaction *)

\* The request arrives, its partner is looked up and its body is validated and
\* normalized; the lookup session is closed before the transaction opens.
ReceiveRequest(r) ==
    /\ pc[r] = "idle"
    /\ \E p \in Offered :
         /\ payload' = [payload EXCEPT ![r] = p]
         /\ IF RejectionCode(p) = 0
            THEN Goto(r, "select") /\ UNCHANGED response
            ELSE Goto(r, "done") /\ Answer(r, ErrorResponse(RejectionCode(p)))
    /\ UNCHANGED <<tables, lock, seen>>

-----------------------------------------------------------------------------
(* persist_normalized_event *)

\* Variant without FOR UPDATE.
SelectShipmentUnlocked(r) ==
    /\ pc[r] = "select"
    /\ seen' = [seen EXCEPT ![r] = shipments[Tracking(r)]]
    /\ Goto(r, "flushShipment")
    /\ UNCHANGED <<tables, lock, payload, response>>

\* SELECT ... FOR UPDATE waits for the owner of an existing row and reads the
\* row that owner committed.  A row another transaction has inserted but not
\* committed is invisible, and an absent row cannot be locked.
SelectShipment(r) ==
    LET t == Tracking(r) IN
    /\ pc[r] = "select"
    /\ shipments[t] # NoShipment => lock[t] = NoLock
    /\ seen' = [seen EXCEPT ![r] = shipments[t]]
    /\ lock' = IF shipments[t] = NoShipment THEN lock ELSE [lock EXCEPT ![t] = r]
    /\ Goto(r, "flushShipment")
    /\ UNCHANGED <<tables, payload, response>>

\* An INSERT waits for an uncommitted INSERT of the same tracking number and
\* violates the primary key when the row has appeared meanwhile.  An UPDATE
\* touches the row this transaction has locked; a rejected event writes nothing.
FlushShipment(r) ==
    LET t == Tracking(r) IN
    /\ pc[r] = "flushShipment"
    /\ IF seen[r] = NoShipment
       THEN /\ \A q \in Requests \ {r} : HoldsShipmentKey(q) => Tracking(q) # t
            /\ Goto(r, IF shipments[t] = NoShipment THEN "flushEvent" ELSE "conflict")
       ELSE Goto(r, "flushEvent")
    /\ UNCHANGED <<tables, lock, payload, seen, response>>

\* Variant that trusts an earlier check instead of the unique constraint.
FlushEventUnchecked(r) ==
    /\ pc[r] = "flushEvent"
    /\ IF payload[r].run = "unknown"
       THEN Goto(r, "conflict") /\ Unlock(r)
       ELSE Goto(r, "commit") /\ UNCHANGED lock
    /\ UNCHANGED <<tables, payload, seen, response>>

\* Variant that leaves the transaction open after IntegrityError.
FlushEventWithoutRollback(r) ==
    /\ pc[r] = "flushEvent"
    /\ \A q \in Requests \ {r} : HoldsEventKey(q) => payload[q].key # payload[r].key
    /\ IF HasKey(events, payload[r].key) \/ payload[r].run = "unknown"
       THEN Goto(r, "conflict") /\ UNCHANGED lock
       ELSE Goto(r, "commit") /\ UNCHANGED lock
    /\ UNCHANGED <<tables, payload, seen, response>>

\* The INSERT of the event waits for an uncommitted INSERT of the same key and
\* violates the unique constraint when that key is committed, or the foreign
\* key when the test run is unknown; IntegrityError rolls everything back.
FlushEvent(r) ==
    /\ pc[r] = "flushEvent"
    /\ \A q \in Requests \ {r} : HoldsEventKey(q) => payload[q].key # payload[r].key
    /\ IF HasKey(events, payload[r].key) \/ payload[r].run = "unknown"
       THEN Goto(r, "conflict") /\ Unlock(r)
       ELSE Goto(r, "commit") /\ UNCHANGED lock
    /\ UNCHANGED <<tables, payload, seen, response>>

\* The rows this transaction makes visible when it commits.
CommitRows(r) ==
    LET p == payload[r] IN
    /\ shipments' = [shipments EXCEPT ![p.tracking] =
                        IF DecisionOn(seen[r], p) = "applied"
                        THEN RowAfter(seen[r], p) ELSE @]
    /\ events' = events \cup {NewEvent(r, p, DecisionOn(seen[r], p))}
    /\ outbox' = outbox \cup {r}

\* Variant that adds the outbox row in a transaction of its own, and may fail
\* between the two.
CommitEventOnly(r) ==
    /\ pc[r] = "commit"
    /\ shipments' = [shipments EXCEPT ![Tracking(r)] = RowAfter(seen[r], payload[r])]
    /\ events' = events \cup {NewEvent(r, payload[r], DecisionOn(seen[r], payload[r]))}
    /\ outbox' \in {outbox, outbox \cup {r}}
    /\ Unlock(r)
    /\ Goto(r, "done")
    /\ Answer(r, Created(r))
    /\ UNCHANGED <<payload, seen>>

Commit(r) ==
    /\ pc[r] = "commit"
    /\ CommitRows(r)
    /\ Unlock(r)
    /\ Goto(r, "done")
    /\ Answer(r, Created(r))
    /\ UNCHANGED <<payload, seen>>

\* Variant that answers with the id the failed transaction had drawn.
ResolveConflictToSelf(r) ==
    /\ pc[r] = "conflict"
    /\ IF HasKey(events, payload[r].key)
       THEN Answer(r, DuplicateOf(r))
       ELSE Answer(r, ErrorResponse(500))
    /\ Goto(r, "done")
    /\ UNCHANGED <<tables, lock, payload, seen>>

\* Variant that answers 409 to every conflict.
RefuseConflict(r) ==
    /\ pc[r] = "conflict"
    /\ Answer(r, ErrorResponse(409))
    /\ Goto(r, "done")
    /\ UNCHANGED <<tables, lock, payload, seen>>

\* The original event is looked up by its key; when there is none the
\* IntegrityError is raised again and the framework answers 500.
ResolveConflict(r) ==
    /\ pc[r] = "conflict"
    /\ IF HasKey(events, payload[r].key)
       THEN \E e \in events : e.key = payload[r].key /\ Answer(r, DuplicateOf(e.id))
       ELSE Answer(r, ErrorResponse(500))
    /\ Goto(r, "done")
    /\ UNCHANGED <<tables, lock, payload, seen>>

-----------------------------------------------------------------------------
(* Failures of the database connection or of the API process *)

\* The transaction is rolled back, or the lookup fails.
LoseConnection(r) ==
    /\ DatabaseMayFail
    /\ pc[r] \in {"select", "flushShipment", "flushEvent", "commit", "conflict"}
    /\ Unlock(r)
    /\ Goto(r, "done")
    /\ Answer(r, ErrorResponse(500))
    /\ UNCHANGED <<tables, payload, seen>>

\* The commit took effect and its confirmation was lost.
CommitUnconfirmed(r) ==
    /\ DatabaseMayFail
    /\ pc[r] = "commit"
    /\ CommitRows(r)
    /\ Unlock(r)
    /\ Goto(r, "done")
    /\ Answer(r, ErrorResponse(500))
    /\ UNCHANGED <<payload, seen>>

-----------------------------------------------------------------------------

\* What the server thread of a request does once it has the request.
Handle(r) ==
    \/ SelectShipment(r)
    \/ FlushShipment(r)
    \/ FlushEvent(r)
    \/ Commit(r)
    \/ ResolveConflict(r)

Terminated == (\A r \in Requests : pc[r] = "done") /\ UNCHANGED vars

Next ==
    \/ \E r \in Requests :
         \/ ReceiveRequest(r)
         \/ Handle(r)
         \/ LoseConnection(r)
         \/ CommitUnconfirmed(r)
    \/ Terminated

Spec == Init /\ [][Next]_vars

\* A thread that can run does: the server schedules every thread, and a
\* statement that waits for a lock is resumed when the lock is free.
Fairness == \A r \in Requests : WF_vars(Handle(r))
FairSpec == Spec /\ Fairness

-----------------------------------------------------------------------------
(* Properties *)

TypeOK ==
    /\ shipments \in [Shipments -> ShipmentState \cup {NoShipment}]
    /\ events \subseteq EventRow
    /\ outbox \subseteq Requests
    /\ lock \in [Shipments -> Requests \cup {NoLock}]
    /\ pc \in [Requests -> Location]
    /\ payload \in [Requests -> Payload \cup {NoPayload}]
    /\ seen \in [Requests -> ShipmentState \cup {NoShipment}]
    /\ response \in [Requests -> Response]

\* Durable acceptance: an event answered 201 is stored, with its outbox row,
\* and the two tables never disagree on which events were accepted.
DurableAcceptance ==
    /\ \A r \in Requests : response[r].code = 201 =>
         \E e \in events : e.id = r /\ e.key = payload[r].key
    /\ outbox = {e.id : e \in events}

\* A duplicate is answered with the id of the event another request stored
\* under the same (partner_id, partner_event_id), and no key is stored twice.
DuplicateNamesOriginal ==
    /\ \A r \in Requests : response[r].code = 200 =>
         \E e \in events : /\ e.id = response[r].event
                           /\ e.id # r
                           /\ e.key = payload[r].key
    /\ \A e, f \in events : e.key = f.key => e = f

\* The events stored for a shipment.
History(t) == {e \in events : e.tracking = t}

\* row is the state that the last applied event of a history reports: every
\* other applied event has a lower status and is not later.
IsLastApplied(row, history) ==
    IF row = NoShipment
    THEN history = {}
    ELSE \E e \in history :
            /\ e.decision = "applied"
            /\ row = [status |-> e.status, occurred_at |-> e.occurred_at]
            /\ \A f \in history \ {e} : f.decision = "applied" =>
                 /\ STATUS_ORDER[f.status] < STATUS_ORDER[e.status]
                 /\ f.occurred_at <= e.occurred_at

\* A shipment row exists exactly when its shipment has events, and it repeats
\* the event that was applied last.
RowIsLastApplied == \A t \in Shipments : IsLastApplied(shipments[t], History(t))

\* Courier updates whose times agree with their statuses may arrive and commit
\* in any order: the shipment ends in the most advanced of the stored events.
ArrivalOrderIrrelevant ==
    \A t \in Shipments :
        (History(t) # {} /\ \A e, f \in History(t) : Consistent(e, f)) =>
            \A e \in History(t) :
                STATUS_ORDER[e.status] <= STATUS_ORDER[shipments[t].status]

\* A row, once there, stays; it only moves to a later status that is not
\* reported earlier; a delivered shipment is final.
ShipmentNeverRegresses ==
    [][\A t \in Shipments :
         (shipments[t] # NoShipment /\ shipments'[t] # shipments[t]) =>
            /\ shipments'[t] # NoShipment
            /\ STATUS_ORDER[shipments[t].status] < STATUS_ORDER[shipments'[t].status]
            /\ shipments[t].occurred_at <= shipments'[t].occurred_at
      ]_vars

\* The concurrent transactions implement the serial specification: in commit
\* order, every decision is the one taken on the row of that moment.
Serial == INSTANCE SerialIngestion
ImplementsSerialIngestion == Serial!SerialSpec

\* No request waits forever: not for a row lock, not for a unique key.
EveryRequestAnswered ==
    \A r \in Requests : (pc[r] = "select") ~> (pc[r] = "done")

\* "Create a logical event or resolve a uniqueness race to the original"
\* (event_persistence.py): with a database that does not fail, a request whose
\* test run is registered is never answered 500.
RequestsResolve ==
    \A r \in Requests :
        (pc[r] = "done" /\ payload[r].run = "satisfied") => response[r].code # 500

=============================================================================
