-------------------------- MODULE IngestionContract --------------------------
(***************************************************************************)
(* What the ingestion endpoint exchanges with its clients and stores in    *)
(* PostgreSQL: shared by the serial specification and by the model of the  *)
(* transactions (src/trackrelay/main.py, src/trackrelay/models/).          *)
(***************************************************************************)
EXTENDS ShipmentTransition

CONSTANTS
    Requests,       \* HTTP requests to POST /api/v1/partners/{id}/events
    Keys,           \* logical identities (partner_id, partner_event_id)
    Shipments,      \* tracking numbers
    Times,          \* occurrence times the couriers report
    Offered,        \* payloads the clients send (all of Payload, or a sample)
    NoShipment,     \* "no row" in the shipments table
    NoRequest       \* no lock owner, no event, no request

ASSUME TimesAssumption == Times \subseteq Nat
ASSUME NoShipmentAssumption == NoShipment \notin ShipmentState

PartnerState == {"active", "missing", "inactive", "unsupported"}

\* The part of a request that decides its fate.  run says whether the
\* X-Test-Run-ID header is absent or names a registered run (the foreign key
\* events.test_run_id holds) or names an unknown one.
Payload ==
    [partner : PartnerState, valid : BOOLEAN, run : {"satisfied", "unknown"},
     key : Keys, tracking : Shipments, status : ShipmentStatus, occurred_at : Times]

ASSUME OfferedAssumption == Offered \subseteq Payload
ASSUME NoRequestAssumption == NoRequest \notin Requests \cup Payload

\* Checks made before the transaction, in the order of the code; 0 when the
\* request reaches persist_normalized_event.
RejectionCode(p) ==
    CASE p.partner = "missing"                        -> 404
      [] p.partner = "inactive"                       -> 403
      [] p.partner = "unsupported"                    -> 400
      [] p.partner = "active" /\ ~p.valid             -> 422
      [] OTHER                                        -> 0

\* An answer of the endpoint; event is the id of the event row it names.
Response ==
    [code : {0, 200, 201, 400, 403, 404, 422, 500}, event : Requests \cup {NoRequest}]

NoResponse == [code |-> 0, event |-> NoRequest]
Created(r) == [code |-> 201, event |-> r]
DuplicateOf(e) == [code |-> 200, event |-> e]
ErrorResponse(code) == [code |-> code, event |-> NoRequest]

\* A row of events.  The uuid4 primary key is abstracted to the request that
\* inserted the row; decision stands for (state_applied, state_rejection_reason).
EventRow ==
    [id : Requests, key : Keys, tracking : Shipments, status : ShipmentStatus,
     occurred_at : Times, decision : TransitionDecision]

NewEvent(r, p, decision) ==
    [id |-> r, key |-> p.key, tracking |-> p.tracking, status |-> p.status,
     occurred_at |-> p.occurred_at, decision |-> decision]

\* The decision persist_normalized_event takes on the row it read.
DecisionOn(row, p) ==
    IF row = NoShipment THEN "applied" ELSE EvaluateShipmentTransition(row, p)

\* The shipment row after that decision.
RowAfter(row, p) ==
    IF DecisionOn(row, p) = "applied"
    THEN [status |-> p.status, occurred_at |-> p.occurred_at]
    ELSE row

HasKey(rows, k) == \E e \in rows : e.key = k

=============================================================================
