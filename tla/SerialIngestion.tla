--------------------------- MODULE SerialIngestion ---------------------------
(***************************************************************************)
(* What ingestion promises: requests take effect one at a time.  A request *)
(* is accepted in one step that stores the event, the shipment decision    *)
(* and the outbox row together, or it is answered as a duplicate of an     *)
(* event that is already stored, or it fails and stores nothing.  An error *)
(* answer after acceptance is possible too: the commit was not confirmed.  *)
(***************************************************************************)
EXTENDS IngestionContract

VARIABLES shipments, events, outbox, payload, response

serialVars == <<shipments, events, outbox, payload, response>>

NoPayload == NoRequest

SerialInit ==
    /\ shipments = [t \in Shipments |-> NoShipment]
    /\ events = {}
    /\ outbox = {}
    /\ payload = [r \in Requests |-> NoPayload]
    /\ response = [r \in Requests |-> NoResponse]

Pending(r) == payload[r] # NoPayload /\ response[r] = NoResponse

Answer(r, answer) == response' = [response EXCEPT ![r] = answer]

Submit(r) ==
    /\ payload[r] = NoPayload
    /\ \E p \in Offered :
         /\ payload' = [payload EXCEPT ![r] = p]
         /\ IF RejectionCode(p) = 0
            THEN UNCHANGED response
            ELSE Answer(r, ErrorResponse(RejectionCode(p)))
    /\ UNCHANGED <<shipments, events, outbox>>

Accept(r, answer) ==
    LET p == payload[r]
        row == shipments[p.tracking]
    IN  /\ Pending(r)
        /\ p.run = "satisfied"
        /\ ~HasKey(events, p.key)
        /\ shipments' = [shipments EXCEPT ![p.tracking] = RowAfter(row, p)]
        /\ events' = events \cup {NewEvent(r, p, DecisionOn(row, p))}
        /\ outbox' = outbox \cup {r}
        /\ Answer(r, answer)
        /\ UNCHANGED payload

AnswerDuplicate(r) ==
    /\ Pending(r)
    /\ \E e \in events : e.key = payload[r].key /\ Answer(r, DuplicateOf(e.id))
    /\ UNCHANGED <<shipments, events, outbox, payload>>

Fail(r) ==
    /\ Pending(r)
    /\ Answer(r, ErrorResponse(500))
    /\ UNCHANGED <<shipments, events, outbox, payload>>

SerialNext ==
    \E r \in Requests :
        \/ Submit(r)
        \/ Accept(r, Created(r))
        \/ Accept(r, ErrorResponse(500))
        \/ AnswerDuplicate(r)
        \/ Fail(r)

SerialSpec == SerialInit /\ [][SerialNext]_serialVars

=============================================================================
