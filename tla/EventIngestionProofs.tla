------------------------ MODULE EventIngestionProofs ------------------------
(***************************************************************************)
(* Proofs about EventIngestion for any number of requests, keys, shipments *)
(* and times: the inductive invariant, the safety properties, and that the *)
(* concurrent transactions implement the serial specification.             *)
(***************************************************************************)
EXTENDS EventIngestion, ShipmentTransitionProofs

-----------------------------------------------------------------------------
(* The inductive invariant *)

\* A request has a payload from its arrival on and an answer once it is done;
\* those that reach the transaction have passed the handler's checks.
RequestInv ==
    \A r \in Requests :
        /\ pc[r] = "idle" => payload[r] = NoPayload
        /\ pc[r] # "idle" => payload[r] \in Payload
        /\ pc[r] # "done" => response[r] = NoResponse
        /\ pc[r] \notin {"idle", "done"} => RejectionCode(payload[r]) = 0

\* A transaction that has read a row owns its lock, and the row is as it was.
LockInv ==
    \A r \in Requests :
        (InTransaction(r) /\ seen[r] # NoShipment) =>
            /\ lock[Tracking(r)] = r
            /\ shipments[Tracking(r)] = seen[r]

\* An uncommitted INSERT of a shipment is the only one, and there is no row.
InserterInv ==
    \A r \in Requests : HoldsShipmentKey(r) =>
        /\ shipments[Tracking(r)] = NoShipment
        /\ \A q \in Requests : (HoldsShipmentKey(q) /\ Tracking(q) = Tracking(r)) => q = r

\* An uncommitted INSERT of an event is the only one of its key, and there is
\* no such event.
EventKeyInv ==
    \A r \in Requests : HoldsEventKey(r) =>
        /\ payload[r].run = "satisfied"
        /\ ~HasKey(events, payload[r].key)
        /\ \A q \in Requests :
             (HoldsEventKey(q) /\ payload[q].key = payload[r].key) => q = r

\* A stored event was stored by a request that is done.
StoredInv == \A e \in events : pc[e.id] = "done" /\ e.key = payload[e.id].key

\* Every event of a shipment is older than its row or not ahead of it.
IsBehind(row, history) ==
    \A e \in history :
        /\ row # NoShipment
        /\ \/ e.occurred_at < row.occurred_at
           \/ STATUS_ORDER[e.status] <= STATUS_ORDER[row.status]

HistoryInv == \A t \in Shipments : IsBehind(shipments[t], History(t))

IInv ==
    /\ TypeOK
    /\ RequestInv
    /\ LockInv
    /\ InserterInv
    /\ EventKeyInv
    /\ StoredInv
    /\ DurableAcceptance
    /\ DuplicateNamesOriginal
    /\ RowIsLastApplied
    /\ HistoryInv

-----------------------------------------------------------------------------
(* Types *)

LEMMA RejectionCodeType ==
    ASSUME NEW p PROVE RejectionCode(p) \in {0, 400, 403, 404, 422}
BY DEF RejectionCode

LEMMA PayloadFields ==
    ASSUME NEW p \in Payload
    PROVE  /\ p.key \in Keys /\ p.tracking \in Shipments
           /\ p.occurred_at \in Times /\ IsReport(p) /\ p # NoPayload
BY TimesAssumption, NoRequestAssumption DEF Payload, IsReport, NoPayload

\* What persist_normalized_event decides and writes has the right type.
LEMMA DecisionOnType ==
    ASSUME NEW row \in ShipmentState \cup {NoShipment}, NEW p \in Payload
    PROVE  /\ DecisionOn(row, p) \in TransitionDecision
           /\ RowAfter(row, p) \in ShipmentState
<1>1. DecisionOn(row, p) \in TransitionDecision
  BY DecisionType DEF DecisionOn, TransitionDecision
<1>2. RowAfter(row, p) \in ShipmentState
  <2>1. CASE DecisionOn(row, p) = "applied"
    BY <2>1, PayloadFields DEF RowAfter, ShipmentState, IsReport
  <2>2. CASE DecisionOn(row, p) # "applied"
    BY <2>2 DEF RowAfter, DecisionOn
  <2> QED BY <2>1, <2>2
<1> QED BY <1>1, <1>2

LEMMA NewEventType ==
    ASSUME NEW r \in Requests, NEW p \in Payload, NEW d \in TransitionDecision
    PROVE  NewEvent(r, p, d) \in EventRow
BY DEF NewEvent, EventRow, Payload

\* The steps that leave the tables alone and answer an error or a duplicate.
LEMMA AnswerTypes ==
    /\ NoResponse \in Response
    /\ \A c \in {0, 400, 403, 404, 422, 500} : ErrorResponse(c) \in Response
    /\ \A r \in Requests : Created(r) \in Response /\ DuplicateOf(r) \in Response
BY DEF Response, NoResponse, ErrorResponse, Created, DuplicateOf

LEMMA CommitTypes ==
    ASSUME TypeOK, RequestInv, NEW r \in Requests, pc[r] = "commit", CommitRows(r)
    PROVE  /\ shipments' \in [Shipments -> ShipmentState \cup {NoShipment}]
           /\ events' \subseteq EventRow
           /\ outbox' \subseteq Requests
<1>1. payload[r] \in Payload /\ seen[r] \in ShipmentState \cup {NoShipment}
  BY DEF TypeOK, RequestInv
<1>2. /\ RowAfter(seen[r], payload[r]) \in ShipmentState
      /\ NewEvent(r, payload[r], DecisionOn(seen[r], payload[r])) \in EventRow
  BY <1>1, DecisionOnType, NewEventType
<1> QED
  BY <1>2 DEF TypeOK, CommitRows

\* Types and the life of a request are preserved together.
LEMMA TypeStep ==
    ASSUME TypeOK, RequestInv, [Next]_vars
    PROVE  TypeOK' /\ RequestInv'
<1> USE DEF TypeOK, RequestInv, Goto, Answer, Location, Tracking, tables, NoLock
<1>1. ASSUME NEW r \in Requests, ReceiveRequest(r)
      PROVE  TypeOK' /\ RequestInv'
  <2>1. PICK p \in Offered :
          /\ payload' = [payload EXCEPT ![r] = p]
          /\ IF RejectionCode(p) = 0
             THEN Goto(r, "select") /\ UNCHANGED response
             ELSE Goto(r, "done") /\ Answer(r, ErrorResponse(RejectionCode(p)))
    BY <1>1 DEF ReceiveRequest
  <2>2. p \in Payload /\ ErrorResponse(RejectionCode(p)) \in Response
    BY OfferedAssumption, RejectionCodeType, AnswerTypes
  <2> QED
    BY <1>1, <2>1, <2>2 DEF ReceiveRequest
<1>2. ASSUME NEW r \in Requests, SelectShipment(r)
      PROVE  TypeOK' /\ RequestInv'
  BY <1>2, PayloadFields DEF SelectShipment
<1>3. ASSUME NEW r \in Requests, FlushShipment(r)
      PROVE  TypeOK' /\ RequestInv'
  BY <1>3 DEF FlushShipment
<1>4. ASSUME NEW r \in Requests, FlushEvent(r)
      PROVE  TypeOK' /\ RequestInv'
  BY <1>4 DEF FlushEvent, Unlock
<1>5. ASSUME NEW r \in Requests, Commit(r)
      PROVE  TypeOK' /\ RequestInv'
  BY <1>5, CommitTypes, AnswerTypes DEF Commit, Unlock
<1>6. ASSUME NEW r \in Requests, ResolveConflict(r)
      PROVE  TypeOK' /\ RequestInv'
  <2>1. \A e \in events : DuplicateOf(e.id) \in Response
    BY AnswerTypes DEF EventRow
  <2> QED
    BY <1>6, <2>1, AnswerTypes DEF ResolveConflict
<1>7. ASSUME NEW r \in Requests, LoseConnection(r)
      PROVE  TypeOK' /\ RequestInv'
  BY <1>7, AnswerTypes DEF LoseConnection, Unlock
<1>8. ASSUME NEW r \in Requests, CommitUnconfirmed(r)
      PROVE  TypeOK' /\ RequestInv'
  BY <1>8, CommitTypes, AnswerTypes DEF CommitUnconfirmed, Unlock
<1>9. CASE UNCHANGED vars
  BY <1>9 DEF vars
<1> QED
  BY <1>1, <1>2, <1>3, <1>4, <1>5, <1>6, <1>7, <1>8, <1>9 DEF Next, Handle, Terminated

-----------------------------------------------------------------------------
(* The transactions: locks, primary keys and unique keys *)

TransactionInv == LockInv /\ InserterInv /\ EventKeyInv /\ StoredInv

LEMMA TransactionInit == Init => TransactionInv
BY DEF Init, TransactionInv, LockInv, InserterInv, EventKeyInv, StoredInv, InTransaction,
       HoldsShipmentKey, HoldsEventKey

LEMMA TransactionStep ==
    ASSUME TypeOK, RequestInv, TransactionInv, [Next]_vars
    PROVE  TransactionInv'
<1> USE DEF TypeOK, RequestInv, TransactionInv, Goto, Location, Tracking, tables, NoLock,
            InTransaction, HoldsShipmentKey, HoldsEventKey
<1>0. /\ \A r \in Requests : pc[r] # "idle" => Tracking(r) \in Shipments
      /\ NoLock \notin Requests
  BY PayloadFields, NoRequestAssumption
<1>1. ASSUME NEW r \in Requests, ReceiveRequest(r)
      PROVE  TransactionInv'
  <2>1. PICK p \in Offered : payload' = [payload EXCEPT ![r] = p]
    BY <1>1 DEF ReceiveRequest
  <2>2. \A q \in Requests : pc[q] # "idle" => payload'[q] = payload[q]
    BY <1>1, <2>1 DEF ReceiveRequest
  <2>3. /\ pc[r] = "idle"
        /\ pc' \in {[pc EXCEPT ![r] = "select"], [pc EXCEPT ![r] = "done"]}
        /\ UNCHANGED <<shipments, events, outbox, lock, seen>>
    BY <1>1 DEF ReceiveRequest
  <2>4. LockInv'
    BY <2>2, <2>3 DEF LockInv
  <2>5. InserterInv'
    BY <2>2, <2>3 DEF InserterInv
  <2>6. EventKeyInv'
    BY <2>2, <2>3 DEF EventKeyInv, HasKey
  <2>7. StoredInv'
    BY <2>2, <2>3 DEF StoredInv, EventRow
  <2> QED BY <2>4, <2>5, <2>6, <2>7
<1>2. ASSUME NEW r \in Requests, SelectShipment(r)
      PROVE  TransactionInv'
  <2>1. LockInv'
    BY <1>2, <1>0 DEF SelectShipment, LockInv
  <2>2. InserterInv'
    BY <1>2 DEF SelectShipment, InserterInv
  <2>3. EventKeyInv'
    BY <1>2 DEF SelectShipment, EventKeyInv, HasKey
  <2>4. StoredInv'
    BY <1>2 DEF SelectShipment, StoredInv, EventRow
  <2> QED BY <2>1, <2>2, <2>3, <2>4
<1>3. ASSUME NEW r \in Requests, FlushShipment(r)
      PROVE  TransactionInv'
  <2>1. LockInv'
    BY <1>3 DEF FlushShipment, LockInv
  <2>2. InserterInv'
    BY <1>3 DEF FlushShipment, InserterInv
  <2>3. EventKeyInv'
    BY <1>3 DEF FlushShipment, EventKeyInv, HasKey
  <2>4. StoredInv'
    BY <1>3 DEF FlushShipment, StoredInv, EventRow
  <2> QED BY <2>1, <2>2, <2>3, <2>4
<1>4. ASSUME NEW r \in Requests, FlushEvent(r)
      PROVE  TransactionInv'
  <2>1. LockInv'
    BY <1>4, <1>0 DEF FlushEvent, LockInv, Unlock
  <2>2. InserterInv'
    BY <1>4 DEF FlushEvent, InserterInv
  <2>3. EventKeyInv'
    <3>1. payload[r] \in Payload
      BY <1>4 DEF FlushEvent
    <3>2. payload[r].run \in {"satisfied", "unknown"}
      BY <3>1 DEF Payload
    <3> QED
      BY <1>4, <3>2 DEF FlushEvent, EventKeyInv, HasKey
  <2>4. StoredInv'
    BY <1>4 DEF FlushEvent, StoredInv, EventRow
  <2> QED BY <2>1, <2>2, <2>3, <2>4
<1>5. ASSUME NEW r \in Requests, pc[r] = "commit", CommitRows(r), Unlock(r),
             Goto(r, "done"), UNCHANGED <<payload, seen>>
      PROVE  TransactionInv'
  <2>0. /\ \A t \in Shipments \ {Tracking(r)} : shipments'[t] = shipments[t]
        /\ \A e \in events' : e \in events \/ (e.id = r /\ e.key = payload[r].key)
        /\ \A q \in Requests \ {r} : pc'[q] = pc[q]
        /\ pc'[r] = "done"
        /\ \A t \in Shipments : lock[t] # r => lock'[t] = lock[t]
    BY <1>5, <1>0 DEF CommitRows, NewEvent, Unlock
  <2>1. LockInv'
    <3> SUFFICES ASSUME NEW q \in Requests, InTransaction(q)', seen'[q] # NoShipment
                 PROVE  lock'[Tracking(q)'] = q /\ shipments'[Tracking(q)'] = seen'[q]
      BY DEF LockInv
    <3>1. q # r /\ InTransaction(q) /\ Tracking(q)' = Tracking(q) /\ seen'[q] = seen[q]
      BY <1>5, <2>0
    <3>2. lock[Tracking(q)] = q /\ shipments[Tracking(q)] = seen[q]
      BY <3>1, <1>5 DEF LockInv
    <3>3. Tracking(q) # Tracking(r)
      BY <3>1, <3>2, <1>5 DEF LockInv, InserterInv
    <3> QED
      BY <3>1, <3>2, <3>3, <2>0, <1>0, <1>5
  <2>2. InserterInv'
    <3> SUFFICES ASSUME NEW q \in Requests, HoldsShipmentKey(q)'
                 PROVE  /\ shipments'[Tracking(q)'] = NoShipment
                        /\ \A p \in Requests :
                             (HoldsShipmentKey(p)' /\ Tracking(p)' = Tracking(q)') => p = q
      BY DEF InserterInv
    <3>1. q # r /\ HoldsShipmentKey(q) /\ Tracking(q)' = Tracking(q)
      BY <1>5, <2>0
    <3>2. Tracking(q) # Tracking(r)
      BY <3>1, <1>5 DEF LockInv, InserterInv
    <3>3. shipments'[Tracking(q)] = NoShipment
      BY <3>1, <3>2, <2>0, <1>0 DEF InserterInv
    <3>4. \A p \in Requests : HoldsShipmentKey(p)' => HoldsShipmentKey(p)
      BY <1>5, <2>0
    <3> QED
      BY <3>1, <3>3, <3>4, <1>5 DEF InserterInv
  <2>3. EventKeyInv'
    BY <1>5, <2>0 DEF EventKeyInv, HasKey
  <2>4. StoredInv'
    BY <1>5, <2>0 DEF StoredInv, EventRow
  <2> QED BY <2>1, <2>2, <2>3, <2>4
<1>6. ASSUME NEW r \in Requests, Goto(r, "done"), Unlock(r) \/ UNCHANGED lock,
             pc[r] # "idle", UNCHANGED <<shipments, events, outbox, payload, seen>>
      PROVE  TransactionInv'
  <2>1. LockInv'
    BY <1>6, <1>0 DEF LockInv, Unlock
  <2>2. InserterInv'
    BY <1>6 DEF InserterInv
  <2>3. EventKeyInv'
    BY <1>6 DEF EventKeyInv, HasKey
  <2>4. StoredInv'
    BY <1>6 DEF StoredInv, EventRow
  <2> QED BY <2>1, <2>2, <2>3, <2>4
<1>7. ASSUME NEW r \in Requests, Commit(r) \/ CommitUnconfirmed(r)
      PROVE  TransactionInv'
  BY <1>5, <1>7 DEF Commit, CommitUnconfirmed
<1>8. ASSUME NEW r \in Requests, ResolveConflict(r) \/ LoseConnection(r)
      PROVE  TransactionInv'
  BY <1>6, <1>8 DEF ResolveConflict, LoseConnection
<1>9. CASE UNCHANGED vars
  BY <1>9 DEF vars, LockInv, InserterInv, EventKeyInv, HasKey, StoredInv
<1> QED
  BY <1>1, <1>2, <1>3, <1>4, <1>7, <1>8, <1>9 DEF Next, Handle, Terminated

\* What a step that commits does to the tables, whatever it answers.
CommitStep(r) == pc[r] = "commit" /\ CommitRows(r) /\ UNCHANGED payload

\* Every step commits one request or leaves the tables alone.
LEMMA TablesChange ==
    ASSUME [Next]_vars
    PROVE  UNCHANGED tables \/ \E r \in Requests : CommitStep(r)
BY DEF Next, vars, tables, Handle, Terminated, CommitStep, ReceiveRequest, SelectShipment,
       FlushShipment, FlushEvent, Commit, ResolveConflict, LoseConnection, CommitUnconfirmed

\* The committed row is the one the serial specification writes: the row that
\* was read is still the current one.
LEMMA CommitOnCurrentRow ==
    ASSUME TypeOK, RequestInv, TransactionInv, NEW r \in Requests, CommitStep(r)
    PROVE  LET p == payload[r]
               t == Tracking(r)
           IN  /\ p \in Payload /\ t \in Shipments
               /\ seen[r] = shipments[t]
               /\ ~HasKey(events, p.key)
               /\ shipments' = [shipments EXCEPT ![t] = RowAfter(shipments[t], p)]
               /\ events' = events \cup {NewEvent(r, p, DecisionOn(shipments[t], p))}
               /\ outbox' = outbox \cup {r}
<1>1. payload[r] \in Payload /\ Tracking(r) \in Shipments
  BY PayloadFields DEF RequestInv, CommitStep, Tracking
<1>2. seen[r] = shipments[Tracking(r)]
  BY DEF TransactionInv, LockInv, InserterInv, InTransaction, HoldsShipmentKey, CommitStep
<1>3. ~HasKey(events, payload[r].key)
  BY DEF TransactionInv, EventKeyInv, HoldsEventKey, CommitStep
<1>4. shipments' = [shipments EXCEPT ![Tracking(r)] = RowAfter(seen[r], payload[r])]
  <2>1. CASE DecisionOn(seen[r], payload[r]) = "applied"
    BY <2>1 DEF CommitStep, CommitRows, Tracking
  <2>2. CASE DecisionOn(seen[r], payload[r]) # "applied"
    BY <1>1, <1>2, <2>2 DEF CommitStep, CommitRows, Tracking, RowAfter, TypeOK
  <2> QED BY <2>1, <2>2
<1> QED
  BY <1>1, <1>2, <1>3, <1>4 DEF CommitStep, CommitRows, Tracking

-----------------------------------------------------------------------------
(* What the clients were answered *)

LEMMA AnswersStep ==
    ASSUME TypeOK, RequestInv, TransactionInv, DurableAcceptance, DuplicateNamesOriginal,
           [Next]_vars
    PROVE  DurableAcceptance' /\ DuplicateNamesOriginal'
<1> USE DEF TypeOK, RequestInv, Goto, Answer, tables
<1>0. /\ NoResponse.code = 0
      /\ \A c \in {0, 400, 403, 404, 422, 500} : ErrorResponse(c).code = c
      /\ \A r : /\ Created(r).code = 201
               /\ DuplicateOf(r).code = 200 /\ DuplicateOf(r).event = r
  BY DEF NoResponse, ErrorResponse, Created, DuplicateOf
<1>1. ASSUME NEW r \in Requests, ReceiveRequest(r)
      PROVE  DurableAcceptance' /\ DuplicateNamesOriginal'
  <2>1. PICK p \in Offered :
          /\ payload' = [payload EXCEPT ![r] = p]
          /\ \/ UNCHANGED response
             \/ Answer(r, ErrorResponse(RejectionCode(p)))
    BY <1>1 DEF ReceiveRequest
  <2>2. /\ pc[r] = "idle" /\ response[r].code = 0
        /\ UNCHANGED <<events, outbox>>
    BY <1>0, <1>1 DEF ReceiveRequest
  <2>3. response'[r].code \notin {200, 201}
    BY <1>0, <2>1, <2>2, RejectionCodeType
  <2>4. \A q \in Requests \ {r} : response'[q] = response[q] /\ payload'[q] = payload[q]
    BY <2>1
  <2> QED
    BY <2>2, <2>3, <2>4 DEF DurableAcceptance, DuplicateNamesOriginal
<1>2. ASSUME NEW r \in Requests,
             SelectShipment(r) \/ FlushShipment(r) \/ FlushEvent(r)
      PROVE  DurableAcceptance' /\ DuplicateNamesOriginal'
  BY <1>2 DEF SelectShipment, FlushShipment, FlushEvent, DurableAcceptance,
              DuplicateNamesOriginal
<1>3. ASSUME NEW r \in Requests, Commit(r) \/ CommitUnconfirmed(r)
      PROVE  DurableAcceptance' /\ DuplicateNamesOriginal'
  <2>1. CommitStep(r)
    BY <1>3 DEF Commit, CommitUnconfirmed, CommitStep
  <2>2. PICK d : /\ events' = events \cup {NewEvent(r, payload[r], d)}
                 /\ outbox' = outbox \cup {r}
                 /\ ~HasKey(events, payload[r].key)
    BY <2>1, CommitOnCurrentRow
  <2>3. NewEvent(r, payload[r], d).id = r /\ NewEvent(r, payload[r], d).key = payload[r].key
    BY DEF NewEvent
  <2>4. /\ UNCHANGED payload
        /\ response'[r].code # 200
        /\ \A q \in Requests \ {r} : response'[q] = response[q]
    BY <1>0, <1>3 DEF Commit, CommitUnconfirmed
  <2>5. DurableAcceptance'
    BY <2>2, <2>3, <2>4 DEF DurableAcceptance
  <2>6. DuplicateNamesOriginal'
    BY <2>2, <2>3, <2>4 DEF DuplicateNamesOriginal, HasKey
  <2> QED BY <2>5, <2>6
<1>4. ASSUME NEW r \in Requests, ResolveConflict(r)
      PROVE  DurableAcceptance' /\ DuplicateNamesOriginal'
  <2>1. /\ UNCHANGED <<events, outbox, payload>>
        /\ \A q \in Requests \ {r} : response'[q] = response[q]
        /\ \/ response'[r].code = 500
           \/ /\ response'[r].code = 200
              /\ \E e \in events : e.key = payload[r].key /\ response'[r].event = e.id
    BY <1>0, <1>4 DEF ResolveConflict
  <2>2. \A e \in events : e.id # r
    BY <1>4 DEF ResolveConflict, TransactionInv, StoredInv
  <2> QED
    BY <2>1, <2>2 DEF DurableAcceptance, DuplicateNamesOriginal
<1>5. ASSUME NEW r \in Requests, LoseConnection(r)
      PROVE  DurableAcceptance' /\ DuplicateNamesOriginal'
  BY <1>0, <1>5 DEF LoseConnection, DurableAcceptance, DuplicateNamesOriginal
<1>6. CASE UNCHANGED vars
  BY <1>6 DEF vars, DurableAcceptance, DuplicateNamesOriginal
<1> QED
  BY <1>1, <1>2, <1>3, <1>4, <1>5, <1>6 DEF Next, Handle, Terminated

-----------------------------------------------------------------------------
(* The shipment rows and the history of their events *)

\* Both facts about a row survive the decision on one more event.
LEMMA DecideOneMore ==
    ASSUME NEW row \in ShipmentState \cup {NoShipment},
           NEW history, \A e \in history : IsReport(e),
           IsLastApplied(row, history), IsBehind(row, history),
           NEW p \in Payload, NEW r,
           NewEvent(r, p, DecisionOn(row, p)) \notin history
    PROVE  LET after == history \cup {NewEvent(r, p, DecisionOn(row, p))}
           IN  /\ IsLastApplied(RowAfter(row, p), after)
               /\ IsBehind(RowAfter(row, p), after)
<1> DEFINE d == DecisionOn(row, p)
           new == NewEvent(r, p, d)
           next == RowAfter(row, p)
           report == [status |-> p.status, occurred_at |-> p.occurred_at]
<1> HIDE DEF d, new, next
<1>1. /\ new.status = p.status /\ new.occurred_at = p.occurred_at /\ new.decision = d
      /\ new \notin history
  BY DEF NewEvent, new, d
<1>2. /\ IsReport(p)
      /\ row # NoShipment => IsReport(row)
      /\ STATUS_ORDER \in [ShipmentStatus -> 0..4]
      /\ next # NoShipment
  BY PayloadFields, StatusOrderType, DecisionOnType, NoShipmentAssumption
  DEF ShipmentState, IsReport, next
<1>3. SUFFICES IsLastApplied(next, history \cup {new}) /\ IsBehind(next, history \cup {new})
  BY DEF new, next, d
<1>4. CASE row = NoShipment
  <2>1. history = {} /\ d = "applied" /\ next = report
    BY <1>4 DEF IsLastApplied, DecisionOn, RowAfter, d, next
  <2> QED
    BY <1>1, <1>2, <2>1 DEF IsLastApplied, IsBehind, IsReport
<1>5. CASE row # NoShipment /\ d = "applied"
  <2>1. /\ STATUS_ORDER[row.status] < STATUS_ORDER[p.status]
        /\ row.occurred_at <= p.occurred_at
        /\ next = report
    BY <1>2, <1>5, AppliedMovesForward DEF DecisionOn, RowAfter, d, next
  <2>2. PICK e \in history :
          /\ row = [status |-> e.status, occurred_at |-> e.occurred_at]
          /\ \A f \in history \ {e} : f.decision = "applied" =>
               /\ STATUS_ORDER[f.status] < STATUS_ORDER[e.status]
               /\ f.occurred_at <= e.occurred_at
    BY <1>5 DEF IsLastApplied
  <2>3. row.status = e.status /\ row.occurred_at = e.occurred_at
    BY <2>2
  <2>4. \A f \in history : f.decision = "applied" =>
          /\ STATUS_ORDER[f.status] < STATUS_ORDER[p.status]
          /\ f.occurred_at <= p.occurred_at
    BY <1>2, <2>1, <2>2, <2>3 DEF IsReport
  <2>5. IsLastApplied(next, history \cup {new})
    BY <1>1, <1>2, <1>5, <2>1, <2>4 DEF IsLastApplied
  <2>6. IsBehind(next, history \cup {new})
    <3> SUFFICES ASSUME NEW f \in history \cup {new}
                 PROVE  \/ f.occurred_at < p.occurred_at
                        \/ STATUS_ORDER[f.status] <= STATUS_ORDER[p.status]
      BY <1>2, <2>1 DEF IsBehind
    <3>1. CASE f = new
      BY <1>1, <1>2, <3>1 DEF IsReport
    <3>2. CASE f \in history
      BY <1>2, <2>1, <3>2 DEF IsBehind, IsReport
    <3> QED BY <3>1, <3>2
  <2> QED BY <2>5, <2>6
<1>6. CASE row # NoShipment /\ d # "applied"
  <2>1. next = row
    BY <1>6 DEF RowAfter, d, next
  <2>2. \/ p.occurred_at < row.occurred_at
        \/ STATUS_ORDER[p.status] <= STATUS_ORDER[row.status]
    BY <1>2, <1>6, RejectedIsBehind DEF DecisionOn, d
  <2>3. IsLastApplied(next, history \cup {new})
    BY <1>1, <1>6, <2>1 DEF IsLastApplied
  <2>4. IsBehind(next, history \cup {new})
    BY <1>1, <1>6, <2>1, <2>2 DEF IsBehind
  <2> QED BY <2>3, <2>4
<1> QED BY <1>4, <1>5, <1>6

LEMMA HistoryStep ==
    ASSUME TypeOK, RequestInv, TransactionInv, RowIsLastApplied, HistoryInv, [Next]_vars
    PROVE  RowIsLastApplied' /\ HistoryInv'
<1>1. CASE UNCHANGED tables
  BY <1>1 DEF tables, RowIsLastApplied, HistoryInv, History
<1>2. ASSUME NEW r \in Requests, CommitStep(r)
      PROVE  RowIsLastApplied' /\ HistoryInv'
  <2>1. PICK p \in Payload, t0 \in Shipments :
          /\ t0 = p.tracking
          /\ ~HasKey(events, p.key)
          /\ shipments' = [shipments EXCEPT ![t0] = RowAfter(shipments[t0], p)]
          /\ events' = events \cup {NewEvent(r, p, DecisionOn(shipments[t0], p))}
    BY <1>2, CommitOnCurrentRow DEF Tracking
  <2> DEFINE new == NewEvent(r, p, DecisionOn(shipments[t0], p))
  <2>2. new.tracking = t0 /\ new \notin events
    BY <2>1 DEF NewEvent, HasKey
  <2>3. /\ \A t \in Shipments \ {t0} :
             {e \in events' : e.tracking = t} = History(t) /\ shipments'[t] = shipments[t]
        /\ {e \in events' : e.tracking = t0} = History(t0) \cup {new}
        /\ shipments'[t0] = RowAfter(shipments[t0], p)
    BY <2>1, <2>2 DEF History, TypeOK
  <2>4. /\ shipments[t0] \in ShipmentState \cup {NoShipment}
        /\ \A e \in History(t0) : IsReport(e)
        /\ new \notin History(t0)
        /\ IsLastApplied(shipments[t0], History(t0)) /\ IsBehind(shipments[t0], History(t0))
    BY <2>2, TimesAssumption
    DEF TypeOK, IsReport, EventRow, History, RowIsLastApplied, HistoryInv
  <2>5. /\ IsLastApplied(RowAfter(shipments[t0], p), History(t0) \cup {new})
        /\ IsBehind(RowAfter(shipments[t0], p), History(t0) \cup {new})
    BY <2>4, DecideOneMore
  <2> HIDE DEF new
  <2>6. \A t \in Shipments :
          /\ IsLastApplied(shipments'[t], {e \in events' : e.tracking = t})
          /\ IsBehind(shipments'[t], {e \in events' : e.tracking = t})
    BY <2>3, <2>5 DEF RowIsLastApplied, HistoryInv
  <2> QED
    BY <2>6 DEF RowIsLastApplied, HistoryInv, History, IsLastApplied, IsBehind
<1> QED
  BY <1>1, <1>2, TablesChange

-----------------------------------------------------------------------------
(* The theorems *)

LEMMA InvariantInit == Init => IInv
<1> SUFFICES ASSUME Init PROVE IInv
  OBVIOUS
<1>1. TypeOK /\ RequestInv
  BY AnswerTypes DEF Init, TypeOK, RequestInv, Location, NoLock, NoPayload
<1>2. TransactionInv
  BY TransactionInit
<1>3. DurableAcceptance /\ DuplicateNamesOriginal
  BY DEF Init, DurableAcceptance, DuplicateNamesOriginal, NoResponse
<1>4. RowIsLastApplied /\ HistoryInv
  BY DEF Init, RowIsLastApplied, HistoryInv, History, IsLastApplied, IsBehind
<1> QED
  BY <1>1, <1>2, <1>3, <1>4 DEF IInv, TransactionInv

LEMMA InvariantStep == IInv /\ [Next]_vars => IInv'
BY TypeStep, TransactionStep, AnswersStep, HistoryStep DEF IInv, TransactionInv

\* The inductive invariant holds in every reachable state, however many
\* requests race for however many keys and shipments.
THEOREM InvariantHolds == Spec => []IInv
BY InvariantInit, InvariantStep, PTL DEF Spec

\* Type correctness.
THEOREM TypeCorrect == Spec => []TypeOK
<1>1. IInv => TypeOK
  BY DEF IInv
<1> QED
  BY <1>1, InvariantHolds, PTL

\* No acceptance is answered that is not stored with its outbox row.
THEOREM AcceptanceIsDurable == Spec => []DurableAcceptance
<1>1. IInv => DurableAcceptance
  BY DEF IInv
<1> QED
  BY <1>1, InvariantHolds, PTL

\* A key is stored once and duplicates are answered with its event.
THEOREM DuplicatesResolve == Spec => []DuplicateNamesOriginal
<1>1. IInv => DuplicateNamesOriginal
  BY DEF IInv
<1> QED
  BY <1>1, InvariantHolds, PTL

\* A shipment row repeats the event that was applied last.
THEOREM RowsFollowEvents == Spec => []RowIsLastApplied
<1>1. IInv => RowIsLastApplied
  BY DEF IInv
<1> QED
  BY <1>1, InvariantHolds, PTL

\* The final state of a shipment does not depend on the order in which reports
\* arrive, provided that their times agree with their statuses.
THEOREM OrderIrrelevant == Spec => []ArrivalOrderIrrelevant
<1>1. IInv => ArrivalOrderIrrelevant
  <2> SUFFICES ASSUME IInv, NEW t \in Shipments,
                      \A e, f \in History(t) : Consistent(e, f),
                      NEW e \in History(t)
               PROVE  STATUS_ORDER[e.status] <= STATUS_ORDER[shipments[t].status]
    BY DEF ArrivalOrderIrrelevant
  <2>1. /\ shipments[t] # NoShipment
        /\ \/ e.occurred_at < shipments[t].occurred_at
           \/ STATUS_ORDER[e.status] <= STATUS_ORDER[shipments[t].status]
    BY DEF IInv, HistoryInv, IsBehind
  <2>2. PICK f \in History(t) :
          shipments[t] = [status |-> f.status, occurred_at |-> f.occurred_at]
    BY <2>1 DEF IInv, RowIsLastApplied, IsLastApplied
  <2>3. shipments[t].status = f.status /\ shipments[t].occurred_at = f.occurred_at
    BY <2>2
  <2>4. IsReport(e) /\ IsReport(f)
    BY TimesAssumption DEF IInv, TypeOK, EventRow, History, IsReport
  <2>5. STATUS_ORDER[e.status] \in Nat /\ STATUS_ORDER[f.status] \in Nat
    BY <2>4, StatusOrderType DEF IsReport
  <2>6. e.occurred_at < f.occurred_at => STATUS_ORDER[e.status] < STATUS_ORDER[f.status]
    BY DEF Consistent
  <2> QED
    BY <2>1, <2>3, <2>5, <2>6
<1> QED
  BY <1>1, InvariantHolds, PTL

\* No step takes a shipment back: not a late report, not a concurrent one.
THEOREM NeverRegresses == Spec => ShipmentNeverRegresses
<1> DEFINE Forward ==
        \A t \in Shipments :
          (shipments[t] # NoShipment /\ shipments'[t] # shipments[t]) =>
             /\ shipments'[t] # NoShipment
             /\ STATUS_ORDER[shipments[t].status] < STATUS_ORDER[shipments'[t].status]
             /\ shipments[t].occurred_at <= shipments'[t].occurred_at
<1>1. IInv /\ [Next]_vars => Forward
  <2> SUFFICES ASSUME IInv, [Next]_vars PROVE Forward
    OBVIOUS
  <2>1. CASE UNCHANGED tables
    BY <2>1 DEF tables
  <2>2. ASSUME NEW r \in Requests, CommitStep(r)
        PROVE  Forward
    <3>1. PICK p \in Payload, t0 \in Shipments :
            shipments' = [shipments EXCEPT ![t0] = RowAfter(shipments[t0], p)]
      BY <2>2, CommitOnCurrentRow DEF IInv, TransactionInv
    <3>2. \A t \in Shipments \ {t0} : shipments'[t] = shipments[t]
      BY <3>1 DEF IInv, TypeOK
    <3>3. shipments'[t0] = RowAfter(shipments[t0], p)
      BY <3>1 DEF IInv, TypeOK
    <3>4. SUFFICES ASSUME shipments[t0] # NoShipment, shipments'[t0] # shipments[t0]
                   PROVE  /\ shipments'[t0] # NoShipment
                          /\ STATUS_ORDER[shipments[t0].status]
                                < STATUS_ORDER[shipments'[t0].status]
                          /\ shipments[t0].occurred_at <= shipments'[t0].occurred_at
      BY <3>2
    <3>5. /\ DecisionOn(shipments[t0], p) = "applied"
          /\ shipments'[t0] = [status |-> p.status, occurred_at |-> p.occurred_at]
      BY <3>3, <3>4 DEF RowAfter
    <3>6. IsReport(shipments[t0]) /\ IsReport(p)
      BY <3>4, PayloadFields DEF IInv, TypeOK, ShipmentState, IsReport
    <3>7. /\ STATUS_ORDER[shipments[t0].status] < STATUS_ORDER[p.status]
          /\ shipments[t0].occurred_at <= p.occurred_at
      BY <3>4, <3>5, <3>6, AppliedMovesForward DEF DecisionOn
    <3>8. shipments'[t0].status = p.status /\ shipments'[t0].occurred_at = p.occurred_at
      BY <3>5
    <3>9. shipments'[t0] # NoShipment
      BY <3>3, DecisionOnType, NoShipmentAssumption DEF IInv, TypeOK
    <3> QED
      BY <3>7, <3>8, <3>9
  <2> QED
    BY <2>1, <2>2, TablesChange
<1>2. Spec => [][Forward]_vars
  BY <1>1, InvariantHolds, PTL DEF Spec
<1> QED
  BY <1>2 DEF ShipmentNeverRegresses

-----------------------------------------------------------------------------
(* Refinement: the transactions implement the serial specification *)

LEMMA SerialInitially == Init => Serial!SerialInit
BY DEF Init, Serial!SerialInit, NoPayload, Serial!NoPayload, NoResponse, Serial!NoResponse

\* A step of a transaction is one serial step or none.
LEMMA SerialStep ==
    ASSUME IInv, [Next]_vars
    PROVE  [Serial!SerialNext]_(Serial!serialVars)
<1> USE DEF Serial!serialVars, tables
<1>1. \A r \in Requests : pc[r] \notin {"idle", "done"} => Serial!Pending(r)
  BY PayloadFields
  DEF IInv, RequestInv, Serial!Pending, NoPayload, Serial!NoPayload, NoResponse,
      Serial!NoResponse
<1>2. ASSUME NEW r \in Requests, ReceiveRequest(r)
      PROVE  Serial!Submit(r)
  <2>1. \A p : Serial!RejectionCode(p) = RejectionCode(p)
    BY DEF RejectionCode, Serial!RejectionCode
  <2>2. payload[r] = Serial!NoPayload
    BY <1>2 DEF ReceiveRequest, IInv, RequestInv, NoPayload, Serial!NoPayload
  <2>3. PICK p \in Offered :
          /\ payload' = [payload EXCEPT ![r] = p]
          /\ IF RejectionCode(p) = 0
             THEN UNCHANGED response
             ELSE Answer(r, ErrorResponse(RejectionCode(p)))
    BY <1>2 DEF ReceiveRequest
  <2>4. UNCHANGED <<shipments, events, outbox>>
    BY <1>2 DEF ReceiveRequest
  <2> QED
    BY <2>1, <2>2, <2>3, <2>4 DEF Serial!Submit, Answer, Serial!Answer, ErrorResponse,
       Serial!ErrorResponse
<1>3. ASSUME NEW r \in Requests,
             SelectShipment(r) \/ FlushShipment(r) \/ FlushEvent(r)
      PROVE  UNCHANGED Serial!serialVars
  BY <1>3 DEF SelectShipment, FlushShipment, FlushEvent
<1>4. ASSUME NEW r \in Requests, CommitStep(r), NEW answer, Answer(r, answer)
      PROVE  Serial!Accept(r, answer)
  <2>1. Serial!Pending(r) /\ payload[r].run = "satisfied"
    BY <1>1, <1>4 DEF CommitStep, IInv, EventKeyInv, HoldsEventKey
  <2>2. /\ ~HasKey(events, payload[r].key)
        /\ shipments' = [shipments EXCEPT ![payload[r].tracking] =
                            RowAfter(shipments[payload[r].tracking], payload[r])]
        /\ events' = events \cup {NewEvent(r, payload[r],
                            DecisionOn(shipments[payload[r].tracking], payload[r]))}
        /\ outbox' = outbox \cup {r}
    BY <1>4, CommitOnCurrentRow DEF IInv, TransactionInv, Tracking
  <2>3. /\ \A row, p : /\ Serial!RowAfter(row, p) = RowAfter(row, p)
                       /\ Serial!DecisionOn(row, p) = DecisionOn(row, p)
        /\ \A p, d : Serial!NewEvent(r, p, d) = NewEvent(r, p, d)
        /\ \A rows, k : Serial!HasKey(rows, k) <=> HasKey(rows, k)
    BY DEF Serial!RowAfter, RowAfter, Serial!DecisionOn, DecisionOn, Serial!NewEvent,
           NewEvent, Serial!HasKey, HasKey, EvaluateShipmentTransition,
           Serial!EvaluateShipmentTransition, STATUS_ORDER, Serial!STATUS_ORDER,
           ShipmentStatus, Serial!ShipmentStatus
  <2> QED
    BY <1>4, <2>1, <2>2, <2>3 DEF Serial!Accept, Serial!Answer, Answer, CommitStep
<1>5. ASSUME NEW r \in Requests, Commit(r)
      PROVE  Serial!Accept(r, Serial!Created(r))
  BY <1>4, <1>5 DEF Commit, CommitStep, Created, Serial!Created
<1>6. ASSUME NEW r \in Requests, CommitUnconfirmed(r)
      PROVE  Serial!Accept(r, Serial!ErrorResponse(500))
  BY <1>4, <1>6 DEF CommitUnconfirmed, CommitStep, ErrorResponse, Serial!ErrorResponse
<1>7. ASSUME NEW r \in Requests, ResolveConflict(r)
      PROVE  Serial!AnswerDuplicate(r) \/ Serial!Fail(r)
  BY <1>1, <1>7 DEF ResolveConflict, Serial!AnswerDuplicate, Serial!Fail, Answer,
     Serial!Answer, DuplicateOf, Serial!DuplicateOf, ErrorResponse, Serial!ErrorResponse
<1>8. ASSUME NEW r \in Requests, LoseConnection(r)
      PROVE  Serial!Fail(r)
  BY <1>1, <1>8 DEF LoseConnection, Serial!Fail, Answer, Serial!Answer, ErrorResponse,
     Serial!ErrorResponse
<1>9. CASE UNCHANGED vars
  BY <1>9 DEF vars
<1> QED
  BY <1>2, <1>3, <1>5, <1>6, <1>7, <1>8, <1>9
  DEF Next, Handle, Terminated, vars, Serial!SerialNext

\* Every behaviour of the transactions is a behaviour of ingestion that handles
\* one request at a time.
THEOREM ImplementsSerial == Spec => ImplementsSerialIngestion
<1>1. IInv /\ [Next]_vars => [Serial!SerialNext]_(Serial!serialVars)
  BY SerialStep
<1> QED
  BY <1>1, SerialInitially, InvariantHolds, PTL
  DEF Spec, ImplementsSerialIngestion, Serial!SerialSpec

=============================================================================
