------------------------- MODULE EventDeliveryProofs -------------------------
(***************************************************************************)
(* Proofs about EventDelivery for any number of events, workers, messages, *)
(* receives and disturbances.                                              *)
(***************************************************************************)
EXTENDS EventDelivery, FiniteSetTheorems, TLAPS

-----------------------------------------------------------------------------
(* Types *)

\* A message that was sent has a job.
JobInv == \A m \in MessageIds : messages[m].state # "unsent" => messages[m].job \in Events

\* A worker that processes a message holds it, knows how the call ended once
\* it has, and has a number for the attempt that it is about to insert.
WorkerInv ==
    \A w \in Workers :
        /\ loc[w] \in {"post", "recordRead", "recordInsert", "ack"} => current[w] \in batch[w]
        /\ loc[w] \in {"recordRead", "recordInsert"} => outcome[w] # "none"
        /\ loc[w] = "recordInsert" => number[w] # 0

TypeInv == TypeOK /\ JobInv /\ WorkerInv

outboxTypes ==
    /\ entry \in [Events -> Outbox!EntryState]
    /\ owner \in [Events -> Publishers \cup {NoPublisher}]
    /\ enqueued \subseteq Events
queueTypes == messages \in [MessageIds -> Queue!Message] /\ JobInv
workerTypes ==
    /\ loc \in [Workers -> Worker!WorkerLocation]
    /\ batch \in [Workers -> SUBSET Queue!Receipt]
    /\ current \in [Workers -> Queue!Receipt \cup {NoMessage}]
    /\ outcome \in [Workers -> Worker!Outcome]
    /\ number \in [Workers -> Nat]
    /\ WorkerInv
simulatorTypes ==
    /\ mode \in Simulator!SimulatorMode
    /\ receipts \in [Events -> Nat]
    /\ keys \subseteq Events
    /\ sleeping \subseteq Events
    /\ restarted \in BOOLEAN

typeParts ==
    /\ outboxTypes /\ queueTypes /\ workerTypes /\ simulatorTypes
    /\ attempts \in [Events -> SUBSET Worker!Attempt]
    /\ handler \in [Events -> HandlerState]
    /\ disturbances \in 0..MaxDisturbances

\* The types of the parts.
LEMMA TypeInvParts == (TypeInv <=> typeParts) /\ (TypeInv' <=> typeParts')
BY DEF TypeInv, TypeOK, typeParts, outboxTypes, queueTypes, workerTypes, simulatorTypes

\* The count of disturbances stays within its bound.
LEMMA DisturbanceTypes ==
    ASSUME disturbances \in 0..MaxDisturbances, Disturb \/ Undisturbed
    PROVE  disturbances' \in 0..MaxDisturbances
BY MaxDisturbancesAssumption DEF Disturb, Undisturbed

\* The operations on the outbox.
LEMMA OutboxTypes ==
    ASSUME outboxTypes
    PROVE  /\ UNCHANGED outboxVars => outboxTypes'
           /\ \A e \in Events : Outbox!InsertEntry(e) => outboxTypes'
           /\ \A p \in Publishers, rows \in SUBSET Events : Outbox!LockRows(p, rows) => outboxTypes'
           /\ \A e \in Events : Outbox!MarkEnqueued(e) => outboxTypes'
           /\ \A p \in Publishers :
                Outbox!CommitPublication(p) \/ Outbox!RollbackPublication(p) => outboxTypes'
BY DEF outboxTypes, outboxVars, Outbox!EntryState, Outbox!InsertEntry, Outbox!LockRows,
       Outbox!MarkEnqueued, Outbox!CommitPublication, Outbox!RollbackPublication,
       Outbox!EndTransaction, Outbox!LockedBy

\* The operations on the queue.
LEMMA QueueTypes ==
    ASSUME queueTypes
    PROVE  /\ UNCHANGED messages => queueTypes'
           /\ \A e \in Events : Queue!Send(e) => queueTypes'
           /\ \A p \in Publishers : SendAmbiguously(p) => queueTypes'
           /\ \A received \in SUBSET Queue!Receivable : Queue!ReceiveBatch(received) => queueTypes'
           /\ \A h \in Queue!Receipt : Queue!Delete(h) => queueTypes'
           /\ \A m \in MessageIds : Queue!BecomeVisible(m) \/ Queue!Redrive(m) => queueTypes'
<1> USE MaxReceiveCountAssumption
    DEF queueTypes, JobInv, Queue!Message, Queue!MessageState
<1>1. UNCHANGED messages => queueTypes'
  OBVIOUS
<1>2. \A e \in Events : Queue!Send(e) => queueTypes'
  BY DEF Queue!Send
<1>3. \A p \in Publishers : SendAmbiguously(p) => queueTypes'
  BY <1>1, <1>2 DEF SendAmbiguously
<1>4. \A received \in SUBSET Queue!Receivable : Queue!ReceiveBatch(received) => queueTypes'
  <2> SUFFICES ASSUME NEW received \in SUBSET Queue!Receivable, Queue!ReceiveBatch(received)
               PROVE  queueTypes'
    OBVIOUS
  <2>1. ASSUME NEW m \in MessageIds
        PROVE  /\ messages'[m] \in Queue!Message
               /\ messages'[m].state # "unsent" => messages'[m].job \in Events
    <3>1. CASE m \in received
      <4>1. messages[m].state = "visible" /\ messages[m].receives \in 0..MaxReceiveCount
            /\ messages[m].receives < MaxReceiveCount /\ messages[m].job \in Events
        BY <3>1 DEF Queue!Receivable, Queue!Visible
      <4>2. messages'[m] = [messages[m] EXCEPT !.state = "inflight", !.receives = @ + 1]
        BY <3>1 DEF Queue!ReceiveBatch
      <4>3. messages'[m] = [state |-> "inflight", job |-> messages[m].job,
                            receives |-> messages[m].receives + 1]
        BY <4>2
      <4>4. messages[m].receives + 1 \in 0..MaxReceiveCount
        BY <4>1
      <4> QED BY <4>1, <4>3, <4>4
    <3>2. CASE m \notin received
      BY <3>2 DEF Queue!ReceiveBatch
    <3> QED BY <3>1, <3>2
  <2>2. messages' \in [MessageIds -> Queue!Message]
    BY <2>1 DEF Queue!ReceiveBatch
  <2> QED BY <2>1, <2>2
<1>5. \A h \in Queue!Receipt : Queue!Delete(h) => queueTypes'
  BY DEF Queue!Delete, Queue!Receipt
<1>6. \A m \in MessageIds : Queue!BecomeVisible(m) \/ Queue!Redrive(m) => queueTypes'
  BY DEF Queue!BecomeVisible, Queue!Redrive, Queue!Visible
<1> QED BY <1>1, <1>2, <1>3, <1>4, <1>5, <1>6

\* The operations on the workers.
LEMMA WorkerTypes ==
    ASSUME TypeInv, NEW w \in Workers
    PROVE  /\ UNCHANGED <<loc, batch, current, outcome, number>> => workerTypes'
           /\ loc[w] \in {"recordRead", "recordInsert", "ack"} /\ Worker!Leave(w) => workerTypes'
           /\ Worker!GoDown(w) => workerTypes'
           /\ \A h \in batch[w] :
                Worker!TakeMessage(w, h) \/ Worker!SkipMessage(w, h) => workerTypes'
           /\ \A o \in Worker!Outcome \ {"none"} : Worker!EndCall(w, o) => workerTypes'
           /\ Worker!ReadLastNumber(w) => workerTypes'
           /\ Worker!InsertAttempt(w) => workerTypes'
           /\ \A l \in {"poll", "relay", "receive"} :
                Worker!Goto(w, l) /\ UNCHANGED workerRest => workerTypes'
<1> USE DEF TypeInv, TypeOK, WorkerInv, workerTypes, Worker!WorkerLocation, Worker!Outcome,
            Worker!Goto
<1>1. UNCHANGED <<loc, batch, current, outcome, number>> => workerTypes'
  OBVIOUS
<1>2. Worker!Leave(w) => workerTypes'
  BY DEF Worker!Leave
<1>3. Worker!GoDown(w) => workerTypes'
  BY DEF Worker!GoDown
<1>4. \A h \in batch[w] : Worker!TakeMessage(w, h) => workerTypes'
  BY DEF Worker!TakeMessage
<1>5. \A h \in batch[w] : Worker!SkipMessage(w, h) => workerTypes'
  BY DEF Worker!SkipMessage
<1>6. \A o \in Worker!Outcome \ {"none"} : Worker!EndCall(w, o) => workerTypes'
  BY DEF Worker!EndCall
<1>7. Worker!ReadLastNumber(w) => workerTypes'
  <2> SUFFICES ASSUME Worker!ReadLastNumber(w) PROVE workerTypes'
    OBVIOUS
  <2>1. Worker!Job(w) \in Events
    BY DEF Worker!ReadLastNumber, Worker!Job, Queue!Receipt
  <2>2. \A a \in attempts[Worker!Job(w)] : a.number \in Nat
    BY <2>1 DEF Worker!Attempt
  <2>3. PICK n \in Nat : number' = [number EXCEPT ![w] = n + 1]
    BY <2>2 DEF Worker!ReadLastNumber
  <2> QED BY <2>3 DEF Worker!ReadLastNumber
<1>8. Worker!InsertAttempt(w) => workerTypes'
  BY <1>2 DEF Worker!InsertAttempt
<1>9. \A l \in {"poll", "relay", "receive"} :
        Worker!Goto(w, l) /\ UNCHANGED workerRest => workerTypes'
  BY DEF workerRest
<1> QED BY <1>1, <1>2, <1>3, <1>4, <1>5, <1>6, <1>7, <1>8, <1>9

\* The operations on the simulator.
LEMMA SimulatorTypes ==
    ASSUME simulatorTypes
    PROVE  /\ UNCHANGED simulatorVars => simulatorTypes'
           /\ \A e \in Events, late \in SUBSET Events :
                /\ Simulator!Record(e) \/ UNCHANGED <<receipts, keys>>
                /\ sleeping' \in {sleeping, sleeping \cup late, sleeping \ late}
                /\ UNCHANGED <<mode, restarted>>
                => simulatorTypes'
           /\ \A m \in Modes : Simulator!SetMode(m) /\ UNCHANGED restarted => simulatorTypes'
           /\ Simulator!RestartSimulator /\ restarted' = TRUE => simulatorTypes'
<1> USE ModesAssumption DEF simulatorTypes, Simulator!SimulatorMode
<1>1. UNCHANGED simulatorVars => simulatorTypes'
  BY DEF simulatorVars
<1>2. ASSUME NEW e \in Events, NEW late \in SUBSET Events,
             Simulator!Record(e) \/ UNCHANGED <<receipts, keys>>,
             sleeping' \in {sleeping, sleeping \cup late, sleeping \ late},
             UNCHANGED <<mode, restarted>>
      PROVE  simulatorTypes'
  <2>1. receipts' \in [Events -> Nat] /\ keys' \subseteq Events
    BY <1>2 DEF Simulator!Record
  <2>2. sleeping' \subseteq Events
    BY <1>2
  <2> QED BY <1>2, <2>1, <2>2
<1>3. \A m \in Modes : Simulator!SetMode(m) /\ UNCHANGED restarted => simulatorTypes'
  BY DEF Simulator!SetMode
<1>4. Simulator!RestartSimulator /\ restarted' = TRUE => simulatorTypes'
  BY DEF Simulator!RestartSimulator
<1> QED BY <1>1, <1>2, <1>3, <1>4

\* The operations on the attempts: only an INSERT changes them, by one row.
LEMMA AttemptTypes ==
    ASSUME TypeInv, NEW w \in Workers, Worker!InsertAttempt(w)
    PROVE  attempts' \in [Events -> SUBSET Worker!Attempt]
<1>1. Worker!Job(w) \in Events
  BY DEF TypeInv, TypeOK, WorkerInv, Worker!InsertAttempt, Worker!Job, Queue!Receipt
<1>2. outcome[w] \in {"delivered", "http_error", "transport_error", "unclassified"}
      /\ number[w] \in Nat \ {0}
  BY DEF TypeInv, TypeOK, WorkerInv, Worker!InsertAttempt, Worker!Outcome
<1>3. [number |-> number[w], result |-> Worker!RecordedAs(outcome[w]).result,
       has_code |-> Worker!RecordedAs(outcome[w]).has_code] \in Worker!Attempt
  BY <1>2 DEF Worker!RecordedAs, Worker!Attempt, Worker!AttemptResult
<1> QED BY <1>1, <1>3 DEF TypeInv, TypeOK, Worker!InsertAttempt, Worker!InsertRow

\* A worker that processes a message has the job of an event.
LEMMA JobOfWorker ==
    ASSUME TypeInv, NEW w \in Workers, loc[w] \in {"post", "recordRead", "recordInsert", "ack"}
    PROVE  /\ current[w] \in batch[w]
           /\ current[w] \in Queue!Receipt
           /\ Worker!Job(w) \in Events
BY DEF TypeInv, TypeOK, WorkerInv, Worker!Job, Queue!Receipt

\* The same after a step.
LEMMA JobOfWorkerNext ==
    ASSUME TypeInv', NEW w \in Workers, loc'[w] \in {"post", "recordRead", "recordInsert", "ack"}
    PROVE  Worker!Job(w)' \in Events
BY DEF TypeInv, TypeOK, WorkerInv, Worker!Job, Queue!Receipt

\* The initial state has the types.
LEMMA InitTypes == Init => TypeInv
<1> SUFFICES ASSUME Init PROVE TypeInv
  OBVIOUS
<1>1. outboxTypes
  BY DEF Init, Outbox!OutboxInit, outboxTypes, Outbox!EntryState
<1>2. queueTypes
  BY MaxReceiveCountAssumption
     DEF Init, Queue!QueueInit, Queue!UnsentMessage, Queue!Message, Queue!MessageState,
         queueTypes, JobInv
<1>3. workerTypes /\ attempts \in [Events -> SUBSET Worker!Attempt]
  BY DEF Init, Worker!WorkerInit, Worker!WorkerLocation, Worker!Outcome, workerTypes, WorkerInv
<1>4. simulatorTypes
  BY DEF Init, Simulator!SimulatorInit, Simulator!SimulatorMode, simulatorTypes
<1>5. handler \in [Events -> HandlerState] /\ disturbances \in 0..MaxDisturbances
  BY MaxDisturbancesAssumption DEF Init, HandlerState
<1> QED BY <1>1, <1>2, <1>3, <1>4, <1>5, TypeInvParts DEF typeParts

\* The steps of the request handlers.
LEMMA ApiTypes ==
    ASSUME TypeInv, NEW e \in Events,
           Accept(e) \/ ApiStep(e) \/ ApiPublicationFails(e) \/ RecordLate(e)
    PROVE  TypeInv'
<1> USE DEF Publishers
<1>0. /\ outboxTypes /\ queueTypes /\ workerTypes /\ simulatorTypes
      /\ attempts \in [Events -> SUBSET Worker!Attempt]
      /\ handler \in [Events -> HandlerState]
      /\ disturbances \in 0..MaxDisturbances
  BY TypeInvParts DEF typeParts
<1>h. ASSUME NEW s \in HandlerState, HandlerGoto(e, s)
      PROVE  handler' \in [Events -> HandlerState]
  BY <1>0, <1>h DEF HandlerGoto
<1>w. UNCHANGED workerVars => workerTypes' /\ attempts' \in [Events -> SUBSET Worker!Attempt]
  BY <1>0 DEF workerVars, workerTypes, WorkerInv
<1>d. Disturb \/ Undisturbed => disturbances' \in 0..MaxDisturbances
  BY <1>0, DisturbanceTypes
<1>1. CASE Accept(e)
  BY <1>0, <1>1, <1>h, <1>w, <1>d, OutboxTypes, QueueTypes, SimulatorTypes, TypeInvParts
     DEF typeParts, Accept, HandlerState
<1>2. CASE ApiSelect(e)
  <2>1. Outbox!LockRows(e, {e}) \/ UNCHANGED outboxVars
    BY <1>2 DEF ApiSelect
  <2>2. outboxTypes'
    BY <1>0, <2>1, OutboxTypes
  <2>3. handler' \in [Events -> HandlerState]
    BY <1>0, <1>2 DEF ApiSelect, HandlerGoto, HandlerState
  <2> QED BY <1>0, <1>2, <1>w, <1>d, <2>2, <2>3, QueueTypes, SimulatorTypes, TypeInvParts
     DEF typeParts, ApiSelect
<1>3. CASE ApiEnqueue(e)
  BY <1>0, <1>3, <1>w, <1>d, OutboxTypes, QueueTypes, SimulatorTypes, TypeInvParts
     DEF typeParts, ApiEnqueue
<1>4. CASE ApiCommit(e)
  BY <1>0, <1>4, <1>h, <1>w, <1>d, OutboxTypes, QueueTypes, SimulatorTypes, TypeInvParts
     DEF typeParts, ApiCommit, HandlerState
<1>5. CASE ApiPublicationFails(e)
  BY <1>0, <1>5, <1>h, <1>w, <1>d, OutboxTypes, QueueTypes, SimulatorTypes, TypeInvParts
     DEF typeParts, ApiPublicationFails, HandlerState
<1>6. CASE RecordLate(e)
  <2>1. simulatorTypes'
    BY <1>0, <1>6, SimulatorTypes DEF RecordLate, Simulator!RecordLate
  <2> QED BY <1>0, <1>6, <1>w, <1>d, <2>1, OutboxTypes, QueueTypes, TypeInvParts
     DEF typeParts, RecordLate
<1> QED BY <1>1, <1>2, <1>3, <1>4, <1>5, <1>6 DEF ApiStep

\* The steps of the workers.
LEMMA WorkerStepTypes ==
    ASSUME TypeInv, NEW w \in Workers, WorkerStep(w) \/ WorkerDisturbed(w)
    PROVE  TypeInv'
<1> USE DEF Publishers
<1>0. /\ outboxTypes /\ queueTypes /\ workerTypes /\ simulatorTypes
      /\ attempts \in [Events -> SUBSET Worker!Attempt]
      /\ handler \in [Events -> HandlerState]
      /\ disturbances \in 0..MaxDisturbances
  BY TypeInvParts DEF typeParts
<1>w. UNCHANGED workerVars => workerTypes' /\ attempts' \in [Events -> SUBSET Worker!Attempt]
  BY <1>0 DEF workerVars, workerTypes, WorkerInv
<1>l. \A l \in {"poll", "relay", "receive"} :
        Worker!Goto(w, l) /\ UNCHANGED workerRest
        => workerTypes' /\ attempts' \in [Events -> SUBSET Worker!Attempt]
  BY <1>0, WorkerTypes DEF workerRest
<1>d. Disturb \/ Undisturbed => disturbances' \in 0..MaxDisturbances
  BY <1>0, DisturbanceTypes
<1>s. ASSUME loc[w] = "post",
             Simulator!Record(Worker!Job(w)) \/ UNCHANGED <<receipts, keys>>,
             sleeping' \in {sleeping, sleeping \cup {Worker!Job(w)}},
             UNCHANGED <<mode, restarted>>
      PROVE  simulatorTypes'
  <2>1. Worker!Job(w) \in Events /\ {Worker!Job(w)} \in SUBSET Events
    BY <1>s, JobOfWorker
  <2>2. sleeping' \in {sleeping, sleeping \cup {Worker!Job(w)}, sleeping \ {Worker!Job(w)}}
    BY <1>s
  <2> QED BY <1>0, <1>s, <2>1, <2>2, SimulatorTypes
<1>1. CASE RelaySelect(w)
  <2> DEFINE rows == Outbox!Oldest(Outbox!PendingUnlocked, BatchSize)
  <2>1. rows \in SUBSET Events /\ Outbox!LockRows(w, rows)
    BY <1>1 DEF RelaySelect, Outbox!Oldest, Outbox!PendingUnlocked
  <2>2. outboxTypes'
    BY <1>0, <2>1, OutboxTypes
  <2>3. UNCHANGED workerRest /\ (Worker!Goto(w, "receive") \/ Worker!Goto(w, "relay"))
    BY <1>1 DEF RelaySelect
  <2> QED BY <1>0, <1>1, <1>l, <1>d, <2>2, <2>3, QueueTypes, SimulatorTypes, TypeInvParts
     DEF typeParts, RelaySelect
<1>2. CASE RelayEnqueue(w)
  BY <1>0, <1>2, <1>w, <1>d, OutboxTypes, QueueTypes, SimulatorTypes, TypeInvParts
     DEF typeParts, RelayEnqueue
<1>3. CASE RelayCommit(w)
  BY <1>0, <1>3, <1>l, <1>d, OutboxTypes, QueueTypes, SimulatorTypes, TypeInvParts
     DEF typeParts, RelayCommit
<1>4. CASE RelayFails(w)
  BY <1>0, <1>4, <1>l, <1>d, OutboxTypes, QueueTypes, SimulatorTypes, TypeInvParts
     DEF typeParts, RelayFails
<1>5. CASE Receive(w)
  <2>1. PICK received \in SUBSET Queue!Receivable :
           /\ Queue!ReceiveBatch(received)
           /\ batch' = [batch EXCEPT ![w] = Queue!ReceiptsOf(received)]
    BY <1>5 DEF Receive
  <2>2. Queue!ReceiptsOf(received) \subseteq Queue!Receipt
    <3> SUFFICES ASSUME NEW m \in received
                 PROVE  /\ m \in MessageIds
                        /\ messages[m].receives + 1 \in 1..MaxReceiveCount
                        /\ messages[m].job \in Events
      BY DEF Queue!ReceiptsOf, Queue!Receipt
    <3> QED BY <1>0, MaxReceiveCountAssumption
            DEF queueTypes, JobInv, Queue!Message, Queue!Receivable, Queue!Visible
  <2>3. workerTypes'
    BY <1>0, <1>5, <2>1, <2>2
       DEF Receive, workerTypes, WorkerInv, Worker!Goto, Worker!WorkerLocation
  <2> QED BY <1>0, <1>5, <1>d, <2>1, <2>3, OutboxTypes, QueueTypes, SimulatorTypes, TypeInvParts
     DEF typeParts, Receive
<1>6. CASE ReceiveNothing(w) \/ WorkerStarts(w)
  BY <1>0, <1>6, <1>l, <1>d, OutboxTypes, QueueTypes, SimulatorTypes, TypeInvParts
     DEF typeParts, ReceiveNothing, WorkerStarts
<1>7. CASE TakeMessage(w)
  BY <1>0, <1>7, <1>d, WorkerTypes, OutboxTypes, QueueTypes, SimulatorTypes, TypeInvParts
     DEF typeParts, TakeMessage, Worker!TakeMessage
<1>8. CASE RejectInconsistent(w)
  BY <1>0, <1>8, <1>d, WorkerTypes, OutboxTypes, QueueTypes, SimulatorTypes, TypeInvParts
     DEF typeParts, RejectInconsistent, Worker!SkipMessage
<1>9. CASE \/ CallSucceeds(w) \/ CallRefused(w) \/ CallTimesOut(w)
           \/ CallLost(w) \/ CallUnclassified(w)
  <2>1. PICK o \in Worker!Outcome \ {"none"} : Worker!EndCall(w, o)
    BY <1>9 DEF CallSucceeds, CallRefused, CallTimesOut, CallLost, CallUnclassified,
                Worker!Outcome
  <2>2. workerTypes' /\ UNCHANGED attempts /\ loc[w] = "post"
    BY <2>1, WorkerTypes DEF Worker!EndCall
  <2>3. simulatorTypes'
    BY <1>0, <1>9, <1>s, <2>2, SimulatorTypes
       DEF CallSucceeds, CallRefused, CallTimesOut, CallLost, CallUnclassified, simulatorVars
  <2>4. UNCHANGED <<outboxVars, messages, handler>> /\ (Disturb \/ Undisturbed)
    BY <1>9 DEF CallSucceeds, CallRefused, CallTimesOut, CallLost, CallUnclassified
  <2> QED BY <1>0, <1>d, <2>2, <2>3, <2>4, OutboxTypes, QueueTypes, TypeInvParts DEF typeParts
<1>10. CASE ReadLastNumber(w)
  BY <1>0, <1>10, <1>d, WorkerTypes, OutboxTypes, QueueTypes, SimulatorTypes, TypeInvParts
     DEF typeParts, ReadLastNumber, Worker!ReadLastNumber
<1>11. CASE InsertAttempt(w)
  BY <1>0, <1>11, <1>d, AttemptTypes, WorkerTypes, OutboxTypes, QueueTypes, SimulatorTypes,
     TypeInvParts
     DEF typeParts, InsertAttempt
<1>12. CASE Acknowledge(w)
  <2>1. current[w] \in Queue!Receipt
    BY <1>12, JobOfWorker DEF Acknowledge
  <2> QED BY <1>0, <1>12, <1>d, <2>1, WorkerTypes, OutboxTypes, QueueTypes, SimulatorTypes,
             TypeInvParts
     DEF typeParts, Acknowledge
<1>13. CASE MessageFails(w)
  BY <1>0, <1>13, <1>d, WorkerTypes, OutboxTypes, QueueTypes, SimulatorTypes, TypeInvParts
     DEF typeParts, MessageFails, Worker!SkipMessage
<1>14. CASE WorkerGoesDown(w)
  <2>1. simulatorTypes'
    BY <1>0, <1>14, <1>s DEF WorkerGoesDown, simulatorTypes
  <2> QED BY <1>0, <1>14, <1>d, <2>1, WorkerTypes, OutboxTypes, QueueTypes, TypeInvParts
     DEF typeParts, WorkerGoesDown
<1> QED BY <1>1, <1>2, <1>3, <1>4, <1>5, <1>6, <1>7, <1>8, <1>9, <1>10, <1>11, <1>12, <1>13,
           <1>14
        DEF WorkerStep, WorkerDisturbed

\* Every step keeps the types.
LEMMA TypeStep == TypeInv /\ [Next]_vars => TypeInv'
<1> SUFFICES ASSUME TypeInv, [Next]_vars PROVE TypeInv'
  OBVIOUS
<1>0. /\ outboxTypes /\ queueTypes /\ workerTypes /\ simulatorTypes
      /\ attempts \in [Events -> SUBSET Worker!Attempt]
      /\ handler \in [Events -> HandlerState]
      /\ disturbances \in 0..MaxDisturbances
  BY TypeInvParts DEF typeParts
<1>w. UNCHANGED workerVars => workerTypes' /\ attempts' \in [Events -> SUBSET Worker!Attempt]
  BY <1>0 DEF workerVars, workerTypes, WorkerInv
<1>d. Disturb \/ Undisturbed => disturbances' \in 0..MaxDisturbances
  BY <1>0, DisturbanceTypes
<1>1. ASSUME NEW m \in MessageIds, VisibilityTimeout(m) \/ Redrive(m) PROVE TypeInv'
  BY <1>0, <1>1, <1>w, <1>d, OutboxTypes, QueueTypes, SimulatorTypes, TypeInvParts
     DEF typeParts, VisibilityTimeout, Redrive
<1>2. ASSUME NEW m \in Modes, SetMode(m) PROVE TypeInv'
  BY <1>0, <1>2, <1>w, <1>d, OutboxTypes, QueueTypes, SimulatorTypes, TypeInvParts
     DEF typeParts, SetMode
<1>3. CASE RestartSimulator
  BY <1>0, <1>3, <1>w, <1>d, OutboxTypes, QueueTypes, SimulatorTypes, TypeInvParts
     DEF typeParts, RestartSimulator
<1>4. CASE UNCHANGED vars
  BY <1>0, <1>4, <1>w, <1>d, OutboxTypes, QueueTypes, SimulatorTypes, TypeInvParts
     DEF typeParts, vars, Undisturbed
<1> QED BY <1>1, <1>2, <1>3, <1>4, ApiTypes, WorkerStepTypes DEF Next

\* Every variable keeps its type, and a worker that processes a message holds it.
THEOREM TypesHold == Spec => []TypeInv
BY InitTypes, TypeStep, PTL DEF Spec

\* The type invariant that the runs check.
THEOREM DeliveryTypeCorrect == Spec => []TypeOK
<1>1. TypeInv => TypeOK
  BY DEF TypeInv
<1> QED BY <1>1, TypesHold, PTL

-----------------------------------------------------------------------------
(* The inductive invariant of the safety properties *)

\* A receipt handle names a message that was sent, and carries its job.
ReceiptInv ==
    \A w \in Workers : \A h \in batch[w] :
        messages[h.message].state # "unsent" /\ messages[h.message].job = h.job

\* Only pending entries are locked, and only locked entries are marked as sent.
OwnerInv ==
    \A e \in Events :
        /\ owner[e] # NoPublisher => entry[e] = "pending"
        /\ e \in enqueued => owner[e] # NoPublisher

\* A worker acknowledges a message only with a success of its event on record.
AckInv == \A w \in Workers : loc[w] = "ack" => Worker!HasRecordedSuccess(Worker!Job(w))

\* The event of e is still on its way, parked, or delivered.
Carried(e) ==
    Queue!LiveFor(e) # {} \/ Queue!DeadFor(e) # {} \/ Worker!HasRecordedSuccess(e)

\* A publishing transaction has sent what it is about to mark as published.
CarriedInv == \A e \in Events : e \in enqueued \/ entry[e] = "published" => Carried(e)

\* Messages and attempts belong to accepted events.
AcceptedInv ==
    \A e \in Events :
        (\E m \in MessageIds : messages[m].state # "unsent" /\ messages[m].job = e)
            \/ attempts[e] # {} => entry[e] # "absent"

DeliveryInv ==
    /\ TypeInv /\ ReceiptInv /\ OwnerInv /\ AckInv
    /\ CarriedInv /\ AcceptedInv /\ AcknowledgedIsRecorded

(* How one step may change a message, the attempts, and an outbox entry *)

\* A message is sent for a locked entry, moves within the queue or to the
\* dead-letter queue, or is deleted when a success of its event is on record.
MessageMove(m) ==
    \/ messages'[m] = messages[m]
    \/ /\ messages[m].state = "unsent"
       /\ messages'[m].state = "visible"
       /\ messages'[m].job \in Events
       /\ owner[messages'[m].job] # NoPublisher
    \/ /\ messages[m].state \in {"visible", "inflight"}
       /\ messages'[m].job = messages[m].job
       /\ \/ messages'[m].state \in {"visible", "inflight", "dead"}
          \/ messages'[m].state = "deleted" /\ Worker!HasRecordedSuccess(messages[m].job)

\* An entry is inserted, or published after its job was sent.
OutboxMove(e) ==
    \/ entry'[e] = entry[e]
    \/ entry[e] = "absent" /\ entry'[e] = "pending"
    \/ entry[e] = "pending" /\ entry'[e] = "published" /\ e \in enqueued

\* An entry that is newly marked as sent has a new message.
EnqueueMove(e) ==
    e \in enqueued' \ enqueued =>
        \E m \in MessageIds : messages'[m].state = "visible" /\ messages'[m].job = e

\* A send adds one message and leaves the others alone.
LEMMA SendMoves ==
    ASSUME TypeInv, NEW e \in Events, owner[e] # NoPublisher, Queue!Send(e)
    PROVE  /\ \A m \in MessageIds : MessageMove(m)
           /\ \E m \in MessageIds : messages'[m].state = "visible" /\ messages'[m].job = e
<1>1. PICK m \in MessageIds :
        /\ messages[m].state = "unsent"
        /\ messages' = [messages EXCEPT ![m] =
                            [state |-> "visible", job |-> e, receives |-> 0]]
  BY DEF Queue!Send
<1>2. messages'[m].state = "visible" /\ messages'[m].job = e
  BY <1>1 DEF TypeInv, TypeOK
<1>3. ASSUME NEW n \in MessageIds, n # m PROVE messages'[n] = messages[n]
  BY <1>1, <1>3 DEF TypeInv, TypeOK
<1> QED BY <1>1, <1>2, <1>3 DEF MessageMove

\* The entry that a publisher sends next is one it has locked.
LEMMA NextIsLocked ==
    ASSUME NEW p \in Publishers, NEW e \in Events, IsNext(e, p)
    PROVE  owner[e] # NoPublisher
BY NoPublisherAssumption DEF IsNext, Outbox!Unsent, Outbox!LockedBy

\* A failed enqueue call sends a message of a locked entry, or none.
LEMMA AmbiguousSendMoves ==
    ASSUME TypeInv, NEW p \in Publishers, SendAmbiguously(p)
    PROVE  \A m \in MessageIds : MessageMove(m)
<1>1. CASE UNCHANGED messages
  BY <1>1 DEF MessageMove
<1>2. CASE \E e \in Events : IsNext(e, p) /\ Queue!Send(e)
  BY <1>2, SendMoves, NextIsLocked
<1> QED BY <1>1, <1>2 DEF SendAmbiguously

\* Every step moves every message as MessageMove says.
LEMMA MessagesMove ==
    ASSUME DeliveryInv, [Next]_vars
    PROVE  \A m \in MessageIds : MessageMove(m)
<1> USE DEF DeliveryInv
<1>0. messages \in [MessageIds -> Queue!Message]
  BY DEF TypeInv, TypeOK
<1>u. UNCHANGED messages => \A m \in MessageIds : MessageMove(m)
  BY DEF MessageMove
<1>1. ASSUME NEW e \in Events, Accept(e) \/ ApiStep(e) \/ ApiPublicationFails(e) \/ RecordLate(e)
      PROVE  \A m \in MessageIds : MessageMove(m)
  <2>1. CASE ApiEnqueue(e)
    BY <2>1, SendMoves, NextIsLocked DEF ApiEnqueue, Publishers
  <2>2. CASE ApiPublicationFails(e)
    BY <2>2, AmbiguousSendMoves DEF ApiPublicationFails, Publishers
  <2>3. CASE Accept(e) \/ ApiSelect(e) \/ ApiCommit(e) \/ RecordLate(e)
    BY <1>u, <2>3 DEF Accept, ApiSelect, ApiCommit, RecordLate
  <2> QED BY <1>1, <2>1, <2>2, <2>3 DEF ApiStep
<1>2. ASSUME NEW w \in Workers, WorkerStep(w) \/ WorkerDisturbed(w)
      PROVE  \A m \in MessageIds : MessageMove(m)
  <2>1. CASE RelayEnqueue(w)
    BY <2>1, SendMoves, NextIsLocked DEF RelayEnqueue, Publishers
  <2>2. CASE RelayFails(w) \/ WorkerGoesDown(w)
    BY <2>2, AmbiguousSendMoves DEF RelayFails, WorkerGoesDown, Publishers
  <2>3. CASE Receive(w)
    <3>1. PICK received \in SUBSET Queue!Receivable : Queue!ReceiveBatch(received)
      BY <2>3 DEF Receive
    <3>2. ASSUME NEW m \in MessageIds PROVE MessageMove(m)
      <4>1. CASE m \in received
        <5>1. messages[m].state = "visible"
          BY <4>1 DEF Queue!Receivable, Queue!Visible
        <5>2. messages'[m] = [messages[m] EXCEPT !.state = "inflight", !.receives = @ + 1]
          BY <3>1, <4>1 DEF Queue!ReceiveBatch
        <5>3. messages'[m].state = "inflight" /\ messages'[m].job = messages[m].job
          BY <1>0, <5>2 DEF Queue!Message
        <5> QED BY <5>1, <5>3 DEF MessageMove
      <4>2. CASE m \notin received
        BY <3>1, <4>2 DEF Queue!ReceiveBatch, MessageMove
      <4> QED BY <4>1, <4>2
    <3> QED BY <3>2
  <2>4. CASE Acknowledge(w)
    <3> DEFINE h == current[w]
    <3>1. h \in batch[w] /\ h \in Queue!Receipt
      BY <2>4, JobOfWorker DEF Acknowledge
    <3>2. h.message \in MessageIds /\ messages[h.message].job = h.job
      BY <3>1 DEF ReceiptInv, Queue!Receipt
    <3>3. Worker!HasRecordedSuccess(messages[h.message].job)
      BY <2>4, <3>2 DEF Acknowledge, AckInv, Worker!Job
    <3>4. CASE UNCHANGED messages
      BY <1>u, <3>4
    <3>5. CASE /\ messages[h.message].state \in {"visible", "inflight"}
               /\ messages' = [messages EXCEPT ![h.message].state = "deleted"]
      <4>1. ASSUME NEW m \in MessageIds PROVE MessageMove(m)
        <5>1. CASE m = h.message
          <6>1. messages'[m].state = "deleted" /\ messages'[m].job = messages[m].job
            BY <1>0, <3>5, <5>1 DEF Queue!Message
          <6> QED BY <3>3, <3>5, <5>1, <6>1 DEF MessageMove
        <5>2. CASE m # h.message
          BY <1>0, <3>5, <5>2 DEF MessageMove
        <5> QED BY <5>1, <5>2
      <4> QED BY <4>1
    <3> QED BY <2>4, <3>4, <3>5 DEF Acknowledge, Queue!Delete
  <2>5. CASE \/ RelaySelect(w) \/ RelayCommit(w) \/ ReceiveNothing(w) \/ WorkerStarts(w)
             \/ TakeMessage(w) \/ RejectInconsistent(w) \/ MessageFails(w)
    BY <1>u, <2>5 DEF RelaySelect, RelayCommit, ReceiveNothing, WorkerStarts, TakeMessage,
                      RejectInconsistent, MessageFails
  <2>6. CASE \/ CallSucceeds(w) \/ CallRefused(w) \/ CallTimesOut(w) \/ CallLost(w)
             \/ CallUnclassified(w) \/ ReadLastNumber(w) \/ InsertAttempt(w)
    BY <1>u, <2>6 DEF CallSucceeds, CallRefused, CallTimesOut, CallLost, CallUnclassified,
                      ReadLastNumber, InsertAttempt
  <2> QED BY <1>2, <2>1, <2>2, <2>3, <2>4, <2>5, <2>6 DEF WorkerStep, WorkerDisturbed
<1>3. ASSUME NEW n \in MessageIds, VisibilityTimeout(n) \/ Redrive(n)
      PROVE  \A m \in MessageIds : MessageMove(m)
  <2>1. PICK s \in {"visible", "dead"} :
          /\ messages[n].state \in {"visible", "inflight"}
          /\ messages' = [messages EXCEPT ![n].state = s]
    BY <1>3 DEF VisibilityTimeout, Redrive, Queue!BecomeVisible, Queue!Redrive, Queue!Visible
  <2>2. messages'[n].state = s /\ messages'[n].job = messages[n].job
    BY <1>0, <2>1 DEF Queue!Message
  <2>3. ASSUME NEW m \in MessageIds, m # n PROVE messages'[m] = messages[m]
    BY <1>0, <2>1, <2>3
  <2> QED BY <2>1, <2>2, <2>3 DEF MessageMove
<1>4. CASE \/ \E m \in Modes : SetMode(m)
           \/ RestartSimulator
           \/ UNCHANGED vars
  BY <1>u, <1>4 DEF SetMode, RestartSimulator, vars
<1> QED BY <1>1, <1>2, <1>3, <1>4 DEF Next

\* Only the INSERT of an attempt changes the attempts.
LEMMA AttemptsMove ==
    ASSUME [Next]_vars
    PROVE  UNCHANGED attempts \/ \E w \in Workers : InsertAttempt(w) /\ Worker!InsertRow(w)
<1>1. ASSUME NEW w \in Workers, InsertAttempt(w)
      PROVE  UNCHANGED attempts \/ Worker!InsertRow(w)
  BY <1>1 DEF InsertAttempt, Worker!InsertAttempt
<1>2. ASSUME NEW w \in Workers, WorkerStep(w) \/ WorkerDisturbed(w), ~InsertAttempt(w)
      PROVE  UNCHANGED attempts
  <2>1. CASE \/ RelaySelect(w) \/ RelayEnqueue(w) \/ RelayCommit(w) \/ RelayFails(w)
             \/ Receive(w) \/ ReceiveNothing(w) \/ WorkerStarts(w) \/ WorkerGoesDown(w)
    BY <2>1 DEF RelaySelect, RelayEnqueue, RelayCommit, RelayFails, Receive, ReceiveNothing,
                WorkerStarts, WorkerGoesDown, workerRest, workerVars
  <2>2. CASE \/ CallSucceeds(w) \/ CallRefused(w) \/ CallTimesOut(w) \/ CallLost(w)
             \/ CallUnclassified(w)
    BY <2>2 DEF CallSucceeds, CallRefused, CallTimesOut, CallLost, CallUnclassified,
                Worker!EndCall
  <2>3. CASE \/ TakeMessage(w) \/ RejectInconsistent(w) \/ MessageFails(w)
             \/ ReadLastNumber(w) \/ Acknowledge(w)
    BY <2>3 DEF TakeMessage, RejectInconsistent, MessageFails, ReadLastNumber, Acknowledge,
                Worker!TakeMessage, Worker!SkipMessage, Worker!ReadLastNumber
  <2> QED BY <1>2, <2>1, <2>2, <2>3 DEF WorkerStep, WorkerDisturbed
<1>3. CASE \/ \E e \in Events :
                Accept(e) \/ ApiStep(e) \/ ApiPublicationFails(e) \/ RecordLate(e)
           \/ \E m \in MessageIds : VisibilityTimeout(m) \/ Redrive(m)
           \/ \E m \in Modes : SetMode(m)
           \/ RestartSimulator
           \/ UNCHANGED vars
  <2>1. UNCHANGED workerVars
    BY <1>3 DEF Accept, ApiStep, ApiSelect, ApiEnqueue, ApiCommit, ApiPublicationFails,
                RecordLate, VisibilityTimeout, Redrive, SetMode, RestartSimulator, vars
  <2> QED BY <2>1 DEF workerVars
<1> QED BY <1>1, <1>2, <1>3 DEF Next

\* Attempts are never changed or removed.
LEMMA AttemptsGrow ==
    ASSUME TypeInv, [Next]_vars
    PROVE  \A e \in Events : attempts[e] \subseteq attempts'[e]
BY AttemptsMove DEF TypeInv, TypeOK, Worker!InsertRow

\* An attempt is added to an event whose message a worker holds.
LEMMA AttemptsOfAccepted ==
    ASSUME DeliveryInv, [Next]_vars, NEW e \in Events, entry[e] = "absent"
    PROVE  attempts'[e] = attempts[e]
<1>1. ASSUME NEW w \in Workers, InsertAttempt(w), Worker!InsertRow(w)
      PROVE  attempts'[e] = attempts[e]
  <2>1. current[w] \in batch[w] /\ current[w].message \in MessageIds /\ Worker!Job(w) \in Events
    BY <1>1, JobOfWorker DEF DeliveryInv, InsertAttempt, Worker!InsertAttempt, Queue!Receipt
  <2>2. entry[Worker!Job(w)] # "absent"
    BY <2>1 DEF DeliveryInv, ReceiptInv, AcceptedInv, Worker!Job
  <2> QED BY <1>1, <2>1, <2>2 DEF DeliveryInv, TypeInv, TypeOK, Worker!InsertRow
<1> QED BY <1>1, AttemptsMove

\* A recorded success stays.
LEMMA SuccessStays ==
    ASSUME TypeInv, [Next]_vars, NEW e \in Events, Worker!HasRecordedSuccess(e)
    PROVE  Worker!HasRecordedSuccess(e)'
BY AttemptsGrow DEF Worker!HasRecordedSuccess, Worker!DeliveredAttempts

(* The outbox *)

\* What every step does to the outbox keeps its invariant.
outboxMoves ==
    /\ OwnerInv'
    /\ \A e \in Events : OutboxMove(e) /\ EnqueueMove(e)

\* The operations on the outbox move it so.
LEMMA OutboxSteps ==
    ASSUME DeliveryInv
    PROVE  /\ UNCHANGED outboxVars => outboxMoves
           /\ \A e \in Events : Outbox!InsertEntry(e) => outboxMoves
           /\ \A p \in Publishers, rows \in SUBSET Outbox!PendingUnlocked :
                Outbox!LockRows(p, rows) => outboxMoves
           /\ \A p \in Publishers, e \in Events :
                IsNext(e, p) /\ Queue!Send(e) /\ Outbox!MarkEnqueued(e) => outboxMoves
           /\ \A p \in Publishers :
                Outbox!CommitPublication(p) \/ Outbox!RollbackPublication(p) => outboxMoves
<1> USE DEF DeliveryInv, TypeInv, TypeOK, OwnerInv, outboxMoves, OutboxMove, EnqueueMove,
            Outbox!EntryState
<1>1. UNCHANGED outboxVars => outboxMoves
  BY DEF outboxVars
<1>2. \A e \in Events : Outbox!InsertEntry(e) => outboxMoves
  BY DEF Outbox!InsertEntry
<1>3. ASSUME NEW p \in Publishers, NEW rows \in SUBSET Outbox!PendingUnlocked,
             Outbox!LockRows(p, rows)
      PROVE  outboxMoves
  BY <1>3 DEF Outbox!LockRows, Outbox!PendingUnlocked
<1>4. ASSUME NEW p \in Publishers, NEW e \in Events,
             IsNext(e, p), Queue!Send(e), Outbox!MarkEnqueued(e)
      PROVE  outboxMoves
  <2>1. owner[e] # NoPublisher
    BY <1>4, NextIsLocked
  <2>2. \E m \in MessageIds : messages'[m].state = "visible" /\ messages'[m].job = e
    BY <1>4, <2>1, SendMoves
  <2> QED BY <1>4, <2>1, <2>2 DEF Outbox!MarkEnqueued
<1>5. ASSUME NEW p \in Publishers, NEW s \in {"pending", "published"},
             Outbox!EndTransaction(p, s), s = "published" => Outbox!Unsent(p) = {}
      PROVE  outboxMoves
  <2>1. p # NoPublisher
    BY NoPublisherAssumption
  <2>2. ASSUME NEW e \in Events
        PROVE  /\ owner'[e] # NoPublisher => entry'[e] = "pending"
               /\ e \in enqueued' => owner'[e] # NoPublisher
               /\ OutboxMove(e) /\ EnqueueMove(e)
    <3>1. CASE owner[e] = p
      <4>1. entry[e] = "pending" /\ entry'[e] = s /\ owner'[e] = NoPublisher
            /\ e \notin enqueued'
        BY <1>5, <2>1, <3>1 DEF Outbox!EndTransaction, Outbox!LockedBy
      <4>2. s = "published" => e \in enqueued
        BY <1>5, <3>1 DEF Outbox!Unsent, Outbox!LockedBy
      <4> QED BY <4>1, <4>2
    <3>2. CASE owner[e] # p
      BY <1>5, <3>2 DEF Outbox!EndTransaction
    <3> QED BY <3>1, <3>2
  <2> QED BY <2>2
<1>6. \A p \in Publishers :
        Outbox!CommitPublication(p) \/ Outbox!RollbackPublication(p) => outboxMoves
  BY <1>5 DEF Outbox!CommitPublication, Outbox!RollbackPublication
<1> QED BY <1>1, <1>2, <1>3, <1>4, <1>6

\* Every step moves the outbox so.
LEMMA OutboxMoves ==
    ASSUME DeliveryInv, [Next]_vars
    PROVE  outboxMoves
<1> USE DEF Publishers
<1>1. ASSUME NEW e \in Events, Accept(e) \/ ApiStep(e) \/ ApiPublicationFails(e) \/ RecordLate(e)
      PROVE  outboxMoves
  <2>1. CASE ApiSelect(e)
    <3>1. CASE e \in Outbox!PendingUnlocked
      BY <2>1, <3>1, OutboxSteps DEF ApiSelect
    <3>2. CASE e \notin Outbox!PendingUnlocked
      BY <2>1, <3>2, OutboxSteps DEF ApiSelect
    <3> QED BY <3>1, <3>2
  <2>2. CASE Accept(e) \/ ApiEnqueue(e) \/ ApiCommit(e) \/ ApiPublicationFails(e) \/ RecordLate(e)
    BY <2>2, OutboxSteps DEF Accept, ApiEnqueue, ApiCommit, ApiPublicationFails, RecordLate
  <2> QED BY <1>1, <2>1, <2>2 DEF ApiStep
<1>2. ASSUME NEW w \in Workers, WorkerStep(w) \/ WorkerDisturbed(w)
      PROVE  outboxMoves
  <2>1. CASE RelaySelect(w)
    <3> DEFINE rows == Outbox!Oldest(Outbox!PendingUnlocked, BatchSize)
    <3>1. rows \in SUBSET Outbox!PendingUnlocked /\ Outbox!LockRows(w, rows)
      BY <2>1 DEF RelaySelect, Outbox!Oldest
    <3> QED BY <3>1, OutboxSteps
  <2>2. CASE RelayEnqueue(w) \/ RelayCommit(w) \/ RelayFails(w) \/ WorkerGoesDown(w)
    BY <2>2, OutboxSteps DEF RelayEnqueue, RelayCommit, RelayFails, WorkerGoesDown
  <2>3. CASE \/ Receive(w) \/ ReceiveNothing(w) \/ WorkerStarts(w) \/ TakeMessage(w)
             \/ RejectInconsistent(w) \/ MessageFails(w) \/ Acknowledge(w)
    BY <2>3, OutboxSteps DEF Receive, ReceiveNothing, WorkerStarts, TakeMessage,
                             RejectInconsistent, MessageFails, Acknowledge
  <2>4. CASE \/ CallSucceeds(w) \/ CallRefused(w) \/ CallTimesOut(w) \/ CallLost(w)
             \/ CallUnclassified(w) \/ ReadLastNumber(w) \/ InsertAttempt(w)
    BY <2>4, OutboxSteps DEF CallSucceeds, CallRefused, CallTimesOut, CallLost,
                             CallUnclassified, ReadLastNumber, InsertAttempt
  <2> QED BY <1>2, <2>1, <2>2, <2>3, <2>4 DEF WorkerStep, WorkerDisturbed
<1>3. CASE \/ \E m \in MessageIds : VisibilityTimeout(m) \/ Redrive(m)
           \/ \E m \in Modes : SetMode(m)
           \/ RestartSimulator
           \/ UNCHANGED vars
  BY <1>3, OutboxSteps DEF VisibilityTimeout, Redrive, SetMode, RestartSimulator, vars
<1> QED BY <1>1, <1>2, <1>3 DEF Next

(* The workers *)

\* The handles of a worker were its handles before, or name messages that are
\* received in this step.
BatchMove(w) ==
    \A h \in batch'[w] :
        \/ h \in batch[w]
        \/ messages'[h.message].state = "inflight" /\ messages'[h.message].job = h.job

\* A worker comes to its acknowledgement with a success on record.
AckMove(w) ==
    loc'[w] = "ack" =>
        \/ loc[w] = "ack" /\ current'[w] = current[w]
        \/ \E e \in Events : current'[w].job = e /\ Worker!HasRecordedSuccess(e)'

\* A worker with an accepted call to record has its event known downstream.
CallMove(w) ==
    loc'[w] \in {"recordRead", "recordInsert"} /\ outcome'[w] = "delivered" =>
        \/ /\ loc[w] \in {"recordRead", "recordInsert"} /\ outcome[w] = "delivered"
           /\ current'[w] = current[w]
        \/ current'[w].job \in keys'

\* The number a worker is about to insert follows one that it has read.
NumberMove(w) ==
    loc'[w] = "recordInsert" =>
        \/ loc[w] = "recordInsert" /\ current'[w] = current[w] /\ number'[w] = number[w]
        \/ number'[w] = 1
        \/ \E a \in attempts[current'[w].job] : number'[w] = a.number + 1

workerMoves ==
    \A v \in Workers : BatchMove(v) /\ AckMove(v) /\ CallMove(v) /\ NumberMove(v)

\* A worker that leaves its message or ends acquires nothing.
LEMMA LeaveMoves ==
    ASSUME TypeInv, NEW w \in Workers, Worker!Leave(w) \/ Worker!GoDown(w)
    PROVE  workerMoves
BY DEF TypeInv, TypeOK, Worker!Leave, Worker!GoDown, Worker!Goto,
            workerMoves, BatchMove, AckMove, CallMove, NumberMove

\* A received batch holds handles of the messages received.
LEMMA ReceiveMoves ==
    ASSUME TypeInv, NEW w \in Workers, Receive(w)
    PROVE  workerMoves
<1>1. PICK received \in SUBSET Queue!Receivable :
         /\ Queue!ReceiveBatch(received)
         /\ batch' = [batch EXCEPT ![w] = Queue!ReceiptsOf(received)]
  BY DEF Receive
<1>2. ASSUME NEW h \in batch'[w]
      PROVE  messages'[h.message].state = "inflight" /\ messages'[h.message].job = h.job
  <2>1. PICK m \in received :
          h = [message |-> m, receive |-> messages[m].receives + 1, job |-> messages[m].job]
    BY <1>1, <1>2 DEF TypeInv, TypeOK, Queue!ReceiptsOf
  <2>2. messages'[m] = [messages[m] EXCEPT !.state = "inflight", !.receives = @ + 1]
        /\ messages[m] \in Queue!Message
    BY <1>1, <2>1 DEF TypeInv, TypeOK, Queue!ReceiveBatch, Queue!Receivable, Queue!Visible
  <2> QED BY <2>1, <2>2 DEF Queue!Message
<1> QED BY <1>1, <1>2 DEF TypeInv, TypeOK, Receive, Worker!Goto,
            workerMoves, BatchMove, AckMove, CallMove, NumberMove

\* A replay is acknowledged because its success is on record.
LEMMA TakeMoves ==
    ASSUME TypeInv, NEW w \in Workers, TakeMessage(w)
    PROVE  workerMoves
<1>1. PICK h \in batch[w] : Worker!TakeMessage(w, h)
  BY DEF TakeMessage
<1>2. h \in Queue!Receipt
  BY <1>1 DEF TypeInv, TypeOK
<1>3. h.job \in Events /\ UNCHANGED <<attempts, batch>>
  BY <1>1, <1>2 DEF Queue!Receipt, Worker!TakeMessage
<1>4. ASSUME Worker!RecordedDelivery(h.job) = "recorded"
      PROVE  Worker!HasRecordedSuccess(h.job)'
  <2>1. Worker!HasRecordedSuccess(h.job)
    BY <1>4 DEF Worker!RecordedDelivery, Worker!HasRecordedSuccess
  <2> QED BY <1>3, <2>1 DEF Worker!HasRecordedSuccess, Worker!DeliveredAttempts
<1> QED BY <1>1, <1>3, <1>4
        DEF TypeInv, TypeOK, Worker!TakeMessage, Worker!Goto,
            workerMoves, BatchMove, AckMove, CallMove, NumberMove

\* After an insert, only a delivered call goes on to its acknowledgement.
LEMMA InsertMoves ==
    ASSUME TypeInv, NEW w \in Workers, InsertAttempt(w)
    PROVE  workerMoves
<1>1. CASE Worker!Leave(w)
  BY <1>1, LeaveMoves
<1>2. CASE /\ Worker!InsertRow(w) /\ outcome[w] = "delivered"
           /\ Worker!Goto(w, "ack") /\ UNCHANGED <<batch, current, outcome, number>>
  <2>1. Worker!Job(w) \in Events
    BY JobOfWorker DEF InsertAttempt, Worker!InsertAttempt
  <2>2. [number |-> number[w], result |-> "delivered", has_code |-> TRUE]
        \in attempts'[Worker!Job(w)]
    BY <1>2, <2>1 DEF TypeInv, TypeOK, Worker!InsertRow, Worker!RecordedAs
  <2>3. Worker!HasRecordedSuccess(Worker!Job(w))'
    BY <1>2, <2>2 DEF Worker!HasRecordedSuccess, Worker!DeliveredAttempts, Worker!Job
  <2> QED BY <1>2, <2>1, <2>3
          DEF TypeInv, TypeOK, Worker!Goto, Worker!Job,
            workerMoves, BatchMove, AckMove, CallMove, NumberMove
<1> QED BY <1>1, <1>2 DEF InsertAttempt, Worker!InsertAttempt

\* Every step moves every worker so.
LEMMA WorkersMove ==
    ASSUME TypeInv, [Next]_vars
    PROVE  workerMoves
<1> USE DEF TypeInv, TypeOK
<1>1. ASSUME NEW w \in Workers, WorkerStep(w) \/ WorkerDisturbed(w)
      PROVE  workerMoves
  <2>1. CASE \/ RelaySelect(w) \/ RelayEnqueue(w) \/ RelayCommit(w) \/ RelayFails(w)
             \/ ReceiveNothing(w) \/ WorkerStarts(w)
    <3>1. (\E l \in {"poll", "relay", "receive"} : Worker!Goto(w, l)) \/ UNCHANGED loc
      BY <2>1 DEF RelaySelect, RelayEnqueue, RelayCommit, RelayFails, ReceiveNothing,
                  WorkerStarts, workerVars, Worker!WorkerLocation
    <3>2. UNCHANGED <<batch, current, outcome, number>>
      BY <2>1 DEF RelaySelect, RelayEnqueue, RelayCommit, RelayFails, ReceiveNothing,
                  WorkerStarts, workerRest, workerVars
    <3>3. /\ loc' = loc \/ loc'[w] \notin {"ack", "recordRead", "recordInsert"}
          /\ \A v \in Workers \ {w} : loc'[v] = loc[v]
      BY <3>1 DEF Worker!Goto
    <3> QED BY <3>2, <3>3 DEF workerMoves, BatchMove, AckMove, CallMove, NumberMove
  <2>2. CASE Receive(w)
    BY <2>2, ReceiveMoves
  <2>3. CASE TakeMessage(w)
    BY <2>3, TakeMoves
  <2>4. CASE InsertAttempt(w)
    BY <2>4, InsertMoves
  <2>5. CASE \/ CallSucceeds(w) \/ CallRefused(w) \/ CallTimesOut(w) \/ CallLost(w)
             \/ CallUnclassified(w)
    <3>1. PICK o \in Worker!Outcome : Worker!EndCall(w, o)
      BY <2>5 DEF CallSucceeds, CallRefused, CallTimesOut, CallLost, CallUnclassified,
                  Worker!Outcome
    <3>2. o = "delivered" => Worker!Job(w) \in keys'
      BY <2>5, <3>1 DEF CallSucceeds, CallRefused, CallTimesOut, CallLost, CallUnclassified,
                        Worker!EndCall, Worker!Outcome, Simulator!Record
    <3> QED BY <3>1, <3>2 DEF Worker!EndCall, Worker!Goto, Worker!Job,
            workerMoves, BatchMove, AckMove, CallMove, NumberMove
  <2>6. CASE ReadLastNumber(w)
    <3>1. PICK n \in {0} \cup {a.number : a \in attempts[Worker!Job(w)]} :
             number' = [number EXCEPT ![w] = n + 1]
      BY <2>6 DEF ReadLastNumber, Worker!ReadLastNumber
    <3>2. number'[w] = 1 \/ \E a \in attempts[Worker!Job(w)] : number'[w] = a.number + 1
      BY <3>1
    <3>3. /\ loc[w] = "recordRead" /\ loc' = [loc EXCEPT ![w] = "recordInsert"]
          /\ UNCHANGED <<batch, current, outcome>>
      BY <2>6 DEF ReadLastNumber, Worker!ReadLastNumber, Worker!Goto
    <3>4. NumberMove(w)
      BY <3>2, <3>3 DEF NumberMove, Worker!Job
    <3>5. \A v \in Workers \ {w} : loc'[v] = loc[v] /\ number'[v] = number[v]
      BY <3>1, <3>3
    <3> QED BY <3>3, <3>4, <3>5 DEF workerMoves, BatchMove, AckMove, CallMove, NumberMove
  <2>7. ASSUME NEW h \in batch[w], Worker!SkipMessage(w, h)
        PROVE  workerMoves
    BY <2>7 DEF Worker!SkipMessage, Worker!Goto,
            workerMoves, BatchMove, AckMove, CallMove, NumberMove
  <2>8. CASE RejectInconsistent(w) \/ MessageFails(w) \/ Acknowledge(w) \/ WorkerGoesDown(w)
    BY <2>7, <2>8, LeaveMoves DEF RejectInconsistent, MessageFails, Acknowledge, WorkerGoesDown
  <2> QED BY <1>1, <2>1, <2>2, <2>3, <2>4, <2>5, <2>6, <2>8 DEF WorkerStep, WorkerDisturbed
<1>2. CASE \/ \E e \in Events :
                Accept(e) \/ ApiStep(e) \/ ApiPublicationFails(e) \/ RecordLate(e)
           \/ \E m \in MessageIds : VisibilityTimeout(m) \/ Redrive(m)
           \/ \E m \in Modes : SetMode(m)
           \/ RestartSimulator
           \/ UNCHANGED vars
  <2>1. UNCHANGED workerVars
    BY <1>2 DEF Accept, ApiStep, ApiSelect, ApiEnqueue, ApiCommit, ApiPublicationFails,
                RecordLate, VisibilityTimeout, Redrive, SetMode, RestartSimulator, vars
  <2> QED BY <2>1 DEF workerVars,
            workerMoves, BatchMove, AckMove, CallMove, NumberMove
<1> QED BY <1>1, <1>2 DEF Next

(* The steps of the invariant *)

\* The initial state satisfies the invariant.
LEMMA InitInv == Init => DeliveryInv
<1> SUFFICES ASSUME Init PROVE DeliveryInv
  OBVIOUS
<1>1. TypeInv
  BY InitTypes
<1>2. ReceiptInv /\ AckInv
  BY DEF Init, Worker!WorkerInit, ReceiptInv, AckInv
<1>3. OwnerInv /\ CarriedInv
  BY DEF Init, Outbox!OutboxInit, OwnerInv, CarriedInv
<1>4. AcceptedInv /\ AcknowledgedIsRecorded
  BY DEF Init, Queue!QueueInit, Queue!UnsentMessage, Worker!WorkerInit, AcceptedInv,
         AcknowledgedIsRecorded
<1> QED BY <1>1, <1>2, <1>3, <1>4 DEF DeliveryInv

\* Every step keeps the invariant.
LEMMA InvStep == DeliveryInv /\ [Next]_vars => DeliveryInv'
<1> SUFFICES ASSUME DeliveryInv, [Next]_vars PROVE DeliveryInv'
  OBVIOUS
<1> USE DEF DeliveryInv
<1>1. TypeInv'
  BY TypeStep
<1>2. \A m \in MessageIds : MessageMove(m)
  BY MessagesMove
<1>3. OwnerInv' /\ \A e \in Events : OutboxMove(e) /\ EnqueueMove(e)
  BY OutboxMoves DEF outboxMoves
<1>4. \A w \in Workers : BatchMove(w) /\ AckMove(w)
  BY WorkersMove DEF workerMoves
<1>5. \A e \in Events : Worker!HasRecordedSuccess(e) => Worker!HasRecordedSuccess(e)'
  BY SuccessStays
<1>6. ReceiptInv'
  <2> SUFFICES ASSUME NEW w \in Workers, NEW h \in batch'[w]
               PROVE  messages'[h.message].state # "unsent" /\ messages'[h.message].job = h.job
    BY DEF ReceiptInv
  <2>1. CASE h \in batch[w]
    <3>1. h.message \in MessageIds
      BY <2>1 DEF TypeInv, TypeOK, Queue!Receipt
    <3> QED BY <1>2, <2>1, <3>1 DEF ReceiptInv, MessageMove
  <2>2. CASE h \notin batch[w]
    BY <1>4, <2>2 DEF BatchMove
  <2> QED BY <2>1, <2>2
<1>7. AckInv'
  <2>1. ASSUME NEW w \in Workers, loc'[w] = "ack"
        PROVE  \E e \in Events : current'[w].job = e /\ Worker!HasRecordedSuccess(e)'
    <3>1. CASE loc[w] = "ack" /\ current'[w] = current[w]
      <4>1. Worker!Job(w) \in Events /\ Worker!HasRecordedSuccess(Worker!Job(w))
        BY <3>1, JobOfWorker DEF AckInv
      <4>2. PICK e \in Events : e = Worker!Job(w)
        BY <4>1
      <4>3. Worker!HasRecordedSuccess(e)'
        BY <1>5, <4>1, <4>2
      <4> QED BY <3>1, <4>2, <4>3 DEF Worker!Job
    <3> QED BY <1>4, <2>1, <3>1 DEF AckMove
  <2> QED BY <2>1 DEF AckInv, Worker!Job, Worker!HasRecordedSuccess, Worker!DeliveredAttempts
<1>8. AcknowledgedIsRecorded'
  <2>1. ASSUME NEW m \in MessageIds, messages'[m].state = "deleted"
        PROVE  \E e \in Events : messages'[m].job = e /\ Worker!HasRecordedSuccess(e)'
    <3>1. messages[m].job = messages'[m].job /\ Worker!HasRecordedSuccess(messages[m].job)
          /\ messages[m].state # "unsent"
      BY <1>2, <2>1 DEF MessageMove, AcknowledgedIsRecorded
    <3>2. PICK e \in Events : e = messages[m].job
      BY <3>1 DEF TypeInv, JobInv
    <3>3. Worker!HasRecordedSuccess(e)'
      BY <1>5, <3>1, <3>2
    <3> QED BY <3>1, <3>2, <3>3
  <2> QED BY <2>1 DEF AcknowledgedIsRecorded, Worker!HasRecordedSuccess, Worker!DeliveredAttempts
<1>9. CarriedInv'
  <2> SUFFICES ASSUME NEW e \in Events, e \in enqueued' \/ entry'[e] = "published"
               PROVE  Carried(e)'
    BY DEF CarriedInv
  <2>1. CASE Carried(e)
    <3>1. CASE Worker!HasRecordedSuccess(e)
      BY <1>5, <3>1 DEF Carried
    <3>2. ASSUME NEW m \in MessageIds, messages[m].job = e,
                 messages[m].state \in {"visible", "inflight", "dead"}
          PROVE  Carried(e)'
      <4>1. \/ messages'[m].state \in {"visible", "inflight", "dead"} /\ messages'[m].job = e
            \/ Worker!HasRecordedSuccess(e)'
        BY <1>2, <1>5, <3>2 DEF MessageMove
      <4> QED BY <4>1 DEF Carried, Queue!LiveFor, Queue!DeadFor, Queue!SentFor
    <3> QED BY <2>1, <3>1, <3>2 DEF Carried, Queue!LiveFor, Queue!DeadFor, Queue!SentFor
  <2>2. CASE ~Carried(e)
    <3>1. e \notin enqueued /\ entry[e] # "published"
      BY <2>2 DEF CarriedInv
    <3>2. e \in enqueued'
      BY <1>3, <3>1 DEF OutboxMove
    <3>3. PICK m \in MessageIds : messages'[m].state = "visible" /\ messages'[m].job = e
      BY <1>3, <3>1, <3>2 DEF EnqueueMove
    <3> QED BY <3>3 DEF Carried, Queue!LiveFor, Queue!SentFor
  <2> QED BY <2>1, <2>2
<1>10. AcceptedInv'
  <2> SUFFICES ASSUME NEW e \in Events, entry'[e] = "absent"
               PROVE  /\ \A m \in MessageIds :
                            messages'[m].state # "unsent" => messages'[m].job # e
                      /\ attempts'[e] = {}
    BY DEF AcceptedInv
  <2>1. entry[e] = "absent"
    BY <1>3 DEF OutboxMove, TypeInv, TypeOK, Outbox!EntryState
  <2>2. \A m \in MessageIds : messages'[m].state # "unsent" => messages'[m].job # e
    BY <1>2, <2>1 DEF MessageMove, AcceptedInv, OwnerInv
  <2>3. attempts'[e] = {}
    BY <2>1, AttemptsOfAccepted DEF AcceptedInv
  <2> QED BY <2>2, <2>3
<1> QED BY <1>1, <1>3, <1>6, <1>7, <1>8, <1>9, <1>10

-----------------------------------------------------------------------------
(* The safety properties *)

\* The strengthening of the safety properties is invariant.
THEOREM DeliveryInvariant == Spec => []DeliveryInv
BY InitInv, InvStep, PTL DEF Spec

\* A message is only acknowledged after a success of its event, with the response
\* code, is on record.
THEOREM OnlyRecordedIsAcknowledged == Spec => []AcknowledgedIsRecorded
<1>1. DeliveryInv => AcknowledgedIsRecorded
  BY DEF DeliveryInv
<1> QED BY <1>1, DeliveryInvariant, PTL

\* A published event is on its way, parked in the dead-letter queue, or delivered.
THEOREM NothingIsLost == Spec => []NoEventLost
<1>1. DeliveryInv => NoEventLost
  BY DEF DeliveryInv, CarriedInv, Carried, NoEventLost
<1> QED BY <1>1, DeliveryInvariant, PTL

\* Once an entry is published, it stays so and no further message is sent for it.
THEOREM PublishedForGood == Spec => PublishedIsFinal
<1>1. ASSUME DeliveryInv, [Next]_vars, NEW e \in Events, entry[e] = "published"
      PROVE  entry'[e] = "published" /\ Queue!SentFor(e)' = Queue!SentFor(e)
  <2>1. entry'[e] = "published"
    BY <1>1, OutboxMoves DEF outboxMoves, OutboxMove
  <2>2. owner[e] = NoPublisher
    BY <1>1 DEF DeliveryInv, OwnerInv
  <2>3. ASSUME NEW m \in MessageIds
        PROVE  (messages'[m].state # "unsent" /\ messages'[m].job = e)
               <=> (messages[m].state # "unsent" /\ messages[m].job = e)
    BY <1>1, <2>2, MessagesMove DEF MessageMove
  <2> QED BY <2>1, <2>3 DEF Queue!SentFor
<1>2. DeliveryInv /\ [Next]_vars =>
        [\A e \in Events : entry[e] = "published" =>
            entry'[e] = "published" /\ Queue!SentFor(e)' = Queue!SentFor(e)]_vars
  BY <1>1
<1> QED BY <1>2, DeliveryInvariant, PTL DEF Spec, PublishedIsFinal

(* The refinement of DeliveryPromise *)

\* Initially no event is accepted.
LEMMA PromiseInitially == Init => Promise!PromiseInit
BY DEF Init, Outbox!OutboxInit, StatusOf, Promise!PromiseInit

\* When an event has which status of the promise.
statusCases(e) ==
    /\ StatusOf(e) \in Promise!Status
    /\ StatusOf(e) = "unaccepted" <=> entry[e] = "absent"
    /\ StatusOf(e) = "delivered" <=> Worker!HasRecordedSuccess(e)
    /\ StatusOf(e) = "owed" <=>
            /\ entry[e] # "absent" /\ ~Worker!HasRecordedSuccess(e)
            /\ entry[e] = "pending" \/ Queue!LiveFor(e) # {}
    /\ StatusOf(e) = "parked" <=>
            /\ entry[e] = "published" /\ ~Worker!HasRecordedSuccess(e)
            /\ Queue!LiveFor(e) = {}

\* The invariant decides between the cases.
LEMMA StatusCases == DeliveryInv => \A e \in Events : statusCases(e)
<1> SUFFICES ASSUME DeliveryInv, NEW e \in Events PROVE statusCases(e)
  OBVIOUS
<1>1. entry[e] \in {"absent", "pending", "published"}
  BY DEF DeliveryInv, TypeInv, TypeOK, Outbox!EntryState
<1>2. Worker!HasRecordedSuccess(e) => entry[e] # "absent"
  BY DEF DeliveryInv, AcceptedInv, Worker!HasRecordedSuccess, Worker!DeliveredAttempts
<1>3. entry[e] = "published" =>
        Queue!LiveFor(e) # {} \/ Queue!DeadFor(e) # {} \/ Worker!HasRecordedSuccess(e)
  BY DEF DeliveryInv, CarriedInv, Carried
<1>4. CASE entry[e] = "absent"
  BY <1>2, <1>4 DEF statusCases, StatusOf, Promise!Status
<1>5. CASE entry[e] # "absent" /\ Worker!HasRecordedSuccess(e)
  BY <1>5 DEF statusCases, StatusOf, Promise!Status
<1>6. CASE /\ entry[e] # "absent" /\ ~Worker!HasRecordedSuccess(e)
           /\ entry[e] = "pending" \/ Queue!LiveFor(e) # {}
  BY <1>6 DEF statusCases, StatusOf, Promise!Status
<1>7. CASE /\ entry[e] = "published" /\ ~Worker!HasRecordedSuccess(e)
           /\ Queue!LiveFor(e) = {}
  BY <1>3, <1>7 DEF statusCases, StatusOf, Promise!Status
<1> QED BY <1>1, <1>4, <1>5, <1>6, <1>7

\* The same after a step.
LEMMA StatusCasesNext == DeliveryInv' => \A e \in Events : statusCases(e)'
<1>1. (DeliveryInv => \A e \in Events : statusCases(e))'
  BY StatusCases, PTL
<1> QED BY <1>1

\* Every step moves the status of every event along the promise, or not at all.
LEMMA PromiseMove ==
    ASSUME DeliveryInv, [Next]_vars, NEW e \in Events
    PROVE  \/ StatusOf(e)' = StatusOf(e)
           \/ <<StatusOf(e), StatusOf(e)'>> \in Promise!Transitions
<1>0. DeliveryInv' /\ statusCases(e) /\ statusCases(e)'
  BY InvStep, StatusCases, StatusCasesNext
<1>1. OutboxMove(e) /\ \A m \in MessageIds : MessageMove(m)
  BY OutboxMoves, MessagesMove DEF outboxMoves
<1>2. CASE StatusOf(e) = "unaccepted"
  <2>1. entry[e] = "absent" /\ attempts'[e] = attempts[e]
    BY <1>0, <1>2, AttemptsOfAccepted DEF statusCases
  <2>2. ~Worker!HasRecordedSuccess(e)'
    BY <1>0, <2>1
       DEF DeliveryInv, AcceptedInv, statusCases, Worker!HasRecordedSuccess,
           Worker!DeliveredAttempts
  <2>3. entry'[e] \in {"absent", "pending"}
    BY <1>1, <2>1 DEF OutboxMove
  <2> QED BY <1>0, <1>2, <2>2, <2>3 DEF statusCases, Promise!Transitions
<1>3. CASE StatusOf(e) = "owed"
  <2>1. entry'[e] # "absent"
    BY <1>0, <1>1, <1>3 DEF statusCases, OutboxMove
  <2> QED BY <1>0, <1>3, <2>1 DEF statusCases, Promise!Status, Promise!Transitions
<1>4. CASE StatusOf(e) = "parked"
  <2>1. entry[e] = "published" /\ Queue!LiveFor(e) = {}
    BY <1>0, <1>4 DEF statusCases
  <2>2. entry'[e] = "published" /\ owner[e] = NoPublisher
    BY <1>1, <2>1 DEF OutboxMove, DeliveryInv, OwnerInv
  <2>3. Queue!LiveFor(e)' = {}
    BY <1>1, <2>1, <2>2 DEF MessageMove, Queue!LiveFor, Queue!SentFor
  <2> QED BY <1>0, <1>4, <2>2, <2>3 DEF statusCases, Promise!Status, Promise!Transitions
<1>5. CASE StatusOf(e) = "delivered"
  BY <1>0, <1>5, SuccessStays DEF DeliveryInv, statusCases
<1> QED BY <1>0, <1>2, <1>3, <1>4, <1>5 DEF statusCases, Promise!Status

\* Every step is a step of the promise, or changes no status.
LEMMA PromiseStep ==
    DeliveryInv /\ [Next]_vars => [Promise!PromiseNext]_[e \in Events |-> StatusOf(e)]
<1> SUFFICES ASSUME DeliveryInv, [Next]_vars PROVE Promise!PromiseNext
  OBVIOUS
<1>1. DeliveryInv'
  BY InvStep
<1>2. \A e \in Events : StatusOf(e)' \in Promise!Status
  BY <1>1, StatusCasesNext DEF statusCases
<1> QED BY <1>2, PromiseMove DEF Promise!PromiseNext

\* The detailed delivery keeps the promise of DeliveryPromise: no event is forgotten,
\* none is parked while a message of it can still be received, none settles twice.
THEOREM DeliveryKeepsPromise == Spec => KeepsPromise
BY PromiseInitially, PromiseStep, DeliveryInvariant, PTL
   DEF Spec, KeepsPromise, Promise!PromiseSafety

-----------------------------------------------------------------------------
(* The effect downstream *)

\* The store holds what it has a key for, once; and as long as it has its memory, it has
\* a key for every call that was accepted and for every success on record.
EffectInv ==
    /\ \A e \in Events : receipts[e] = IF e \in keys THEN 1 ELSE 0
    /\ ~restarted =>
         /\ \A e \in Events : Worker!HasRecordedSuccess(e) => e \in keys
         /\ \A w \in Workers :
              loc[w] \in {"recordRead", "recordInsert"} /\ outcome[w] = "delivered" =>
                 Worker!Job(w) \in keys

\* What every step does to the simulator: its receipts go with its keys, and it
\* forgets no key unless it restarts.
simulatorMoves ==
    /\ \A e \in Events : receipts'[e] = IF e \in keys' THEN 1 ELSE 0
    /\ restarted' \/ (keys \subseteq keys' /\ ~restarted)

\* Recording a request keeps receipts and keys together.
LEMMA RecordMoves ==
    ASSUME TypeInv, EffectInv, NEW e \in Events, UNCHANGED restarted,
           Simulator!Record(e) \/ UNCHANGED <<receipts, keys>>
    PROVE  simulatorMoves
BY DEF TypeInv, TypeOK, EffectInv, Simulator!Record, simulatorMoves

\* Every step moves the simulator so.
LEMMA SimulatorMoves ==
    ASSUME TypeInv, EffectInv, [Next]_vars
    PROVE  simulatorMoves
<1>u. UNCHANGED <<receipts, keys, restarted>> => simulatorMoves
  BY DEF EffectInv, simulatorMoves, TypeInv, TypeOK
<1>1. ASSUME NEW e \in Events, Accept(e) \/ ApiStep(e) \/ ApiPublicationFails(e) \/ RecordLate(e)
      PROVE  simulatorMoves
  <2>1. CASE RecordLate(e)
    BY <2>1, RecordMoves DEF RecordLate, Simulator!RecordLate
  <2>2. CASE Accept(e) \/ ApiStep(e) \/ ApiPublicationFails(e)
    BY <1>u, <2>2 DEF Accept, ApiStep, ApiSelect, ApiEnqueue, ApiCommit, ApiPublicationFails,
                      simulatorVars
  <2> QED BY <1>1, <2>1, <2>2
<1>2. ASSUME NEW w \in Workers, WorkerStep(w) \/ WorkerDisturbed(w)
      PROVE  simulatorMoves
  <2>1. CASE CallSucceeds(w) \/ CallUnclassified(w)
    <3>1. Worker!Job(w) \in Events
      BY <2>1, JobOfWorker DEF CallSucceeds, CallUnclassified, Worker!EndCall
    <3> QED BY <2>1, <3>1, RecordMoves DEF CallSucceeds, CallUnclassified
  <2>2. CASE CallRefused(w) \/ CallTimesOut(w) \/ CallLost(w) \/ WorkerGoesDown(w)
    BY <1>u, <2>2 DEF CallRefused, CallTimesOut, CallLost, WorkerGoesDown, simulatorVars
  <2>3. CASE \/ RelaySelect(w) \/ RelayEnqueue(w) \/ RelayCommit(w) \/ RelayFails(w)
             \/ Receive(w) \/ ReceiveNothing(w) \/ WorkerStarts(w)
    BY <1>u, <2>3 DEF RelaySelect, RelayEnqueue, RelayCommit, RelayFails, Receive,
                      ReceiveNothing, WorkerStarts, simulatorVars
  <2>4. CASE \/ TakeMessage(w) \/ RejectInconsistent(w) \/ MessageFails(w)
             \/ ReadLastNumber(w) \/ InsertAttempt(w) \/ Acknowledge(w)
    BY <1>u, <2>4 DEF TakeMessage, RejectInconsistent, MessageFails, ReadLastNumber,
                      InsertAttempt, Acknowledge, simulatorVars
  <2> QED BY <1>2, <2>1, <2>2, <2>3, <2>4 DEF WorkerStep, WorkerDisturbed
<1>3. CASE \/ \E m \in MessageIds : VisibilityTimeout(m) \/ Redrive(m)
           \/ \E m \in Modes : SetMode(m)
           \/ UNCHANGED vars
  BY <1>u, <1>3 DEF VisibilityTimeout, Redrive, SetMode, Simulator!SetMode, vars, simulatorVars
<1>4. CASE RestartSimulator
  BY <1>4 DEF RestartSimulator, Simulator!RestartSimulator, simulatorMoves
<1> QED BY <1>1, <1>2, <1>3, <1>4 DEF Next

\* A success with its code is recorded for a call that was accepted.
LEMMA SuccessMoves ==
    ASSUME TypeInv, [Next]_vars, NEW e \in Events, Worker!HasRecordedSuccess(e)'
    PROVE  \/ Worker!HasRecordedSuccess(e)
           \/ \E w \in Workers :
                loc[w] = "recordInsert" /\ outcome[w] = "delivered" /\ Worker!Job(w) = e
<1> USE DEF Worker!HasRecordedSuccess, Worker!DeliveredAttempts
<1>1. CASE UNCHANGED attempts
  BY <1>1
<1>2. ASSUME NEW w \in Workers, InsertAttempt(w), Worker!InsertRow(w), Worker!Job(w) = e,
             outcome[w] # "delivered", ~Worker!HasRecordedSuccess(e)
      PROVE  FALSE
  <2> DEFINE row == [number |-> number[w], result |-> Worker!RecordedAs(outcome[w]).result,
                     has_code |-> Worker!RecordedAs(outcome[w]).has_code]
  <2>1. attempts'[e] = attempts[e] \cup {row}
    BY <1>2 DEF TypeInv, TypeOK, Worker!InsertRow
  <2>2. PICK a \in attempts'[e] : a.result = "delivered" /\ a.has_code
    OBVIOUS
  <2>3. a = row
    BY <1>2, <2>1, <2>2
  <2>4. row.result = Worker!RecordedAs(outcome[w]).result
        /\ row.has_code = Worker!RecordedAs(outcome[w]).has_code
    OBVIOUS
  <2> HIDE DEF row
  <2>5. outcome[w] \in {"delivered", "http_error"}
    BY <2>2, <2>3, <2>4 DEF Worker!RecordedAs
  <2>6. outcome[w] = "http_error" => row.result = "http_error"
    BY <2>4 DEF Worker!RecordedAs
  <2> QED BY <1>2, <2>2, <2>3, <2>5, <2>6
<1>3. ASSUME NEW w \in Workers, InsertAttempt(w), Worker!InsertRow(w), Worker!Job(w) # e
      PROVE  attempts'[e] = attempts[e]
  BY <1>3 DEF TypeInv, TypeOK, Worker!InsertRow
<1> QED BY <1>1, <1>2, <1>3, AttemptsMove DEF InsertAttempt, Worker!InsertAttempt

\* Every step keeps EffectInv.
LEMMA EffectStep == TypeInv /\ EffectInv /\ [Next]_vars => EffectInv'
<1> SUFFICES ASSUME TypeInv, EffectInv, [Next]_vars PROVE EffectInv'
  OBVIOUS
<1>1. simulatorMoves
  BY SimulatorMoves
<1>2. ASSUME ~restarted' PROVE keys \subseteq keys' /\ ~restarted
  BY <1>1, <1>2 DEF simulatorMoves
<1>3. ASSUME ~restarted', NEW e \in Events, Worker!HasRecordedSuccess(e)'
      PROVE  e \in keys'
  BY <1>2, <1>3, SuccessMoves DEF EffectInv
<1>4. ASSUME ~restarted', NEW w \in Workers,
             loc'[w] \in {"recordRead", "recordInsert"}, outcome'[w] = "delivered"
      PROVE  current'[w].job \in keys'
  BY <1>2, <1>4, WorkersMove DEF workerMoves, CallMove, EffectInv, Worker!Job
<1> QED BY <1>1, <1>3, <1>4 DEF EffectInv, simulatorMoves, Worker!Job

\* The relation between receipts, keys and recorded successes is invariant.
THEOREM EffectInvariant == Spec => []EffectInv
<1>1. Init => EffectInv
  BY DEF Init, Simulator!SimulatorInit, Worker!WorkerInit, EffectInv, Worker!HasRecordedSuccess,
         Worker!DeliveredAttempts
<1> QED BY <1>1, EffectStep, TypesHold, PTL DEF Spec

\* However often an event is sent, posted and retried, the downstream system holds it once,
\* and it holds every event whose success is on record unless it has lost its memory.
THEOREM EffectIsOnce == Spec => []OneEffectPerEvent
<1>1. EffectInv => OneEffectPerEvent
  BY DEF EffectInv, OneEffectPerEvent
<1> QED BY <1>1, EffectInvariant, PTL

-----------------------------------------------------------------------------
(* The numbers of the attempts *)

\* The attempts of an event are finitely many, and the number that a worker is about to
\* insert is 1 or follows the number of a row.
NumberInv ==
    /\ \A e \in Events : IsFiniteSet(attempts[e])
    /\ AttemptsAreNumbered
    /\ \A w \in Workers : loc[w] = "recordInsert" =>
         number[w] = 1 \/ \E a \in attempts[Worker!Job(w)] : number[w] = a.number + 1

\* Adding a row whose number is not taken, and is 1 or follows one that is.
LEMMA AddNumber ==
    ASSUME NEW rows, IsFiniteSet(rows), {a.number : a \in rows} = 1..Cardinality(rows),
           NEW row, row.number = 1 \/ \E a \in rows : row.number = a.number + 1,
           \A a \in rows : a.number # row.number
    PROVE  /\ IsFiniteSet(rows \cup {row})
           /\ {a.number : a \in rows \cup {row}} = 1..Cardinality(rows \cup {row})
<1>1. Cardinality(rows) \in Nat
  BY FS_CardinalityType
<1>2. row \notin rows
  OBVIOUS
<1>3. IsFiniteSet(rows \cup {row}) /\ Cardinality(rows \cup {row}) = Cardinality(rows) + 1
  BY <1>2, FS_AddElement
<1>4. row.number \in 1..(Cardinality(rows) + 1)
  <2>1. \A a \in rows : a.number \in 1..Cardinality(rows)
    OBVIOUS
  <2> QED BY <1>1, <2>1
<1>5. row.number \notin 1..Cardinality(rows)
  OBVIOUS
<1>6. row.number = Cardinality(rows) + 1
  BY <1>1, <1>4, <1>5
<1>7. {a.number : a \in rows \cup {row}} = 1..Cardinality(rows) \cup {Cardinality(rows) + 1}
  BY <1>6
<1> QED BY <1>1, <1>3, <1>7

\* Every step keeps NumberInv.
LEMMA NumberStep == TypeInv /\ NumberInv /\ [Next]_vars => NumberInv'
<1> SUFFICES ASSUME TypeInv, NumberInv, [Next]_vars PROVE NumberInv'
  OBVIOUS
<1>1. ASSUME NEW e \in Events
      PROVE  IsFiniteSet(attempts'[e])
             /\ {a.number : a \in attempts'[e]} = 1..Cardinality(attempts'[e])
  <2>1. IsFiniteSet(attempts[e]) /\ {a.number : a \in attempts[e]} = 1..Cardinality(attempts[e])
    BY DEF NumberInv, AttemptsAreNumbered
  <2>2. CASE attempts'[e] = attempts[e]
    BY <2>1, <2>2
  <2>3. ASSUME NEW w \in Workers, InsertAttempt(w), Worker!InsertRow(w), Worker!Job(w) = e,
               attempts'[e] # attempts[e]
        PROVE  IsFiniteSet(attempts'[e])
               /\ {a.number : a \in attempts'[e]} = 1..Cardinality(attempts'[e])
    <3> DEFINE row == [number |-> number[w], result |-> Worker!RecordedAs(outcome[w]).result,
                       has_code |-> Worker!RecordedAs(outcome[w]).has_code]
    <3>1. attempts'[e] = attempts[e] \cup {row}
      BY <2>3 DEF TypeInv, TypeOK, Worker!InsertRow
    <3>2. loc[w] = "recordInsert" /\ ~Worker!NumberTaken(w)
      BY <2>3 DEF InsertAttempt, Worker!InsertAttempt
    <3>3. row.number = number[w]
      OBVIOUS
    <3>4. row.number = 1 \/ \E a \in attempts[e] : row.number = a.number + 1
      BY <2>3, <3>2, <3>3 DEF NumberInv
    <3>5. \A a \in attempts[e] : a.number # row.number
      BY <2>3, <3>2, <3>3 DEF Worker!NumberTaken
    <3> HIDE DEF row
    <3>6. /\ IsFiniteSet(attempts[e] \cup {row})
          /\ {a.number : a \in attempts[e] \cup {row}} = 1..Cardinality(attempts[e] \cup {row})
      BY <2>1, <3>4, <3>5, AddNumber, Zenon
    <3> QED BY <3>1, <3>6
  <2>4. ASSUME NEW w \in Workers, Worker!InsertRow(w), Worker!Job(w) # e
        PROVE  attempts'[e] = attempts[e]
    BY <2>4 DEF TypeInv, TypeOK, Worker!InsertRow
  <2> QED BY <2>2, <2>3, <2>4, AttemptsMove
<1>2. ASSUME NEW w \in Workers, loc'[w] = "recordInsert"
      PROVE  number'[w] = 1 \/ \E a \in attempts'[current'[w].job] : number'[w] = a.number + 1
  <2>1. number'[w] = 1 \/ \E a \in attempts[current'[w].job] : number'[w] = a.number + 1
    BY <1>2, WorkersMove DEF workerMoves, NumberMove, NumberInv, Worker!Job
  <2>2. current'[w].job \in Events
    BY <1>2, TypeStep, JobOfWorkerNext DEF Worker!Job
  <2> QED BY <2>1, <2>2, AttemptsGrow
<1> QED BY <1>1, <1>2 DEF NumberInv, AttemptsAreNumbered, Worker!Job

\* The attempts of an event are numbered 1, 2, 3, ... whichever workers record them.
THEOREM NumbersAreGapless == Spec => []AttemptsAreNumbered
<1>1. Init => NumberInv
  <2> SUFFICES ASSUME Init PROVE NumberInv
    OBVIOUS
  <2>1. ASSUME NEW e \in Events
        PROVE  attempts[e] = {} /\ IsFiniteSet(attempts[e]) /\ Cardinality(attempts[e]) = 0
    BY FS_EmptySet DEF Init, Worker!WorkerInit
  <2>2. {} = 1..0
    OBVIOUS
  <2>3. AttemptsAreNumbered
    BY <2>1, <2>2 DEF AttemptsAreNumbered
  <2> QED BY <2>1, <2>3 DEF Init, Worker!WorkerInit, NumberInv
<1>2. NumberInv => AttemptsAreNumbered
  BY DEF NumberInv
<1> QED BY <1>1, <1>2, NumberStep, TypesHold, PTL DEF Spec

-----------------------------------------------------------------------------
(* Delivery that nothing disturbs *)

\* A worker that is not processing messages has none.
IdleInv ==
    \A w \in Workers : loc[w] \in {"down", "poll", "relay", "receive"} => batch[w] = {}

\* The event of every message is sent for no other, and not again; the message is received
\* at most once, and then held until it is deleted.
MessageOnce ==
    \A m \in MessageIds :
        /\ messages[m].state # "dead"
        /\ messages[m].state = "visible" => messages[m].receives = 0
        /\ messages[m].state = "inflight" => IsHeld(m)
        /\ messages[m].state # "unsent" =>
             /\ messages[m].job \in enqueued \/ entry[messages[m].job] = "published"
             /\ \A n \in MessageIds \ {m} :
                  messages[n].state # "unsent" => messages[n].job # messages[m].job

\* Every handle is current, and the only one of its message.
HandleOnce ==
    \A w \in Workers : \A h \in batch[w] :
        /\ Queue!IsCurrent(h)
        /\ \A v \in Workers : \A k \in batch[v] : k.message = h.message => v = w /\ k = h

\* Every call succeeds, is recorded as a success, and finds its number free.
CallOnce ==
    /\ mode = "HEALTHY"
    /\ \A e \in Events : \A a \in attempts[e] : a.has_code
    /\ \A w \in Workers :
         /\ loc[w] \in {"recordRead", "recordInsert"} => outcome[w] = "delivered"
         /\ loc[w] = "recordInsert" => \A a \in attempts[Worker!Job(w)] : a.number < number[w]

Calm == MessageOnce /\ HandleOnce /\ CallOnce

CalmInv == IdleInv /\ (disturbances = 0 => Calm)

\* A worker that leaves a message with others to process goes on to the next.
LEMMA IdleStep == TypeInv /\ IdleInv /\ [Next]_vars => IdleInv'
<1> SUFFICES ASSUME TypeInv, IdleInv, [Next]_vars PROVE IdleInv'
  OBVIOUS
<1> USE DEF TypeInv, TypeOK, IdleInv, Worker!WorkerLocation, Worker!Goto
<1>u. UNCHANGED <<loc, batch>> => IdleInv'
  OBVIOUS
<1>1. ASSUME NEW w \in Workers, WorkerStep(w) \/ WorkerDisturbed(w)
      PROVE  IdleInv'
  <2>1. CASE \/ RelaySelect(w) \/ RelayEnqueue(w) \/ RelayCommit(w) \/ RelayFails(w)
             \/ ReceiveNothing(w) \/ WorkerStarts(w)
    <3>1. UNCHANGED batch
      BY <2>1 DEF RelaySelect, RelayEnqueue, RelayCommit, RelayFails, ReceiveNothing,
                  WorkerStarts, workerRest, workerVars
    <3>2. UNCHANGED loc
          \/ /\ loc[w] \in {"down", "poll", "relay", "receive"}
             /\ \E l : loc' = [loc EXCEPT ![w] = l]
      BY <2>1 DEF RelaySelect, RelayEnqueue, RelayCommit, RelayFails, ReceiveNothing,
                  WorkerStarts, workerRest, workerVars
    <3> QED BY <3>1, <3>2
  <2>2. CASE Receive(w)
    BY <2>2 DEF Receive
  <2>3. ASSUME NEW h \in batch[w], Worker!SkipMessage(w, h)
        PROVE  IdleInv'
    BY <2>3 DEF Worker!SkipMessage
  <2>4. ASSUME Worker!Leave(w)
        PROVE  IdleInv'
    BY <2>4 DEF Worker!Leave
  <2>5. CASE TakeMessage(w) \/ ReadLastNumber(w)
    BY <2>5 DEF TakeMessage, Worker!TakeMessage, ReadLastNumber, Worker!ReadLastNumber
  <2>6. CASE InsertAttempt(w)
    BY <2>4, <2>6 DEF InsertAttempt, Worker!InsertAttempt
  <2>7. CASE \/ CallSucceeds(w) \/ CallRefused(w) \/ CallTimesOut(w) \/ CallLost(w)
             \/ CallUnclassified(w)
    BY <2>7 DEF CallSucceeds, CallRefused, CallTimesOut, CallLost, CallUnclassified,
                Worker!EndCall
  <2>8. CASE RejectInconsistent(w) \/ MessageFails(w) \/ Acknowledge(w)
    BY <2>3, <2>4, <2>8 DEF RejectInconsistent, MessageFails, Acknowledge
  <2>9. CASE WorkerGoesDown(w)
    BY <2>9 DEF WorkerGoesDown, Worker!GoDown
  <2> QED BY <1>1, <2>1, <2>2, <2>5, <2>6, <2>7, <2>8, <2>9 DEF WorkerStep, WorkerDisturbed
<1>2. CASE \/ \E e \in Events :
                Accept(e) \/ ApiStep(e) \/ ApiPublicationFails(e) \/ RecordLate(e)
           \/ \E m \in MessageIds : VisibilityTimeout(m) \/ Redrive(m)
           \/ \E m \in Modes : SetMode(m)
           \/ RestartSimulator
           \/ UNCHANGED vars
  <2>1. UNCHANGED workerVars
    BY <1>2 DEF Accept, ApiStep, ApiSelect, ApiEnqueue, ApiCommit, ApiPublicationFails,
                RecordLate, VisibilityTimeout, Redrive, SetMode, RestartSimulator, vars
  <2> QED BY <1>u, <2>1 DEF workerVars
<1> QED BY <1>1, <1>2 DEF Next

\* Two workers that process messages of one event are the same.
LEMMA OneWorkerPerJob ==
    ASSUME TypeInv, ReceiptInv, Calm, NEW v \in Workers, NEW w \in Workers,
           loc[v] \in {"post", "recordRead", "recordInsert", "ack"},
           loc[w] \in {"post", "recordRead", "recordInsert", "ack"},
           Worker!Job(v) = Worker!Job(w)
    PROVE  v = w
<1>1. /\ current[v] \in batch[v] /\ current[v].message \in MessageIds
      /\ current[w] \in batch[w] /\ current[w].message \in MessageIds
  BY JobOfWorker DEF Queue!Receipt
<1>2. current[v].message = current[w].message
  BY <1>1 DEF ReceiptInv, Worker!Job, Calm, MessageOnce
<1> QED BY <1>1, <1>2 DEF Calm, HandleOnce

\* A send is the first for its event.
LEMMA CalmSend ==
    ASSUME DeliveryInv, Calm, NEW p \in Publishers, NEW e \in Events,
           IsNext(e, p), Queue!Send(e), Outbox!MarkEnqueued(e), UNCHANGED batch
    PROVE  MessageOnce' /\ HandleOnce'
<1> USE DEF DeliveryInv, Calm
<1>0. messages \in [MessageIds -> Queue!Message]
  BY DEF TypeInv, TypeOK
<1>1. PICK m \in MessageIds :
        /\ messages[m].state = "unsent"
        /\ messages' = [messages EXCEPT ![m] =
                            [state |-> "visible", job |-> e, receives |-> 0]]
  BY DEF Queue!Send
<1>2. messages'[m].state = "visible" /\ messages'[m].job = e /\ messages'[m].receives = 0
  BY <1>0, <1>1
<1>3. \A n \in MessageIds \ {m} : messages'[n] = messages[n]
  BY <1>0, <1>1
<1>4. e \notin enqueued /\ entry[e] # "published"
  BY NextIsLocked DEF IsNext, Outbox!Unsent, OwnerInv
<1>5. \A n \in MessageIds : messages[n].state # "unsent" => messages[n].job # e
  BY <1>4 DEF MessageOnce
<1>6. HandleOnce'
  <2>1. ASSUME NEW w \in Workers, NEW h \in batch[w]
        PROVE  Queue!IsCurrent(h) /\ messages'[h.message] = messages[h.message]
    <3>1. h.message \in MessageIds /\ Queue!IsCurrent(h)
      BY DEF TypeInv, TypeOK, Queue!Receipt, HandleOnce
    <3>2. h.message # m
      BY <1>1, <3>1 DEF Queue!IsCurrent
    <3> QED BY <1>3, <3>1, <3>2
  <2> QED BY <2>1 DEF HandleOnce, Queue!IsCurrent
<1>7. ASSUME NEW n \in MessageIds
      PROVE  messages[n].state = "inflight" => IsHeld(n)'
  BY <1>1, <1>3 DEF MessageOnce, IsHeld, Queue!IsCurrent
<1>8. enqueued' = enqueued \cup {e} /\ entry' = entry
  BY DEF Outbox!MarkEnqueued
<1>9. MessageOnce'
  <2> SUFFICES ASSUME NEW n \in MessageIds
               PROVE  /\ messages'[n].state # "dead"
                      /\ messages'[n].state = "visible" => messages'[n].receives = 0
                      /\ messages'[n].state = "inflight" => IsHeld(n)'
                      /\ messages'[n].state # "unsent" =>
                           /\ \/ messages'[n].job \in enqueued'
                              \/ entry'[messages'[n].job] = "published"
                           /\ \A k \in MessageIds \ {n} :
                                messages'[k].state # "unsent" => messages'[k].job # messages'[n].job
    BY DEF MessageOnce
  <2>1. CASE n = m
    BY <1>2, <1>3, <1>5, <1>8, <2>1
  <2>2. CASE n # m
    <3>1. messages'[n] = messages[n]
      BY <1>3, <2>2
    <3>2. messages[n].state # "unsent" =>
            /\ messages[n].job # e
            /\ \A k \in MessageIds \ {n} :
                  messages'[k].state # "unsent" => messages'[k].job # messages[n].job
      BY <1>2, <1>3, <1>5 DEF MessageOnce
    <3> QED BY <1>7, <1>8, <3>1, <3>2 DEF MessageOnce
  <2> QED BY <2>1, <2>2
<1> QED BY <1>6, <1>9

\* What is received has not been received before, and nobody holds it.
LEMMA CalmReceive ==
    ASSUME DeliveryInv, IdleInv, Calm, NEW w \in Workers, Receive(w)
    PROVE  MessageOnce' /\ HandleOnce'
<1> USE DEF DeliveryInv, Calm
<1>0. messages \in [MessageIds -> Queue!Message] /\ batch \in [Workers -> SUBSET Queue!Receipt]
  BY DEF TypeInv, TypeOK
<1>1. PICK received \in SUBSET Queue!Receivable :
         /\ Queue!ReceiveBatch(received)
         /\ batch' = [batch EXCEPT ![w] = Queue!ReceiptsOf(received)]
  BY DEF Receive
<1>2. batch[w] = {} /\ batch'[w] = Queue!ReceiptsOf(received)
      /\ \A v \in Workers \ {w} : batch'[v] = batch[v]
  BY <1>0, <1>1 DEF Receive, IdleInv
<1>3. ASSUME NEW m \in received
      PROVE  /\ m \in MessageIds /\ messages[m].state = "visible"
             /\ messages'[m].state = "inflight" /\ messages'[m].job = messages[m].job
             /\ messages'[m].receives = messages[m].receives + 1
  <2>1. m \in MessageIds /\ messages[m].state = "visible" /\ messages[m] \in Queue!Message
    BY <1>0, <1>3 DEF Queue!Receivable, Queue!Visible
  <2>2. messages'[m] = [messages[m] EXCEPT !.state = "inflight", !.receives = @ + 1]
    BY <1>1, <2>1 DEF Queue!ReceiveBatch
  <2> QED BY <2>1, <2>2 DEF Queue!Message
<1>4. \A m \in MessageIds \ received : messages'[m] = messages[m]
  BY <1>1 DEF Queue!ReceiveBatch
<1>5. ASSUME NEW v \in Workers, NEW h \in batch[v]
      PROVE  /\ h.message \in MessageIds \ received
             /\ messages'[h.message] = messages[h.message] /\ Queue!IsCurrent(h)
  <2>1. h.message \in MessageIds /\ Queue!IsCurrent(h)
    BY <1>0 DEF Queue!Receipt, HandleOnce
  <2>2. h.message \notin received
    BY <1>3, <2>1 DEF Queue!IsCurrent
  <2> QED BY <1>4, <2>1, <2>2
<1>6. ASSUME NEW h \in batch'[w]
      PROVE  /\ h.message \in received
             /\ h = [message |-> h.message, receive |-> messages[h.message].receives + 1,
                     job |-> messages[h.message].job]
  BY <1>2, <1>6 DEF Queue!ReceiptsOf
<1>7. ASSUME NEW m \in received
      PROVE  \E h \in batch'[w] : h.message = m /\ h.receive = messages[m].receives + 1
  <2> DEFINE h == [message |-> m, receive |-> messages[m].receives + 1, job |-> messages[m].job]
  <2>1. h \in batch'[w]
    BY <1>2, <1>7 DEF Queue!ReceiptsOf
  <2>2. h.message = m /\ h.receive = messages[m].receives + 1
    OBVIOUS
  <2> QED BY <2>1, <2>2
<1>8. HandleOnce'
  <2>1. ASSUME NEW v \in Workers, NEW h \in batch'[v]
        PROVE  messages'[h.message].state = "inflight" /\ messages'[h.message].receives = h.receive
    <3>1. CASE v = w
      <4>1. h.receive = messages[h.message].receives + 1 /\ h.message \in received
        BY <1>6, <3>1
      <4> QED BY <1>3, <4>1
    <3>2. CASE v # w
      BY <1>2, <1>5, <3>2 DEF Queue!IsCurrent
    <3> QED BY <3>1, <3>2
  <2>2. ASSUME NEW v \in Workers, NEW h \in batch'[v], NEW u \in Workers, NEW k \in batch'[u],
               k.message = h.message
        PROVE  u = v /\ k = h
    <3>1. CASE v = w /\ u = w
      BY <1>6, <2>2, <3>1
    <3>2. CASE v # w /\ u # w
      BY <1>2, <2>2, <3>2 DEF HandleOnce
    <3>3. CASE v # w /\ u = w
      BY <1>2, <1>5, <1>6, <2>2, <3>3
    <3>4. CASE v = w /\ u # w
      BY <1>2, <1>5, <1>6, <2>2, <3>4
    <3> QED BY <3>1, <3>2, <3>3, <3>4
  <2> QED BY <2>1, <2>2 DEF HandleOnce, Queue!IsCurrent
<1>9. ASSUME NEW m \in MessageIds, messages'[m].state = "inflight"
      PROVE  IsHeld(m)'
  <2>1. CASE m \in received
    <3>1. PICK h \in batch'[w] : h.message = m /\ h.receive = messages[m].receives + 1
      BY <1>7, <2>1
    <3> QED BY <1>3, <1>9, <2>1, <3>1 DEF IsHeld, Queue!IsCurrent
  <2>2. CASE m \notin received
    <3>1. PICK v \in Workers : \E h \in batch[v] : h.message = m /\ Queue!IsCurrent(h)
      BY <1>4, <1>9, <2>2 DEF MessageOnce, IsHeld
    <3>2. PICK h \in batch[v] : h.message = m /\ Queue!IsCurrent(h)
      BY <3>1
    <3>3. h \in batch'[v]
      BY <1>2, <3>2
    <3> QED BY <1>4, <2>2, <3>2, <3>3 DEF IsHeld, Queue!IsCurrent
  <2> QED BY <2>1, <2>2
<1>10. ASSUME NEW m \in MessageIds
       PROVE  /\ messages'[m].job = messages[m].job
              /\ messages'[m].state # "dead"
              /\ messages'[m].state = "visible" => messages'[m].receives = 0
              /\ (messages'[m].state = "unsent") <=> (messages[m].state = "unsent")
  BY <1>3, <1>4 DEF MessageOnce
<1>11. UNCHANGED <<entry, enqueued>>
  BY DEF Receive, outboxVars
<1>12. MessageOnce'
  BY <1>9, <1>10, <1>11 DEF MessageOnce
<1> QED BY <1>8, <1>12

\* An acknowledgement deletes the message, which no other handle names.
LEMMA CalmAcknowledge ==
    ASSUME DeliveryInv, Calm, NEW w \in Workers, Acknowledge(w)
    PROVE  MessageOnce' /\ HandleOnce'
<1> USE DEF DeliveryInv, Calm
<1> DEFINE h == current[w]
<1>0. messages \in [MessageIds -> Queue!Message] /\ batch \in [Workers -> SUBSET Queue!Receipt]
  BY DEF TypeInv, TypeOK
<1>1. h \in batch[w] /\ h.message \in MessageIds
  BY JobOfWorker DEF Acknowledge, Queue!Receipt
<1>2. Queue!IsCurrent(h)
  BY <1>1 DEF HandleOnce
<1>3. messages' = [messages EXCEPT ![h.message].state = "deleted"]
  BY <1>2 DEF Acknowledge, Queue!Delete
<1>4. batch' = [batch EXCEPT ![w] = @ \ {h}] /\ UNCHANGED <<entry, enqueued>>
  BY DEF Acknowledge, Worker!Leave, outboxVars
<1>5. messages'[h.message].state = "deleted" /\ messages'[h.message].job = messages[h.message].job
  BY <1>0, <1>1, <1>3 DEF Queue!Message
<1>6. \A m \in MessageIds \ {h.message} : messages'[m] = messages[m]
  BY <1>0, <1>3
<1>7. messages[h.message].state = "inflight"
  BY <1>2 DEF Queue!IsCurrent
<1> HIDE DEF h
<1>8. ASSUME NEW v \in Workers, NEW k \in batch'[v]
      PROVE  /\ k \in batch[v] /\ k.message \in MessageIds \ {h.message}
             /\ messages'[k.message] = messages[k.message]
  <2>1. k \in batch[v] /\ k.message \in MessageIds
    BY <1>0, <1>4 DEF Queue!Receipt
  <2>2. k.message # h.message
    <3>1. SUFFICES ASSUME k.message = h.message PROVE FALSE
      OBVIOUS
    <3>2. v = w /\ k = h
      BY <1>1, <2>1, <3>1 DEF HandleOnce
    <3> QED BY <1>0, <1>4, <3>2
  <2> QED BY <1>6, <2>1, <2>2
<1>9. HandleOnce'
  BY <1>8 DEF HandleOnce, Queue!IsCurrent
<1>10. ASSUME NEW m \in MessageIds, messages'[m].state = "inflight"
       PROVE  IsHeld(m)'
  <2>1. m # h.message
    BY <1>5, <1>10
  <2>2. PICK v \in Workers : \E k \in batch[v] : k.message = m /\ Queue!IsCurrent(k)
    BY <1>6, <1>10, <2>1 DEF MessageOnce, IsHeld
  <2>3. PICK k \in batch[v] : k.message = m /\ Queue!IsCurrent(k)
    BY <2>2
  <2>4. k \in batch'[v]
    BY <1>0, <1>4, <2>1, <2>3
  <2> QED BY <1>6, <2>1, <2>3, <2>4 DEF IsHeld, Queue!IsCurrent
<1>11. ASSUME NEW m \in MessageIds
       PROVE  /\ messages'[m].job = messages[m].job
              /\ messages'[m].state # "dead"
              /\ messages'[m].state = "visible" => messages'[m].receives = 0
              /\ (messages'[m].state = "unsent") <=> (messages[m].state = "unsent")
  BY <1>5, <1>6, <1>7 DEF MessageOnce
<1>12. MessageOnce'
  BY <1>4, <1>10, <1>11 DEF MessageOnce
<1> QED BY <1>9, <1>12

\* Other steps leave the messages and their handles alone.
LEMMA CalmQueue ==
    ASSUME Calm, JobInv, UNCHANGED <<messages, batch>>,
           \A e \in Events : e \in enqueued \/ entry[e] = "published"
                                => e \in enqueued' \/ entry'[e] = "published"
    PROVE  MessageOnce' /\ HandleOnce'
<1>1. \A m \in MessageIds : IsHeld(m)' <=> IsHeld(m)
  BY DEF IsHeld, Queue!IsCurrent
<1>2. HandleOnce'
  BY DEF Calm, HandleOnce, Queue!IsCurrent
<1>3. MessageOnce'
  BY <1>1 DEF Calm, MessageOnce, JobInv
<1> QED BY <1>2, <1>3

\* A step that is no disturbance, of a system that nothing has disturbed, is one of these.
CalmNext ==
    \/ \E e \in Events : Accept(e) \/ ApiStep(e) \/ RecordLate(e)
    \/ \E w \in Workers :
         \/ RelaySelect(w) \/ RelayEnqueue(w) \/ RelayCommit(w)
         \/ Receive(w) \/ ReceiveNothing(w) \/ TakeMessage(w)
         \/ CallSucceeds(w) \/ ReadLastNumber(w) \/ InsertAttempt(w) \/ Acknowledge(w)
         \/ WorkerStarts(w)
    \/ UNCHANGED vars

\* Nothing times out, is redriven, refused or rejected.
LEMMA CalmSteps ==
    ASSUME TypeInv, Calm, [Next]_vars, Undisturbed
    PROVE  CalmNext
<1> USE DEF TypeInv, TypeOK, Calm
<1>0. ~Disturb
  BY MaxDisturbancesAssumption DEF Disturb, Undisturbed
<1>1. ASSUME NEW e \in Events, ApiPublicationFails(e)
      PROVE  FALSE
  BY <1>0, <1>1 DEF ApiPublicationFails
<1>2. ASSUME NEW w \in Workers, WorkerDisturbed(w)
      PROVE  FALSE
  BY <1>0, <1>2 DEF WorkerDisturbed, RelayFails, CallLost, CallUnclassified, MessageFails,
                    WorkerGoesDown
<1>3. ASSUME NEW w \in Workers, CallRefused(w) \/ CallTimesOut(w)
      PROVE  FALSE
  BY <1>3 DEF CallRefused, CallTimesOut, CallOnce, Simulator!RefusingModes
<1>4. ASSUME NEW w \in Workers, RejectInconsistent(w)
      PROVE  FALSE
  <2>1. PICK h \in batch[w] : Worker!RecordedDelivery(h.job) = "inconsistent"
    BY <1>4 DEF RejectInconsistent
  <2>2. h.job \in Events
    BY DEF Queue!Receipt
  <2>3. \A a \in attempts[h.job] : a.has_code
    BY <2>2 DEF CallOnce
  <2>4. Worker!RecordedDelivery(h.job) \in {"none", "recorded"}
    BY <2>3 DEF Worker!RecordedDelivery, Worker!DeliveredAttempts
  <2> QED BY <2>1, <2>4
<1>5. ASSUME NEW m \in MessageIds, VisibilityTimeout(m)
      PROVE  FALSE
  BY <1>0, <1>5 DEF VisibilityTimeout, Queue!BecomeVisible, MessageOnce
<1>6. ASSUME NEW m \in MessageIds, Redrive(m)
      PROVE  FALSE
  BY <1>6, MaxReceiveCountAssumption
     DEF Redrive, Queue!Redrive, Queue!Receivable, Queue!Visible, MessageOnce
<1>7. ASSUME NEW m \in Modes, SetMode(m)
      PROVE  FALSE
  BY <1>0, <1>7 DEF SetMode, Simulator!SetMode, CallOnce
<1>8. ~RestartSimulator
  BY <1>0 DEF RestartSimulator
<1> QED BY <1>1, <1>2, <1>3, <1>4, <1>5, <1>6, <1>7, <1>8 DEF Next, WorkerStep, CalmNext

\* What was sent stays marked, or is published: no transaction is rolled back.
LEMMA CalmOutbox ==
    ASSUME DeliveryInv, CalmNext, NEW e \in Events, e \in enqueued \/ entry[e] = "published"
    PROVE  e \in enqueued' \/ entry'[e] = "published"
<1> USE DEF DeliveryInv, TypeInv, TypeOK
<1>1. UNCHANGED outboxVars => e \in enqueued' \/ entry'[e] = "published"
  BY DEF outboxVars
<1>2. ASSUME NEW p, Outbox!CommitPublication(p)
      PROVE  e \in enqueued' \/ entry'[e] = "published"
  BY <1>2 DEF Outbox!CommitPublication, Outbox!EndTransaction, Outbox!LockedBy
<1>3. ASSUME NEW f \in Events, Outbox!InsertEntry(f) \/ Outbox!MarkEnqueued(f)
      PROVE  e \in enqueued' \/ entry'[e] = "published"
  BY <1>3 DEF Outbox!InsertEntry, Outbox!MarkEnqueued
<1>4. ASSUME NEW p, NEW rows, Outbox!LockRows(p, rows)
      PROVE  e \in enqueued' \/ entry'[e] = "published"
  BY <1>4 DEF Outbox!LockRows
<1>5. ASSUME NEW f \in Events, Accept(f) \/ ApiStep(f) \/ RecordLate(f)
      PROVE  e \in enqueued' \/ entry'[e] = "published"
  BY <1>1, <1>2, <1>3, <1>4, <1>5
     DEF Accept, ApiStep, ApiSelect, ApiEnqueue, ApiCommit, RecordLate
<1>6. ASSUME NEW w \in Workers,
             \/ RelaySelect(w) \/ RelayEnqueue(w) \/ RelayCommit(w)
             \/ Receive(w) \/ ReceiveNothing(w) \/ TakeMessage(w)
             \/ CallSucceeds(w) \/ ReadLastNumber(w) \/ InsertAttempt(w) \/ Acknowledge(w)
             \/ WorkerStarts(w)
      PROVE  e \in enqueued' \/ entry'[e] = "published"
  BY <1>1, <1>2, <1>3, <1>4, <1>6
     DEF RelaySelect, RelayEnqueue, RelayCommit, Receive, ReceiveNothing, TakeMessage,
         CallSucceeds, ReadLastNumber, InsertAttempt, Acknowledge, WorkerStarts
<1> QED BY <1>1, <1>5, <1>6 DEF CalmNext, vars

\* A worker whose attempt is the only one being recorded finds its number free.
LEMMA CalmInsert ==
    ASSUME DeliveryInv, Calm, NEW w \in Workers, InsertAttempt(w)
    PROVE  /\ Worker!InsertRow(w) /\ outcome[w] = "delivered"
           /\ Worker!Goto(w, "ack") /\ UNCHANGED <<batch, current, outcome, number>>
           /\ Worker!Job(w) \in Events
<1>1. loc[w] = "recordInsert" /\ Worker!Job(w) \in Events
  BY JobOfWorker DEF DeliveryInv, InsertAttempt, Worker!InsertAttempt
<1>2. outcome[w] = "delivered" /\ \A a \in attempts[Worker!Job(w)] : a.number < number[w]
  BY <1>1 DEF Calm, CallOnce
<1>3. \A a \in attempts[Worker!Job(w)] : a.number \in Nat
  BY <1>1 DEF DeliveryInv, TypeInv, TypeOK, Worker!Attempt
<1>4. ~Worker!NumberTaken(w)
  BY <1>2, <1>3 DEF Worker!NumberTaken, DeliveryInv, TypeInv, TypeOK
<1> QED BY <1>1, <1>2, <1>4 DEF InsertAttempt, Worker!InsertAttempt

\* A system that nothing disturbs stays calm.
LEMMA CalmQueueStep ==
    ASSUME DeliveryInv, IdleInv, Calm, CalmNext
    PROVE  MessageOnce' /\ HandleOnce'
<1> USE DEF Publishers
<1>0. ASSUME UNCHANGED <<messages, batch>> PROVE MessageOnce' /\ HandleOnce'
  BY <1>0, CalmOutbox, CalmQueue DEF DeliveryInv, TypeInv
<1>1. ASSUME NEW e \in Events, Accept(e) \/ ApiStep(e) \/ RecordLate(e)
      PROVE  MessageOnce' /\ HandleOnce'
  <2>1. UNCHANGED batch
    BY <1>1 DEF Accept, ApiStep, ApiSelect, ApiEnqueue, ApiCommit, RecordLate, workerVars
  <2>2. CASE ApiEnqueue(e)
    BY <2>1, <2>2, CalmSend DEF ApiEnqueue
  <2>3. CASE Accept(e) \/ ApiSelect(e) \/ ApiCommit(e) \/ RecordLate(e)
    BY <1>0, <2>1, <2>3 DEF Accept, ApiSelect, ApiCommit, RecordLate
  <2> QED BY <1>1, <2>2, <2>3 DEF ApiStep
<1>2. ASSUME NEW w \in Workers, RelayEnqueue(w)
      PROVE  MessageOnce' /\ HandleOnce'
  BY <1>2, CalmSend DEF RelayEnqueue, workerVars
<1>3. ASSUME NEW w \in Workers, InsertAttempt(w)
      PROVE  MessageOnce' /\ HandleOnce'
  BY <1>0, <1>3, CalmInsert DEF InsertAttempt
<1>4. ASSUME NEW w \in Workers,
             \/ RelaySelect(w) \/ RelayCommit(w) \/ ReceiveNothing(w) \/ TakeMessage(w)
             \/ CallSucceeds(w) \/ ReadLastNumber(w) \/ WorkerStarts(w)
      PROVE  MessageOnce' /\ HandleOnce'
  BY <1>0, <1>4
     DEF RelaySelect, RelayCommit, ReceiveNothing, TakeMessage, CallSucceeds, ReadLastNumber,
         WorkerStarts, workerRest, Worker!TakeMessage, Worker!EndCall, Worker!ReadLastNumber
<1>5. CASE UNCHANGED vars
  BY <1>0, <1>5 DEF vars, workerVars
<1> QED BY <1>1, <1>2, <1>3, <1>4, <1>5, CalmReceive, CalmAcknowledge DEF CalmNext

\* Neither do calls fail or collide.
LEMMA CalmCallStep ==
    ASSUME DeliveryInv, Calm, CalmNext
    PROVE  CallOnce'
<1> USE DEF DeliveryInv, TypeInv, TypeOK
<1>0. mode' = "HEALTHY"
  BY DEF Calm, CallOnce, CalmNext, vars, simulatorVars, Accept, ApiStep, ApiSelect, ApiEnqueue,
         ApiCommit, RecordLate, Simulator!RecordLate, RelaySelect, RelayEnqueue, RelayCommit,
         Receive, ReceiveNothing, TakeMessage, CallSucceeds, ReadLastNumber, InsertAttempt,
         Acknowledge, WorkerStarts
<1>1. ASSUME UNCHANGED <<current, outcome, number, attempts>>,
             \A w \in Workers : loc'[w] \in {"recordRead", "recordInsert"} => loc'[w] = loc[w]
      PROVE  CallOnce'
  BY <1>0, <1>1 DEF Calm, CallOnce, Worker!Job
<1>2. ASSUME NEW e \in Events, Accept(e) \/ ApiStep(e) \/ RecordLate(e)
      PROVE  CallOnce'
  BY <1>1, <1>2 DEF Accept, ApiStep, ApiSelect, ApiEnqueue, ApiCommit, RecordLate, workerVars
<1>3. ASSUME NEW w \in Workers,
             \/ RelaySelect(w) \/ RelayEnqueue(w) \/ RelayCommit(w)
             \/ Receive(w) \/ ReceiveNothing(w) \/ WorkerStarts(w)
      PROVE  CallOnce'
  <2>1. UNCHANGED <<current, outcome, number, attempts>>
    BY <1>3 DEF RelaySelect, RelayEnqueue, RelayCommit, Receive, ReceiveNothing, WorkerStarts,
                workerRest, workerVars
  <2>2. loc' = loc
        \/ \E l \in {"poll", "relay", "receive", "next"} : loc' = [loc EXCEPT ![w] = l]
    BY <1>3 DEF RelaySelect, RelayEnqueue, RelayCommit, Receive, ReceiveNothing, WorkerStarts,
                Worker!Goto, workerVars
  <2> QED BY <1>1, <2>1, <2>2
<1>4. ASSUME NEW w \in Workers, TakeMessage(w)
      PROVE  CallOnce'
  BY <1>0, <1>4 DEF TakeMessage, Worker!TakeMessage, Worker!Goto, Calm, CallOnce, Worker!Job
<1>5. ASSUME NEW w \in Workers, CallSucceeds(w)
      PROVE  CallOnce'
  BY <1>0, <1>5 DEF CallSucceeds, Worker!EndCall, Worker!Goto, Calm, CallOnce, Worker!Job
<1>6. ASSUME NEW w \in Workers, ReadLastNumber(w)
      PROVE  CallOnce'
  <2>1. Worker!Job(w) \in Events /\ loc[w] = "recordRead" /\ outcome[w] = "delivered"
    BY <1>6, JobOfWorker DEF ReadLastNumber, Worker!ReadLastNumber, Calm, CallOnce
  <2>2. PICK n \in {0} \cup {a.number : a \in attempts[Worker!Job(w)]} :
           Worker!IsLastNumber(n, Worker!Job(w)) /\ number' = [number EXCEPT ![w] = n + 1]
    BY <1>6 DEF ReadLastNumber, Worker!ReadLastNumber
  <2>3. \A a \in attempts[Worker!Job(w)] : a.number \in Nat
    BY <2>1 DEF Worker!Attempt
  <2>4. n \in Nat
    BY <2>2, <2>3
  <2>5. \A a \in attempts[Worker!Job(w)] : a.number < number'[w]
    BY <2>2, <2>3, <2>4 DEF Worker!IsLastNumber
  <2>6. \A v \in Workers \ {w} : number'[v] = number[v] /\ loc'[v] = loc[v]
    BY <1>6, <2>2 DEF ReadLastNumber, Worker!ReadLastNumber, Worker!Goto
  <2>7. UNCHANGED <<current, outcome, attempts>>
    BY <1>6 DEF ReadLastNumber, Worker!ReadLastNumber
  <2> QED BY <1>0, <2>1, <2>5, <2>6, <2>7 DEF Calm, CallOnce, Worker!Job
<1>7. ASSUME NEW w \in Workers, InsertAttempt(w)
      PROVE  CallOnce'
  <2>1. /\ Worker!InsertRow(w) /\ outcome[w] = "delivered" /\ Worker!Job(w) \in Events
        /\ loc' = [loc EXCEPT ![w] = "ack"] /\ UNCHANGED <<batch, current, outcome, number>>
        /\ loc[w] = "recordInsert"
    BY <1>7, CalmInsert DEF Worker!Goto, InsertAttempt, Worker!InsertAttempt
  <2> DEFINE row == [number |-> number[w], result |-> Worker!RecordedAs(outcome[w]).result,
                     has_code |-> Worker!RecordedAs(outcome[w]).has_code]
  <2>2. attempts' = [attempts EXCEPT ![Worker!Job(w)] = @ \cup {row}]
    BY <2>1 DEF Worker!InsertRow
  <2>3. row.has_code
    BY <2>1 DEF Worker!RecordedAs
  <2> HIDE DEF row
  <2>4. \A e \in Events : \A a \in attempts'[e] : a.has_code
    BY <2>1, <2>2, <2>3 DEF Calm, CallOnce
  <2>5. ASSUME NEW v \in Workers, loc'[v] \in {"recordRead", "recordInsert"}
        PROVE  /\ v # w /\ loc'[v] = loc[v]
               /\ Worker!Job(v) # Worker!Job(w) /\ Worker!Job(v) \in Events
    <3>1. v # w /\ loc'[v] = loc[v]
      BY <2>1, <2>5
    <3> QED BY <2>1, <2>5, <3>1, OneWorkerPerJob, JobOfWorker
  <2>6. ASSUME NEW v \in Workers, loc'[v] = "recordInsert"
        PROVE  attempts'[Worker!Job(v)] = attempts[Worker!Job(v)]
    BY <2>1, <2>2, <2>5, <2>6
  <2> QED BY <1>0, <2>1, <2>4, <2>5, <2>6 DEF Calm, CallOnce, Worker!Job
<1>8. ASSUME NEW w \in Workers, Acknowledge(w)
      PROVE  CallOnce'
  BY <1>0, <1>8 DEF Acknowledge, Worker!Leave, Worker!Goto, Calm, CallOnce, Worker!Job
<1>9. CASE UNCHANGED vars
  BY <1>1, <1>9 DEF vars, workerVars
<1> QED BY <1>2, <1>3, <1>4, <1>5, <1>6, <1>7, <1>8, <1>9 DEF CalmNext

\* As long as nothing is disturbed every step keeps the system calm.
LEMMA CalmStep == DeliveryInv /\ CalmInv /\ [Next]_vars => CalmInv'
<1> SUFFICES ASSUME DeliveryInv, CalmInv, [Next]_vars PROVE CalmInv'
  OBVIOUS
<1>1. IdleInv'
  BY IdleStep DEF DeliveryInv, CalmInv
<1>2. ASSUME disturbances' = 0
      PROVE  Calm'
  <2>1. Disturb \/ Undisturbed
    BY DEF Next, vars, Undisturbed, Accept, ApiStep, ApiSelect, ApiEnqueue, ApiCommit,
           ApiPublicationFails, RecordLate, WorkerStep, WorkerDisturbed, RelaySelect,
           RelayEnqueue, RelayCommit, RelayFails, Receive, ReceiveNothing, TakeMessage,
           RejectInconsistent, CallSucceeds, CallRefused, CallTimesOut, CallLost,
           CallUnclassified, ReadLastNumber, InsertAttempt, Acknowledge, MessageFails,
           WorkerGoesDown, WorkerStarts, VisibilityTimeout, Redrive, SetMode, RestartSimulator
  <2>2. Undisturbed /\ disturbances = 0
    BY <1>2, <2>1, MaxDisturbancesAssumption DEF Disturb, Undisturbed, DeliveryInv, TypeInv, TypeOK
  <2>3. Calm /\ CalmNext
    BY <2>2, CalmSteps DEF CalmInv, DeliveryInv
  <2> QED BY <2>3, CalmQueueStep, CalmCallStep DEF CalmInv, Calm
<1> QED BY <1>1, <1>2 DEF CalmInv

\* Unless something failed, no event is sent twice, whether the request handler or a relay
\* published it, and none is dead-lettered.
THEOREM UndisturbedDelivery == Spec => []UndisturbedIsExactlyOnce
<1>1. Init => CalmInv
  BY DEF Init, Worker!WorkerInit, Queue!QueueInit, Queue!UnsentMessage, Simulator!SimulatorInit,
         CalmInv, IdleInv, Calm, MessageOnce, HandleOnce, CallOnce
<1>2. ASSUME CalmInv
      PROVE  UndisturbedIsExactlyOnce
  <2> SUFFICES ASSUME disturbances = 0, NEW e \in Events
               PROVE  Cardinality(Queue!SentFor(e)) <= 1 /\ Queue!DeadFor(e) = {}
    BY DEF UndisturbedIsExactlyOnce
  <2>1. MessageOnce
    BY <1>2 DEF CalmInv, Calm
  <2>2. Queue!DeadFor(e) = {}
    BY <2>1 DEF MessageOnce, Queue!DeadFor, Queue!SentFor
  <2>3. CASE Queue!SentFor(e) = {}
    BY <2>2, <2>3, FS_EmptySet
  <2>4. ASSUME NEW m \in Queue!SentFor(e)
        PROVE  Queue!SentFor(e) = {m}
    BY <2>1, <2>4 DEF MessageOnce, Queue!SentFor
  <2> QED BY <2>2, <2>3, <2>4, FS_Singleton
<1> QED BY <1>1, <1>2, CalmStep, DeliveryInvariant, PTL DEF Spec

=============================================================================
