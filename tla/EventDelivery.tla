--------------------------- MODULE EventDelivery ---------------------------
(***************************************************************************)
(* From the accepted event to the downstream system: the outbox, the       *)
(* queue, the workers and the simulator together.  An event enters with    *)
(* the commit of its ingestion transaction (module EventIngestion); the    *)
(* request handler then tries to publish its outbox row at once.           *)
(*                                                                         *)
(* Everything that disturbs the normal course (a process that stops, a     *)
(* call that fails, a message that becomes visible while it is being       *)
(* processed, an operator who changes the simulator mode) is counted, so   *)
(* that the instances are finite and liveness is asked of a system that    *)
(* is eventually left alone.                                               *)
(***************************************************************************)
EXTENDS Naturals, FiniteSets

CONSTANTS
    Events,             \* accepted events, numbered by created_at
    Workers,            \* worker processes
    MessageIds,         \* bound: messages ever sent
    MaxReceiveCount,    \* redrive policy of the source queue
    BatchSize,          \* settings.sqs_max_messages: relay and receive batches
    Modes,              \* simulator modes the operator selects
    MaxDisturbances,    \* bound: disturbances in a behaviour
    NoPublisher, NoMessage

VARIABLES
    entry, owner, enqueued,                             \* DeliveryOutbox
    messages,                                           \* DeliveryQueue
    loc, batch, current, outcome, number, attempts,     \* DownstreamWorker
    mode, receipts, keys, sleeping,                     \* DownstreamSimulator
    handler,        \* the API's publication of each event
    restarted,      \* has the simulator lost its memory?
    disturbances

\* A publishing transaction belongs to a worker or to the request handler of
\* one event; the handler is named by its event.
Publishers == Workers \cup Events

Outbox == INSTANCE DeliveryOutbox
Queue == INSTANCE DeliveryQueue
Worker == INSTANCE DownstreamWorker
Simulator == INSTANCE DownstreamSimulator

ASSUME EventsAssumption == Events \subseteq Nat
ASSUME WorkersAssumption == Workers \cap Events = {}
ASSUME NoPublisherAssumption == NoPublisher \notin Publishers
ASSUME MaxReceiveCountAssumption == MaxReceiveCount \in Nat \ {0}
ASSUME BatchSizeAssumption == BatchSize \in Nat \ {0}
ASSUME ModesAssumption == Modes \subseteq Simulator!SimulatorMode
ASSUME MaxDisturbancesAssumption == MaxDisturbances \in Nat

outboxVars == <<entry, owner, enqueued>>
workerVars == <<loc, batch, current, outcome, number, attempts>>
simulatorVars == <<mode, receipts, keys, sleeping, restarted>>
vars == <<outboxVars, messages, workerVars, simulatorVars, handler, disturbances>>

HandlerState == {"idle", "publish", "sending", "finished"}

Init ==
    /\ Outbox!OutboxInit
    /\ Queue!QueueInit
    /\ Worker!WorkerInit
    /\ Simulator!SimulatorInit
    /\ handler = [e \in Events |-> "idle"]
    /\ restarted = FALSE
    /\ disturbances = 0

Disturb ==
    /\ disturbances < MaxDisturbances
    /\ disturbances' = disturbances + 1

Undisturbed == UNCHANGED disturbances

\* The entry that publisher p sends next.
IsNext(e, p) == e \in Outbox!Unsent(p) /\ \A f \in Outbox!Unsent(p) : e <= f

\* An enqueue call that raises may have stored the message all the same.
SendAmbiguously(p) ==
    \/ UNCHANGED messages
    \/ \E e \in Events : IsNext(e, p) /\ Queue!Send(e)

-----------------------------------------------------------------------------
(* The API: ingest_partner_event from the commit of persist_event on *)

HandlerGoto(e, s) == handler' = [handler EXCEPT ![e] = s]

Accept(e) ==
    /\ Outbox!InsertEntry(e)
    /\ HandlerGoto(e, "publish")
    /\ Undisturbed
    /\ UNCHANGED <<messages, workerVars, simulatorVars>>

\* Variant that does not ask whether the entry is published already.
ApiSelectUnconditional(e) ==
    /\ handler[e] = "publish"
    /\ IF owner[e] = NoPublisher
       THEN Outbox!LockRows(e, {e}) /\ HandlerGoto(e, "sending")
       ELSE UNCHANGED outboxVars /\ HandlerGoto(e, "finished")
    /\ Undisturbed
    /\ UNCHANGED <<messages, workerVars, simulatorVars>>

\* publish_delivery_outbox_entry: an entry that is published or locked by a
\* relay is left alone.
ApiSelect(e) ==
    /\ handler[e] = "publish"
    /\ IF e \in Outbox!PendingUnlocked
       THEN Outbox!LockRows(e, {e}) /\ HandlerGoto(e, "sending")
       ELSE UNCHANGED outboxVars /\ HandlerGoto(e, "finished")
    /\ Undisturbed
    /\ UNCHANGED <<messages, workerVars, simulatorVars>>

ApiEnqueue(e) ==
    /\ handler[e] = "sending"
    /\ IsNext(e, e)
    /\ Queue!Send(e)
    /\ Outbox!MarkEnqueued(e)
    /\ Undisturbed
    /\ UNCHANGED <<workerVars, simulatorVars, handler>>

ApiCommit(e) ==
    /\ handler[e] = "sending"
    /\ Outbox!CommitPublication(e)
    /\ HandlerGoto(e, "finished")
    /\ Undisturbed
    /\ UNCHANGED <<messages, workerVars, simulatorVars>>

\* The queue or the database fails, which the handler only logs, or the API
\* process ends: the row stays pending in each case.
ApiPublicationFails(e) ==
    /\ handler[e] \in {"publish", "sending"}
    /\ Disturb
    /\ Outbox!RollbackPublication(e)
    /\ SendAmbiguously(e)
    /\ HandlerGoto(e, "finished")
    /\ UNCHANGED <<workerVars, simulatorVars>>

-----------------------------------------------------------------------------
(* The worker loop: run_worker *)

workerRest == <<batch, current, outcome, number, attempts>>

\* publish_pending_delivery_jobs selects and locks its batch.
RelaySelect(w) ==
    LET rows == Outbox!Oldest(Outbox!PendingUnlocked, BatchSize) IN
    /\ loc[w] = "poll"
    /\ Outbox!LockRows(w, rows)
    /\ Worker!Goto(w, IF rows = {} THEN "receive" ELSE "relay")
    /\ Undisturbed
    /\ UNCHANGED <<messages, workerRest, simulatorVars, handler>>

RelayEnqueue(w) ==
    /\ loc[w] = "relay"
    /\ \E e \in Events : IsNext(e, w) /\ Queue!Send(e) /\ Outbox!MarkEnqueued(e)
    /\ Undisturbed
    /\ UNCHANGED <<workerVars, simulatorVars, handler>>

RelayCommit(w) ==
    /\ loc[w] = "relay"
    /\ Outbox!CommitPublication(w)
    /\ Worker!Goto(w, "receive")
    /\ Undisturbed
    /\ UNCHANGED <<messages, workerRest, simulatorVars, handler>>

\* A failed enqueue or commit rolls the whole batch back, is logged, and the
\* loop goes on to receive.
RelayFails(w) ==
    /\ loc[w] = "relay"
    /\ Disturb
    /\ Outbox!RollbackPublication(w)
    /\ SendAmbiguously(w)
    /\ Worker!Goto(w, "receive")
    /\ UNCHANGED <<workerRest, simulatorVars, handler>>

\* A long poll returns some of the receivable messages.
Receive(w) ==
    /\ loc[w] = "receive"
    /\ \E received \in SUBSET Queue!Receivable :
         /\ received # {}
         /\ Cardinality(received) <= BatchSize
         /\ Queue!ReceiveBatch(received)
         /\ batch' = [batch EXCEPT ![w] = Queue!ReceiptsOf(received)]
    /\ Worker!Goto(w, "next")
    /\ Undisturbed
    /\ UNCHANGED <<outboxVars, current, outcome, number, attempts, simulatorVars, handler>>

ReceiveNothing(w) ==
    /\ loc[w] = "receive"
    /\ Queue!Receivable = {}
    /\ Worker!Goto(w, "poll")
    /\ Undisturbed
    /\ UNCHANGED <<outboxVars, messages, workerRest, simulatorVars, handler>>

\* process_worker_batch takes its messages in the order of the response, which
\* SQS leaves open.
TakeMessage(w) ==
    /\ \E h \in batch[w] : Worker!TakeMessage(w, h)
    /\ Undisturbed
    /\ UNCHANGED <<outboxVars, messages, simulatorVars, handler>>

\* The recorded success has no response code, so the message fails.
RejectInconsistent(w) ==
    /\ \E h \in batch[w] :
         /\ Worker!RecordedDelivery(h.job) = "inconsistent"
         /\ Worker!SkipMessage(w, h)
    /\ Undisturbed
    /\ UNCHANGED <<outboxVars, messages, simulatorVars, handler>>

-----------------------------------------------------------------------------
(* The HTTP call: deliver_normalized_event against receive_event *)

\* The event is recorded, or recognised by its key, and answered in time.
CallSucceeds(w) ==
    /\ Worker!EndCall(w, "delivered")
    /\ mode \in {"HEALTHY", "SLOW"}
    /\ Simulator!Record(Worker!Job(w))
    /\ Undisturbed
    /\ UNCHANGED <<outboxVars, messages, mode, sleeping, restarted, handler>>

CallRefused(w) ==
    /\ Worker!EndCall(w, "http_error")
    /\ mode \in Simulator!RefusingModes
    /\ Undisturbed
    /\ UNCHANGED <<outboxVars, messages, simulatorVars, handler>>

\* TIMEOUT delays the record beyond the client's timeout.
CallTimesOut(w) ==
    /\ Worker!EndCall(w, "transport_error")
    /\ mode = "TIMEOUT"
    /\ sleeping' = sleeping \cup {Worker!Job(w)}
    /\ Undisturbed
    /\ UNCHANGED <<outboxVars, messages, mode, receipts, keys, restarted, handler>>

\* The connection fails before the request arrives, or after: a request that
\* arrives is recorded or refused although nobody waits for the answer.
CallLost(w) ==
    /\ Worker!EndCall(w, "transport_error")
    /\ Disturb
    /\ sleeping' \in {sleeping} \cup
            (IF mode \in Simulator!RefusingModes THEN {} ELSE {sleeping \cup {Worker!Job(w)}})
    /\ UNCHANGED <<outboxVars, messages, mode, receipts, keys, restarted, handler>>

\* The request is handled and its response cannot be decoded.
CallUnclassified(w) ==
    /\ Worker!EndCall(w, "unclassified")
    /\ Disturb
    /\ IF mode \in {"HEALTHY", "SLOW"}
       THEN Simulator!Record(Worker!Job(w))
       ELSE mode \in Simulator!RefusingModes /\ UNCHANGED <<receipts, keys>>
    /\ UNCHANGED <<outboxVars, messages, mode, sleeping, restarted, handler>>

-----------------------------------------------------------------------------
(* Recording the attempt and acknowledging the message *)

ReadLastNumber(w) ==
    /\ Worker!ReadLastNumber(w)
    /\ Undisturbed
    /\ UNCHANGED <<outboxVars, messages, simulatorVars, handler>>

InsertAttempt(w) ==
    /\ Worker!InsertAttempt(w)
    /\ Undisturbed
    /\ UNCHANGED <<outboxVars, messages, simulatorVars, handler>>

Acknowledge(w) ==
    /\ loc[w] = "ack"
    /\ Queue!Delete(current[w])
    /\ Worker!Leave(w)
    /\ Undisturbed
    /\ UNCHANGED <<outboxVars, attempts, simulatorVars, handler>>

\* The database or the queue fails while a message is processed; the message
\* stays unacknowledged and the worker goes on.
MessageFails(w) ==
    /\ Disturb
    /\ \/ /\ loc[w] \in {"recordRead", "recordInsert", "ack"}
          /\ Worker!Leave(w)
          /\ UNCHANGED attempts
       \/ \E h \in batch[w] : Worker!SkipMessage(w, h)
    /\ UNCHANGED <<outboxVars, messages, simulatorVars, handler>>

-----------------------------------------------------------------------------
(* Processes that end and start, and the services around them *)

\* A crash anywhere in the loop, a receive error, or a requested stop; an open
\* publishing transaction is rolled back, and a call in flight may arrive.
WorkerGoesDown(w) ==
    /\ loc[w] # "down"
    /\ Disturb
    /\ Worker!GoDown(w)
    /\ Outbox!RollbackPublication(w)
    /\ SendAmbiguously(w)
    /\ sleeping' \in {sleeping} \cup
            (IF loc[w] = "post" /\ mode \notin Simulator!RefusingModes
             THEN {sleeping \cup {Worker!Job(w)}} ELSE {})
    /\ UNCHANGED <<attempts, mode, receipts, keys, restarted, handler>>

WorkerStarts(w) ==
    /\ loc[w] = "down"
    /\ Worker!Goto(w, "poll")
    /\ Undisturbed
    /\ UNCHANGED <<outboxVars, messages, workerRest, simulatorVars, handler>>

IsHeld(m) == \E w \in Workers : \E h \in batch[w] : h.message = m /\ Queue!IsCurrent(h)

\* The visibility timeout ends.  It is meant to outlast the processing of a
\* batch, so that it ends while a worker holds the message is a disturbance.
VisibilityTimeout(m) ==
    /\ Queue!BecomeVisible(m)
    /\ IF IsHeld(m) THEN Disturb ELSE Undisturbed
    /\ UNCHANGED <<outboxVars, workerVars, simulatorVars, handler>>

Redrive(m) ==
    /\ Queue!Redrive(m)
    /\ Undisturbed
    /\ UNCHANGED <<outboxVars, workerVars, simulatorVars, handler>>

RecordLate(e) ==
    /\ Simulator!RecordLate(e)
    /\ Undisturbed
    /\ UNCHANGED <<outboxVars, messages, workerVars, restarted, handler>>

RestartSimulator ==
    /\ Simulator!RestartSimulator
    /\ Disturb
    /\ restarted' = TRUE
    /\ UNCHANGED <<outboxVars, messages, workerVars, handler>>

SetMode(m) ==
    /\ Simulator!SetMode(m)
    /\ IF m = "HEALTHY" THEN Undisturbed ELSE Disturb
    /\ UNCHANGED <<outboxVars, messages, workerVars, restarted, handler>>

-----------------------------------------------------------------------------

ApiStep(e) == ApiSelect(e) \/ ApiEnqueue(e) \/ ApiCommit(e)

WorkerStep(w) ==
    \/ RelaySelect(w) \/ RelayEnqueue(w) \/ RelayCommit(w)
    \/ Receive(w) \/ ReceiveNothing(w)
    \/ TakeMessage(w) \/ RejectInconsistent(w)
    \/ CallSucceeds(w) \/ CallRefused(w) \/ CallTimesOut(w)
    \/ ReadLastNumber(w) \/ InsertAttempt(w) \/ Acknowledge(w)
    \/ WorkerStarts(w)

WorkerDisturbed(w) ==
    \/ RelayFails(w) \/ CallLost(w) \/ CallUnclassified(w)
    \/ MessageFails(w) \/ WorkerGoesDown(w)

Next ==
    \/ \E e \in Events :
         Accept(e) \/ ApiStep(e) \/ ApiPublicationFails(e) \/ RecordLate(e)
    \/ \E w \in Workers : WorkerStep(w) \/ WorkerDisturbed(w)
    \/ \E m \in MessageIds : VisibilityTimeout(m) \/ Redrive(m)
    \/ \E m \in Modes : SetMode(m)
    \/ RestartSimulator

Spec == Init /\ [][Next]_vars

\* Threads and processes that can run do; the orchestrator restarts workers;
\* SQS makes an unacknowledged message visible again and redrives it.  Nothing
\* is assumed of clients, operators or disturbances.
Fairness ==
    /\ \A e \in Events : WF_vars(ApiStep(e))
    /\ \A w \in Workers : WF_vars(WorkerStep(w))
    /\ \A m \in MessageIds :
         WF_vars(VisibilityTimeout(m) /\ ~IsHeld(m)) /\ WF_vars(Redrive(m))

FairSpec == Spec /\ Fairness

-----------------------------------------------------------------------------
(* Properties *)

TypeOK ==
    /\ entry \in [Events -> Outbox!EntryState]
    /\ owner \in [Events -> Publishers \cup {NoPublisher}]
    /\ enqueued \subseteq Events
    /\ messages \in [MessageIds -> Queue!Message]
    /\ loc \in [Workers -> Worker!WorkerLocation]
    /\ batch \in [Workers -> SUBSET Queue!Receipt]
    /\ current \in [Workers -> Queue!Receipt \cup {NoMessage}]
    /\ outcome \in [Workers -> Worker!Outcome]
    /\ number \in [Workers -> Nat]
    /\ attempts \in [Events -> SUBSET Worker!Attempt]
    /\ mode \in Simulator!SimulatorMode
    /\ receipts \in [Events -> Nat]
    /\ keys \subseteq Events
    /\ sleeping \subseteq Events
    /\ handler \in [Events -> HandlerState]
    /\ restarted \in BOOLEAN
    /\ disturbances \in 0..MaxDisturbances

\* A published entry has not lost its event: one of its messages is still in
\* the queue, or in the dead-letter queue, or a success is on record.
NoEventLost ==
    \A e \in Events : entry[e] = "published" =>
        \/ Queue!LiveFor(e) # {}
        \/ Queue!DeadFor(e) # {}
        \/ Worker!HasRecordedSuccess(e)

\* A message is only ever acknowledged after a success of its event, with the
\* response code, is on record.
AcknowledgedIsRecorded ==
    \A m \in MessageIds : messages[m].state = "deleted" =>
        Worker!HasRecordedSuccess(messages[m].job)

\* However often an event is sent, posted and retried, the downstream system
\* holds it once; unless that system has lost its memory, it holds every event
\* whose success is on record.
OneEffectPerEvent ==
    \A e \in Events :
        /\ receipts[e] <= 1
        /\ Worker!HasRecordedSuccess(e) /\ ~restarted => receipts[e] = 1

\* The attempts of an event are numbered 1, 2, 3, ... without gap or repetition,
\* whichever workers record them.
AttemptsAreNumbered ==
    \A e \in Events :
        {a.number : a \in attempts[e]} = 1..Cardinality(attempts[e])

\* The fast path and the relays of all workers do not publish an event twice
\* unless something failed, and then nothing is dead-lettered either.
UndisturbedIsExactlyOnce ==
    disturbances = 0 =>
        \A e \in Events : Cardinality(Queue!SentFor(e)) <= 1 /\ Queue!DeadFor(e) = {}

\* Once published_at is set, no further message is sent for the event.
PublishedIsFinal ==
    [][\A e \in Events : entry[e] = "published" =>
         entry'[e] = "published" /\ Queue!SentFor(e)' = Queue!SentFor(e)]_vars

\* The status that an event has for the abstract specification.
StatusOf(e) ==
    IF entry[e] = "absent" THEN "unaccepted"
    ELSE IF Worker!HasRecordedSuccess(e) THEN "delivered"
    ELSE IF entry[e] = "pending" \/ Queue!LiveFor(e) # {} THEN "owed"
    ELSE IF Queue!DeadFor(e) # {} THEN "parked"
    ELSE "lost"

Promise == INSTANCE DeliveryPromise WITH status <- [e \in Events |-> StatusOf(e)]

\* Every step keeps the promise of module DeliveryPromise.
KeepsPromise == Promise!PromiseSafety

\* Under the fairness above every accepted event is settled.
FulfilsPromise == Promise!PromiseSpec

\* "Deliver an event and durably record the transport outcome"
\* (downstream_delivery.py): what is recorded as DELIVERED was accepted.
DeliveredWasAccepted ==
    \A e \in Events :
        Worker!DeliveredAttempts(e) # {} /\ ~restarted => receipts[e] = 1

\* "Suppress a replay after a recorded successful delivery"
\* (implementation-plan.md): no call is answered after that record exists.
NoCallAfterRecordedSuccess ==
    [][\A w \in Workers :
         (loc[w] = "post" /\ loc'[w] = "recordRead") =>
            ~Worker!HasRecordedSuccess(Worker!Job(w))]_vars

=============================================================================
