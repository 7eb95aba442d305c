----------------------------- MODULE RunRecords -----------------------------
(***************************************************************************)
(* What the database, the queues, the workers and the simulator hold of    *)
(* the two test runs of an elasticity experiment, and what the API reads,  *)
(* records and removes of it.  How one event is ingested and delivered is  *)
(* the subject of EventIngestion and EventDelivery; here a step of theirs  *)
(* is one action, and the fixed and the elastic run share every store.     *)
(***************************************************************************)
EXTENDS Naturals, FiniteSets

CONSTANTS
  Names,       \* the events a run generates, by name
  CallLife,    \* bound: ticks a request outlives the worker that sent it
  MaxFaults    \* bound: failures of workers, requests, observations and slots

ASSUME RecordsAssumption ==
  /\ IsFiniteSet(Names) /\ Names # {}
  /\ CallLife \in Nat /\ MaxFaults \in Nat

Treatments == {"fixed", "elastic"}
Events == Treatments \X Names
Of(t) == {t} \X Names

VARIABLES
  runs, completed,   \* rows of test_runs, and those with completed_at
  requests,          \* of k6: "unsent", "open", "answered" or "abandoned"
  row,               \* the event and its outbox entry: "none", "pending", "published"
  delivered,         \* events with a DELIVERED attempt
  tried, tries,      \* events with an attempt, and how many rows delivery_attempts has
  visible, dead,     \* messages of the delivery queue and its dead-letter queue
  job,               \* a message in flight: "loaded", "posted", or "lost" with its worker
  calls,             \* ticks that a request without a sender has left
  receipts,          \* what the simulator has received
  workers,           \* running tasks of the worker service
  faults             \* what is left of the bound

databaseVars == <<runs, completed, row, delivered, tried, tries>>
queueVars == <<visible, dead, job>>
simulatorVars == <<calls, receipts>>
recordVars == <<databaseVars, requests, queueVars, simulatorVars, workers, faults>>

RecordsTypeOK ==
  /\ completed \subseteq runs /\ runs \subseteq Treatments
  /\ requests \in [Events -> {"unsent", "open", "answered", "abandoned"}]
  /\ row \in [Events -> {"none", "pending", "published"}]
  /\ job \in [Events -> {"none", "loaded", "posted", "lost"}]
  /\ calls \in [Events -> 0 .. CallLife]
  /\ \A s \in {delivered, tried, visible, dead, receipts} : s \subseteq Events
  /\ tries \in 0 .. Cardinality(Names)
  /\ faults \in 0 .. MaxFaults

RecordsInit ==
  /\ runs = {} /\ completed = {}
  /\ requests = [e \in Events |-> "unsent"]
  /\ row = [e \in Events |-> "none"]
  /\ job = [e \in Events |-> "none"]
  /\ calls = [e \in Events |-> 0]
  /\ delivered = {} /\ tried = {} /\ tries = 0
  /\ visible = {} /\ dead = {} /\ receipts = {}
  /\ workers = 1 /\ faults = MaxFaults

Fault == faults > 0 /\ faults' = faults - 1

-----------------------------------------------------------------------------
\* What the API and SQS answer.
Stored(t) == {e \in Of(t) : row[e] # "none"}
PendingOutbox(t) == {e \in Of(t) : row[e] = "pending"}
InFlight == {e \in Events : job[e] # "none"}
Busy == {e \in Events : job[e] \in {"loaded", "posted"}}
Outstanding == {e \in Events : row[e] # "none"} \ delivered
QueueWork == visible \cup InFlight

\* The half of processing_drained that the summary of the run answers.
DatabaseDrained(t) == Stored(t) \subseteq delivered /\ PendingOutbox(t) = {}
QueuesEmpty == QueueWork = {} /\ dead = {}

\* The attributes of a queue are approximate: a message may be missing in them, or
\* still be counted when it is gone.
QueuesAnswer(empty) ==
  \/ empty = QueuesEmpty /\ UNCHANGED faults
  \/ empty # QueuesEmpty /\ Fault

\* The state of all runs together, as the experiment endpoints see it.
ApplicationEmpty ==
  runs = {} /\ (\A e \in Events : row[e] = "none") /\ delivered = {} /\ receipts = {}

\* It is exactly the run t, complete.
ApplicationHolds(t) ==
  /\ runs = {t}
  /\ {e \in Events : row[e] # "none"} = Of(t)
  /\ receipts = Of(t)

-----------------------------------------------------------------------------
\* One event on its way from k6 to the simulator.
SendRequest(e) ==
  /\ requests[e] = "unsent"
  /\ requests' = [requests EXCEPT ![e] = "open"]
  /\ UNCHANGED <<databaseVars, queueVars, simulatorVars, workers, faults>>

\* k6 gives up on a request; the API may still work on it, or have done so.
AbandonRequest(e) ==
  /\ requests[e] = "open" /\ Fault
  /\ requests' = [requests EXCEPT ![e] = "abandoned"]
  /\ UNCHANGED <<databaseVars, queueVars, simulatorVars, workers>>

\* Variant that rejects nothing: the foreign key to test_runs is gone.
StoreEventAnyway(e) ==
  /\ requests[e] \in {"open", "abandoned"} /\ row[e] = "none"
  /\ row' = [row EXCEPT ![e] = "pending"]
  /\ requests' = [requests EXCEPT ![e] = IF @ = "open" THEN "answered" ELSE @]
  /\ UNCHANGED <<runs, completed, delivered, tried, tries, queueVars, simulatorVars, workers,
                 faults>>

\* An event belongs to a registered run: its row references it.
StoreEvent(e) ==
  /\ requests[e] \in {"open", "abandoned"} /\ row[e] = "none"
  /\ e[1] \in runs
  /\ row' = [row EXCEPT ![e] = "pending"]
  /\ requests' = [requests EXCEPT ![e] = IF @ = "open" THEN "answered" ELSE @]
  /\ UNCHANGED <<runs, completed, delivered, tried, tries, queueVars, simulatorVars, workers,
                 faults>>

\* The outbox publisher sends the message; it may die before it marks the entry.
PublishEvent(e) ==
  /\ row[e] = "pending"
  /\ visible' = visible \cup {e}
  /\ \/ row' = [row EXCEPT ![e] = "published"] /\ UNCHANGED faults
     \/ UNCHANGED row /\ Fault
  /\ UNCHANGED <<runs, completed, delivered, tried, tries, requests, dead, job, simulatorVars,
                 workers>>

\* A worker takes a message and loads its event; where the row is gone the
\* message fails until it is dead, and a recorded success is only acknowledged.
ReceiveMessage(e) ==
  /\ e \in visible /\ job[e] = "none" /\ Cardinality(Busy) < workers
  /\ visible' = visible \ {e}
  /\ IF row[e] = "none"
       THEN dead' = dead \cup {e} /\ UNCHANGED job
       ELSE /\ \/ job' = [job EXCEPT ![e] = "loaded"]
               \/ e \in delivered /\ UNCHANGED job
            /\ UNCHANGED dead
  /\ UNCHANGED <<databaseVars, requests, simulatorVars, workers, faults>>

PostEvent(e) ==
  /\ job[e] = "loaded"
  /\ job' = [job EXCEPT ![e] = "posted"]
  /\ receipts' = receipts \cup {e}
  /\ UNCHANGED <<databaseVars, requests, visible, dead, calls, workers, faults>>

\* One more row of delivery_attempts; more of them than events are not counted.
AddAttempt(e) ==
  /\ tried' = tried \cup {e}
  /\ tries' = IF tries < Cardinality(Names) THEN tries + 1 ELSE tries

\* The attempt references the event: without it the message comes back.
RecordAttempt(e) ==
  /\ job[e] = "posted"
  /\ job' = [job EXCEPT ![e] = "none"]
  /\ IF row[e] = "none"
       THEN visible' = visible \cup {e} /\ UNCHANGED <<delivered, tried, tries>>
       ELSE delivered' = delivered \cup {e} /\ AddAttempt(e) /\ UNCHANGED visible
  /\ UNCHANGED <<runs, completed, row, requests, dead, simulatorVars, workers, faults>>

\* The downstream refuses, which is an attempt as well: the message is retried, or dead
\* after its last receive.
RefuseEvent(e) ==
  /\ job[e] = "loaded" /\ Fault
  /\ job' = [job EXCEPT ![e] = "none"]
  /\ \/ visible' = visible \cup {e} /\ UNCHANGED dead
     \/ dead' = dead \cup {e} /\ UNCHANGED visible
  /\ IF row[e] = "none" THEN UNCHANGED <<tried, tries>> ELSE AddAttempt(e)
  /\ UNCHANGED <<runs, completed, row, delivered, requests, simulatorVars, workers>>

\* A worker ends with a message in its hands, perhaps with its request on the way.
LoseWorker(e) ==
  /\ e \in Busy /\ Fault
  /\ job' = [job EXCEPT ![e] = "lost"]
  /\ calls' = [calls EXCEPT ![e] = IF job[e] = "loaded" THEN CallLife ELSE @]
  /\ UNCHANGED <<databaseVars, requests, visible, dead, receipts, workers>>

VisibilityTimeout(e) ==
  /\ job[e] = "lost"
  /\ job' = [job EXCEPT ![e] = "none"]
  /\ visible' = visible \cup {e}
  /\ UNCHANGED <<databaseVars, requests, dead, simulatorVars, workers, faults>>

\* The request of a worker that has ended arrives.
LateCall(e) ==
  /\ calls[e] > 0
  /\ calls' = [calls EXCEPT ![e] = 0]
  /\ receipts' = receipts \cup {e}
  /\ UNCHANGED <<databaseVars, requests, queueVars, workers, faults>>

DeliveryStep ==
  \E e \in Events :
    \/ PublishEvent(e) \/ ReceiveMessage(e) \/ PostEvent(e) \/ RecordAttempt(e)
    \/ RefuseEvent(e) \/ LoseWorker(e) \/ VisibilityTimeout(e) \/ LateCall(e)

CallsAge == calls' = [e \in Events |-> IF calls[e] > 0 THEN calls[e] - 1 ELSE 0]

-----------------------------------------------------------------------------
\* The endpoints of a test run.
RegisterRun(t) ==
  /\ t \notin runs
  /\ runs' = runs \cup {t}
  /\ UNCHANGED <<completed, row, delivered, tried, tries>>

CompleteRun(t) ==
  /\ t \in runs \ completed
  /\ completed' = completed \cup {t}
  /\ UNCHANGED <<runs, row, delivered, tried, tries>>

\* TRUNCATE waits for the row locks of the publisher and the workers' inserts.
TruncateExperiment ==
  /\ runs' = {} /\ completed' = {} /\ delivered' = {} /\ tried' = {} /\ tries' = 0
  /\ row' = [e \in Events |-> "none"]

ClearSimulator == receipts' = {} /\ UNCHANGED calls

\* A purge that is under way removes one message, of any age, whether it is visible, dead
\* or in flight.  A worker that has loaded it goes on with its request all the same, and
\* the message does not come back.
PurgeMessage(e) ==
  /\ \/ e \in visible /\ visible' = visible \ {e} /\ UNCHANGED <<dead, job, calls>>
     \/ e \in dead /\ dead' = dead \ {e} /\ UNCHANGED <<visible, job, calls>>
     \/ /\ job[e] # "none" /\ job' = [job EXCEPT ![e] = "none"]
        /\ calls' = [calls EXCEPT ![e] = IF job[e] = "loaded" THEN CallLife ELSE @]
        /\ UNCHANGED <<visible, dead>>
  /\ UNCHANGED <<databaseVars, requests, receipts, workers, faults>>
=============================================================================
