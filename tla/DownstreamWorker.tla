-------------------------- MODULE DownstreamWorker --------------------------
(***************************************************************************)
(* The state of the delivery workers and the rows of delivery_attempts:    *)
(* src/trackrelay/worker.py, services/downstream_worker.py and             *)
(* services/downstream_delivery.py.  A worker repeats                      *)
(*                                                                         *)
(*   poll          select and lock a batch of pending outbox rows          *)
(*   relay         send their jobs, then commit                            *)
(*   receive       long-poll the queue for a batch of messages             *)
(*   next          take a message, look for a recorded success             *)
(*   post          the HTTP call to the downstream system is open          *)
(*   recordRead    read the highest attempt number of the event            *)
(*   recordInsert  insert the numbered attempt and commit                  *)
(*   ack           delete the message                                      *)
(*                                                                         *)
(* and is "down" when its process does not run.                            *)
(***************************************************************************)
EXTENDS Naturals, FiniteSets

CONSTANTS
    Workers, Events,
    NoMessage       \* the worker is between two messages

VARIABLES
    loc,        \* where each worker is in its loop
    batch,      \* receipt handles of received messages not yet dealt with
    current,    \* receipt handle of the message being processed
    outcome,    \* how the last HTTP call of each worker ended
    number,     \* the attempt number each worker is about to insert
    attempts    \* attempts[e]: the committed rows of delivery_attempts

workerLocals == <<loc, batch, current, outcome, number>>
workerVars == <<workerLocals, attempts>>

WorkerLocation ==
    {"down", "poll", "relay", "receive", "next", "post", "recordRead", "recordInsert", "ack"}

\* "unclassified": an exception that is neither HTTPStatusError nor
\* TransportError, such as an undecodable response body.
Outcome == {"none", "delivered", "http_error", "transport_error", "unclassified"}

AttemptResult == {"delivered", "http_error", "transport_error"}
Attempt == [number : Nat \ {0}, result : AttemptResult, has_code : BOOLEAN]

WorkerInit ==
    /\ loc = [w \in Workers |-> "poll"]
    /\ batch = [w \in Workers |-> {}]
    /\ current = [w \in Workers |-> NoMessage]
    /\ outcome = [w \in Workers |-> "none"]
    /\ number = [w \in Workers |-> 0]
    /\ attempts = [e \in Events |-> {}]

Goto(w, l) == loc' = [loc EXCEPT ![w] = l]
Job(w) == current[w].job

\* Variant that stores how the call ended as it is.
RecordedVerbatim(o) == [result |-> o, has_code |-> o \in {"delivered", "http_error"}]

\* The columns (result, response_code) that deliver_and_record_normalized_event
\* stores: result starts as DELIVERED and only two exception types change it.
RecordedAs(o) ==
    [result |-> IF o \in {"delivered", "unclassified"} THEN "delivered" ELSE o,
     has_code |-> o \in {"delivered", "http_error"}]

DeliveredAttempts(e) == {a \in attempts[e] : a.result = "delivered"}

\* load_recorded_delivery_result reads the DELIVERED attempt with the highest
\* number: there is none, it has a response code, or it is inconsistent.
RecordedDelivery(e) ==
    LET last == {a \in DeliveredAttempts(e) :
                    \A b \in DeliveredAttempts(e) : b.number <= a.number}
    IN  IF last = {} THEN "none"
        ELSE IF \A a \in last : a.has_code THEN "recorded"
        ELSE "inconsistent"

\* max(attempt_number), or 0 when there is no attempt.
IsLastNumber(n, e) ==
    /\ n = 0 \/ \E a \in attempts[e] : a.number = n
    /\ \A a \in attempts[e] : a.number <= n

\* A success with its response code is on record.
HasRecordedSuccess(e) == \E a \in DeliveredAttempts(e) : a.has_code

\* The worker is done with its message, whatever came of it: process_worker_batch
\* goes on to the rest of the batch, then the loop polls again.
Leave(w) ==
    /\ batch' = [batch EXCEPT ![w] = @ \ {current[w]}]
    /\ Goto(w, IF batch[w] = {current[w]} THEN "poll" ELSE "next")
    /\ current' = [current EXCEPT ![w] = NoMessage]
    /\ outcome' = [outcome EXCEPT ![w] = "none"]
    /\ number' = [number EXCEPT ![w] = 0]

\* The process of a worker ends and loses its state.
GoDown(w) ==
    /\ Goto(w, "down")
    /\ batch' = [batch EXCEPT ![w] = {}]
    /\ current' = [current EXCEPT ![w] = NoMessage]
    /\ outcome' = [outcome EXCEPT ![w] = "none"]
    /\ number' = [number EXCEPT ![w] = 0]

\* A replay of a recorded success goes straight to its acknowledgement.
TakeMessage(w, h) ==
    /\ loc[w] = "next"
    /\ h \in batch[w]
    /\ RecordedDelivery(h.job) # "inconsistent"
    /\ current' = [current EXCEPT ![w] = h]
    /\ Goto(w, IF RecordedDelivery(h.job) = "recorded" THEN "ack" ELSE "post")
    /\ UNCHANGED <<batch, outcome, number, attempts>>

\* RecordedDeliveryInconsistentError, or the database fails: the message is left.
SkipMessage(w, h) ==
    /\ loc[w] = "next"
    /\ h \in batch[w]
    /\ batch' = [batch EXCEPT ![w] = @ \ {h}]
    /\ Goto(w, IF batch[w] = {h} THEN "poll" ELSE "next")
    /\ UNCHANGED <<current, outcome, number, attempts>>

EndCall(w, o) ==
    /\ loc[w] = "post"
    /\ outcome' = [outcome EXCEPT ![w] = o]
    /\ Goto(w, "recordRead")
    /\ UNCHANGED <<batch, current, number, attempts>>

\* First statement of record_delivery_attempt.
ReadLastNumber(w) ==
    /\ loc[w] = "recordRead"
    /\ \E n \in {0} \cup {a.number : a \in attempts[Job(w)]} :
         IsLastNumber(n, Job(w)) /\ number' = [number EXCEPT ![w] = n + 1]
    /\ Goto(w, "recordInsert")
    /\ UNCHANGED <<batch, current, outcome, attempts>>

NumberTaken(w) == \E a \in attempts[Job(w)] : a.number = number[w]

InsertRow(w) ==
    attempts' = [attempts EXCEPT ![Job(w)] = @ \cup
        {[number |-> number[w], result |-> RecordedAs(outcome[w]).result,
          has_code |-> RecordedAs(outcome[w]).has_code]}]

\* Variant without the unique constraint on (event_id, attempt_number).
InsertAttemptUnchecked(w) ==
    /\ loc[w] = "recordInsert"
    /\ InsertRow(w)
    /\ IF outcome[w] = "delivered"
       THEN Goto(w, "ack") /\ UNCHANGED <<batch, current, outcome, number>>
       ELSE Leave(w)

\* Variant that swallows the exception of the HTTP call.
InsertAttemptSwallowing(w) ==
    /\ loc[w] = "recordInsert"
    /\ IF NumberTaken(w)
       THEN UNCHANGED attempts /\ Leave(w)
       ELSE InsertRow(w) /\ Goto(w, "ack") /\ UNCHANGED <<batch, current, outcome, number>>

\* The INSERT commits, unless another worker has used the number meanwhile:
\* then IntegrityError leaves the message as any other failure does.  After a
\* failed call the exception is raised again once the attempt is recorded.
InsertAttempt(w) ==
    /\ loc[w] = "recordInsert"
    /\ IF NumberTaken(w)
       THEN UNCHANGED attempts /\ Leave(w)
       ELSE /\ InsertRow(w)
            /\ IF outcome[w] = "delivered"
               THEN Goto(w, "ack") /\ UNCHANGED <<batch, current, outcome, number>>
               ELSE Leave(w)

=============================================================================
