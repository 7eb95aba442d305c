--------------------------- MODULE DeliveryQueue ---------------------------
(***************************************************************************)
(* The SQS source queue and its dead-letter queue, as far as the adapters  *)
(* of src/trackrelay/sqs_delivery.py use them: send, receive, delete, a    *)
(* visibility timeout and a redrive policy.  The service itself is not in  *)
(* the repository.  It is a standard queue: no order, at least once.       *)
(***************************************************************************)
EXTENDS Naturals, FiniteSets

CONSTANTS
    Events,             \* event ids; a job is one event id
    MessageIds,         \* bound on the number of messages ever sent
    MaxReceiveCount     \* redrive policy: receives before the DLQ

VARIABLE messages   \* messages[m] is the message with SQS message id m

MessageState == {"unsent", "visible", "inflight", "deleted", "dead"}

Message ==
    [state : MessageState, job : Events \cup {0}, receives : 0..MaxReceiveCount]

UnsentMessage == [state |-> "unsent", job |-> 0, receives |-> 0]

\* A receipt handle names one receive of one message: a later receive of the
\* same message makes it stale.  The received body travels with the handle.
Receipt == [message : MessageIds, receive : 1..MaxReceiveCount, job : Events]

QueueInit == messages = [m \in MessageIds |-> UnsentMessage]

SentFor(e) == {m \in MessageIds : messages[m].state # "unsent" /\ messages[m].job = e}
LiveFor(e) == {m \in SentFor(e) : messages[m].state \in {"visible", "inflight"}}
DeadFor(e) == {m \in SentFor(e) : messages[m].state = "dead"}
Visible == {m \in MessageIds : messages[m].state = "visible"}

\* Messages SQS may hand out, as opposed to those it redrives.
Receivable == {m \in Visible : messages[m].receives < MaxReceiveCount}

IsCurrent(h) ==
    /\ messages[h.message].state = "inflight"
    /\ messages[h.message].receives = h.receive

\* SendMessage: SqsDownstreamDeliveryQueue.enqueue.
Send(e) ==
    \E m \in MessageIds :
        /\ messages[m].state = "unsent"
        /\ messages' = [messages EXCEPT ![m] =
                            [state |-> "visible", job |-> e, receives |-> 0]]

\* ReceiveMessage: each message of the batch starts its visibility timeout.
ReceiveBatch(batch) ==
    messages' = [m \in MessageIds |->
                    IF m \in batch
                    THEN [messages[m] EXCEPT !.state = "inflight", !.receives = @ + 1]
                    ELSE messages[m]]

ReceiptsOf(batch) ==
    {[message |-> m, receive |-> messages[m].receives + 1, job |-> messages[m].job]
        : m \in batch}

\* DeleteMessage: SqsDownstreamDeliveryMessage.acknowledge.  A stale handle may
\* or may not delete the message; the call succeeds either way.
Delete(h) ==
    \/ /\ messages[h.message].state \in {"visible", "inflight"}
       /\ messages' = [messages EXCEPT ![h.message].state = "deleted"]
    \/ /\ ~IsCurrent(h)
       /\ UNCHANGED messages

\* The visibility timeout of a received message ends.
BecomeVisible(m) ==
    /\ messages[m].state = "inflight"
    /\ messages' = [messages EXCEPT ![m].state = "visible"]

\* The redrive policy moves a message that has used up its receives.
Redrive(m) ==
    /\ m \in Visible \ Receivable
    /\ messages' = [messages EXCEPT ![m].state = "dead"]

=============================================================================
