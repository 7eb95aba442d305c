--------------------------- MODULE DeliveryOutbox ---------------------------
(***************************************************************************)
(* The rows of delivery_outbox and the two transactions that publish them  *)
(* (src/trackrelay/services/delivery_outbox.py): the API publishes the row *)
(* of the event it has just accepted, every worker relays a batch of old   *)
(* rows.  Both select FOR UPDATE SKIP LOCKED, send, and mark the rows last.*)
(***************************************************************************)
EXTENDS Naturals, FiniteSets

CONSTANTS
    Events,         \* numbered in the order of delivery_outbox.created_at
    Publishers,     \* owners of publishing transactions
    NoPublisher,    \* the row is not locked
    BatchSize       \* batch_size of publish_pending_delivery_jobs

VARIABLES
    entry,      \* "absent", "pending" (published_at IS NULL) or "published"
    owner,      \* the publisher that holds the row lock of an entry
    enqueued    \* entries whose job was sent in the transaction that locks them

outboxVars == <<entry, owner, enqueued>>

EntryState == {"absent", "pending", "published"}

OutboxInit ==
    /\ entry = [e \in Events |-> "absent"]
    /\ owner = [e \in Events |-> NoPublisher]
    /\ enqueued = {}

\* Variant without the condition on published_at.
UnlockedRows == {e \in Events : entry[e] # "absent" /\ owner[e] = NoPublisher}

\* Rows a SELECT ... WHERE published_at IS NULL FOR UPDATE SKIP LOCKED returns.
PendingUnlocked == {e \in Events : entry[e] = "pending" /\ owner[e] = NoPublisher}
LockedBy(p) == {e \in Events : owner[e] = p}
Unsent(p) == LockedBy(p) \ enqueued

\* ORDER BY created_at LIMIT n.
Oldest(rows, n) == {e \in rows : Cardinality({f \in rows : f < e}) < n}

InsertEntry(e) ==
    /\ entry[e] = "absent"
    /\ entry' = [entry EXCEPT ![e] = "pending"]
    /\ UNCHANGED <<owner, enqueued>>

LockRows(p, rows) ==
    /\ owner' = [e \in Events |-> IF e \in rows THEN p ELSE owner[e]]
    /\ UNCHANGED <<entry, enqueued>>

\* One enqueue call of the transaction has returned.
MarkEnqueued(e) ==
    /\ enqueued' = enqueued \cup {e}
    /\ UNCHANGED <<entry, owner>>

\* The transaction ends; only a commit sets published_at, on all its rows.
EndTransaction(p, rowsAfter) ==
    /\ entry' = [e \in Events |-> IF owner[e] = p THEN rowsAfter ELSE entry[e]]
    /\ owner' = [e \in Events |-> IF owner[e] = p THEN NoPublisher ELSE owner[e]]
    /\ enqueued' = enqueued \ LockedBy(p)

\* Variant that sets published_at before the sends.
CommitPublicationEarly(p) == EndTransaction(p, "published")

CommitPublication(p) == Unsent(p) = {} /\ EndTransaction(p, "published")

\* Variant that leaves the failed transaction open.
RollbackForgotten(p) ==
    /\ enqueued' = enqueued \ LockedBy(p)
    /\ UNCHANGED <<entry, owner>>

RollbackPublication(p) == EndTransaction(p, "pending")

=============================================================================
