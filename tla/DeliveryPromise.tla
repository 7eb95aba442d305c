--------------------------- MODULE DeliveryPromise ---------------------------
(***************************************************************************)
(* What asynchronous delivery promises for an accepted event: TrackRelay   *)
(* owes its delivery until a success is recorded or every job of the event *)
(* has been parked in the dead-letter queue, and settles it eventually.    *)
(* There is no way to forget an event, and a recorded success is final.    *)
(***************************************************************************)
CONSTANT Events

VARIABLE status

Status == {"unaccepted", "owed", "delivered", "parked"}

\* A worker that still holds a message of a parked event may yet succeed.
Transitions ==
    {<<"unaccepted", "owed">>, <<"owed", "delivered">>, <<"owed", "parked">>,
     <<"parked", "delivered">>}

PromiseInit == status = [e \in Events |-> "unaccepted"]

\* Several events may move at once: a relay publishes its batch in one commit.
PromiseNext ==
    /\ status' \in [Events -> Status]
    /\ \A e \in Events :
         status'[e] = status[e] \/ <<status[e], status'[e]>> \in Transitions

PromiseSafety == PromiseInit /\ [][PromiseNext]_status

Settled == \A e \in Events :
    (status[e] = "owed") ~> (status[e] \in {"delivered", "parked"})

PromiseSpec == PromiseSafety /\ Settled

=============================================================================
