------------------------ MODULE DownstreamSimulator ------------------------
(***************************************************************************)
(* The downstream order-system simulator: its mode, and the store that     *)
(* recognises a replayed request by its idempotency key                    *)
(* (src/trackrelay/downstream/).  The worker's key is the event id.  All   *)
(* state is process memory.                                                *)
(***************************************************************************)
EXTENDS Naturals

CONSTANT Events

VARIABLES
    mode,       \* SimulatorControl._mode
    receipts,   \* DownstreamEventStore._events: receipts per event id
    keys,       \* DownstreamEventStore._idempotency_keys
    sleeping    \* events of requests that receive_event still delays for
                \* clients that have stopped waiting; two such requests of
                \* one event have the effect of one, so a set is enough

simulatorVars == <<mode, receipts, keys, sleeping>>

SimulatorMode == {"HEALTHY", "RETURN_500", "SLOW", "TIMEOUT", "UNAVAILABLE"}

\* Modes in which receive_event answers before it reaches the store.
RefusingModes == {"RETURN_500", "UNAVAILABLE"}

SimulatorInit ==
    /\ mode = "HEALTHY"
    /\ receipts = [e \in Events |-> 0]
    /\ keys = {}
    /\ sleeping = {}

\* Variant that forgets to remember the key.
RecordWithoutKey(e) ==
    /\ receipts' = [receipts EXCEPT ![e] = IF e \in keys THEN @ ELSE @ + 1]
    /\ UNCHANGED keys

\* DownstreamEventStore.record, atomic under the store's lock.
Record(e) ==
    IF e \in keys
    THEN UNCHANGED <<receipts, keys>>
    ELSE /\ receipts' = [receipts EXCEPT ![e] = @ + 1]
         /\ keys' = keys \cup {e}

\* A request is recorded although its client no longer waits for the answer.
RecordLate(e) ==
    /\ e \in sleeping
    /\ Record(e)
    /\ sleeping' = sleeping \ {e}
    /\ UNCHANGED mode

SetMode(m) ==
    /\ mode # m
    /\ mode' = m
    /\ UNCHANGED <<receipts, keys, sleeping>>

\* The process is replaced: receipts, keys and delayed requests are gone, and
\* the mode is the default again.
RestartSimulator ==
    /\ mode' = "HEALTHY"
    /\ receipts' = [e \in Events |-> 0]
    /\ keys' = {}
    /\ sleeping' = {}

=============================================================================
