-------------------------- MODULE MCEventIngestion --------------------------
(***************************************************************************)
(* Small instances of EventIngestion: which payloads the clients send.     *)
(***************************************************************************)
EXTENDS EventIngestion, TLC

CONSTANTS k1, t1    \* the key and the shipment of the odd payloads of MCMixed

MCTimes == 0..1

MCPayload(k, t, s, at) ==
    [partner |-> "active", valid |-> TRUE, run |-> "satisfied",
     key |-> k, tracking |-> t, status |-> s, occurred_at |-> at]

\* Every status-and-time conflict of the keys on every shipment.
MCConflicting ==
    {MCPayload(k, t, s, at) : k \in Keys, t \in Shipments,
                              s \in {"created", "in_transit", "delivered"}, at \in MCTimes}

\* Two shipments, the foreign key of an unknown test run, a key reused for
\* another shipment, and one payload for each early answer.
MCMixed ==
    {MCPayload(k, t, "created", 0) : k \in Keys, t \in Shipments}
        \cup {[MCPayload(k1, t1, "in_transit", 1) EXCEPT !.run = "unknown"]}
        \cup {[MCPayload(k1, t1, "created", 0) EXCEPT !.partner = state]
                : state \in PartnerState \ {"active"}}
        \cup {[MCPayload(k1, t1, "created", 0) EXCEPT !.valid = FALSE]}

\* Sound with MCConflicting, which treats all keys alike.
MCSymmetry == Permutations(Requests) \cup Permutations(Keys)

=============================================================================
