------------------------- MODULE ShipmentTransition -------------------------
(***************************************************************************)
(* The pure shipment rule of src/trackrelay/domain/shipment.py: may an     *)
(* incoming courier event advance the stored state of its shipment?        *)
(* Timestamps are abstracted to naturals; only their order matters.        *)
(***************************************************************************)
EXTENDS Naturals

ShipmentStatus ==
    {"created", "picked_up", "in_transit", "out_for_delivery", "delivered"}

\* Position of a status in the declaration order of the enumeration.
STATUS_ORDER ==
    [s \in ShipmentStatus |->
        CASE s = "created"          -> 0
          [] s = "picked_up"        -> 1
          [] s = "in_transit"       -> 2
          [] s = "out_for_delivery" -> 3
          [] s = "delivered"        -> 4]

TransitionRejectionReason ==
    {"stale_event", "non_forward_transition", "terminal_state"}

\* ShipmentTransitionDecision: "applied", or the reason why not.
TransitionDecision == {"applied"} \cup TransitionRejectionReason

\* What a shipment row stores and what an event reports.
ShipmentState == [status : ShipmentStatus, occurred_at : Nat]

\* Variant without the terminal check: an event may leave "delivered" whenever
\* its status is not the current one.
ReopeningTransition(current, incoming) ==
    IF incoming.occurred_at < current.occurred_at THEN "stale_event"
    ELSE IF incoming.status = current.status THEN "non_forward_transition"
    ELSE "applied"

\* Variant that compares occurrence times only.
LatestTimeTransition(current, incoming) ==
    IF incoming.occurred_at <= current.occurred_at THEN "stale_event" ELSE "applied"

\* The three tests in the order of the code: the first that holds names the
\* rejection reason.
EvaluateShipmentTransition(current, incoming) ==
    IF incoming.occurred_at < current.occurred_at THEN "stale_event"
    ELSE IF current.status = "delivered" THEN "terminal_state"
    ELSE IF STATUS_ORDER[incoming.status] <= STATUS_ORDER[current.status]
         THEN "non_forward_transition"
    ELSE "applied"

\* Two reports of one courier agree when the later one has the later status;
\* equal times are ordered by the status alone.
Consistent(a, b) ==
    /\ a.occurred_at < b.occurred_at => STATUS_ORDER[a.status] < STATUS_ORDER[b.status]
    /\ b.occurred_at < a.occurred_at => STATUS_ORDER[b.status] < STATUS_ORDER[a.status]

=============================================================================
