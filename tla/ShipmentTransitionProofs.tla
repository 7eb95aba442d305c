----------------------- MODULE ShipmentTransitionProofs -----------------------
(***************************************************************************)
(* What evaluate_shipment_transition guarantees for every pair of states.  *)
(***************************************************************************)
EXTENDS ShipmentTransition, TLAPS

\* A report, as far as the rule reads it: event rows and payloads have more
\* fields than a shipment row.
IsReport(x) == x.status \in ShipmentStatus /\ x.occurred_at \in Nat

\* The order of the statuses is a numbering of them.
LEMMA StatusOrderType ==
    /\ STATUS_ORDER \in [ShipmentStatus -> 0..4]
    /\ \A s \in ShipmentStatus : STATUS_ORDER[s] = 4 <=> s = "delivered"
BY DEF STATUS_ORDER, ShipmentStatus

\* The rule names a decision for every report.
LEMMA DecisionType ==
    ASSUME NEW current, NEW incoming
    PROVE  EvaluateShipmentTransition(current, incoming) \in TransitionDecision
BY DEF EvaluateShipmentTransition, TransitionDecision, TransitionRejectionReason

\* An event that the rule applies has a later status and is not older; it never
\* leaves the terminal state.
THEOREM AppliedMovesForward ==
    ASSUME NEW current, IsReport(current),
           NEW incoming, IsReport(incoming),
           EvaluateShipmentTransition(current, incoming) = "applied"
    PROVE  /\ STATUS_ORDER[current.status] < STATUS_ORDER[incoming.status]
           /\ current.occurred_at <= incoming.occurred_at
           /\ current.status # "delivered"
<1>1. /\ ~(incoming.occurred_at < current.occurred_at)
      /\ current.status # "delivered"
      /\ ~(STATUS_ORDER[incoming.status] <= STATUS_ORDER[current.status])
  BY DEF EvaluateShipmentTransition
<1>2. /\ STATUS_ORDER[current.status] \in Nat
      /\ STATUS_ORDER[incoming.status] \in Nat
  BY StatusOrderType DEF IsReport
<1> QED
  BY <1>1, <1>2 DEF IsReport

\* An event that the rule rejects is older than the state or not ahead of it:
\* "terminal_state" rejects nothing that could still be ahead.
THEOREM RejectedIsBehind ==
    ASSUME NEW current, IsReport(current),
           NEW incoming, IsReport(incoming),
           EvaluateShipmentTransition(current, incoming) # "applied"
    PROVE  \/ incoming.occurred_at < current.occurred_at
           \/ STATUS_ORDER[incoming.status] <= STATUS_ORDER[current.status]
<1>1. \/ incoming.occurred_at < current.occurred_at
      \/ current.status = "delivered"
      \/ STATUS_ORDER[incoming.status] <= STATUS_ORDER[current.status]
  BY DEF EvaluateShipmentTransition
<1>2. current.status = "delivered" =>
        STATUS_ORDER[incoming.status] <= STATUS_ORDER[current.status]
  BY StatusOrderType DEF IsReport
<1> QED
  BY <1>1, <1>2

=============================================================================
