-------------------------- MODULE MCEventDelivery --------------------------
(***************************************************************************)
(* Small instances of EventDelivery.                                       *)
(***************************************************************************)
EXTENDS EventDelivery, TLC

MCOneEvent == {1}
MCTwoEvents == 1..2

\* One mode for each way receive_event treats a request: SLOW answers like
\* HEALTHY and UNAVAILABLE like RETURN_500, up to the time and the code.
MCModes == {"HEALTHY", "RETURN_500", "TIMEOUT"}

MCSymmetry == Permutations(Workers) \cup Permutations(MessageIds)

=============================================================================
