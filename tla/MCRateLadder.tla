---------------------------- MODULE MCRateLadder ----------------------------
(* Instances of the ladder for TLC. *)
EXTENDS RateLadder
=============================================================================
