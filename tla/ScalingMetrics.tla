--------------------------- MODULE ScalingMetrics ---------------------------
(***************************************************************************)
(* The telemetry that each replica of the API publishes every ten seconds, *)
(* the quiet window it keeps, and the two alarms that set the capacity of  *)
(* the worker service.  Time is counted in slots of the publisher.         *)
(***************************************************************************)
EXTENDS RunRecords, Integers

CONSTANTS
  Replicas,      \* of the API: each publishes the same gauges
  QuietSlots,    \* scale_in_quiet_seconds in slots
  HotSlots,      \* scale_out_evaluation_periods
  Capacity       \* maximum_capacity of the policy

ASSUME ScalingAssumption ==
  /\ IsFiniteSet(Replicas) /\ Replicas # {}
  /\ QuietSlots \in Nat \ {0} /\ HotSlots \in Nat \ {0} /\ Capacity \in Nat \ {0, 1}

VARIABLES
  since, previous,  \* QuietWindow: slots since each, or -1 for None
  quiet,            \* the Minimum of QuietSeconds over the last slot
  hot,              \* slots in a row whose ArrivalRate breached
  arrivals,         \* events stored since the last slot
  autoscaled,       \* the scalable target and its alarms exist
  calm              \* history: slots in a row in which a replica saw it calm

scalingVars == <<since, previous, quiet, hot, arrivals, autoscaled, calm>>

ScalingTypeOK ==
  /\ since \in [Replicas -> -1 .. QuietSlots]
  /\ previous \in [Replicas -> -1 .. 2]
  /\ quiet \in 0 .. QuietSlots /\ hot \in 0 .. HotSlots
  /\ arrivals \subseteq Events /\ autoscaled \in BOOLEAN
  /\ workers \in 1 .. Capacity

ScalingInit ==
  /\ since = [a \in Replicas |-> -1] /\ previous = [a \in Replicas |-> -1]
  /\ quiet = 0 /\ hot = 0 /\ arrivals = {} /\ autoscaled = FALSE
  /\ calm = [a \in Replicas |-> -1]

Lesser(a, b) == IF a < b THEN a ELSE b

\* Demand is low and so is the unfinished work (the thresholds are one event).
Safe == arrivals = {} /\ Outstanding = {} /\ QueueWork = {}

-----------------------------------------------------------------------------
\* QuietWindow.observe: the age of the window after an observation.
\* Variant that does not look at the time since the observation before.
ObservedGapless(a, safe) ==
  IF ~safe THEN -1 ELSE IF since[a] = -1 THEN 0 ELSE Lesser(since[a] + 1, QuietSlots)

Observed(a, safe) ==
  IF ~safe THEN -1
  ELSE IF since[a] = -1 \/ (previous[a] # -1 /\ previous[a] + 1 > 1) THEN 0
  ELSE Lesser(since[a] + 1, QuietSlots)

\* A slot in which each replica publishes, skips it, or raises and resets.
PublishSlot(missed, raised) ==
  LET published == Replicas \ (missed \cup raised) IN
  /\ since' = [a \in Replicas |->
       CASE a \in published -> Observed(a, Safe)
         [] a \in raised -> -1
         [] OTHER -> IF since[a] = -1 THEN -1 ELSE Lesser(since[a] + 1, QuietSlots)]
  /\ previous' = [a \in Replicas |->
       CASE a \in published -> 0
         [] a \in raised -> -1
         [] OTHER -> IF previous[a] = -1 THEN -1 ELSE Lesser(previous[a] + 1, 2)]
  /\ quiet' = IF published = {} \/ ~Safe THEN 0
              ELSE CHOOSE q \in 0 .. QuietSlots :
                     /\ \E a \in published : q = since'[a]
                     /\ \A a \in published : q <= since'[a]
  /\ hot' = IF published # {} /\ arrivals # {} THEN Lesser(hot + 1, HotSlots) ELSE 0
  /\ calm' = [a \in Replicas |->
       IF a \in published /\ Safe THEN Lesser(calm[a] + 1, QuietSlots) ELSE -1]
  /\ arrivals' = {} /\ UNCHANGED autoscaled
  /\ faults' = faults - Cardinality(missed \cup raised)

Slot ==
  IF autoscaled
    THEN \E missed \in SUBSET Replicas : \E raised \in SUBSET (Replicas \ missed) :
           Cardinality(missed \cup raised) <= faults /\ PublishSlot(missed, raised)
    ELSE UNCHANGED <<scalingVars, faults>>

\* The alarms of the step-scaling policies: ExactCapacity, up and down.
ScaleOut ==
  /\ autoscaled /\ hot = HotSlots /\ workers < Capacity
  /\ workers' = Capacity
  /\ UNCHANGED <<databaseVars, requests, queueVars, simulatorVars, faults, scalingVars>>

ScaleIn ==
  /\ autoscaled /\ quiet = QuietSlots /\ workers > 1
  /\ workers' = 1
  /\ UNCHANGED <<databaseVars, requests, queueVars, simulatorVars, faults, scalingVars>>
=============================================================================
