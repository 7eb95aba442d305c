---------------------- MODULE ElasticityExperimentProofs ----------------------
(***************************************************************************)
(* Proofs about ElasticityExperiment for any workload, number of replicas, *)
(* capacity, timing and number of failures.                                *)
(***************************************************************************)
EXTENDS ElasticityExperiment, FiniteSetTheorems, WellFoundedInduction, TLAPS

-----------------------------------------------------------------------------
(* The invariant of the decisions *)

\* Stages of the reset and the transition: only the fixed treatment has them.
BetweenStages ==
  {"inspect", "before", "truncate", "clear", "after", "purge", "purging", "verify", "resting",
   "absent", "pre_apply", "plan", "validate", "apply", "native", "settling", "post_apply"}

\* Stages in which a measurement is taken.
MeasureStages ==
  {"register", "sample", "load", "complete", "drain", "queues", "sleep", "receipts", "events",
   "deliveries", "judge"}

Types ==
  /\ row \in [Events -> {"none", "pending", "published"}]
  /\ reading \in [receipts : SUBSET Events, events : SUBSET Events, known : BOOLEAN]
  /\ treatment \in Treatments /\ stage \in Stages
  /\ complete \subseteq Treatments

\* What the reconciliation has read is still there when it decides, and what was
\* measured stays until the reset.
ReadingInv ==
  /\ stage \in {"events", "deliveries"} => reading.receipts \subseteq receipts
  /\ stage = "deliveries" => reading.events \subseteq Stored(treatment)
  /\ stage = "judge" /\ exact => Measured(treatment)
  /\ treatment = "fixed" /\ stage \in MeasureStages => "fixed" \notin complete
  /\ "fixed" \in complete /\ BeforeReset => Measured("fixed")
  /\ "elastic" \in complete => treatment = "elastic" /\ Measured("elastic")

\* The saved plan has been validated before it is applied, and it is applied once.
PolicyInv ==
  /\ stage \in BetweenStages => treatment = "fixed"
  /\ stage = "validate" => planned \in Plans
  /\ stage = "apply" => planned = Policy
  /\ InterventionIsThePolicy

Inv == Types /\ ReadingInv /\ PolicyInv

-----------------------------------------------------------------------------
(* The stores *)

\* What is stored, delivered or received stays so.
StoresGrow ==
  /\ \A e \in Events : row[e] # "none" => row'[e] # "none"
  /\ delivered \subseteq delivered' /\ receipts \subseteq receipts'

\* Only the reset takes anything away.
LEMMA EnvironmentGrows ==
  ASSUME Types, Environment
  PROVE  StoresGrow /\ row' \in [Events -> {"none", "pending", "published"}]
<1>1. CASE RequestStep
  BY <1>1 DEF RequestStep, SendRequest, AbandonRequest, StoreEvent, StoresGrow, Types,
    databaseVars, simulatorVars
<1>2. CASE DeliveryStep
  BY <1>2 DEF DeliveryStep, PublishEvent, ReceiveMessage, PostEvent, RecordAttempt, RefuseEvent,
    LoseWorker, VisibilityTimeout, LateCall, StoresGrow, Types, databaseVars, simulatorVars
<1>3. CASE ScaleOut \/ ScaleIn
  BY <1>3 DEF ScaleOut, ScaleIn, StoresGrow, Types, databaseVars, simulatorVars
<1>4. CASE PurgeStep
  BY <1>4 DEF PurgeStep, PurgeMessage, StoresGrow, Types, databaseVars
<1>5. QED
  BY <1>1, <1>2, <1>3, <1>4 DEF Environment

\* Requests, workers and alarms change nothing that the controller decides from, and
\* take nothing away that it has read.
LEMMA EnvironmentKeeps ==
  ASSUME Inv, Environment
  PROVE  Inv'
<1>1. StoresGrow /\ Types'
  BY EnvironmentGrows DEF Inv, Types, Environment
<1>2. UNCHANGED <<treatment, stage, reading, exact, complete, planned, changed>>
  BY DEF Environment, KeepsPlan
<1>3. ReadingInv'
  BY <1>1, <1>2 DEF Inv, Types, ReadingInv, StoresGrow, Stored, Measured, BeforeReset, Of,
    Events, Treatments
<1>4. PolicyInv'
  BY <1>2 DEF Inv, PolicyInv, InterventionIsThePolicy
<1>5. QED
  BY <1>1, <1>3, <1>4 DEF Inv

-----------------------------------------------------------------------------
(* The controller *)

\* An ordinary step of the controller takes nothing away; it goes on within one
\* part of the experiment, or on to the report, or stops.
Measuring == MeasureStages \ {"events", "deliveries", "judge"}
Evaluating == {"collect", "qualify", "inspect", "before", "truncate"}
Resetting == {"after", "purge", "purging", "verify", "resting", "absent", "pre_apply", "plan"}
Applied == {"native", "settling", "post_apply"}

Ordinary ==
  /\ StoresGrow /\ row' \in [Events -> {"none", "pending", "published"}]
  /\ UNCHANGED <<treatment, reading, exact, complete, planned, changed>>
  /\ \/ stage' \in {"report", "done", "stopped"}
     \/ stage' \in Measuring /\ stage \in Measuring
     \/ /\ stage' \in Evaluating /\ stage \in Evaluating
        /\ stage' \in {"collect", "qualify"} \/ treatment = "fixed"
     \/ stage' \in Resetting /\ stage \in Resetting
     \/ stage' \in Applied /\ stage \in Applied

\* An ordinary step keeps the invariant.
LEMMA OrdinaryKeeps ==
  ASSUME Inv, Ordinary
  PROVE  Inv'
<1>1. Types'
  BY DEF Inv, Types, Ordinary, Measuring, MeasureStages, Evaluating, Resetting, Applied, Stages
<1>2. ReadingInv'
  BY DEF Inv, Types, ReadingInv, PolicyInv, BetweenStages, Ordinary, Measuring,
    MeasureStages, Evaluating, Resetting,
    Applied, StoresGrow, Stored, Measured, BeforeReset, Of, Events, Treatments
<1>3. PolicyInv'
  BY DEF Inv, Types, PolicyInv, BetweenStages, Ordinary, Measuring, MeasureStages,
    Evaluating, Resetting, Applied,
    InterventionIsThePolicy, Treatments
<1>4. QED
  BY <1>1, <1>2, <1>3 DEF Inv

\* The stages of a measurement are ordinary but for the reconciliation.
LEMMA MeasuringIsOrdinary ==
  ASSUME Inv, Register \/ Sample \/ EndLoad \/ Complete \/ ReadSummary \/ ReadQueues
  PROVE  Ordinary
<1> USE DEF Inv, Types, Ordinary, StoresGrow, Measuring, MeasureStages, At, Goto, Stop,
  KeepsReading, KeepsResults,
  KeepsPlan, databaseVars, simulatorVars
<1>1. CASE Register
  BY <1>1 DEF Register, RegisterRun
<1>2. CASE Sample
  BY <1>2 DEF Sample
<1>3. CASE EndLoad
  BY <1>3 DEF EndLoad
<1>4. CASE Complete
  BY <1>4 DEF Complete, CompleteRun
<1>5. CASE ReadSummary
  BY <1>5 DEF ReadSummary
<1>6. CASE ReadQueues
  BY <1>6 DEF ReadQueues, KeepsStores
<1>7. QED
  BY <1>1, <1>2, <1>3, <1>4, <1>5, <1>6

\* So are those between a measurement and the reset, where they only look.
LEMMA EvaluatingIsOrdinary ==
  ASSUME Inv, CollectMetrics \/ Qualify \/ Inspect \/ InspectBefore \/ BuildComparison
  PROVE  Ordinary
<1> USE DEF Inv, Types, Ordinary, StoresGrow, Evaluating, At, Goto, Stop, KeepsReading,
  KeepsResults, KeepsMeasure,
  KeepsPlan, KeepsRecords, KeepsStores, databaseVars, simulatorVars, PolicyInv, BetweenStages
<1>1. CASE CollectMetrics
  BY <1>1 DEF CollectMetrics
<1>2. CASE Qualify
  BY <1>2 DEF Qualify
<1>3. CASE Inspect
  BY <1>3 DEF Inspect
<1>4. CASE InspectBefore
  BY <1>4 DEF InspectBefore
<1>5. CASE BuildComparison
  BY <1>5 DEF BuildComparison
<1>6. QED
  BY <1>1, <1>2, <1>3, <1>4, <1>5

\* And those of the reset after the truncation, which purge the queues at most.
LEMMA ResettingIsOrdinary ==
  ASSUME Inv, InspectAfter \/ Purge \/ EndPurge \/ VerifyEmpty \/ Absent \/ PreApply \/ VerifyNative
  PROVE  Ordinary
<1> USE DEF Inv, Types, Ordinary, StoresGrow, Resetting, Applied, At, Goto, Stop,
  KeepsReading, KeepsResults,
  KeepsMeasure, KeepsPlan, KeepsRecords, KeepsStores, databaseVars, simulatorVars
<1>1. CASE InspectAfter
  BY <1>1 DEF InspectAfter
<1>2. CASE Purge
  BY <1>2 DEF Purge
<1>3. CASE EndPurge
  BY <1>3 DEF EndPurge
<1>4. CASE VerifyEmpty
  BY <1>4 DEF VerifyEmpty
<1>5. CASE Absent
  BY <1>5 DEF Absent
<1>6. CASE PreApply
  BY <1>6 DEF PreApply
<1>7. CASE VerifyNative
  BY <1>7 DEF VerifyNative
<1>8. QED
  BY <1>1, <1>2, <1>3, <1>4, <1>5, <1>6, <1>7

\* A slot of the publishers passes while the controller sleeps.
LEMMA TickIsOrdinary ==
  ASSUME Inv, Tick
  PROVE  Ordinary
  BY DEF Tick, Inv, Types, Ordinary, StoresGrow, Measuring, MeasureStages, Resetting,
    Applied, At, Goto,
    KeepsReading, KeepsResults, KeepsPlan, databaseVars

\* The reconciliation reads one store after the other; by the time it has read the
\* attempts, what it compares them with is still there.
LEMMA ReconciliationKeeps ==
  ASSUME Inv, ReadReceipts \/ ReadEvents \/ ReadDeliveries \/ Judge
  PROVE  Inv'
<1> USE DEF Inv, Types, At, Goto, Stop, KeepsResults, KeepsPlan, KeepsRecords, KeepsStores,
  databaseVars, simulatorVars
<1>1. PolicyInv'
  BY DEF ReadReceipts, ReadEvents, ReadDeliveries, Judge, PolicyInv, BetweenStages,
    InterventionIsThePolicy
<1>2. CASE ReadReceipts
  <2>1. Types'
    <3>1. receipts \cap Of(treatment) \subseteq Events
      BY DEF Of, Events
    <3>2. [Unread EXCEPT !.receipts = receipts \cap Of(treatment)] \in
             [receipts : SUBSET Events, events : SUBSET Events, known : BOOLEAN]
      BY <3>1 DEF Unread
    <3>3. QED
      BY <1>2, <3>2 DEF ReadReceipts, Stages
  <2>2. ReadingInv'
    BY <1>2 DEF ReadReceipts, ReadingInv, Unread, MeasureStages, BeforeReset, Measured
  <2>3. QED
    BY <1>1, <2>1, <2>2
<1>3. CASE ReadEvents
  <2>1. Types'
    BY <1>3 DEF ReadEvents, Stored, Of, Events, Treatments, Stages
  <2>2. ReadingInv'
    BY <1>3 DEF ReadEvents, ReadingInv, Stored, MeasureStages, BeforeReset, Measured
  <2>3. QED
    BY <1>1, <2>1, <2>2
<1>4. CASE ReadDeliveries
  <2>1. Types'
    BY <1>4 DEF ReadDeliveries, Stages
  <2>2. ReadingInv'
    <3>1. stage' = "judge" /\ exact' => Measured(treatment)
      BY <1>4 DEF ReadDeliveries, ReconciliationPasses, ReadingInv, Measured, Stored
    <3>2. QED
      BY <1>4, <3>1 DEF ReadDeliveries, ReadingInv, MeasureStages, BeforeReset, Measured
  <2>3. QED
    BY <1>1, <2>1, <2>2
<1>5. CASE Judge
  <2>1. Types'
    BY <1>5 DEF Judge, Unread, Stages
  <2>2. ReadingInv'
    BY <1>5 DEF Judge, MeasurementComplete, ReadingInv, MeasureStages, BeforeReset,
      Measured, Treatments
  <2>3. QED
    BY <1>1, <2>1, <2>2
<1>6. QED
  BY <1>2, <1>3, <1>4, <1>5

\* The reset removes what the fixed treatment left, when nobody reads it any more.
LEMMA RemovalKeeps ==
  ASSUME Inv, Truncate \/ Clear
  PROVE  Inv'
<1> USE DEF Inv, Types, At, Goto, Stop, KeepsMeasure, KeepsReading, KeepsPlan, Truncate,
  Clear, TruncateExperiment
<1>1. Types'
  BY DEF Stages, databaseVars
<1>2. ReadingInv'
  BY DEF ReadingInv, PolicyInv, BetweenStages, MeasureStages, BeforeReset
<1>3. PolicyInv'
  BY DEF PolicyInv, BetweenStages, InterventionIsThePolicy
<1>4. QED
  BY <1>1, <1>2, <1>3

\* A plan that passes the validation is the policy.
LEMMA ValidatedIsPolicy ==
  ASSUME planned \in Plans, OnlyPolicyPlanned, PlannedAsFrozen
  PROVE  planned = Policy
<1>1. PICK S \in SUBSET (PolicyResources \cup {"services"}) : planned \in [S -> {"frozen", "other"}]
  BY DEF Plans
<1>2. S = PolicyResources
  BY <1>1 DEF OnlyPolicyPlanned
<1>3. QED
  BY <1>1, <1>2 DEF PlannedAsFrozen, Policy

\* The transition: a plan is saved, validated, applied, and the replay begins.
LEMMA TransitionKeeps ==
  ASSUME Inv, PlanPolicy \/ ValidatePlan \/ Apply \/ PostApply
  PROVE  Inv'
<1> USE DEF Inv, Types, At, Goto, Stop, KeepsMeasure, KeepsReading, KeepsPlan, KeepsRecords,
  KeepsStores, recordVars,
  databaseVars, simulatorVars, PlanPolicy, ValidatePlan, Apply, PostApply
<1>1. Types'
  BY DEF Stages, Treatments
<1>2. ReadingInv'
  BY DEF ReadingInv, PolicyInv, BetweenStages, MeasureStages, BeforeReset, Measured
<1>3. PolicyInv'
  <2>1. CASE PlanPolicy
    <3>1. Policy \in Plans
      BY DEF Policy, Plans
    <3>2. QED
      BY <2>1, <3>1 DEF PolicyInv, BetweenStages, InterventionIsThePolicy
  <2>2. CASE ValidatePlan
    BY <2>2, ValidatedIsPolicy DEF PolicyInv, BetweenStages, InterventionIsThePolicy
  <2>3. CASE Apply
    BY <2>3 DEF PolicyInv, BetweenStages, InterventionIsThePolicy
  <2>4. CASE PostApply
    BY <2>4 DEF PolicyInv, BetweenStages, InterventionIsThePolicy
  <2>5. QED
    BY <2>1, <2>2, <2>3, <2>4
<1>4. QED
  BY <1>1, <1>2, <1>3

-----------------------------------------------------------------------------
(* The theorems about the decisions *)

\* Every step of the experiment, of its environment and of time keeps the invariant.
LEMMA NextKeeps ==
  ASSUME Inv, [Next]_vars
  PROVE  Inv'
<1>1. CASE Controller
  BY <1>1, OrdinaryKeeps, MeasuringIsOrdinary, EvaluatingIsOrdinary, ResettingIsOrdinary,
    ReconciliationKeeps,
    RemovalKeeps, TransitionKeeps DEF Controller
<1>2. CASE Tick
  BY <1>2, TickIsOrdinary, OrdinaryKeeps
<1>3. CASE Environment
  BY <1>3, EnvironmentKeeps
<1>4. CASE UNCHANGED vars
  BY <1>4 DEF vars, recordVars, databaseVars, simulatorVars, controlVars, Inv, Types,
    ReadingInv, PolicyInv, Stored,
    Measured, BeforeReset, InterventionIsThePolicy
<1>5. QED
  BY <1>1, <1>2, <1>3, <1>4 DEF Next

\* The reconciliation, the reset and the transition of the experiment keep their
\* invariant, for any workload, number of replicas, timing and number of failures.
THEOREM ExperimentInvariant == Spec => []Inv
<1>1. Init => Inv
  BY DEF Init, RecordsInit, Inv, Types, ReadingInv, PolicyInv, InterventionIsThePolicy,
    BetweenStages, BeforeReset,
    Unread, Treatments, Stages
<1>2. Inv /\ [Next]_vars => Inv'
  BY NextKeeps
<1>3. QED
  BY <1>1, <1>2, PTL DEF Spec

\* A measurement that counts as complete (measurement_complete of the results) is one
\* of all events: each was stored, delivered and received, and stays so until the reset.
THEOREM CompletenessIsReal == Spec => []CompleteIsMeasured
<1>1. Inv => CompleteIsMeasured
  BY DEF Inv, ReadingInv, CompleteIsMeasured
<1>2. QED
  BY <1>1, ExperimentInvariant, PTL

\* What Terraform changed before the replay is the frozen policy, whatever it planned.
THEOREM OnlyThePolicyChanges == Spec => []InterventionIsThePolicy
<1>1. Inv => InterventionIsThePolicy
  BY DEF Inv, PolicyInv
<1>2. QED
  BY <1>1, ExperimentInvariant, PTL

-----------------------------------------------------------------------------
(* The types *)

\* What the samples of a treatment have shown.
Observations ==
  [first : BOOLEAN, fixed : BOOLEAN, pressed : BOOLEAN, expanded : BOOLEAN, low : Int,
   last : BOOLEAN, failed : BOOLEAN, drained : BOOLEAN]

\* How far the clock may be in each stage, and how many attempts it may have seen.
CounterInv ==
  /\ clock \in 0 .. (LoadTicks + DrainDeadline + VerifyDeadline + NativeDeadline + 1)
  /\ stage \in {"sample", "load"} => clock <= LoadTicks
  /\ stage = "drain" => clock <= DrainDeadline + 1
  /\ stage \in {"queues", "sleep"} => clock <= DrainDeadline
  /\ stage = "purging" => clock <= PurgeTicks
  /\ stage = "verify" => clock <= VerifyDeadline
  /\ stage = "resting" => clock < VerifyDeadline
  /\ stage = "native" => clock <= NativeDeadline
  /\ stage = "settling" => clock < NativeDeadline
  /\ stable \in -1 .. (DrainTicks + VerifyTicks)
  /\ attempts \in 0 .. MaxAttempts
  /\ stage \in MeasureStages \ {"register"} => attempts = 0
  /\ stage = "collect" => attempts < MaxAttempts

\* The results and the plans.
ResultInv ==
  /\ confirmed \in BOOLEAN /\ exact \in BOOLEAN
  /\ seen \in Observations /\ peak \in [Treatments -> 0 .. Capacity]
  /\ qualified \subseteq complete
  /\ planned \in Plans /\ changed \in Plans
  /\ report \in {"none", "demonstrated", "not_demonstrated"}

TypeInv == RecordsTypeOK /\ ScalingTypeOK /\ CounterInv /\ ResultInv

-----------------------------------------------------------------------------
(* The quiet windows *)

\* The window of a replica that observed the last slot is as old as the calm that it
\* saw; one that has observed nothing has no window.
WindowInv ==
  /\ calm \in [Replicas -> -1 .. QuietSlots]
  /\ \A a \in Replicas :
       /\ previous[a] = 0 => since[a] <= calm[a]
       /\ previous[a] = -1 => since[a] = -1
  /\ QuietIsReal

-----------------------------------------------------------------------------
(* The comparison *)

\* There is one worker until the policy is applied, and the peak of a load is kept.
PeakInv ==
  /\ autoscaled => treatment = "elastic" \/ stage \in Applied \cup {"stopped"}
  /\ ~autoscaled => workers = 1
  /\ stage # "register" \/ treatment = "elastic" => peak["fixed"] = 1
  /\ (treatment = "elastic" /\ Loading /\ workers = Capacity) => peak["elastic"] = Capacity
  /\ (treatment = "elastic" /\ stage \notin {"register", "stopped"} /\ seen.expanded)
       => peak["elastic"] = Capacity

\* What qualified has been observed in full, and the observations stay as they were.
QualifiedInv ==
  /\ "elastic" \in complete
       => ~seen.failed /\ stage \in {"collect", "qualify", "report", "done", "stopped"}
  /\ "elastic" \in qualified
       => seen.expanded /\ seen.low >= RecoveryTicks /\ stage \in {"report", "done", "stopped"}
  /\ stage \in {"report", "done"} => treatment = "elastic"
  /\ report = "demonstrated" => Treatments \subseteq qualified /\ stage = "done"

-----------------------------------------------------------------------------
(* The types of the stores *)

\* A set of numbers that is not empty has a least one.
LEMMA LeastExists ==
  ASSUME NEW T \in SUBSET Nat, T # {}
  PROVE  \E m \in T : \A n \in T : m <= n
<1>1. PICK m \in T : \A n \in T : ~ (<<n, m>> \in OpToRel(<, Nat))
  BY NatLessThanWellFounded, WFMin
<1>2. \A n \in T : ~ (n < m)
  BY <1>1 DEF OpToRel
<1>3. QED
  BY <1>2

\* Requests and deliveries keep the types of what they change.
LEMMA EnvironmentTypes ==
  ASSUME Inv, TypeInv, Environment
  PROVE  RecordsTypeOK' /\ ScalingTypeOK'
<1>0. Cardinality(Names) \in Nat
  BY RecordsAssumption, FS_CardinalityType
<1> USE RecordsAssumption, ScalingAssumption DEF TypeInv, RecordsTypeOK, ScalingTypeOK, Fault,
  databaseVars, queueVars, simulatorVars, scalingVars
<1>1. CASE RequestStep /\ UNCHANGED <<since, previous, quiet, hot, autoscaled, calm, peak>>
  <2>1. CASE \E e \in Of(treatment) : (SendRequest(e) \/ AbandonRequest(e)) /\ UNCHANGED arrivals
    BY <1>1, <2>1 DEF SendRequest, AbandonRequest, Of, Events, Inv, Types
  <2>2. CASE \E e \in Events :
               StoreEvent(e) /\ arrivals' = IF autoscaled THEN arrivals \cup {e} ELSE {}
    BY <1>1, <2>2 DEF StoreEvent
  <2>3. QED
    BY <1>1, <2>1, <2>2 DEF RequestStep
<1>2. CASE DeliveryStep /\ UNCHANGED <<scalingVars, peak>>
  <2>1. PICK e \in Events :
          \/ PublishEvent(e) \/ ReceiveMessage(e) \/ PostEvent(e) \/ RecordAttempt(e)
          \/ RefuseEvent(e) \/ LoseWorker(e) \/ VisibilityTimeout(e) \/ LateCall(e)
    BY <1>2 DEF DeliveryStep
  <2>2. CASE PublishEvent(e) \/ ReceiveMessage(e) \/ PostEvent(e) \/ RecordAttempt(e)
    BY <1>0, <1>2, <2>2 DEF PublishEvent, ReceiveMessage, PostEvent, RecordAttempt, AddAttempt
  <2>3. CASE RefuseEvent(e) \/ LoseWorker(e) \/ VisibilityTimeout(e) \/ LateCall(e)
    BY <1>0, <1>2, <2>3 DEF RefuseEvent, AddAttempt, LoseWorker, VisibilityTimeout, LateCall
  <2>4. QED
    BY <2>1, <2>2, <2>3
<1>3. CASE ScaleOut
  BY <1>3 DEF ScaleOut
<1>4. CASE ScaleIn
  BY <1>4 DEF ScaleIn
<1>5. CASE PurgeStep /\ UNCHANGED <<scalingVars, peak>>
  BY <1>5 DEF PurgeStep, PurgeMessage
<1>6. QED
  BY <1>1, <1>2, <1>3, <1>4, <1>5 DEF Environment

\* What the replicas publish in a slot.
PublishedBy(missed, raised) == Replicas \ (missed \cup raised)

\* The quiet metric of a slot is the age of the youngest window that was published.
LEMMA QuietIsYoungest ==
  ASSUME TypeInv, NEW missed, NEW raised, PublishSlot(missed, raised),
         PublishedBy(missed, raised) # {}, Safe
  PROVE  /\ quiet' \in 0 .. QuietSlots
         /\ \E a \in PublishedBy(missed, raised) : quiet' = since'[a]
<1> DEFINE P == PublishedBy(missed, raised)
           Ages == {since'[a] : a \in P}
<1>1. \A a \in P : since'[a] \in 0 .. QuietSlots
  BY ScalingAssumption DEF PublishSlot, PublishedBy, Observed, Lesser, TypeInv, ScalingTypeOK
<1>2. Ages \in SUBSET Nat /\ Ages # {}
  BY <1>1, ScalingAssumption
<1>3. PICK m \in Ages : \A n \in Ages : m <= n
  BY <1>2, LeastExists
<1>4. \E q \in 0 .. QuietSlots : (\E a \in P : q = since'[a]) /\ (\A a \in P : q <= since'[a])
  BY <1>1, <1>3
<1>5. quiet' = CHOOSE q \in 0 .. QuietSlots :
                 (\E a \in P : q = since'[a]) /\ (\A a \in P : q <= since'[a])
  BY DEF PublishSlot, PublishedBy
<1>6. QED
  BY <1>4, <1>5

\* A slot keeps the types of the windows and of the metrics.
LEMMA SlotTypes ==
  ASSUME TypeInv, Slot, UNCHANGED workers
  PROVE  ScalingTypeOK' /\ faults' \in 0 .. MaxFaults
<1> USE ScalingAssumption, RecordsAssumption DEF TypeInv, ScalingTypeOK, RecordsTypeOK
<1>1. CASE autoscaled
  <2>1. PICK missed \in SUBSET Replicas : \E raised \in SUBSET (Replicas \ missed) :
           Cardinality(missed \cup raised) <= faults /\ PublishSlot(missed, raised)
    BY <1>1 DEF Slot
  <2>2. PICK raised \in SUBSET (Replicas \ missed) :
           Cardinality(missed \cup raised) <= faults /\ PublishSlot(missed, raised)
    BY <2>1
  <2>3. Cardinality(missed \cup raised) \in Nat
    BY FS_Subset, FS_CardinalityType
  <2>4. faults' \in 0 .. MaxFaults
    BY <2>2, <2>3 DEF PublishSlot
  <2>5. since' \in [Replicas -> -1 .. QuietSlots] /\ previous' \in [Replicas -> -1 .. 2]
    BY <2>2 DEF PublishSlot, Observed, Lesser
  <2>6. hot' \in 0 .. HotSlots /\ arrivals' \subseteq Events /\ autoscaled' \in BOOLEAN
    BY <2>2 DEF PublishSlot, Lesser
  <2>7. quiet' \in 0 .. QuietSlots
    <3>1. CASE PublishedBy(missed, raised) # {} /\ Safe
      BY <2>2, <3>1, QuietIsYoungest
    <3>2. CASE ~(PublishedBy(missed, raised) # {} /\ Safe)
      BY <2>2, <3>2 DEF PublishSlot, PublishedBy
    <3>3. QED
      BY <3>1, <3>2
  <2>8. QED
    BY <2>4, <2>5, <2>6, <2>7
<1>2. CASE ~autoscaled
  BY <1>2 DEF Slot, scalingVars
<1>3. QED
  BY <1>1, <1>2


\* The controller keeps the types of the stores, whichever of them it touches.
LEMMA ControllerTypes ==
  ASSUME Inv, TypeInv, Controller
  PROVE  RecordsTypeOK' /\ ScalingTypeOK'
<1> USE RecordsAssumption, ScalingAssumption DEF TypeInv, RecordsTypeOK, ScalingTypeOK, Fault,
  QueuesAnswer, databaseVars, queueVars, simulatorVars, scalingVars, KeepsStores, KeepsRecords
<1>1. CASE Register \/ Complete
  BY <1>1 DEF Register, RegisterRun, Complete, CompleteRun, Inv, Types
<1>2. CASE EndLoad
  BY <1>2 DEF EndLoad
<1>3. CASE Sample \/ ReadSummary
  BY <1>3 DEF Sample, ReadSummary
<1>4. CASE ReadQueues \/ Inspect \/ VerifyEmpty
  <2>1. CASE ReadQueues
    BY <2>1 DEF ReadQueues
  <2>2. CASE Inspect
    BY <2>2 DEF Inspect
  <2>3. CASE VerifyEmpty
    BY <2>3 DEF VerifyEmpty
  <2>4. QED
    BY <1>4, <2>1, <2>2, <2>3
<1>5. CASE PreApply \/ PlanPolicy \/ PostApply
  BY <1>5 DEF PreApply, PlanPolicy, PostApply
<1>6. CASE ReadReceipts \/ ReadEvents \/ ReadDeliveries \/ Judge
  BY <1>6 DEF ReadReceipts, ReadEvents, ReadDeliveries, Judge
<1>7. CASE CollectMetrics \/ Qualify \/ InspectBefore \/ InspectAfter \/ EndPurge \/ Absent
  BY <1>7 DEF CollectMetrics, Qualify, InspectBefore, InspectAfter, EndPurge, Absent
<1>8. CASE ValidatePlan \/ VerifyNative \/ BuildComparison
  BY <1>8 DEF ValidatePlan, VerifyNative, BuildComparison
<1>9. CASE Truncate \/ Clear
  <2>1. 0 \in 0 .. Cardinality(Names)
    BY FS_CardinalityType
  <2>2. QED
    BY <1>9, <2>1 DEF Truncate, TruncateExperiment, Clear, ClearSimulator
<1>10. CASE Purge
  BY <1>10 DEF Purge
<1>11. CASE Apply
  <2>1. RecordsTypeOK' /\ workers' \in 1 .. Capacity
    BY <1>11 DEF Apply, recordVars
  <2>2. CASE UNCHANGED scalingVars
    BY <2>1, <2>2
  <2>3. CASE ~UNCHANGED scalingVars
    <3>1. PICK age \in {-1, QuietSlots} :
            /\ since' = [a \in Replicas |-> age]
            /\ previous' = [a \in Replicas |-> IF age = -1 THEN -1 ELSE 0]
            /\ autoscaled' = TRUE /\ quiet' = 0 /\ hot' = 0 /\ arrivals' = {}
      BY <1>11, <2>3 DEF Apply
    <3>2. QED
      BY <2>1, <3>1
  <2>4. QED
    BY <2>2, <2>3
<1>12. QED
  BY <1>1, <1>2, <1>3, <1>4, <1>5, <1>6, <1>7, <1>8, <1>9, <1>10, <1>11 DEF Controller

\* Time ages the requests without a sender, and the windows.
LEMMA TickTypes ==
  ASSUME Inv, TypeInv, Tick
  PROVE  RecordsTypeOK' /\ ScalingTypeOK'
<1>1. ScalingTypeOK' /\ faults' \in 0 .. MaxFaults
  BY SlotTypes DEF Tick
<1>2. calls' \in [Events -> 0 .. CallLife]
  BY RecordsAssumption DEF Tick, CallsAge, TypeInv, RecordsTypeOK
<1>3. QED
  BY <1>1, <1>2 DEF Tick, TypeInv, RecordsTypeOK, databaseVars, queueVars

-----------------------------------------------------------------------------
(* The types of the controller *)

\* The clock starts again wherever another deadline is waited for.
LEMMA CountersKeep ==
  ASSUME Inv, TypeInv, Controller \/ Tick \/ Environment
  PROVE  CounterInv'
<1> USE TimesAssumption DEF TypeInv, CounterInv, At, Goto, Stop, KeepsTimes, KeepsMeasure,
  MeasureStages
<1>1. CASE Register \/ Sample \/ EndLoad \/ Complete
  BY <1>1 DEF Register, Sample, EndLoad, Complete
<1>2. CASE ReadSummary
  BY <1>2 DEF ReadSummary
<1>3. CASE ReadQueues
  BY <1>3 DEF ReadQueues
<1>4. CASE ReadReceipts \/ ReadEvents \/ ReadDeliveries \/ Judge
  BY <1>4 DEF ReadReceipts, ReadEvents, ReadDeliveries, Judge
<1>5. CASE CollectMetrics
  BY <1>5 DEF CollectMetrics
<1>6. CASE Qualify \/ Inspect \/ InspectBefore \/ Truncate \/ Clear \/ InspectAfter \/ Absent
  BY <1>6 DEF Qualify, Inspect, InspectBefore, Truncate, Clear, InspectAfter, Absent
<1>7. CASE Purge \/ EndPurge
  BY <1>7 DEF Purge, EndPurge
<1>8. CASE VerifyEmpty
  BY <1>8 DEF VerifyEmpty
<1>9. CASE PreApply \/ PlanPolicy \/ ValidatePlan \/ Apply \/ PostApply
  BY <1>9 DEF PreApply, PlanPolicy, ValidatePlan, Apply, PostApply
<1>10. CASE VerifyNative \/ BuildComparison
  BY <1>10 DEF VerifyNative, BuildComparison
<1>11. CASE Tick
  BY <1>11 DEF Tick, Older, Lesser
<1>12. CASE Environment
  BY <1>12 DEF Environment
<1>13. QED
  BY <1>1, <1>2, <1>3, <1>4, <1>5, <1>6, <1>7, <1>8, <1>9, <1>10, <1>11, <1>12 DEF Controller

\* Observations stay observations, whatever a field of theirs becomes.
LEMMA ObservationsTypes ==
  ASSUME seen \in Observations, NEW first \in BOOLEAN, NEW fixed \in BOOLEAN,
         NEW pressed \in BOOLEAN, NEW expanded \in BOOLEAN, NEW last \in BOOLEAN, NEW low \in Int
  PROVE  /\ [seen EXCEPT !.first = first, !.fixed = fixed, !.pressed = pressed,
                          !.expanded = expanded, !.last = last, !.low = low] \in Observations
         /\ [seen EXCEPT !.failed = TRUE, !.low = low] \in Observations
<1>1. [seen EXCEPT !.first = first, !.fixed = fixed, !.pressed = pressed,
                   !.expanded = expanded, !.last = last, !.low = low] \in Observations
  BY DEF Observations
<1>2. [seen EXCEPT !.failed = TRUE, !.low = low] \in Observations
  BY DEF Observations
<1>3. QED
  BY <1>1, <1>2

\* A sample adds to the observations of its treatment.
LEMMA SampledTypes ==
  ASSUME TypeInv
  PROVE  /\ Sampled \in Observations /\ Unseen \in Observations
         /\ [seen EXCEPT !.failed = TRUE, !.low = -1] \in Observations
         /\ [seen EXCEPT !.failed = TRUE, !.drained = FALSE] \in Observations
         /\ \A d \in BOOLEAN : [seen EXCEPT !.drained = d] \in Observations
         /\ \A d \in BOOLEAN : [seen EXCEPT !.drained = d, !.fixed = @ /\ workers = 1,
                                            !.last = AtMinimum] \in Observations
<1>0. seen \in Observations
  BY DEF TypeInv, ResultInv
<1>1. Sampled \in Observations
  <2> DEFINE first == IF clock = 0 THEN workers = 1 ELSE seen.first
             fixed == seen.fixed /\ workers = 1
             pressed == seen.pressed \/ (InPeak /\ QueueWork # {})
             expanded == seen.expanded \/ (InPeak /\ workers = Capacity)
             low == IF ~InPeak /\ workers = 1
                      THEN IF seen.low = -1 THEN 0 ELSE seen.low + 1 ELSE -1
             last == workers = 1
  <2>1. /\ first \in BOOLEAN /\ fixed \in BOOLEAN /\ pressed \in BOOLEAN
        /\ expanded \in BOOLEAN /\ last \in BOOLEAN
    BY <1>0 DEF Observations
  <2>2. low \in Int
    BY <1>0 DEF Observations
  <2>3. Sampled = [seen EXCEPT !.first = first, !.fixed = fixed, !.pressed = pressed,
                               !.expanded = expanded, !.last = last, !.low = low]
    BY DEF Sampled, AtMinimum
  <2> HIDE DEF first, fixed, pressed, expanded, low, last
  <2>4. QED
    BY <1>0, <2>1, <2>2, <2>3, ObservationsTypes
<1>2. Unseen \in Observations
  BY DEF Unseen, Observations
<1>3. [seen EXCEPT !.failed = TRUE, !.low = -1] \in Observations
  <2>1. -1 \in Int
    OBVIOUS
  <2>2. QED
    BY <1>0, <2>1, ObservationsTypes
<1>4. [seen EXCEPT !.failed = TRUE, !.drained = FALSE] \in Observations
  BY <1>0 DEF Observations
<1>5. ASSUME NEW d \in BOOLEAN
      PROVE  /\ [seen EXCEPT !.drained = d] \in Observations
             /\ [seen EXCEPT !.drained = d, !.fixed = @ /\ workers = 1,
                             !.last = AtMinimum] \in Observations
  BY <1>0 DEF Observations, AtMinimum
<1>6. QED
  BY <1>1, <1>2, <1>3, <1>4, <1>5

\* Whatever is planned and whatever part of it is applied is one of the plans.
LEMMA PlansArePlans ==
  /\ Policy \in Plans /\ <<>> \in Plans
  /\ \A plan \in Plans : \A S \in SUBSET DOMAIN plan : Only(plan, S) \in Plans
<1>1. Policy \in Plans
  BY DEF Policy, Plans
<1>2. <<>> \in Plans
  <2>1. <<>> \in [{} -> {"frozen", "other"}]
    OBVIOUS
  <2>2. QED
    BY <2>1 DEF Plans
<1>3. ASSUME NEW plan \in Plans, NEW S \in SUBSET DOMAIN plan
      PROVE  Only(plan, S) \in Plans
  <2>1. PICK R \in SUBSET (PolicyResources \cup {"services"}) : plan \in [R -> {"frozen", "other"}]
    BY DEF Plans
  <2>2. /\ S \in SUBSET (PolicyResources \cup {"services"})
        /\ Only(plan, S) \in [S -> {"frozen", "other"}]
    BY <2>1 DEF Only
  <2>3. QED
    BY <2>2 DEF Plans
<1>4. QED
  BY <1>1, <1>2, <1>3

\* The results, the observations and the plans keep their types.
LEMMA ResultsKeep ==
  ASSUME Inv, TypeInv, Controller \/ Tick \/ Environment
  PROVE  ResultInv'
<1> USE DEF TypeInv, ResultInv, KeepsResults, KeepsReading, KeepsMeasure, KeepsPlan
<1>1. CASE Register
  <2>1. peak' \in [Treatments -> 0 .. Capacity]
    <3>1. workers \in 0 .. Capacity
      BY ScalingAssumption DEF ScalingTypeOK
    <3>2. peak' = [peak EXCEPT ![treatment] = workers]
      BY <1>1 DEF Register
    <3>3. QED
      BY <3>1, <3>2
  <2>2. seen' \in Observations /\ confirmed' \in BOOLEAN
    BY <1>1, SampledTypes DEF Register
  <2>3. QED
    BY <1>1, <2>1, <2>2 DEF Register
<1>2. CASE Sample \/ EndLoad \/ Complete
  BY <1>2, SampledTypes DEF Sample, EndLoad, Complete
<1>3. CASE ReadSummary
  BY <1>3, SampledTypes DEF ReadSummary, DatabaseDrained
<1>4. CASE ReadQueues
  <2>1. PICK empty \in BOOLEAN :
          /\ seen' = [seen EXCEPT !.drained = seen.drained /\ empty, !.fixed = @ /\ workers = 1,
                                   !.last = AtMinimum]
          /\ confirmed' = (seen.drained /\ empty /\ stable >= DrainTicks)
    BY <1>4 DEF ReadQueues
  <2>2. seen' \in Observations
    BY <2>1, SampledTypes
  <2>3. confirmed' \in BOOLEAN
    BY <2>1
  <2>4. QED
    BY <1>4, <2>2, <2>3 DEF ReadQueues
<1>5. CASE ReadReceipts \/ ReadEvents
  BY <1>5 DEF ReadReceipts, ReadEvents
<1>6. CASE ReadDeliveries
  BY <1>6 DEF ReadDeliveries, ReconciliationPasses
<1>7. CASE Judge
  BY <1>7 DEF Judge
<1>8. CASE CollectMetrics \/ Qualify \/ BuildComparison
  BY <1>8 DEF CollectMetrics, Qualify, BuildComparison
<1>9. CASE Inspect \/ InspectBefore \/ Truncate \/ Clear \/ InspectAfter \/ Purge \/ EndPurge
  BY <1>9 DEF Inspect, InspectBefore, Truncate, Clear, InspectAfter, Purge, EndPurge
<1>10. CASE VerifyEmpty \/ Absent \/ PreApply \/ ValidatePlan \/ VerifyNative \/ PostApply
  BY <1>10 DEF VerifyEmpty, Absent, PreApply, ValidatePlan, VerifyNative, PostApply
<1>11. CASE PlanPolicy
  BY <1>11, PlansArePlans DEF PlanPolicy
<1>12. CASE Apply
  BY <1>12, PlansArePlans DEF Apply
<1>13. CASE Tick
  BY <1>13 DEF Tick
<1>14. CASE Environment
  BY <1>14, ScalingAssumption DEF Environment
<1>15. QED
  BY <1>1, <1>2, <1>3, <1>4, <1>5, <1>6, <1>7, <1>8, <1>9, <1>10, <1>11, <1>12, <1>13, <1>14
  DEF Controller

\* Every step keeps the types.
LEMMA TypesKeep ==
  ASSUME Inv, TypeInv, [Next]_vars
  PROVE  TypeInv'
<1>1. CASE Controller \/ Tick \/ Environment
  BY <1>1, EnvironmentTypes, ControllerTypes, TickTypes, CountersKeep, ResultsKeep DEF TypeInv
<1>2. CASE UNCHANGED vars
  BY <1>2 DEF vars, recordVars, databaseVars, queueVars, simulatorVars, scalingVars,
    controlVars, TypeInv, RecordsTypeOK, ScalingTypeOK, CounterInv, ResultInv
<1>3. QED
  BY <1>1, <1>2 DEF Next


-----------------------------------------------------------------------------
(* The quiet windows *)

\* An observation behind a gap starts its window again, and one without a window before
\* it starts one: a window is never older than the calm.
LEMMA PublishKeepsWindows ==
  ASSUME TypeInv, WindowInv, NEW missed, NEW raised, PublishSlot(missed, raised)
  PROVE  WindowInv'
<1> DEFINE P == PublishedBy(missed, raised)
<1> USE ScalingAssumption DEF TypeInv, ScalingTypeOK, WindowInv
<1>1. /\ since' = [a \in Replicas |->
            IF a \in P THEN Observed(a, Safe)
            ELSE IF a \in raised \/ since[a] = -1 THEN -1 ELSE Lesser(since[a] + 1, QuietSlots)]
      /\ previous' = [a \in Replicas |->
            IF a \in P THEN 0
            ELSE IF a \in raised \/ previous[a] = -1 THEN -1 ELSE Lesser(previous[a] + 1, 2)]
      /\ calm' = [a \in Replicas |->
            IF a \in P /\ Safe THEN Lesser(calm[a] + 1, QuietSlots) ELSE -1]
  BY DEF PublishSlot, PublishedBy
<1>2. calm' \in [Replicas -> -1 .. QuietSlots]
  BY <1>1 DEF Lesser
<1>3. ASSUME NEW a \in Replicas
      PROVE  (previous'[a] = 0 => since'[a] <= calm'[a]) /\ (previous'[a] = -1 => since'[a] = -1)
  <2>1. CASE a \in P /\ Safe
    BY <1>1, <1>2, <2>1 DEF Observed, Lesser
  <2>2. CASE a \in P /\ ~Safe
    BY <1>1, <2>2 DEF Observed
  <2>3. CASE a \notin P
    BY <1>1, <2>3 DEF Lesser
  <2>4. QED
    BY <2>1, <2>2, <2>3
<1>4. QuietIsReal'
  <2>1. CASE P # {} /\ Safe
    <3>1. PICK a \in P : quiet' = since'[a]
      BY <2>1, QuietIsYoungest
    <3>2. a \in Replicas /\ previous'[a] = 0
      BY <1>1, <3>1 DEF PublishedBy
    <3>3. calm'[a] >= quiet'
      BY <1>2, <1>3, <3>1, <3>2, TypeInv
    <3>4. QED
      BY <3>2, <3>3 DEF QuietIsReal
  <2>2. CASE ~(P # {} /\ Safe)
    BY <2>2 DEF PublishSlot, PublishedBy, QuietIsReal
  <2>3. QED
    BY <2>1, <2>2
<1>5. QED
  BY <1>2, <1>3, <1>4

\* No other step of the controller touches the telemetry or the alarms.
LEMMA UntouchedScaling ==
  ASSUME Controller, ~Apply
  PROVE  UNCHANGED scalingVars
<1> USE DEF KeepsStores, KeepsRecords
<1>1. CASE Register \/ Sample \/ EndLoad \/ Complete \/ ReadSummary \/ ReadQueues
  BY <1>1 DEF Register, Sample, EndLoad, Complete, ReadSummary, ReadQueues
<1>2. CASE ReadReceipts \/ ReadEvents \/ ReadDeliveries \/ Judge \/ CollectMetrics \/ Qualify
  BY <1>2 DEF ReadReceipts, ReadEvents, ReadDeliveries, Judge, CollectMetrics, Qualify
<1>3. CASE Inspect \/ InspectBefore \/ Truncate \/ Clear \/ InspectAfter \/ Purge \/ EndPurge
  BY <1>3 DEF Inspect, InspectBefore, Truncate, Clear, InspectAfter, Purge, EndPurge
<1>4. CASE \/ VerifyEmpty \/ Absent \/ PreApply \/ PlanPolicy \/ ValidatePlan \/ VerifyNative
           \/ PostApply \/ BuildComparison
  BY <1>4 DEF VerifyEmpty, Absent, PreApply, PlanPolicy, ValidatePlan, VerifyNative, PostApply,
    BuildComparison
<1>5. QED
  BY <1>1, <1>2, <1>3, <1>4 DEF Controller

\* Only a slot and the apply touch the windows.
LEMMA WindowsKeep ==
  ASSUME Inv, TypeInv, WindowInv, [Next]_vars
  PROVE  WindowInv'
<1>1. ASSUME UNCHANGED <<since, previous, quiet, calm>>
      PROVE  WindowInv'
  BY <1>1 DEF WindowInv, QuietIsReal
<1>2. CASE Tick
  <2>1. CASE autoscaled
    BY <1>2, <2>1, PublishKeepsWindows DEF Tick, Slot
  <2>2. CASE ~autoscaled
    BY <1>1, <1>2, <2>2 DEF Tick, Slot, scalingVars
  <2>3. QED
    BY <2>1, <2>2
<1>3. CASE Apply
  <2>1. CASE UNCHANGED scalingVars
    BY <1>1, <2>1 DEF scalingVars
  <2>2. CASE ~UNCHANGED scalingVars
    <3>1. PICK age \in {-1, QuietSlots} :
            /\ since' = [a \in Replicas |-> age]
            /\ previous' = [a \in Replicas |-> IF age = -1 THEN -1 ELSE 0]
            /\ calm' = since' /\ quiet' = 0
      BY <1>3, <2>2 DEF Apply
    <3>2. QED
      BY <3>1, ScalingAssumption DEF WindowInv, QuietIsReal
  <2>3. QED
    BY <2>1, <2>2
<1>4. CASE Environment
  BY <1>1, <1>4 DEF Environment, scalingVars, ScaleOut, ScaleIn
<1>5. CASE Controller /\ ~Apply
  <2>1. UNCHANGED scalingVars
    BY <1>5, UntouchedScaling
  <2>2. QED
    BY <1>1, <2>1 DEF scalingVars
<1>6. CASE UNCHANGED vars
  BY <1>1, <1>6 DEF vars, scalingVars
<1>7. QED
  BY <1>2, <1>3, <1>4, <1>5, <1>6 DEF Next

-----------------------------------------------------------------------------
(* The comparison *)

\* Who has how many workers: one until the policy is there; and what the samples of the
\* load have shown of the full capacity, the peak has.
LEMMA PeaksKeep ==
  ASSUME Inv, TypeInv, PeakInv, [Next]_vars
  PROVE  PeakInv'
<1> USE ScalingAssumption DEF At, Goto, Stop, Loading
<1>t. /\ treatment \in Treatments /\ stage \in Stages /\ peak \in [Treatments -> 0 .. Capacity]
      /\ seen \in Observations /\ workers \in 1 .. Capacity /\ autoscaled \in BOOLEAN
      /\ stage \in BetweenStages => treatment = "fixed"
  BY DEF Inv, Types, PolicyInv, TypeInv, ResultInv, ScalingTypeOK
<1>1. CASE Register
  BY <1>1, <1>t DEF Register, PeakInv, Unseen, scalingVars, Applied, Treatments
<1>2. CASE Sample
  <2>1. UNCHANGED <<treatment, workers, autoscaled, peak>> /\ stage = "sample" /\ stage' = "load"
    BY <1>2 DEF Sample, scalingVars, KeepsResults
  <2>2. seen'.expanded => seen.expanded \/ workers = Capacity
    BY <1>2, <1>t DEF Sample, Sampled, Observations
  <2>3. QED
    BY <2>1, <2>2 DEF PeakInv, Applied
<1>3. CASE ReadSummary
  <2>1. UNCHANGED <<treatment, workers, autoscaled, peak>> /\ stage = "drain"
        /\ stage' \in {"receipts", "queues", "sleep"}
    BY <1>3 DEF ReadSummary, scalingVars, KeepsResults
  <2>2. seen'.expanded = seen.expanded
    BY <1>3, <1>t DEF ReadSummary, Observations
  <2>3. QED
    BY <2>1, <2>2 DEF PeakInv, Applied
<1>4. CASE ReadQueues
  <2>1. UNCHANGED <<treatment, workers, autoscaled, peak>> /\ stage = "queues"
        /\ stage' \in {"receipts", "sleep"}
    BY <1>4 DEF ReadQueues, KeepsStores, scalingVars, KeepsResults
  <2>2. seen'.expanded = seen.expanded
    BY <1>4, <1>t DEF ReadQueues, Observations
  <2>3. QED
    BY <2>1, <2>2 DEF PeakInv, Applied
<1>5. CASE Apply
  BY <1>5, <1>t DEF Apply, PeakInv, Applied, BetweenStages, KeepsMeasure, scalingVars,
    recordVars
<1>6. CASE PostApply
  BY <1>6, <1>t DEF PostApply, PeakInv, Applied, BetweenStages, KeepsMeasure, KeepsStores,
    scalingVars
<1>7. CASE Environment
  BY <1>7, <1>t DEF Environment, PeakInv, Applied, ScaleOut, ScaleIn, scalingVars, RequestStep,
    SendRequest, AbandonRequest, StoreEvent, DeliveryStep, PurgeStep, PurgeMessage,
    PublishEvent, ReceiveMessage, PostEvent, RecordAttempt, RefuseEvent, LoseWorker,
    VisibilityTimeout, LateCall, Treatments
<1>8. CASE Tick
  BY <1>8 DEF Tick, PeakInv, Applied, Slot, PublishSlot, KeepsResults, scalingVars
<1>9. ASSUME UNCHANGED <<treatment, workers, autoscaled, peak, seen>>,
             stage # "register", stage' # "register",
             Loading' => Loading,
             stage \in Applied => stage' \in Applied \cup {"stopped"},
             stage = "stopped" => stage' = "stopped"
      PROVE  PeakInv'
  BY <1>9 DEF PeakInv
<1>10. CASE \/ EndLoad \/ Complete \/ ReadReceipts \/ ReadEvents \/ ReadDeliveries \/ Judge
            \/ CollectMetrics \/ Qualify
  BY <1>9, <1>10 DEF EndLoad, Complete, ReadReceipts, ReadEvents, ReadDeliveries, Judge,
    CollectMetrics, Qualify, KeepsRecords, KeepsStores, KeepsResults, scalingVars, Applied
<1>11. CASE Inspect \/ InspectBefore \/ Truncate \/ Clear \/ InspectAfter \/ Purge \/ EndPurge
  BY <1>9, <1>11 DEF Inspect, InspectBefore, Truncate, Clear, InspectAfter, Purge, EndPurge,
    KeepsRecords, KeepsStores, KeepsMeasure, KeepsResults, scalingVars, Applied
<1>12. CASE \/ VerifyEmpty \/ Absent \/ PreApply \/ PlanPolicy \/ ValidatePlan \/ VerifyNative
            \/ BuildComparison
  BY <1>9, <1>12 DEF VerifyEmpty, Absent, PreApply, PlanPolicy, ValidatePlan, VerifyNative,
    BuildComparison, KeepsRecords, KeepsStores, KeepsMeasure, KeepsResults, scalingVars, Applied
<1>13. CASE UNCHANGED vars
  BY <1>13 DEF vars, controlVars, recordVars, scalingVars, PeakInv
<1>14. QED
  BY <1>1, <1>2, <1>3, <1>4, <1>5, <1>6, <1>7, <1>8, <1>10, <1>11, <1>12, <1>13
  DEF Next, Controller


\* What has qualified is complete, and what is complete is not measured again.
LEMMA QualifiedKeeps ==
  ASSUME Inv, TypeInv, QualifiedInv, [Next]_vars
  PROVE  QualifiedInv'
<1> USE DEF At, Goto, Stop
<1>t. /\ treatment \in Treatments /\ stage \in Stages
      /\ "elastic" \in complete => treatment = "elastic"
      /\ qualified \subseteq complete /\ seen \in Observations
      /\ stage \in BetweenStages => treatment = "fixed"
  BY DEF Inv, Types, ReadingInv, PolicyInv, TypeInv, ResultInv
<1>1. ASSUME UNCHANGED <<complete, qualified, report>>,
             stage \notin {"collect", "qualify", "report", "done", "stopped"},
             stage' \notin {"report", "done"}
      PROVE  QualifiedInv'
  BY <1>1, <1>t DEF QualifiedInv
<1>2. CASE Register \/ Sample \/ EndLoad \/ Complete \/ ReadSummary \/ ReadQueues
  BY <1>1, <1>2 DEF Register, Sample, EndLoad, Complete, ReadSummary, ReadQueues, KeepsResults
<1>3. CASE ReadReceipts \/ ReadEvents \/ ReadDeliveries
  BY <1>1, <1>3 DEF ReadReceipts, ReadEvents, ReadDeliveries, KeepsResults
<1>4. CASE Judge
  BY <1>4, <1>t DEF Judge, QualifiedInv, MeasurementComplete, Treatments
<1>5. CASE CollectMetrics
  BY <1>5, <1>t DEF CollectMetrics, QualifiedInv, KeepsResults
<1>6. CASE Qualify
  BY <1>6, <1>t DEF Qualify, QualifiedInv, TreatmentPasses, Treatments
<1>7. CASE Inspect \/ InspectBefore \/ Truncate \/ Clear \/ InspectAfter \/ Purge \/ EndPurge
  BY <1>1, <1>7 DEF Inspect, InspectBefore, Truncate, Clear, InspectAfter, Purge, EndPurge,
    KeepsMeasure, KeepsResults
<1>8. CASE VerifyEmpty \/ Absent \/ PreApply \/ PlanPolicy \/ ValidatePlan \/ Apply
  BY <1>1, <1>8 DEF VerifyEmpty, Absent, PreApply, PlanPolicy, ValidatePlan, Apply,
    KeepsMeasure, KeepsResults
<1>9. CASE VerifyNative \/ PostApply
  BY <1>1, <1>9 DEF VerifyNative, PostApply, KeepsMeasure
<1>10. CASE BuildComparison
  BY <1>10, <1>t DEF BuildComparison, QualifiedInv, Treatments
<1>11. CASE Tick
  BY <1>1, <1>11 DEF Tick, KeepsResults
<1>12. CASE Environment
  BY <1>12 DEF Environment, QualifiedInv
<1>13. CASE UNCHANGED vars
  BY <1>13 DEF vars, controlVars, QualifiedInv
<1>14. QED
  BY <1>2, <1>3, <1>4, <1>5, <1>6, <1>7, <1>8, <1>9, <1>10, <1>11, <1>12, <1>13 DEF Next,
    Controller

-----------------------------------------------------------------------------
(* The theorems about types, windows and the report *)

\* The whole invariant.
MeasurementInv == Inv /\ TypeInv /\ WindowInv /\ PeakInv /\ QualifiedInv

\* The types, the windows, the peaks and the results keep their invariant together.
THEOREM MeasurementInvariant == Spec => []MeasurementInv
<1>1. Init => MeasurementInv
  <2> SUFFICES ASSUME Init PROVE MeasurementInv
    OBVIOUS
  <2> USE RecordsAssumption, ScalingAssumption, TimesAssumption DEF Init, RecordsInit, ScalingInit
  <2>1. Inv
    BY DEF Inv, Types, ReadingInv, PolicyInv, InterventionIsThePolicy, BetweenStages,
      BeforeReset, Unread, Treatments, Stages
  <2>2. RecordsTypeOK
    <3>1. 0 \in 0 .. Cardinality(Names)
      BY FS_CardinalityType
    <3>2. QED
      BY <3>1 DEF RecordsTypeOK
  <2>3. ScalingTypeOK
    <3>1. since \in [Replicas -> -1 .. QuietSlots] /\ previous \in [Replicas -> -1 .. 2]
      OBVIOUS
    <3>2. quiet \in 0 .. QuietSlots /\ hot \in 0 .. HotSlots /\ workers \in 1 .. Capacity
      OBVIOUS
    <3>3. QED
      BY <3>1, <3>2 DEF ScalingTypeOK
  <2>4. CounterInv
    <3>1. clock = 0 /\ stable = -1 /\ attempts = 0 /\ stage = "register"
      OBVIOUS
    <3> HIDE DEF Init
    <3>2. QED
      BY <3>1 DEF CounterInv, MeasureStages
  <2>5. ResultInv
    <3>1. seen \in Observations
      BY DEF Unseen, Observations
    <3>2. peak \in [Treatments -> 0 .. Capacity]
      OBVIOUS
    <3>3. QED
      BY <3>1, <3>2, PlansArePlans DEF ResultInv
  <2>6. WindowInv
    BY DEF WindowInv, QuietIsReal
  <2>7. PeakInv /\ QualifiedInv
    BY DEF PeakInv, QualifiedInv, Loading, Treatments
  <2>8. QED
    BY <2>1, <2>2, <2>3, <2>4, <2>5, <2>6, <2>7 DEF MeasurementInv, TypeInv
<1>2. MeasurementInv /\ [Next]_vars => MeasurementInv'
  BY NextKeeps, TypesKeep, WindowsKeep, PeaksKeep, QualifiedKeeps DEF MeasurementInv
<1>3. QED
  BY <1>1, <1>2, PTL DEF Spec

\* The variables of the experiment have their types, and its clock, its attempts and
\* the windows of the publishers (QuietWindow) keep their bounds.
THEOREM ExperimentTypeCorrect == Spec => []TypeOK
<1>1. MeasurementInv => TypeOK
  BY DEF MeasurementInv, Inv, Types, TypeInv, CounterInv, ResultInv, TypeOK
<1>2. QED
  BY <1>1, MeasurementInvariant, PTL

\* The quiet seconds that release workers (QuietWindow.observe, and the Minimum over the
\* replicas) stand for as many slots in a row in which one replica saw no work.
THEOREM QuietnessIsReal == Spec => []QuietIsReal
<1>1. MeasurementInv => QuietIsReal
  BY DEF MeasurementInv, WindowInv
<1>2. QED
  BY <1>1, MeasurementInvariant, PTL

\* A report that claims the demonstration (build_comparison) has a replay on all workers
\* behind it, and two complete measurements.
THEOREM DemonstrationIsEarned == Spec => []DemonstratedIsEarned
<1>1. MeasurementInv => DemonstratedIsEarned
  <2> SUFFICES ASSUME MeasurementInv, report = "demonstrated"
               PROVE  DemonstratedIsEarned
    BY DEF DemonstratedIsEarned
  <2>1. Treatments \subseteq qualified /\ stage = "done" /\ treatment = "elastic"
    BY DEF MeasurementInv, QualifiedInv
  <2>2. complete = Treatments /\ "elastic" \in qualified /\ "elastic" \in complete
    BY <2>1 DEF MeasurementInv, Inv, Types, TypeInv, ResultInv, Treatments
  <2>3. Measured("elastic") /\ ~seen.failed /\ seen.expanded
    BY <2>2 DEF MeasurementInv, Inv, ReadingInv, QualifiedInv
  <2>4. peak["elastic"] = Capacity
    BY <2>1, <2>3 DEF MeasurementInv, PeakInv
  <2>5. QED
    BY <2>2, <2>3, <2>4 DEF DemonstratedIsEarned
<1>2. QED
  BY <1>1, MeasurementInvariant, PTL

-----------------------------------------------------------------------------
(* What the reset removes *)

\* The stages behind the truncation, and those in which the purge is waited for and
\* the empty system is verified.
Removed == BetweenStages \ {"inspect", "before", "truncate"}
Verifying == {"verify", "resting"}

\* Those behind the verification, of the transition.
Prepared == {"absent", "pre_apply", "plan", "validate", "apply"} \cup Applied

\* A message of e is somewhere, or a worker holds it.
Going(e) == e \in visible \cup dead \/ job[e] # "none"

\* Behind the truncation the fixed run has no rows, and nothing can store one.
RemovedInv ==
  stage \in Removed \/ treatment = "elastic" =>
    /\ "fixed" \notin runs
    /\ \A e \in Of("fixed") : row[e] = "none" /\ e \notin delivered

\* The verification begins behind the purge, without an observation.  A request of the
\* fixed run grows older while the system is seen empty, unless a worker sent it behind the
\* purge: then its message is still somewhere, since none is delivered any more.
RequestInv ==
  /\ stage = "purging" => stable = -1
  /\ stage \in Verifying =>
       \A e \in Of("fixed") :
         Going(e) \/ calls[e] = 0 \/ stable = -1 \/ calls[e] + stable <= CallLife

IsolationInv == RemovedInv /\ RequestInv /\ TreatmentsIsolated

\* The verification ends with a look at the queues that finds them as they are.
LastReadingTrue == stage = "verify" /\ stage' = "absent" => QueuesEmpty

\* When the verification ends no message of the fixed run is anywhere.
NothingGoesOn == stage = "verify" /\ stage' = "absent" => \A e \in Of("fixed") : ~Going(e)

-----------------------------------------------------------------------------
(* The isolation of the treatments *)

\* Behind the truncation, requests and workers store, publish and deliver nothing of the
\* fixed run, and whatever of it is nowhere stays so; only the purge removes a message.
LEMMA EnvironmentIsolates ==
  ASSUME RecordsTypeOK, RemovedInv, Environment, stage \in Removed \/ treatment = "elastic"
  PROVE  /\ RemovedInv'
         /\ \A e \in Of("fixed") :
              /\ Going(e)' => Going(e)
              /\ Going(e) => Going(e)' \/ stage = "purging"
              /\ ~Going(e) => calls'[e] \in {calls[e], 0}
              /\ ~Going(e) /\ e \in receipts' => e \in receipts \/ calls[e] # 0
<1>0. UNCHANGED <<stage, treatment>>
  BY DEF Environment
<1>1. "fixed" \notin runs /\ \A e \in Of("fixed") : row[e] = "none" /\ e \notin delivered
  BY DEF RemovedInv
<1>2. \A e \in Of("fixed") : e \in Events /\ e[1] = "fixed"
  BY DEF Of, Events, Treatments
<1>3. CASE RequestStep
  <2>1. UNCHANGED <<runs, delivered, visible, dead, job, calls, receipts>>
    BY <1>3 DEF RequestStep, SendRequest, AbandonRequest, StoreEvent, databaseVars, queueVars,
      simulatorVars
  <2>2. \A e \in Of("fixed") : row'[e] = row[e]
    BY <1>1, <1>2, <1>3 DEF RequestStep, SendRequest, AbandonRequest, StoreEvent, databaseVars,
      RecordsTypeOK
  <2>3. QED
    BY <1>0, <1>1, <2>1, <2>2 DEF RemovedInv, Going
<1>4. CASE DeliveryStep
  <2> USE DEF databaseVars, queueVars, simulatorVars, RecordsTypeOK
  <2>1. PICK d \in Events :
          \/ PublishEvent(d) \/ ReceiveMessage(d) \/ PostEvent(d) \/ RecordAttempt(d)
          \/ RefuseEvent(d) \/ LoseWorker(d) \/ VisibilityTimeout(d) \/ LateCall(d)
    BY <1>4 DEF DeliveryStep
  <2>2. runs' = runs
    BY <2>1 DEF PublishEvent, ReceiveMessage, PostEvent, RecordAttempt, RefuseEvent, LoseWorker,
      VisibilityTimeout, LateCall
  <2>3. \A e \in Of("fixed") : row'[e] = row[e] /\ e \notin delivered'
    BY <1>1, <1>2, <2>1 DEF PublishEvent, ReceiveMessage, PostEvent, RecordAttempt, RefuseEvent,
      LoseWorker, VisibilityTimeout, LateCall
  <2>4. ASSUME NEW e \in Of("fixed")
        PROVE  /\ Going(e)' => Going(e)
               /\ Going(e) => Going(e)' \/ stage = "purging"
               /\ ~Going(e) => calls'[e] \in {calls[e], 0}
               /\ ~Going(e) /\ e \in receipts' => e \in receipts \/ calls[e] # 0
    <3>1. e \in Events /\ row[e] = "none"
      BY <1>1, <1>2
    <3>2. CASE PublishEvent(d)
      BY <3>1, <3>2 DEF PublishEvent, Going
    <3>3. CASE ReceiveMessage(d)
      BY <3>1, <3>3 DEF ReceiveMessage, Going
    <3>4. CASE PostEvent(d)
      BY <3>1, <3>4 DEF PostEvent, Going
    <3>5. CASE RecordAttempt(d)
      BY <3>1, <3>5 DEF RecordAttempt, Going
    <3>6. CASE RefuseEvent(d)
      BY <3>1, <3>6 DEF RefuseEvent, Going
    <3>7. CASE LoseWorker(d)
      BY <3>1, <3>7 DEF LoseWorker, Busy, Going
    <3>8. CASE VisibilityTimeout(d)
      BY <3>1, <3>8 DEF VisibilityTimeout, Going
    <3>9. CASE LateCall(d)
      BY <3>1, <3>9 DEF LateCall, Going
    <3>10. QED
      BY <2>1, <3>2, <3>3, <3>4, <3>5, <3>6, <3>7, <3>8, <3>9
  <2>5. RemovedInv'
    <3>1. "fixed" \notin runs' /\ \A e \in Of("fixed") : row'[e] = "none" /\ e \notin delivered'
      BY <1>1, <2>2, <2>3
    <3>2. QED
      BY <3>1 DEF RemovedInv, Of
  <2>6. QED
    BY <2>4, <2>5
<1>5. CASE ScaleOut \/ ScaleIn
  BY <1>0, <1>1, <1>5 DEF ScaleOut, ScaleIn, databaseVars, queueVars, simulatorVars, RemovedInv,
    Going
<1>6. CASE PurgeStep
  <2>1. PICK d \in Events : PurgeMessage(d) /\ stage = "purging"
    BY <1>6 DEF PurgeStep, At
  <2>2. UNCHANGED <<runs, row, delivered, receipts>>
    BY <2>1 DEF PurgeMessage, databaseVars
  <2>3. ASSUME NEW e \in Of("fixed")
        PROVE  (Going(e)' => Going(e)) /\ (~Going(e) => calls'[e] = calls[e])
    BY <1>2, <2>1 DEF PurgeMessage, Going, RecordsTypeOK
  <2>4. QED
    BY <1>0, <1>1, <2>1, <2>2, <2>3 DEF RemovedInv
<1>7. QED
  BY <1>3, <1>4, <1>5, <1>6 DEF Environment

\* A step of requests and workers keeps the isolation.
LEMMA EnvironmentKeepsIsolation ==
  ASSUME Types, RecordsTypeOK, stable \in Int, IsolationInv, Environment
  PROVE  IsolationInv'
<1>0. UNCHANGED <<stage, treatment, stable>> /\ Of("fixed") \subseteq Events
  BY DEF Environment, Of, Events, Treatments
<1>1. CASE ~(stage \in Removed \/ treatment = "elastic")
  BY <1>0, <1>1 DEF IsolationInv, RemovedInv, RequestInv, TreatmentsIsolated, AfterReset,
    Removed, Verifying, BetweenStages
<1>2. CASE stage \in Removed \/ treatment = "elastic"
  <2>1. RemovedInv'
    BY <1>2, EnvironmentIsolates DEF IsolationInv
  <2>2. ASSUME NEW e \in Of("fixed")
        PROVE  /\ Going(e)' => Going(e)
               /\ Going(e) => Going(e)' \/ stage = "purging"
               /\ ~Going(e) => calls'[e] \in {calls[e], 0}
               /\ ~Going(e) /\ e \in receipts' => e \in receipts \/ calls[e] # 0
    BY <1>2, <2>2, EnvironmentIsolates DEF IsolationInv
  <2>3. \A e \in Of("fixed") : calls[e] \in Nat
    BY <1>0, RecordsAssumption DEF RecordsTypeOK
  <2>4. RequestInv'
    BY <1>0, <2>2, <2>3 DEF IsolationInv, RequestInv, Verifying
  <2>5. TreatmentsIsolated'
    <3>1. SUFFICES ASSUME AfterReset', NEW e \in Of("fixed")
                   PROVE  /\ row'[e] = "none" /\ e \notin delivered' \cup receipts' \cup dead'
                          /\ e \notin visible' /\ job'[e] = "none" /\ calls'[e] = 0
      BY DEF TreatmentsIsolated
    <3>2. AfterReset
      BY <1>0, <3>1 DEF AfterReset
    <3>3. ~Going(e) /\ e \notin receipts /\ calls[e] = 0
      BY <3>2 DEF IsolationInv, TreatmentsIsolated, Going
    <3>4. row'[e] = "none" /\ e \notin delivered'
      BY <1>0, <1>2, <2>1 DEF RemovedInv
    <3>5. QED
      BY <2>2, <3>3, <3>4 DEF Going
  <2>6. QED
    BY <2>1, <2>4, <2>5 DEF IsolationInv
<1>3. QED
  BY <1>1, <1>2

\* While the controller sleeps, requests without a sender come to an end.
LEMMA TickIsolates ==
  ASSUME Types, RecordsTypeOK, CounterInv, IsolationInv, Tick
  PROVE  IsolationInv'
<1>0. /\ UNCHANGED <<databaseVars, queueVars, receipts, treatment>> /\ Of("fixed") \subseteq Events
      /\ stable \in Int /\ VerifyTicks \in Nat /\ CallLife \in Nat
      /\ \A e \in Events : calls[e] \in Nat /\ calls'[e] = IF calls[e] > 0 THEN calls[e] - 1 ELSE 0
  BY TimesAssumption, RecordsAssumption DEF Tick, CallsAge, Of, Events, Treatments,
    RecordsTypeOK, CounterInv, Goto, Slot, PublishSlot
<1>1. \/ stage \notin Removed /\ stage' \notin Removed
      \/ stage = "purging" /\ stage' = "purging" /\ stable' = stable
      \/ stage = "settling" /\ stage' = "native"
      \/ stage = "resting" /\ stage' = "verify" /\ stable' = Older(stable, VerifyTicks)
  BY DEF Tick, At, Goto, Removed, BetweenStages
<1>2. \A e \in Of("fixed") : Going(e)' <=> Going(e)
  BY <1>0 DEF Going, queueVars
<1>3. RemovedInv'
  BY <1>0, <1>1 DEF IsolationInv, RemovedInv, Removed, BetweenStages, databaseVars
<1>4. RequestInv'
  <2>1. stage = "resting" => stable' = -1 \/ (stable # -1 /\ stable' <= stable + 1)
    BY <1>0, <1>1 DEF Older, Lesser, Removed, BetweenStages
  <2>2. stable' \in Int \/ stage # "resting"
    BY <1>0, <1>1 DEF Older, Lesser, Removed, BetweenStages
  <2>3. QED
    BY <1>0, <1>1, <1>2, <2>1, <2>2 DEF IsolationInv, RequestInv, Verifying, Removed,
      BetweenStages
<1>5. TreatmentsIsolated'
  BY <1>0, <1>1, <1>2 DEF IsolationInv, TreatmentsIsolated, AfterReset, Removed, BetweenStages,
    databaseVars,
    queueVars
<1>6. QED
  BY <1>3, <1>4, <1>5 DEF IsolationInv

\* The controller begins each part of the reset behind the one before it, and enters
\* the transition only from a verification that found the system empty.
LEMMA ControllerIsolates ==
  ASSUME Inv, RecordsTypeOK, CounterInv, IsolationInv, Controller, NothingGoesOn
  PROVE  IsolationInv'
<1>0. /\ Of("fixed") \subseteq Events /\ stable \in Int /\ VerifyTicks \in Nat /\ CallLife \in Nat
      /\ CallLife <= VerifyTicks /\ \A e \in Events : calls[e] \in 0 .. CallLife
  BY TimesAssumption, RecordsAssumption DEF Of, Events, Treatments, RecordsTypeOK, CounterInv
<1> USE DEF At, Goto, Stop
<1>1. CASE Register
  <2>1. UNCHANGED <<treatment, row, delivered, queueVars, simulatorVars>>
    BY <1>1 DEF Register, RegisterRun, databaseVars
  <2>2. stage' \notin Removed /\ stage \notin Removed /\ runs' \subseteq runs \cup {treatment}
    BY <1>1 DEF Register, RegisterRun, Removed, BetweenStages, databaseVars
  <2>3. RemovedInv'
    BY <2>1, <2>2 DEF IsolationInv, RemovedInv
  <2>4. RequestInv'
    BY <2>2 DEF RequestInv, Removed, Verifying, BetweenStages
  <2>5. TreatmentsIsolated'
    BY <2>1, <2>2 DEF IsolationInv, TreatmentsIsolated, AfterReset, Removed, BetweenStages,
      queueVars,
      simulatorVars
  <2>6. QED
    BY <2>3, <2>4, <2>5 DEF IsolationInv
<1>2. CASE /\ UNCHANGED <<treatment, row, delivered, runs, queueVars, simulatorVars>>
           /\ stage' \notin Removed /\ stage \notin Removed
  <2>1. RemovedInv' /\ RequestInv'
    BY <1>2 DEF IsolationInv, RemovedInv, RequestInv, Removed, Verifying, BetweenStages
  <2>2. TreatmentsIsolated'
    BY <1>2 DEF IsolationInv, TreatmentsIsolated, AfterReset, Removed, BetweenStages, queueVars,
      simulatorVars
  <2>3. QED
    BY <2>1, <2>2 DEF IsolationInv
<1>3. CASE /\ UNCHANGED <<treatment, row, delivered, runs, queueVars, simulatorVars>>
           /\ stage' = "stopped" \/ (stage \in Prepared /\ stage' \in Prepared)
  <2>1. RemovedInv' /\ RequestInv'
    BY <1>3 DEF IsolationInv, RemovedInv, RequestInv, Removed, Verifying, BetweenStages,
      Prepared, Applied
  <2>2. TreatmentsIsolated'
    BY <1>3 DEF IsolationInv, TreatmentsIsolated, AfterReset, Prepared, Applied, queueVars,
      simulatorVars
  <2>3. QED
    BY <2>1, <2>2 DEF IsolationInv
<1>4. CASE Sample \/ EndLoad \/ Complete \/ ReadSummary \/ ReadQueues \/ ReadReceipts \/ ReadEvents
           \/ ReadDeliveries \/ Judge \/ CollectMetrics
  <2>1. /\ UNCHANGED <<treatment, row, delivered, runs, queueVars, simulatorVars>>
        /\ stage' \notin Removed /\ stage \notin Removed
    BY <1>4 DEF Sample, EndLoad, Complete, CompleteRun, ReadSummary, ReadQueues, ReadReceipts,
      ReadEvents, ReadDeliveries,
      Judge, CollectMetrics, Removed, BetweenStages, databaseVars, KeepsStores, KeepsRecords
  <2>2. QED
    BY <1>2, <2>1
<1>5. CASE Qualify \/ Inspect \/ InspectBefore \/ BuildComparison
  <2>1. /\ UNCHANGED <<treatment, row, delivered, runs, queueVars, simulatorVars>>
        /\ stage' \notin Removed /\ stage \notin Removed
    BY <1>5 DEF Qualify, Inspect, InspectBefore, BuildComparison, Removed, BetweenStages,
      databaseVars,
      KeepsStores, KeepsRecords, KeepsPlan
  <2>2. QED
    BY <1>2, <2>1
<1>6. CASE Absent \/ PreApply \/ PlanPolicy \/ ValidatePlan \/ VerifyNative
  <2>1. /\ UNCHANGED <<treatment, row, delivered, runs, queueVars, simulatorVars>>
        /\ stage' = "stopped" \/ (stage \in Prepared /\ stage' \in Prepared)
    BY <1>6 DEF Absent, PreApply, PlanPolicy, ValidatePlan, VerifyNative, Prepared, Applied,
      databaseVars, KeepsStores, KeepsRecords
  <2>2. QED
    BY <1>3, <2>1
<1>7. CASE Apply
  <2>1. /\ UNCHANGED <<treatment, row, delivered, runs, queueVars, simulatorVars>>
        /\ stage' = "stopped" \/ (stage = "apply" /\ stage' = "native")
    BY <1>7 DEF Apply, recordVars, databaseVars
  <2>2. QED
    BY <1>3, <2>1 DEF Prepared, Applied
<1>8. CASE PostApply
  <2>1. UNCHANGED <<row, delivered, runs, queueVars, simulatorVars>> /\ stage' \notin Removed
    BY <1>8 DEF PostApply, KeepsStores, databaseVars, Removed, BetweenStages
  <2>2. stage = "post_apply"
    BY <1>8 DEF PostApply
  <2>3. RemovedInv' /\ RequestInv'
    BY <2>1, <2>2 DEF IsolationInv, RemovedInv, RequestInv, Removed, Verifying, BetweenStages
  <2>4. TreatmentsIsolated'
    BY <2>1, <2>2 DEF IsolationInv, TreatmentsIsolated, AfterReset, queueVars, simulatorVars
  <2>5. QED
    BY <2>3, <2>4 DEF IsolationInv
<1>9. CASE Truncate
  <2>1. /\ runs' = {} /\ delivered' = {} /\ treatment' = treatment
        /\ \A e \in Events : row'[e] = "none"
        /\ stage' = "clear" /\ stage = "truncate"
    BY <1>9 DEF Truncate, TruncateExperiment
  <2>2. treatment = "fixed"
    BY <2>1 DEF Inv, PolicyInv, BetweenStages
  <2>3. RemovedInv'
    BY <1>0, <2>1 DEF RemovedInv
  <2>4. RequestInv' /\ TreatmentsIsolated'
    BY <2>1, <2>2 DEF RequestInv, Verifying, TreatmentsIsolated, AfterReset
  <2>5. QED
    BY <2>3, <2>4 DEF IsolationInv
<1>10. CASE Clear \/ InspectAfter
  <2>1. /\ UNCHANGED <<treatment, row, delivered, runs>>
        /\ stage \in {"clear", "after"} /\ stage' \in {"after", "purge", "stopped"}
    BY <1>10 DEF Clear, InspectAfter, databaseVars, KeepsStores, KeepsRecords
  <2>2. treatment = "fixed"
    BY <2>1 DEF Inv, PolicyInv, BetweenStages
  <2>3. RemovedInv'
    BY <2>1, <2>2 DEF IsolationInv, RemovedInv, Removed, BetweenStages
  <2>4. RequestInv' /\ TreatmentsIsolated'
    BY <2>1, <2>2 DEF RequestInv, Verifying, TreatmentsIsolated, AfterReset
  <2>5. QED
    BY <2>3, <2>4 DEF IsolationInv
<1>11. CASE Purge
  <2>1. /\ UNCHANGED <<treatment, row, delivered, runs>> /\ stable' = -1
        /\ stage = "purge" /\ stage' \in {"purging", "stopped"}
    BY <1>11 DEF Purge, databaseVars, KeepsStores, KeepsRecords
  <2>2. treatment = "fixed"
    BY <2>1 DEF Inv, PolicyInv, BetweenStages
  <2>3. RemovedInv'
    BY <2>1, <2>2 DEF IsolationInv, RemovedInv, Removed, BetweenStages
  <2>4. RequestInv' /\ TreatmentsIsolated'
    BY <2>1, <2>2 DEF RequestInv, Verifying, TreatmentsIsolated, AfterReset
  <2>5. QED
    BY <2>3, <2>4 DEF IsolationInv
<1>12. CASE EndPurge
  <2>1. /\ UNCHANGED <<treatment, row, delivered, runs, stable>>
        /\ stage = "purging" /\ stage' = "verify"
    BY <1>12 DEF EndPurge, databaseVars, KeepsStores, KeepsRecords, KeepsMeasure
  <2>2. treatment = "fixed"
    BY <2>1 DEF Inv, PolicyInv, BetweenStages
  <2>3. RemovedInv'
    BY <2>1, <2>2 DEF IsolationInv, RemovedInv, Removed, BetweenStages
  <2>4. RequestInv'
    BY <2>1 DEF IsolationInv, RequestInv
  <2>5. TreatmentsIsolated'
    BY <2>1, <2>2 DEF TreatmentsIsolated, AfterReset
  <2>6. QED
    BY <2>3, <2>4, <2>5 DEF IsolationInv
<1>13. CASE VerifyEmpty
  <2>1. /\ UNCHANGED <<treatment, row, delivered, runs, queueVars, simulatorVars>>
        /\ stage = "verify" /\ stage' \in {"absent", "resting", "stopped"}
        /\ stage' = "absent" => ApplicationEmpty /\ stable >= VerifyTicks
        /\ stable' \in {-1, 0, stable} /\ (stable' = 0 => stable \in {-1, 0})
    BY <1>13 DEF VerifyEmpty, EmptyAndFixed, databaseVars, KeepsStores
  <2>2. treatment = "fixed"
    BY <2>1 DEF Inv, PolicyInv, BetweenStages
  <2>3. RemovedInv'
    BY <2>1, <2>2 DEF IsolationInv, RemovedInv, Removed, BetweenStages
  <2>4. \A e \in Of("fixed") : (Going(e)' <=> Going(e)) /\ calls'[e] = calls[e]
    BY <2>1 DEF Going, queueVars, simulatorVars
  <2>5. RequestInv'
    BY <1>0, <2>1, <2>4 DEF IsolationInv, RequestInv, Verifying
  <2>6. CASE stage' = "absent"
    <3>1. \A e \in Of("fixed") : ~Going(e) /\ calls[e] = 0 /\ e \notin receipts
      BY <1>0, <2>1, <2>6 DEF NothingGoesOn, IsolationInv, RequestInv, Verifying,
        ApplicationEmpty
    <3>2. \A e \in Of("fixed") : row[e] = "none" /\ e \notin delivered
      BY <2>1 DEF IsolationInv, RemovedInv, Removed, BetweenStages
    <3>3. TreatmentsIsolated'
      BY <2>1, <3>1, <3>2 DEF TreatmentsIsolated, Going, queueVars, simulatorVars
    <3>4. QED
      BY <2>3, <2>5, <3>3 DEF IsolationInv
  <2>7. CASE stage' # "absent"
    BY <2>1, <2>2, <2>3, <2>5, <2>7 DEF IsolationInv, TreatmentsIsolated, AfterReset
  <2>8. QED
    BY <2>6, <2>7
<1>14. QED
  BY <1>1, <1>4, <1>5, <1>6, <1>7, <1>8, <1>9, <1>10, <1>11, <1>12, <1>13 DEF Controller

\* Every step keeps the isolation, if the verification does not end too early.
LEMMA IsolationKeeps ==
  ASSUME Inv, TypeInv, IsolationInv, [Next]_vars, NothingGoesOn
  PROVE  IsolationInv'
<1>1. Types /\ RecordsTypeOK /\ CounterInv /\ stable \in Int
  BY DEF Inv, TypeInv, CounterInv
<1>2. CASE Controller
  BY <1>1, <1>2, ControllerIsolates
<1>3. CASE Tick
  BY <1>1, <1>3, TickIsolates
<1>4. CASE Environment
  BY <1>1, <1>4, EnvironmentKeepsIsolation
<1>5. CASE UNCHANGED vars
  BY <1>5 DEF vars, recordVars, databaseVars, queueVars, simulatorVars, controlVars,
    IsolationInv, RemovedInv, RequestInv, TreatmentsIsolated, AfterReset, Going
<1>6. QED
  BY <1>2, <1>3, <1>4, <1>5 DEF Next

-----------------------------------------------------------------------------
(* The theorems about the isolation *)

\* In the beginning nothing has been reset.
LEMMA IsolationInit ==
  ASSUME Init
  PROVE  IsolationInv
  BY DEF Init, IsolationInv, RemovedInv, RequestInv, TreatmentsIsolated, AfterReset, Removed,
    Verifying,
    BetweenStages

\* If the verification's last look at the queues is true, whatever lied before it, nothing
\* of the fixed run is there when the replay is prepared, and nothing comes back: what
\* reset_aws_experiment waits for is enough.
THEOREM IsolationRestsOnOneReading ==
  Spec /\ [][LastReadingTrue]_vars => []TreatmentsIsolated
<1>1. Init => IsolationInv
  BY IsolationInit
<1>2. MeasurementInv /\ IsolationInv /\ [Next]_vars /\ [LastReadingTrue]_vars => IsolationInv'
  <2>1. ASSUME MeasurementInv, IsolationInv, [Next]_vars, [LastReadingTrue]_vars
        PROVE  IsolationInv'
    <3>1. NothingGoesOn
      <4>1. QueuesEmpty => \A e \in Of("fixed") : ~Going(e)
        BY DEF QueuesEmpty, QueueWork, InFlight, Going, Of, Events, Treatments
      <4>2. CASE UNCHANGED vars
        BY <4>2 DEF vars, controlVars, NothingGoesOn
      <4>3. QED
        BY <2>1, <4>1, <4>2 DEF LastReadingTrue, NothingGoesOn
    <3>2. QED
      BY <2>1, <3>1, IsolationKeeps DEF MeasurementInv
  <2>2. QED
    BY <2>1
<1>3. IsolationInv => TreatmentsIsolated
  BY DEF IsolationInv
<1>4. QED
  BY <1>1, <1>2, <1>3, MeasurementInvariant, PTL DEF Spec

\* What was sent of the fixed run and is not marked as published had a failure: its publisher
\* died in between.
UnmarkedInv ==
  treatment = "fixed" /\ stage \in MeasureStages \cup Evaluating =>
    \A e \in Of("fixed") :
      row[e] # "published" /\ (Going(e) \/ e \in delivered \cup receipts \/ calls[e] # 0)
        => faults < MaxFaults

\* So had a message that is there behind the inspection: it was sent a second time, or the
\* inspection did not see it.  One that is there behind an empty observation of the
\* verification had two.
PaidInv ==
  /\ UnmarkedInv
  /\ stage \in {"before", "truncate"} => Of("fixed") \subseteq receipts
  /\ stage \in Removed \cup {"before", "truncate"} =>
       \A e \in Of("fixed") : Going(e) => faults < MaxFaults
  /\ stage = "purging" => stable = -1
  /\ stage \in Verifying /\ stable >= 0 =>
       \A e \in Of("fixed") : Going(e) => faults < MaxFaults - 1

\* Only the last observation of the verification leads out of it.
LEMMA VerificationEnds ==
  ASSUME [Next]_vars, stage = "verify", stage' # "verify"
  PROVE  VerifyEmpty
<1>1. CASE Controller
  BY <1>1 DEF Controller, At, Goto, Stop, Register, Sample, EndLoad, Complete, ReadSummary,
    ReadQueues, ReadReceipts, ReadEvents, ReadDeliveries, Judge, CollectMetrics, Qualify,
    Inspect, InspectBefore, Truncate, Clear, InspectAfter, Purge, EndPurge, Absent, PreApply,
    PlanPolicy, ValidatePlan, Apply, VerifyNative, PostApply, BuildComparison
<1>2. CASE Tick \/ Environment \/ UNCHANGED vars
  BY <1>2 DEF Tick, At, Goto, Environment, vars, controlVars
<1>3. QED
  BY <1>1, <1>2 DEF Next

\* Requests and workers send a message of the fixed run twice only behind a failure.
LEMMA EnvironmentPays ==
  ASSUME MeasurementInv, IsolationInv, PaidInv, Environment
  PROVE  PaidInv'
<1>0. /\ faults \in 0 .. MaxFaults /\ MaxFaults \in Nat /\ UNCHANGED <<stage, treatment, stable>>
      /\ Of("fixed") \subseteq Events /\ RecordsTypeOK
  BY RecordsAssumption DEF Environment, MeasurementInv, TypeInv, RecordsTypeOK, Of, Events,
    Treatments
<1>1. faults' \in Int /\ faults' <= faults
  BY <1>0 DEF Environment, RequestStep, SendRequest, AbandonRequest, StoreEvent, DeliveryStep,
    Fault, PublishEvent, ReceiveMessage, PostEvent, RecordAttempt, RefuseEvent, LoseWorker,
    VisibilityTimeout, LateCall, PurgeStep, PurgeMessage, ScaleOut, ScaleIn
<1>2. ASSUME NEW e \in Of("fixed")
      PROVE  /\ row[e] # "published" /\ faults' >= MaxFaults
                  /\ ~(Going(e) \/ e \in delivered \cup receipts \/ calls[e] # 0)
               => row'[e] = "published"
                  \/ ~(Going(e)' \/ e \in delivered' \cup receipts' \/ calls'[e] # 0)
             /\ row[e] = "published" => row'[e] = "published"
             /\ e \in receipts => e \in receipts'
             /\ Going(e)' => Going(e) \/ row[e] = "pending"
  <2>0. e \in Events
    BY <1>0
  <2> USE DEF databaseVars, queueVars, simulatorVars, RecordsTypeOK
  <2>1. CASE RequestStep
    BY <1>0, <2>0, <2>1 DEF RequestStep, SendRequest, AbandonRequest, StoreEvent, Going
  <2>2. CASE ScaleOut \/ ScaleIn
    BY <2>2 DEF ScaleOut, ScaleIn, Going
  <2>3. CASE DeliveryStep
    <3>1. PICK d \in Events :
            \/ PublishEvent(d) \/ ReceiveMessage(d) \/ PostEvent(d) \/ RecordAttempt(d)
            \/ RefuseEvent(d) \/ LoseWorker(d) \/ VisibilityTimeout(d) \/ LateCall(d)
      BY <2>3 DEF DeliveryStep
    <3>2. CASE PublishEvent(d)
      BY <1>0, <2>0, <3>2 DEF PublishEvent, Going, Fault
    <3>3. CASE ReceiveMessage(d)
      BY <1>0, <2>0, <3>3 DEF ReceiveMessage, Going
    <3>4. CASE PostEvent(d)
      BY <1>0, <2>0, <3>4 DEF PostEvent, Going
    <3>5. CASE RecordAttempt(d)
      BY <1>0, <2>0, <3>5 DEF RecordAttempt, Going
    <3>6. CASE RefuseEvent(d)
      BY <1>0, <2>0, <3>6 DEF RefuseEvent, Going
    <3>7. CASE LoseWorker(d)
      BY <1>0, <2>0, <3>7 DEF LoseWorker, Busy, Going
    <3>8. CASE VisibilityTimeout(d)
      BY <1>0, <2>0, <3>8 DEF VisibilityTimeout, Going
    <3>9. CASE LateCall(d)
      BY <1>0, <2>0, <3>9 DEF LateCall, Going
    <3>10. QED
      BY <3>1, <3>2, <3>3, <3>4, <3>5, <3>6, <3>7, <3>8, <3>9
  <2>4. CASE PurgeStep
    BY <1>0, <2>0, <2>4 DEF PurgeStep, PurgeMessage, Going
  <2>5. QED
    BY <2>1, <2>2, <2>3, <2>4 DEF Environment
<1>3. UnmarkedInv'
  BY <1>0, <1>1, <1>2 DEF PaidInv, UnmarkedInv
<1>4. stage \in {"before", "truncate"} => Of("fixed") \subseteq receipts'
  BY <1>2 DEF PaidInv
<1>5. stage \in {"before", "truncate"} => \A e \in Of("fixed") : Going(e)' => faults' < MaxFaults
  <2>1. SUFFICES ASSUME stage \in {"before", "truncate"}, NEW e \in Of("fixed"), Going(e)'
                 PROVE  faults < MaxFaults
    BY <1>0, <1>1
  <2>2. treatment = "fixed" /\ stage \in Evaluating
    BY <2>1 DEF MeasurementInv, Inv, PolicyInv, BetweenStages, Evaluating
  <2>3. e \in receipts /\ (Going(e) \/ row[e] = "pending")
    BY <1>2, <2>1 DEF PaidInv
  <2>4. QED
    BY <2>1, <2>2, <2>3 DEF PaidInv, UnmarkedInv
<1>6. stage \in Removed => \A e \in Of("fixed") : Going(e)' => Going(e)
  BY EnvironmentIsolates, <1>0 DEF IsolationInv
<1>7. QED
  BY <1>0, <1>1, <1>3, <1>4, <1>5, <1>6 DEF PaidInv, Removed, Verifying, BetweenStages

\* An observation that sees no message where one is costs a failure: of the inspection,
\* and of the verification.
LEMMA LieIsFault ==
  ASSUME RecordsTypeOK, NEW e \in Of("fixed"), Going(e),
         NEW empty \in BOOLEAN, empty, QueuesAnswer(empty)
  PROVE  faults' < faults /\ faults' \in Nat
<1>1. ~QueuesEmpty
  BY DEF QueuesEmpty, QueueWork, InFlight, Going, Of, Events, Treatments
<1>2. Fault
  BY <1>1, Zenon DEF QueuesAnswer
<1>3. QED
  BY <1>2, RecordsAssumption DEF Fault, RecordsTypeOK

\* The controller pays for what it does not see.
LEMMA ControllerPays ==
  ASSUME MeasurementInv, IsolationInv, PaidInv, Controller
  PROVE  PaidInv'
<1>0. /\ faults \in 0 .. MaxFaults /\ MaxFaults \in Nat /\ stable \in Int /\ VerifyTicks \in Nat
      /\ Of("fixed") \subseteq Events /\ RecordsTypeOK
  BY RecordsAssumption, TimesAssumption DEF MeasurementInv, TypeInv, RecordsTypeOK,
    CounterInv, Of, Events, Treatments
<1> USE DEF At, Goto, Stop
<1>1. CASE Inspect
  <2>1. /\ UNCHANGED <<treatment, row, delivered, queueVars, simulatorVars>>
        /\ stage = "inspect" /\ stage' \in {"before", "stopped"}
    BY <1>1 DEF Inspect, KeepsStores, databaseVars
  <2>2. faults' \in Int /\ faults' <= faults
    BY <1>0, <1>1 DEF Inspect, QueuesAnswer, Fault
  <2>3. UnmarkedInv'
    BY <1>0, <2>1, <2>2 DEF PaidInv, UnmarkedInv, Evaluating, Going, queueVars, simulatorVars
  <2>4. stage' = "before" => /\ Of("fixed") \subseteq receipts'
                             /\ \A e \in Of("fixed") : Going(e)' => faults' < MaxFaults
    <3>1. SUFFICES ASSUME stage' = "before"
                   PROVE  /\ Of("fixed") \subseteq receipts'
                          /\ \A e \in Of("fixed") : Going(e)' => faults' < MaxFaults
      OBVIOUS
    <3>2. PICK empty \in BOOLEAN : QueuesAnswer(empty) /\ PreResetState(empty)
      BY <1>1, <3>1 DEF Inspect
    <3>3. empty /\ receipts = Of("fixed")
      BY <3>2 DEF PreResetState, ApplicationHolds
    <3>4. \A e \in Of("fixed") : Going(e)' => Going(e)
      BY <2>1 DEF Going, queueVars
    <3>5. QED
      <4>1. ASSUME NEW e \in Of("fixed"), Going(e)'
            PROVE  faults' < MaxFaults
        <5>1. faults' < faults /\ faults' \in Nat
          BY <1>0, <3>2, <3>3, <3>4, <4>1, LieIsFault
        <5>2. QED
          BY <1>0, <5>1
      <4>2. QED
        BY <2>1, <3>3, <4>1 DEF simulatorVars
  <2>5. QED
    BY <2>1, <2>3, <2>4 DEF PaidInv, Removed, Verifying, BetweenStages
<1>2. CASE VerifyEmpty
  <2>1. /\ UNCHANGED <<treatment, queueVars>>
        /\ stage = "verify" /\ stage' \in {"absent", "resting", "stopped"}
    BY <1>2 DEF VerifyEmpty, KeepsStores
  <2>2. treatment = "fixed"
    BY <2>1 DEF MeasurementInv, Inv, PolicyInv, BetweenStages
  <2>3. \A e \in Of("fixed") : (Going(e)' => Going(e)) /\ (Going(e) => faults < MaxFaults)
    BY <2>1 DEF Going, queueVars, PaidInv, Removed, BetweenStages
  <2>4. faults' \in Int /\ faults' <= faults
    BY <1>0, <1>2 DEF VerifyEmpty, QueuesAnswer, Fault
  <2>5. ASSUME stable' >= 0, NEW e \in Of("fixed"), Going(e)
        PROVE  faults' < MaxFaults - 1
    <3>1. PICK empty \in BOOLEAN :
            /\ QueuesAnswer(empty)
            /\ stable' = IF ~EmptyAndFixed(empty) THEN -1 ELSE IF stable = -1 THEN 0 ELSE stable
      BY <1>2 DEF VerifyEmpty
    <3>2. empty
      BY <2>5, <3>1 DEF EmptyAndFixed
    <3>3. faults' < faults /\ faults' \in Nat
      BY <1>0, <2>5, <3>1, <3>2, LieIsFault
    <3>4. QED
      BY <1>0, <2>3, <2>5, <3>3
  <2>6. QED
    BY <1>0, <2>1, <2>3, <2>4, <2>5 DEF PaidInv, UnmarkedInv, MeasureStages, Evaluating,
      Removed, Verifying, BetweenStages
<1>3. CASE /\ UNCHANGED <<treatment, row, delivered, queueVars, simulatorVars>>
           /\ faults' \in Int /\ faults' <= faults
           /\ stage \in MeasureStages \cup {"collect", "qualify", "report"}
           /\ stage' \in MeasureStages \cup
                         {"collect", "qualify", "inspect", "report", "done", "stopped"}
           /\ stage = "report" => stage' = "done"
  <2>1. UnmarkedInv'
    BY <1>0, <1>3 DEF PaidInv, UnmarkedInv, MeasureStages, Evaluating, Going, queueVars,
      simulatorVars
  <2>2. QED
    BY <1>3, <2>1 DEF PaidInv, MeasureStages, Removed, Verifying, BetweenStages
<1>4. CASE Register \/ Sample \/ EndLoad \/ Complete \/ ReadSummary \/ ReadQueues
  <2>1. /\ UNCHANGED <<treatment, row, delivered, queueVars, simulatorVars>>
        /\ faults' \in Int /\ faults' <= faults
        /\ stage \in MeasureStages /\ stage' \in MeasureStages \cup {"stopped"}
    <3> USE DEF MeasureStages, databaseVars, KeepsStores
    <3>1. CASE Register
      BY <1>0, <3>1 DEF Register, RegisterRun
    <3>2. CASE Sample
      BY <1>0, <3>2 DEF Sample, Fault
    <3>3. CASE EndLoad
      BY <1>0, <3>3 DEF EndLoad
    <3>4. CASE Complete
      BY <1>0, <3>4 DEF Complete, CompleteRun
    <3>5. CASE ReadSummary
      BY <1>0, <3>5 DEF ReadSummary, Fault
    <3>6. CASE ReadQueues
      BY <1>0, <3>6 DEF ReadQueues, QueuesAnswer, Fault
    <3>7. QED
      BY <1>4, <3>1, <3>2, <3>3, <3>4, <3>5, <3>6
  <2>2. QED
    BY <1>3, <2>1 DEF MeasureStages
<1>5. CASE \/ ReadReceipts \/ ReadEvents \/ ReadDeliveries \/ Judge \/ CollectMetrics \/ Qualify
           \/ BuildComparison
  <2>1. /\ UNCHANGED <<treatment, row, delivered, queueVars, simulatorVars, faults>>
        /\ stage \in MeasureStages \cup {"collect", "qualify", "report"}
        /\ stage' \in MeasureStages \cup
                         {"collect", "qualify", "inspect", "report", "done", "stopped"}
        /\ stage = "report" => stage' = "done"
    BY <1>5 DEF ReadReceipts, ReadEvents, ReadDeliveries, Judge, CollectMetrics, Qualify,
      BuildComparison, MeasureStages, databaseVars, KeepsStores, KeepsRecords
  <2>2. QED
    BY <1>0, <1>3, <2>1
<1>6. CASE InspectBefore
  <2>1. /\ UNCHANGED <<treatment, row, delivered, queueVars, simulatorVars, faults>>
        /\ stage = "before" /\ stage' \in {"truncate", "stopped"}
    BY <1>6 DEF InspectBefore, KeepsStores, KeepsRecords, databaseVars
  <2>2. UnmarkedInv'
    BY <2>1 DEF PaidInv, UnmarkedInv, MeasureStages, Evaluating, Going, queueVars, simulatorVars
  <2>3. QED
    BY <2>1, <2>2 DEF PaidInv, Removed, Verifying, BetweenStages, Going, queueVars,
      simulatorVars
<1>7. CASE /\ \A e \in Of("fixed") : Going(e)' => Going(e)
           /\ faults' \in Int /\ faults' <= faults
           /\ stage \in (Removed \cup {"truncate"}) \ Verifying
           /\ stage' \in Removed \cup {"register", "stopped"}
           /\ stage' = "register" => treatment' = "elastic"
           /\ stage' \in {"purging"} \cup Verifying => stable' = -1
  <2>1. UnmarkedInv'
    BY <1>7 DEF UnmarkedInv, MeasureStages, Evaluating, Removed, BetweenStages
  <2>2. QED
    BY <1>0, <1>7, <2>1 DEF PaidInv, Removed, Verifying, BetweenStages
<1>8. CASE Truncate \/ Clear \/ InspectAfter \/ Purge \/ EndPurge \/ Absent
  <2>1. \A e \in Of("fixed") : Going(e)' => Going(e)
    BY <1>0, <1>8 DEF Truncate, Clear, InspectAfter, Purge, EndPurge, Absent,
      KeepsRecords, KeepsStores, queueVars, Going, RecordsTypeOK
  <2>2. faults' = faults
    BY <1>8 DEF Truncate, Clear, InspectAfter, Purge, EndPurge, Absent, KeepsRecords
  <2>3. /\ stage \in (Removed \cup {"truncate"}) \ Verifying
        /\ stage' \in Removed \cup {"stopped"}
        /\ stage' \in {"purging"} \cup Verifying => stable' = -1
    BY <1>8 DEF Truncate, Clear, InspectAfter, Purge, EndPurge, Absent, KeepsMeasure, PaidInv,
      Removed, Verifying, BetweenStages
  <2>4. QED
    BY <1>0, <1>7, <2>1, <2>2, <2>3 DEF Removed, BetweenStages
<1>9. CASE PreApply \/ PlanPolicy \/ ValidatePlan \/ Apply \/ VerifyNative \/ PostApply
  <2>1. \A e \in Of("fixed") : Going(e)' => Going(e)
    BY <1>9 DEF PreApply, PlanPolicy, ValidatePlan, Apply, VerifyNative, PostApply,
      KeepsRecords, KeepsStores, recordVars, queueVars, Going
  <2>2. faults' \in Int /\ faults' <= faults
    BY <1>0, <1>9 DEF PreApply, PlanPolicy, ValidatePlan, Apply, VerifyNative, PostApply,
      KeepsRecords, recordVars, QueuesAnswer, Fault
  <2>3. /\ stage \in (Removed \cup {"truncate"}) \ Verifying
        /\ stage' \in Removed \cup {"register", "stopped"}
        /\ stage' = "register" => treatment' = "elastic"
        /\ stage' \notin {"purging"} \cup Verifying
    BY <1>9 DEF PreApply, PlanPolicy, ValidatePlan, Apply, VerifyNative, PostApply, Removed,
      Verifying, BetweenStages
  <2>4. QED
    BY <1>7, <2>1, <2>2, <2>3
<1>10. QED
  BY <1>1, <1>2, <1>4, <1>5, <1>6, <1>8, <1>9 DEF Controller

\* Nor does time add a message, or an unmarked entry.
LEMMA TickPays ==
  ASSUME MeasurementInv, IsolationInv, PaidInv, Tick
  PROVE  PaidInv'
<1>0. /\ faults \in 0 .. MaxFaults /\ MaxFaults \in Nat /\ stable \in Int /\ VerifyTicks \in Nat
      /\ Of("fixed") \subseteq Events /\ RecordsTypeOK
  BY RecordsAssumption, TimesAssumption DEF MeasurementInv, TypeInv, RecordsTypeOK,
    CounterInv, Of, Events, Treatments
<1>1. /\ UNCHANGED <<treatment, row, delivered, receipts, queueVars>>
      /\ \A e \in Events : calls'[e] # 0 => calls[e] # 0
  BY <1>0 DEF Tick, CallsAge, databaseVars, Goto, RecordsTypeOK
<1>2. \A e \in Of("fixed") : Going(e)' <=> Going(e)
  BY <1>1 DEF Going, queueVars
<1>3. CASE treatment = "fixed" /\ stage \notin Applied
  <2>1. ~autoscaled
    BY <1>3 DEF MeasurementInv, PeakInv, Tick, At, Applied
  <2>2. faults' = faults
    BY <2>1 DEF Tick, Slot
  <2>3. /\ stage = "purging" => stage' = "purging" /\ stable' = stable
        /\ stage = "resting" => stage' = "verify" /\ stable' = Older(stable, VerifyTicks)
        /\ stage \notin {"purging", "resting"} =>
             stage \in MeasureStages /\ stage' \in MeasureStages
    BY <1>3 DEF Tick, At, Goto, MeasureStages, Applied
  <2>4. stage = "resting" /\ stable' >= 0 => stable >= 0
    BY <1>0, <2>3 DEF Older, MeasurementInv, TypeInv, CounterInv
  <2>5. UnmarkedInv'
    BY <1>0, <1>1, <1>2, <2>2, <2>3 DEF PaidInv, UnmarkedInv, MeasureStages, Evaluating
  <2>6. QED
    BY <1>0, <1>2, <1>3, <2>2, <2>3, <2>4, <2>5 DEF PaidInv, MeasureStages, Removed, Verifying,
      BetweenStages
<1>4. CASE stage \in Applied
  <2>1. stage' = "native" /\ treatment = "fixed" /\ treatment' = "fixed"
    BY <1>4 DEF Tick, At, Goto, Applied, MeasurementInv, Inv, PolicyInv, BetweenStages
  <2>2. \A e \in Of("fixed") : ~Going(e)
    BY <1>4 DEF IsolationInv, TreatmentsIsolated, AfterReset, Applied, Going
  <2>3. QED
    BY <1>2, <1>4, <2>1, <2>2 DEF PaidInv, UnmarkedInv, MeasureStages, Evaluating, Applied,
      Removed, Verifying, BetweenStages
<1>5. CASE treatment = "elastic"
  <2>1. stage \in MeasureStages /\ stage' \in MeasureStages /\ treatment' = "elastic"
    BY <1>5 DEF Tick, At, Goto, MeasureStages, MeasurementInv, Inv, PolicyInv, BetweenStages
  <2>2. QED
    BY <2>1 DEF PaidInv, UnmarkedInv, MeasureStages, Removed, Verifying, BetweenStages
<1>6. QED
  BY <1>3, <1>4, <1>5 DEF MeasurementInv, Inv, Types, Treatments

\* Every step pays.
LEMMA PaidKeeps ==
  ASSUME MeasurementInv, IsolationInv, PaidInv, [Next]_vars
  PROVE  PaidInv'
<1>1. CASE UNCHANGED vars
  BY <1>1 DEF vars, recordVars, databaseVars, queueVars, simulatorVars, controlVars, PaidInv,
    UnmarkedInv, Going
<1>2. QED
  BY <1>1, EnvironmentPays, ControllerPays, TickPays DEF Next

\* Two failures of any kind, counts that lie included, are not enough to let anything of the
\* fixed run into the replay: it takes one to leave a message behind, and the verification
\* looks twice.  Three are enough: an entry that is sent again behind the inspection, and a
\* count that lies in both looks.
THEOREM IsolationOutlivesTwoFaults ==
  ASSUME MaxFaults <= 2
  PROVE  Spec => []TreatmentsIsolated
<1>1. Init => IsolationInv /\ PaidInv
  BY IsolationInit DEF Init, RecordsInit, PaidInv, UnmarkedInv, Removed, Verifying,
    BetweenStages, Going, Of, Events, Treatments
<1>2. MeasurementInv /\ IsolationInv /\ PaidInv /\ [Next]_vars => IsolationInv' /\ PaidInv'
  <2>1. SUFFICES ASSUME MeasurementInv, IsolationInv, PaidInv, [Next]_vars
                 PROVE  IsolationInv' /\ PaidInv'
    OBVIOUS
  <2>2. NothingGoesOn
    <3>1. SUFFICES ASSUME stage = "verify", stage' = "absent", NEW e \in Of("fixed"), Going(e)
                   PROVE  FALSE
      BY DEF NothingGoesOn
    <3>2. VerifyEmpty
      BY <2>1, <3>1, VerificationEnds
    <3>3. PICK empty \in BOOLEAN :
            QueuesAnswer(empty) /\ EmptyAndFixed(empty) /\ stable >= VerifyTicks
      BY <3>1, <3>2 DEF VerifyEmpty, Goto, Stop
    <3>4. empty /\ ~QueuesEmpty
      BY <3>1, <3>3 DEF EmptyAndFixed, QueuesEmpty, QueueWork, InFlight, Going, Of, Events,
        Treatments
    <3>5. faults > 0
      BY <3>3, <3>4 DEF QueuesAnswer, Fault
    <3>6. stable >= 0
      BY <2>1, <3>3, TimesAssumption DEF MeasurementInv, TypeInv, CounterInv
    <3>7. faults < MaxFaults - 1
      BY <2>1, <3>1, <3>6 DEF PaidInv, Verifying
    <3>8. QED
      BY <2>1, <3>5, <3>7, RecordsAssumption DEF MeasurementInv, TypeInv, RecordsTypeOK
  <2>3. QED
    BY <2>1, <2>2, IsolationKeeps, PaidKeeps DEF MeasurementInv
<1>3. IsolationInv => TreatmentsIsolated
  BY DEF IsolationInv
<1>4. QED
  BY <1>1, <1>2, <1>3, MeasurementInvariant, PTL DEF Spec
=============================================================================
