------------------------ MODULE ElasticityExperiment ------------------------
(***************************************************************************)
(* The paired elasticity experiment: the fixed treatment is measured with  *)
(* one worker, everything it left is removed, autoscaling is added, the    *)
(* same workload is replayed, and a report compares the two.               *)
(*                                                                         *)
(* The controller moves through stages; between them, and in the stages    *)
(* in which it sleeps, requests, workers, telemetry and alarms go on.      *)
(***************************************************************************)
EXTENDS ScalingMetrics

CONSTANTS
  PeakTicks, LoadTicks,        \* when the demand falls, when the workload ends
  RecoveryTicks,               \* minimum_recovery_at_minimum_seconds
  DrainTicks, DrainDeadline,   \* empty_stability_seconds, post_load_timeout_seconds
  PurgeTicks,                  \* minimum_purge_wait_seconds
  VerifyTicks, VerifyDeadline, \* of the reset verification, after the purge
  NativeDeadline,              \* of the verification of the policy
  MaxAttempts,                 \* maximum_attempts of the metric collection
  Tolerated                    \* failed requests below ingestion_error_limit_percent

ASSUME TimesAssumption ==
  /\ \A n \in {PeakTicks, LoadTicks, RecoveryTicks, DrainTicks, DrainDeadline, PurgeTicks,
               VerifyTicks, VerifyDeadline, NativeDeadline, MaxAttempts, Tolerated} : n \in Nat
  /\ PeakTicks < LoadTicks /\ DrainTicks <= DrainDeadline /\ MaxAttempts # 0
  /\ PurgeTicks + VerifyTicks <= VerifyDeadline
  /\ CallLife <= VerifyTicks

VARIABLES
  treatment, stage,
  clock,          \* ticks since the load started, ended, or the queues were purged
  stable,         \* ticks since the first sample of an empty run of them, or -1
  attempts,       \* metric collections tried
  seen,           \* what the samples of this treatment have shown
  reading,        \* what the reconciliation has read so far
  confirmed,      \* drain_stability_confirmed of this treatment
  exact,          \* correctness_guardrails_passed of this treatment
  complete,       \* treatments whose measurement is complete
  qualified,      \* treatments that qualified
  planned,        \* what the saved plan changes
  changed,        \* what Terraform has changed since the fixed treatment
  report,         \* "none", "demonstrated" or "not_demonstrated"
  peak            \* history: the most workers of each treatment during its load

controlVars == <<treatment, stage, clock, stable, attempts, seen, reading, confirmed, exact,
                 complete, qualified, planned, changed, report, peak>>
vars == <<recordVars, scalingVars, controlVars>>

Stages ==
  {"register", "sample", "load", "complete", "drain", "queues", "sleep", "receipts",
   "events", "deliveries", "judge", "collect", "qualify", "inspect", "before", "truncate",
   "clear", "after", "purge", "purging", "verify", "resting", "absent", "pre_apply",
   "plan", "validate", "apply", "native", "settling", "post_apply", "report", "done", "stopped"}

\* What Terraform may change: for each resource, as the frozen policy has it or not.
PolicyResources == {"target", "policies", "alarms"}
Policy == [r \in PolicyResources |-> "frozen"]
Plans == UNION {[S -> {"frozen", "other"}] : S \in SUBSET (PolicyResources \cup {"services"})}
Only(plan, S) == [r \in S |-> plan[r]]

Unseen == [first |-> FALSE, fixed |-> TRUE, pressed |-> FALSE, expanded |-> FALSE,
           low |-> -1, last |-> TRUE,
           failed |-> FALSE, drained |-> FALSE]
Unread == [receipts |-> {}, events |-> {}, known |-> FALSE]

-----------------------------------------------------------------------------
\* Where the controller goes next, and what a step of it leaves alone.
At(s) == stage = s
Goto(s) == stage' = s /\ UNCHANGED treatment

\* An exception ends the phase; the session that owns it tears everything down.
Stop == stage' = "stopped" /\ UNCHANGED treatment

KeepsStores ==
  UNCHANGED <<databaseVars, requests, queueVars, simulatorVars, workers, scalingVars>>
KeepsRecords == KeepsStores /\ UNCHANGED faults
KeepsPlan == UNCHANGED <<planned, changed>>
KeepsResults == UNCHANGED <<complete, qualified, report, peak>> /\ KeepsPlan
KeepsReading == UNCHANGED <<reading, exact>>
KeepsTimes == UNCHANGED <<clock, stable, attempts>>

InPeak == clock < PeakTicks
AtMinimum == workers = 1

-----------------------------------------------------------------------------
\* The treatment is registered, and its load begins on a minute boundary.
Register ==
  /\ At("register")
  /\ IF treatment \in runs
       THEN Stop /\ UNCHANGED <<databaseVars, clock, seen, stable, confirmed, attempts>>
       ELSE /\ RegisterRun(treatment)
            /\ Goto("sample")
            /\ clock' = 0 /\ seen' = Unseen /\ stable' = -1 /\ confirmed' = FALSE
            /\ attempts' = 0
  /\ peak' = [peak EXCEPT ![treatment] = workers]
  /\ KeepsReading
  /\ KeepsPlan
  /\ UNCHANGED <<requests, queueVars, simulatorVars, workers, faults, scalingVars,
                 complete, qualified, report>>

\* What a sample adds to the observations of the load.
Sampled ==
  [seen EXCEPT
     !.first = IF clock = 0 THEN AtMinimum ELSE @,
     !.fixed = @ /\ workers = 1,
     !.pressed = @ \/ (InPeak /\ QueueWork # {}),
     !.expanded = @ \/ (InPeak /\ workers = Capacity),
     !.last = AtMinimum,
     !.low = IF ~InPeak /\ AtMinimum THEN IF @ = -1 THEN 0 ELSE @ + 1 ELSE -1]

Sample ==
  /\ At("sample")
  /\ Goto("load")
  /\ \/ seen' = Sampled /\ UNCHANGED faults
     \/ Fault /\ seen' = [seen EXCEPT !.failed = TRUE, !.low = -1]
  /\ KeepsTimes /\ KeepsReading /\ KeepsResults
  /\ UNCHANGED <<databaseVars, requests, queueVars, simulatorVars, workers, scalingVars,
                 confirmed>>

\* k6 ends with its schedule, or is stopped two minutes after it.
EndLoad ==
  /\ At("load") /\ clock = LoadTicks
  /\ \/ Goto("complete")
     \/ Stop
  /\ requests' = [e \in Events |-> IF requests[e] = "open" THEN "abandoned" ELSE requests[e]]
  /\ UNCHANGED <<databaseVars, queueVars, simulatorVars, workers, faults, scalingVars>>
  /\ KeepsTimes /\ KeepsReading /\ KeepsResults
  /\ UNCHANGED <<seen, confirmed>>

Complete ==
  /\ At("complete")
  /\ IF treatment \in runs \ completed
       THEN CompleteRun(treatment) /\ Goto("drain")
       ELSE Stop /\ UNCHANGED databaseVars
  /\ clock' = 0 /\ UNCHANGED <<stable, attempts>>
  /\ KeepsReading /\ KeepsResults
  /\ UNCHANGED <<requests, queueVars, simulatorVars, workers, faults, scalingVars,
                 seen, confirmed>>

-----------------------------------------------------------------------------
\* Variant that starts its deadline again instead of giving up.
ReadSummaryAgain ==
  /\ At("drain")
  /\ clock' = IF clock > DrainDeadline THEN 0 ELSE clock
  /\ \/ /\ Goto("queues") /\ UNCHANGED <<stable, faults>>
        /\ seen' = [seen EXCEPT !.drained = DatabaseDrained(treatment)]
     \/ /\ Fault /\ Goto("sleep") /\ stable' = -1
        /\ seen' = [seen EXCEPT !.failed = TRUE, !.drained = FALSE]
  /\ UNCHANGED <<databaseVars, requests, queueVars, simulatorVars, workers, scalingVars,
                 attempts, confirmed>>
  /\ KeepsReading /\ KeepsResults

\* The drain loop: one sample of the summary and then of the queues.
ReadSummary ==
  /\ At("drain")
  /\ IF clock > DrainDeadline
       THEN Goto("receipts") /\ stable' = -1 /\ UNCHANGED <<seen, faults>>
       ELSE \/ /\ Goto("queues") /\ UNCHANGED <<stable, faults>>
               /\ seen' = [seen EXCEPT !.drained = DatabaseDrained(treatment)]
            \/ /\ Fault /\ Goto("sleep") /\ stable' = -1
               /\ seen' = [seen EXCEPT !.failed = TRUE, !.drained = FALSE]
  /\ UNCHANGED <<databaseVars, requests, queueVars, simulatorVars, workers, scalingVars,
                 clock, attempts, confirmed>>
  /\ KeepsReading /\ KeepsResults

\* The drain is confirmed by samples that were empty for long enough.
ReadQueues ==
  /\ At("queues")
  /\ \E empty \in BOOLEAN : QueuesAnswer(empty) /\
     LET drained == seen.drained /\ empty
         held == drained /\ stable >= DrainTicks IN
       /\ seen' = [seen EXCEPT !.drained = drained, !.fixed = @ /\ workers = 1,
                                !.last = AtMinimum]
       /\ stable' = IF ~drained \/ held THEN -1 ELSE IF stable = -1 THEN 0 ELSE stable
       /\ confirmed' = held
       /\ IF held THEN Goto("receipts") ELSE Goto("sleep")
       /\ clock' = IF held THEN 0 ELSE clock
  /\ KeepsStores /\ KeepsReading /\ KeepsResults
  /\ UNCHANGED attempts

-----------------------------------------------------------------------------
\* reconcile_test_run: the receipts, then the events, then the attempts.
ReadReceipts ==
  /\ At("receipts")
  /\ \/ Goto("events") /\ reading' = [Unread EXCEPT !.receipts = receipts \cap Of(treatment)]
     \/ Stop /\ UNCHANGED reading
  /\ KeepsRecords /\ KeepsTimes /\ KeepsResults /\ UNCHANGED <<seen, confirmed, exact>>

ReadEvents ==
  /\ At("events")
  /\ IF treatment \in runs
       THEN Goto("deliveries") /\ reading' = [reading EXCEPT !.events = Stored(treatment)]
       ELSE Stop /\ UNCHANGED reading
  /\ KeepsRecords /\ KeepsTimes /\ KeepsResults /\ UNCHANGED <<seen, confirmed, exact>>

\* Variant that compares what is there, and not how much was generated.
Accounted(successes) ==
  /\ reading.receipts \subseteq reading.events
  /\ successes = reading.receipts

\* correctness_guardrails_passed of the report: all accepted, each event received
\* as often as it was delivered, at most once, and none that is not stored.
ReconciliationPasses(successes) ==
  /\ reading.events = Of(treatment)
  /\ reading.receipts = Of(treatment)
  /\ successes = reading.receipts

\* An attempt of an event that was not among those read is a KeyError, failed or not.
ReadDeliveries ==
  /\ At("deliveries")
  /\ LET successes == delivered \cap Of(treatment) IN
       IF tried \cap Of(treatment) \subseteq reading.events
         THEN Goto("judge") /\ exact' = ReconciliationPasses(successes)
         ELSE Stop /\ UNCHANGED exact
  /\ KeepsRecords /\ KeepsTimes /\ KeepsResults /\ UNCHANGED <<seen, confirmed, reading>>

-----------------------------------------------------------------------------
\* ingestion_guardrails_passed: nothing dropped, and few enough failures.
IngestionPasses(t) ==
  /\ \A e \in Of(t) : requests[e] \in {"answered", "abandoned"}
  /\ Cardinality({e \in Of(t) : requests[e] = "abandoned"}) <= Tolerated

\* measurement_complete of an ElasticityResult, and of a FixedControlResult.
MeasurementComplete ==
  /\ IngestionPasses(treatment)
  /\ exact
  /\ seen.drained /\ confirmed /\ ~seen.failed
  /\ treatment = "fixed" => seen.fixed

Judge ==
  /\ At("judge")
  /\ complete' = IF MeasurementComplete THEN complete \cup {treatment} ELSE complete
  /\ reading' = Unread
  /\ Goto("collect")
  /\ KeepsPlan
  /\ KeepsRecords /\ KeepsTimes /\ UNCHANGED <<seen, confirmed, exact, qualified, report, peak>>

\* Variant that counts one attempt too many.
CollectOnceMore ==
  /\ At("collect")
  /\ \/ Goto("qualify") /\ UNCHANGED attempts
     \/ /\ attempts' = attempts + 1
        /\ IF attempts < MaxAttempts THEN Goto("collect") ELSE Stop
     \/ Stop /\ UNCHANGED attempts
  /\ KeepsRecords /\ KeepsReading /\ KeepsResults
  /\ UNCHANGED <<clock, stable, seen, confirmed>>

\* The native metrics: published at last, or incomplete once more.
CollectMetrics ==
  /\ At("collect")
  /\ \/ Goto("qualify") /\ UNCHANGED attempts
     \/ /\ attempts' = attempts + 1
        /\ IF attempts + 1 < MaxAttempts THEN Goto("collect") ELSE Stop
     \/ Stop /\ UNCHANGED attempts
  /\ KeepsRecords /\ KeepsReading /\ KeepsResults
  /\ UNCHANGED <<clock, stable, seen, confirmed>>

\* Variant that forgets to ask whether the capacity ever grew.
TreatmentReturns ==
  IF treatment = "fixed" THEN seen.pressed ELSE seen.first /\ seen.low >= RecoveryTicks /\ seen.last

\* What each treatment needs beside the guardrails that both share.
TreatmentPasses ==
  IF treatment = "fixed" THEN seen.pressed
  ELSE seen.first /\ seen.expanded /\ seen.low >= RecoveryTicks /\ seen.last

\* The native guardrails may reject any run: a rejected control ends the experiment,
\* a rejected replay is still reported.
Qualify ==
  /\ At("qualify")
  /\ \/ /\ treatment \in complete /\ TreatmentPasses
        /\ qualified' = qualified \cup {treatment}
        /\ Goto(IF treatment = "fixed" THEN "inspect" ELSE "report")
     \/ /\ UNCHANGED qualified
        /\ IF treatment = "fixed" THEN Stop ELSE Goto("report")
  /\ KeepsRecords /\ KeepsTimes /\ KeepsReading
  /\ KeepsPlan
  /\ UNCHANGED <<seen, confirmed, complete, report, peak>>

-----------------------------------------------------------------------------
\* The reset between the treatments: the controller looks, then the API.
KeepsMeasure == UNCHANGED <<seen, confirmed, complete, qualified, report, peak, stable, attempts>>
                /\ KeepsReading

EmptyAndFixed(empty) == ApplicationEmpty /\ empty /\ AtMinimum
PreResetState(empty) == ApplicationHolds("fixed") /\ empty /\ AtMinimum

Inspect ==
  /\ At("inspect")
  /\ \E empty \in BOOLEAN :
       QueuesAnswer(empty) /\ IF PreResetState(empty) /\ ~autoscaled THEN Goto("before") ELSE Stop
  /\ KeepsPlan
  /\ KeepsStores /\ KeepsMeasure /\ UNCHANGED clock

\* reset_experiment asks how many attempts there are, and not which events they are of.
InspectBefore ==
  /\ At("before")
  /\ IF ApplicationHolds("fixed") /\ tries >= Cardinality(Of("fixed"))
       THEN Goto("truncate") ELSE Stop
  /\ KeepsPlan
  /\ KeepsRecords /\ KeepsMeasure /\ UNCHANGED clock

Truncate ==
  /\ At("truncate")
  /\ TruncateExperiment
  /\ Goto("clear")
  /\ KeepsMeasure
  /\ KeepsPlan
  /\ UNCHANGED <<requests, queueVars, simulatorVars, workers, faults, scalingVars, clock>>

\* The simulator is cleared after the commit; where that fails, the API answers
\* with an error and nothing is tried again.
Clear ==
  /\ At("clear")
  /\ \/ ClearSimulator /\ Goto("after")
     \/ ClearSimulator /\ Stop
     \/ UNCHANGED simulatorVars /\ Stop
  /\ KeepsMeasure
  /\ KeepsPlan
  /\ UNCHANGED <<databaseVars, requests, queueVars, workers, faults, scalingVars, clock>>

InspectAfter ==
  /\ At("after")
  /\ IF ApplicationEmpty THEN Goto("purge") ELSE Stop
  /\ KeepsPlan
  /\ KeepsRecords /\ KeepsMeasure /\ UNCHANGED clock

\* The purge of the queues is only started here.
Purge ==
  /\ At("purge")
  /\ Goto("purging") \/ Stop
  /\ clock' = 0 /\ stable' = -1
  /\ KeepsReading /\ KeepsResults
  /\ KeepsRecords /\ UNCHANGED <<seen, confirmed, attempts>>

\* A purge takes up to a minute, and the controller waits for longer.
EndPurge ==
  /\ At("purging") /\ clock = PurgeTicks
  /\ Goto("verify")
  /\ KeepsPlan
  /\ KeepsRecords /\ KeepsMeasure /\ UNCHANGED clock

\* Variant that ends with the first observation of an empty system.
VerifyOnce ==
  /\ At("verify")
  /\ \E empty \in BOOLEAN : QueuesAnswer(empty) /\
       /\ stable' = IF EmptyAndFixed(empty) THEN 0 ELSE -1
       /\ IF EmptyAndFixed(empty) THEN Goto("absent")
          ELSE IF clock >= VerifyDeadline THEN Stop ELSE Goto("resting")
  /\ KeepsStores /\ KeepsReading /\ KeepsResults
  /\ UNCHANGED <<clock, attempts, seen, confirmed>>

\* One observation of the verification loop: the system has to stay empty for longer than
\* a request of a worker takes whose message the purge has removed.
VerifyEmpty ==
  /\ At("verify")
  /\ \E empty \in BOOLEAN : QueuesAnswer(empty) /\
     LET held == EmptyAndFixed(empty) /\ stable >= VerifyTicks IN
       /\ stable' = IF ~EmptyAndFixed(empty) THEN -1 ELSE IF stable = -1 THEN 0 ELSE stable
       /\ IF held THEN Goto("absent")
          ELSE IF clock >= VerifyDeadline THEN Stop ELSE Goto("resting")
  /\ KeepsStores /\ KeepsReading /\ KeepsResults
  /\ UNCHANGED <<clock, attempts, seen, confirmed>>

Absent ==
  /\ At("absent")
  /\ IF autoscaled THEN Stop ELSE Goto("pre_apply")
  /\ KeepsPlan
  /\ KeepsRecords /\ KeepsMeasure /\ UNCHANGED clock

-----------------------------------------------------------------------------
\* The transition: an empty deployment, the policy alone, and empty once more.
PreApply ==
  /\ At("pre_apply")
  /\ \E empty \in BOOLEAN :
       QueuesAnswer(empty) /\ IF EmptyAndFixed(empty) THEN Goto("plan") ELSE Stop
  /\ KeepsPlan
  /\ KeepsStores /\ KeepsMeasure /\ UNCHANGED clock

\* Terraform plans what differs from its configuration: what has drifted is planned
\* as well, and what is there already is not.
PlanPolicy ==
  /\ At("plan")
  /\ \/ planned' = Policy /\ Goto("validate") /\ UNCHANGED faults
     \/ Fault /\ planned' \in Plans /\ Goto("validate")
     \/ Stop /\ UNCHANGED <<planned, faults>>
  /\ KeepsStores /\ KeepsMeasure /\ UNCHANGED <<clock, changed>>

\* Variant that asks for the policy and allows what else is planned.
PolicyAmongPlanned == PolicyResources \subseteq DOMAIN planned

\* The saved plan creates the resources of the policy and touches nothing else.
OnlyPolicyPlanned == DOMAIN planned = PolicyResources

\* Each of them is what the frozen policy says.
PlannedAsFrozen == \A r \in PolicyResources : planned[r] = "frozen"

ValidatePlan ==
  /\ At("validate")
  /\ IF OnlyPolicyPlanned /\ PlannedAsFrozen THEN Goto("apply") ELSE Stop
  /\ KeepsRecords /\ KeepsMeasure /\ KeepsPlan /\ UNCHANGED clock

\* An apply may fail half-way.  The publishers have run all the time: their
\* windows are old, or new.
Apply ==
  /\ At("apply")
  /\ \/ /\ changed' = planned
        /\ autoscaled' = TRUE
        /\ \E age \in {-1, QuietSlots} :
             /\ since' = [a \in Replicas |-> age]
             /\ previous' = [a \in Replicas |-> IF age = -1 THEN -1 ELSE 0]
             /\ calm' = since'
        /\ quiet' = 0 /\ hot' = 0 /\ arrivals' = {}
        /\ Goto("native")
     \/ /\ \E S \in SUBSET DOMAIN planned : changed' = Only(planned, S)
        /\ Stop /\ UNCHANGED scalingVars
  /\ clock' = 0
  /\ KeepsMeasure
  /\ UNCHANGED <<recordVars, planned>>

\* Application Auto Scaling and CloudWatch answer with the exact policy, in time.
VerifyNative ==
  /\ At("native")
  /\ \/ Goto("post_apply")
     \/ IF clock >= NativeDeadline THEN Stop ELSE Goto("settling")
  /\ KeepsRecords /\ KeepsMeasure /\ KeepsPlan /\ UNCHANGED clock

\* The empty state once more, and with the policy right before the replay.
PostApply ==
  /\ At("post_apply")
  /\ \/ /\ \E empty \in BOOLEAN : QueuesAnswer(empty) /\ EmptyAndFixed(empty)
        /\ stage' = "register" /\ treatment' = "elastic"
     \/ Stop /\ UNCHANGED faults
  /\ KeepsPlan
  /\ KeepsStores /\ KeepsMeasure /\ UNCHANGED clock

\* build_comparison, once the teardown is verified: the saved measurement may have
\* reasons of its own against the claim.
BuildComparison ==
  /\ At("report")
  /\ \/ {"fixed", "elastic"} \subseteq qualified /\ report' = "demonstrated"
     \/ report' = "not_demonstrated"
  /\ Goto("done")
  /\ KeepsRecords /\ KeepsTimes /\ KeepsReading
  /\ KeepsPlan
  /\ UNCHANGED <<seen, confirmed, complete, qualified, peak>>

Controller ==
  \/ Register \/ Sample \/ EndLoad \/ Complete \/ ReadSummary \/ ReadQueues
  \/ ReadReceipts \/ ReadEvents \/ ReadDeliveries \/ Judge \/ CollectMetrics \/ Qualify
  \/ Inspect \/ InspectBefore \/ Truncate \/ Clear \/ InspectAfter
  \/ Purge \/ EndPurge \/ VerifyEmpty \/ Absent
  \/ PreApply \/ PlanPolicy \/ ValidatePlan \/ Apply \/ VerifyNative \/ PostApply \/ BuildComparison

-----------------------------------------------------------------------------
\* Time passes while the controller sleeps: one slot of the publishers.
Older(n, limit) == IF n = -1 THEN -1 ELSE Lesser(n + 1, limit)

Tick ==
  /\ \/ /\ At("load") /\ clock < LoadTicks /\ Goto("sample")
        /\ clock' = clock + 1 /\ UNCHANGED stable
     \/ /\ At("sleep") /\ Goto("drain")
        /\ clock' = clock + 1 /\ stable' = Older(stable, DrainTicks)
     \/ /\ At("purging") /\ clock < PurgeTicks /\ Goto("purging")
        /\ clock' = clock + 1 /\ UNCHANGED stable
     \/ /\ At("settling") /\ Goto("native")
        /\ clock' = clock + 1 /\ UNCHANGED stable
     \/ /\ At("resting") /\ Goto("verify")
        /\ clock' = clock + 1 /\ stable' = Older(stable, VerifyTicks)
  /\ Slot /\ CallsAge
  /\ UNCHANGED <<databaseVars, requests, queueVars, receipts, workers, attempts, seen, confirmed>>
  /\ KeepsReading /\ KeepsResults

\* What goes on beside the controller until the session is torn down.
Underway == stage \notin {"done", "stopped"}

Loading == stage \in {"sample", "load"}

RequestStep ==
  \/ \E e \in Of(treatment) : Loading /\ (SendRequest(e) \/ AbandonRequest(e)) /\ UNCHANGED arrivals
  \/ \E e \in Events : StoreEvent(e) /\ arrivals' = IF autoscaled THEN arrivals \cup {e} ELSE {}

\* SQS purges within the time that the controller waits for it.
PurgeStep == At("purging") /\ \E e \in Events : PurgeMessage(e)

Environment ==
  /\ Underway
  /\ \/ RequestStep /\ UNCHANGED <<since, previous, quiet, hot, autoscaled, calm, peak>>
     \/ DeliveryStep /\ UNCHANGED <<scalingVars, peak>>
     \/ PurgeStep /\ UNCHANGED <<scalingVars, peak>>
     \/ ScaleOut /\ peak' = [peak EXCEPT ![treatment] = IF Loading THEN Capacity ELSE @]
     \/ ScaleIn /\ UNCHANGED peak
  /\ KeepsPlan
  /\ UNCHANGED <<treatment, stage, clock, stable, attempts, seen, reading, confirmed, exact,
                 complete, qualified, report>>

Init ==
  /\ RecordsInit /\ ScalingInit
  /\ treatment = "fixed" /\ stage = "register"
  /\ clock = 0 /\ stable = -1 /\ attempts = 0
  /\ seen = Unseen /\ reading = Unread /\ confirmed = FALSE /\ exact = FALSE
  /\ complete = {} /\ qualified = {} /\ report = "none"
  /\ planned = <<>> /\ changed = <<>>
  /\ peak = [t \in Treatments |-> 0]

Next == Controller \/ Tick \/ Environment

\* The controller is one process that polls; every sleep of it ends.
Spec == Init /\ [][Next]_vars /\ WF_vars(Controller) /\ WF_vars(Tick)

-----------------------------------------------------------------------------
\* The variables have their types, and the counters keep their bounds.
TypeOK ==
  /\ RecordsTypeOK /\ ScalingTypeOK
  /\ treatment \in Treatments /\ stage \in Stages
  /\ clock \in 0 .. (LoadTicks + DrainDeadline + VerifyDeadline + NativeDeadline + 1)
  /\ stable \in -1 .. (DrainTicks + VerifyTicks)
  /\ attempts \in 0 .. MaxAttempts
  /\ confirmed \in BOOLEAN /\ exact \in BOOLEAN
  /\ complete \subseteq Treatments /\ qualified \subseteq complete
  /\ planned \in Plans /\ changed \in Plans
  /\ report \in {"none", "demonstrated", "not_demonstrated"}

\* Every event of the treatment was stored, and reached the simulator.
Measured(t) == \A e \in Of(t) : row[e] # "none" /\ e \in delivered /\ e \in receipts

BeforeReset ==
  treatment = "fixed" /\ stage \in {"collect", "qualify", "inspect", "before", "truncate"}
AfterReset ==
  \/ treatment = "elastic"
  \/ stage \in {"absent", "pre_apply", "plan", "validate", "apply", "native", "settling", "post_apply"}

\* A measurement that counts as complete is of all events, and stays so: no answer
\* that came late and no sample that was stale is taken for a delivery.
CompleteIsMeasured ==
  /\ ("fixed" \in complete /\ BeforeReset) => Measured("fixed")
  /\ "elastic" \in complete => Measured("elastic")

\* From the verified reset on nothing of the fixed treatment is there, and nothing
\* comes back: no row, no message, no receipt, and no request still on its way.
TreatmentsIsolated ==
  AfterReset =>
    \A e \in Of("fixed") :
      /\ row[e] = "none" /\ e \notin delivered \cup receipts \cup dead
      /\ e \notin visible /\ job[e] = "none" /\ calls[e] = 0

\* The alarm that releases workers has a replica behind it that saw every slot of
\* the window, and saw all of them calm.
QuietIsReal == quiet > 0 => \E a \in Replicas : calm[a] >= quiet

\* The two treatments differ in the autoscaling policy, in the whole of it and in
\* nothing else.
InterventionIsThePolicy ==
  (treatment = "elastic" \/ stage \in {"native", "settling", "post_apply"})
    => changed = Policy

\* The claim of the report: the replay ran on all workers at some time of its load, and
\* both treatments were measured in full, without a sample that failed.
DemonstratedIsEarned ==
  report = "demonstrated" =>
    /\ peak["elastic"] = Capacity
    /\ complete = Treatments /\ Measured("elastic") /\ ~seen.failed

\* Whatever fails, is late or stays away: the experiment ends.
ExperimentEnds == <>(stage \in {"done", "stopped"})
=============================================================================
