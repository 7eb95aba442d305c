--------------------------- MODULE SessionWorkflow ---------------------------
(***************************************************************************)
(* The controllers of the cloud experiments: sequences of steps that each  *)
(* change the cloud and then write a checkpoint into session.json, and the *)
(* cleanup that must follow whatever happens to them.                      *)
(*                                                                         *)
(* A step is a record:                                                     *)
(*   needs    the statuses its function demands when it loads the manifest *)
(*            ({}: it runs on in the function of the step before it)       *)
(*   effect   what it does to the cloud before it writes                   *)
(*   builds   the layers it lets Terraform build                           *)
(*   claims   the evidence directory it must be the first to make          *)
(*   writes   the status it writes                                         *)
(*   rejects  the status it writes instead before it raises ("none": never)*)
(* A phase is a sequence of steps with the cleanup of its own controller,  *)
(* a program the phases one command runs.                                  *)
(***************************************************************************)
EXTENDS CloudSession, Sequences

CONSTANTS
  Modes,          \* the deployment modes a session is created with
  MaxCommands,    \* bound: commands the operator gives, by deployment mode
  MaxInterrupts   \* bound: SIGINT and SIGTERM, by deployment mode

ASSUME BoundsAssumption ==
  /\ Modes \subseteq {"rehost", "async"}
  /\ MaxCommands \in [Modes -> Nat]
  /\ MaxInterrupts \in [Modes -> Nat]

VARIABLES
  program,        \* the command that runs, or "none"
  phase, step,    \* where it is
  stage,          \* which part of the controller is next
  outer,          \* the cleanup is that of the owner, not of the phase
  failed,         \* workflow_error is set
  troubled,       \* cleanup errors were recorded
  destroyTried, verifyTried,   \* of _CleanupOwner
  commands, interrupts,        \* what is left of the bounds
  outcome,        \* how the last program ended
  evidence,       \* the evidence directories that exist
  migrated,       \* a migration task of this session ended with exit code 0
  measured,       \* <<tier the session names, type of the host>> of each measurement
  begun,          \* Terraform's destroy was begun by the program that runs
  reported        \* the comparison report exists

controlVars == <<program, phase, step, stage, outer, failed, troubled,
                 destroyTried, verifyTried, outcome>>
boundVars == <<commands, interrupts>>
factVars == <<evidence, migrated, measured, begun, reported>>
vars == <<sessionVars, controlVars, boundVars, factVars>>

-----------------------------------------------------------------------------
\* The steps of the asynchronous sessions.
Step(needs, effect, builds, writes) ==
  [needs |-> needs, effect |-> effect, builds |-> builds, claims |-> "none",
   writes |-> writes, rejects |-> "none"]

ArmDeployment == Step({"applied"}, "check", {}, "async_deployment_armed")
PublishAsyncImages == Step({"async_deployment_armed"}, "check", {}, "async_images_published")
PlanRuntime == Step({"async_images_published"}, "check", {}, "async_runtime_planned")
ApplyRuntime == Step({}, "build", {"runtime"}, "async_runtime_applied")
StartMigration == Step({"async_runtime_applied"}, "start", {}, "async_migration_running")
\* Variant that does not look at the exit code of the migration task.
FinishMigrationUnchecked == Step({}, "check", {}, "async_migration_succeeded")

FinishMigration == Step({}, "settle", {}, "async_migration_succeeded")
PlanServices == Step({"async_migration_succeeded"}, "check", {}, "async_services_planned")
ApplyServices == Step({}, "build", {"services"}, "async_services_applied")
AwaitServices == Step({"async_services_applied"}, "check", {}, "async_deployed")

PrepareFixedControl == Step({"async_deployed"}, "check", {}, "fixed_control_armed")
MeasureFixedControl == [Step({}, "check", {}, "fixed_control_qualified")
                          EXCEPT !.rejects = "fixed_control_rejected"]

PrepareReset == Step({"fixed_control_qualified"}, "check", {}, "experiment_reset_armed")
ExecuteReset == Step({}, "check", {}, "experiment_reset_verified")

PlanTransition(needs) == Step(needs, "check", {}, "worker_autoscaling_planned")
ApplyTransition ==
  Step({}, "build", {"autoscaling"}, "worker_autoscaling_applied_pending_verification")
VerifyTransition(status) == Step({}, "check", {}, status)

PrepareElastic(needs, status) == Step({needs}, "check", {}, status)
MeasureElastic(qualified, rejected) == [Step({}, "check", {}, qualified)
                                          EXCEPT !.rejects = rejected]

PrepareIntegration == Step({"async_deployed"}, "check", {}, "async_integration_armed")
RunIntegrationPoints == Step({}, "check", {}, "async_integration_passed")

\* The steps of the rehost sessions, which are also commands of their own.
RehostStatuses ==
  {"applied", "image_published", "rehost_deployed", "rehost_workload_collected",
   "rds_deployed", "rds_correctness_collected", "vertical_scaling_ready",
   "vertical_scaling_tier_collected", "vertical_scaling_transition_planned",
   "vertical_scaling_transition_applied_pending_validation",
   "vertical_scaling_reported"}

PublishImage == Step(RehostStatuses, "check", {}, "image_published")
DeployRds == Step({"image_published", "rehost_deployed", "rehost_workload_collected"},
                  "check", {}, "rds_deployed")
CollectCorrectness == Step({"rds_deployed"}, "check", {}, "rds_correctness_collected")
PrepareScaling == [Step({"rds_correctness_collected"}, "restart", {}, "vertical_scaling_ready")
                     EXCEPT !.claims = "definition"]
RunTier == Step({"vertical_scaling_ready"}, "measure", {}, "vertical_scaling_tier_collected")
PlanTier == [Step({"vertical_scaling_tier_collected"}, "aim", {},
                  "vertical_scaling_transition_planned") EXCEPT !.claims = "transition"]
ApplyTier == Step({}, "resize", {}, "vertical_scaling_transition_applied_pending_validation")
ValidateTier == Step({}, "validate", {}, "vertical_scaling_ready")
ReportFlexibility == [Step({"vertical_scaling_tier_collected"}, "compare", {},
                           "vertical_scaling_reported") EXCEPT !.claims = "report"]
RunCanary == Step({"rds_correctness_collected"}, "check", {}, "vertical_scaling_canary_passed")

-----------------------------------------------------------------------------
\* Phases.  "applies" stands for a call of apply_session.
Phase(steps, tears) ==
  [steps |-> steps, tears |-> tears, stops |-> FALSE, selects |-> FALSE,
   summary |-> FALSE]

Foundation == Phase(<<>>, "never")
Deployment ==
  [Phase(<<ArmDeployment, PublishAsyncImages, PlanRuntime, ApplyRuntime, StartMigration,
           FinishMigration, PlanServices, ApplyServices, AwaitServices>>, "on_failure")
     EXCEPT !.stops = TRUE]
Fixed == Phase(<<PrepareFixedControl, MeasureFixedControl>>, "on_failure")
Reset == Phase(<<PrepareReset, ExecuteReset>>, "on_failure")
Transition ==
  Phase(<<PlanTransition({"experiment_reset_verified"}), ApplyTransition,
          VerifyTransition("worker_autoscaling_verified")>>, "on_failure")
Elastic ==
  [Phase(<<PrepareElastic("worker_autoscaling_verified", "elastic_treatment_armed"),
           MeasureElastic("elastic_treatment_qualified", "elastic_treatment_rejected")>>,
         "always") EXCEPT !.summary = TRUE]
DiagnosticTransition ==
  Phase(<<PlanTransition({"async_deployed"}), ApplyTransition,
          VerifyTransition("worker_autoscaling_diagnostic_verified")>>, "never")
DiagnosticTreatment ==
  Phase(<<PrepareElastic("worker_autoscaling_diagnostic_verified", "elastic_diagnostic_armed"),
          MeasureElastic("elastic_diagnostic_qualified", "elastic_diagnostic_rejected")>>,
        "never")
Integration == Phase(<<PrepareIntegration, RunIntegrationPoints>>, "always")
Canary == Phase(<<RunCanary>>, "always")
VerticalScaling ==
  [Phase(<<PublishImage, DeployRds, CollectCorrectness, PrepareScaling, RunTier,
           PlanTier, ApplyTier, ValidateTier, RunTier, ReportFlexibility>>, "always")
     EXCEPT !.selects = TRUE]

\* Programs.  "owned": the phases share one _CleanupOwner.
Program(wants, starts, phases) ==
  [mode |-> wants, starts |-> starts, phases |-> phases, owned |-> FALSE, reports |-> FALSE]

PairedSession ==
  [Program("async", "planned", <<Foundation, Deployment, Fixed, Reset, Transition, Elastic>>)
     EXCEPT !.owned = TRUE, !.reports = TRUE]
DiagnosticSession ==
  [Program("async", "planned",
           <<Foundation, Deployment, DiagnosticTransition, DiagnosticTreatment>>)
     EXCEPT !.owned = TRUE]

RehostCommand(steps) == Program("rehost", "any", <<Phase(steps, "never")>>)

Programs ==
  [paired |-> PairedSession,
   diagnostic |-> DiagnosticSession,
   deployment |-> Program("async", "applied", <<Deployment>>),
   fixed |-> Program("async", "async_deployed", <<Fixed>>),
   reset |-> Program("async", "fixed_control_qualified", <<Reset>>),
   transition |-> Program("async", "experiment_reset_verified", <<Transition>>),
   elastic |-> Program("async", "worker_autoscaling_verified", <<Elastic>>),
   integration |-> Program("async", "async_deployed", <<Integration>>),
   vertical |-> Program("rehost", "applied", <<VerticalScaling>>),
   canary |-> Program("rehost", "rds_correctness_collected", <<Canary>>),
   publish_image |-> RehostCommand(<<PublishImage>>),
   deploy_rds |-> RehostCommand(<<DeployRds>>),
   collect_correctness |-> RehostCommand(<<CollectCorrectness>>),
   prepare_scaling |-> RehostCommand(<<PrepareScaling>>),
   run_tier |-> RehostCommand(<<RunTier>>),
   change_tier |-> RehostCommand(<<PlanTier, ApplyTier, ValidateTier>>),
   report_flexibility |-> RehostCommand(<<ReportFlexibility>>)]

Phases == Programs[program].phases
CurrentPhase == Phases[phase]
CurrentStep == CurrentPhase.steps[step]
Owned == Programs[program].owned

-----------------------------------------------------------------------------
\* Where the controller goes next.
Stay == UNCHANGED <<program, phase, step, outcome>>
Goto(part) == stage' = part /\ Stay

EndProgram(how) ==
  /\ program' = "none" /\ phase' = 1 /\ step' = 1 /\ stage' = "idle"
  /\ outer' = FALSE /\ failed' = FALSE /\ troubled' = FALSE
  /\ destroyTried' = FALSE /\ verifyTried' = FALSE
  /\ outcome' = how

KeepsFlags == UNCHANGED <<outer, failed, troubled, destroyTried, verifyTried>>
KeepsTries == UNCHANGED <<destroyTried, verifyTried>>

CleanupEntry ==
  IF CurrentPhase.stops THEN "stop" ELSE IF CurrentPhase.selects THEN "select" ELSE "destroy"

\* An exception reaches the owner's "finally", or the shell.
FailOutside ==
  IF Owned
    THEN Goto("destroy") /\ outer' = TRUE /\ failed' = TRUE /\ UNCHANGED troubled /\ KeepsTries
    ELSE EndProgram("failed")

\* An exception inside the phase is caught by the phase's own cleanup first.
FailInside ==
  IF CurrentPhase.tears # "never"
    THEN Goto(CleanupEntry) /\ failed' = TRUE /\ UNCHANGED <<outer, troubled>> /\ KeepsTries
    ELSE FailOutside

\* The phase has returned.
LeavePhase ==
  IF phase < Len(Phases)
    THEN phase' = phase + 1 /\ step' = 1 /\ stage' = "journal"
           /\ UNCHANGED <<program, outcome>> /\ KeepsFlags
    ELSE IF Owned
      THEN Goto("destroy") /\ outer' = TRUE /\ UNCHANGED <<failed, troubled>> /\ KeepsTries
      ELSE EndProgram("complete")

StepsDone ==
  IF CurrentPhase.tears = "always" THEN Goto(CleanupEntry) /\ KeepsFlags ELSE LeavePhase

NextStep ==
  IF step < Len(CurrentPhase.steps)
    THEN step' = step + 1 /\ stage' = "work" /\ UNCHANGED <<program, phase, outcome>> /\ KeepsFlags
    ELSE StepsDone

Runs(part) == program # "none" /\ stage = part /\ task = "idle"

-----------------------------------------------------------------------------
\* The operator starts a program whose approval matches the manifest.
StartProgram(name) ==
  /\ program = "none" /\ task = "idle" /\ commands > 0
  /\ Programs[name].mode = mode
  /\ Programs[name].starts # "any" => Loads /\ manifest.status = Programs[name].starts
  /\ name \in {"vertical", "canary"} => session = Baseline
  /\ Programs[name].owned => plan # "none" /\ ~manifest.owned
  /\ program' = name /\ phase' = 1 /\ step' = 1
  /\ stage' = IF Programs[name].owned THEN "journal" ELSE "work"
  /\ commands' = commands - 1
  /\ begun' = FALSE /\ outcome' = "none"
  /\ KeepsFlags
  /\ UNCHANGED <<sessionVars, interrupts, evidence, migrated, measured, reported>>

\* _journal before a phase: it loads the manifest and writes it back.
Journalled == [manifest EXCEPT !.owned = TRUE]

JournalPhase ==
  /\ Runs("journal")
  /\ IF Loads
       THEN /\ Write(Journalled)
            /\ Goto(IF CurrentPhase = Foundation THEN "apply" ELSE "work") /\ KeepsFlags
       ELSE UNCHANGED manifest /\ FailOutside
  /\ UNCHANGED <<mode, session, plan, cloudVars, commandVars, boundVars, factVars>>

\* The foundation phase calls apply_session and looks at the checkpoint.
CallApply ==
  /\ Runs("apply")
  /\ ApplySession
  /\ Goto("applying") /\ KeepsFlags
  /\ UNCHANGED <<boundVars, factVars>>

ApplyReturns ==
  /\ Runs("applying")
  /\ IF result = "ok" /\ Loads /\ manifest.status = "applied" THEN LeavePhase ELSE FailOutside
  /\ UNCHANGED <<sessionVars, boundVars, factVars>>

-----------------------------------------------------------------------------
\* The effects of a step on the cloud: what they are when it succeeds, and what
\* can be left when it raises or is interrupted.
Unbuilt == UNCHANGED <<cloud, managed, plan>>

Admits(s) == s.needs # {} => Loads /\ manifest.status \in s.needs

Claim(s) == IF s.effect = "measure" THEN session ELSE s.claims

Allows(s) ==
  /\ Claim(s) \notin evidence
  /\ s.effect = "restart" => session = Baseline
  /\ s.effect = "measure" => session \notin manifest.done
  /\ s.effect = "aim" => session = Ladder[1] /\ manifest.done = {Ladder[1]}
  /\ s.effect = "compare" => session = Ladder[2] /\ manifest.done = Tiers

KeepsRun == UNCHANGED <<late, instance, migrated, measured>>

Succeeds(s) ==
  \/ s.effect \in {"check", "restart", "aim", "compare"} /\ Unbuilt /\ KeepsRun
  \/ /\ s.effect = "build" /\ Build(s.builds)
     /\ late' = Exposed(s.builds) /\ UNCHANGED <<instance, migrated, measured>>
  \/ /\ s.effect = "start" /\ cloud' = cloud \cup {"migration_task"}
     /\ late' = Exposed({"migration_task"})
     /\ UNCHANGED <<managed, plan, instance, migrated, measured>>
  \/ /\ s.effect = "settle" /\ cloud' = cloud \ {"migration_task"} /\ migrated' = TRUE
     /\ UNCHANGED <<managed, plan, late, instance, measured>>
  \/ /\ s.effect = "resize" /\ instance' = manifest.pending
     /\ UNCHANGED <<cloud, managed, plan, late, migrated, measured>>
  \/ /\ s.effect = "validate" /\ instance = manifest.pending /\ Unbuilt /\ KeepsRun
  \/ /\ s.effect = "measure" /\ measured' = measured \cup {<<session, instance>>}
     /\ Unbuilt /\ UNCHANGED <<late, instance, migrated>>

Stops(s, killed) ==
  \/ s.effect \in {"check", "restart", "aim", "compare", "validate", "measure"}
       /\ Unbuilt /\ KeepsRun
  \/ /\ s.effect = "build"
     /\ IF killed THEN BuildIsKilled(s.builds) ELSE BuildFails(s.builds)
     /\ late' = Exposed(cloud' \cap s.builds) /\ UNCHANGED <<instance, migrated, measured>>
  \/ /\ s.effect = "start" /\ cloud' \in {cloud, cloud \cup {"migration_task"}}
     /\ late' = Exposed(cloud')
     /\ UNCHANGED <<managed, plan, instance, migrated, measured>>
  \/ /\ s.effect = "settle" /\ cloud' \in {cloud, cloud \ {"migration_task"}}
     /\ UNCHANGED <<managed, plan>> /\ KeepsRun
  \/ /\ s.effect = "resize" /\ instance' \in {instance, manifest.pending}
     /\ Unbuilt /\ UNCHANGED <<late, migrated, measured>>

Claims(s) == evidence' = evidence \cup ({Claim(s)} \ {"none"})

\* A function that does not find the status it needs raises before it has armed
\* anything; one that has begun leaves its effect and its evidence behind.
DoStep ==
  /\ Runs("work")
  /\ LET s == CurrentStep IN
       \/ /\ Admits(s) /\ Allows(s) /\ Succeeds(s) /\ Claims(s)
          /\ Goto("record") /\ KeepsFlags
       \/ /\ Admits(s) /\ Allows(s) /\ Stops(s, FALSE) /\ Claims(s) /\ FailInside
       \/ /\ ~Admits(s) \/ ~Allows(s)
          /\ Unbuilt /\ KeepsRun /\ UNCHANGED evidence
          /\ IF step = 1 THEN FailOutside ELSE FailInside
  /\ UNCHANGED <<mode, session, manifest, gap, commandVars, boundVars, begun, reported>>

\* What the step writes into the manifest.
Recorded(s, status) ==
  [manifest EXCEPT
     !.status = status,
     !.tier = IF s.effect = "resize" THEN manifest.pending ELSE @,
     !.pending = CASE s.effect = "aim" -> Ladder[2]
                   [] s.effect \in {"validate", "restart"} -> "none"
                   [] OTHER -> @,
     !.done = CASE s.effect = "measure" -> @ \cup {session}
                [] s.effect = "restart" -> {}
                [] OTHER -> @,
     !.summary = @ \/ (CurrentPhase.summary /\ s.rejects # "none")]

\* The transition has returned: the controller goes on with the target session.
SessionAfter(s) == IF s.effect = "validate" THEN manifest.pending ELSE session

RecordStep ==
  /\ Runs("record")
  /\ LET s == CurrentStep IN
       \/ Write(Recorded(s, s.writes)) /\ session' = SessionAfter(s) /\ NextStep
       \/ /\ s.rejects # "none"
          /\ Write(Recorded(s, s.rejects)) /\ UNCHANGED session /\ FailInside
  /\ UNCHANGED <<mode, plan, cloudVars, commandVars, boundVars, factVars>>

-----------------------------------------------------------------------------
\* stop_async_migration_tasks, before the cluster is destroyed.
StopMigrationTasks ==
  /\ Runs("stop")
  /\ cloud' \in {cloud, cloud \ {"migration_task"}}
  /\ Goto("destroy") /\ KeepsFlags
  /\ UNCHANGED <<mode, manifestVars, managed, instance, late, gap, commandVars,
                 boundVars, factVars>>

\* Variant that cleans up with the session the workflow holds.
CurrentTier == session

\* _session_matching_manifest: the tier that is journaled, or the pending one.
SelectedTier == IF manifest.pending # "none" THEN manifest.pending ELSE manifest.tier
Selected == IF manifest.pending # "none"
              THEN [manifest EXCEPT !.tier = manifest.pending,
                                    !.status = "vertical_scaling_cleanup_pending"]
              ELSE manifest

SessionMatchingManifest ==
  /\ Runs("select")
  /\ IF Exists /\ manifest.status # "torn"
       THEN session' = SelectedTier /\ Write(Selected)
       ELSE UNCHANGED <<session, manifest>>
  /\ Goto("destroy") /\ KeepsFlags
  /\ UNCHANGED <<mode, plan, cloudVars, commandVars, boundVars, factVars>>

\* Variant that does not remember its attempt.
DestroyAgain ==
  /\ Runs("destroy")
  /\ CallDestroy
  /\ begun' = (begun \/ task' # "idle")
  /\ Goto("destroying") /\ KeepsFlags
  /\ UNCHANGED <<boundVars, evidence, migrated, measured, reported>>

\* One attempt to destroy and one to verify; the owner remembers them.
Destroy ==
  /\ Runs("destroy")
  /\ IF Owned /\ destroyTried
       THEN /\ Goto("verify") /\ UNCHANGED <<sessionVars, begun>> /\ KeepsFlags
       ELSE /\ CallDestroy
            /\ begun' = (task' # "idle")
            /\ destroyTried' = TRUE
            /\ Goto("destroying") /\ UNCHANGED <<outer, failed, troubled, verifyTried>>
  /\ UNCHANGED <<boundVars, evidence, migrated, measured, reported>>

DestroyReturns ==
  /\ Runs("destroying")
  /\ troubled' = (troubled \/ result # "ok")
  /\ Goto("verify") /\ UNCHANGED <<outer, failed>> /\ KeepsTries
  /\ UNCHANGED <<sessionVars, boundVars, factVars>>

Verify ==
  /\ Runs("verify")
  /\ IF Owned /\ verifyTried
       THEN /\ Goto("cleaned") /\ UNCHANGED sessionVars /\ KeepsFlags
       ELSE /\ CallVerify
            /\ verifyTried' = TRUE
            /\ Goto("verifying") /\ UNCHANGED <<outer, failed, troubled, destroyTried>>
  /\ UNCHANGED <<boundVars, factVars>>

\* Variant that verifies until the verification succeeds.
VerifyReturnsRetrying ==
  /\ Runs("verifying")
  /\ Goto(IF result = "ok" THEN "cleaned" ELSE "verify")
  /\ verifyTried' = (result = "ok")
  /\ UNCHANGED <<outer, failed, troubled, destroyTried>>
  /\ UNCHANGED <<sessionVars, boundVars, factVars>>

\* The owner also reads the status that the verification wrote.
VerifyReturns ==
  /\ Runs("verifying")
  /\ troubled' = (\/ troubled
                  \/ result # "ok"
                  \/ Owned /\ ~(Loads /\ manifest.status = "teardown_verified"))
  /\ Goto("cleaned") /\ UNCHANGED <<outer, failed>> /\ KeepsTries
  /\ UNCHANGED <<sessionVars, boundVars, factVars>>

\* The cleanup of a phase raises what went wrong to the owner; that of a program
\* of one phase ends it; the owner's own is followed by the journal.
AfterCleanup ==
  /\ Runs("cleaned")
  /\ IF ~Owned
       THEN EndProgram(IF failed \/ troubled THEN "failed" ELSE "complete")
       ELSE IF outer
         THEN Goto("journal_end") /\ KeepsFlags
         ELSE IF failed \/ troubled \/ ~(Loads /\ manifest.status = "teardown_verified")
           THEN FailOutside
           ELSE LeavePhase
  /\ UNCHANGED <<sessionVars, boundVars, factVars>>

\* The final _journal; the comparison report follows only a clean teardown.
JournalEnd ==
  /\ Runs("journal_end")
  /\ IF ~Loads \/ troubled
       THEN EndProgram("failed") /\ UNCHANGED reported
       ELSE IF Programs[program].reports /\ manifest.summary
         THEN \/ reported' = TRUE /\ EndProgram(IF failed THEN "failed" ELSE "complete")
              \/ UNCHANGED reported /\ EndProgram("failed")
         ELSE /\ EndProgram(IF failed \/ Programs[program].reports THEN "failed" ELSE "complete")
              /\ UNCHANGED reported
  /\ UNCHANGED <<sessionVars, boundVars, evidence, migrated, measured, begun>>

-----------------------------------------------------------------------------
\* An interrupt while the controller itself works.
Interrupt ==
  /\ program # "none" /\ interrupts > 0 /\ interrupts' = interrupts - 1
  /\ \/ /\ task # "idle" /\ InterruptCommand
        /\ Stay /\ KeepsFlags /\ UNCHANGED <<stage, factVars>>
     \/ /\ Runs("journal") /\ Loads /\ WriteIsInterrupted(Journalled) /\ FailOutside
        /\ UNCHANGED <<mode, session, plan, cloudVars, commandVars, factVars>>
     \/ /\ Runs("apply") /\ InterruptApply
        /\ FailOutside /\ UNCHANGED factVars
     \/ /\ Runs("work") /\ Admits(CurrentStep) /\ Allows(CurrentStep)
        /\ Stops(CurrentStep, TRUE) /\ Claims(CurrentStep) /\ FailInside
        /\ UNCHANGED <<mode, session, manifest, gap, commandVars, begun, reported>>
     \/ /\ Runs("record") /\ WriteIsInterrupted(Recorded(CurrentStep, CurrentStep.writes))
        /\ FailInside
        /\ UNCHANGED <<mode, session, plan, cloudVars, commandVars, factVars>>
     \/ /\ Runs("stop") /\ cloud' \in {cloud, cloud \ {"migration_task"}}
        /\ Goto("destroy") /\ KeepsFlags
        /\ UNCHANGED <<mode, manifestVars, managed, instance, late, gap, commandVars, factVars>>
     \/ /\ Runs("select") /\ WriteIsInterrupted(Selected) /\ EndProgram("escaped")
        /\ UNCHANGED <<mode, session, plan, cloudVars, commandVars, factVars>>
     \/ /\ Runs("journal_end") /\ Loads /\ WriteIsInterrupted(manifest) /\ EndProgram("failed")
        /\ UNCHANGED <<mode, session, plan, cloudVars, commandVars, factVars>>
  /\ UNCHANGED commands

\* The commands of aws_session.py, given by the operator.
ManualCommand ==
  /\ program = "none" /\ task = "idle"
  /\ commands > 0 /\ commands' = commands - 1
  /\ PlanSession \/ ApplySession \/ InterruptApply \/ CallDestroy \/ CallVerify
  /\ outcome' = "manual"
  /\ UNCHANGED <<program, phase, step, stage, outer, failed, troubled, destroyTried,
                 verifyTried, interrupts, factVars>>

InterruptManual ==
  /\ program = "none" /\ interrupts > 0 /\ interrupts' = interrupts - 1
  /\ InterruptCommand
  /\ UNCHANGED <<controlVars, commands, factVars>>

\* The operator names another tier in the next command.
NameTier ==
  /\ program = "none" /\ task = "idle" /\ mode = "rehost" /\ commands > 0
  /\ session' \in Tiers \ {session}
  /\ UNCHANGED <<mode, manifest, plan, cloudVars, commandVars, controlVars, boundVars, factVars>>

\* The part of a session command that is next.
Command == CommandStep /\ UNCHANGED <<controlVars, boundVars, factVars>>

\* A migration task ends by itself; telemetry is delivered late.
Cloud ==
  \/ /\ "migration_task" \in cloud
     /\ cloud' = cloud \ {"migration_task"}
     /\ UNCHANGED <<mode, manifestVars, managed, instance, late, gap, commandVars,
                    controlVars, boundVars, factVars>>
  \/ TelemetryArrives /\ UNCHANGED <<controlVars, boundVars, factVars>>

Controller ==
  \/ JournalPhase \/ CallApply \/ ApplyReturns \/ DoStep \/ RecordStep
  \/ StopMigrationTasks \/ SessionMatchingManifest
  \/ Destroy \/ DestroyReturns \/ Verify \/ VerifyReturns \/ AfterCleanup \/ JournalEnd

Init ==
  /\ \E m \in Modes : InitSession(m, Baseline)
  /\ program = "none" /\ phase = 1 /\ step = 1 /\ stage = "idle"
  /\ outer = FALSE /\ failed = FALSE /\ troubled = FALSE
  /\ destroyTried = FALSE /\ verifyTried = FALSE
  /\ commands = MaxCommands[mode] /\ interrupts = MaxInterrupts[mode] /\ outcome = "none"
  /\ evidence = {} /\ migrated = FALSE /\ measured = {} /\ begun = FALSE /\ reported = FALSE

Next ==
  \/ \E name \in DOMAIN Programs : StartProgram(name)
  \/ Controller \/ Command \/ Interrupt
  \/ ManualCommand \/ InterruptManual \/ NameTier \/ Cloud

\* The controller and its commands are one sequential process: it goes on as
\* long as it can.  Nothing is assumed of the operator or of the cloud.
Fairness == WF_vars(Controller) /\ WF_vars(Command)

Spec == Init /\ [][Next]_vars /\ Fairness

-----------------------------------------------------------------------------
TypeOK ==
  /\ mode \in Modes /\ session \in Tiers /\ instance \in Tiers
  /\ manifest.tier \in Tiers /\ manifest.pending \in Tiers \cup {"none"}
  /\ manifest.done \subseteq Tiers
  /\ plan \in {"none", "fresh", "stale"}
  /\ cloud \subseteq Kinds /\ managed \subseteq Layers
  /\ late \in 0..LateDeliveries /\ gap \in 0..QuietChecks
  /\ absent \in 0..QuietChecks /\ checks \in 0..MaximumChecks
  /\ result \in {"ok", "error"}
  /\ program \in DOMAIN Programs \cup {"none"}
  /\ commands \in 0..MaxCommands[mode] /\ interrupts \in 0..MaxInterrupts[mode]

\* A session is marked verified only when nothing it pays for is left: between
\* the native inventory and the write nothing but telemetry may appear.
VerifiedOnAbsence ==
  [][manifest'.status = "teardown_verified" /\ manifest.status # "teardown_verified"
       => cloud' \subseteq {"telemetry"}]_vars

\* A program that reports success after its teardown, and the comparison report,
\* stand for an account that is empty and stays so: no late delivery of
\* Container Insights brings the performance group back.
CompleteIsEmpty ==
  reported \/ (outcome = "complete" /\ manifest.status = "teardown_verified") => cloud = {}

\* No service runs before a migration task has migrated its database.
ServicesOnMigratedSchema == "services" \in cloud => migrated

\* Each measured tier is the type the host really has, also when a transition
\* was cut between Terraform and the manifest.
MeasuredTierIsDeployed == \A m \in measured : m[1] = m[2]

\* The cleanup of a phase and that of its owner destroy once between them.
OneTeardown ==
  [][program # "none" /\ task = "idle" /\ task' = "terraform_destroy" => ~begun]_vars

Cleaning == stage \in {"stop", "select", "destroy", "destroying", "verify", "verifying",
                       "cleaned", "journal_end"}

\* A program that enters its cleanup ends only after Terraform's destroy was
\* begun; what keeps it from there is an unreadable manifest, or an interrupt
\* of the search for the journaled tier.
CleanupReachesTerraform ==
  [][Cleaning /\ program' = "none"
       => begun \/ manifest.status = "torn" \/ outcome' = "escaped"]_vars

\* What the docstring of run_vertical_scaling_session says: prepare and run both
\* treatments, then unconditionally clean up.
VerticalCleansUpUnconditionally ==
  [][program = "vertical" /\ Cleaning /\ program' = "none" => begun]_vars

\* Every program ends, whatever fails or interrupts it.
EveryProgramEnds == program # "none" ~> program = "none"
=============================================================================
