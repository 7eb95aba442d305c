------------------------- MODULE SessionSafetyProofs -------------------------
(***************************************************************************)
(* Further proofs about SessionWorkflow: the types, the tier a session     *)
(* measures, the teardown that its cleanup reaches, and the emptiness that *)
(* its success stands for.                                                 *)
(***************************************************************************)
EXTENDS SessionWorkflowProofs

-----------------------------------------------------------------------------
(* The table of programs *)

\* The checkpoint that a tier can be measured at, and those that no step starts from.
Ready == "vertical_scaling_ready"
Early == {"none", "torn", "planned", "destroyed_pending_verification", "teardown_verified"}

\* A step that changes no tier.
AsyncStep(s) ==
  /\ s.effect \in {"check", "build", "start", "settle"}
  /\ s.writes \notin Early \cup {Ready} /\ s.rejects # Ready
  /\ s.rejects # "none" => s.effect = "check"
  /\ s.needs \cap Early = {}

\* A step of a rehost session builds nothing.
RehostStep(s) ==
  /\ s.effect \in {"check", "restart", "measure", "aim", "resize", "validate", "compare"}
  /\ s.rejects = "none" /\ s.writes \notin Early
  /\ s.writes = Ready => s.effect \in {"restart", "validate"}
  /\ s.effect = "restart" => s.claims = "definition" /\ s.needs # {}
  /\ s.effect = "measure" => s.needs = {Ready}
  /\ s.needs \cap Early = {}

\* A phase begins with a step that asks for a status; a tier is resized after it was aimed
\* at, and validated after it was resized.
OrderedSteps(steps) ==
  /\ steps # <<>> => steps[1].needs # {}
  /\ \A i \in 1 .. Len(steps) :
       /\ steps[i].effect = "resize" => i > 1 /\ steps[i - 1].effect = "aim"
       /\ steps[i].effect = "validate" => i > 1 /\ steps[i - 1].effect = "resize"

AsyncPhase(p) ==
  /\ OrderedSteps(p.steps) /\ ~p.selects
  /\ \A i \in 1 .. Len(p.steps) : AsyncStep(p.steps[i])

RehostPhase(p) ==
  /\ OrderedSteps(p.steps) /\ ~p.stops
  /\ \A i \in 1 .. Len(p.steps) : RehostStep(p.steps[i])

\* The steps of the asynchronous sessions.
LEMMA AsyncSteps ==
  /\ \A s \in {ArmDeployment, PublishAsyncImages, PlanRuntime, ApplyRuntime, StartMigration,
               FinishMigration, PlanServices, ApplyServices, AwaitServices, PrepareFixedControl,
               MeasureFixedControl, PrepareReset, ExecuteReset, ApplyTransition,
               PrepareIntegration, RunIntegrationPoints} : AsyncStep(s)
  /\ \A status \in {"worker_autoscaling_verified", "worker_autoscaling_diagnostic_verified"} :
       AsyncStep(VerifyTransition(status))
  /\ \A needs \in {{"experiment_reset_verified"}, {"async_deployed"}} :
       AsyncStep(PlanTransition(needs)) /\ PlanTransition(needs).needs # {}
  /\ AsyncStep(PrepareElastic("worker_autoscaling_verified", "elastic_treatment_armed"))
  /\ AsyncStep(PrepareElastic("worker_autoscaling_diagnostic_verified",
                              "elastic_diagnostic_armed"))
  /\ \A needs, status : PrepareElastic(needs, status).needs # {}
  /\ AsyncStep(MeasureElastic("elastic_treatment_qualified", "elastic_treatment_rejected"))
  /\ AsyncStep(MeasureElastic("elastic_diagnostic_qualified", "elastic_diagnostic_rejected"))
  /\ \A s \in {ArmDeployment, PrepareFixedControl, PrepareReset, PrepareIntegration} :
       s.needs # {}
<1> USE DEF AsyncStep, Step, Ready, Early
<1>1. \A s \in {ArmDeployment, PublishAsyncImages, PlanRuntime, ApplyRuntime,
                StartMigration} : AsyncStep(s)
  BY DEF ArmDeployment, PublishAsyncImages, PlanRuntime, ApplyRuntime, StartMigration
<1>2. \A s \in {FinishMigration, PlanServices, ApplyServices, AwaitServices,
                PrepareFixedControl} : AsyncStep(s)
  BY DEF FinishMigration, PlanServices, ApplyServices, AwaitServices, PrepareFixedControl
<1>3. \A s \in {PrepareReset, ExecuteReset, ApplyTransition, PrepareIntegration,
                RunIntegrationPoints} : AsyncStep(s)
  BY DEF PrepareReset, ExecuteReset, ApplyTransition, PrepareIntegration, RunIntegrationPoints
<1>4. AsyncStep(MeasureFixedControl)
  BY DEF MeasureFixedControl
<1>5. \A status \in {"worker_autoscaling_verified", "worker_autoscaling_diagnostic_verified"} :
        AsyncStep(VerifyTransition(status))
  BY DEF VerifyTransition
<1>6. \A needs \in {{"experiment_reset_verified"}, {"async_deployed"}} :
        AsyncStep(PlanTransition(needs)) /\ PlanTransition(needs).needs # {}
  BY DEF PlanTransition
<1>7. /\ AsyncStep(PrepareElastic("worker_autoscaling_verified", "elastic_treatment_armed"))
      /\ AsyncStep(PrepareElastic("worker_autoscaling_diagnostic_verified",
                                  "elastic_diagnostic_armed"))
      /\ \A needs, status : PrepareElastic(needs, status).needs # {}
  BY DEF PrepareElastic
<1>8. AsyncStep(MeasureElastic("elastic_treatment_qualified", "elastic_treatment_rejected"))
  BY DEF MeasureElastic
<1>9. AsyncStep(MeasureElastic("elastic_diagnostic_qualified", "elastic_diagnostic_rejected"))
  BY DEF MeasureElastic
<1>10. \A s \in {ArmDeployment, PrepareFixedControl, PrepareReset, PrepareIntegration} :
         s.needs # {}
  BY DEF ArmDeployment, PrepareFixedControl, PrepareReset, PrepareIntegration
<1> HIDE DEF AsyncStep
<1> QED BY <1>1, <1>2, <1>3, <1>4, <1>5, <1>6, <1>7, <1>8, <1>9, <1>10

\* The steps of the rehost sessions.
LEMMA RehostSteps ==
  /\ \A s \in {PublishImage, DeployRds, CollectCorrectness, PrepareScaling, RunTier, PlanTier,
               ApplyTier, ValidateTier, ReportFlexibility, RunCanary} : RehostStep(s)
  /\ \A s \in {PublishImage, DeployRds, CollectCorrectness, PrepareScaling, RunTier, PlanTier,
               ReportFlexibility, RunCanary} :
       s.needs # {} /\ s.effect \notin {"resize", "validate"}
  /\ PlanTier.effect = "aim" /\ ApplyTier.effect = "resize" /\ ValidateTier.effect = "validate"
  /\ RunCanary.effect = "check"
<1> USE DEF RehostStep, Step, Ready, Early
<1>1. /\ RehostStep(PublishImage) /\ PublishImage.needs # {} /\ PublishImage.effect = "check"
      /\ RehostStep(DeployRds) /\ DeployRds.needs # {} /\ DeployRds.effect = "check"
  BY DEF PublishImage, DeployRds, RehostStatuses
<1>2. /\ RehostStep(CollectCorrectness) /\ CollectCorrectness.needs # {}
      /\ CollectCorrectness.effect = "check"
      /\ RehostStep(RunCanary) /\ RunCanary.needs # {} /\ RunCanary.effect = "check"
      /\ RehostStep(RunTier) /\ RunTier.needs # {} /\ RunTier.effect = "measure"
  BY DEF CollectCorrectness, RunCanary, RunTier
<1>3. /\ RehostStep(PrepareScaling) /\ PrepareScaling.needs # {}
      /\ PrepareScaling.effect = "restart"
      /\ RehostStep(PlanTier) /\ PlanTier.needs # {} /\ PlanTier.effect = "aim"
      /\ RehostStep(ReportFlexibility) /\ ReportFlexibility.needs # {}
      /\ ReportFlexibility.effect = "compare"
  BY DEF PrepareScaling, PlanTier, ReportFlexibility
<1>4. /\ RehostStep(ApplyTier) /\ ApplyTier.effect = "resize"
      /\ RehostStep(ValidateTier) /\ ValidateTier.effect = "validate"
  BY DEF ApplyTier, ValidateTier
<1> HIDE DEF RehostStep
<1> QED BY <1>1, <1>2, <1>3, <1>4

AsyncPhases ==
  {Foundation, Deployment, Fixed, Reset, Transition, Elastic, DiagnosticTransition,
   DiagnosticTreatment, Integration}
RehostPhases ==
  {Canary, VerticalScaling,
   Phase(<<PublishImage>>, "never"), Phase(<<DeployRds>>, "never"),
   Phase(<<CollectCorrectness>>, "never"), Phase(<<PrepareScaling>>, "never"),
   Phase(<<RunTier>>, "never"), Phase(<<PlanTier, ApplyTier, ValidateTier>>, "never"),
   Phase(<<ReportFlexibility>>, "never")}

\* What the phases of the asynchronous sessions are made of.
LEMMA AsyncPhaseTable == \A p \in AsyncPhases : AsyncPhase(p)
<1> DEFINE Has(steps) == OrderedSteps(steps) /\ \A i \in 1 .. Len(steps) : AsyncStep(steps[i])
<1>1. \A s, t : AsyncStep(s) /\ AsyncStep(t) /\ s.needs # {} => Has(<<s, t>>)
  BY DEF OrderedSteps, AsyncStep
<1>2. \A s, t, u : AsyncStep(s) /\ AsyncStep(t) /\ AsyncStep(u) /\ s.needs # {} => Has(<<s, t, u>>)
  BY DEF OrderedSteps, AsyncStep
<1>3. Has(<<>>)
  BY DEF OrderedSteps
<1>4. Has(<<ArmDeployment, PublishAsyncImages, PlanRuntime, ApplyRuntime, StartMigration,
            FinishMigration, PlanServices, ApplyServices, AwaitServices>>)
  BY AsyncSteps DEF OrderedSteps, AsyncStep
<1>5. \A steps, tears : /\ Phase(steps, tears).steps = steps
                        /\ ~Phase(steps, tears).selects
  BY DEF Phase
<1> HIDE DEF Has
<1>6. Has(Foundation.steps) /\ ~Foundation.selects
  BY <1>3, <1>5 DEF Foundation
<1>7. Has(Deployment.steps) /\ ~Deployment.selects
  <2>1. Deployment.steps = <<ArmDeployment, PublishAsyncImages, PlanRuntime, ApplyRuntime,
           StartMigration, FinishMigration, PlanServices, ApplyServices, AwaitServices>>
        /\ ~Deployment.selects
    BY DEF Deployment, Phase
  <2> QED BY <2>1, <1>4
<1>8. /\ Has(Fixed.steps) /\ ~Fixed.selects
      /\ Has(Reset.steps) /\ ~Reset.selects
      /\ Has(Integration.steps) /\ ~Integration.selects
  BY <1>1, <1>5, AsyncSteps DEF Fixed, Reset, Integration
<1>9. /\ Has(Transition.steps) /\ ~Transition.selects
      /\ Has(DiagnosticTransition.steps) /\ ~DiagnosticTransition.selects
  BY <1>2, <1>5, AsyncSteps DEF Transition, DiagnosticTransition
<1>10. Has(Elastic.steps) /\ ~Elastic.selects
  <2>1. Elastic.steps = <<PrepareElastic("worker_autoscaling_verified", "elastic_treatment_armed"),
           MeasureElastic("elastic_treatment_qualified", "elastic_treatment_rejected")>>
        /\ ~Elastic.selects
    BY DEF Elastic, Phase
  <2> QED BY <2>1, <1>1, AsyncSteps
<1>11. Has(DiagnosticTreatment.steps) /\ ~DiagnosticTreatment.selects
  BY <1>1, <1>5, AsyncSteps DEF DiagnosticTreatment
<1> QED BY <1>6, <1>7, <1>8, <1>9, <1>10, <1>11 DEF AsyncPhases, AsyncPhase, Has

\* What the phases of the rehost sessions are made of.
LEMMA RehostPhaseTable ==
  /\ \A p \in RehostPhases : RehostPhase(p)
  /\ \A p \in RehostPhases \ {Canary} : p.tears = "never" \/ p.selects
  /\ \A i \in 1 .. Len(Canary.steps) : Canary.steps[i].effect = "check"
<1> DEFINE Has(steps) == OrderedSteps(steps) /\ \A i \in 1 .. Len(steps) : RehostStep(steps[i])
<1>1. \A s : RehostStep(s) /\ s.needs # {} /\ s.effect \notin {"resize", "validate"} => Has(<<s>>)
  BY DEF OrderedSteps
<1>2. Has(<<PublishImage, DeployRds, CollectCorrectness, PrepareScaling, RunTier,
            PlanTier, ApplyTier, ValidateTier, RunTier, ReportFlexibility>>)
  BY RehostSteps DEF OrderedSteps
<1>3. Has(<<PlanTier, ApplyTier, ValidateTier>>)
  BY RehostSteps DEF OrderedSteps
<1>4. \A steps, tears : /\ Phase(steps, tears).steps = steps /\ Phase(steps, tears).tears = tears
                        /\ ~Phase(steps, tears).stops
  BY DEF Phase
<1> HIDE DEF Has
<1>5. Has(VerticalScaling.steps) /\ ~VerticalScaling.stops /\ VerticalScaling.selects
  <2>1. VerticalScaling.steps =
           <<PublishImage, DeployRds, CollectCorrectness, PrepareScaling, RunTier,
             PlanTier, ApplyTier, ValidateTier, RunTier, ReportFlexibility>>
        /\ ~VerticalScaling.stops /\ VerticalScaling.selects
    BY DEF VerticalScaling, Phase
  <2> QED BY <2>1, <1>2
<1>6. /\ Has(Canary.steps) /\ ~Canary.stops
      /\ \A i \in 1 .. Len(Canary.steps) : Canary.steps[i].effect = "check"
  <2>1. Canary.steps = <<RunCanary>> /\ ~Canary.stops
    BY <1>4 DEF Canary
  <2> QED BY <1>1, <2>1, RehostSteps
<1>7. \A p \in RehostPhases \ {Canary, VerticalScaling} :
        Has(p.steps) /\ ~p.stops /\ p.tears = "never"
  BY <1>1, <1>3, <1>4, RehostSteps DEF RehostPhases
<1> QED BY <1>5, <1>6, <1>7 DEF RehostPhase, Has

\* What the programs are made of.
ProgramFacts(name) ==
  LET p == Programs[name] IN
  /\ p.mode \in {"async", "rehost"}
  /\ p.mode = "async" =>
       /\ p.starts \notin (Early \ {"planned"}) \cup {"any"}
       /\ \A i \in 1 .. Len(p.phases) : p.phases[i] \in AsyncPhases
  /\ p.mode = "rehost" =>
       /\ ~p.owned
       /\ \A i \in 1 .. Len(p.phases) :
            p.phases[i] \in RehostPhases /\ (p.phases[i] = Canary => name = "canary")
  /\ name = "canary" => p.mode = "rehost" /\ p.phases = <<Canary>> /\ p.starts # "any"
  /\ p.owned => \A i \in 1 .. Len(p.phases) : p.phases[i].tears = "always" => i = Len(p.phases)
  /\ p.owned <=> name \in {"paired", "diagnostic"}
  /\ p.reports => p.owned

\* The table has them.
LEMMA ProgramTable ==
  ASSUME NEW name \in DOMAIN Programs
  PROVE  ProgramFacts(name)
<1> DEFINE Fits(n, p) ==
      /\ p.mode \in {"async", "rehost"}
      /\ p.mode = "async" =>
           /\ p.starts \notin (Early \ {"planned"}) \cup {"any"}
           /\ \A i \in 1 .. Len(p.phases) : p.phases[i] \in AsyncPhases
      /\ p.mode = "rehost" =>
           /\ ~p.owned
           /\ \A i \in 1 .. Len(p.phases) :
                p.phases[i] \in RehostPhases /\ (p.phases[i] = Canary => n = "canary")
      /\ n = "canary" => p.mode = "rehost" /\ p.phases = <<Canary>> /\ p.starts # "any"
      /\ p.owned => \A i \in 1 .. Len(p.phases) : p.phases[i].tears = "always" => i = Len(p.phases)
      /\ p.owned <=> n \in {"paired", "diagnostic"}
      /\ p.reports => p.owned
<1>1. Fits("paired", PairedSession)
  <2>1. /\ PairedSession.mode = "async" /\ PairedSession.starts = "planned"
        /\ PairedSession.owned /\ PairedSession.reports
        /\ PairedSession.phases = <<Foundation, Deployment, Fixed, Reset, Transition, Elastic>>
    BY DEF PairedSession, Program
  <2>2. /\ Foundation.tears # "always" /\ Deployment.tears # "always" /\ Fixed.tears # "always"
        /\ Reset.tears # "always" /\ Transition.tears # "always"
    BY DEF Foundation, Deployment, Fixed, Reset, Transition, Phase
  <2>3. QED
    BY <2>1, <2>2 DEF AsyncPhases, Early
<1>2. Fits("diagnostic", DiagnosticSession)
  <2>1. /\ DiagnosticSession.mode = "async" /\ DiagnosticSession.starts = "planned"
        /\ DiagnosticSession.owned /\ ~DiagnosticSession.reports
        /\ DiagnosticSession.phases =
             <<Foundation, Deployment, DiagnosticTransition, DiagnosticTreatment>>
    BY DEF DiagnosticSession, Program
  <2>2. /\ Foundation.tears # "always" /\ Deployment.tears # "always"
        /\ DiagnosticTransition.tears # "always" /\ DiagnosticTreatment.tears # "always"
    BY DEF Foundation, Deployment, DiagnosticTransition, DiagnosticTreatment, Phase
  <2>3. QED
    BY <2>1, <2>2 DEF AsyncPhases, Early
<1>3. \A n : \A starts \in {"applied", "async_deployed", "fixed_control_qualified",
                            "experiment_reset_verified", "worker_autoscaling_verified"} :
        \A p \in AsyncPhases :
          n \notin {"paired", "diagnostic", "canary"} => Fits(n, Program("async", starts, <<p>>))
  BY DEF Program, Early
<1>4. \A n, starts : \A p \in RehostPhases \ {Canary} :
        n \notin {"paired", "diagnostic", "canary"} => Fits(n, Program("rehost", starts, <<p>>))
  BY DEF Program
<1>5. Fits("canary", Program("rehost", "rds_correctness_collected", <<Canary>>))
  BY DEF Program, RehostPhases
<1> HIDE DEF Fits
<1>6. \A n, steps : /\ Phase(steps, "never") \in RehostPhases
                    /\ n \notin {"paired", "diagnostic", "canary"}
                    => Fits(n, RehostCommand(steps))
  <2>1. \A steps : Phase(steps, "never") # Canary
    BY DEF Phase, Canary
  <2>2. QED
    BY <1>4, <2>1 DEF RehostCommand
<1>7. VerticalScaling # Canary
  BY DEF VerticalScaling, Canary, Phase
<1>8. /\ Fits("paired", Programs["paired"]) /\ Fits("diagnostic", Programs["diagnostic"])
      /\ Fits("deployment", Programs["deployment"]) /\ Fits("fixed", Programs["fixed"])
      /\ Fits("reset", Programs["reset"]) /\ Fits("transition", Programs["transition"])
      /\ Fits("elastic", Programs["elastic"]) /\ Fits("integration", Programs["integration"])
      /\ Fits("vertical", Programs["vertical"]) /\ Fits("canary", Programs["canary"])
  BY <1>1, <1>2, <1>3, <1>4, <1>5, <1>7 DEF Programs, AsyncPhases, RehostPhases
<1>9. /\ Fits("publish_image", Programs["publish_image"])
      /\ Fits("deploy_rds", Programs["deploy_rds"])
      /\ Fits("collect_correctness", Programs["collect_correctness"])
      /\ Fits("prepare_scaling", Programs["prepare_scaling"])
      /\ Fits("run_tier", Programs["run_tier"]) /\ Fits("change_tier", Programs["change_tier"])
      /\ Fits("report_flexibility", Programs["report_flexibility"])
  BY <1>6 DEF Programs, RehostPhases
<1>10. DOMAIN Programs =
         {"paired", "diagnostic", "deployment", "fixed", "reset", "transition", "elastic",
          "integration", "vertical", "canary", "publish_image", "deploy_rds",
          "collect_correctness", "prepare_scaling", "run_tier", "change_tier",
          "report_flexibility"}
  BY DEF Programs
<1>11. Fits(name, Programs[name])
  BY <1>8, <1>9, <1>10
<1> QED BY <1>11 DEF Fits, ProgramFacts

-----------------------------------------------------------------------------
(* The types, and the tier that is measured *)

Running == program # "none"
Working == Running /\ stage \in {"work", "record"}
Recording == Running /\ stage = "record"

\* The values of the session, and what is left of the bounds.
SessionTypes ==
  /\ mode \in Modes /\ session \in Tiers /\ instance \in Tiers
  /\ manifest.tier \in Tiers /\ manifest.pending \in Tiers \cup {"none"}
  /\ manifest.done \subseteq Tiers
  /\ plan \in {"none", "fresh", "stale"}
  /\ managed \subseteq Layers
  /\ late \in 0 .. LateDeliveries /\ gap \in 0 .. QuietChecks
  /\ absent \in 0 .. QuietChecks /\ checks \in 0 .. MaximumChecks
  /\ result \in {"ok", "error"}
BoundTypes == commands \in 0 .. MaxCommands[mode] /\ interrupts \in 0 .. MaxInterrupts[mode]

\* The loop over the telemetry goes on only below both of its limits.
LoopInv == task = "telemetry" => absent < QuietChecks /\ checks < MaximumChecks

\* A program that waits for a command waits where it called one.
IdleInv == Running /\ task # "idle" => stage \in {"applying", "destroying", "verifying"}

\* A program runs in the mode it was written for.
ModeInv == Running => Programs[program].mode = mode

\* A host is resized towards a target, and validated against the one it was resized to.
AimInv ==
  Working =>
    /\ CurrentStep.effect = "resize" => manifest.pending \in Tiers /\ manifest.status # Ready
    /\ CurrentStep.effect = "validate" =>
         manifest.pending \in Tiers /\ manifest.tier = manifest.pending

\* Before the ladder is defined the host is the one the session began with.
DefinitionInv ==
  \/ "definition" \in evidence
  \/ /\ instance = Baseline /\ manifest.pending = "none" /\ manifest.done = {}
     /\ manifest.status # Ready
     /\ Recording => CurrentStep.effect \notin {"restart", "measure", "aim"}

\* A manifest that is ready for a measurement names the type the host has.
ReadyInv ==
  /\ manifest.status = Ready => manifest.tier = instance
  /\ Recording =>
       /\ CurrentStep.effect = "restart" => manifest.tier = instance
       /\ CurrentStep.effect = "validate" => manifest.pending = instance

TierInv ==
  /\ SessionTypes /\ BoundTypes /\ LoopInv /\ IdleInv /\ ModeInv
  /\ AimInv /\ DefinitionInv /\ ReadyInv /\ MeasuredTierIsDeployed

\* What an action that is not a step's does to what the invariant reads of the session.
SessionKept ==
  /\ SessionTypes' /\ LoopInv' /\ UNCHANGED <<mode, instance>>
  /\ manifest.pending = "none" => manifest'.pending = "none"
  /\ manifest.done = {} => manifest'.done = {}
  /\ manifest'.status = Ready => manifest.status = Ready /\ manifest'.tier = manifest.tier

\* The tiers, and the manifests that are not a step's.
LEMMA TierFacts ==
  /\ Tiers = {"t3.small", "c7i-flex.large"} /\ Baseline = "t3.small"
  /\ Ladder[1] = "t3.small" /\ Ladder[2] = "c7i-flex.large"
  /\ NoManifest.tier = Baseline /\ NoManifest.pending = "none" /\ NoManifest.done = {}
  /\ TornManifest.tier = Baseline /\ TornManifest.pending = "none" /\ TornManifest.done = {}
  /\ TornManifest.status = "torn" /\ TornManifest.summary = FALSE
  /\ Planned.tier = session /\ Planned.pending = "none" /\ Planned.done = {}
  /\ Planned.status = "planned" /\ Planned.summary = FALSE
<1>1. DOMAIN Ladder = {1, 2}
  BY DEF Ladder
<1>2. Ladder[1] = "t3.small" /\ Ladder[2] = "c7i-flex.large"
  BY DEF Ladder
<1>3. Tiers = {"t3.small", "c7i-flex.large"} /\ Baseline = "t3.small"
  BY <1>1, <1>2 DEF Tiers, Baseline
<1>4. /\ NoManifest.tier = Baseline /\ NoManifest.pending = "none" /\ NoManifest.done = {}
      /\ TornManifest.tier = Baseline /\ TornManifest.pending = "none" /\ TornManifest.done = {}
      /\ TornManifest.status = "torn" /\ TornManifest.summary = FALSE
  BY DEF NoManifest, TornManifest
<1>5. /\ Planned.tier = session /\ Planned.pending = "none" /\ Planned.done = {}
      /\ Planned.status = "planned" /\ Planned.summary = FALSE
  BY DEF NoManifest, Planned
<1> QED BY <1>2, <1>3, <1>4, <1>5

\* A status is written into the manifest without touching the rest of it.
LEMMA StatusFacts ==
  ASSUME Inv, NEW status, manifest' = manifest \/ WriteStatus(status)
  PROVE  /\ manifest'.tier = manifest.tier /\ manifest'.pending = manifest.pending
         /\ manifest'.done = manifest.done /\ manifest'.summary = manifest.summary
         /\ manifest' = manifest \/ manifest'.status = status
<1>1. CASE manifest' = manifest
  BY <1>1
<1>2. CASE WriteStatus(status)
  BY <1>2 DEF Inv, ShapeInv, WriteStatus, Write
<1> QED BY <1>1, <1>2

\* The parts of the commands keep it.
LEMMA CommandKeepsSession ==
  ASSUME Inv, SessionTypes, LoopInv, CommandStep
  PROVE  SessionKept
<1> USE DEF SessionTypes, LoopInv, SessionKept, Ready, Ends, Continues, KeepsCounts, KeepsCloud,
      KeepsFiles, cloudVars, manifestVars, Write, WriteStatus
<1>0. QuietChecks \in Nat /\ QuietChecks > 1 /\ MaximumChecks \in Nat
      /\ QuietChecks <= MaximumChecks /\ LateDeliveries \in Nat
  BY ChecksAssumption
<1>1. CASE JournalPlan
  BY <1>1, TierFacts DEF JournalPlan
<1>2. CASE JournalApply
  <2>1. manifest' = manifest \/ WriteStatus("applied")
    BY <1>2 DEF JournalApply
  <2>2. /\ manifest'.tier = manifest.tier /\ manifest'.pending = manifest.pending
        /\ manifest'.done = manifest.done
        /\ manifest' = manifest \/ manifest'.status = "applied"
    <3> HIDE DEF WriteStatus
    <3> QED BY <2>1, StatusFacts
  <2> QED BY <1>2, <2>2 DEF JournalApply
<1>3. CASE TerraformDestroy
  BY <1>0, <1>3 DEF TerraformDestroy, Remove, AgedPlan
<1>4. CASE JournalDestroy
  <2>1. manifest' = manifest \/ WriteStatus("destroyed_pending_verification")
    BY <1>4 DEF JournalDestroy
  <2>2. /\ manifest'.tier = manifest.tier /\ manifest'.pending = manifest.pending
        /\ manifest'.done = manifest.done
        /\ manifest' = manifest \/ manifest'.status = "destroyed_pending_verification"
    <3> HIDE DEF WriteStatus
    <3> QED BY <2>1, StatusFacts
  <2> QED BY <1>4, <2>2 DEF JournalDestroy
<1>5. CASE CheckStackAbsence
  BY <1>0, <1>5 DEF CheckStackAbsence
<1>6. CASE CheckTelemetry
  BY <1>0, <1>6 DEF CheckTelemetry
<1>7. CASE TelemetryCheckFails
  BY <1>7 DEF TelemetryCheckFails
<1>8. CASE VerifyState
  BY <1>8 DEF VerifyState
<1>9. CASE VerifyNative
  BY <1>9 DEF VerifyNative
<1>10. CASE JournalVerify
  <2>1. manifest' = manifest \/ WriteStatus("teardown_verified")
    BY <1>10 DEF JournalVerify
  <2>2. /\ manifest'.tier = manifest.tier /\ manifest'.pending = manifest.pending
        /\ manifest'.done = manifest.done
        /\ manifest' = manifest \/ manifest'.status = "teardown_verified"
    <3> HIDE DEF WriteStatus
    <3> QED BY <2>1, StatusFacts
  <2> QED BY <1>10, <2>2 DEF JournalVerify
<1> QED
  BY <1>1, <1>2, <1>3, <1>4, <1>5, <1>6, <1>7, <1>8, <1>9, <1>10 DEF CommandStep

\* Terraform builds layers.
LEMMA BuildTypes ==
  ASSUME SessionTypes, NEW wanted \in SUBSET Layers,
         Build(wanted) \/ BuildFails(wanted) \/ BuildIsKilled(wanted)
  PROVE  managed' \subseteq Layers /\ plan' \in {"none", "fresh", "stale"}
  BY DEF SessionTypes, Build, BuildFails, BuildIsKilled, AgedPlan

\* The calls keep it, an interrupt of a command, and late telemetry.
LEMMA CallKeepsSession ==
  ASSUME Inv, SessionTypes, LoopInv,
         \/ PlanSession \/ ApplySession \/ InterruptApply \/ CallDestroy \/ CallVerify
         \/ InterruptCommand \/ TelemetryArrives
  PROVE  SessionKept
<1> USE DEF SessionTypes, LoopInv, SessionKept, Ready, Ends, Continues, KeepsCounts, KeepsCloud,
      KeepsFiles, cloudVars, manifestVars, commandVars
<1>0. QuietChecks \in Nat /\ QuietChecks > 1 /\ LateDeliveries \in Nat
      /\ {"foundation"} \in SUBSET Layers
  BY ChecksAssumption DEF Layers
<1>1. CASE PlanSession
  BY <1>1 DEF PlanSession
<1>2. CASE ApplySession
  <2>1. managed' \subseteq Layers /\ plan' \in {"none", "fresh", "stale"}
    BY <1>0, <1>2, BuildTypes DEF ApplySession
  <2> QED BY <1>2, <2>1 DEF ApplySession
<1>3. CASE InterruptApply
  <2>1. managed' \subseteq Layers /\ plan' \in {"none", "fresh", "stale"}
    BY <1>0, <1>3, BuildTypes DEF InterruptApply
  <2> QED BY <1>3, <2>1 DEF InterruptApply
<1>4. CASE CallDestroy
  BY <1>4 DEF CallDestroy
<1>5. CASE CallVerify
  BY <1>5 DEF CallVerify
<1>6. CASE InterruptCommand
  <2>1. CASE manifest' \in {manifest, TornManifest} /\ UNCHANGED <<plan, cloudVars>>
    BY <1>6, <2>1, TierFacts DEF InterruptCommand
  <2>2. CASE /\ \E gone \in SUBSET managed : \E forgotten \in SUBSET gone : Remove(gone, forgotten)
             /\ UNCHANGED <<manifest, instance, late>>
    BY <1>0, <1>6, <2>2 DEF InterruptCommand, Remove, AgedPlan
  <2> QED BY <1>6, <2>1, <2>2 DEF InterruptCommand
<1>7. CASE TelemetryArrives
  BY <1>0, <1>7 DEF TelemetryArrives
<1> QED BY <1>1, <1>2, <1>3, <1>4, <1>5, <1>6, <1>7

\* What is known of the step of a program, whatever its mode.
KnownStep(s) ==
  /\ AsyncStep(s) \/ RehostStep(s)
  /\ s.writes \notin Early
  /\ s.writes = Ready => s.effect \in {"restart", "validate"}
  /\ s.rejects # Ready /\ (s.rejects # "none" => s.effect = "check")
  /\ s.effect = "restart" => s.claims = "definition" /\ s.needs # {}
  /\ s.effect = "measure" => s.needs = {Ready}
  /\ s.needs \cap Early = {}

\* What the table says of a phase of a program.
LEMMA PhaseTable ==
  ASSUME NEW name \in DOMAIN Programs, NEW p \in 1 .. Len(Programs[name].phases)
  PROVE  /\ Programs[name].mode \in {"async", "rehost"}
         /\ Programs[name].mode = "async" => AsyncPhase(Programs[name].phases[p])
         /\ Programs[name].mode = "rehost" =>
              /\ RehostPhase(Programs[name].phases[p]) /\ ~Programs[name].owned
              /\ \/ Programs[name].phases[p].tears = "never" \/ Programs[name].phases[p].selects
                 \/ name = "canary"
         /\ name = "canary" =>
              Programs[name].phases[p] = Canary /\ Programs[name].mode = "rehost"
<1>1. ProgramFacts(name)
  BY ProgramTable
<1>2. name = "canary" => Programs[name].phases[p] = Canary /\ Programs[name].mode = "rehost"
  <2> SUFFICES ASSUME name = "canary"
               PROVE  Programs[name].phases[p] = Canary /\ Programs[name].mode = "rehost"
    OBVIOUS
  <2>1. Programs[name].phases = <<Canary>> /\ Programs[name].mode = "rehost"
    BY <1>1 DEF ProgramFacts
  <2> QED BY <2>1
<1> QED BY <1>1, <1>2, AsyncPhaseTable, RehostPhaseTable DEF ProgramFacts

\* A step of a program, by its place.
TableStep(name, p, i) == Programs[name].phases[p].steps[i]

\* What the table says of a step.
LEMMA StepTable ==
  ASSUME NEW name \in DOMAIN Programs, NEW p \in 1 .. Len(Programs[name].phases),
         NEW i \in 1 .. Len(Programs[name].phases[p].steps)
  PROVE  /\ KnownStep(TableStep(name, p, i))
         /\ Programs[name].mode = "async" => AsyncStep(TableStep(name, p, i))
         /\ Programs[name].mode = "rehost" => RehostStep(TableStep(name, p, i))
         /\ name = "canary" => TableStep(name, p, i).effect = "check"
         /\ TableStep(name, p, i).effect = "resize" =>
              i > 1 /\ TableStep(name, p, i - 1).effect = "aim"
         /\ TableStep(name, p, i).effect = "validate" =>
              i > 1 /\ TableStep(name, p, i - 1).effect = "resize"
         /\ i = 1 => TableStep(name, p, i).needs # {}
<1> DEFINE steps == Programs[name].phases[p].steps
<1>1. /\ Programs[name].mode = "async" => AsyncStep(steps[i])
      /\ Programs[name].mode = "rehost" => RehostStep(steps[i])
      /\ OrderedSteps(steps) /\ Programs[name].mode \in {"async", "rehost"}
  BY PhaseTable DEF AsyncPhase, RehostPhase
<1>2. name = "canary" => steps[i].effect = "check"
  BY PhaseTable, RehostPhaseTable
<1>3. steps # <<>>
  OBVIOUS
<1> HIDE DEF steps
<1>4. KnownStep(steps[i])
  <2>1. CASE AsyncStep(steps[i])
    BY <2>1 DEF KnownStep, AsyncStep, Ready
  <2>2. CASE RehostStep(steps[i])
    BY <2>2 DEF KnownStep, RehostStep, Ready
  <2> QED BY <1>1, <2>1, <2>2
<1>5. i \in 1 .. Len(steps)
  BY DEF steps
<1>6. /\ steps[i].effect = "resize" => i > 1 /\ steps[i - 1].effect = "aim"
      /\ steps[i].effect = "validate" => i > 1 /\ steps[i - 1].effect = "resize"
      /\ i = 1 => steps[i].needs # {}
  BY <1>1, <1>3, <1>5 DEF OrderedSteps
<1> QED BY <1>1, <1>2, <1>4, <1>6 DEF steps, TableStep

\* The bounds are used up one by one.
LEMMA BoundsShrink ==
  ASSUME SessionTypes, BoundTypes, UNCHANGED mode,
         UNCHANGED commands \/ (commands > 0 /\ commands' = commands - 1),
         UNCHANGED interrupts \/ (interrupts > 0 /\ interrupts' = interrupts - 1)
  PROVE  BoundTypes'
<1>1. MaxCommands[mode] \in Nat /\ MaxInterrupts[mode] \in Nat
  BY BoundsAssumption DEF SessionTypes
<1> QED BY <1>1 DEF BoundTypes

\* Where no step is at work, nothing is asked of one.
LEMMA RestingKeepsTier ==
  ASSUME TierInv, SessionKept, BoundTypes', IdleInv', ModeInv', ~Working',
         evidence \subseteq evidence', UNCHANGED measured
  PROVE  TierInv'
<1>1. ~Recording' /\ AimInv'
  BY DEF AimInv, Working, Recording, Running
<1>2. DefinitionInv'
  BY <1>1 DEF TierInv, DefinitionInv, SessionKept
<1>3. ReadyInv'
  BY <1>1 DEF TierInv, ReadyInv, SessionKept
<1>4. MeasuredTierIsDeployed'
  BY DEF TierInv, MeasuredTierIsDeployed
<1> QED BY <1>1, <1>2, <1>3, <1>4 DEF TierInv, SessionKept

\* A program that leaves its steps stays in its mode.
LEMMA LeavingRests ==
  ASSUME ModeInv, Running, Leaves, UNCHANGED mode
  PROVE  ~Working' /\ ModeInv' /\ (task' = "idle" => IdleInv')
  BY DEF Leaves, Working, Running, ModeInv, IdleInv

\* The parts of the commands, and the cloud.
LEMMA BesideKeepsTier ==
  ASSUME Inv, TierInv, Command \/ Cloud
  PROVE  TierInv'
<1>1. UNCHANGED <<program, phase, step, stage, commands, interrupts, evidence, measured>>
  BY DEF Command, Cloud, controlVars, boundVars, factVars
<1>2. SessionKept
  <2>1. CASE Command
    BY <2>1, CommandKeepsSession DEF Command, TierInv
  <2>2. CASE TelemetryArrives
    BY <2>2, CallKeepsSession DEF TierInv
  <2>3. CASE UNCHANGED <<mode, manifestVars, managed, instance, late, gap, commandVars>>
    BY <2>3 DEF TierInv, SessionTypes, LoopInv, SessionKept, manifestVars, commandVars
  <2> QED BY <2>1, <2>2, <2>3 DEF Cloud
<1>3. BoundTypes'
  BY <1>1, <1>2, BoundsShrink DEF TierInv, SessionKept
<1>4. ModeInv'
  BY <1>1, <1>2 DEF TierInv, ModeInv, Running, SessionKept
<1>5. CASE Command
  <2>1. task # "idle"
    BY <1>5 DEF Command, CommandStep, JournalPlan, JournalApply, TerraformDestroy, JournalDestroy,
      CheckStackAbsence, CheckTelemetry, TelemetryCheckFails, VerifyState, VerifyNative,
      JournalVerify
  <2>2. ~Working' /\ IdleInv'
    BY <1>1, <2>1 DEF TierInv, IdleInv, Working, Running
  <2> QED BY <1>1, <1>2, <1>3, <1>4, <2>2, RestingKeepsTier
<1>6. CASE Cloud
  <2>1. UNCHANGED <<manifest, instance, task>>
    BY <1>6 DEF Cloud, TelemetryArrives, manifestVars, commandVars
  <2>2. IdleInv' /\ AimInv' /\ DefinitionInv' /\ ReadyInv' /\ MeasuredTierIsDeployed'
    BY <1>1, <2>1 DEF TierInv, IdleInv, AimInv, DefinitionInv, ReadyInv, MeasuredTierIsDeployed,
      Working, Recording, Running, CurrentStep, CurrentPhase, Phases
  <2> QED BY <1>2, <1>3, <1>4, <2>2 DEF TierInv, SessionKept
<1> QED BY <1>5, <1>6

\* The operator, outside a program.
LEMMA OperatorKeepsTier ==
  ASSUME Inv, TierInv, ManualCommand \/ InterruptManual \/ NameTier
  PROVE  TierInv'
<1>1. program' = "none" /\ UNCHANGED <<evidence, measured>>
  BY DEF ManualCommand, InterruptManual, NameTier, controlVars, factVars
<1>2. SessionKept
  <2>1. CASE ManualCommand \/ InterruptManual
    BY <2>1, CallKeepsSession DEF ManualCommand, InterruptManual, TierInv
  <2>2. CASE NameTier
    BY <2>2 DEF NameTier, TierInv, SessionTypes, LoopInv, SessionKept, cloudVars, commandVars
  <2> QED BY <2>1, <2>2
<1>3. BoundTypes'
  BY <1>2, BoundsShrink
     DEF ManualCommand, InterruptManual, NameTier, boundVars, TierInv, SessionKept
<1>4. ~Working' /\ IdleInv' /\ ModeInv'
  BY <1>1 DEF Working, Running, IdleInv, ModeInv
<1> QED BY <1>1, <1>2, <1>3, <1>4, RestingKeepsTier

\* A program begins at a step that neither resizes nor validates.
LEMMA StartKeepsTier ==
  ASSUME Inv, TierInv, NEW name \in DOMAIN Programs, StartProgram(name)
  PROVE  TierInv'
<1>1. /\ program' = name /\ phase' = 1 /\ step' = 1 /\ stage' \in {"journal", "work"}
      /\ UNCHANGED <<sessionVars, evidence, measured>> /\ Programs[name].mode = mode
      /\ commands > 0 /\ commands' = commands - 1 /\ UNCHANGED interrupts /\ task = "idle"
  BY DEF StartProgram
<1>2. SessionTypes' /\ LoopInv'
  BY <1>1 DEF TierInv, SessionTypes, LoopInv, sessionVars, manifestVars, cloudVars, commandVars
<1>3. BoundTypes'
  BY <1>1, BoundsShrink DEF TierInv, sessionVars
<1>4. IdleInv' /\ ModeInv'
  BY <1>1 DEF IdleInv, ModeInv, Running, sessionVars, commandVars
<1>5. stage' = "work" => CurrentStep'.effect \notin {"resize", "validate"}
  <2> SUFFICES ASSUME stage' = "work" PROVE CurrentStep'.effect \notin {"resize", "validate"}
    OBVIOUS
  <2>1. Inv'
    BY StartProgramKeeps DEF Good
  <2>2. /\ 1 \in 1 .. Len(Programs[name].phases)
        /\ 1 \in 1 .. Len(Programs[name].phases[1].steps)
    BY <1>1, <2>1 DEF Inv, Position, Phases, CurrentPhase, Programs
  <2>3. CurrentStep' = TableStep(name, 1, 1)
    BY <1>1 DEF TableStep, CurrentStep, CurrentPhase, Phases
  <2> QED BY <2>2, <2>3, StepTable
<1>6. AimInv'
  BY <1>1, <1>5 DEF AimInv, Working, Running
<1>7. DefinitionInv' /\ ReadyInv' /\ MeasuredTierIsDeployed'
  BY <1>1 DEF TierInv, DefinitionInv, ReadyInv, MeasuredTierIsDeployed, Recording, Running,
    sessionVars, manifestVars, cloudVars
<1> QED BY <1>2, <1>3, <1>4, <1>6, <1>7 DEF TierInv

\* The manifests that the controller writes between its steps.
LEMMA JournalledFacts ==
  ASSUME Inv
  PROVE  /\ Journalled.tier = manifest.tier /\ Journalled.pending = manifest.pending
         /\ Journalled.done = manifest.done /\ Journalled.status = manifest.status
         /\ Journalled.summary = manifest.summary
         /\ Selected.tier \in {manifest.tier, manifest.pending}
         /\ manifest.pending = "none" => Selected = manifest
         /\ manifest.pending # "none" =>
              Selected.tier = manifest.pending
              /\ Selected.status = "vertical_scaling_cleanup_pending"
         /\ Selected.pending = manifest.pending /\ Selected.done = manifest.done
         /\ Selected.summary = manifest.summary
         /\ Selected.tier = SelectedTier
<1>1. /\ Journalled.tier = manifest.tier /\ Journalled.pending = manifest.pending
      /\ Journalled.done = manifest.done /\ Journalled.status = manifest.status
      /\ Journalled.summary = manifest.summary
  BY DEF Inv, ShapeInv, Journalled
<1>2. CASE manifest.pending = "none"
  BY <1>1, <1>2 DEF Selected, SelectedTier
<1>3. CASE manifest.pending # "none"
  BY <1>1, <1>3 DEF Inv, ShapeInv, Selected, SelectedTier
<1> QED BY <1>1, <1>2, <1>3

\* So a write between the steps, cut or not, keeps what the invariant reads.
LEMMA JournalKeepsSession ==
  ASSUME Inv, TierInv, UNCHANGED <<mode, plan, cloudVars, commandVars>>,
         \/ session' = session \/ session' = SelectedTier,
         \/ UNCHANGED manifest \/ manifest' \in {Journalled, Selected, TornManifest}
  PROVE  SessionKept
<1>1. session' \in Tiers
  BY DEF TierInv, SessionTypes, SelectedTier
<1>2. /\ manifest'.tier \in Tiers
      /\ manifest'.pending \in {manifest.pending, "none"} /\ manifest'.done \in {manifest.done, {}}
      /\ manifest'.status = Ready => manifest.status = Ready /\ manifest'.tier = manifest.tier
  <2>1. CASE UNCHANGED manifest
    BY <2>1 DEF TierInv, SessionTypes
  <2>2. CASE manifest' = Journalled
    BY <2>2, JournalledFacts DEF TierInv, SessionTypes
  <2>3. CASE manifest' = Selected
    BY <2>3, JournalledFacts DEF TierInv, SessionTypes, Ready
  <2>4. CASE manifest' = TornManifest
    BY <2>4, TierFacts DEF Ready
  <2> QED BY <2>1, <2>2, <2>3, <2>4
<1> QED
  BY <1>1, <1>2 DEF TierInv, SessionTypes, LoopInv, SessionKept, cloudVars, commandVars

\* The controller between two steps.
LEMMA BetweenKeepsTier ==
  ASSUME Inv, TierInv, JournalPhase \/ CallApply \/ ApplyReturns
  PROVE  TierInv'
<1>0. /\ Running /\ task = "idle" /\ UNCHANGED <<commands, interrupts, evidence, measured>>
      /\ stage \in {"journal", "apply", "applying"}
  BY DEF JournalPhase, CallApply, ApplyReturns, Runs, Running, boundVars, factVars
<1>1. SessionKept
  <2>1. CASE JournalPhase
    BY <2>1, JournalKeepsSession DEF JournalPhase, Write
  <2>2. CASE CallApply
    BY <2>2, CallKeepsSession DEF CallApply, TierInv
  <2>3. CASE ApplyReturns
    BY <2>3, JournalKeepsSession DEF ApplyReturns, sessionVars, manifestVars
  <2> QED BY <2>1, <2>2, <2>3
<1>2. BoundTypes'
  BY <1>0, <1>1, BoundsShrink DEF TierInv, SessionKept
<1>3. CASE ApplyReturns \/ (JournalPhase /\ ~Loads)
  <2>1. Leaves
    BY <1>0, <1>3, LeavingLeaves DEF ApplyReturns, JournalPhase, Running
  <2>2. task' = "idle" /\ UNCHANGED mode
    BY <1>0, <1>3 DEF ApplyReturns, JournalPhase, sessionVars, commandVars
  <2>3. ~Working' /\ ModeInv' /\ IdleInv'
    BY <1>0, <2>1, <2>2, LeavingRests DEF TierInv
  <2> QED BY <1>0, <1>1, <1>2, <2>3, RestingKeepsTier
<1>4. CASE CallApply
  <2>1. ~Working' /\ ModeInv' /\ IdleInv'
    BY <1>0, <1>1, <1>4 DEF CallApply, Goto, Stay, Working, Running, TierInv, ModeInv, IdleInv,
      SessionKept
  <2> QED BY <1>0, <1>1, <1>2, <2>1, RestingKeepsTier
<1>5. CASE JournalPhase /\ Loads
  <2>1. /\ UNCHANGED <<program, phase, step, instance, mode>> /\ step = 1 /\ task' = "idle"
        /\ stage' \in {"apply", "work"} /\ manifest' = Journalled
    BY <1>0, <1>5 DEF JournalPhase, Goto, Stay, Inv, Position, Runs, Running, cloudVars,
      commandVars, Write
  <2>2. IdleInv' /\ ModeInv'
    BY <1>0, <2>1 DEF TierInv, IdleInv, ModeInv, Running
  <2>3. stage' = "work" => CurrentStep'.effect \notin {"resize", "validate"}
    <3> SUFFICES ASSUME stage' = "work" PROVE CurrentStep'.effect \notin {"resize", "validate"}
      OBVIOUS
    <3>1. Inv'
      BY <1>5, BetweenStepsKeeps DEF Good
    <3>2. /\ program \in DOMAIN Programs /\ phase \in 1 .. Len(Programs[program].phases)
          /\ 1 \in 1 .. Len(Programs[program].phases[phase].steps)
      BY <1>0, <2>1, <3>1 DEF Inv, Position, Phases, CurrentPhase, Running
    <3>3. CurrentStep' = TableStep(program, phase, 1)
      BY <2>1 DEF TableStep, CurrentStep, CurrentPhase, Phases
    <3> QED BY <3>2, <3>3, StepTable
  <2>4. AimInv' /\ ~Recording'
    BY <2>1, <2>3 DEF AimInv, Working, Recording, Running
  <2>5. DefinitionInv' /\ ReadyInv' /\ MeasuredTierIsDeployed'
    BY <1>0, <1>1, <2>1, <2>4
       DEF TierInv, DefinitionInv, ReadyInv, MeasuredTierIsDeployed, SessionKept
  <2> QED BY <1>1, <1>2, <2>2, <2>4, <2>5 DEF TierInv, SessionKept
<1> QED BY <1>3, <1>4, <1>5

\* The controller in its cleanup.
LEMMA CleanupKeepsTier ==
  ASSUME Inv, TierInv,
         \/ StopMigrationTasks \/ SessionMatchingManifest \/ Destroy \/ DestroyReturns
         \/ Verify \/ VerifyReturns \/ AfterCleanup \/ JournalEnd
  PROVE  TierInv'
<1>0. Running /\ task = "idle" /\ UNCHANGED <<commands, interrupts, evidence, measured>>
  BY DEF StopMigrationTasks, SessionMatchingManifest, Destroy, DestroyReturns, Verify,
    VerifyReturns, AfterCleanup, JournalEnd, Runs, Running, boundVars, factVars
<1>1. SessionKept
  <2>1. CASE StopMigrationTasks
    BY <2>1 DEF StopMigrationTasks, TierInv, SessionTypes, LoopInv, SessionKept, manifestVars,
      commandVars
  <2>2. CASE SessionMatchingManifest
    <3>1. session' = session \/ session' = SelectedTier
      BY <2>2 DEF SessionMatchingManifest
    <3>2. UNCHANGED manifest \/ manifest' = Selected
      BY <2>2 DEF SessionMatchingManifest, Write
    <3> QED BY <2>2, <3>1, <3>2, JournalKeepsSession DEF SessionMatchingManifest
  <2>3. CASE CallDestroy \/ CallVerify
    BY <2>3, CallKeepsSession DEF TierInv
  <2>4. CASE UNCHANGED sessionVars
    BY <2>4, JournalKeepsSession DEF sessionVars, manifestVars
  <2>5. CASE Destroy
    BY <2>3, <2>4, <2>5 DEF Destroy
  <2>6. CASE Verify
    BY <2>3, <2>4, <2>6 DEF Verify
  <2> QED
    BY <2>1, <2>2, <2>4, <2>5, <2>6 DEF DestroyReturns, VerifyReturns, AfterCleanup, JournalEnd
<1>2. BoundTypes'
  BY <1>0, <1>1, BoundsShrink DEF TierInv, SessionKept
<1>3. CASE AfterCleanup \/ JournalEnd
  <2>1. task' = "idle" /\ UNCHANGED mode
    BY <1>0, <1>3 DEF AfterCleanup, JournalEnd, sessionVars, commandVars
  <2>2. program' = "none" \/ (Goto("journal_end") /\ KeepsFlags) \/ FailOutside \/ LeavePhase
    BY <1>3 DEF AfterCleanup, JournalEnd, EndProgram
  <2>3. FailOutside \/ LeavePhase => Leaves
    BY <1>0, LeavingLeaves DEF Running
  <2>4. Leaves
    BY <1>0, <2>2, <2>3 DEF Leaves, Goto, Stay, KeepsFlags, Inv, Position, Running
  <2>5. ~Working' /\ ModeInv' /\ IdleInv'
    BY <1>0, <2>1, <2>4, LeavingRests DEF TierInv
  <2> QED BY <1>0, <1>1, <1>2, <2>5, RestingKeepsTier
<1>4. CASE \/ StopMigrationTasks \/ SessionMatchingManifest \/ Destroy \/ DestroyReturns
           \/ Verify \/ VerifyReturns
  <2>1. UNCHANGED program /\ stage' \in {"destroy", "destroying", "verify", "verifying", "cleaned"}
        /\ (task' = "idle" \/ stage' \in {"destroying", "verifying"})
    BY <1>0, <1>4 DEF StopMigrationTasks, SessionMatchingManifest, Destroy, DestroyReturns, Verify,
      VerifyReturns, Goto, Stay, sessionVars, commandVars
  <2>2. ~Working' /\ ModeInv' /\ IdleInv'
    BY <1>0, <1>1, <2>1 DEF Working, Running, TierInv, ModeInv, IdleInv, SessionKept
  <2> QED BY <1>0, <1>1, <1>2, <2>2, RestingKeepsTier
<1> QED BY <1>3, <1>4

\* The step that a program is at.
LEMMA StepAtWork ==
  ASSUME Inv, ModeInv, Working
  PROVE  /\ KnownStep(CurrentStep) /\ StepFacts(CurrentStep)
         /\ program \in DOMAIN Programs /\ phase \in 1 .. Len(Programs[program].phases)
         /\ step \in 1 .. Len(Programs[program].phases[phase].steps)
         /\ program = "canary" => CurrentStep.effect = "check"
         /\ mode = "async" => AsyncStep(CurrentStep)
         /\ mode = "rehost" => RehostStep(CurrentStep)
         /\ step = 1 => CurrentStep.needs # {}
<1>1. /\ program \in DOMAIN Programs /\ phase \in 1 .. Len(Programs[program].phases)
      /\ step \in 1 .. Len(Programs[program].phases[phase].steps)
  BY DEF Working, Running, Inv, Position, Phases, CurrentPhase
<1>2. CurrentStep = TableStep(program, phase, step)
  BY DEF TableStep, CurrentStep, CurrentPhase, Phases
<1>3. Programs[program].mode = mode
  BY DEF Working, ModeInv
<1>4. StepFacts(CurrentStep)
  BY CurrentStepFacts DEF Working, Running
<1> DEFINE s == TableStep(program, phase, step)
<1>5. KnownStep(s)
  BY <1>1, StepTable
<1>6. step = 1 => s.needs # {}
  BY <1>1, StepTable
<1>7. program = "canary" => s.effect = "check"
  BY <1>1, StepTable
<1>8. Programs[program].mode = "async" => AsyncStep(s)
  BY <1>1, StepTable
<1>9. Programs[program].mode = "rehost" => RehostStep(s)
  BY <1>1, StepTable
<1> HIDE DEF s
<1> QED BY <1>1, <1>2, <1>3, <1>4, <1>5, <1>6, <1>7, <1>8, <1>9 DEF s

\* The work of a step, done or cut, keeps the types; only a resize changes the host.
LEMMA EffectKeepsTypes ==
  ASSUME Inv, TierInv, Working,
         \/ Succeeds(CurrentStep) \/ Stops(CurrentStep, TRUE) \/ Stops(CurrentStep, FALSE),
         UNCHANGED <<mode, session, manifest, gap, commandVars>>
  PROVE  /\ SessionTypes' /\ LoopInv'
         /\ \/ UNCHANGED instance
            \/ CurrentStep.effect = "resize" /\ manifest.pending \in Tiers
<1> DEFINE s == CurrentStep
<1>0. /\ s.builds \in SUBSET Layers /\ LateDeliveries \in Nat
      /\ s.effect = "resize" => manifest.pending \in Tiers
  BY StepAtWork, ChecksAssumption DEF TierInv, AimInv, StepFacts
<1>1. \A kinds : Exposed(kinds) \in {late, LateDeliveries}
  BY DEF Exposed
<1>2. managed' \subseteq Layers /\ plan' \in {"none", "fresh", "stale"}
  <2>1. CASE UNCHANGED <<managed, plan>>
    BY <2>1 DEF TierInv, SessionTypes
  <2>2. CASE Build(s.builds) \/ BuildFails(s.builds) \/ BuildIsKilled(s.builds)
    BY <1>0, <2>2, BuildTypes DEF TierInv
  <2> QED BY <2>1, <2>2 DEF Succeeds, Stops, Unbuilt
<1>3. late' \in {late, LateDeliveries}
  BY <1>1 DEF Succeeds, Stops, KeepsRun
<1>4. \/ UNCHANGED instance
      \/ /\ s.effect = "resize" /\ manifest.pending \in Tiers
         /\ instance' \in {instance, manifest.pending}
  BY <1>0 DEF Succeeds, Stops, KeepsRun
<1>5. late' \in 0 .. LateDeliveries
  BY <1>0, <1>3 DEF TierInv, SessionTypes
<1>6. instance' \in Tiers
  BY <1>4 DEF TierInv, SessionTypes
<1> HIDE DEF s
<1> QED
  BY <1>2, <1>4, <1>5, <1>6 DEF TierInv, SessionTypes, LoopInv, commandVars, s

\* A step that stops halfway.
LEMMA StoppingKeepsTier ==
  ASSUME Inv, TierInv, Working, Stops(CurrentStep, TRUE) \/ Stops(CurrentStep, FALSE),
         Claims(CurrentStep), Leaves, UNCHANGED <<mode, session, manifest, gap, commandVars>>,
         task = "idle", BoundTypes'
  PROVE  TierInv'
<1>1. /\ SessionTypes' /\ LoopInv'
      /\ \/ UNCHANGED instance
         \/ CurrentStep.effect = "resize" /\ manifest.pending \in Tiers
  BY EffectKeepsTypes
<1>2. ~Working' /\ ModeInv' /\ IdleInv'
  BY LeavingRests DEF TierInv, Working, commandVars
<1>3. ~Recording' /\ AimInv'
  BY <1>2 DEF AimInv, Working, Recording, Running
<1>4. evidence \subseteq evidence' /\ UNCHANGED measured
  BY DEF Claims, Stops, KeepsRun
<1>5. DefinitionInv'
  BY <1>1, <1>3, <1>4, TierFacts DEF TierInv, DefinitionInv
<1>6. ReadyInv'
  BY <1>1, <1>3 DEF TierInv, ReadyInv, AimInv
<1> QED BY <1>1, <1>2, <1>3, <1>4, <1>5, <1>6 DEF TierInv, MeasuredTierIsDeployed

\* The work of a step that succeeds, and is recorded next.
LEMMA SucceedingKeepsTier ==
  ASSUME Inv, TierInv, Working, Admits(CurrentStep), Allows(CurrentStep), Succeeds(CurrentStep),
         Claims(CurrentStep), Goto("record"), task = "idle",
         UNCHANGED <<mode, session, manifest, gap, commandVars>>, BoundTypes'
  PROVE  TierInv'
<1> DEFINE s == CurrentStep
<1>0. /\ UNCHANGED CurrentStep /\ Running' /\ stage' = "record" /\ UNCHANGED program
      /\ KnownStep(s) /\ evidence \subseteq evidence'
  BY StepAtWork DEF Goto, Stay, Working, Running, CurrentStep, CurrentPhase, Phases, Claims, TierInv
<1>1. /\ SessionTypes' /\ LoopInv'
      /\ UNCHANGED instance \/ (s.effect = "resize" /\ manifest.pending \in Tiers)
  BY EffectKeepsTypes
<1>2. ModeInv' /\ IdleInv' /\ AimInv'
  BY <1>0 DEF TierInv, ModeInv, IdleInv, AimInv, Working, Running, commandVars
<1>3. s.effect = "restart" => session = Baseline /\ "definition" \notin evidence
                              /\ "definition" \in evidence' /\ manifest.tier = session
  BY <1>0 DEF Allows, Claims, Claim, KnownStep, Admits, Loads
<1>4. s.effect = "measure" => manifest.status = Ready /\ manifest.tier = session
  BY <1>0 DEF KnownStep, Admits, Loads
<1>5. s.effect = "aim" => manifest.done # {}
  BY DEF Allows
<1>6. DefinitionInv'
  BY <1>0, <1>1, <1>3, <1>4, <1>5, TierFacts DEF TierInv, DefinitionInv, Recording, Running
<1>7. ReadyInv'
  <2>1. manifest'.status = Ready => manifest'.tier = instance'
    BY <1>1 DEF TierInv, ReadyInv, AimInv
  <2>2. s.effect = "restart" => manifest'.tier = instance'
    BY <1>1, <1>3 DEF TierInv, DefinitionInv
  <2>3. s.effect = "validate" => manifest'.pending = instance'
    BY DEF Succeeds, Unbuilt, KeepsRun
  <2> QED BY <1>0, <2>1, <2>2, <2>3 DEF ReadyInv
<1>8. MeasuredTierIsDeployed'
  <2>1. \/ UNCHANGED measured
        \/ s.effect = "measure" /\ measured' = measured \cup {<<session, instance>>}
    BY DEF Succeeds, KeepsRun
  <2>2. s.effect = "measure" => session = instance
    BY <1>4 DEF TierInv, ReadyInv
  <2> QED BY <2>1, <2>2 DEF TierInv, MeasuredTierIsDeployed
<1> QED BY <1>1, <1>2, <1>6, <1>7, <1>8 DEF TierInv

\* The step of a program, with all that can become of it.
LEMMA DoStepKeepsTier ==
  ASSUME Inv, TierInv, DoStep
  PROVE  TierInv'
<1>0. /\ Running /\ Working /\ task = "idle"
      /\ UNCHANGED <<mode, session, manifest, gap, commandVars, commands, interrupts>>
  BY DEF DoStep, Runs, Working, Running, boundVars
<1>1. BoundTypes'
  BY <1>0, BoundsShrink DEF TierInv
<1>2. CASE Admits(CurrentStep) /\ Allows(CurrentStep) /\ Succeeds(CurrentStep)
           /\ Claims(CurrentStep) /\ Goto("record")
  BY <1>0, <1>1, <1>2, SucceedingKeepsTier
<1>3. CASE Stops(CurrentStep, FALSE) /\ Claims(CurrentStep) /\ FailInside
  BY <1>0, <1>1, <1>3, StoppingKeepsTier, LeavingLeaves DEF Running
<1>4. CASE Unbuilt /\ KeepsRun /\ UNCHANGED evidence /\ (FailInside \/ FailOutside)
  <2>1. SessionKept
    BY <1>0, <1>4 DEF Unbuilt, KeepsRun, TierInv, SessionTypes, LoopInv, SessionKept, commandVars
  <2>2. ~Working' /\ ModeInv' /\ IdleInv'
    BY <1>0, <1>4, LeavingLeaves, LeavingRests DEF TierInv, Running, commandVars
  <2> QED BY <1>1, <1>4, <2>1, <2>2, RestingKeepsTier DEF KeepsRun
<1> QED BY <1>2, <1>3, <1>4 DEF DoStep

\* What a step writes into the manifest.
LEMMA RecordedFields ==
  ASSUME Inv, NEW s, NEW status
  PROVE  /\ Recorded(s, status).status = status
         /\ Recorded(s, status).tier =
              IF s.effect = "resize" THEN manifest.pending ELSE manifest.tier
         /\ s.effect = "aim" => Recorded(s, status).pending = Ladder[2]
         /\ s.effect \in {"validate", "restart"} => Recorded(s, status).pending = "none"
         /\ s.effect \notin {"aim", "validate", "restart"} =>
              Recorded(s, status).pending = manifest.pending
         /\ s.effect = "measure" => Recorded(s, status).done = manifest.done \cup {session}
         /\ s.effect = "restart" => Recorded(s, status).done = {}
         /\ s.effect \notin {"measure", "restart"} => Recorded(s, status).done = manifest.done
<1>1. Recorded(s, status).status = status
  BY RecordedFacts
<1>2. Recorded(s, status).tier = IF s.effect = "resize" THEN manifest.pending ELSE manifest.tier
  BY DEF Inv, ShapeInv, Recorded
<1>3. /\ s.effect = "aim" => Recorded(s, status).pending = Ladder[2]
      /\ s.effect \in {"validate", "restart"} => Recorded(s, status).pending = "none"
      /\ s.effect \notin {"aim", "validate", "restart"} =>
           Recorded(s, status).pending = manifest.pending
  BY DEF Inv, ShapeInv, Recorded
<1>4. /\ s.effect = "measure" => Recorded(s, status).done = manifest.done \cup {session}
      /\ s.effect = "restart" => Recorded(s, status).done = {}
      /\ s.effect \notin {"measure", "restart"} => Recorded(s, status).done = manifest.done
  BY DEF Inv, ShapeInv, Recorded
<1> QED BY <1>1, <1>2, <1>3, <1>4

\* The write of a checkpoint keeps the invariant as far as it reads the session.
LEMMA RecordedKeepsSession ==
  ASSUME Inv, TierInv, Recording, NEW status,
         \/ status = CurrentStep.writes
         \/ status = CurrentStep.rejects /\ status # "none",
         manifest' = Recorded(CurrentStep, status),
         session' \in {session, SessionAfter(CurrentStep)},
         UNCHANGED <<mode, plan, cloudVars, commandVars, evidence>>
  PROVE  /\ SessionTypes' /\ LoopInv'
         /\ \/ "definition" \in evidence'
            \/ /\ instance' = Baseline /\ manifest'.pending = "none" /\ manifest'.done = {}
               /\ manifest'.status # Ready
         /\ manifest'.status = Ready => manifest'.tier = instance'
<1> DEFINE s == CurrentStep
<1>0. /\ KnownStep(s) /\ Working /\ Running /\ UNCHANGED instance
  BY StepAtWork DEF TierInv, Working, Recording, cloudVars
<1>1. s.effect \in {"resize", "validate"} => manifest.pending \in Tiers
  BY <1>0 DEF TierInv, AimInv
<1>2. status = Ready => s.effect \in {"restart", "validate"}
  BY <1>0 DEF KnownStep
<1>3. /\ manifest'.status = status
      /\ manifest'.tier = IF s.effect = "resize" THEN manifest.pending ELSE manifest.tier
      /\ s.effect = "aim" => manifest'.pending = Ladder[2]
      /\ s.effect \in {"validate", "restart"} => manifest'.pending = "none"
      /\ s.effect \notin {"aim", "validate", "restart"} => manifest'.pending = manifest.pending
      /\ s.effect = "measure" => manifest'.done = manifest.done \cup {session}
      /\ s.effect = "restart" => manifest'.done = {}
      /\ s.effect \notin {"measure", "restart"} => manifest'.done = manifest.done
  <2> HIDE DEF s
  <2> QED BY RecordedFields DEF s
<1> HIDE DEF s
<1>4. manifest'.tier \in Tiers /\ manifest'.pending \in Tiers \cup {"none"}
      /\ manifest'.done \subseteq Tiers
  BY <1>1, <1>3, TierFacts DEF TierInv, SessionTypes
<1>5. session' \in Tiers
  BY <1>1 DEF SessionAfter, TierInv, SessionTypes, s
<1>6. SessionTypes' /\ LoopInv'
  BY <1>4, <1>5 DEF TierInv, SessionTypes, LoopInv, cloudVars, commandVars
<1>7. \/ "definition" \in evidence'
      \/ /\ instance' = Baseline /\ manifest'.pending = "none" /\ manifest'.done = {}
         /\ manifest'.status # Ready
  <2>1. CASE "definition" \in evidence
    BY <2>1
  <2>2. CASE "definition" \notin evidence
    <3>1. /\ instance = Baseline /\ manifest.pending = "none" /\ manifest.done = {}
          /\ s.effect \notin {"restart", "measure", "aim"}
      BY <2>2 DEF TierInv, DefinitionInv, s
    <3>2. s.effect \notin {"resize", "validate"}
      BY <1>1, <3>1, TierFacts
    <3> QED BY <1>0, <1>2, <1>3, <3>1, <3>2
  <2> QED BY <2>1, <2>2
<1>8. manifest'.status = Ready => manifest'.tier = instance'
  <2>1. s.effect = "restart" => manifest.tier = instance
    BY DEF TierInv, ReadyInv, s
  <2>2. s.effect = "validate" => manifest.tier = instance
    BY <1>0 DEF TierInv, ReadyInv, AimInv, s
  <2> QED BY <1>0, <1>2, <1>3, <2>1, <2>2
<1> QED BY <1>6, <1>7, <1>8

\* The write of a checkpoint by a step that is followed by the next, or not.
LEMMA RecordStepKeepsTier ==
  ASSUME Inv, TierInv, RecordStep
  PROVE  TierInv'
<1> DEFINE s == CurrentStep
<1>0. /\ Running /\ Recording /\ Working /\ task = "idle"
      /\ UNCHANGED <<mode, plan, cloudVars, commandVars, commands, interrupts, evidence, measured>>
  BY DEF RecordStep, Runs, Working, Running, Recording, boundVars, factVars
<1>1. PICK status \in {s.writes, s.rejects} :
        /\ manifest' = Recorded(s, status)
        /\ \/ status = s.writes /\ session' = SessionAfter(s) /\ NextStep
           \/ status = s.rejects /\ status # "none" /\ UNCHANGED session /\ FailInside
  BY DEF RecordStep, Write
<1>2. /\ SessionTypes' /\ LoopInv'
      /\ \/ "definition" \in evidence'
         \/ /\ instance' = Baseline /\ manifest'.pending = "none" /\ manifest'.done = {}
            /\ manifest'.status # Ready
      /\ manifest'.status = Ready => manifest'.tier = instance'
  BY <1>0, <1>1, RecordedKeepsSession
<1>3. BoundTypes' /\ MeasuredTierIsDeployed'
  BY <1>0, BoundsShrink DEF TierInv, MeasuredTierIsDeployed
<1>4. CASE Leaves
  <2>1. ~Working' /\ ModeInv' /\ IdleInv'
    BY <1>0, <1>4, LeavingRests DEF TierInv, commandVars
  <2>2. ~Recording' /\ AimInv'
    BY <2>1 DEF AimInv, Working, Recording, Running
  <2> QED BY <1>2, <1>3, <2>1, <2>2 DEF TierInv, DefinitionInv, ReadyInv
<1>5. CASE status = s.writes /\ NextStep /\ step < Len(CurrentPhase.steps)
  <2>1. UNCHANGED <<program, phase>> /\ step' = step + 1 /\ stage' = "work"
    BY <1>5 DEF NextStep
  <2>2. ~Recording' /\ ModeInv' /\ IdleInv'
    BY <1>0, <2>1 DEF TierInv, ModeInv, IdleInv, Running, Recording, commandVars
  <2>3. /\ program \in DOMAIN Programs /\ phase \in 1 .. Len(Programs[program].phases)
        /\ step + 1 \in 1 .. Len(Programs[program].phases[phase].steps)
        /\ step \in 1 .. Len(Programs[program].phases[phase].steps)
    <3>1. /\ program \in DOMAIN Programs /\ phase \in 1 .. Len(Programs[program].phases)
          /\ step \in 1 .. Len(Programs[program].phases[phase].steps)
      BY <1>0, StepAtWork DEF TierInv
    <3>2. Inv'
      BY RecordStepKeeps DEF Good
    <3>3. step + 1 \in 1 .. Len(Programs[program].phases[phase].steps)
      BY <1>0, <2>1, <3>2 DEF Inv, Position, Phases, CurrentPhase, Running
    <3> QED BY <3>1, <3>3
  <2> DEFINE next == TableStep(program, phase, step + 1)
  <2>4. s = TableStep(program, phase, step) /\ CurrentStep' = next
    BY <2>1 DEF TableStep, CurrentStep, CurrentPhase, Phases
  <2>5. step + 1 - 1 = step
    BY <2>3
  <2>6. next.effect = "resize" => s.effect = "aim"
    <3>1. \A i \in 1 .. Len(Programs[program].phases[phase].steps) :
            TableStep(program, phase, i).effect = "resize" =>
              TableStep(program, phase, i - 1).effect = "aim"
      BY <2>3, StepTable
    <3> QED BY <2>3, <2>4, <2>5, <3>1
  <2>7. next.effect = "validate" => s.effect = "resize"
    <3>1. \A i \in 1 .. Len(Programs[program].phases[phase].steps) :
            TableStep(program, phase, i).effect = "validate" =>
              TableStep(program, phase, i - 1).effect = "resize"
      BY <2>3, StepTable
    <3> QED BY <2>3, <2>4, <2>5, <3>1
  <2>8. KnownStep(s) /\ (s.effect = "resize" => manifest.pending \in Tiers)
    BY <1>0, StepAtWork DEF TierInv, AimInv
  <2>9. /\ s.effect = "aim" => manifest'.pending \in Tiers /\ manifest'.status # Ready
        /\ s.effect = "resize" => manifest'.pending \in Tiers /\ manifest'.tier = manifest'.pending
    <3> HIDE DEF s
    <3>1. /\ manifest'.status = status
          /\ s.effect = "aim" => manifest'.pending = Ladder[2]
          /\ s.effect = "resize" =>
               manifest'.tier = manifest.pending /\ manifest'.pending = manifest.pending
      BY <1>1, RecordedFields
    <3> QED BY <1>5, <2>8, <3>1, TierFacts DEF KnownStep
  <2>10. AimInv'
    <3> HIDE DEF s, next
    <3> QED BY <2>4, <2>6, <2>7, <2>9 DEF AimInv
  <2> QED BY <1>2, <1>3, <2>2, <2>10 DEF TierInv, DefinitionInv, ReadyInv
<1>6. Leaves \/ (status = s.writes /\ NextStep /\ step < Len(CurrentPhase.steps))
  BY <1>0, <1>1, LeavingLeaves DEF NextStep, Running
<1> QED BY <1>4, <1>5, <1>6

\* An interrupt, wherever the program is.
LEMMA InterruptKeepsTier ==
  ASSUME Inv, TierInv, Interrupt
  PROVE  TierInv'
<1>0. /\ Running /\ commands' = commands /\ interrupts > 0 /\ interrupts' = interrupts - 1
  BY DEF Interrupt, Running
<1>1. UNCHANGED mode => BoundTypes'
  BY <1>0, BoundsShrink DEF TierInv
<1>2. CASE task # "idle" /\ InterruptCommand /\ Stay /\ KeepsFlags /\ UNCHANGED <<stage, factVars>>
  <2>1. SessionKept
    BY <1>2, CallKeepsSession DEF TierInv
  <2>2. ~Working' /\ ModeInv' /\ IdleInv'
    BY <1>0, <1>2, <2>1 DEF InterruptCommand, Ends, Stay, TierInv, IdleInv, ModeInv, Working,
      Running, SessionKept
  <2> QED BY <1>1, <1>2, <2>1, <2>2, RestingKeepsTier DEF factVars, SessionKept
<1>3. CASE Runs("journal") /\ WriteIsInterrupted(Journalled) /\ FailOutside
           /\ UNCHANGED <<mode, session, plan, cloudVars, commandVars, factVars>>
  <2>1. SessionKept
    BY <1>3, JournalKeepsSession DEF WriteIsInterrupted
  <2>2. ~Working' /\ ModeInv' /\ IdleInv'
    BY <1>0, <1>3, LeavingLeaves, LeavingRests DEF TierInv, Running, Runs, commandVars
  <2> QED BY <1>1, <1>3, <2>1, <2>2, RestingKeepsTier DEF factVars
<1>4. CASE Runs("apply") /\ InterruptApply /\ FailOutside /\ UNCHANGED factVars
  <2>1. SessionKept
    BY <1>4, CallKeepsSession DEF TierInv
  <2>2. task' = "idle" /\ UNCHANGED mode
    BY <1>4 DEF InterruptApply, Ends
  <2>3. ~Working' /\ ModeInv' /\ IdleInv'
    BY <1>0, <1>4, <2>2, LeavingLeaves, LeavingRests DEF TierInv, Running
  <2> QED BY <1>1, <1>4, <2>1, <2>2, <2>3, RestingKeepsTier DEF factVars
<1>5. CASE Runs("work") /\ Stops(CurrentStep, TRUE) /\ Claims(CurrentStep) /\ FailInside
           /\ UNCHANGED <<mode, session, manifest, gap, commandVars>>
  <2>1. Working /\ task = "idle" /\ Leaves
    BY <1>0, <1>5, LeavingLeaves DEF Runs, Working, Running
  <2> QED BY <1>1, <1>5, <2>1, StoppingKeepsTier
<1>6. CASE Runs("record") /\ WriteIsInterrupted(Recorded(CurrentStep, CurrentStep.writes))
           /\ FailInside /\ UNCHANGED <<mode, session, plan, cloudVars, commandVars, factVars>>
  <2>1. Recording /\ task = "idle" /\ Leaves
    BY <1>0, <1>6, LeavingLeaves DEF Runs, Recording, Running
  <2>2. ~Working' /\ ModeInv' /\ IdleInv'
    BY <1>0, <1>6, <2>1, LeavingRests DEF TierInv, commandVars
  <2>3. CASE manifest' = Recorded(CurrentStep, CurrentStep.writes)
    <3>1. /\ SessionTypes' /\ LoopInv'
          /\ \/ "definition" \in evidence'
             \/ /\ instance' = Baseline /\ manifest'.pending = "none" /\ manifest'.done = {}
                /\ manifest'.status # Ready
          /\ manifest'.status = Ready => manifest'.tier = instance'
      BY <1>6, <2>1, <2>3, RecordedKeepsSession DEF factVars
    <3>2. ~Recording' /\ AimInv' /\ MeasuredTierIsDeployed'
      BY <1>6, <2>2
         DEF AimInv, Working, Recording, Running, TierInv, MeasuredTierIsDeployed, factVars
    <3> QED BY <1>1, <1>6, <2>2, <3>1, <3>2 DEF TierInv, DefinitionInv, ReadyInv
  <2>4. CASE manifest' \in {manifest, TornManifest}
    <3>1. SessionKept
      BY <1>6, <2>4, JournalKeepsSession
    <3> QED BY <1>1, <1>6, <2>2, <3>1, RestingKeepsTier DEF factVars
  <2> QED BY <1>6, <2>3, <2>4 DEF WriteIsInterrupted
<1>7. CASE /\ Runs("stop") /\ Goto("destroy") /\ KeepsFlags
           /\ UNCHANGED <<mode, manifestVars, managed, instance, late, gap, commandVars, factVars>>
  <2>1. SessionKept
    BY <1>7 DEF TierInv, SessionTypes, LoopInv, SessionKept, manifestVars, commandVars
  <2>2. ~Working' /\ ModeInv' /\ IdleInv'
    BY <1>0, <1>7 DEF Goto, Stay, Runs, TierInv, IdleInv, ModeInv, Working, Running, commandVars
  <2> QED BY <1>1, <1>7, <2>1, <2>2, RestingKeepsTier DEF factVars
<1>8. CASE /\ \E record \in {Selected, manifest} : WriteIsInterrupted(record)
           /\ program' = "none"
           /\ UNCHANGED <<mode, session, plan, cloudVars, commandVars, factVars>>
  <2>1. SessionKept
    BY <1>8, JournalKeepsSession DEF WriteIsInterrupted
  <2>2. ~Working' /\ ModeInv' /\ IdleInv'
    BY <1>8 DEF Working, Running, ModeInv, IdleInv
  <2> QED BY <1>1, <1>8, <2>1, <2>2, RestingKeepsTier DEF factVars
<1> QED
  BY <1>2, <1>3, <1>4, <1>5, <1>6, <1>7, <1>8 DEF Interrupt, EndProgram

\* Every step of the system keeps it.
LEMMA NextKeepsTier ==
  ASSUME Inv, TierInv, [Next]_vars
  PROVE  TierInv'
<1>1. CASE Next
  BY <1>1, BesideKeepsTier, OperatorKeepsTier, StartKeepsTier, BetweenKeepsTier, CleanupKeepsTier,
    DoStepKeepsTier, RecordStepKeepsTier, InterruptKeepsTier DEF Next, Controller
<1>2. CASE UNCHANGED vars
  BY <1>2 DEF TierInv, SessionTypes, BoundTypes, LoopInv, IdleInv, ModeInv, AimInv, DefinitionInv,
    ReadyInv, MeasuredTierIsDeployed, Working, Recording, Running, CurrentStep, CurrentPhase,
    Phases, vars, sessionVars, manifestVars, cloudVars, commandVars, controlVars, boundVars,
    factVars
<1> QED BY <1>1, <1>2

\* So it holds of every session.
THEOREM TierInvariant == Spec => [](Inv /\ TierInv)
<1>1. ASSUME Init PROVE TierInv
  <2>1. /\ mode \in Modes /\ session = Baseline /\ instance = Baseline /\ manifest = NoManifest
        /\ plan = "none" /\ managed = {} /\ late = 0 /\ gap = 0 /\ task = "idle" /\ result = "ok"
        /\ absent = 0 /\ checks = 0 /\ program = "none" /\ evidence = {} /\ measured = {}
        /\ commands = MaxCommands[mode] /\ interrupts = MaxInterrupts[mode]
    BY <1>1 DEF Init, InitSession
  <2>2. SessionTypes
    BY <2>1, TierFacts, ChecksAssumption DEF SessionTypes
  <2>3. BoundTypes
    BY <2>1, BoundsAssumption DEF BoundTypes
  <2>4. DefinitionInv /\ ReadyInv
    BY <2>1, TierFacts DEF DefinitionInv, ReadyInv, Recording, Running, NoManifest, Ready
  <2> QED
    BY <1>1, <2>1, <2>2, <2>3, <2>4 DEF TierInv, LoopInv, IdleInv, ModeInv, AimInv, Working,
      Running, MeasuredTierIsDeployed
<1>2. Inv /\ TierInv /\ [Next]_vars => TierInv'
  BY NextKeepsTier
<1> QED BY <1>1, <1>2, SessionInvariant, PTL DEF Spec

\* The variables of a session keep their types; the counts of the telemetry loop, of the
\* late deliveries and of the quiet waits keep their bounds (cleanup_container_insights).
THEOREM SessionTypeCorrect == Spec => []TypeOK
<1>1. Inv /\ TierInv => TypeOK
  BY DEF Inv, ShapeInv, Position, TierInv, SessionTypes, BoundTypes, TypeOK
<1> QED BY <1>1, TierInvariant, PTL

\* A measurement is of the type the host really has, whatever was cut between a resize
\* and the manifest that records it (run_vertical_scaling_tier, change_vertical_scaling_tier).
THEOREM MeasurementIsOfDeployedTier == Spec => []MeasuredTierIsDeployed
<1>1. TierInv => MeasuredTierIsDeployed
  BY DEF TierInv
<1> QED BY <1>1, TierInvariant, PTL

-----------------------------------------------------------------------------
(* The teardown that every cleanup reaches *)

\* A session that cannot change its tier keeps the one it began with.
AsyncInv == mode = "async" \/ program = "canary" => session = Baseline /\ manifest.tier = Baseline

\* The stages of a teardown.
TeardownStages == {"destroy", "destroying", "verify", "verifying", "cleaned", "journal_end"}

\* A cleanup is entered where its phase enters it, and reaches the destroy with the
\* session that the manifest names.
MatchInv ==
  Running =>
    /\ stage = "stop" => CurrentPhase.stops
    /\ stage = "select" => CurrentPhase.selects
    /\ stage = "destroy" => manifest.status \in {"none", "torn"} \/ manifest.tier = session

\* Behind its attempt to destroy a cleanup has begun one, unless the manifest is unreadable.
TriedInv ==
  /\ ~Running => stage = "idle" /\ ~destroyTried
  /\ Running /\ stage \in TeardownStages \ {"destroy"} => destroyTried
  /\ Running /\ destroyTried /\ ~begun =>
       manifest.status = "torn" /\ task = "idle" /\ stage \in TeardownStages

CleanupInv == AsyncInv /\ MatchInv /\ TriedInv

\* What a step may do that ends a program in its cleanup.
CleanupStep ==
  Cleaning /\ program' = "none" => begun \/ manifest.status = "torn" \/ outcome' = "escaped"

\* Where the phase that runs enters its cleanup.
LEMMA PhaseAtWork ==
  ASSUME Inv, ModeInv, Running
  PROVE  /\ mode \in {"async", "rehost"}
         /\ mode = "async" => ~CurrentPhase.selects
         /\ mode = "rehost" =>
              /\ ~CurrentPhase.stops /\ ~Owned
              /\ CurrentPhase.tears = "never" \/ CurrentPhase.selects \/ program = "canary"
         /\ program = "canary" => ~CurrentPhase.selects /\ mode = "rehost"
<1>1. /\ program \in DOMAIN Programs /\ phase \in 1 .. Len(Programs[program].phases)
      /\ CurrentPhase = Programs[program].phases[phase] /\ Programs[program].mode = mode
  BY DEF Running, Inv, Position, Phases, CurrentPhase, ModeInv
<1>2. ~Canary.selects
  BY DEF Canary, Phase
<1>3. /\ Programs[program].mode \in {"async", "rehost"}
      /\ Programs[program].mode = "async" => AsyncPhase(Programs[program].phases[phase])
  BY <1>1, PhaseTable
<1>4. Programs[program].mode = "rehost" =>
        /\ RehostPhase(Programs[program].phases[phase]) /\ ~Programs[program].owned
        /\ \/ Programs[program].phases[phase].tears = "never"
           \/ Programs[program].phases[phase].selects
           \/ program = "canary"
  BY <1>1, PhaseTable
<1>5. program = "canary" =>
        Programs[program].phases[phase] = Canary /\ Programs[program].mode = "rehost"
  BY <1>1, PhaseTable
<1> QED BY <1>1, <1>2, <1>3, <1>4, <1>5 DEF AsyncPhase, RehostPhase, Owned

\* How a program leaves its steps or its phase.
LeavesWell ==
  \/ program' = "none" /\ stage' = "idle" /\ ~destroyTried'
  \/ /\ UNCHANGED <<program, destroyTried>>
     /\ stage' \in {"journal", "stop", "select", "destroy"}
     /\ stage' = "stop" => UNCHANGED phase /\ CurrentPhase.stops
     /\ stage' = "select" => UNCHANGED phase /\ CurrentPhase.selects
     /\ stage' = "destroy" => mode = "async" \/ program = "canary"

\* It enters the destroy at once only in a session that keeps its tier.
LEMMA LeavingIsWell ==
  ASSUME Inv, ModeInv, Running, FailOutside \/ FailInside \/ LeavePhase \/ StepsDone
  PROVE  LeavesWell
<1> USE DEF Goto, Stay, KeepsTries, KeepsFlags, EndProgram, LeavesWell
<1>0. /\ Owned => mode = "async"
      /\ CurrentPhase.tears # "never" /\ ~CurrentPhase.selects =>
           mode = "async" \/ program = "canary"
  BY PhaseAtWork
<1>1. FailOutside => LeavesWell
  BY <1>0 DEF FailOutside
<1>2. FailInside => LeavesWell
  BY <1>0, <1>1 DEF FailInside, CleanupEntry
<1>3. LeavePhase => LeavesWell
  BY <1>0 DEF LeavePhase
<1>4. StepsDone => LeavesWell
  BY <1>0, <1>3 DEF StepsDone, CleanupEntry
<1> QED BY <1>1, <1>2, <1>3, <1>4

\* What becomes of the cleanup's part of the invariant there.
LEMMA LeavingKeepsCleanup ==
  ASSUME CleanupInv, Running, LeavesWell, UNCHANGED mode, AsyncInv',
         destroyTried /\ ~begun' =>
           manifest'.status = "torn" /\ task' = "idle" /\ stage' = "destroy"
  PROVE  CleanupInv'
<1>1. MatchInv'
  BY DEF LeavesWell, MatchInv, AsyncInv, Running, CurrentPhase, Phases
<1>2. TriedInv'
  BY DEF LeavesWell, TriedInv, Running, TeardownStages
<1> QED BY <1>1, <1>2 DEF CleanupInv

\* A command changes the tier of the manifest only to that of the session, or loses it.
LEMMA CommandKeepsTier ==
  ASSUME Inv,
         \/ CommandStep
         \/ PlanSession \/ ApplySession \/ InterruptApply \/ CallDestroy \/ CallVerify
         \/ InterruptCommand \/ TelemetryArrives
  PROVE  /\ UNCHANGED <<mode, session>>
         /\ manifest'.tier \in {manifest.tier, session, Baseline}
<1> USE DEF Ends, Continues, KeepsCounts, KeepsCloud, KeepsFiles, manifestVars, Write
<1>1. CASE CommandStep
  <2>1. CASE JournalPlan
    BY <2>1, TierFacts DEF JournalPlan
  <2>2. CASE JournalApply
    <3>1. manifest' = manifest \/ WriteStatus("applied")
      BY <2>2 DEF JournalApply
    <3> QED BY <2>2, <3>1, StatusFacts DEF JournalApply
  <2>3. CASE JournalDestroy
    <3>1. manifest' = manifest \/ WriteStatus("destroyed_pending_verification")
      BY <2>3 DEF JournalDestroy
    <3> QED BY <2>3, <3>1, StatusFacts DEF JournalDestroy
  <2>4. CASE JournalVerify
    <3>1. manifest' = manifest \/ WriteStatus("teardown_verified")
      BY <2>4 DEF JournalVerify
    <3> QED BY <2>4, <3>1, StatusFacts DEF JournalVerify
  <2>5. CASE \/ TerraformDestroy \/ CheckStackAbsence \/ CheckTelemetry \/ TelemetryCheckFails
             \/ VerifyState \/ VerifyNative
    BY <2>5 DEF TerraformDestroy, CheckStackAbsence, CheckTelemetry, TelemetryCheckFails,
      VerifyState, VerifyNative
  <2> QED BY <1>1, <2>1, <2>2, <2>3, <2>4, <2>5 DEF CommandStep
<1>2. CASE \/ PlanSession \/ ApplySession \/ InterruptApply \/ CallDestroy \/ CallVerify
           \/ TelemetryArrives
  BY <1>2 DEF PlanSession, ApplySession, InterruptApply, CallDestroy, CallVerify, TelemetryArrives
<1>3. CASE InterruptCommand
  BY <1>3, TierFacts DEF InterruptCommand
<1> QED BY <1>1, <1>2, <1>3

\* The parts of the commands, the cloud, and an interrupt of a command.
LEMMA BesideKeepsCleanup ==
  ASSUME Inv, TierInv, CleanupInv,
         \/ Command \/ Cloud
         \/ task # "idle" /\ InterruptCommand /\ Running
            /\ UNCHANGED <<program, phase, stage, destroyTried, begun>>
  PROVE  CleanupInv' /\ CleanupStep
<1>1. UNCHANGED <<program, phase, stage, destroyTried, begun>>
  BY DEF Command, Cloud, controlVars, factVars
<1>2. \/ task # "idle" \/ UNCHANGED <<manifest, task, session>>
  BY DEF Command, CommandStep, JournalPlan, JournalApply, TerraformDestroy, JournalDestroy,
    CheckStackAbsence, CheckTelemetry, TelemetryCheckFails, VerifyState, VerifyNative,
    JournalVerify,
    Cloud, TelemetryArrives, manifestVars, commandVars
<1>3. UNCHANGED mode /\ AsyncInv'
  <2>1. CASE UNCHANGED <<mode, session, manifest>>
    BY <1>1, <2>1 DEF CleanupInv, AsyncInv
  <2>2. CASE CommandStep \/ InterruptCommand
    BY <1>1, <2>2, CommandKeepsTier DEF CleanupInv, AsyncInv
  <2> QED BY <2>1, <2>2 DEF Command, Cloud, TelemetryArrives, manifestVars
<1>4. MatchInv'
  BY <1>1, <1>2 DEF TierInv, IdleInv, CleanupInv, MatchInv, Running, CurrentPhase, Phases
<1>5. TriedInv'
  BY <1>1, <1>2 DEF CleanupInv, TriedInv, Running
<1>6. CleanupStep
  BY <1>1 DEF CleanupStep, CleanupInv, TriedInv, Running, Cleaning
<1> QED BY <1>3, <1>4, <1>5, <1>6 DEF CleanupInv

\* The operator, and the start of a program.
LEMMA OperatorKeepsCleanup ==
  ASSUME Inv, TierInv, CleanupInv,
         \/ ManualCommand \/ InterruptManual \/ NameTier
         \/ \E name \in DOMAIN Programs : StartProgram(name)
  PROVE  CleanupInv' /\ CleanupStep
<1>0. ~Running /\ stage = "idle" /\ ~destroyTried
  BY DEF ManualCommand, InterruptManual, NameTier, StartProgram, CleanupInv, TriedInv, Running
<1>1. CleanupStep
  BY <1>0 DEF CleanupStep, Cleaning
<1>2. CASE ManualCommand \/ InterruptManual \/ NameTier
  <2>1. program' = "none" /\ UNCHANGED <<program, stage, destroyTried>>
    BY <1>2 DEF ManualCommand, InterruptManual, NameTier, controlVars
  <2>2. AsyncInv'
    <3>1. CASE NameTier
      BY <2>1, <3>1 DEF NameTier, AsyncInv
    <3>2. CASE ManualCommand \/ InterruptManual
      <4>1. UNCHANGED <<mode, session>> /\ manifest'.tier \in {manifest.tier, session, Baseline}
        BY <3>2, CommandKeepsTier DEF ManualCommand, InterruptManual
      <4> QED BY <2>1, <4>1 DEF CleanupInv, AsyncInv
    <3> QED BY <1>2, <3>1, <3>2
  <2> QED BY <1>0, <1>1, <2>1, <2>2 DEF CleanupInv, MatchInv, TriedInv, Running
<1>3. CASE \E name \in DOMAIN Programs : StartProgram(name)
  <2> PICK name \in DOMAIN Programs : StartProgram(name)
    BY <1>3
  <2>1. /\ program' = name /\ UNCHANGED <<sessionVars, destroyTried>>
        /\ stage' \in {"journal", "work"} /\ name # "none"
    BY DEF StartProgram, KeepsFlags, Programs
  <2>2. name = "canary" => Loads /\ session = Baseline
    BY ProgramTable DEF StartProgram, ProgramFacts
  <2>3. AsyncInv'
    BY <2>1, <2>2 DEF CleanupInv, AsyncInv, Loads, sessionVars, manifestVars
  <2> QED BY <1>0, <1>1, <2>1, <2>3 DEF CleanupInv, MatchInv, TriedInv, Running, TeardownStages
<1> QED BY <1>2, <1>3

\* The controller outside its cleanup.
LEMMA WorkKeepsCleanup ==
  ASSUME Inv, TierInv, CleanupInv, JournalPhase \/ CallApply \/ ApplyReturns \/ DoStep \/ RecordStep
  PROVE  CleanupInv' /\ CleanupStep
<1>0. /\ Running /\ task = "idle" /\ UNCHANGED <<mode, begun>> /\ ~Cleaning
      /\ stage \in {"journal", "apply", "applying", "work", "record"}
  BY DEF JournalPhase, CallApply, ApplyReturns, DoStep, RecordStep, Runs, Running, factVars,
    ApplySession, sessionVars, Cleaning
<1>1. CleanupStep
  BY <1>0 DEF CleanupStep
<1>2. destroyTried => begun
  BY <1>0 DEF CleanupInv, TriedInv, TeardownStages
<1>3. AsyncInv'
  <2>1. program' \in {program, "none"}
    BY DEF JournalPhase, CallApply, ApplyReturns, DoStep, RecordStep, Goto, Stay, FailOutside,
      FailInside, LeavePhase, StepsDone, NextStep, EndProgram
  <2>2. CASE RecordStep
    <3>1. /\ mode = "async" \/ program = "canary" =>
               CurrentStep.effect \notin {"resize", "validate"}
          /\ Running /\ Working
      <4>1. Working
        BY <2>2 DEF RecordStep, Runs, Working, Running
      <4> QED BY <1>0, <4>1, StepAtWork DEF TierInv, AsyncStep
    <3>2. \E status : manifest' = Recorded(CurrentStep, status)
      BY <2>2 DEF RecordStep, Write
    <3>3. CurrentStep.effect \notin {"resize", "validate"} =>
            session' = session /\ manifest'.tier = manifest.tier
      <4>1. session' \in {session, SessionAfter(CurrentStep)}
        BY <2>2 DEF RecordStep
      <4> QED BY <3>2, <4>1, RecordedFields DEF SessionAfter
    <3> QED BY <1>0, <2>1, <3>1, <3>3 DEF CleanupInv, AsyncInv
  <2>3. CASE JournalPhase \/ CallApply \/ ApplyReturns \/ DoStep
    <3>1. session' = session /\ (manifest' = manifest \/ manifest' = Journalled)
      BY <2>3 DEF JournalPhase, CallApply, ApplySession, ApplyReturns, DoStep, sessionVars,
        manifestVars, Write
    <3>2. manifest'.tier = manifest.tier
      BY <3>1, JournalledFacts
    <3> QED BY <1>0, <2>1, <3>1, <3>2 DEF CleanupInv, AsyncInv
  <2> QED BY <2>2, <2>3
<1>4. CASE LeavesWell
  BY <1>0, <1>1, <1>2, <1>3, <1>4, LeavingKeepsCleanup
<1>5. CASE UNCHANGED <<program, destroyTried>> /\ stage' \in {"work", "record", "apply", "applying"}
  <2>1. MatchInv'
    BY <1>5 DEF MatchInv
  <2>2. TriedInv'
    BY <1>0, <1>2, <1>5 DEF TriedInv, Running, TeardownStages
  <2> QED BY <1>1, <1>3, <2>1, <2>2 DEF CleanupInv
<1>6. LeavesWell \/ (/\ UNCHANGED <<program, destroyTried>>
                     /\ stage' \in {"work", "record", "apply", "applying"})
  <2>1. FailOutside \/ FailInside \/ LeavePhase \/ StepsDone => LeavesWell
    BY <1>0, LeavingIsWell DEF TierInv
  <2>2. \/ FailOutside \/ FailInside \/ LeavePhase \/ StepsDone
        \/ (/\ UNCHANGED <<program, destroyTried>>
            /\ stage' \in {"work", "record", "apply", "applying"})
    BY DEF JournalPhase, CallApply, ApplyReturns, DoStep, RecordStep, NextStep, Goto,
      Stay, KeepsFlags
  <2> QED BY <2>1, <2>2
<1> QED BY <1>4, <1>5, <1>6

\* The controller that looks for what it has to destroy, and begins to.
LEMMA EntryKeepsCleanup ==
  ASSUME Inv, TierInv, CleanupInv, StopMigrationTasks \/ SessionMatchingManifest \/ Destroy
  PROVE  CleanupInv' /\ CleanupStep
<1>0. /\ Running /\ Running' /\ task = "idle" /\ UNCHANGED <<program, mode>>
  BY DEF StopMigrationTasks, SessionMatchingManifest, Destroy, Runs, Running, Goto, Stay,
    sessionVars, CallDestroy
<1>1. CleanupStep
  BY <1>0 DEF CleanupStep, Running
<1>2. CASE StopMigrationTasks
  <2>1. /\ UNCHANGED <<session, manifest, task, begun, destroyTried>> /\ stage = "stop"
        /\ stage' = "destroy"
    BY <1>2 DEF StopMigrationTasks, Runs, Goto, KeepsFlags, manifestVars, commandVars, factVars
  <2>2. mode = "async"
    BY <1>0, <2>1, PhaseAtWork DEF TierInv, CleanupInv, MatchInv
  <2>3. AsyncInv' /\ MatchInv'
    BY <1>0, <2>1, <2>2 DEF CleanupInv, AsyncInv, MatchInv
  <2>4. TriedInv'
    BY <1>0, <2>1 DEF CleanupInv, TriedInv, TeardownStages
  <2> QED BY <1>1, <2>3, <2>4 DEF CleanupInv
<1>3. CASE SessionMatchingManifest
  <2>1. /\ UNCHANGED <<task, begun, destroyTried>> /\ stage = "select" /\ stage' = "destroy"
        /\ \/ session' = SelectedTier /\ manifest' = Selected
           \/ UNCHANGED <<session, manifest>> /\ manifest.status \in {"none", "torn"}
    BY <1>3 DEF SessionMatchingManifest, Runs, Goto, KeepsFlags, commandVars, factVars, Write,
      Exists
  <2>2. mode # "async" /\ program # "canary"
    BY <1>0, <2>1, PhaseAtWork DEF TierInv, CleanupInv, MatchInv
  <2>3. AsyncInv' /\ MatchInv'
    BY <1>0, <2>1, <2>2, JournalledFacts DEF AsyncInv, MatchInv
  <2>4. TriedInv'
    BY <1>0, <2>1 DEF CleanupInv, TriedInv, TeardownStages
  <2> QED BY <1>1, <2>3, <2>4 DEF CleanupInv
<1>4. CASE Destroy
  <2>1. UNCHANGED <<session, manifest>> /\ stage = "destroy" /\ stage' \in {"destroying", "verify"}
    BY <1>4 DEF Destroy, Runs, Goto, CallDestroy, KeepsFiles, manifestVars, sessionVars
  <2>2. AsyncInv' /\ MatchInv'
    BY <1>0, <2>1 DEF CleanupInv, AsyncInv, MatchInv
  <2>3. CASE destroyTried /\ UNCHANGED <<sessionVars, begun, destroyTried>>
    BY <1>0, <1>1, <2>1, <2>2, <2>3
       DEF CleanupInv, TriedInv, TeardownStages, sessionVars, commandVars
  <2>4. CASE CallDestroy /\ begun' = (task' # "idle") /\ destroyTried' = TRUE
    <3>1. ~begun' => manifest.status = "torn" /\ task' = "idle"
      BY <1>0, <2>1, <2>4 DEF CallDestroy, Continues, Ends, Exists, Loads, CleanupInv, MatchInv
    <3> QED BY <1>0, <1>1, <2>1, <2>2, <2>4, <3>1 DEF CleanupInv, TriedInv, TeardownStages
  <2> QED BY <1>4, <2>3, <2>4 DEF Destroy, KeepsFlags
<1> QED BY <1>2, <1>3, <1>4

\* The controller behind its attempt to destroy.
LEMMA TeardownKeepsCleanup ==
  ASSUME Inv, TierInv, CleanupInv,
         DestroyReturns \/ Verify \/ VerifyReturns \/ AfterCleanup \/ JournalEnd
  PROVE  CleanupInv' /\ CleanupStep
<1>0. /\ Running /\ task = "idle" /\ UNCHANGED <<mode, session, manifest, begun>>
      /\ stage \in TeardownStages \ {"destroy"}
  BY DEF DestroyReturns, Verify, VerifyReturns, AfterCleanup, JournalEnd, Runs, Running,
    TeardownStages, sessionVars, manifestVars, factVars, CallVerify, KeepsFiles
<1>1. destroyTried /\ (begun \/ manifest.status = "torn")
  BY <1>0 DEF CleanupInv, TriedInv
<1>2. CleanupStep
  BY <1>1 DEF CleanupStep
<1>3. program' \in {program, "none"}
  BY DEF DestroyReturns, Verify, VerifyReturns, AfterCleanup, JournalEnd, Goto, Stay, EndProgram,
    FailOutside, LeavePhase
<1>4. AsyncInv'
  BY <1>0, <1>3 DEF CleanupInv, AsyncInv
<1>5. CASE AfterCleanup \/ JournalEnd
  <2>1. UNCHANGED task
    BY <1>5 DEF AfterCleanup, JournalEnd, sessionVars, commandVars
  <2>2. CASE program' = "none" /\ stage' = "idle" /\ ~destroyTried'
    BY <1>2, <1>4, <2>2 DEF CleanupInv, MatchInv, TriedInv, Running
  <2>3. CASE Goto("journal_end") /\ KeepsFlags
    BY <1>0, <1>1, <1>2, <1>4, <2>1, <2>3
       DEF Goto, Stay, KeepsFlags, CleanupInv, MatchInv, TriedInv, Running, TeardownStages
  <2>4. CASE Owned /\ FailOutside
    <3>1. LeavesWell /\ stage' = "destroy"
      BY <1>0, <2>4, LeavingIsWell DEF FailOutside, Goto, TierInv
    <3> QED BY <1>0, <1>1, <1>2, <1>4, <2>1, <3>1, LeavingKeepsCleanup
  <2>5. CASE manifest.status # "torn" /\ LeavePhase
    <3>1. LeavesWell
      BY <1>0, <2>5, LeavingIsWell DEF TierInv
    <3> QED BY <1>0, <1>1, <1>2, <1>4, <2>1, <2>5, <3>1, LeavingKeepsCleanup
  <2> QED BY <1>5, <2>2, <2>3, <2>4, <2>5 DEF AfterCleanup, JournalEnd, EndProgram, Loads
<1>6. CASE DestroyReturns \/ Verify \/ VerifyReturns
  <2>1. /\ UNCHANGED <<program, destroyTried>> /\ stage' \in {"verify", "verifying", "cleaned"}
        /\ manifest.status = "torn" => task' = "idle"
    <3>1. CASE CallVerify
      BY <1>0, <1>6, <3>1 DEF DestroyReturns, Verify, VerifyReturns, CallVerify, Continues, Ends,
        Exists, Loads, Goto, Stay, KeepsFlags, KeepsTries
    <3>2. CASE UNCHANGED sessionVars
      BY <1>0, <1>6, <3>2 DEF DestroyReturns, Verify, VerifyReturns, Goto, Stay, KeepsFlags,
        KeepsTries, sessionVars, commandVars, CallVerify
    <3> QED BY <1>6, <3>1, <3>2 DEF DestroyReturns, Verify, VerifyReturns
  <2> QED BY <1>0, <1>1, <1>2, <1>4, <2>1
       DEF CleanupInv, MatchInv, TriedInv, Running, TeardownStages
<1> QED BY <1>5, <1>6

\* An interrupt of the controller itself.
LEMMA InterruptKeepsCleanup ==
  ASSUME Inv, TierInv, CleanupInv, Interrupt
  PROVE  CleanupInv' /\ CleanupStep
<1>0. Running
  BY DEF Interrupt, Running
<1>1. CASE task # "idle" /\ InterruptCommand /\ Stay /\ KeepsFlags /\ UNCHANGED <<stage, factVars>>
  BY <1>0, <1>1, BesideKeepsCleanup DEF Stay, KeepsFlags, factVars
<1>2. CASE /\ task = "idle" /\ stage \in {"journal", "apply", "work", "record"}
           /\ FailOutside \/ FailInside
           /\ UNCHANGED <<mode, session, begun>>
           /\ AsyncInv'
  <2>1. LeavesWell
    BY <1>0, <1>2, LeavingIsWell DEF TierInv
  <2>2. (destroyTried => begun) /\ CleanupStep
    BY <1>0, <1>2 DEF CleanupInv, TriedInv, TeardownStages, CleanupStep, Cleaning
  <2> QED BY <1>0, <1>2, <2>1, <2>2, LeavingKeepsCleanup
<1>3. FailOutside \/ FailInside => program' \in {program, "none"}
  BY DEF FailOutside, FailInside, EndProgram, Goto, Stay
<1>4. CASE Runs("journal") /\ WriteIsInterrupted(Journalled) /\ FailOutside
           /\ UNCHANGED <<mode, session, factVars>>
  <2>1. manifest'.tier \in {manifest.tier, Baseline}
    BY <1>4, JournalledFacts, TierFacts DEF WriteIsInterrupted
  <2>2. AsyncInv'
    BY <1>3, <1>4, <2>1 DEF CleanupInv, AsyncInv
  <2> QED BY <1>2, <1>4, <2>2 DEF Runs, factVars
<1>5. CASE Runs("apply") /\ InterruptApply /\ FailOutside /\ UNCHANGED factVars
  <2>1. UNCHANGED <<mode, session, manifest>>
    BY <1>5 DEF InterruptApply
  <2>2. AsyncInv'
    BY <1>3, <1>5, <2>1 DEF CleanupInv, AsyncInv
  <2> QED BY <1>2, <1>5, <2>1, <2>2 DEF Runs, factVars
<1>6. CASE Runs("work") /\ FailInside /\ UNCHANGED <<mode, session, manifest, begun>>
  <2>1. AsyncInv'
    BY <1>3, <1>6 DEF CleanupInv, AsyncInv
  <2> QED BY <1>2, <1>6, <2>1 DEF Runs
<1>7. CASE Runs("record") /\ WriteIsInterrupted(Recorded(CurrentStep, CurrentStep.writes))
           /\ FailInside /\ UNCHANGED <<mode, session, factVars>>
  <2>1. Working
    BY <1>0, <1>7 DEF Runs, Working, Running
  <2>2. mode = "async" \/ program = "canary" => CurrentStep.effect # "resize"
    BY <2>1, StepAtWork DEF TierInv, AsyncStep
  <2>3. CurrentStep.effect # "resize" => manifest'.tier \in {manifest.tier, Baseline}
    <3>1. CurrentStep.effect # "resize" =>
            Recorded(CurrentStep, CurrentStep.writes).tier = manifest.tier
      BY RecordedFields
    <3> QED BY <1>7, <3>1, TierFacts DEF WriteIsInterrupted
  <2>4. AsyncInv'
    BY <1>3, <1>7, <2>2, <2>3 DEF CleanupInv, AsyncInv
  <2> QED BY <1>2, <1>7, <2>4 DEF Runs, factVars
<1>8. CASE /\ Runs("stop") /\ Goto("destroy") /\ KeepsFlags
           /\ UNCHANGED <<mode, manifestVars, commandVars, factVars>>
  <2>1. /\ UNCHANGED <<program, mode, session, manifest, task, begun, destroyTried>>
        /\ stage = "stop" /\ stage' = "destroy"
    BY <1>8 DEF Runs, Goto, Stay, KeepsFlags, manifestVars, commandVars, factVars
  <2>2. mode = "async"
    BY <1>0, <2>1, PhaseAtWork DEF TierInv, CleanupInv, MatchInv
  <2>3. AsyncInv' /\ MatchInv'
    BY <1>0, <2>1, <2>2 DEF CleanupInv, AsyncInv, MatchInv
  <2>4. TriedInv' /\ CleanupStep
    BY <1>0, <2>1 DEF CleanupInv, TriedInv, TeardownStages, CleanupStep, Running
  <2> QED BY <2>3, <2>4 DEF CleanupInv
<1>9. CASE Runs("select") /\ WriteIsInterrupted(Selected) /\ EndProgram("escaped")
           /\ UNCHANGED <<mode, session>>
  <2>1. mode # "async"
    BY <1>0, <1>9, PhaseAtWork DEF Runs, TierInv, CleanupInv, MatchInv
  <2> QED BY <1>9, <2>1 DEF EndProgram, CleanupInv, AsyncInv, MatchInv, TriedInv, CleanupStep,
         Running
<1>10. CASE Runs("journal_end") /\ WriteIsInterrupted(manifest) /\ EndProgram("failed")
            /\ UNCHANGED <<mode, session>>
  <2>1. begun \/ manifest.status = "torn"
    BY <1>0, <1>10 DEF CleanupInv, TriedInv, Runs, TeardownStages
  <2>2. manifest'.tier \in {manifest.tier, Baseline}
    BY <1>10, TierFacts DEF WriteIsInterrupted
  <2> QED BY <1>10, <2>1, <2>2 DEF EndProgram, CleanupInv, AsyncInv, MatchInv, TriedInv,
         CleanupStep, Running
<1> QED
  BY <1>1, <1>4, <1>5, <1>6, <1>7, <1>8, <1>9, <1>10 DEF Interrupt

\* Every step keeps the cleanup's part, and is as the property says.
LEMMA NextKeepsCleanup ==
  ASSUME Inv, TierInv, CleanupInv, [Next]_vars
  PROVE  CleanupInv' /\ [CleanupStep]_vars
<1>1. CASE Next
  BY <1>1, BesideKeepsCleanup, OperatorKeepsCleanup, WorkKeepsCleanup, EntryKeepsCleanup,
    TeardownKeepsCleanup, InterruptKeepsCleanup DEF Next, Controller
<1>2. CASE UNCHANGED vars
  BY <1>2 DEF CleanupInv, AsyncInv, MatchInv, TriedInv, Running, CurrentPhase, Phases, vars,
    sessionVars, manifestVars, cloudVars, commandVars, controlVars, boundVars, factVars
<1> QED BY <1>1, <1>2

\* The cleanup's part of the invariant holds of every session.
THEOREM CleanupInvariant == Spec => [](Inv /\ TierInv /\ CleanupInv)
<1>1. Init => CleanupInv
  BY DEF Init, InitSession, CleanupInv, AsyncInv, MatchInv, TriedInv, Running, NoManifest
<1>2. Inv /\ TierInv /\ CleanupInv /\ [Next]_vars => CleanupInv'
  BY NextKeepsCleanup
<1> QED BY <1>1, <1>2, TierInvariant, PTL DEF Spec

\* A program that enters its cleanup ends only after a Terraform destroy was begun, unless
\* session.json is unreadable or the search for the journaled tier was interrupted
\* (_session_matching_manifest, _CleanupOwner).
THEOREM CleanupsDestroy == Spec => CleanupReachesTerraform
<1>1. Inv /\ TierInv /\ CleanupInv /\ [Next]_vars => [CleanupStep]_vars
  BY NextKeepsCleanup
<1> QED BY <1>1, CleanupInvariant, PTL DEF Spec, CleanupReachesTerraform, CleanupStep
=============================================================================
