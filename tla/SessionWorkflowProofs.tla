------------------------ MODULE SessionWorkflowProofs ------------------------
(***************************************************************************)
(* Proofs about SessionWorkflow for any number of commands, interrupts,    *)
(* checks and late deliveries.                                             *)
(***************************************************************************)
EXTENDS SessionWorkflow, TLAPS

-----------------------------------------------------------------------------
(* The table of programs *)

\* The checkpoint that a migration task with exit code 0 leaves.
MigratedStatus == "async_migration_succeeded"

\* What the arguments need of a step and of the step before it.
StepFacts(s) ==
  /\ s.builds \subseteq Layers
  /\ s.writes # "teardown_verified" /\ s.rejects \notin {"teardown_verified", MigratedStatus}
  /\ s.writes = MigratedStatus => s.effect = "settle"

StepsFacts(steps) ==
  /\ Len(steps) \in Nat /\ steps # <<>> => Len(steps) > 0
  /\ \A i \in 1 .. Len(steps) :
       /\ StepFacts(steps[i])
       /\ "services" \in steps[i].builds => i > 1 /\ steps[i - 1].needs = {MigratedStatus}

\* The phases that begin with a step; the foundation of a session has none.
WorkingPhases ==
  {Deployment, Fixed, Reset, Transition, Elastic, DiagnosticTransition,
   DiagnosticTreatment, Integration, Canary, VerticalScaling,
   Phase(<<PublishImage>>, "never"), Phase(<<DeployRds>>, "never"),
   Phase(<<CollectCorrectness>>, "never"), Phase(<<PrepareScaling>>, "never"),
   Phase(<<RunTier>>, "never"), Phase(<<PlanTier, ApplyTier, ValidateTier>>, "never"),
   Phase(<<ReportFlexibility>>, "never")}
AllPhases == {Foundation} \cup WorkingPhases

\* Every phase of a program is one of them.
LEMMA ProgramsHavePhases ==
  ASSUME NEW name \in DOMAIN Programs
  PROVE  /\ Programs[name].phases \in Seq(AllPhases) /\ Len(Programs[name].phases) > 0
         /\ Programs[name].owned \/ Programs[name].phases[1] \in WorkingPhases
<1> DEFINE Good(p) == /\ p.phases \in Seq(AllPhases) /\ Len(p.phases) > 0
                      /\ p.owned \/ p.phases[1] \in WorkingPhases
<1>1. Good(PairedSession)
  BY DEF PairedSession, Program, AllPhases, WorkingPhases
<1>2. Good(DiagnosticSession)
  BY DEF DiagnosticSession, Program, AllPhases, WorkingPhases
<1>3. \A wants, starts : \A p \in WorkingPhases : Good(Program(wants, starts, <<p>>))
  BY DEF Program, AllPhases
<1>4. \A steps : Phase(steps, "never") \in WorkingPhases => Good(RehostCommand(steps))
  BY <1>3 DEF RehostCommand
<1>5. /\ Good(Programs["paired"]) /\ Good(Programs["diagnostic"])
      /\ Good(Programs["deployment"]) /\ Good(Programs["fixed"]) /\ Good(Programs["reset"])
      /\ Good(Programs["transition"]) /\ Good(Programs["elastic"]) /\ Good(Programs["integration"])
      /\ Good(Programs["vertical"]) /\ Good(Programs["canary"])
  <2> HIDE DEF Good
  <2> QED BY <1>1, <1>2, <1>3 DEF Programs, WorkingPhases
<1>6. /\ Good(Programs["publish_image"]) /\ Good(Programs["deploy_rds"])
      /\ Good(Programs["collect_correctness"]) /\ Good(Programs["prepare_scaling"])
      /\ Good(Programs["run_tier"]) /\ Good(Programs["change_tier"])
      /\ Good(Programs["report_flexibility"])
  <2> HIDE DEF Good
  <2> QED BY <1>4 DEF Programs, WorkingPhases
<1>7. DOMAIN Programs =
        {"paired", "diagnostic", "deployment", "fixed", "reset", "transition", "elastic",
         "integration", "vertical", "canary", "publish_image", "deploy_rds",
         "collect_correctness", "prepare_scaling", "run_tier", "change_tier",
         "report_flexibility"}
  BY DEF Programs
<1>8. Good(Programs[name])
  <2> HIDE DEF Good
  <2> QED BY <1>5, <1>6, <1>7
<1>9. QED
  BY <1>8

\* A step that builds no services.
Plain(s) == StepFacts(s) /\ "services" \notin s.builds

\* Every step but one is plain.
LEMMA PlainSteps ==
  /\ \A s \in {ArmDeployment, PublishAsyncImages, PlanRuntime, ApplyRuntime, StartMigration,
               FinishMigration, PlanServices, AwaitServices, PrepareFixedControl,
               MeasureFixedControl, PrepareReset, ExecuteReset, ApplyTransition,
               PrepareIntegration, RunIntegrationPoints, PublishImage, DeployRds,
               CollectCorrectness, PrepareScaling, RunTier, PlanTier, ApplyTier, ValidateTier,
               ReportFlexibility, RunCanary} : Plain(s)
  /\ \A needs : Plain(PlanTransition(needs))
  /\ Plain(VerifyTransition("worker_autoscaling_verified"))
  /\ Plain(VerifyTransition("worker_autoscaling_diagnostic_verified"))
  /\ \A needs : Plain(PrepareElastic(needs, "elastic_treatment_armed"))
                  /\ Plain(PrepareElastic(needs, "elastic_diagnostic_armed"))
  /\ Plain(MeasureElastic("elastic_treatment_qualified", "elastic_treatment_rejected"))
  /\ Plain(MeasureElastic("elastic_diagnostic_qualified", "elastic_diagnostic_rejected"))
<1> USE DEF Plain, StepFacts, Step, Layers, MigratedStatus
<1>1. \A s \in {ArmDeployment, PublishAsyncImages, PlanRuntime, ApplyRuntime, StartMigration} : Plain(s)
  BY DEF ArmDeployment, PublishAsyncImages, PlanRuntime, ApplyRuntime, StartMigration
<1>2. \A s \in {FinishMigration, PlanServices, AwaitServices, PrepareFixedControl,
                PrepareReset, ExecuteReset, ApplyTransition} : Plain(s)
  BY DEF FinishMigration, PlanServices, AwaitServices, PrepareFixedControl, PrepareReset,
    ExecuteReset, ApplyTransition
<1>3. \A s \in {PrepareIntegration, RunIntegrationPoints, PublishImage, DeployRds,
                CollectCorrectness, RunTier, ApplyTier, ValidateTier, RunCanary} : Plain(s)
  BY DEF PrepareIntegration, RunIntegrationPoints, PublishImage, DeployRds, CollectCorrectness,
    RunTier, ApplyTier,
    ValidateTier, RunCanary
<1>4. Plain(MeasureFixedControl)
  BY DEF MeasureFixedControl
<1>5. Plain(PrepareScaling) /\ Plain(PlanTier) /\ Plain(ReportFlexibility)
  BY DEF PrepareScaling, PlanTier, ReportFlexibility
<1>6. \A needs : Plain(PlanTransition(needs))
  BY DEF PlanTransition
<1>7. /\ Plain(VerifyTransition("worker_autoscaling_verified"))
      /\ Plain(VerifyTransition("worker_autoscaling_diagnostic_verified"))
  BY DEF VerifyTransition
<1>8. \A needs : Plain(PrepareElastic(needs, "elastic_treatment_armed"))
                  /\ Plain(PrepareElastic(needs, "elastic_diagnostic_armed"))
  BY DEF PrepareElastic
<1>9. /\ Plain(MeasureElastic("elastic_treatment_qualified", "elastic_treatment_rejected"))
      /\ Plain(MeasureElastic("elastic_diagnostic_qualified", "elastic_diagnostic_rejected"))
  BY DEF MeasureElastic
<1> HIDE DEF Plain
<1>10. QED
  BY <1>1, <1>2, <1>3, <1>4, <1>5, <1>6, <1>7, <1>8, <1>9

\* The services are built by the step behind the one that needs the migration.
LEMMA ServicesFollowMigration ==
  /\ StepFacts(ApplyServices) /\ PlanServices.needs = {MigratedStatus}
  BY DEF StepFacts, ApplyServices, PlanServices, Step, Layers, MigratedStatus

\* And their steps are as the arguments need them.
LEMMA PhasesHaveSteps ==
  ASSUME NEW p \in AllPhases
  PROVE  StepsFacts(p.steps) /\ (p \in WorkingPhases => p.steps # <<>>)
<1> DEFINE Has(steps) == StepsFacts(steps) /\ steps # <<>>
<1>1. \A s : Plain(s) => Has(<<s>>)
  BY DEF StepsFacts, Plain
<1>2. \A s, t : Plain(s) /\ Plain(t) => Has(<<s, t>>)
  BY DEF StepsFacts, Plain
<1>3. \A s, t, u : Plain(s) /\ Plain(t) /\ Plain(u) => Has(<<s, t, u>>)
  BY DEF StepsFacts, Plain
<1>4. Has(<<PublishImage, DeployRds, CollectCorrectness, PrepareScaling, RunTier,
            PlanTier, ApplyTier, ValidateTier, RunTier, ReportFlexibility>>)
  BY PlainSteps DEF StepsFacts, Plain
<1>5. Has(<<ArmDeployment, PublishAsyncImages, PlanRuntime, ApplyRuntime, StartMigration,
            FinishMigration, PlanServices, ApplyServices, AwaitServices>>)
  BY PlainSteps, ServicesFollowMigration DEF StepsFacts, Plain
<1>6. StepsFacts(<<>>)
  BY DEF StepsFacts
<1>7. \A steps, tears : Phase(steps, tears).steps = steps
  BY DEF Phase
<1> HIDE DEF Has
<1>8. Foundation.steps = <<>>
  BY <1>7 DEF Foundation
<1>9. Has(Deployment.steps)
  <2>1. Deployment.steps = <<ArmDeployment, PublishAsyncImages, PlanRuntime, ApplyRuntime, StartMigration,
            FinishMigration, PlanServices, ApplyServices, AwaitServices>>
    BY DEF Deployment, Phase
  <2>2. QED
    BY <2>1, <1>5
<1>10. Has(VerticalScaling.steps)
  <2>1. VerticalScaling.steps = <<PublishImage, DeployRds, CollectCorrectness, PrepareScaling, RunTier,
            PlanTier, ApplyTier, ValidateTier, RunTier, ReportFlexibility>>
    BY DEF VerticalScaling, Phase
  <2>2. QED
    BY <2>1, <1>4
<1>11. Has(Fixed.steps) /\ Has(Reset.steps) /\ Has(Integration.steps) /\ Has(Canary.steps)
  BY <1>1, <1>2, <1>7, PlainSteps DEF Fixed, Reset, Integration, Canary
<1>12. Has(Transition.steps) /\ Has(DiagnosticTransition.steps)
  BY <1>3, <1>7, PlainSteps DEF Transition, DiagnosticTransition
<1>13. Has(Elastic.steps)
  <2>1. Elastic.steps = <<PrepareElastic("worker_autoscaling_verified", "elastic_treatment_armed"),
           MeasureElastic("elastic_treatment_qualified", "elastic_treatment_rejected")>>
    BY DEF Elastic, Phase
  <2>2. QED
    BY <2>1, <1>2, PlainSteps
<1>14. Has(DiagnosticTreatment.steps)
  BY <1>2, <1>7, PlainSteps DEF DiagnosticTreatment
<1>15. /\ Has(Phase(<<PublishImage>>, "never").steps) /\ Has(Phase(<<DeployRds>>, "never").steps)
       /\ Has(Phase(<<CollectCorrectness>>, "never").steps) /\ Has(Phase(<<PrepareScaling>>, "never").steps)
       /\ Has(Phase(<<RunTier>>, "never").steps) /\ Has(Phase(<<ReportFlexibility>>, "never").steps)
       /\ Has(Phase(<<PlanTier, ApplyTier, ValidateTier>>, "never").steps)
  BY <1>1, <1>3, <1>7, PlainSteps
<1>16. p \in WorkingPhases => Has(p.steps)
  BY <1>9, <1>10, <1>11, <1>12, <1>13, <1>14, <1>15 DEF WorkingPhases
<1>17. QED
  BY <1>6, <1>8, <1>16 DEF Has, AllPhases

-----------------------------------------------------------------------------
(* The inductive invariant *)

\* The manifest has its fields, and the cloud what a session can build.
ShapeInv ==
  /\ manifest \in [status : {manifest.status}, tier : {manifest.tier}, pending : {manifest.pending},
                   done : {manifest.done}, summary : {manifest.summary}, owned : {manifest.owned}]
  /\ cloud \subseteq Kinds /\ managed \subseteq Kinds /\ migrated \in BOOLEAN

\* A program that runs is at one of its phases, and at a step where it works.
Position ==
  program # "none" =>
    /\ program \in DOMAIN Programs /\ phase \in 1 .. Len(Phases)
    /\ stage = "journal" => step = 1
    /\ stage \in {"work", "record"} => step \in 1 .. Len(CurrentPhase.steps)

\* Between the native inventory and the status nothing but telemetry appears.
AbsenceInv == task = "journal_verify" => cloud \subseteq {"telemetry"}

\* Once the destroy was begun nobody is on the way to another one.
TeardownInv ==
  program # "none" /\ begun =>
    /\ destroyTried
    /\ Owned \/ stage \in {"destroying", "verify", "verifying", "cleaned"}

\* Whatever lets a step build services stands for a migration that succeeded.
SchemaInv ==
  /\ manifest.status = MigratedStatus => migrated
  /\ "services" \in cloud => migrated
  /\ program # "none" =>
       /\ stage = "record" /\ CurrentStep.effect = "settle" => migrated
       /\ stage = "record" /\ CurrentStep.needs = {MigratedStatus} => migrated
       /\ stage \in {"work", "record"} /\ "services" \in CurrentStep.builds => migrated

\* What every step keeps.
Inv == ShapeInv /\ Position /\ AbsenceInv /\ TeardownInv /\ SchemaInv

\* The two action properties of a step.
VerifiedStep ==
  manifest'.status = "teardown_verified" /\ manifest.status # "teardown_verified"
    => cloud' \subseteq {"telemetry"}
TeardownStep ==
  program # "none" /\ task = "idle" /\ task' = "terraform_destroy" => ~begun

-----------------------------------------------------------------------------
(* The commands of a session *)

\* What every part of a command, an interrupt of one, and the cloud itself do to
\* what the invariant reads of the session.
CommandFacts ==
  /\ ShapeInv' /\ AbsenceInv' /\ VerifiedStep
  /\ manifest'.status = MigratedStatus => manifest.status = MigratedStatus
  /\ "services" \in cloud' => "services" \in cloud

\* No resource is outside the native inventory.
LEMMA InventoryIsComplete ==
  ASSUME cloud \subseteq Kinds, NativeInventory = {}
  PROVE  cloud = {}
<1>1. \A kind \in Kinds :
        CountedIn(NetworkCategories, kind) \cup CountedIn(ClusterCategories, kind)
          \cup CountedIn(ObservationCategories, kind)
          \cup CountedIn(StorageCategories, kind) # {}
  BY DEF Kinds, Layers, CountedIn, NetworkCategories, ClusterCategories, ObservationCategories
<1>2. \A kind \in cloud :
        CountedIn(NetworkCategories, kind) \cup CountedIn(ClusterCategories, kind)
          \cup CountedIn(ObservationCategories, kind)
          \cup CountedIn(StorageCategories, kind) \subseteq NativeInventory
  BY DEF NativeInventory
<1>3. QED
  BY <1>1, <1>2

\* Building and removing stay within what the session knows.
LEMMA BuildFacts ==
  ASSUME ShapeInv, NEW wanted \in SUBSET Layers,
         Build(wanted) \/ BuildFails(wanted) \/ BuildIsKilled(wanted)
  PROVE  cloud' \subseteq cloud \cup wanted /\ cloud' \subseteq Kinds /\ managed' \subseteq Kinds
  BY DEF Build, BuildFails, BuildIsKilled, ShapeInv, Kinds

\* The parts of a command keep what the invariant reads of the session.
LEMMA CommandStepFacts ==
  ASSUME Inv, CommandStep, UNCHANGED migrated
  PROVE  CommandFacts
<1> USE DEF Inv, ShapeInv, AbsenceInv, CommandFacts, VerifiedStep, Write, WriteStatus, Ends,
  Continues,
  KeepsCounts, KeepsCloud, KeepsFiles, cloudVars, manifestVars, MigratedStatus
<1>1. CASE JournalPlan
  BY <1>1 DEF JournalPlan, Planned, NoManifest
<1>2. CASE JournalApply
  BY <1>2 DEF JournalApply
<1>3. CASE TerraformDestroy
  BY <1>3 DEF TerraformDestroy, Remove
<1>4. CASE JournalDestroy
  BY <1>4 DEF JournalDestroy
<1>5. CASE CheckStackAbsence
  BY <1>5 DEF CheckStackAbsence
<1>6. CASE CheckTelemetry
  BY <1>6 DEF CheckTelemetry
<1>7. CASE TelemetryCheckFails
  BY <1>7 DEF TelemetryCheckFails
<1>8. CASE VerifyState
  BY <1>8 DEF VerifyState
<1>9. CASE VerifyNative
  BY <1>9, InventoryIsComplete DEF VerifyNative
<1>10. CASE JournalVerify
  BY <1>10 DEF JournalVerify
<1>11. QED
  BY <1>1, <1>2, <1>3, <1>4, <1>5, <1>6, <1>7, <1>8, <1>9, <1>10 DEF CommandStep

\* The calls of the commands keep it too.
LEMMA CallFacts ==
  ASSUME Inv, UNCHANGED migrated, PlanSession \/ ApplySession \/ InterruptApply \/ CallDestroy \/ CallVerify
  PROVE  CommandFacts
<1> USE DEF Inv, ShapeInv, AbsenceInv, CommandFacts, VerifiedStep, Ends, Continues, KeepsCounts,
  KeepsCloud,
  KeepsFiles, cloudVars, manifestVars
<1>0. {"foundation"} \in SUBSET Layers /\ "services" \notin {"foundation"}
  BY DEF Layers
<1>1. CASE PlanSession
  BY <1>1 DEF PlanSession
<1>2. CASE ApplySession
  BY <1>0, <1>2, BuildFacts DEF ApplySession
<1>3. CASE InterruptApply
  BY <1>0, <1>3, BuildFacts DEF InterruptApply
<1>4. CASE CallDestroy
  BY <1>4 DEF CallDestroy
<1>5. CASE CallVerify
  BY <1>5 DEF CallVerify
<1>6. QED
  BY <1>1, <1>2, <1>3, <1>4, <1>5

\* So do an interrupt of one, and late telemetry.
LEMMA DisturbanceFacts ==
  ASSUME Inv, UNCHANGED migrated, InterruptCommand \/ TelemetryArrives
  PROVE  CommandFacts
<1> USE DEF Inv, ShapeInv, AbsenceInv, CommandFacts, VerifiedStep, Ends, KeepsCounts,
  KeepsCloud, cloudVars, manifestVars
<1>1. CASE InterruptCommand
  <2>1. CASE manifest' \in {manifest, TornManifest} /\ UNCHANGED cloudVars
    BY <1>1, <2>1 DEF InterruptCommand, TornManifest, NoManifest, MigratedStatus
  <2>2. CASE task = "terraform_destroy"
    BY <1>1, <2>2 DEF InterruptCommand, Remove
  <2>3. QED
    BY <1>1, <2>1, <2>2 DEF InterruptCommand
<1>2. CASE TelemetryArrives
  BY <1>2 DEF TelemetryArrives, Kinds, commandVars
<1>3. QED
  BY <1>1, <1>2

-----------------------------------------------------------------------------
(* The controller *)

\* The next phase or the cleanup begins, or the program ends; the owner keeps
\* its memory.
Leaves ==
  \/ program' = "none"
  \/ /\ UNCHANGED <<program, destroyTried>>
     /\ phase' \in 1 .. Len(Phases)
     /\ stage' \notin {"work", "record"} /\ (stage' = "journal" => step' = 1)

\* A controller that fails, or is done with its steps or its phase, leaves like that.
LEMMA LeavingLeaves ==
  ASSUME Inv, program # "none",
         FailOutside \/ FailInside \/ LeavePhase \/ StepsDone
  PROVE  Leaves
<1>1. phase \in 1 .. Len(Phases) /\ Len(Phases) \in Nat
  BY ProgramsHavePhases DEF Inv, Position, Phases
<1>2. FailOutside => Leaves
  BY <1>1 DEF FailOutside, Leaves, Goto, Stay, KeepsTries, EndProgram
<1>3. FailInside => Leaves
  BY <1>1, <1>2 DEF FailInside, Leaves, Goto, Stay, KeepsTries, CleanupEntry
<1>4. LeavePhase => Leaves
  BY <1>1 DEF LeavePhase, Leaves, Goto, Stay, KeepsTries, KeepsFlags, EndProgram
<1>5. StepsDone => Leaves
  BY <1>1, <1>4 DEF StepsDone, Leaves, Goto, Stay, KeepsFlags, CleanupEntry
<1>6. QED
  BY <1>2, <1>3, <1>4, <1>5

\* Where a program has steps, they are as the table says.
LEMMA CurrentSteps ==
  ASSUME Inv, program # "none"
  PROVE  StepsFacts(CurrentPhase.steps) /\ (CurrentPhase # Foundation => CurrentPhase.steps # <<>>)
<1>1. CurrentPhase \in AllPhases
  BY ProgramsHavePhases DEF Inv, Position, Phases, CurrentPhase
<1>2. QED
  BY <1>1, PhasesHaveSteps DEF AllPhases

\* Leaving keeps the invariant, when the rest of the step does.
LEMMA LeavingKeeps ==
  ASSUME Inv, program # "none", Leaves, CommandFacts, UNCHANGED migrated,
         begun' => begun, Owned \/ ~begun'
  PROVE  Inv'
<1>1. Position'
  BY DEF Inv, Position, Leaves, Phases
<1>2. TeardownInv'
  BY DEF Inv, TeardownInv, Leaves, Owned
<1>3. SchemaInv'
  BY DEF Inv, SchemaInv, Leaves, CommandFacts
<1>4. QED
  BY <1>1, <1>2, <1>3 DEF Inv, CommandFacts

\* A step of the controller outside its phases' steps and outside the teardown.
LEMMA StayingKeeps ==
  ASSUME Inv, program # "none", CommandFacts, UNCHANGED <<migrated, program, phase, step, destroyTried>>,
         begun' => begun, Owned \/ ~begun' \/ stage' \in {"destroying", "verify", "verifying", "cleaned"},
         stage' \notin {"work", "record", "journal"} \/ stage' = stage
  PROVE  Inv'
<1>1. Position'
  BY DEF Inv, Position, Phases, CurrentPhase
<1>2. TeardownInv'
  BY DEF Inv, TeardownInv, Owned
<1>3. SchemaInv'
  BY DEF Inv, SchemaInv, CommandFacts, CurrentStep, CurrentPhase, Phases
<1>4. QED
  BY <1>1, <1>2, <1>3 DEF Inv, CommandFacts

\* A step that leaves the session alone, or only its manifest, which it writes back
\* with a status that is not a checkpoint of a step.
LEMMA QuietFacts ==
  ASSUME Inv, UNCHANGED <<cloud, managed, task, migrated>>,
         \/ UNCHANGED manifest
         \/ manifest' \in {Journalled, Selected, TornManifest}
  PROVE  CommandFacts
<1>1. Journalled \in [status : {Journalled.status}, tier : {Journalled.tier},
                      pending : {Journalled.pending}, done : {Journalled.done},
                      summary : {Journalled.summary}, owned : {Journalled.owned}]
      /\ Journalled.status = manifest.status
  BY DEF Inv, ShapeInv, Journalled
<1>2. Selected \in [status : {Selected.status}, tier : {Selected.tier},
                    pending : {Selected.pending}, done : {Selected.done},
                    summary : {Selected.summary}, owned : {Selected.owned}]
      /\ Selected.status \in {manifest.status, "vertical_scaling_cleanup_pending"}
  BY DEF Inv, ShapeInv, Selected
<1>3. TornManifest \in [status : {TornManifest.status}, tier : {TornManifest.tier},
                        pending : {TornManifest.pending}, done : {TornManifest.done},
                        summary : {TornManifest.summary}, owned : {TornManifest.owned}]
      /\ TornManifest.status = "torn"
  BY DEF TornManifest, NoManifest
<1>4. QED
  BY <1>1, <1>2, <1>3 DEF Inv, ShapeInv, AbsenceInv, CommandFacts, VerifiedStep, MigratedStatus

\* What is shown of every step.
Good == Inv' /\ VerifiedStep /\ TeardownStep

\* The controller between two steps.
LEMMA BetweenStepsKeeps ==
  ASSUME Inv, JournalPhase \/ CallApply \/ ApplyReturns
  PROVE  Good
<1>0. program # "none" /\ task = "idle"
  BY DEF JournalPhase, CallApply, ApplyReturns, Runs
<1>1. CASE JournalPhase
  <2>1. CommandFacts /\ UNCHANGED <<task, begun>>
    BY <1>1, QuietFacts DEF JournalPhase, Write, cloudVars, commandVars, factVars
  <2>2. CASE Loads
    <3>1. CurrentPhase # Foundation => Len(CurrentPhase.steps) \in Nat /\ Len(CurrentPhase.steps) > 0
      BY <1>0, CurrentSteps DEF StepsFacts
    <3>2. Position'
      BY <1>0, <1>1, <2>2, <3>1 DEF JournalPhase, Goto, Stay, Inv, Position, Phases,
        CurrentPhase, Runs
    <3>3. TeardownInv'
      BY <1>0, <1>1, <2>1, <2>2 DEF JournalPhase, Goto, Stay, KeepsFlags, Inv, TeardownInv,
        Owned, Runs
    <3>4. SchemaInv'
      <4>1. StepsFacts(CurrentPhase.steps)
        BY <1>0, CurrentSteps
      <4>2. stage' = "work" => step' = 1 /\ "services" \notin CurrentPhase.steps[1].builds
        BY <1>0, <1>1, <2>2, <3>1, <4>1 DEF JournalPhase, Goto, Stay, Inv, Position, Runs,
          StepsFacts
      <4>3. QED
        BY <1>0, <1>1, <2>1, <2>2, <4>2
           DEF JournalPhase, Goto, Stay, Inv, SchemaInv, CommandFacts, CurrentStep,
             CurrentPhase, Phases, factVars
    <3>5. QED
      BY <1>0, <2>1, <3>2, <3>3, <3>4 DEF Good, Inv, TeardownStep, CommandFacts
  <2>3. CASE ~Loads
    BY <1>0, <1>1, <2>1, <2>3, LeavingLeaves, LeavingKeeps
       DEF JournalPhase, Good, TeardownStep, CommandFacts, Runs, Inv, TeardownInv, factVars
  <2>4. QED
    BY <2>2, <2>3
<1>2. CASE CallApply
  <2>1. CommandFacts
    BY <1>2, CallFacts DEF CallApply, factVars
  <2>2. task' # "terraform_destroy"
    BY <1>0, <1>2 DEF CallApply, ApplySession, Ends, Continues
  <2>3. QED
    BY <1>0, <1>2, <2>1, <2>2, StayingKeeps
       DEF CallApply, Goto, Stay, KeepsFlags, factVars, Runs, Good, TeardownStep, CommandFacts,
         Inv, TeardownInv
<1>3. CASE ApplyReturns
  <2>1. CommandFacts /\ UNCHANGED <<task, begun, migrated>>
    BY <1>3, QuietFacts DEF ApplyReturns, sessionVars, manifestVars, cloudVars, commandVars,
      factVars
  <2>2. Leaves
    BY <1>0, <1>3, LeavingLeaves DEF ApplyReturns
  <2>3. QED
    BY <1>0, <1>3, <2>1, <2>2, LeavingKeeps
       DEF ApplyReturns, Runs, Good, TeardownStep, CommandFacts, Inv, TeardownInv
<1>4. QED
  BY <1>1, <1>2, <1>3

\* The controller in its teardown: it destroys once, and verifies behind that.
LEMMA TeardownKeeps ==
  ASSUME Inv, \/ StopMigrationTasks \/ SessionMatchingManifest \/ Destroy \/ DestroyReturns
              \/ Verify \/ VerifyReturns \/ AfterCleanup \/ JournalEnd
  PROVE  Good
<1>0. program # "none" /\ task = "idle"
  BY DEF StopMigrationTasks, SessionMatchingManifest, Destroy, DestroyReturns, Verify,
    VerifyReturns,
    AfterCleanup, JournalEnd, Runs
<1> USE DEF Goto, Stay, KeepsFlags, KeepsTries, factVars, boundVars, Runs, Good, TeardownStep
<1>1. CASE StopMigrationTasks
  <2>1. CommandFacts /\ UNCHANGED task
    BY <1>1 DEF StopMigrationTasks, Inv, ShapeInv, AbsenceInv, CommandFacts, VerifiedStep,
      manifestVars, commandVars
  <2>2. QED
    BY <1>0, <1>1, <2>1, StayingKeeps DEF StopMigrationTasks, CommandFacts, Inv, TeardownInv
<1>2. CASE SessionMatchingManifest
  <2>1. CommandFacts /\ UNCHANGED task
    BY <1>2, QuietFacts DEF SessionMatchingManifest, Write, cloudVars, commandVars
  <2>2. QED
    BY <1>0, <1>2, <2>1, StayingKeeps DEF SessionMatchingManifest, CommandFacts, Inv,
      TeardownInv
<1>3. CASE Destroy
  <2>1. CASE Owned /\ destroyTried
    <3>1. CommandFacts /\ UNCHANGED task
      BY <1>3, <2>1, QuietFacts DEF Destroy, sessionVars, manifestVars, cloudVars, commandVars
    <3>2. QED
      BY <1>0, <1>3, <2>1, <3>1, StayingKeeps DEF Destroy, CommandFacts
  <2>2. CASE ~(Owned /\ destroyTried)
    <3>1. CommandFacts
      BY <1>3, <2>2, CallFacts DEF Destroy
    <3>2. ~begun
      BY <1>0, <1>3, <2>2 DEF Destroy, Inv, TeardownInv
    <3>3. Position'
      BY <1>0, <1>3, <2>2 DEF Destroy, Inv, Position, Phases, CurrentPhase
    <3>4. TeardownInv'
      BY <1>0, <1>3, <2>2 DEF Destroy, TeardownInv
    <3>5. SchemaInv'
      BY <1>0, <1>3, <2>2, <3>1 DEF Destroy, Inv, SchemaInv, CommandFacts
    <3>6. QED
      BY <3>1, <3>2, <3>3, <3>4, <3>5 DEF Inv, CommandFacts
  <2>3. QED
    BY <2>1, <2>2
<1>4. CASE DestroyReturns
  <2>1. CommandFacts /\ UNCHANGED task
    BY <1>4, QuietFacts DEF DestroyReturns, sessionVars, manifestVars, cloudVars, commandVars
  <2>2. QED
    BY <1>0, <1>4, <2>1, StayingKeeps DEF DestroyReturns, CommandFacts
<1>5. CASE Verify
  <2>1. CommandFacts /\ task' # "terraform_destroy"
    BY <1>0, <1>5, QuietFacts, CallFacts
       DEF Verify, sessionVars, manifestVars, cloudVars, commandVars, CallVerify, Ends,
         Continues
  <2>2. QED
    BY <1>0, <1>5, <2>1, StayingKeeps DEF Verify, CommandFacts
<1>6. CASE VerifyReturns
  <2>1. CommandFacts /\ UNCHANGED task
    BY <1>6, QuietFacts DEF VerifyReturns, sessionVars, manifestVars, cloudVars, commandVars
  <2>2. QED
    BY <1>0, <1>6, <2>1, StayingKeeps DEF VerifyReturns, CommandFacts
<1>7. CASE AfterCleanup
  <2>1. CommandFacts /\ UNCHANGED task
    BY <1>7, QuietFacts DEF AfterCleanup, sessionVars, manifestVars, cloudVars, commandVars
  <2>2. CASE Owned /\ outer
    BY <1>0, <1>7, <2>1, <2>2, StayingKeeps DEF AfterCleanup, CommandFacts
  <2>3. CASE ~(Owned /\ outer)
    <3>1. Leaves /\ (Owned \/ program' = "none")
      BY <1>0, <1>7, <2>3, LeavingLeaves DEF AfterCleanup, EndProgram, Leaves
    <3>2. CASE Owned
      BY <1>0, <1>7, <2>1, <3>1, <3>2, LeavingKeeps DEF AfterCleanup, CommandFacts
    <3>3. CASE program' = "none"
      BY <1>7, <2>1, <3>3 DEF AfterCleanup, CommandFacts, Inv, Position, TeardownInv, SchemaInv
    <3>4. QED
      BY <3>1, <3>2, <3>3
  <2>4. QED
    BY <2>2, <2>3
<1>8. CASE JournalEnd
  <2>1. CommandFacts /\ UNCHANGED task
    BY <1>8, QuietFacts DEF JournalEnd, sessionVars, manifestVars, cloudVars, commandVars
  <2>2. program' = "none" /\ UNCHANGED migrated
    BY <1>8 DEF JournalEnd, EndProgram
  <2>3. QED
    BY <2>1, <2>2 DEF CommandFacts, Inv, Position, TeardownInv, SchemaInv
<1>9. QED
  BY <1>1, <1>2, <1>3, <1>4, <1>5, <1>6, <1>7, <1>8

-----------------------------------------------------------------------------
(* The steps of the programs *)

\* What a step does to the cloud, whether it succeeds, fails or is killed.
EffectFacts(s) ==
  /\ cloud' \subseteq Kinds /\ managed' \subseteq Kinds
  /\ "services" \in cloud' => "services" \in cloud \/ "services" \in s.builds
  /\ migrated' \in BOOLEAN /\ (migrated => migrated')

\* What a step may do to the stack, by the effect that it has.
LEMMA StepEffects ==
  ASSUME Inv, NEW s, StepFacts(s), Succeeds(s) \/ Stops(s, FALSE) \/ Stops(s, TRUE)
  PROVE  EffectFacts(s) /\ (Succeeds(s) /\ s.effect = "settle" => migrated')
<1>0. s.builds \in SUBSET Layers
  BY DEF StepFacts
<1>1. ASSUME Succeeds(s)
      PROVE  EffectFacts(s) /\ (s.effect = "settle" => migrated')
  BY <1>0, <1>1, BuildFacts DEF Succeeds, EffectFacts, Inv, ShapeInv, Unbuilt, KeepsRun, Kinds
<1>2. ASSUME NEW killed \in BOOLEAN, Stops(s, killed)
      PROVE  EffectFacts(s)
  <2>1. CASE s.effect = "build"
    <3>1. BuildFails(s.builds) \/ BuildIsKilled(s.builds)
      BY <1>2, <2>1 DEF Stops
    <3>2. UNCHANGED migrated
      BY <1>2, <2>1 DEF Stops
    <3>3. QED
      BY <1>0, <2>1, <3>1, <3>2, BuildFacts DEF EffectFacts, Inv, ShapeInv, Kinds
  <2>2. CASE s.effect # "build"
    BY <1>2, <2>2 DEF Stops, EffectFacts, Inv, ShapeInv, Unbuilt, KeepsRun, Kinds
  <2>3. QED
    BY <2>1, <2>2
<1>3. QED
  BY <1>1, <1>2

\* The step that a program is at.
LEMMA CurrentStepFacts ==
  ASSUME Inv, program # "none", stage \in {"work", "record"}
  PROVE  StepFacts(CurrentStep)
  BY CurrentSteps DEF Inv, Position, StepsFacts, CurrentStep

\* A step that ends its phase keeps the invariant.
LEMMA StepLeavingKeeps ==
  ASSUME Inv, program # "none", stage = "work", task = "idle", EffectFacts(CurrentStep), Leaves,
         UNCHANGED <<manifest, task, begun>>
  PROVE  Good
<1>1. "services" \in cloud' => migrated'
  BY DEF Inv, SchemaInv, EffectFacts
<1>2. ShapeInv' /\ AbsenceInv'
  BY DEF Inv, ShapeInv, AbsenceInv, EffectFacts
<1>3. Position'
  BY DEF Inv, Position, Leaves, Phases
<1>4. TeardownInv'
  BY DEF Inv, TeardownInv, Leaves, Owned
<1>5. SchemaInv'
  BY <1>1 DEF Inv, SchemaInv, Leaves, EffectFacts
<1>6. QED
  BY <1>2, <1>3, <1>4, <1>5 DEF Good, Inv, VerifiedStep, TeardownStep

\* The work of a step.
LEMMA DoStepKeeps ==
  ASSUME Inv, DoStep
  PROVE  Good
<1> DEFINE s == CurrentStep
<1>0. program # "none" /\ task = "idle" /\ stage = "work" /\ StepFacts(s)
      /\ UNCHANGED <<manifest, task, begun>>
  BY CurrentStepFacts DEF DoStep, Runs, commandVars
<1>1. CASE Admits(s) /\ Succeeds(s) /\ Goto("record") /\ KeepsFlags
  <2>1. EffectFacts(s) /\ (s.effect = "settle" => migrated')
    BY <1>0, <1>1, StepEffects
  <2>2. ShapeInv' /\ AbsenceInv'
    BY <1>0, <2>1 DEF Inv, ShapeInv, AbsenceInv, EffectFacts
  <2>3. Position'
    BY <1>0, <1>1 DEF Goto, Stay, Inv, Position, Phases, CurrentPhase
  <2>4. TeardownInv'
    BY <1>0, <1>1 DEF Goto, Stay, KeepsFlags, Inv, TeardownInv, Owned
  <2>5. s.needs = {MigratedStatus} => migrated
    BY <1>1 DEF Admits, Inv, SchemaInv
  <2>6. SchemaInv'
    BY <1>0, <1>1, <2>1, <2>5 DEF Goto, Stay, Inv, SchemaInv, EffectFacts, CurrentStep,
      CurrentPhase, Phases
  <2>7. QED
    BY <1>0, <2>2, <2>3, <2>4, <2>6 DEF Good, Inv, VerifiedStep, TeardownStep
<1>2. CASE Stops(s, FALSE) /\ FailInside
  BY <1>0, <1>2, StepEffects, LeavingLeaves, StepLeavingKeeps
<1>3. CASE Unbuilt /\ KeepsRun /\ (FailOutside \/ FailInside)
  <2>1. EffectFacts(s)
    BY <1>3 DEF Unbuilt, KeepsRun, EffectFacts, Inv, ShapeInv
  <2>2. QED
    BY <1>0, <1>3, <2>1, LeavingLeaves, StepLeavingKeeps
<1>4. QED
  BY <1>1, <1>2, <1>3 DEF DoStep

\* The manifest that a step writes.
LEMMA RecordedFacts ==
  ASSUME Inv, NEW s, NEW status
  PROVE  /\ Recorded(s, status).status = status
         /\ Recorded(s, status) \in
              [status : {status}, tier : {Recorded(s, status).tier},
               pending : {Recorded(s, status).pending}, done : {Recorded(s, status).done},
               summary : {Recorded(s, status).summary}, owned : {Recorded(s, status).owned}]
  BY DEF Inv, ShapeInv, Recorded

\* The write of a step's checkpoint.
LEMMA RecordStepKeeps ==
  ASSUME Inv, RecordStep
  PROVE  Good
<1> DEFINE s == CurrentStep
<1>0. program # "none" /\ task = "idle" /\ stage = "record" /\ StepFacts(s)
      /\ UNCHANGED <<cloud, managed, task, begun, migrated>>
  BY CurrentStepFacts DEF RecordStep, Runs, commandVars, cloudVars, factVars
<1>1. s.effect = "settle" => migrated
  BY <1>0 DEF Inv, SchemaInv
<1>2. PICK status \in {s.writes, s.rejects} :
        /\ manifest' = Recorded(s, status)
        /\ (status = s.writes /\ NextStep) \/ (status = s.rejects /\ FailInside)
  BY DEF RecordStep, Write
<1>3. status # "teardown_verified" /\ (status = MigratedStatus => migrated)
  BY <1>0, <1>1, <1>2 DEF StepFacts
<1>4. ShapeInv' /\ AbsenceInv' /\ VerifiedStep /\ TeardownStep /\ manifest'.status = status
  BY <1>0, <1>2, <1>3, RecordedFacts DEF Inv, ShapeInv, AbsenceInv, VerifiedStep, TeardownStep
<1>5. CASE Leaves
  <2>1. Position'
    BY <1>0, <1>5 DEF Inv, Position, Leaves, Phases
  <2>2. TeardownInv'
    BY <1>0, <1>5 DEF Inv, TeardownInv, Leaves, Owned
  <2>3. SchemaInv'
    BY <1>0, <1>3, <1>4, <1>5 DEF Inv, SchemaInv, Leaves
  <2>4. QED
    BY <1>4, <2>1, <2>2, <2>3 DEF Good, Inv
<1>6. CASE NextStep /\ step < Len(CurrentPhase.steps)
  <2>1. UNCHANGED <<program, phase, destroyTried>> /\ step' = step + 1 /\ stage' = "work"
    BY <1>6 DEF NextStep, KeepsFlags
  <2>2. StepsFacts(CurrentPhase.steps) /\ step \in 1 .. Len(CurrentPhase.steps)
    BY <1>0, CurrentSteps DEF Inv, Position
  <2>3. step' \in 1 .. Len(CurrentPhase.steps)
    BY <1>6, <2>1, <2>2 DEF StepsFacts
  <2>4. Position'
    BY <1>0, <2>1, <2>3 DEF Inv, Position, Phases, CurrentPhase
  <2>5. TeardownInv'
    BY <1>0, <2>1 DEF Inv, TeardownInv, Owned
  <2>6. "services" \in CurrentPhase.steps[step'].builds => s.needs = {MigratedStatus}
    BY <2>1, <2>2, <2>3 DEF StepsFacts, CurrentStep
  <2>7. SchemaInv'
    BY <1>0, <1>3, <1>4, <2>1, <2>6 DEF Inv, SchemaInv, CurrentStep, CurrentPhase, Phases
  <2>8. QED
    BY <1>4, <2>4, <2>5, <2>7 DEF Good, Inv
<1>7. QED
  BY <1>0, <1>2, <1>5, <1>6, LeavingLeaves DEF NextStep

-----------------------------------------------------------------------------
(* Interrupts, the operator and the cloud *)

\* A write that is cut leaves the old manifest, the new one or none to read.
LEMMA InterruptedWriteFacts ==
  ASSUME Inv, NEW record, record \in {Journalled, Selected, manifest}, WriteIsInterrupted(record),
         UNCHANGED <<cloud, managed, task, migrated>>
  PROVE  CommandFacts
  BY QuietFacts DEF WriteIsInterrupted

\* An interrupt, wherever the program is.
LEMMA InterruptKeeps ==
  ASSUME Inv, Interrupt
  PROVE  Good
<1> USE DEF Stay, KeepsFlags
<1>0. program # "none"
  BY DEF Interrupt
<1>1. CASE task # "idle" /\ InterruptCommand /\ Stay /\ KeepsFlags /\ UNCHANGED <<stage, factVars>>
  <2>1. CommandFacts
    BY <1>1, DisturbanceFacts DEF factVars
  <2>2. QED
    BY <1>0, <1>1, <2>1, StayingKeeps
       DEF factVars, Good, TeardownStep, CommandFacts, Inv, TeardownInv
<1>2. CASE Runs("journal") /\ WriteIsInterrupted(Journalled) /\ FailOutside
           /\ UNCHANGED <<cloudVars, commandVars, factVars>>
  <2>1. CommandFacts
    BY <1>2, InterruptedWriteFacts DEF cloudVars, commandVars, factVars
  <2>2. QED
    BY <1>0, <1>2, <2>1, LeavingLeaves, LeavingKeeps
       DEF Good, TeardownStep, CommandFacts, Inv, TeardownInv, Runs, commandVars, factVars
<1>3. CASE Runs("apply") /\ InterruptApply /\ FailOutside /\ UNCHANGED factVars
  <2>1. CommandFacts /\ task' # "terraform_destroy"
    BY <1>3, CallFacts DEF factVars, InterruptApply, Ends
  <2>2. QED
    BY <1>0, <1>3, <2>1, LeavingLeaves, LeavingKeeps
       DEF Good, TeardownStep, CommandFacts, Inv, TeardownInv, Runs, factVars
<1>4. CASE Runs("work") /\ Stops(CurrentStep, TRUE) /\ FailInside
           /\ UNCHANGED <<manifest, commandVars, begun>>
  <2>1. EffectFacts(CurrentStep)
    BY <1>0, <1>4, StepEffects, CurrentStepFacts DEF Runs
  <2>2. QED
    BY <1>0, <1>4, <2>1, LeavingLeaves, StepLeavingKeeps DEF Runs, commandVars
<1>5. CASE Runs("record") /\ WriteIsInterrupted(Recorded(CurrentStep, CurrentStep.writes))
           /\ FailInside /\ UNCHANGED <<cloudVars, commandVars, factVars>>
  <2>1. CASE manifest' = Recorded(CurrentStep, CurrentStep.writes)
    <3>1. StepFacts(CurrentStep) /\ (CurrentStep.effect = "settle" => migrated)
      BY <1>0, <1>5, CurrentStepFacts DEF Runs, Inv, SchemaInv
    <3>2. ShapeInv' /\ AbsenceInv' /\ VerifiedStep /\ TeardownStep
          /\ manifest'.status = CurrentStep.writes
      BY <1>5, <2>1, <3>1, RecordedFacts
         DEF StepFacts, Inv, ShapeInv, AbsenceInv, VerifiedStep, TeardownStep, cloudVars,
           commandVars, factVars
    <3>3. Leaves
      BY <1>0, <1>5, LeavingLeaves
    <3>4. Position'
      BY <3>3 DEF Inv, Position, Leaves, Phases
    <3>5. TeardownInv'
      BY <1>0, <1>5, <3>3 DEF Inv, TeardownInv, Leaves, Owned, Runs, factVars
    <3>6. SchemaInv'
      BY <1>5, <3>1, <3>2, <3>3 DEF Inv, SchemaInv, Leaves, StepFacts, cloudVars, factVars
    <3>7. QED
      BY <3>2, <3>4, <3>5, <3>6 DEF Good, Inv
  <2>2. CASE manifest' \in {manifest, TornManifest}
    <3>1. CommandFacts
      BY <1>5, <2>2, QuietFacts DEF cloudVars, commandVars, factVars
    <3>2. QED
      BY <1>0, <1>5, <3>1, LeavingLeaves, LeavingKeeps
         DEF Good, TeardownStep, CommandFacts, Inv, TeardownInv, Runs, commandVars, factVars
  <2>3. QED
    BY <1>5, <2>1, <2>2 DEF WriteIsInterrupted
<1>6. CASE Runs("stop") /\ cloud' \in {cloud, cloud \ {"migration_task"}} /\ Goto("destroy") /\ KeepsFlags
           /\ UNCHANGED <<manifestVars, managed, commandVars, factVars>>
  <2>1. CommandFacts
    BY <1>6 DEF Inv, ShapeInv, AbsenceInv, CommandFacts, VerifiedStep, manifestVars,
      commandVars, factVars
  <2>2. QED
    BY <1>0, <1>6, <2>1, StayingKeeps
       DEF Goto, Runs, factVars, commandVars, Good, TeardownStep, CommandFacts, Inv, TeardownInv
<1>7. CASE \E record \in {Selected, manifest} : WriteIsInterrupted(record) /\ program' = "none"
             /\ UNCHANGED <<cloudVars, commandVars, factVars>>
  <2>1. CommandFacts
    BY <1>7, InterruptedWriteFacts DEF cloudVars, commandVars, factVars
  <2>2. QED
    BY <1>7, <2>1 DEF Good, TeardownStep, CommandFacts, Inv, Position, TeardownInv, SchemaInv,
      commandVars, factVars
<1>8. QED
  BY <1>1, <1>2, <1>3, <1>4, <1>5, <1>6, <1>7 DEF Interrupt, EndProgram

\* Outside a program no step and no teardown is relied upon.
LEMMA OperatorKeeps ==
  ASSUME Inv, ManualCommand \/ InterruptManual \/ NameTier
  PROVE  Good
<1>1. program = "none" /\ program' = "none" /\ UNCHANGED migrated
  BY DEF ManualCommand, InterruptManual, NameTier, controlVars, factVars
<1>2. CommandFacts
  <2>1. CASE ManualCommand
    BY <1>1, <2>1, CallFacts DEF ManualCommand
  <2>2. CASE InterruptManual
    BY <1>1, <2>2, DisturbanceFacts DEF InterruptManual
  <2>3. CASE NameTier
    BY <1>1, <2>3, QuietFacts DEF NameTier, cloudVars, commandVars
  <2>4. QED
    BY <2>1, <2>2, <2>3
<1>3. QED
  BY <1>1, <1>2 DEF Good, TeardownStep, CommandFacts, Inv, Position, TeardownInv, SchemaInv

\* The parts of the commands, and the cloud, leave the program where it is.
LEMMA BesideKeeps ==
  ASSUME Inv, Command \/ Cloud
  PROVE  Good
<1>1. UNCHANGED <<program, phase, step, stage, destroyTried, begun, migrated>>
  BY DEF Command, Cloud, controlVars, factVars
<1>2. CommandFacts
  <2>1. CASE Command
    BY <1>1, <2>1, CommandStepFacts DEF Command
  <2>2. CASE "migration_task" \in cloud /\ cloud' = cloud \ {"migration_task"}
             /\ UNCHANGED <<manifestVars, managed, commandVars>>
    BY <1>1, <2>2 DEF Inv, ShapeInv, AbsenceInv, CommandFacts, VerifiedStep, manifestVars,
      commandVars
  <2>3. CASE TelemetryArrives
    BY <1>1, <2>3, DisturbanceFacts
  <2>4. QED
    BY <2>1, <2>2, <2>3 DEF Cloud
<1>3. task = "idle" => task' # "terraform_destroy"
  <2>1. CASE Command
    BY <2>1 DEF Command, CommandStep, JournalPlan, JournalApply, TerraformDestroy,
      JournalDestroy,
      CheckStackAbsence, CheckTelemetry, TelemetryCheckFails, VerifyState, VerifyNative, JournalVerify
  <2>2. CASE Cloud
    BY <2>2 DEF Cloud, TelemetryArrives, commandVars
  <2>3. QED
    BY <2>1, <2>2
<1>4. Position' /\ TeardownInv'
  BY <1>1 DEF Inv, Position, TeardownInv, Phases, CurrentPhase, Owned
<1>5. SchemaInv'
  BY <1>1, <1>2 DEF Inv, SchemaInv, CommandFacts, CurrentStep, CurrentPhase, Phases
<1>6. QED
  BY <1>2, <1>3, <1>4, <1>5 DEF Good, TeardownStep, CommandFacts, Inv

\* The start of a program at its first phase.
LEMMA StartProgramKeeps ==
  ASSUME Inv, NEW name \in DOMAIN Programs, StartProgram(name)
  PROVE  Good
<1>1. program' = name /\ phase' = 1 /\ step' = 1 /\ stage' \in {"journal", "work"} /\ begun' = FALSE
      /\ (stage' = "work" => ~Programs[name].owned)
  BY DEF StartProgram
<1>2. UNCHANGED <<manifest, cloud, managed, task, migrated>>
  BY DEF StartProgram, sessionVars, manifestVars, cloudVars, commandVars
<1>3. CommandFacts
  BY <1>2, QuietFacts
<1>4. name # "none"
  BY DEF Programs
<1>5. Programs[name].phases[1] \in AllPhases /\ 1 \in 1 .. Len(Programs[name].phases)
  BY ProgramsHavePhases
<1>6. ~Programs[name].owned =>
        /\ Len(Programs[name].phases[1].steps) \in Nat
        /\ Len(Programs[name].phases[1].steps) > 0
        /\ "services" \notin Programs[name].phases[1].steps[1].builds
  <2> DEFINE steps == Programs[name].phases[1].steps
  <2>1. StepsFacts(steps) /\ (~Programs[name].owned => steps # <<>>)
    BY <1>5, ProgramsHavePhases, PhasesHaveSteps
  <2> HIDE DEF steps
  <2>2. ~Programs[name].owned => Len(steps) \in Nat /\ Len(steps) > 0
    BY <2>1 DEF StepsFacts
  <2>3. ~Programs[name].owned => "services" \notin steps[1].builds
    BY <2>1, <2>2 DEF StepsFacts
  <2>4. QED
    BY <2>2, <2>3 DEF steps
<1>7. Position'
  BY <1>1, <1>4, <1>5, <1>6 DEF Position, CurrentPhase, Phases
<1>8. SchemaInv'
  BY <1>1, <1>2, <1>3, <1>6 DEF Inv, SchemaInv, CommandFacts, CurrentStep, CurrentPhase, Phases
<1>9. QED
  BY <1>1, <1>2, <1>3, <1>7, <1>8 DEF Good, TeardownStep, CommandFacts, Inv, TeardownInv

-----------------------------------------------------------------------------
(* The theorems *)

\* Every step keeps the invariant, and is as the action properties say.
LEMMA NextKeeps ==
  ASSUME Inv, Next
  PROVE  Good
  BY BetweenStepsKeeps, TeardownKeeps, DoStepKeeps, RecordStepKeeps, InterruptKeeps,
    OperatorKeeps,
    BesideKeeps, StartProgramKeeps DEF Next, Controller

\* A stutter changes nothing.
LEMMA StutterKeeps ==
  ASSUME Inv, UNCHANGED vars
  PROVE  Good
  BY DEF Inv, ShapeInv, Position, AbsenceInv, TeardownInv, SchemaInv, Good, VerifiedStep,
    TeardownStep, vars, sessionVars, manifestVars, cloudVars, commandVars, controlVars, factVars,
    CurrentStep, CurrentPhase, Phases, Owned

\* The sessions keep the invariant, whatever is commanded, fails or is interrupted.
THEOREM SessionInvariant == Spec => []Inv
<1>1. ASSUME Init PROVE Inv
  <2>1. /\ manifest = NoManifest /\ cloud = {} /\ managed = {} /\ task = "idle"
        /\ program = "none" /\ migrated = FALSE
    BY <1>1 DEF Init, InitSession
  <2>2. ShapeInv
    BY <2>1 DEF ShapeInv, NoManifest
  <2>3. SchemaInv
    BY <2>1 DEF SchemaInv, NoManifest, MigratedStatus
  <2>4. QED
    BY <2>1, <2>2, <2>3 DEF Inv, Position, AbsenceInv, TeardownInv
<1>2. Inv /\ [Next]_vars => Inv'
  BY NextKeeps, StutterKeeps DEF Good
<1>3. QED
  BY <1>1, <1>2, PTL DEF Spec

\* No service of an asynchronous deployment exists before a migration task has ended
\* with exit code 0 (run_async_deployment).
THEOREM ServicesFollowTheMigration == Spec => []ServicesOnMigratedSchema
<1>1. Inv => ServicesOnMigratedSchema
  BY DEF Inv, SchemaInv, ServicesOnMigratedSchema
<1>2. QED
  BY <1>1, SessionInvariant, PTL

\* verify_destroyed marks a session verified only when nothing but late telemetry
\* is left.
THEOREM VerificationIsOnAbsence == Spec => VerifiedOnAbsence
<1>1. Inv /\ [Next]_vars => [VerifiedStep]_vars
  BY NextKeeps, StutterKeeps DEF Good
<1>2. QED
  BY <1>1, SessionInvariant, PTL DEF Spec, VerifiedOnAbsence, VerifiedStep

\* A program begins one destroy, between the cleanup of its phase and its owner's.
THEOREM TeardownIsSingle == Spec => OneTeardown
<1>1. Inv /\ [Next]_vars => [TeardownStep]_vars
  BY NextKeeps, StutterKeeps DEF Good
<1>2. QED
  BY <1>1, SessionInvariant, PTL DEF Spec, OneTeardown, TeardownStep
=============================================================================
