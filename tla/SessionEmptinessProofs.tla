------------------------ MODULE SessionEmptinessProofs ------------------------
(***************************************************************************)
(* The proof that a success after a teardown, and the comparison report,   *)
(* stand for an empty account that stays empty (SessionWorkflow).          *)
(***************************************************************************)
EXTENDS SessionSafetyProofs

-----------------------------------------------------------------------------
(* The stages of a cleanup *)

CleanupStages == {"stop", "select"} \cup TeardownStages

\* No cleanup has begun, and nothing went wrong.
NoFlags == ~outer /\ ~failed /\ ~troubled /\ ~destroyTried /\ ~verifyTried

\* The flags of the cleanup are set in their order, and the owner goes back to its phases
\* from none.
StageInv ==
  /\ ~Running => NoFlags
  /\ Running =>
       /\ stage \notin CleanupStages => NoFlags
       /\ stage \in {"stop", "select"} => ~troubled /\ ~destroyTried /\ ~verifyTried
       /\ verifyTried => destroyTried /\ stage # "destroying"
       /\ stage = "destroy" /\ destroyTried => verifyTried /\ Owned
       /\ stage \in {"verifying", "cleaned", "journal_end"} => verifyTried
       /\ stage = "journal_end" => Owned
       /\ Owned /\ stage \in CleanupStages => failed \/ outer \/ phase = Len(Phases)

\* A program leaves its work with its flags unset, but for the failure and the owner's turn.
LeavesClean ==
  \/ /\ program' = "none"
     /\ ~outer' /\ ~failed' /\ ~troubled' /\ ~destroyTried' /\ ~verifyTried'
  \/ /\ UNCHANGED <<program, troubled, destroyTried, verifyTried>>
     /\ \/ stage' = "journal" /\ UNCHANGED <<outer, failed>>
        \/ /\ stage' \in {"stop", "select", "destroy"} /\ UNCHANGED phase
           /\ Owned => failed' \/ outer' \/ phase = Len(Phases)

\* An owner's phases that always clean up are its last.
LEMMA OwnedCleansLast ==
  ASSUME Inv, Running, Owned, CurrentPhase.tears = "always"
  PROVE  phase = Len(Phases)
<1>1. program \in DOMAIN Programs /\ phase \in 1 .. Len(Programs[program].phases)
  BY DEF Running, Inv, Position, Phases
<1>2. Programs[program].owned => \A i \in 1 .. Len(Programs[program].phases) :
        Programs[program].phases[i].tears = "always" => i = Len(Programs[program].phases)
  BY <1>1, ProgramTable DEF ProgramFacts
<1> QED BY <1>1, <1>2 DEF Owned, CurrentPhase, Phases

\* Failing or done, it leaves like that.
LEMMA LeavingIsClean ==
  ASSUME Inv, Running, FailOutside \/ FailInside \/ LeavePhase \/ StepsDone
  PROVE  LeavesClean
<1> USE DEF Goto, Stay, KeepsTries, KeepsFlags, EndProgram, LeavesClean
<1>0. phase \in 1 .. Len(Phases) /\ Len(Phases) \in Nat
  BY ProgramsHavePhases DEF Inv, Position, Phases, Running
<1>1. FailOutside => LeavesClean
  BY DEF FailOutside
<1>2. FailInside => LeavesClean
  BY <1>1 DEF FailInside, CleanupEntry
<1>3. LeavePhase => LeavesClean
  BY <1>0 DEF LeavePhase
<1>4. StepsDone => LeavesClean
  BY <1>3, OwnedCleansLast DEF StepsDone, CleanupEntry
<1> QED BY <1>1, <1>2, <1>3, <1>4

\* Which keeps the order of the flags.
LEMMA LeavingKeepsStage ==
  ASSUME StageInv, Running, stage \notin CleanupStages, LeavesClean
  PROVE  StageInv'
<1>1. NoFlags
  BY DEF StageInv
<1> QED
  BY <1>1 DEF LeavesClean, StageInv, NoFlags, Running, CleanupStages, TeardownStages, Owned, Phases

\* The order of the flags is the controller's own.
LEMMA BesideKeepsStage ==
  ASSUME StageInv,
         \/ UNCHANGED <<program, phase, stage, outer, failed, troubled, destroyTried, verifyTried>>
         \/ \E name \in DOMAIN Programs : StartProgram(name)
  PROVE  StageInv'
<1>1. CASE UNCHANGED <<program, phase, stage, outer, failed, troubled, destroyTried, verifyTried>>
  BY <1>1 DEF StageInv, NoFlags, Running, Owned, Phases
<1>2. CASE \E name \in DOMAIN Programs : StartProgram(name)
  <2>1. ~Running /\ stage' \in {"journal", "work"}
        /\ UNCHANGED <<outer, failed, troubled, destroyTried, verifyTried>>
    BY <1>2 DEF StartProgram, KeepsFlags, Running
  <2> QED BY <2>1 DEF StageInv, NoFlags, CleanupStages, TeardownStages
<1> QED BY <1>1, <1>2

\* The controller before its cleanup.
LEMMA WorkKeepsStage ==
  ASSUME Inv, StageInv, JournalPhase \/ CallApply \/ ApplyReturns \/ DoStep \/ RecordStep
  PROVE  StageInv'
<1>0. Running /\ stage \in {"journal", "apply", "applying", "work", "record"}
  BY DEF JournalPhase, CallApply, ApplyReturns, DoStep, RecordStep, Runs, Running
<1>1. \/ FailOutside \/ FailInside \/ LeavePhase \/ StepsDone
      \/ (/\ UNCHANGED <<program, outer, failed, troubled, destroyTried, verifyTried>>
          /\ stage' \in {"work", "record", "apply", "applying"})
  BY DEF JournalPhase, CallApply, ApplyReturns, DoStep, RecordStep, NextStep, Goto, Stay, KeepsFlags
<1>2. stage \notin CleanupStages /\ NoFlags
  BY <1>0 DEF StageInv, CleanupStages, TeardownStages
<1>3. CASE FailOutside \/ FailInside \/ LeavePhase \/ StepsDone
  BY <1>0, <1>2, <1>3, LeavingIsClean, LeavingKeepsStage
<1>4. CASE /\ UNCHANGED <<program, outer, failed, troubled, destroyTried, verifyTried>>
           /\ stage' \in {"work", "record", "apply", "applying"}
  BY <1>2, <1>4 DEF StageInv, NoFlags, CleanupStages, TeardownStages
<1> QED BY <1>1, <1>3, <1>4

\* The controller in its cleanup.
LEMMA CleanupKeepsStage ==
  ASSUME Inv, TierInv, CleanupInv, StageInv,
         \/ StopMigrationTasks \/ SessionMatchingManifest \/ Destroy \/ DestroyReturns
         \/ Verify \/ VerifyReturns \/ AfterCleanup \/ JournalEnd
  PROVE  StageInv'
<1> USE DEF Goto, Stay, KeepsFlags, KeepsTries, Runs, StageInv, CleanupStages, TeardownStages,
      Running, Owned, Phases
<1>1. CASE StopMigrationTasks
  BY <1>1 DEF StopMigrationTasks
<1>2. CASE SessionMatchingManifest
  BY <1>2 DEF SessionMatchingManifest
<1>3. CASE Destroy
  BY <1>3 DEF Destroy
<1>4. CASE DestroyReturns
  BY <1>4 DEF DestroyReturns
<1>5. CASE Verify
  <2>1. destroyTried
    BY <1>5 DEF Verify, CleanupInv, TriedInv
  <2> QED BY <1>5, <2>1 DEF Verify
<1>6. CASE VerifyReturns
  BY <1>6 DEF VerifyReturns
<1>7. CASE AfterCleanup
  <2>1. destroyTried /\ verifyTried /\ stage = "cleaned" /\ Running
    BY <1>7 DEF AfterCleanup
  <2>2. CASE EndProgram("failed") \/ EndProgram("complete")
    BY <2>2 DEF EndProgram, NoFlags
  <2>3. CASE Owned /\ Goto("journal_end") /\ KeepsFlags
    BY <2>1, <2>3
  <2>4. CASE Owned /\ FailOutside
    BY <2>1, <2>4 DEF FailOutside
  <2>5. CASE Owned /\ ~outer /\ ~failed /\ LeavePhase
    <3>1. phase = Len(Phases) /\ Len(Phases) \in Nat
      BY <2>1, <2>5, ProgramsHavePhases DEF Inv, Position
    <3>2. Goto("destroy") /\ outer' = TRUE /\ UNCHANGED <<failed, troubled>> /\ KeepsTries
      BY <2>5, <3>1 DEF LeavePhase
    <3> QED BY <2>1, <2>5, <3>2
  <2> QED BY <1>7, <2>2, <2>3, <2>4, <2>5 DEF AfterCleanup
<1>8. CASE JournalEnd
  BY <1>8 DEF JournalEnd, EndProgram, NoFlags
<1> QED BY <1>1, <1>2, <1>3, <1>4, <1>5, <1>6, <1>7, <1>8

\* An interrupt of the controller itself.
LEMMA InterruptKeepsStage ==
  ASSUME Inv, TierInv, StageInv, Interrupt
  PROVE  StageInv'
<1>0. Running
  BY DEF Interrupt, Running
<1>1. CASE Stay /\ KeepsFlags /\ UNCHANGED stage
  BY <1>1, BesideKeepsStage DEF Stay, KeepsFlags
<1>2. CASE /\ stage \in {"journal", "apply", "work", "record"}
           /\ FailOutside \/ FailInside
  BY <1>0, <1>2, LeavingIsClean, LeavingKeepsStage DEF CleanupStages, TeardownStages
<1>3. CASE stage = "stop" /\ Goto("destroy") /\ KeepsFlags
  BY <1>0, <1>3 DEF Goto, Stay, KeepsFlags, StageInv, CleanupStages, TeardownStages, Running, Owned,
    Phases
<1>4. CASE EndProgram("escaped") \/ EndProgram("failed")
  BY <1>4 DEF EndProgram, StageInv, NoFlags, Running
<1> QED BY <1>1, <1>2, <1>3, <1>4 DEF Interrupt, Runs

\* So every step keeps it.
LEMMA NextKeepsStage ==
  ASSUME Inv, TierInv, CleanupInv, StageInv, [Next]_vars
  PROVE  StageInv'
<1>1. Command \/ Cloud \/ ManualCommand \/ InterruptManual \/ NameTier \/ UNCHANGED vars =>
        UNCHANGED <<program, phase, stage, outer, failed, troubled, destroyTried, verifyTried>>
  BY DEF Command, Cloud, ManualCommand, InterruptManual, NameTier, vars, controlVars
<1> QED
  BY <1>1, BesideKeepsStage, WorkKeepsStage, CleanupKeepsStage, InterruptKeepsStage
     DEF Next, Controller

-----------------------------------------------------------------------------
(* What a session can hold when no step is at work *)

\* The parts of the two commands that a cleanup calls.
DestroyTasks == {"terraform_destroy", "journal_destroy", "stack_absence", "telemetry"}
VerifyTasks == {"state_absence", "native_absence", "journal_verify"}

\* A cleanup waits for the command it called.
TaskInv ==
  Running => /\ stage = "destroying" => task \in DestroyTasks \cup {"idle"}
             /\ stage = "verifying" => task \in VerifyTasks \cup {"idle"}

\* A session without a manifest has recorded nothing.
NoneInv == manifest.status = "none" => ~manifest.summary /\ manifest.pending = "none"

\* While the approved plan was not applied no step has been done.
PlanSafe ==
  plan = "fresh" => /\ manifest.status \in Early /\ ~manifest.summary
                    /\ manifest.pending = "none" /\ task # "journal_apply"
UnplannedInv == plan = "fresh" => ~Recording /\ ~(Working /\ step > 1)

\* A rehost session runs no ECS task that could deliver telemetry.
RehostInv == mode = "rehost" => late = 0 /\ "telemetry" \notin cloud

\* The telemetry is waited for when all else is gone; a wait passes for each absent sample.
LoopQuiet ==
  /\ task = "telemetry" => /\ managed = {} /\ cloud \subseteq {"telemetry"}
                           /\ "telemetry" \notin cloud => absent <= gap
  /\ task \in {"journal_destroy", "stack_absence"} => managed = {}

SessionAccount == NoneInv /\ PlanSafe /\ RehostInv /\ LoopQuiet
AccountInv == SessionAccount /\ UnplannedInv /\ TaskInv

\* Nothing is left that is paid for, and nothing will be delivered any more.
Quiet == managed = {} /\ "telemetry" \notin cloud /\ (late = 0 \/ gap >= QuietChecks - 1)

\* The native inventory without the telemetry leaves only telemetry.
LEMMA StackIsAbsent ==
  ASSUME cloud \subseteq Kinds, NativeInventory \ {"container_insights_log_groups"} = {}
  PROVE  cloud \subseteq {"telemetry"}
<1>1. \A kind \in Kinds \ {"telemetry"} :
        (CountedIn(NetworkCategories, kind) \cup CountedIn(ClusterCategories, kind)
           \cup CountedIn(ObservationCategories, kind)
           \cup CountedIn(StorageCategories, kind)) \ {"container_insights_log_groups"} # {}
  BY DEF Kinds, Layers, CountedIn, NetworkCategories, ClusterCategories, ObservationCategories
<1>2. \A kind \in cloud :
        CountedIn(NetworkCategories, kind) \cup CountedIn(ClusterCategories, kind)
          \cup CountedIn(ObservationCategories, kind)
          \cup CountedIn(StorageCategories, kind) \subseteq NativeInventory
  BY DEF NativeInventory
<1> QED BY <1>1, <1>2

\* Building ages the plan.
LEMMA BuildAges ==
  ASSUME NEW wanted, Build(wanted) \/ BuildFails(wanted) \/ BuildIsKilled(wanted)
  PROVE  /\ plan' = "fresh" => plan = "fresh"
         /\ cloud' \subseteq cloud \cup wanted
         /\ wanted # {} /\ Build(wanted) => plan' # "fresh"
  BY DEF Build, BuildFails, BuildIsKilled, AgedPlan

\* The parts of the commands keep what a session can hold.
LEMMA CommandKeepsAccount ==
  ASSUME Inv, TierInv, SessionAccount, CommandStep
  PROVE  SessionAccount' /\ (plan' = "fresh" => plan = "fresh")
<1> USE DEF SessionAccount, NoneInv, PlanSafe, RehostInv, LoopQuiet, Ends, Continues, KeepsCounts,
      KeepsCloud, KeepsFiles, cloudVars, manifestVars
<1>0. /\ QuietChecks \in Nat /\ QuietChecks > 1 /\ LateDeliveries \in Nat
      /\ gap \in 0 .. QuietChecks /\ absent \in 0 .. QuietChecks
  BY ChecksAssumption DEF TierInv, SessionTypes
<1>1. CASE JournalPlan
  BY <1>1, TierFacts DEF JournalPlan, Write, Early
<1>2. CASE JournalApply
  <2>1. manifest' = manifest \/ WriteStatus("applied")
    BY <1>2 DEF JournalApply
  <2>2. manifest'.summary = manifest.summary /\ manifest'.pending = manifest.pending
        /\ (manifest' = manifest \/ manifest'.status = "applied")
    BY <2>1, StatusFacts
  <2> QED BY <1>2, <2>2 DEF JournalApply
<1>3. CASE TerraformDestroy
  BY <1>3 DEF TerraformDestroy, Remove, AgedPlan
<1>4. CASE JournalDestroy
  <2>1. manifest' = manifest \/ WriteStatus("destroyed_pending_verification")
    BY <1>4 DEF JournalDestroy
  <2>2. manifest'.summary = manifest.summary /\ manifest'.pending = manifest.pending
        /\ (manifest' = manifest \/ manifest'.status = "destroyed_pending_verification")
    BY <2>1, StatusFacts
  <2> QED BY <1>4, <2>2 DEF JournalDestroy, Early
<1>5. CASE CheckStackAbsence
  <2>1. task' = "telemetry" => cloud \subseteq {"telemetry"} /\ managed = {} /\ absent' = 0
    BY <1>5, StackIsAbsent DEF CheckStackAbsence, Inv, ShapeInv
  <2> QED BY <1>0, <1>5, <2>1 DEF CheckStackAbsence
<1>6. CASE CheckTelemetry
  <2>1. task' = "telemetry" =>
          /\ managed' = {} /\ cloud' \subseteq {"telemetry"}
          /\ "telemetry" \notin cloud' => absent' <= gap'
    BY <1>0, <1>6 DEF CheckTelemetry
  <2> QED BY <1>6, <2>1 DEF CheckTelemetry
<1>7. CASE TelemetryCheckFails
  BY <1>7 DEF TelemetryCheckFails
<1>8. CASE VerifyState
  BY <1>8 DEF VerifyState
<1>9. CASE VerifyNative
  BY <1>9 DEF VerifyNative
<1>10. CASE JournalVerify
  <2>1. manifest' = manifest \/ WriteStatus("teardown_verified")
    BY <1>10 DEF JournalVerify
  <2>2. manifest'.summary = manifest.summary /\ manifest'.pending = manifest.pending
        /\ (manifest' = manifest \/ manifest'.status = "teardown_verified")
    BY <2>1, StatusFacts
  <2> QED BY <1>10, <2>2 DEF JournalVerify, Early
<1> QED
  BY <1>1, <1>2, <1>3, <1>4, <1>5, <1>6, <1>7, <1>8, <1>9, <1>10 DEF CommandStep

\* The calls, an interrupt of a command, and the cloud keep it too.
LEMMA CallKeepsAccount ==
  ASSUME Inv, TierInv, SessionAccount,
         \/ PlanSession \/ ApplySession \/ InterruptApply \/ CallDestroy \/ CallVerify
         \/ InterruptCommand \/ TelemetryArrives
  PROVE  SessionAccount' /\ (~PlanSession => (plan' = "fresh" => plan = "fresh"))
<1> USE DEF SessionAccount, NoneInv, PlanSafe, RehostInv, LoopQuiet, Ends, Continues, KeepsCounts,
      KeepsCloud, KeepsFiles, cloudVars, manifestVars, commandVars
<1>0. late \in Nat
  BY ChecksAssumption DEF TierInv, SessionTypes
<1>1. CASE PlanSession
  BY <1>1 DEF PlanSession, Exists, Early
<1>2. CASE ApplySession
  <2>1. cloud' \subseteq cloud \cup {"foundation"} /\ (plan' = "fresh" => plan = "fresh")
    BY <1>2, BuildAges DEF ApplySession
  <2>2. task' = "idle" \/ (task' = "journal_apply" /\ plan' # "fresh")
    BY <1>2, BuildAges DEF ApplySession
  <2> QED BY <1>2, <2>1, <2>2 DEF ApplySession
<1>3. CASE InterruptApply
  <2>1. cloud' \subseteq cloud \cup {"foundation"} /\ (plan' = "fresh" => plan = "fresh")
    BY <1>3, BuildAges DEF InterruptApply
  <2> QED BY <1>3, <2>1 DEF InterruptApply
<1>4. CASE CallDestroy
  BY <1>4 DEF CallDestroy
<1>5. CASE CallVerify
  BY <1>5 DEF CallVerify
<1>6. CASE InterruptCommand
  <2>1. CASE manifest' \in {manifest, TornManifest} /\ UNCHANGED <<plan, cloudVars>>
    BY <1>6, <2>1, TierFacts DEF InterruptCommand, Early
  <2>2. CASE /\ \E gone \in SUBSET managed : \E forgotten \in SUBSET gone : Remove(gone, forgotten)
             /\ UNCHANGED <<manifest, instance, late>>
    BY <1>6, <2>2 DEF InterruptCommand, Remove, AgedPlan
  <2> QED BY <1>6, <2>1, <2>2 DEF InterruptCommand
<1>7. CASE TelemetryArrives
  BY <1>0, <1>7 DEF TelemetryArrives
<1> QED BY <1>1, <1>2, <1>3, <1>4, <1>5, <1>6, <1>7

\* A command goes on as the same command, or ends.
LEMMA CommandGoesOn ==
  ASSUME CommandStep \/ InterruptCommand
  PROVE  /\ task # "idle"
         /\ task \in DestroyTasks => task' \in DestroyTasks \cup {"idle"}
         /\ task \in VerifyTasks => task' \in VerifyTasks \cup {"idle"}
<1> USE DEF Ends, Continues, DestroyTasks, VerifyTasks
<1>1. CASE InterruptCommand
  BY <1>1 DEF InterruptCommand
<1>2. CASE JournalPlan \/ JournalApply \/ TerraformDestroy \/ JournalDestroy \/ CheckStackAbsence
  BY <1>2 DEF JournalPlan, JournalApply, TerraformDestroy, JournalDestroy, CheckStackAbsence
<1>3. CASE CheckTelemetry \/ TelemetryCheckFails \/ VerifyState \/ VerifyNative \/ JournalVerify
  BY <1>3 DEF CheckTelemetry, TelemetryCheckFails, VerifyState, VerifyNative, JournalVerify
<1> QED BY <1>1, <1>2, <1>3 DEF CommandStep

\* The parts of the commands, the cloud, and the operator.
LEMMA BesideKeepsAccount ==
  ASSUME Inv, TierInv, AccountInv,
         \/ Command \/ Cloud \/ ManualCommand \/ InterruptManual \/ NameTier
         \/ InterruptCommand /\ UNCHANGED <<program, phase, step, stage>>
  PROVE  AccountInv'
<1>1. UNCHANGED <<program, phase, step, stage>>
  BY DEF Command, Cloud, ManualCommand, InterruptManual, NameTier, controlVars
<1>2. CASE \/ Command \/ InterruptManual \/ TelemetryArrives \/ InterruptCommand
  <2>1. SessionAccount' /\ (plan' = "fresh" => plan = "fresh")
    <3>1. PlanSession => task = "idle"
      BY DEF PlanSession
    <3>2. CommandStep \/ InterruptCommand \/ TelemetryArrives
      BY <1>2 DEF Command, InterruptManual
    <3>3. CASE CommandStep
      BY <3>3, CommandKeepsAccount DEF AccountInv
    <3>4. CASE InterruptCommand
      <4>1. ~PlanSession
        BY <3>1, <3>4 DEF InterruptCommand
      <4> QED BY <3>4, <4>1, CallKeepsAccount DEF AccountInv
    <3>5. CASE TelemetryArrives
      <4>1. plan' = plan
        BY <3>5 DEF TelemetryArrives, manifestVars
      <4> QED BY <3>5, <4>1, CallKeepsAccount DEF AccountInv
    <3> QED BY <3>2, <3>3, <3>4, <3>5
  <2>2. TaskInv'
    <3>1. UNCHANGED task \/ CommandStep \/ InterruptCommand
      BY <1>2 DEF Command, InterruptManual, TelemetryArrives, commandVars
    <3> QED BY <1>1, <3>1, CommandGoesOn DEF AccountInv, TaskInv, Running
  <2> QED BY <1>1, <2>1, <2>2 DEF AccountInv, UnplannedInv, Recording, Working, Running
<1>3. CASE /\ UNCHANGED <<mode, manifest, plan, managed, late, gap, commandVars>>
           /\ cloud' \subseteq cloud
           /\ "telemetry" \in cloud => "telemetry" \in cloud'
  <2>1. UNCHANGED <<task, absent>>
    BY <1>3 DEF commandVars
  <2>2. NoneInv' /\ PlanSafe' /\ RehostInv'
    BY <1>3, <2>1 DEF AccountInv, SessionAccount, NoneInv, PlanSafe, RehostInv
  <2>3. LoopQuiet'
    BY <1>3, <2>1 DEF AccountInv, SessionAccount, LoopQuiet
  <2>4. TaskInv' /\ UnplannedInv'
    BY <1>1, <1>3, <2>1 DEF AccountInv, TaskInv, UnplannedInv, Recording, Working, Running
  <2> QED BY <2>2, <2>3, <2>4 DEF AccountInv, SessionAccount
<1>4. CASE ManualCommand
  <2>1. ~Running' /\ SessionAccount'
    BY <1>1, <1>4, CallKeepsAccount DEF ManualCommand, Running, AccountInv
  <2> QED BY <2>1 DEF AccountInv, UnplannedInv, TaskInv, Recording, Working
<1> QED BY <1>2, <1>3, <1>4 DEF Cloud, NameTier, manifestVars, cloudVars

\* Where nothing runs and no step is at work, a cleanup's writes keep what is held.
LEMMA RestKeepsAccount ==
  ASSUME Inv, AccountInv, task = "idle", ~Recording', Working' => step' = 1,
         UNCHANGED <<mode, plan, managed, late, gap, commandVars>>,
         cloud' \subseteq cloud, "telemetry" \in cloud => "telemetry" \in cloud',
         manifest' \in {manifest, Journalled, Selected, TornManifest}
  PROVE  AccountInv'
<1>1. task' = "idle"
  BY DEF commandVars
<1>2. \/ manifest'.status = "torn" /\ ~manifest'.summary /\ manifest'.pending = "none"
      \/ /\ manifest'.pending = manifest.pending /\ manifest'.summary = manifest.summary
         /\ \/ manifest'.status = manifest.status
            \/ manifest.pending # "none" /\ manifest'.status = "vertical_scaling_cleanup_pending"
  <2>1. CASE manifest' = Journalled
    BY <2>1, JournalledFacts
  <2>2. CASE manifest' = Selected
    BY <2>2, JournalledFacts
  <2>3. CASE manifest' \in {manifest, TornManifest}
    BY <2>3, TierFacts
  <2> QED BY <2>1, <2>2, <2>3
<1>3. NoneInv' /\ PlanSafe'
  BY <1>1, <1>2 DEF AccountInv, SessionAccount, NoneInv, PlanSafe, Early
<1>4. RehostInv' /\ LoopQuiet'
  BY <1>1 DEF AccountInv, SessionAccount, RehostInv, LoopQuiet
<1>5. step' = 1 => ~(step' > 1)
  OBVIOUS
<1>6. TaskInv' /\ UnplannedInv'
  BY <1>1, <1>5 DEF TaskInv, UnplannedInv
<1> QED BY <1>3, <1>4, <1>6 DEF AccountInv, SessionAccount

\* A step that works has a plan that was applied, and leaves what a session can hold.
LEMMA EffectKeepsAccount ==
  ASSUME Inv, TierInv, AccountInv, Working, task = "idle", Admits(CurrentStep),
         Succeeds(CurrentStep) \/ Stops(CurrentStep, FALSE) \/ Stops(CurrentStep, TRUE),
         UNCHANGED <<mode, manifest, gap, commandVars>>
  PROVE  AccountInv'
<1>0. /\ step \in 1 .. Len(Programs[program].phases[phase].steps)
      /\ Len(Programs[program].phases[phase].steps) \in Nat
      /\ CurrentStep.needs \cap Early = {} /\ (step = 1 => CurrentStep.needs # {})
      /\ mode = "rehost" => RehostStep(CurrentStep)
  <2>1. Len(Programs[program].phases[phase].steps) \in Nat
    BY CurrentSteps DEF Working, Running, StepsFacts, CurrentPhase, Phases
  <2> QED BY <2>1, StepAtWork DEF TierInv, KnownStep
<1>1. plan # "fresh"
  <2> SUFFICES ASSUME plan = "fresh" PROVE FALSE
    OBVIOUS
  <2>1. manifest.status \in Early /\ ~(step > 1)
    BY DEF AccountInv, SessionAccount, PlanSafe, UnplannedInv
  <2>2. CurrentStep.needs # {}
    BY <1>0, <2>1
  <2> QED BY <1>0, <2>1, <2>2 DEF Admits
<1> DEFINE s == CurrentStep
<1> HIDE DEF s
<1>2. plan' # "fresh"
  <2>1. Succeeds(s) \/ Stops(s, FALSE) \/ Stops(s, TRUE)
    BY DEF s
  <2>2. plan' \in {plan, "stale"}
    BY <2>1 DEF Succeeds, Stops, Unbuilt, Build, BuildFails, BuildIsKilled, AgedPlan
  <2> QED BY <1>1, <2>2
<1>3. RehostInv'
  <2> SUFFICES ASSUME mode = "rehost" PROVE UNCHANGED <<cloud, late>>
    BY DEF AccountInv, SessionAccount, RehostInv
  <2>1. Succeeds(s) \/ Stops(s, FALSE) \/ Stops(s, TRUE)
    BY DEF s
  <2>2. s.effect \in {"check", "restart", "measure", "aim", "resize", "validate", "compare"}
    BY <1>0 DEF s, RehostStep
  <2> QED BY <2>1, <2>2 DEF Succeeds, Stops, Unbuilt, KeepsRun
<1>4. task' = "idle"
  BY DEF commandVars
<1> QED
  BY <1>2, <1>3, <1>4 DEF AccountInv, SessionAccount, NoneInv, PlanSafe, LoopQuiet, TaskInv,
    UnplannedInv

\* A checkpoint is written by a step, so behind the plan.
LEMMA RecordKeepsAccount ==
  ASSUME Inv, TierInv, AccountInv, Recording, task = "idle",
         UNCHANGED <<mode, plan, cloudVars, commandVars>>,
         \/ manifest' \in {manifest, TornManifest}
         \/ manifest' = Recorded(CurrentStep, CurrentStep.writes)
         \/ CurrentStep.rejects # "none" /\ manifest' = Recorded(CurrentStep, CurrentStep.rejects)
  PROVE  AccountInv'
<1>1. plan' # "fresh" /\ task' = "idle"
  BY DEF AccountInv, UnplannedInv, commandVars
<1>2. CurrentStep.writes # "none"
  BY StepAtWork DEF TierInv, KnownStep, Early, Recording, Working
<1>3. NoneInv'
  <2>1. Recorded(CurrentStep, CurrentStep.writes).status = CurrentStep.writes
    BY RecordedFields
  <2>2. Recorded(CurrentStep, CurrentStep.rejects).status = CurrentStep.rejects
    BY RecordedFields
  <2> QED BY <1>2, <2>1, <2>2, TierFacts DEF AccountInv, SessionAccount, NoneInv
<1>4. RehostInv'
  BY DEF AccountInv, SessionAccount, RehostInv, cloudVars
<1> QED
  BY <1>1, <1>3, <1>4 DEF AccountInv, SessionAccount, PlanSafe, LoopQuiet, TaskInv, UnplannedInv

\* The controller before its cleanup, and the start of a program.
LEMMA WorkKeepsAccount ==
  ASSUME Inv, TierInv, AccountInv,
         \/ \E name \in DOMAIN Programs : StartProgram(name)
         \/ JournalPhase \/ CallApply \/ ApplyReturns \/ DoStep \/ RecordStep
  PROVE  AccountInv'
<1>1. CASE \E name \in DOMAIN Programs : StartProgram(name)
  <2>1. /\ stage' \in {"journal", "work"} /\ step' = 1 /\ task = "idle" /\ UNCHANGED sessionVars
    BY <1>1 DEF StartProgram
  <2> QED BY <2>1, RestKeepsAccount DEF Recording, sessionVars, manifestVars, cloudVars
<1>2. CASE JournalPhase
  <2>1. /\ task = "idle" /\ UNCHANGED <<mode, plan, cloudVars, commandVars>> /\ Running
        /\ manifest' \in {manifest, Journalled} /\ stage = "journal"
    BY <1>2 DEF JournalPhase, Runs, Running, Write
  <2>2. step = 1
    BY <2>1 DEF Inv, Position, Running
  <2>3. CASE UNCHANGED step /\ stage' \in {"apply", "work"}
    BY <2>1, <2>2, <2>3, RestKeepsAccount DEF Recording, cloudVars
  <2>4. CASE FailOutside
    <3>1. ~Working' /\ ~Recording'
      BY <2>1, <2>4, LeavingLeaves DEF Leaves, Working, Recording, Running
    <3> QED BY <2>1, <3>1, RestKeepsAccount DEF cloudVars
  <2> QED BY <1>2, <2>3, <2>4 DEF JournalPhase, Goto, Stay
<1>3. CASE CallApply
  <2>1. SessionAccount'
    BY <1>3, CallKeepsAccount DEF CallApply, AccountInv
  <2>2. stage' = "applying"
    BY <1>3 DEF CallApply, Goto
  <2> QED BY <2>1, <2>2 DEF AccountInv, TaskInv, UnplannedInv, Recording, Working
<1>4. CASE ApplyReturns
  <2>1. task = "idle" /\ UNCHANGED sessionVars /\ Running /\ (LeavePhase \/ FailOutside)
    BY <1>4 DEF ApplyReturns, Runs, Running
  <2>2. ~Working' /\ ~Recording'
    BY <2>1, LeavingLeaves DEF Leaves, Working, Recording, Running
  <2> QED BY <2>1, <2>2, RestKeepsAccount DEF sessionVars, manifestVars, cloudVars
<1>5. CASE DoStep
  <2>1. task = "idle" /\ Working /\ UNCHANGED <<mode, session, manifest, gap, commandVars>>
    BY <1>5 DEF DoStep, Runs, Working, Running
  <2>2. CASE Admits(CurrentStep) /\ (Succeeds(CurrentStep) \/ Stops(CurrentStep, FALSE))
    BY <2>1, <2>2, EffectKeepsAccount
  <2>3. CASE /\ UNCHANGED <<cloud, managed, plan, late>>
             /\ FailOutside \/ FailInside
    <3>1. ~Working' /\ ~Recording'
      BY <2>1, <2>3, LeavingLeaves DEF Leaves, Working, Recording, Running
    <3> QED BY <2>1, <2>3, <3>1, RestKeepsAccount
  <2> QED BY <1>5, <2>2, <2>3 DEF DoStep, Unbuilt, KeepsRun
<1>6. CASE RecordStep
  <2>1. Recording /\ task = "idle" /\ UNCHANGED <<mode, plan, cloudVars, commandVars>>
    BY <1>6 DEF RecordStep, Runs, Recording, Running
  <2>2. \/ manifest' = Recorded(CurrentStep, CurrentStep.writes)
        \/ CurrentStep.rejects # "none" /\ manifest' = Recorded(CurrentStep, CurrentStep.rejects)
    BY <1>6 DEF RecordStep, Write
  <2> QED BY <2>1, <2>2, RecordKeepsAccount
<1> QED BY <1>1, <1>2, <1>3, <1>4, <1>5, <1>6

\* The controller in its cleanup.
LEMMA CleanupKeepsAccount ==
  ASSUME Inv, TierInv, AccountInv,
         \/ StopMigrationTasks \/ SessionMatchingManifest \/ Destroy \/ DestroyReturns
         \/ Verify \/ VerifyReturns \/ AfterCleanup \/ JournalEnd
  PROVE  AccountInv'
<1>1. Running /\ task = "idle" /\ ~Working' /\ ~Recording'
  <2>1. Running /\ task = "idle"
    BY DEF StopMigrationTasks, SessionMatchingManifest, Destroy, DestroyReturns, Verify,
      VerifyReturns, AfterCleanup, JournalEnd, Runs, Running
  <2>2. FailOutside \/ LeavePhase => ~Working' /\ ~Recording'
    BY <2>1, LeavingLeaves DEF Leaves, Working, Recording, Running
  <2>3. FailOutside \/ LeavePhase \/ program' = "none"
        \/ stage' \in {"destroy", "destroying", "verify", "verifying", "cleaned", "journal_end"}
    BY DEF StopMigrationTasks, SessionMatchingManifest, Destroy, DestroyReturns, Verify,
      VerifyReturns, AfterCleanup, JournalEnd, Goto, EndProgram
  <2> QED BY <2>1, <2>2, <2>3 DEF Working, Recording, Running
<1>2. CASE StopMigrationTasks
  <2>1. UNCHANGED <<mode, manifest, plan, managed, late, gap, commandVars>>
        /\ cloud' \in {cloud, cloud \ {"migration_task"}}
    BY <1>2 DEF StopMigrationTasks, manifestVars
  <2> QED BY <1>1, <2>1, RestKeepsAccount
<1>3. CASE SessionMatchingManifest
  <2>1. UNCHANGED <<mode, plan, cloudVars, commandVars>> /\ manifest' \in {manifest, Selected}
    BY <1>3 DEF SessionMatchingManifest, Write
  <2> QED BY <1>1, <2>1, RestKeepsAccount DEF cloudVars
<1>4. CASE UNCHANGED sessionVars
  BY <1>1, <1>4, RestKeepsAccount DEF sessionVars, manifestVars, cloudVars
<1>5. CASE Destroy /\ CallDestroy /\ stage' = "destroying"
  <2>1. SessionAccount' /\ task' \in {"idle", "terraform_destroy"}
    BY <1>5, CallKeepsAccount DEF AccountInv, CallDestroy, Ends, Continues
  <2> QED BY <1>1, <1>5, <2>1 DEF AccountInv, TaskInv, UnplannedInv, DestroyTasks
<1>6. CASE Verify /\ CallVerify /\ stage' = "verifying"
  <2>1. SessionAccount' /\ task' \in {"idle", "state_absence"}
    BY <1>6, CallKeepsAccount DEF AccountInv, CallVerify, Ends, Continues
  <2> QED BY <1>1, <1>6, <2>1 DEF AccountInv, TaskInv, UnplannedInv, VerifyTasks
<1> QED
  BY <1>2, <1>3, <1>4, <1>5, <1>6 DEF Destroy, DestroyReturns, Verify, VerifyReturns, AfterCleanup,
    JournalEnd, Goto

\* An interrupt of the controller.
LEMMA InterruptKeepsAccount ==
  ASSUME Inv, TierInv, AccountInv, Interrupt
  PROVE  AccountInv'
<1>0. Running
  BY DEF Interrupt, Running
<1>1. CASE InterruptCommand /\ Stay /\ UNCHANGED stage
  BY <1>1, BesideKeepsAccount DEF Stay
<1>2. FailOutside \/ FailInside => ~Working' /\ ~Recording'
  BY <1>0, LeavingLeaves DEF Leaves, Working, Recording, Running
<1>3. CASE Runs("journal") /\ WriteIsInterrupted(Journalled) /\ FailOutside
           /\ UNCHANGED <<mode, plan, cloudVars, commandVars>>
  BY <1>2, <1>3, RestKeepsAccount DEF Runs, WriteIsInterrupted, cloudVars
<1>4. CASE Runs("apply") /\ InterruptApply /\ FailOutside
  <2>1. SessionAccount' /\ task' = "idle"
    BY <1>4, CallKeepsAccount DEF AccountInv, InterruptApply, Ends
  <2> QED BY <1>2, <1>4, <2>1 DEF AccountInv, TaskInv, UnplannedInv
<1>5. CASE /\ Runs("work") /\ Admits(CurrentStep) /\ Stops(CurrentStep, TRUE)
           /\ UNCHANGED <<mode, manifest, gap, commandVars>>
  BY <1>0, <1>5, EffectKeepsAccount DEF Runs, Working
<1>6. CASE /\ Runs("record") /\ WriteIsInterrupted(Recorded(CurrentStep, CurrentStep.writes))
           /\ UNCHANGED <<mode, plan, cloudVars, commandVars>>
  BY <1>0, <1>6, RecordKeepsAccount DEF Runs, Recording, WriteIsInterrupted
<1>7. CASE /\ Runs("stop") /\ cloud' \in {cloud, cloud \ {"migration_task"}}
           /\ stage' = "destroy"
           /\ UNCHANGED <<mode, manifestVars, managed, instance, late, gap, commandVars>>
  <2>1. ~Working' /\ ~Recording' /\ task = "idle" /\ UNCHANGED <<manifest, plan>>
    BY <1>7 DEF Working, Recording, Runs, manifestVars
  <2> QED BY <1>7, <2>1, RestKeepsAccount
<1>8. CASE /\ task = "idle" /\ program' = "none"
           /\ WriteIsInterrupted(Selected) \/ WriteIsInterrupted(manifest)
           /\ UNCHANGED <<mode, plan, cloudVars, commandVars>>
  BY <1>8, RestKeepsAccount DEF Working, Recording, Running, WriteIsInterrupted, cloudVars
<1> QED
  BY <1>1, <1>3, <1>4, <1>5, <1>6, <1>7, <1>8 DEF Interrupt, Runs, EndProgram, Goto

\* So every step keeps it.
LEMMA NextKeepsAccount ==
  ASSUME Inv, TierInv, AccountInv, [Next]_vars
  PROVE  AccountInv'
<1>1. CASE UNCHANGED vars
  BY <1>1 DEF AccountInv, SessionAccount, NoneInv, PlanSafe, RehostInv, LoopQuiet, TaskInv,
    UnplannedInv, Recording, Working, Running, vars, sessionVars, manifestVars, cloudVars,
    commandVars, controlVars
<1> QED
  BY <1>1, BesideKeepsAccount, WorkKeepsAccount, CleanupKeepsAccount, InterruptKeepsAccount
     DEF Next, Controller

-----------------------------------------------------------------------------
(* The empty account *)

\* Between a teardown without an error and the end of its program nothing is held; behind
\* the verification nothing is left.
QuietInv ==
  Running /\ ~troubled =>
    /\ stage \in {"verify", "verifying", "cleaned", "journal_end"} => Quiet
    /\ stage = "destroy" /\ destroyTried => Quiet
    /\ stage = "destroying" /\ task = "idle" /\ result = "ok" => Quiet
    /\ verifyTried /\ stage # "verifying" =>
         cloud = {} /\ (Owned => manifest.status = "teardown_verified")
    /\ stage = "verifying" /\ task = "idle" /\ result = "ok" => cloud = {}

\* A success is reported at rest, and behind a verification of nothing.
CompleteInv ==
  outcome = "complete" =>
    /\ program = "none" /\ task = "idle"
    /\ manifest.status = "teardown_verified" => cloud = {} /\ Quiet

\* Behind the report no command can build: its plan is used up, and its checkpoint the last.
ReportedInv ==
  reported =>
    /\ program = "none" /\ mode = "async" /\ cloud = {} /\ Quiet
    /\ plan # "fresh" /\ task \notin {"journal_plan", "journal_apply"}
    /\ manifest.status \in {"torn", "destroyed_pending_verification", "teardown_verified"}

EmptinessInv == StageInv /\ AccountInv /\ QuietInv /\ CompleteInv /\ ReportedInv

\* A quiet session stays so, whatever the commands and the cloud do that build nothing.
LEMMA QuietStays ==
  ASSUME Inv, TierInv, Quiet,
         \/ CommandStep \/ InterruptCommand \/ TelemetryArrives
         \/ PlanSession \/ CallDestroy \/ CallVerify
         \/ plan # "fresh" /\ ApplySession
         \/ UNCHANGED <<managed, late, gap>> /\ cloud' \subseteq cloud
  PROVE  Quiet' /\ cloud' \subseteq cloud
<1> USE DEF Quiet, KeepsCloud, cloudVars
<1>0. QuietChecks \in Nat /\ QuietChecks > 1 /\ gap \in 0 .. QuietChecks /\ late \in Nat
  BY ChecksAssumption DEF TierInv, SessionTypes
<1>1. CASE TerraformDestroy \/ InterruptCommand
  <2>1. CASE \E gone \in SUBSET managed, forgotten \in SUBSET managed :
               Remove(gone, forgotten) /\ UNCHANGED late
    BY <2>1 DEF Remove
  <2>2. CASE KeepsCloud
    BY <2>2
  <2>3. TerraformDestroy =>
          \E gone \in SUBSET managed, forgotten \in SUBSET managed :
            Remove(gone, forgotten) /\ UNCHANGED late
    BY DEF TerraformDestroy
  <2> QED BY <1>1, <2>1, <2>2, <2>3 DEF InterruptCommand
<1>2. CASE CheckTelemetry
  BY <1>0, <1>2 DEF CheckTelemetry
<1>3. CASE TelemetryArrives
  BY <1>0, <1>3 DEF TelemetryArrives
<1>4. CASE JournalPlan \/ JournalApply \/ JournalDestroy \/ CheckStackAbsence
  BY <1>4 DEF JournalPlan, JournalApply, JournalDestroy, CheckStackAbsence
<1>5. CASE TelemetryCheckFails \/ VerifyState \/ VerifyNative \/ JournalVerify
  BY <1>5 DEF TelemetryCheckFails, VerifyState, VerifyNative, JournalVerify
<1>6. CASE PlanSession \/ CallDestroy \/ CallVerify
  BY <1>6 DEF PlanSession, CallDestroy, CallVerify
<1>7. CASE plan # "fresh" /\ ApplySession
  BY <1>7 DEF ApplySession
<1>8. CASE UNCHANGED <<managed, late, gap>> /\ cloud' \subseteq cloud
  BY <1>8
<1> QED BY <1>1, <1>2, <1>3, <1>4, <1>5, <1>6, <1>7, <1>8 DEF CommandStep

\* A destroy that succeeds leaves a quiet session.
LEMMA DestroyedIsQuiet ==
  ASSUME Inv, TierInv, SessionAccount, CommandStep, task \in DestroyTasks,
         task' = "idle", result' = "ok"
  PROVE  Quiet'
<1> USE DEF Quiet, Ends, Continues, DestroyTasks, SessionAccount, LoopQuiet
<1>0. /\ QuietChecks \in Nat /\ QuietChecks > 1 /\ gap \in 0 .. QuietChecks
      /\ absent \in 0 .. QuietChecks /\ mode \in {"rehost", "async"}
  BY ChecksAssumption, BoundsAssumption DEF TierInv, SessionTypes
<1>1. CASE TerraformDestroy
  BY <1>1 DEF TerraformDestroy
<1>2. CASE JournalDestroy
  <2>1. mode = "rehost" /\ managed = {} /\ KeepsCloud
    BY <1>0, <1>2 DEF JournalDestroy
  <2> QED BY <2>1 DEF RehostInv, KeepsCloud, cloudVars
<1>3. CASE CheckStackAbsence
  BY <1>3 DEF CheckStackAbsence
<1>4. CASE CheckTelemetry
  <2>1. managed' = {} /\ gap' = gap /\ cloud' = cloud /\ absent + 1 >= QuietChecks
        /\ "telemetry" \notin cloud /\ absent <= gap
    BY <1>0, <1>4 DEF CheckTelemetry
  <2> QED BY <1>0, <2>1
<1>5. CASE TelemetryCheckFails
  BY <1>5 DEF TelemetryCheckFails
<1>6. ~JournalPlan /\ ~JournalApply /\ ~VerifyState /\ ~VerifyNative /\ ~JournalVerify
  BY DEF JournalPlan, JournalApply, VerifyState, VerifyNative, JournalVerify
<1> QED BY <1>1, <1>2, <1>3, <1>4, <1>5, <1>6 DEF CommandStep

\* A verification of a quiet session that succeeds leaves nothing.
LEMMA VerifiedIsEmpty ==
  ASSUME Inv, Quiet, CommandStep, task \in VerifyTasks, task' = "idle", result' = "ok"
  PROVE  cloud' = {}
<1> USE DEF Ends, Continues, VerifyTasks
<1>1. CASE VerifyState \/ VerifyNative
  BY <1>1 DEF VerifyState, VerifyNative
<1>2. CASE JournalVerify
  <2>1. cloud' = cloud /\ cloud \subseteq {"telemetry"} /\ "telemetry" \notin cloud
    BY <1>2 DEF JournalVerify, KeepsCloud, cloudVars, Inv, AbsenceInv, Quiet
  <2> QED BY <2>1
<1>3. CASE JournalPlan \/ JournalApply \/ TerraformDestroy \/ JournalDestroy \/ CheckStackAbsence
           \/ CheckTelemetry \/ TelemetryCheckFails
  BY <1>3 DEF JournalPlan, JournalApply, TerraformDestroy, JournalDestroy, CheckStackAbsence,
    CheckTelemetry, TelemetryCheckFails
<1> QED BY <1>1, <1>2, <1>3 DEF CommandStep

\* Where no teardown has been tried, nothing is asked of it.
LEMMA UntriedKeepsQuiet ==
  ASSUME Running' => /\ ~destroyTried' /\ ~verifyTried'
                     /\ stage' \notin TeardownStages \ {"destroy"}
  PROVE  QuietInv'
  BY DEF QuietInv, TeardownStages

\* The commands, the cloud, and the operator.
LEMMA BesideKeepsQuiet ==
  ASSUME Inv, TierInv, EmptinessInv,
         \/ Command \/ Cloud \/ ManualCommand \/ InterruptManual \/ NameTier
         \/ InterruptCommand /\ UNCHANGED <<controlVars, factVars>>
  PROVE  QuietInv'
<1>1. /\ UNCHANGED <<program, phase, stage, troubled, destroyTried, verifyTried>>
      /\ (Running' <=> Running) /\ (Owned' <=> Owned)
  BY DEF Command, Cloud, ManualCommand, InterruptManual, NameTier, controlVars, Running, Owned
<1>2. CASE ~Running
  BY <1>1, <1>2 DEF QuietInv
<1>3. CASE Running
  <2>1. \/ CommandStep \/ InterruptCommand
        \/ TelemetryArrives
        \/ UNCHANGED <<manifest, managed, late, gap, commandVars>> /\ cloud' \subseteq cloud
    BY <1>3 DEF Command, Cloud, ManualCommand, InterruptManual, NameTier, Running, manifestVars
  <2>2. Quiet => Quiet' /\ cloud' \subseteq cloud
    BY <2>1, QuietStays
  <2>3. \/ UNCHANGED <<task, result, manifest>>
        \/ task # "idle" /\ (CommandStep \/ result' = "error")
    <3>1. TelemetryArrives => UNCHANGED <<task, result, manifest>>
      BY DEF TelemetryArrives, commandVars, manifestVars
    <3>2. CommandStep \/ InterruptCommand => task # "idle"
      BY CommandGoesOn
    <3> QED BY <2>1, <3>1, <3>2 DEF InterruptCommand, Ends, commandVars
  <2>4. verifyTried /\ stage # "verifying" =>
          task = "idle" /\ stage \in {"destroy", "verify", "cleaned", "journal_end"}
    BY <1>3 DEF EmptinessInv, StageInv, NoFlags, CleanupStages, TeardownStages, TierInv, IdleInv
  <2>5. /\ stage = "destroying" => task \in DestroyTasks \cup {"idle"}
        /\ stage = "verifying" => task \in VerifyTasks \cup {"idle"}
    BY <1>3 DEF EmptinessInv, AccountInv, TaskInv
  <2> SUFFICES ASSUME ~troubled
               PROVE  QuietInv'
    BY <1>1 DEF QuietInv
  <2>6. stage = "destroying" /\ task' = "idle" /\ result' = "ok" => Quiet'
    <3> SUFFICES ASSUME stage = "destroying", task' = "idle", result' = "ok"
                 PROVE  Quiet'
      OBVIOUS
    <3>1. CASE UNCHANGED <<task, result>>
      BY <1>3, <2>2, <3>1 DEF EmptinessInv, QuietInv
    <3>2. CASE task # "idle" /\ CommandStep
      BY <2>5, <3>2, DestroyedIsQuiet DEF EmptinessInv, AccountInv
    <3> QED BY <2>3, <3>1, <3>2
  <2>7. stage = "verifying" /\ task' = "idle" /\ result' = "ok" => cloud' = {}
    <3> SUFFICES ASSUME stage = "verifying", task' = "idle", result' = "ok"
                 PROVE  cloud' = {}
      OBVIOUS
    <3>1. Quiet
      BY <1>3 DEF EmptinessInv, QuietInv
    <3>2. CASE UNCHANGED <<task, result>>
      BY <1>3, <2>2, <3>1, <3>2 DEF EmptinessInv, QuietInv
    <3>3. CASE task # "idle" /\ CommandStep
      BY <2>5, <3>1, <3>3, VerifiedIsEmpty
    <3> QED BY <2>3, <3>2, <3>3
  <2>8. verifyTried /\ stage # "verifying" =>
          cloud' = {} /\ (Owned => manifest'.status = "teardown_verified")
    <3> SUFFICES ASSUME verifyTried, stage # "verifying"
                 PROVE  cloud' = {} /\ (Owned => manifest'.status = "teardown_verified")
      OBVIOUS
    <3>1. destroyTried /\ task = "idle"
      BY <1>3, <2>4 DEF EmptinessInv, StageInv
    <3>2. Quiet /\ cloud = {} /\ (Owned => manifest.status = "teardown_verified")
      BY <1>3, <2>4, <3>1 DEF EmptinessInv, QuietInv
    <3>3. manifest' = manifest
      BY <2>3, <3>1
    <3> QED BY <2>2, <3>2, <3>3
  <2>9. /\ stage \in {"verify", "verifying", "cleaned", "journal_end"} => Quiet'
        /\ stage = "destroy" /\ destroyTried => Quiet'
    BY <1>3, <2>2 DEF EmptinessInv, QuietInv
  <2> QED BY <1>1, <2>6, <2>7, <2>8, <2>9 DEF QuietInv
<1> QED BY <1>2, <1>3

\* The start of a program, and the controller before its cleanup.
LEMMA WorkKeepsQuiet ==
  ASSUME Inv, EmptinessInv,
         \/ \E name \in DOMAIN Programs : StartProgram(name)
         \/ JournalPhase \/ CallApply \/ ApplyReturns \/ DoStep \/ RecordStep
  PROVE  QuietInv'
<1>1. CASE \E name \in DOMAIN Programs : StartProgram(name)
  <2>1. ~Running /\ UNCHANGED <<destroyTried, verifyTried>> /\ stage' \in {"journal", "work"}
    BY <1>1 DEF StartProgram, KeepsFlags, Running
  <2> QED BY <2>1, UntriedKeepsQuiet DEF EmptinessInv, StageInv, NoFlags, TeardownStages
<1>2. CASE JournalPhase \/ CallApply \/ ApplyReturns \/ DoStep \/ RecordStep
  <2>1. Running /\ stage \in {"journal", "apply", "applying", "work", "record"}
    BY <1>2 DEF JournalPhase, CallApply, ApplyReturns, DoStep, RecordStep, Runs, Running
  <2>2. NoFlags
    BY <2>1 DEF EmptinessInv, StageInv, CleanupStages, TeardownStages
  <2>3. \/ FailOutside \/ FailInside \/ LeavePhase \/ StepsDone
        \/ (/\ UNCHANGED <<destroyTried, verifyTried>>
            /\ stage' \in {"work", "record", "apply", "applying"})
    BY <1>2 DEF JournalPhase, CallApply, ApplyReturns, DoStep, RecordStep, NextStep, Goto, Stay,
      KeepsFlags
  <2>4. CASE FailOutside \/ FailInside \/ LeavePhase \/ StepsDone
    <3>1. LeavesClean
      BY <2>1, <2>4, LeavingIsClean
    <3> QED BY <2>2, <3>1, UntriedKeepsQuiet DEF LeavesClean, NoFlags, Running, TeardownStages
  <2> QED BY <2>2, <2>3, <2>4, UntriedKeepsQuiet DEF NoFlags, TeardownStages
<1> QED BY <1>1, <1>2

\* The controller in its cleanup.
LEMMA CleanupKeepsQuiet ==
  ASSUME Inv, TierInv, CleanupInv, EmptinessInv,
         \/ StopMigrationTasks \/ SessionMatchingManifest \/ Destroy \/ DestroyReturns
         \/ Verify \/ VerifyReturns \/ AfterCleanup \/ JournalEnd
  PROVE  QuietInv'
<1>0. Running /\ task = "idle"
  BY DEF StopMigrationTasks, SessionMatchingManifest, Destroy, DestroyReturns, Verify,
    VerifyReturns, AfterCleanup, JournalEnd, Runs, Running
<1> USE DEF Goto, Stay, KeepsFlags, KeepsTries, Runs
<1>1. CASE StopMigrationTasks \/ SessionMatchingManifest
  <2>1. stage \in {"stop", "select"} /\ stage' = "destroy"
        /\ UNCHANGED <<destroyTried, verifyTried>>
    BY <1>1 DEF StopMigrationTasks, SessionMatchingManifest
  <2> QED BY <1>0, <2>1, UntriedKeepsQuiet DEF EmptinessInv, StageInv, TeardownStages
<1>2. CASE Destroy
  <2>1. stage = "destroy" /\ UNCHANGED <<program, troubled, verifyTried>>
    BY <1>2 DEF Destroy
  <2>2. CASE Owned /\ destroyTried /\ stage' = "verify" /\ UNCHANGED <<sessionVars, destroyTried>>
    BY <1>0, <2>1, <2>2
       DEF EmptinessInv, QuietInv, Quiet, Owned, Running, sessionVars, cloudVars, manifestVars
  <2>3. CASE ~(Owned /\ destroyTried) /\ CallDestroy /\ stage' = "destroying"
    <3>1. ~verifyTried
      BY <1>0, <2>1, <2>3 DEF EmptinessInv, StageInv
    <3>2. task' = "idle" => result' = "error"
      BY <2>3 DEF CallDestroy, Ends, Continues
    <3> QED BY <2>1, <2>3, <3>1, <3>2 DEF QuietInv
  <2> QED BY <1>2, <2>2, <2>3 DEF Destroy
<1>3. CASE DestroyReturns
  <2>1. /\ stage = "destroying" /\ stage' = "verify" /\ UNCHANGED <<program, verifyTried>>
        /\ UNCHANGED <<cloud, managed, late, gap>> /\ (~troubled' => ~troubled /\ result = "ok")
    BY <1>3 DEF DestroyReturns, sessionVars, cloudVars
  <2>2. ~verifyTried
    BY <1>0, <2>1 DEF EmptinessInv, StageInv
  <2> QED BY <1>0, <2>1, <2>2 DEF EmptinessInv, QuietInv, Quiet
<1>4. CASE Verify
  <2>1. /\ stage = "verify" /\ UNCHANGED <<program, troubled>>
        /\ UNCHANGED <<manifest, cloud, managed, late, gap>>
    BY <1>4 DEF Verify, sessionVars, cloudVars, manifestVars, CallVerify, KeepsFiles, KeepsCloud
  <2>2. CASE verifyTried /\ stage' = "cleaned" /\ UNCHANGED verifyTried
    BY <1>0, <2>1, <2>2 DEF EmptinessInv, QuietInv, Quiet, Owned, Running
  <2>3. CASE CallVerify /\ stage' = "verifying"
    <3>1. task' = "idle" => result' = "error"
      BY <2>3 DEF CallVerify, Ends, Continues
    <3> QED BY <1>0, <2>1, <2>3, <3>1 DEF EmptinessInv, QuietInv, Quiet
  <2> QED BY <1>4, <2>2, <2>3 DEF Verify
<1>5. CASE VerifyReturns
  <2>1. /\ stage = "verifying" /\ stage' = "cleaned" /\ UNCHANGED <<program, verifyTried>>
        /\ UNCHANGED <<manifest, cloud, managed, late, gap>>
        /\ ~troubled' => /\ ~troubled /\ result = "ok"
                         /\ Owned => manifest.status = "teardown_verified"
    BY <1>5 DEF VerifyReturns, sessionVars, cloudVars, manifestVars
  <2> QED BY <1>0, <2>1 DEF EmptinessInv, QuietInv, Quiet, Owned, Running
<1>6. CASE AfterCleanup
  <2>1. /\ stage = "cleaned" /\ UNCHANGED <<manifest, cloud, managed, late, gap>>
    BY <1>6 DEF AfterCleanup, sessionVars, cloudVars, manifestVars
  <2>2. CASE program' = "none"
    BY <2>2 DEF QuietInv, Running
  <2>3. CASE stage' \in {"journal_end", "destroy"}
             /\ UNCHANGED <<program, troubled, destroyTried, verifyTried>>
    BY <1>0, <2>1, <2>3 DEF EmptinessInv, QuietInv, Quiet, Owned, Running
  <2>4. CASE Owned /\ ~outer /\ ~failed /\ LeavePhase
    <3>1. phase = Len(Phases)
      BY <1>0, <2>1, <2>4 DEF EmptinessInv, StageInv, CleanupStages, TeardownStages
    <3>2. Len(Phases) \in Nat
      BY <1>0, ProgramsHavePhases DEF Inv, Position, Phases, Running
    <3>3. ~(phase < Len(Phases))
      BY <3>1, <3>2
    <3> QED BY <2>3, <2>4, <3>3 DEF LeavePhase
  <2> QED BY <1>6, <2>2, <2>3, <2>4 DEF AfterCleanup, EndProgram, FailOutside
<1>7. CASE JournalEnd
  BY <1>7 DEF JournalEnd, EndProgram, QuietInv, Running
<1> QED BY <1>1, <1>2, <1>3, <1>4, <1>5, <1>6, <1>7

\* An interrupt of the controller.
LEMMA InterruptKeepsQuiet ==
  ASSUME Inv, TierInv, EmptinessInv, Interrupt
  PROVE  QuietInv'
<1>0. Running
  BY DEF Interrupt, Running
<1>1. CASE InterruptCommand /\ UNCHANGED <<controlVars, factVars>>
  BY <1>1, BesideKeepsQuiet
<1>2. CASE /\ stage \in {"journal", "apply", "work", "record"}
           /\ FailOutside \/ FailInside
  <2>1. NoFlags /\ LeavesClean
    BY <1>0, <1>2, LeavingIsClean DEF EmptinessInv, StageInv, CleanupStages, TeardownStages
  <2> QED BY <2>1, UntriedKeepsQuiet DEF LeavesClean, NoFlags, Running, TeardownStages
<1>3. CASE stage = "stop" /\ stage' = "destroy" /\ UNCHANGED <<destroyTried, verifyTried>>
  BY <1>0, <1>3, UntriedKeepsQuiet DEF EmptinessInv, StageInv, TeardownStages
<1>4. CASE program' = "none"
  BY <1>4 DEF QuietInv, Running
<1> QED
  BY <1>1, <1>2, <1>3, <1>4
     DEF Interrupt, Runs, EndProgram, Goto, Stay, KeepsFlags, controlVars

\* A success stands as long as nothing is commanded.
LEMMA BesideKeepsComplete ==
  ASSUME Inv, TierInv, CompleteInv,
         \/ Command \/ Cloud \/ ManualCommand \/ InterruptManual \/ NameTier
         \/ InterruptCommand /\ UNCHANGED <<controlVars, factVars>>
  PROVE  CompleteInv'
<1> SUFFICES ASSUME outcome' = "complete"
             PROVE  CompleteInv'
  BY DEF CompleteInv
<1>1. ~ManualCommand
  BY DEF ManualCommand
<1>2. UNCHANGED <<program, outcome>>
  BY <1>1 DEF Command, Cloud, InterruptManual, NameTier, controlVars
<1>3. program = "none" /\ task = "idle"
      /\ (manifest.status = "teardown_verified" => cloud = {} /\ Quiet)
  BY <1>2 DEF CompleteInv
<1>4. ~CommandStep /\ ~InterruptCommand
  BY <1>3, CommandGoesOn
<1>5. UNCHANGED <<manifest, task>>
      /\ (TelemetryArrives \/ (UNCHANGED <<managed, late, gap>> /\ cloud' \subseteq cloud))
  BY <1>1, <1>4 DEF Command, Cloud, InterruptManual, NameTier, TelemetryArrives, manifestVars,
    commandVars, cloudVars
<1>6. Quiet => Quiet' /\ cloud' \subseteq cloud
  BY <1>5, QuietStays
<1> QED BY <1>2, <1>3, <1>5, <1>6 DEF CompleteInv

\* A program succeeds only behind its steps, or behind its teardown.
LEMMA ControllerKeepsComplete ==
  ASSUME Inv, TierInv, CompleteInv, QuietInv, StageInv,
         (\E name \in DOMAIN Programs : StartProgram(name)) \/ Controller \/ Interrupt
  PROVE  CompleteInv'
<1> SUFFICES ASSUME outcome' = "complete"
             PROVE  CompleteInv'
  BY DEF CompleteInv
<1> USE DEF Goto, Stay, EndProgram
<1>1. ~\E name \in DOMAIN Programs : StartProgram(name)
  BY DEF StartProgram
<1>2. Running
  BY <1>1 DEF Controller, Interrupt, JournalPhase, CallApply, ApplyReturns, DoStep, RecordStep,
    StopMigrationTasks, SessionMatchingManifest, Destroy, DestroyReturns, Verify, VerifyReturns,
    AfterCleanup, JournalEnd, Runs, Running
<1>3. outcome # "complete"
  BY <1>2 DEF CompleteInv, Running
<1>4. ~FailOutside /\ ~FailInside
  BY <1>3 DEF FailOutside, FailInside
<1>5. LeavePhase \/ StepsDone \/ NextStep => program' = "none" /\ LeavePhase
  BY <1>3 DEF NextStep, StepsDone, LeavePhase
<1>6. CASE ApplyReturns
  <2>1. task = "idle" /\ UNCHANGED sessionVars /\ manifest.status = "applied"
    BY <1>4, <1>6 DEF ApplyReturns, Runs
  <2>2. program' = "none"
    BY <1>4, <1>5, <1>6 DEF ApplyReturns
  <2> QED BY <2>1, <2>2 DEF CompleteInv, sessionVars, manifestVars, commandVars
<1>7. CASE RecordStep
  <2>1. Working /\ task = "idle" /\ UNCHANGED commandVars
        /\ manifest' = Recorded(CurrentStep, CurrentStep.writes) /\ NextStep
    BY <1>2, <1>4, <1>7 DEF RecordStep, Runs, Working, Running, Write
  <2>2. manifest'.status = CurrentStep.writes
    BY <2>1, RecordedFields
  <2>3. CurrentStep.writes # "teardown_verified"
    BY <2>1, StepAtWork DEF TierInv, StepFacts
  <2> QED BY <1>5, <2>1, <2>2, <2>3 DEF CompleteInv, commandVars
<1>8. CASE AfterCleanup \/ JournalEnd
  <2>1. /\ stage \in {"cleaned", "journal_end"} /\ task = "idle"
        /\ UNCHANGED <<manifest, cloud, managed, late, gap, task>>
    BY <1>8 DEF AfterCleanup, JournalEnd, Runs, sessionVars, manifestVars, cloudVars, commandVars
  <2>2. CASE JournalEnd
    <3>1. program' = "none" /\ ~troubled
      BY <2>2 DEF JournalEnd
    <3>2. verifyTried
      BY <1>2, <2>1 DEF StageInv
    <3> QED BY <1>2, <2>1, <3>1, <3>2 DEF CompleteInv, QuietInv, Quiet
  <2>3. CASE AfterCleanup /\ ~Owned
    <3>1. program' = "none" /\ ~troubled
      BY <2>3 DEF AfterCleanup
    <3>2. verifyTried
      BY <1>2, <2>1 DEF StageInv
    <3> QED BY <1>2, <2>1, <3>1, <3>2 DEF CompleteInv, QuietInv, Quiet
  <2>4. ~(AfterCleanup /\ Owned)
    BY <1>3, <1>4 DEF AfterCleanup, LeavePhase
  <2> QED BY <1>8, <2>2, <2>3, <2>4
<1>9. ~JournalPhase /\ ~CallApply /\ ~DoStep /\ ~StopMigrationTasks /\ ~SessionMatchingManifest
      /\ ~Destroy /\ ~DestroyReturns /\ ~Verify /\ ~VerifyReturns
  BY <1>3, <1>4 DEF JournalPhase, CallApply, DoStep, StopMigrationTasks, SessionMatchingManifest,
    Destroy, DestroyReturns, Verify, VerifyReturns
<1>10. ~Interrupt
  BY <1>3, <1>4 DEF Interrupt
<1> QED BY <1>1, <1>6, <1>7, <1>8, <1>9, <1>10 DEF Controller

\* What the parts of the commands do behind the report.
LEMMA CommandKeepsReport ==
  ASSUME Inv, TierInv, AccountInv, ReportedInv, reported,
         CommandStep \/ InterruptCommand \/ PlanSession \/ ApplySession \/ CallDestroy \/ CallVerify
  PROVE  /\ cloud' = {} /\ Quiet'
         /\ plan' # "fresh" /\ task' \notin {"journal_plan", "journal_apply"}
         /\ manifest'.status \in {"torn", "destroyed_pending_verification", "teardown_verified"}
<1>0. /\ cloud = {} /\ Quiet /\ plan # "fresh" /\ task \notin {"journal_plan", "journal_apply"}
      /\ manifest.status \in {"torn", "destroyed_pending_verification", "teardown_verified"}
  BY DEF ReportedInv
<1>1. cloud' = {} /\ Quiet'
  <2>1. Quiet' /\ cloud' \subseteq cloud
    BY <1>0, QuietStays
  <2> QED BY <1>0, <2>1
<1> USE DEF Ends, Continues, KeepsFiles, manifestVars
<1>2. CASE PlanSession \/ ApplySession \/ CallDestroy \/ CallVerify
  BY <1>0, <1>1, <1>2 DEF PlanSession, ApplySession, CallDestroy, CallVerify, Exists
<1>3. CASE InterruptCommand
  BY <1>0, <1>1, <1>3, TierFacts DEF InterruptCommand, Remove, AgedPlan
<1>4. CASE CommandStep
  <2>1. plan' # "fresh"
    BY <1>0, <1>4, CommandKeepsAccount DEF AccountInv
  <2>2. CASE JournalDestroy \/ JournalVerify
    <3>1. \/ manifest' = manifest
          \/ WriteStatus("destroyed_pending_verification") \/ WriteStatus("teardown_verified")
      BY <2>2 DEF JournalDestroy, JournalVerify
    <3>2. manifest'.status \in
            {manifest.status, "destroyed_pending_verification", "teardown_verified"}
      BY <3>1, StatusFacts
    <3> QED BY <1>0, <1>1, <2>1, <2>2, <3>2 DEF JournalDestroy, JournalVerify
  <2>3. CASE TerraformDestroy \/ CheckStackAbsence \/ VerifyState \/ VerifyNative
    BY <1>0, <1>1, <2>1, <2>3 DEF TerraformDestroy, CheckStackAbsence, VerifyState, VerifyNative
  <2>4. CASE CheckTelemetry \/ TelemetryCheckFails
    BY <1>0, <1>1, <2>1, <2>4 DEF CheckTelemetry, TelemetryCheckFails
  <2>5. ~JournalPlan /\ ~JournalApply
    BY <1>0 DEF JournalPlan, JournalApply
  <2> QED BY <1>4, <2>2, <2>3, <2>4, <2>5 DEF CommandStep
<1> QED BY <1>2, <1>3, <1>4

\* Nothing that follows the report builds anything.
LEMMA NextKeepsReported ==
  ASSUME Inv, TierInv, EmptinessInv, [Next]_vars
  PROVE  ReportedInv'
<1>1. CASE UNCHANGED vars
  BY <1>1 DEF EmptinessInv, ReportedInv, Quiet, vars, sessionVars, manifestVars, cloudVars,
    commandVars, controlVars, factVars
<1>2. CASE reported /\ Next
  <2>0. /\ program = "none" /\ mode = "async" /\ cloud = {} /\ Quiet
        /\ plan # "fresh" /\ task \notin {"journal_plan", "journal_apply"}
        /\ manifest.status \in {"torn", "destroyed_pending_verification", "teardown_verified"}
    BY <1>2 DEF EmptinessInv, ReportedInv
  <2>1. ~Controller /\ ~Interrupt /\ ~NameTier
    BY <2>0 DEF Controller, Interrupt, JournalPhase, CallApply, ApplyReturns, DoStep, RecordStep,
      StopMigrationTasks, SessionMatchingManifest, Destroy, DestroyReturns, Verify, VerifyReturns,
      AfterCleanup, JournalEnd, Runs, NameTier
  <2>2. ~\E name \in DOMAIN Programs : StartProgram(name)
    <3> SUFFICES ASSUME NEW name \in DOMAIN Programs, StartProgram(name)
                 PROVE  FALSE
      OBVIOUS
    <3>1. Programs[name].mode = "async"
      BY <2>0 DEF StartProgram
    <3>2. Programs[name].starts \notin (Early \ {"planned"}) \cup {"any"}
      BY <3>1, ProgramTable DEF ProgramFacts
    <3>3. manifest.status = Programs[name].starts
      BY <3>2 DEF StartProgram
    <3> QED BY <2>0, <3>2, <3>3 DEF Early
  <2>3. CASE Cloud
    <3>1. UNCHANGED <<mode, manifest, plan, task, program, reported>>
      BY <2>3 DEF Cloud, TelemetryArrives, manifestVars, commandVars, controlVars, factVars
    <3>2. cloud' = {} /\ Quiet'
      BY <2>0, <2>3, QuietStays DEF Cloud
    <3> QED BY <2>0, <3>1, <3>2 DEF ReportedInv
  <2>4. CASE Command \/ ManualCommand \/ InterruptManual
    <3>1. CommandStep \/ InterruptCommand \/ PlanSession \/ ApplySession
          \/ CallDestroy \/ CallVerify
      BY <2>0, <2>4 DEF Command, ManualCommand, InterruptManual, InterruptApply
    <3>2. UNCHANGED program
      BY <2>4 DEF Command, ManualCommand, InterruptManual, controlVars
    <3>3. UNCHANGED mode
      BY <3>1, CommandKeepsTier
    <3> QED BY <1>2, <2>0, <3>1, <3>2, <3>3, CommandKeepsReport DEF EmptinessInv, ReportedInv
  <2> QED BY <1>2, <2>1, <2>2, <2>3, <2>4 DEF Next
<1>3. CASE ~reported /\ JournalEnd
  <2> SUFFICES ASSUME reported'
               PROVE  ReportedInv'
    BY DEF ReportedInv
  <2>1. /\ Running /\ stage = "journal_end" /\ task = "idle" /\ UNCHANGED sessionVars
        /\ program' = "none" /\ ~troubled /\ manifest.summary
    BY <1>3 DEF JournalEnd, Runs, Running, EndProgram
  <2>2. Owned /\ verifyTried
    BY <2>1 DEF EmptinessInv, StageInv
  <2>3. mode = "async"
    BY <2>1, <2>2, PhaseAtWork DEF TierInv
  <2>4. cloud = {} /\ Quiet /\ manifest.status = "teardown_verified"
    BY <2>1, <2>2 DEF EmptinessInv, QuietInv
  <2>5. plan # "fresh"
    BY <2>1 DEF EmptinessInv, AccountInv, SessionAccount, PlanSafe
  <2> QED BY <2>1, <2>3, <2>4, <2>5
       DEF ReportedInv, Quiet, sessionVars, manifestVars, cloudVars, commandVars
<1>4. CASE ~reported /\ Next /\ ~JournalEnd
  <2>1. UNCHANGED reported
    BY <1>4 DEF Next, Controller, Interrupt, Command, ManualCommand, InterruptManual, NameTier,
      Cloud, StartProgram, JournalPhase, CallApply, ApplyReturns, DoStep, RecordStep,
      StopMigrationTasks, SessionMatchingManifest, Destroy, DestroyReturns, Verify, VerifyReturns,
      AfterCleanup, factVars
  <2> QED BY <1>4, <2>1 DEF ReportedInv
<1> QED BY <1>1, <1>2, <1>3, <1>4

\* Every step keeps the invariant.
LEMMA NextKeepsEmptiness ==
  ASSUME Inv, TierInv, CleanupInv, EmptinessInv, [Next]_vars
  PROVE  EmptinessInv'
<1>1. StageInv' /\ AccountInv' /\ ReportedInv'
  BY NextKeepsStage, NextKeepsAccount, NextKeepsReported DEF EmptinessInv
<1>2. QuietInv' /\ CompleteInv'
  <2>1. CASE UNCHANGED vars
    BY <2>1 DEF EmptinessInv, QuietInv, CompleteInv, Quiet, Running, Owned, vars, sessionVars,
      manifestVars, cloudVars, commandVars, controlVars
  <2>2. CASE Command \/ Cloud \/ ManualCommand \/ InterruptManual \/ NameTier
    BY <2>2, BesideKeepsQuiet, BesideKeepsComplete DEF EmptinessInv
  <2>3. CASE (\E name \in DOMAIN Programs : StartProgram(name)) \/ Controller \/ Interrupt
    <3>1. CompleteInv'
      BY <2>3, ControllerKeepsComplete DEF EmptinessInv
    <3>2. QuietInv'
      BY <2>3, WorkKeepsQuiet, CleanupKeepsQuiet, InterruptKeepsQuiet DEF Controller
    <3> QED BY <3>1, <3>2
  <2> QED BY <2>1, <2>2, <2>3 DEF Next
<1> QED BY <1>1, <1>2 DEF EmptinessInv

\* The invariant holds of every session.
THEOREM EmptinessInvariant == Spec => []EmptinessInv
<1>1. Init => EmptinessInv
  BY DEF Init, InitSession, NoManifest, EmptinessInv, StageInv, NoFlags, AccountInv,
    SessionAccount, NoneInv, PlanSafe, RehostInv, LoopQuiet, UnplannedInv, TaskInv, QuietInv,
    CompleteInv, ReportedInv, Running, Recording, Working
<1>2. Inv /\ TierInv /\ CleanupInv /\ EmptinessInv /\ [Next]_vars => EmptinessInv'
  BY NextKeepsEmptiness
<1> QED BY <1>1, <1>2, CleanupInvariant, PTL DEF Spec

\* A program that ends well behind its teardown, and the comparison report, stand for an
\* account in which nothing is left and to which no late delivery comes back
\* (_CleanupOwner, cleanup_container_insights, verify_destroyed).
THEOREM CompletionIsEmpty == Spec => []CompleteIsEmpty
<1>1. EmptinessInv => CompleteIsEmpty
  BY DEF EmptinessInv, CompleteInv, ReportedInv, CompleteIsEmpty
<1> QED BY <1>1, EmptinessInvariant, PTL
=============================================================================
