---------------------------- MODULE CloudSession ----------------------------
(***************************************************************************)
(* One AWS session: the session.json manifest, Terraform and its state,    *)
(* the resources that really exist, and the commands of aws_session.py     *)
(* (plan, apply, destroy, verify), one of which runs at a time.            *)
(*                                                                         *)
(* A command is cut where another process or an interrupt can be seen:     *)
(* between a call to Terraform and the write of the manifest, and between  *)
(* two checks of the telemetry loop.  "task" names the part that is next,  *)
(* "result" the outcome of the last command that ended.                    *)
(***************************************************************************)
EXTENDS Naturals

CONSTANTS
  QuietChecks,     \* quiet_checks of cleanup_container_insights
  MaximumChecks,   \* maximum_checks of cleanup_container_insights
  LateDeliveries   \* bound: how often ECS re-creates the performance group

ASSUME ChecksAssumption ==
  /\ QuietChecks \in Nat \ {0, 1}
  /\ MaximumChecks \in Nat
  /\ QuietChecks <= MaximumChecks
  /\ LateDeliveries \in Nat

VARIABLES
  mode,       \* deployment_mode, fixed when the session is created
  session,    \* rehost_instance_type of the AwsSession the command holds
  manifest,   \* session.json: status, tier, pending target, completed tiers;
              \* whether the elastic summary is recorded, whether an owner's
              \* journal is there
  plan,       \* terraform.tfplan: absent, still applicable, or stale
  cloud,      \* the resources that exist
  managed,    \* the resources Terraform's state lists
  instance,   \* the type of the EC2 host
  late,       \* how often ECS can still re-create the performance group
  gap,        \* waits since the group was last created or could be created
  task, result, absent, checks

manifestVars == <<session, manifest, plan>>
cloudVars == <<cloud, managed, instance, late, gap>>
commandVars == <<task, result, absent, checks>>
sessionVars == <<mode, manifestVars, cloudVars, commandVars>>

-----------------------------------------------------------------------------
\* What Terraform builds, by the variable that enables it, and what it does not.
Layers == {"foundation", "runtime", "services", "autoscaling"}
Kinds == Layers \cup {"migration_task", "telemetry"}

\* ALLOWED_INSTANCE_TYPES, smallest first; the baseline is where sessions start.
Ladder == <<"t3.small", "c7i-flex.large">>
Tiers == {Ladder[i] : i \in DOMAIN Ladder}
Baseline == Ladder[1]

NoManifest == [status |-> "none", tier |-> Baseline, pending |-> "none",
               done |-> {}, summary |-> FALSE, owned |-> FALSE]
TornManifest == [NoManifest EXCEPT !.status = "torn"]

\* manifest_path.exists()
Exists == manifest.status # "none"

\* Variant that does not compare the tier the manifest names with the session's.
LoadsAnyTier == Exists /\ manifest.status # "torn"

\* load_manifest raises unless the file parses and names this session.
Loads == Exists /\ manifest.status # "torn" /\ manifest.tier = session

\* write_manifest: the file is replaced as a whole or, when the process is
\* interrupted between the truncation and the write, left unreadable.
Write(record) == manifest' = record
WriteStatus(status) == Write([manifest EXCEPT !.status = status])
WriteIsInterrupted(record) == manifest' \in {manifest, TornManifest, record}

-----------------------------------------------------------------------------
(* Terraform: it builds or removes resources and records them in its state. *)
(* A run that fails has recorded what it made; one that is killed may not.  *)

\* A change of the state makes every plan saved before it inapplicable.
AgedPlan(changed) == IF changed /\ plan = "fresh" THEN "stale" ELSE plan

Build(wanted) ==
  /\ cloud' = cloud \cup wanted
  /\ managed' = managed \cup wanted
  /\ plan' = AgedPlan(wanted # {})

BuildFails(wanted) == \E made \in SUBSET wanted : Build(made)

BuildIsKilled(wanted) ==
  \E made \in SUBSET wanted : \E recorded \in SUBSET made :
    /\ cloud' = cloud \cup made
    /\ managed' = managed \cup recorded
    /\ plan' = AgedPlan(recorded # {})

\* ECS refuses to delete a cluster in which a task runs; the late deliveries
\* of Container Insights begin when the group Terraform managed is gone.
Remove(gone, forgotten) ==
  /\ "foundation" \in gone => "migration_task" \notin cloud
  /\ cloud' = cloud \ gone
  /\ managed' = managed \ forgotten
  /\ plan' = AgedPlan(forgotten # {})
  /\ gap' = IF "foundation" \in gone THEN 0 ELSE gap

\* An ECS task has run, so the agents have telemetry to deliver.
Exposed(kinds) == IF kinds \cap {"services", "migration_task"} # {}
                    THEN LateDeliveries ELSE late

\* Container Insights re-creates the performance group after its removal.
\* The loop below relies on its being quiet for good once it has been quiet
\* for QuietChecks - 1 waits.
TelemetryArrives ==
  /\ late > 0 /\ gap < QuietChecks - 1
  /\ "foundation" \notin cloud /\ "telemetry" \notin cloud
  /\ cloud' = cloud \cup {"telemetry"}
  /\ late' = late - 1
  /\ gap' = 0
  /\ UNCHANGED <<mode, manifestVars, managed, instance, commandVars>>

-----------------------------------------------------------------------------
(* The service-native inventory: which categories it counts, by the kind of *)
(* resource each belongs to.                                                *)
NetworkCategories ==
  [foundation |-> {"ec2_instances", "ebs_volumes", "internet_gateways",
                   "route_tables", "security_groups", "subnets", "vpcs"}]
\* Variant that counts only what the foundation layer made.
ClusterCategoriesOfFoundation ==
  [foundation |-> {"application_load_balancers", "load_balancer_target_groups",
                   "ecs_clusters"}]

ClusterCategories ==
  [foundation |-> {"application_load_balancers", "load_balancer_target_groups",
                   "ecs_clusters"},
   services |-> {"ecs_services", "ecs_tasks"},
   migration_task |-> {"ecs_tasks"},
   runtime |-> {"active_ecs_task_definitions", "service_discovery_namespaces"}]
ObservationCategories ==
  [foundation |-> {"cloudwatch_log_groups", "cloudwatch_dashboards"},
   telemetry |-> {"container_insights_log_groups"},
   autoscaling |-> {"application_autoscaling_targets",
                    "application_autoscaling_policies", "cloudwatch_metric_alarms"}]
StorageCategories ==
  [foundation |-> {"ecr_repositories", "sqs_queues", "iam_instance_profiles",
                   "iam_roles", "rds_instances", "rds_automated_backups",
                   "rds_manual_snapshots", "rds_subnet_groups",
                   "rds_parameter_groups", "rds_managed_secrets"}]

CountedIn(categories, kind) == IF kind \in DOMAIN categories THEN categories[kind] ELSE {}

\* The categories with a count above zero.
NativeInventory ==
  UNION {CountedIn(NetworkCategories, kind) \cup CountedIn(ClusterCategories, kind)
           \cup CountedIn(ObservationCategories, kind)
           \cup CountedIn(StorageCategories, kind) : kind \in cloud}

-----------------------------------------------------------------------------
(* The parts of the commands. *)

Ends(outcome) == task' = "idle" /\ result' = outcome
Continues(part) == task' = part /\ UNCHANGED result
KeepsCounts == UNCHANGED <<absent, checks>>
KeepsCloud == UNCHANGED cloudVars
KeepsFiles == UNCHANGED manifestVars

\* plan_session.  An earlier manifest or plan file ends the command.
PlanSession ==
  /\ task = "idle"
  /\ \/ /\ ~Exists /\ plan = "none"
        /\ \/ Continues("journal_plan") /\ plan' = "fresh"
           \/ Ends("error") /\ UNCHANGED plan
     \/ /\ Exists \/ plan # "none"
        /\ Ends("error") /\ UNCHANGED plan
  /\ UNCHANGED <<mode, session, manifest, cloudVars>> /\ KeepsCounts

Planned == [NoManifest EXCEPT !.status = "planned", !.tier = session]

JournalPlan ==
  /\ task = "journal_plan"
  /\ Write(Planned)
  /\ Ends("ok")
  /\ UNCHANGED <<mode, session, plan>> /\ KeepsCloud /\ KeepsCounts

\* apply_session: it asks for the approved plan file, not for a status.
ApplySession ==
  /\ task = "idle"
  /\ \/ /\ Loads /\ plan # "none"
        /\ \/ plan = "fresh" /\ Build({"foundation"}) /\ Continues("journal_apply")
           \/ plan = "fresh" /\ BuildFails({"foundation"}) /\ Ends("error")
           \/ plan = "stale" /\ Ends("error") /\ UNCHANGED <<cloud, managed, plan>>
     \/ /\ ~Loads \/ plan = "none"
        /\ Ends("error") /\ UNCHANGED <<cloud, managed, plan>>
  /\ UNCHANGED <<mode, session, manifest, instance, late, gap>> /\ KeepsCounts

JournalApply ==
  /\ task = "journal_apply"
  /\ WriteStatus("applied") /\ Ends("ok")
  /\ UNCHANGED <<mode, session, plan>> /\ KeepsCloud /\ KeepsCounts

\* destroy_session reads the manifest only where there is one.
CallDestroy ==
  /\ task = "idle"
  /\ IF Exists /\ ~Loads THEN Ends("error") ELSE Continues("terraform_destroy")
  /\ UNCHANGED mode /\ KeepsFiles /\ KeepsCloud /\ KeepsCounts

TerraformDestroy ==
  /\ task = "terraform_destroy"
  /\ \/ Remove(managed, managed) /\ Continues("journal_destroy")
     \/ \E gone \in SUBSET managed : Remove(gone, gone) /\ Ends("error")
  /\ UNCHANGED <<mode, session, manifest, instance, late>> /\ KeepsCounts

\* The manifest is written before the telemetry is waited for.
JournalDestroy ==
  /\ task = "journal_destroy"
  /\ IF Exists THEN WriteStatus("destroyed_pending_verification") ELSE UNCHANGED manifest
  /\ IF mode = "async" THEN Continues("stack_absence") ELSE Ends("ok")
  /\ UNCHANGED <<mode, session, plan>> /\ KeepsCloud /\ KeepsCounts

\* terraform state list, then every native category but the telemetry itself.
CheckStackAbsence ==
  /\ task = "stack_absence"
  /\ \/ /\ managed = {}
        /\ NativeInventory \ {"container_insights_log_groups"} = {}
        /\ Continues("telemetry") /\ absent' = 0 /\ checks' = 0
     \/ Ends("error") /\ KeepsCounts
  /\ UNCHANGED mode /\ KeepsFiles /\ KeepsCloud

\* Variant that is satisfied one quiet check too early.
CheckTelemetryImpatient ==
  /\ task = "telemetry"
  /\ checks' = checks + 1
  /\ \/ /\ "telemetry" \in cloud
        /\ cloud' = cloud \ {"telemetry"}
        /\ absent' = 0
     \/ /\ "telemetry" \notin cloud
        /\ absent' = absent + 1
        /\ UNCHANGED cloud
  /\ IF absent' >= QuietChecks - 1
       THEN Ends("ok") /\ UNCHANGED gap
       ELSE IF checks' < MaximumChecks
              THEN /\ Continues("telemetry")
                   /\ gap' = IF gap < QuietChecks THEN gap + 1 ELSE gap
              ELSE Ends("error") /\ UNCHANGED gap
  /\ UNCHANGED <<mode, managed, instance, late>> /\ KeepsFiles

\* Variant that makes one check more than the maximum.
CheckTelemetryOnceMore ==
  /\ task = "telemetry"
  /\ checks' = checks + 1
  /\ \/ /\ "telemetry" \in cloud
        /\ cloud' = cloud \ {"telemetry"}
        /\ absent' = 0
     \/ /\ "telemetry" \notin cloud
        /\ absent' = absent + 1
        /\ UNCHANGED cloud
  /\ IF absent' >= QuietChecks
       THEN Ends("ok") /\ UNCHANGED gap
       ELSE IF checks' <= MaximumChecks
              THEN /\ Continues("telemetry")
                   /\ gap' = IF gap < QuietChecks THEN gap + 1 ELSE gap
              ELSE Ends("error") /\ UNCHANGED gap
  /\ UNCHANGED <<mode, managed, instance, late>> /\ KeepsFiles

\* One check of cleanup_container_insights: a present group is deleted and the
\* absent samples are counted again from zero.
CheckTelemetry ==
  /\ task = "telemetry"
  /\ checks' = checks + 1
  /\ \/ /\ "telemetry" \in cloud
        /\ cloud' = cloud \ {"telemetry"}
        /\ absent' = 0
     \/ /\ "telemetry" \notin cloud
        /\ absent' = absent + 1
        /\ UNCHANGED cloud
  /\ IF absent' >= QuietChecks
       THEN Ends("ok") /\ UNCHANGED gap
       ELSE IF checks' < MaximumChecks
              THEN /\ Continues("telemetry")
                   /\ gap' = IF gap < QuietChecks THEN gap + 1 ELSE gap
              ELSE Ends("error") /\ UNCHANGED gap
  /\ UNCHANGED <<mode, managed, instance, late>> /\ KeepsFiles

\* The count or the deletion fails.
TelemetryCheckFails ==
  /\ task = "telemetry"
  /\ Ends("error")
  /\ UNCHANGED mode /\ KeepsFiles /\ KeepsCloud /\ KeepsCounts

\* verify_destroyed, up to its last inventory.
CallVerify ==
  /\ task = "idle"
  /\ IF Exists /\ ~Loads THEN Ends("error") ELSE Continues("state_absence")
  /\ UNCHANGED mode /\ KeepsFiles /\ KeepsCloud /\ KeepsCounts

VerifyState ==
  /\ task = "state_absence"
  /\ \/ managed = {} /\ Continues("native_absence")
     \/ Ends("error")
  /\ UNCHANGED mode /\ KeepsFiles /\ KeepsCloud /\ KeepsCounts

VerifyNative ==
  /\ task = "native_absence"
  /\ \/ NativeInventory = {} /\ Continues("journal_verify")
     \/ Ends("error")
  /\ UNCHANGED mode /\ KeepsFiles /\ KeepsCloud /\ KeepsCounts

JournalVerify ==
  /\ task = "journal_verify"
  /\ IF Exists THEN WriteStatus("teardown_verified") ELSE UNCHANGED manifest
  /\ Ends("ok")
  /\ UNCHANGED <<mode, session, plan>> /\ KeepsCloud /\ KeepsCounts

\* SIGINT, or SIGTERM where the controller turns it into KeyboardInterrupt:
\* subprocess.run kills the child, write_text leaves the file as it was or torn.
InterruptCommand ==
  /\ task # "idle"
  /\ Ends("error")
  /\ \/ /\ task \in {"journal_plan", "journal_apply", "journal_destroy", "journal_verify"}
        /\ manifest' \in {manifest, TornManifest}
        /\ UNCHANGED plan /\ KeepsCloud
     \/ /\ task = "terraform_destroy"
        /\ \E gone \in SUBSET managed : \E forgotten \in SUBSET gone :
             Remove(gone, forgotten)
        /\ UNCHANGED <<manifest, instance, late>>
     \/ /\ task \in {"stack_absence", "telemetry", "state_absence", "native_absence"}
        /\ UNCHANGED <<manifest, plan>> /\ KeepsCloud
  /\ UNCHANGED <<mode, session>> /\ KeepsCounts

\* The same while Terraform applies the foundation plan.
InterruptApply ==
  /\ task = "idle" /\ Loads /\ plan = "fresh"
  /\ BuildIsKilled({"foundation"}) /\ Ends("error")
  /\ UNCHANGED <<mode, session, manifest, instance, late, gap>> /\ KeepsCounts

CommandStep ==
  \/ JournalPlan \/ JournalApply
  \/ TerraformDestroy \/ JournalDestroy \/ CheckStackAbsence
  \/ CheckTelemetry \/ TelemetryCheckFails
  \/ VerifyState \/ VerifyNative \/ JournalVerify

InitSession(startMode, startSession) ==
  /\ mode = startMode /\ session = startSession
  /\ manifest = NoManifest /\ plan = "none"
  /\ cloud = {} /\ managed = {} /\ instance = startSession
  /\ late = 0 /\ gap = 0
  /\ task = "idle" /\ result = "ok" /\ absent = 0 /\ checks = 0
=============================================================================
