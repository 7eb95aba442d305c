# TrackRelay: formal models and proofs

TrackRelay accepts courier events over HTTP, stores them with the decision they
cause on the state of their shipment, and delivers every accepted event to a
downstream order system through an outbox, an SQS queue and a pool of workers.
Around that core stands a laboratory that measures it: sessions that build and
tear down a deployment on AWS, an experiment that compares a fixed pool of workers
with an elastic one, and ladders of offered rates against the legacy host.
This directory holds TLA+ models of both, TLC configurations that check them on
small instances, and proofs for instances of any size.

## 1. Inventory

| Component | State | Operations | Talks to |
|---|---|---|---|
| Shipment state rule (`domain/shipment.py`) | none (pure) | `evaluate_shipment_transition` | called inside the ingestion transaction |
| Event ingestion (`main.py`, `services/event_persistence.py`) | PostgreSQL tables `shipments`, `events`, `delivery_outbox` | handle a request: checks, SELECT FOR UPDATE, two flushes, commit, resolve a conflict | partners (HTTP), PostgreSQL; then the outbox |
| Delivery outbox (`services/delivery_outbox.py`) | `published_at` of each row, row locks | publish one entry (API), publish a batch (worker relay) | PostgreSQL, queue |
| Delivery queue (`sqs_delivery.py`, `services/delivery_queue.py`) | SQS messages, receive counts, dead-letter queue | send, receive, delete, visibility timeout, redrive | Amazon SQS |
| Downstream worker (`worker.py`, `services/downstream_worker.py`, `services/downstream_delivery.py`) | position in its loop, its batch; table `delivery_attempts` | relay, receive, look for a recorded success, POST, record the attempt, acknowledge | PostgreSQL, queue, downstream system |
| Downstream simulator (`downstream/`) | mode, receipts, idempotency keys, all in memory | receive an event, set the mode, clear | workers, operators |
| Test runs and reconciliation (`models/test_run.py`, `experiments/reconciliation.py`) | table `test_runs` | register, complete, summarise, compare expected with observed in three readings | API, simulator |
| Experiment reset (`services/experiment_reset.py`, `aws_experiment_reset.py`) | all experiment tables, simulator store, queues | inspect, truncate, clear, purge, verify empty | PostgreSQL, simulator, SQS |
| Scaling metrics (`scaling_metrics.py`) | quiet window and last sample of each API replica | sample demand, publish | PostgreSQL, CloudWatch, whose alarms set the number of workers |
| Elasticity experiment (`aws_fixed_control.py`, `aws_elastic_treatment.py`, `aws_elasticity_transition.py`, `aws_elasticity_report.py`) | stage, reconciliation readings, saved Terraform plan, verdicts | load, drain, reconcile, collect, qualify, reset, add the policy, replay, compare | all of the above |
| AWS session (`aws_session.py`, `aws_teardown.py`) | `session.json`, Terraform plan and state, cloud resources | plan, apply, destroy, clean telemetry up, verify | Terraform, AWS |
| Session programs (`aws_async_deployment.py`, `aws_elasticity_session.py`, `aws_vertical_scaling_session.py`, and the commands of each experiment) | checkpoint in `session.json`, evidence directories, phase and step of the controller | a table of steps, each with the status it needs and writes; cleanup by the controller or by its owner | the session, Terraform |
| Rate ladders (`aws_rehost_workload.py`, `aws_vertical_scaling.py`, `experiments/legacy_baseline.py`) | stage and rate of the driver, SSM command, sampler containers, evidence | prepare, sample, load, stop, gather, collect, reset, summarise | the host over SSM |
| Partner adapters, shipment history, request timing, generator, scenarios | none or buffers | pure translation, queries, sampling | ingestion, experiments |
| Evaluation (`experiments/performance.py`, `slo.py`, ...) | none | thresholds on recorded measurements | files |
| Observation and reports (`aws_*_report.py`, CloudWatch collection) | evidence files | collect, format | AWS |

What is hard in this system:

* **Interleaving.** Request threads share rows under PostgreSQL locks and unique
  keys; an absent row cannot be locked. The API and every worker publish from
  the same outbox. Two workers can hold the same message.
* **Failure between steps.** A send that raises may have happened; a commit that
  raises may have happened; a process may end anywhere; a batch may fail halfway.
  An interrupt may fall between Terraform and the write of the manifest, or cut
  that write and leave a file that no command can read.
* **Ordering.** Couriers report late and out of order; a standard queue reorders.
* **Timeouts.** The visibility timeout may end while a message is processed; the
  HTTP client may give up on a call that the simulator still records; an SSM waiter
  may give up on a command that still runs.
* **What comes back.** ECS re-creates a log group that was deleted; a late request
  records an event behind a reset; a detached sampler survives its driver.
* **Stale and split readings.** Queue counts are approximate; a reconciliation reads
  receipts, events and deliveries at three times; load and samples are timed by
  the clocks of two machines.
* **Eventually.** Every accepted event is to be delivered or dead-lettered; every
  session, experiment and ladder is to end, and to leave nothing running.

What makes each part correct is stated as a property next to its module (section
4); `PROJECT.json` lists the hazards at their lines with the properties that
cover them, and the three that nothing covers.

## 2. Modules

```
ShipmentTransition            the pure rule
  +-- IngestionContract       payloads, rows, answers
        +-- SerialIngestion   abstract: one request at a time
        +-- EventIngestion    the transactions; refines SerialIngestion
              +-- MCEventIngestion       small instances
              +-- EventIngestionProofs   (+ ShipmentTransitionProofs)

DeliveryOutbox  DeliveryQueue  DownstreamWorker  DownstreamSimulator
  +-- EventDelivery           composes the four; refines DeliveryPromise
        +-- MCEventDelivery   small instances
        +-- EventDeliveryProofs
DeliveryPromise               abstract: owed, delivered or parked

CloudSession                  manifest, Terraform, cloud, the commands of a session
  +-- SessionWorkflow         the programs of steps and their cleanup
        +-- MCSessionWorkflow
        +-- SessionWorkflowProofs
              +-- SessionSafetyProofs, SessionEmptinessProofs

RunRecords                    what the stores hold of two test runs
  +-- ScalingMetrics          publishers, quiet window, alarms
        +-- ElasticityExperiment   the controller of both treatments
              +-- MCElasticityExperiment, ElasticityExperimentProofs

RehostHost                    the host behind SSM, its samplers
  +-- RateLadder              the driver of a ladder
        +-- MCRateLadder, RateLadderProofs
```

The last three groups look at the core from outside: what a step of `EventIngestion`
or `EventDelivery` does in several actions is one action of `RunRecords`, and a
whole measurement is one step of a `SessionWorkflow` program.

### Ingestion

`EventIngestion` has one action per statement of `persist_normalized_event` that
another transaction can observe or wait for. `pc` is the statement a request is
at; `shipments`, `events`, `outbox` are the committed rows; `lock` is the owner of
the `FOR UPDATE` lock of a row; `seen` is the shipment row a transaction has read.

| Action | Code |
|---|---|
| `ReceiveRequest` | `ingest_partner_event` up to `persist_event`: partner lookup, 404/403/400, validation (422), normalization |
| `SelectShipment` | the SELECT ... FOR UPDATE: waits for the owner of an existing row, locks nothing when there is none |
| `FlushShipment` | decision and first `flush`: INSERT of a new shipment waits for an uncommitted one and may violate the primary key |
| `FlushEvent` | second `flush`: waits for an uncommitted event of the same key; unique or foreign key violation rolls back |
| `Commit` | outbox row, commit, answer 201 |
| `ResolveConflict` | `except IntegrityError`: answer the original (200) or raise again (500) |
| `LoseConnection`, `CommitUnconfirmed` | any statement may fail; a commit may take effect without confirmation |

The isolation level is READ COMMITTED (`database.py` sets none and PostgreSQL's
default applies). The handler's publication after the commit belongs to
`EventDelivery`. Event ids (uuid4) are identified with the request that inserted
the row; timestamps are naturals; `(partner_id, partner_event_id)` is one key.

### Delivery

`EventDelivery` composes the outbox rows, the queue, the workers and the simulator;
each of the four modules declares its own variables and the operations on them,
and the composition says which happen together and what they disturb.

| Action | Code |
|---|---|
| `Accept` | the commit of the ingestion transaction |
| `ApiSelect`, `ApiEnqueue`, `ApiCommit`, `ApiPublicationFails` | `publish_delivery_outbox_entry` called by the handler, and its `except` |
| `RelaySelect`, `RelayEnqueue`, `RelayCommit`, `RelayFails` | `publish_pending_delivery_jobs` called by `run_worker`, and its `except` |
| `Receive`, `ReceiveNothing` | `receiver.receive()` |
| `TakeMessage`, `RejectInconsistent` | `process_downstream_delivery_message` up to the call; `RecordedDeliveryInconsistentError` |
| `CallSucceeds`, `CallRefused`, `CallTimesOut`, `CallLost`, `CallUnclassified` | the POST of `deliver_normalized_event` against `receive_event` in each mode, and each way it can end |
| `ReadLastNumber`, `InsertAttempt` | the two statements of `record_delivery_attempt`, run in the `finally` block; the exception is raised again after a failed call |
| `Acknowledge` | `DeleteMessage`, with a current or a stale receipt handle |
| `MessageFails` | a failure inside `process_worker_batch`, which isolates it |
| `WorkerGoesDown`, `WorkerStarts` | a crash, a receive error or SIGTERM at any point; the restart by the orchestrator |
| `VisibilityTimeout`, `Redrive` | Amazon SQS |
| `RecordLate`, `SetMode`, `RestartSimulator` | the simulator |

SQS is external and modelled from how the adapters use it: at least once, no
order, a receipt handle that goes stale, a visibility timeout, a redrive policy.
A SIGTERM lets the code finish its batch; the model also lets the process stop
at once, which includes that case. A long poll that returns nothing although
messages are visible is left out: it only repeats the loop.

### Sessions

`CloudSession` is one session: the manifest `session.json` (status, tier, journaled
target), the saved plan, the resources that exist (`cloud`) and those Terraform's
state lists (`managed`). A command is cut where an interrupt or the operator can see
it: `task` names the part that is next.

| Action | Code |
|---|---|
| `PlanSession`, `JournalPlan` | `plan_session`: Terraform writes the plan, then the manifest says "planned" |
| `ApplySession`, `JournalApply` | `apply_session`, whose Terraform may fail half-way or be killed with resources it has not recorded |
| `CallDestroy`, `TerraformDestroy`, `JournalDestroy` | `destroy_session`: Terraform, then the manifest says "destroyed_pending_verification"; in async mode the telemetry cleanup follows |
| `CheckStackAbsence`, `CheckTelemetry`, `TelemetryCheckFails` | `cleanup_container_insights`: quiet checks in a row, at most `MaximumChecks` |
| `CallVerify`, `VerifyState`, `VerifyNative`, `JournalVerify` | `verify_destroyed`: empty state, empty native inventory (`aws_teardown.py`), status "teardown_verified" |
| `InterruptCommand`, `InterruptApply` | KeyboardInterrupt or a kill in any part, also one that tears the manifest |
| `TelemetryArrives` | Container Insights re-creates the performance log group (external) |

`SessionWorkflow` adds the controllers. A program is a sequence of phases, a phase a
sequence of steps, and a step a record of what its function demands of the manifest
(`needs`), does to the cloud (`effect`, `builds`), claims (an evidence directory made
with `exist_ok=False`) and writes (`writes`, `rejects`). `Programs` lists the
seventeen commands of the controllers. `JournalPhase`, `DoStep`, `RecordStep` run a step;
`StopMigrationTasks`, `SessionMatchingManifest`, `Destroy`, `Verify`, `AfterCleanup`,
`JournalEnd` are the cleanup of a controller and then that of `_CleanupOwner`;
`Interrupt` may strike each of them; `ManualCommand` and `NameTier` are an operator
who plans, destroys or verifies by hand, in any order and for any tier.

### Elasticity experiment

`RunRecords` keeps per event where it is (row, outbox, queue, worker, simulator, receipts,
whether it has an attempt and whether a successful one) and counts the attempts; queue
counts may be wrong in both directions. `ScalingMetrics` keeps each API replica's quiet
window and the alarms; `ElasticityExperiment` moves a controller through `stage`.

| Actions | Code |
|---|---|
| `SendRequest` ... `LateCall`, `DeliveryStep` | ingestion and delivery of one event, with lost requests and workers, expiring visibility, and a call the simulator records up to `CallLife` ticks late |
| `PublishSlot`, `ScaleOut`, `ScaleIn` | `ScalingMetricsPublisher` and `QuietWindow`; the alarms and policies of Terraform (external) |
| `Register`, `Sample`, `EndLoad`, `Complete` | test run, k6 with capacity samples, completion |
| `ReadSummary`, `ReadQueues`, `ReadReceipts`, `ReadEvents`, `ReadDeliveries`, `Judge` | settlement, the stable drain, and the reconciliation with its three readings |
| `CollectMetrics`, `Qualify` | CloudWatch collection with retries; the verdict of a treatment |
| `Inspect`, `InspectBefore`, `Truncate`, `Clear`, `InspectAfter`, `Purge`, `EndPurge`, `VerifyEmpty`, `Absent` | the reset between the treatments |
| `PurgeStep` | SQS removes a message while the controller waits, visible, dead or in flight, or none at all (external) |
| `PreApply`, `PlanPolicy`, `ValidatePlan`, `Apply`, `VerifyNative`, `PostApply` | the transition: any plan Terraform may compute, and its validation |
| `BuildComparison` | the claim of `aws_elasticity_report.py` |
| `Tick` | one slot of the publishers while the controller sleeps |

Time is counted in slots: a sample is in its slot, late enough to be in none (missed), or
failed. One that is late within the tolerated gap of `QuietWindow` is not told apart from
one on time.

### Rate ladders

`RehostHost` is the EC2 host: runs and samplers, and the payload of every SSM command
(`PreparePoint`, `LaunchSampler`, `AwaitReady`, `StopSampler`, `GatherSampler`,
`CleanSampler`, `Probe`, `CollectPoint`, `ResetPoint`). A command is sent, perhaps
delivered (`RunCommand`, `RunStart`, `ExpireCommand`) and perhaps observed; when its
waiter gives up it becomes one of `strays`, which may still run (`RunStray`).

| Actions of `RateLadder` | Code |
|---|---|
| `Send`, `Observe`, `SubmitFails`, `GiveUp` | `_run_ssm` and its waiter |
| `RejectEvidence`, `ObserveError` | a failed command or unreadable evidence |
| `RetryProbe`, `RetryCollection` | the recovery probe, and a collection that certainly was never delivered |
| `TakeSnapshot`, `EndLoad`, `ReadSummary`, `ValidateTimeline` | k6 and the comparison of its window with the samples |
| `Derive`, `ObserveReset`, `Summarise` | the verdict, the reset of a tier, the envelope |
| `Kill`, `Tick`, `SamplerCrashes` | the driver dies, by an exception (which ends k6) or a kill (which may not); time; the sampler's container dies |

Only an undeliverable command with response code -1 lets a collection be sent again.
A ladder that failed cannot be started again in its directory. The verdict of a rate
is nondeterministic: it is that of latencies and of a reconciliation outside the model.

### Variants

Operators whose comment begins with "Variant" are not part of any specification.
Each is a plausible mistake in the code it stands beside (a dropped lock, a
missing condition, a swallowed exception); substituting it for the definition
that follows it makes the property named for it in `PROJECT.json` fail.

## 3. Runs and bounds

| Run | Instance | Shows |
|---|---|---|
| `ingestion_safety` | 3 requests, 3 keys, 1 shipment, 3 statuses, 2 times, failures | type and safety invariants, no regression, refinement of `SerialIngestion` |
| `ingestion_answers` | 3 requests, 2 keys, 2 shipments, all early answers, an unknown test run | every request is answered |
| `ingestion_first_events` | 2 requests, a database that never fails | finding 1 |
| `delivery_workers` | 1 event, 2 workers, 3 messages, 2 receives, 3 disturbances | invariants of delivery, safety part of `DeliveryPromise` |
| `delivery_batches` | 2 events, 2 workers, 4 messages, batches of 2, 1 disturbance | partial batches |
| `delivery_settles` | 1 event, 2 workers, 3 messages, modes HEALTHY and RETURN_500, 2 disturbances, fairness | `DeliveryPromise` with its liveness |
| `delivery_unclassified` | 1 worker, 2 disturbances | finding 2 |
| `delivery_replay` | 2 workers, 1 disturbance | finding 3 |
| `session` | both deployment modes; 3 commands and 2 interrupts (async), 10 and 1 (rehost); 3 quiet checks of at most 4; 1 late delivery | what a session says of its teardown, and that its programs end |
| `session_vertical` | rehost, 3 commands, 1 interrupt, 2 quiet checks of at most 3 | finding 4 |
| `elasticity` | 1 event per treatment, 2 replicas, calls that live 3 ticks, a purge of 1 tick, a verification of 3, 2 faults | both treatments, the reset and the transition between them |
| `rates` | 3 rates, both ladders, 3 differences of the clocks, 3 faults | what is counted, and what is left running |

Why these are enough to be interesting. Three requests are the fewest where one
transaction commits, a second waits for it and a third reads between them. Three
statuses give a first, a middle and the terminal one, two times the orders
before, equal and after. Delivery of one event already involves two publishers
(API and relay) and two consumers; a second event is needed only for batches.
`MaxReceiveCount` 2 (5 in production) gives a first receive, a retry and a redrive.
A rehost session needs ten commands to go through every step once by hand; three async
commands are a plan, an experiment and one repair; the experiments that are started by
themselves on a deployed session (fixed, reset, transition, elastic) need more and never
start in TLC, so that only the safety theorems speak of them. Three quiet checks of four
leave room for one late delivery that restarts the count and for one that exhausts it. One event per
treatment can be lost, late or counted twice, but a treatment of one cannot lose it and
still be complete; the theorems of section 6 hold for any workload, and the run was
repeated beside the suite for its invariants with two events, one replica, calls and a
verification of 2 ticks and one fault (3.6 million states).
Two replicas let one miss what the other saw. Three rates give an envelope that is closed,
open and reopened.

Bounds: `MessageIds` bounds the messages ever sent; each run has one more than its
failures can use up for one event, or lets the other worker go on when a relay
finds none left. `MaxDisturbances` and `MaxFaults` bound everything that goes wrong (a
crash, an ambiguous send, a lost call, a visibility timeout under a worker that still
holds the message, a mode change away from HEALTHY, a restart, a missed slot, a wrong
queue count, an undelivered or unobserved command). Liveness is asked of a system that
is left alone after these. The times of `elasticity` are chosen to make each wait matter and
not to scale: the load ends after the peak, deadlines leave room for one disturbance, the
verification outlasts a call; `LoadTicks` 5, `CallLife` and `VerifyTicks` 3, and the rest
at 1 or 2. `LongestLoad` 5 exceeds `SamplerTimeout` 3, so that a sampler may give up during a load.

Two things matter in `elasticity`. A call that was begun before the verification first saw
an empty system is dead before that has lasted long enough (`CallLife` <= `VerifyTicks`: an
HTTP timeout of 5 seconds, `config.py:49`, against a literal 30,
`aws_experiment_reset.py:133`). The wait for the purge would not do: a worker whose
message the purge removes in its last moment goes on with its request. The drain cannot be
relied on for that: with two events a request abandoned by k6 may be stored after the drain
was confirmed and still before the reconciliation reads the events, so a call of it may
start as late as the purge. And an approximate queue count may be wrong, each time at
the price of a fault: counts that lie in *every* reading of the reset's verification would
let a message of the fixed treatment survive. Section 6 says which of them must be true.

Deadlock is checked in every ingestion and delivery run; the session, `elasticity` and
`rates` runs switch it off because programs, experiments and ladders really end.

Symmetry is used in safety runs of ingestion and delivery only: over requests and keys,
and over workers and messages. No property or CHOOSE tells them apart.

Fairness. `EventIngestion`: a request thread that can take its next statement does,
since the server runs each request on a thread of its own and PostgreSQL resumes a
waiter when the lock is free. `EventDelivery`: weak fairness of each worker's own
steps, including its restart (ECS replaces a stopped task), of each open API
publication, and of SQS making an unheld message visible again and redriving it.
`SessionWorkflow`: weak fairness of the controller and of the command it has called, one
sequential process. `ElasticityExperiment`: of the controller and of time, because every
sleep of it ends; nothing is assumed of workers or telemetry, whose absence a deadline ends.
`RateLadder`: of the driver, of a command that was delivered (SSM runs it to its
end or its execution timeout), and of time. Nothing is assumed of clients, operators,
or failures. No strong fairness is needed.

## 4. Properties

Ingestion (`EventIngestion`): `DurableAcceptance` (a 201 means a stored event and
outbox row), `DuplicateNamesOriginal` (a key is stored once; a 200 names that
event, also after a race), `RowIsLastApplied` (the shipment row is the last applied
event), `ArrivalOrderIrrelevant` (reports whose times agree with their statuses lead
to the same state in any order), `ShipmentNeverRegresses`, `ImplementsSerialIngestion`
(refinement), `EveryRequestAnswered` (no lock cycle).

Delivery (`EventDelivery`): `NoEventLost` (a published event has a live or dead
message, or a recorded success), `AcknowledgedIsRecorded`, `OneEffectPerEvent` (the
downstream system holds the event at most once, and once when a success is
recorded, unless it lost its memory), `AttemptsAreNumbered` (1, 2, 3, ... whichever
workers race), `UndisturbedIsExactlyOnce` (without failures one message and
no dead letter), `PublishedIsFinal`, `KeepsPromise` and `FulfilsPromise` (refinement of
`DeliveryPromise`, without and with liveness).

Sessions (`SessionWorkflow`): `CompleteIsEmpty` (a reported success leaves an account that
is empty and stays so), `ServicesOnMigratedSchema`, `MeasuredTierIsDeployed` (also when a
change of tier was cut between Terraform and the manifest), `VerifiedOnAbsence`,
`OneTeardown` (controller and owner destroy once between them), `CleanupReachesTerraform`
(who enters the cleanup leaves it behind a destroy, except for the two ways of finding
4), `EveryProgramEnds` (checked for the programs that the run's commands can reach).

Experiment (`ElasticityExperiment`): `CompleteIsMeasured` (a measurement that counts as
complete is one of every event, and stays so), `TreatmentsIsolated` (nothing of the fixed
treatment is there, or comes back, when the elastic one starts), `QuietIsReal` (the
alarm that releases workers has a replica behind it that saw every slot calm),
`InterventionIsThePolicy` (the treatments differ by the frozen policy and nothing else),
`DemonstratedIsEarned` (the claim of the report: all workers were there at some time of the
elastic load, and both treatments were measured in full), `ExperimentEnds`.

Ladders (`RateLadder`): `CollectedOnce`, `CoveredForReal` (samples of every counted point
cover its load, although two clocks are compared), `NoSamplerLingers` (a load has its own
sampler only), `EnvelopeIsConsecutive`, `MeasurementEnds` (in the end no sampler runs,
even behind a dead driver).

## 5. Findings

1. **A new shipment's second first event can fail.** Two different events of a
   shipment without a row race; the loser's INSERT violates the primary key, and
   since no event has its key the `IntegrityError` is raised again: 500, event not
   stored (`event_persistence.py:91-100`). The docstring promises to resolve the race.
   The client may retry, so nothing accepted is lost.
2. **An unclassified exception is recorded as DELIVERED.** `result` starts as
   `DELIVERED`; an exception that is neither `HTTPStatusError` nor `TransportError`
   (an undecodable body) leaves it so (`downstream_delivery.py:106-126`). Every later
   receive fails as inconsistent, and the event is dead-lettered.
3. **A replay is not always suppressed.** The check for a recorded success and the
   call are not atomic; with a visibility timeout in between two workers call. The
   idempotency key keeps the effect single.
4. **The vertical-scaling cleanup is not unconditional.** `_session_matching_manifest`
   runs between the workflow's `except` and the first `try` of the cleanup
   (`aws_vertical_scaling_session.py:195`); an interrupt there, or a manifest torn by an
   earlier one, ends the session before Terraform's destroy is called. The docstring
   (line 159) says "unconditionally clean up". An operator can still destroy by hand
   once the manifest is readable.

An observation without a run: the rehost host (`deploy/rehost/compose.yaml`) leaves the
delivery queue at its default `recording` adapter and starts no worker, so an accepted
event gets no delivery attempt there, although `docs/aws-vertical-scaling-experiment.md:7` and
`docs/aws-rehost-architecture.md:21` call that runtime synchronous. This is why the
verdict of a rate is left open in `RateLadder`.

## 6. Proofs

Eight modules hold proofs. Assumptions are the named ASSUMEs of the modules they extend
(times and events are numbered by naturals, null values are not values, batches, receive
counts, rates and collection attempts are positive, stores are finite, quiet checks are at
least two, a call is dead before the verification may end); TLC evaluates them in the runs.

### Core

`ShipmentTransitionProofs`: the rule moves only forward (`AppliedMovesForward`) and
rejects only what is older or not ahead (`RejectedIsBehind`).

`EventIngestionProofs` proves, for every set of requests, keys, shipments, times
and payloads, that `Spec` implies every safety property above and implements
`SerialIngestion`. The properties are not inductive by themselves: that a commit
decides on the current row follows from what the transaction holds, so `IInv` adds

* `LockInv`: a transaction that read a row owns its lock and the row is unchanged;
* `InserterInv`: an uncommitted INSERT of a shipment is the only one and there is no row;
* `EventKeyInv`: an uncommitted INSERT of an event is the only one of its key and no
  event has it;
* `StoredInv`, `RequestInv`: stored events belong to finished requests, and the life
  of a request;
* `HistoryInv`: every stored event is older than the row or not ahead of it, which
  gives `ArrivalOrderIrrelevant`.

`CommitOnCurrentRow` draws the consequence (the row that was read is the row that
is replaced), and the history lemmas and the refinement rest on it.

`EventDeliveryProofs` proves, for every set of events, workers and messages, every
batch size, redrive policy and number of disturbances, every safety property of
delivery, and that `Spec` implements the safety part of `DeliveryPromise`. It goes in four
stages.

* `TypeInv` adds to `TypeOK` that a sent message has a job and that a worker which is
  processing a message holds its handle, an outcome and a number when it needs them.
* `DeliveryInv` adds `ReceiptInv` (a handle names a sent message and carries its job),
  `OwnerInv` (only pending rows are locked), `AckInv` (a worker at its DeleteMessage has
  a success on record), `CarriedInv` (what an open publication has sent is already on its
  way) and `AcceptedInv`. `NoEventLost` alone is not inductive: a commit publishes rows
  because of what its transaction has sent before.
* `EffectInv` (receipts go with keys; an accepted call has its key) and `NumberInv` (a
  number read by a worker is one of the rows, so a free successor is the next one) are
  two further invariants, for `OneEffectPerEvent` and `AttemptsAreNumbered`.
* `CalmInv`, for `UndisturbedIsExactlyOnce`, holds while nothing has failed: a sent message is
  the only one of its event, whose row is published or about to be, and is received at most
  once (`MessageOnce`); every handle is current and the only one of its message
  (`HandleOnce`); every call succeeds and finds its number free (`CallOnce`). The property
  says nothing of handles or calls, but a stale handle or a refused call would bring the
  message back, and its last receive would redrive it.

The frame lemmas `MessagesMove`, `AttemptsMove`, `OutboxMoves`, `WorkersMove` and
`SimulatorMoves` say once, over all actions, how a step may change each part of the
state; the invariants and the refinement follow from these and not from the actions.

### Sessions

`SessionWorkflowProofs` proves `ServicesOnMigratedSchema`, `VerifiedOnAbsence` and
`OneTeardown` for any number of commands, interrupts, checks and late deliveries. First
lemmas about the table of programs: every phase is one of a list, every step writes and
rejects only what it may, and a step that builds services stands behind one that demands
the status of a successful migration. Then one invariant:

* `ShapeInv`, `Position`: the manifest has its fields, and a program that runs is at one
  of its phases and steps;
* `SchemaInv`: that status, a recorded step that demanded it, and services in the cloud
  each stand for a migration that succeeded. The property alone is not inductive: what the
  status said when the step before was checked must be carried to the build;
* `AbsenceInv`: between the native inventory and the write nothing but telemetry appears;
* `TeardownInv`: once a destroy was begun the owner is told so, or nobody is on the way
  to another.

`SessionSafetyProofs` goes on with the types, the tier and the cleanup, `SessionEmptinessProofs`
with the account.

* `TierInv`, for `MeasuredTierIsDeployed`: a manifest that is ready for a measurement names
  the type the host has, and a resize goes to the target that was journaled before it
  (`ReadyInv`, `AimInv`); before the ladder is defined the host is the one the session began
  with (`DefinitionInv`).
* `CleanupInv`, for `CleanupReachesTerraform`: a cleanup reaches its destroy with the session
  that the manifest names (`MatchInv`), and behind its attempt one was begun unless the
  manifest is unreadable (`TriedInv`). The two exits of finding 4 remain.
* `EmptinessInv`, for `CompleteIsEmpty`: the flags of a cleanup are set in their order
  (`StageInv`); what plan, manifest and command say of the account (`AccountInv`); from a
  destroy without an error to the end of the program nothing is held and no telemetry will
  arrive any more, and behind the verification nothing is left (`QuietInv`); what was
  reported at the end stays true because no command can build from there (`CompleteInv`,
  `ReportedInv`). `QuietStays` and `DestroyedIsQuiet` are the lemmas that carry it:
  telemetry that is absent for enough checks in a row has been delivered or never will be.

### Elasticity experiment

`ElasticityExperimentProofs` proves `CompleteIsMeasured` and `InterventionIsThePolicy` for
any workload, number of replicas, times and faults. The stores only grow outside
`Truncate` and `Clear`, so what the reconciliation has read at one time is still there
when it reads the next store (`ReadingInv`); and a plan that is applied has been
validated, whatever Terraform planned (`PolicyInv`). `OrdinaryKeeps` covers every step
that is neither a reading, a decision, the reset nor the transition.

* `TypeInv` bounds the clock stage by stage (`CounterInv`), which the type alone cannot.
* `WindowInv`, for `QuietIsReal`: the window of a replica whose last sample was taken is no
  older than the calm it has seen, and the alarm takes the youngest of those published. A
  missed slot makes the window older and ends the calm; the gap test of `QuietWindow` is why
  the next sample does not count that window.
* `PeakInv` and `QualifiedInv`, for `DemonstratedIsEarned`: there is one worker until the
  policy is applied, the peak of a load is what its samples have seen or more, and what
  has qualified keeps the observations that it qualified with.

`TreatmentsIsolated` cannot hold for every number of faults, since queue counts may lie in
every reading. Two theorems say what it rests on.

* `IsolationRestsOnOneReading`: if the *last* reading of the queues before the verification
  ends is true, the treatments are isolated, whatever was lost, late or wrong before.
* `IsolationOutlivesTwoFaults`: they are isolated with at most two failures of any kind.

Both rest on `RemovedInv` (behind the truncation there is no run to store an event for, so
nothing is published or delivered any more) and `RequestInv` (while the system is seen empty
a call grows older, and is dead when the verification may end, unless a worker sent it behind
the purge; then its message can never be delivered, and the queues or the dead letters show it
for ever). The second adds `PaidInv`, which counts: a
message that is there behind the inspection was not seen by it, or was sent again by an outbox
entry whose publisher had died before it marked it (`UnmarkedInv`), one failure either
way; and a message behind an empty observation of the verification makes it two. Two is
the most: with two events TLC finds the three failures that break the property (an entry
sent but not marked, stored after the drain and sent again behind the inspection, and a
count that lies in both looks of a verification of one tick).

### Rate ladders

`RateLadderProofs` proves `CollectedOnce`, `CoveredForReal` and `NoSamplerLingers` for any
number of rates, retries and faults, and any difference of the clocks. `CommandInv` says
that the open command belongs to the present stage and rate and that strays run only
behind a cleanup or the end; `SamplerInv` keeps the sampler of the rate in step with the
stages and every other one absent; `MissedInv`: a load that was not observed has lost its
sampler for good, so its samples cannot be gathered; `CompletionInv` counts what a
collection has done and may still do.

`AttemptInv` bounds the retries, for `TypeOK`. `SummaryIsEnvelope` is about the fold over the
results, `Envelope`, a recursive function. The prover cannot use induction over a predicate, so
`EnvelopeIsEnvelope` takes the least length at which the claim fails (from the
well-foundedness of the naturals) and refutes it with one step of `Extend`; that the
function satisfies its equation (`EnvelopeUnfolds`) is shown the same way.

### Model-checked only

Liveness: `EveryRequestAnswered`, the liveness of `FulfilsPromise`, `EveryProgramEnds`,
`ExperimentEnds` and `MeasurementEnds`. Fairness and ENABLED are beyond the prover. Every
other property of a passing run is stated by a theorem; of these only `TreatmentsIsolated`
has a hypothesis beside the specification, another one in each of its two theorems. The fault
bound of its run is that of the second.

## 7. Not modelled, and the plan

Not modelled: the partner adapters (ingestion sees valid or invalid), shipment history and
other read-only queries, request timing, the latency and error thresholds of the evaluation
modules, configuration and health, the CPU-credit gate of vertical scaling
(`aws_vertical_scaling.py:544-645`), the read-only preflight of a session, and the
bodies of the integration, canary and diagnostic measurements, each one step of a program.
Four places are coarser than the code:

* A publisher that loses its database session in the middle of a batch goes on sending
  without its locks (`delivery_outbox.py:78-81`); in `EventDelivery` it stops there, so that
  `PublishedIsFinal` speaks of publishers whose session lives. The duplicate is one that
  workers suppress, as they do that of an ambiguous commit.
* `load_manifest` at the head of `destroy_session` (`aws_session.py:315`), and the lines between
  an `except` and the first `try` behind it (`aws_async_deployment.py:922-930`), are not
  interrupted.
* `RateLadder` is one ladder. The load generator that a killed driver leaves behind, and a
  sampler that would disturb a later ladder, are outside `NoSamplerLingers`;
  `MeasurementEnds` says that the sampler ends.
* Time in `ScalingMetrics` is that of the slots (section 2).

Left out for good: formatting of reports, CloudWatch parsing, infrastructure files beyond
the alarms and policies.

Next:

1. An abstract specification of the life of one event that both `EventDelivery` and
   `RunRecords` implement, so that a delivery step of the experiment is tied to the detailed
   model by a proof and not by the reading of the same code.
2. The CPU-credit gate, and the integration measurement as a program of its own.
3. A timed model of one worker batch, for the relation between the HTTP timeout, the
   batch size and the visibility timeout (`config.py:94`).
4. The generator and its scenarios as payload sequences over `EventIngestion`.
5. Two controllers that complete the same test run (`main.py:491`).
