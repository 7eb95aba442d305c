----------------------------- MODULE RateLadder -----------------------------
(***************************************************************************)
(* One ladder of offered rates against the rehost: execute_rehost_workload *)
(* (every rate, nothing reset between) and                                 *)
(* run_current_vertical_scaling_tier (a reset after every rate, the end at *)
(* the first that fails).  The driver prepares a run, starts the sampler,  *)
(* runs k6, stops and collects the sampler, collects the evidence, and     *)
(* writes down the envelope.                                               *)
(***************************************************************************)
EXTENDS RehostHost, Sequences

CONSTANTS
  Modes,             \* which of "rehost" and "tier"
  Skews,             \* how far the host's clock runs ahead of SkewZero
  SkewZero,          \* ... of the driver's clock
  MaxProbes,         \* SSM_RECOVERY_MAX_PROBES
  MaxCollections     \* SSM_COLLECTION_MAX_ATTEMPTS

ASSUME LadderAssumption ==
  /\ Modes \subseteq {"rehost", "tier"} /\ Skews \subseteq Nat
  /\ SkewZero \in Nat /\ MaxProbes \in Nat \ {0} /\ MaxCollections \in Nat \ {0}

VARIABLES
  mode, skew,      \* fixed when the ladder begins
  stage,           \* where the driver is
  rate,            \* the point it measures
  probes, collections, \* attempts made for the collection of this point
  load,            \* of k6: "none", "open", "broken" or "ended"
  window,          \* the driver's times of its start and its end
  missed,          \* points with a tick of load that no sampler observed
  results,         \* verdicts of the measured points, in order
  summary          \* [maximum, failing], 0 for none

driverVars == <<mode, skew, stage, rate, probes, collections, load, window, missed, results, summary>>
vars == <<hostVars, driverVars>>

Ended == {"done", "failed", "killed"}
NoSummary == [maximum |-> 0, failing |-> 0]

TypeOK ==
  /\ HostTypeOK
  /\ stage \in Kinds \cup {"snapshot", "load", "summary", "validate", "derive", "summarise"} \cup Ended
  /\ rate \in Points /\ probes \in 0 .. MaxProbes /\ collections \in 0 .. MaxCollections
  /\ load \in {"none", "open", "broken", "ended"}
  /\ missed \subseteq Points /\ Len(results) <= Rates
  /\ summary \in [{"maximum", "failing"} -> 0 .. Rates]

Init ==
  /\ HostInit
  /\ mode \in Modes /\ skew \in Skews
  /\ stage = "prepare" /\ rate = 1 /\ probes = 0 /\ collections = 0
  /\ load = "none" /\ window = [started |-> 0, ended |-> 0]
  /\ missed = {} /\ results = <<>> /\ summary = NoSummary

DriverTime == clock + SkewZero
HostTime(t) == t + skew

-----------------------------------------------------------------------------
\* One command at a time.
KeepsHost == UNCHANGED <<runs, completions, samplerVars>>
KeepsTrial == UNCHANGED <<mode, skew, rate, load, window, missed, results, summary>>
Attempts == <<probes, collections>>

Send ==
  /\ stage \in Kinds /\ command = Idle
  /\ command' = [kind |-> stage, point |-> rate] /\ answer' = "none"
  /\ probes' = IF stage = "probe" THEN probes + 1 ELSE probes
  /\ collections' = IF stage = "collect" THEN collections + 1 ELSE collections
  /\ UNCHANGED <<strays, faults, stage>> /\ KeepsHost /\ KeepsTrial

\* What the driver does after the command is observed.
After(kind) ==
  CASE kind = "prepare" -> "start"
    [] kind = "start" -> "snapshot"
    [] kind = "stop" -> IF load = "broken" THEN "clean" ELSE "summary"
    [] kind = "gather" -> "validate"
    [] kind = "probe" -> "collect"
    [] kind = "collect" -> "derive"
    [] kind = "clean" -> "failed"

\* Inside the try of the load an error goes to the cleaner first.
OnError(kind) == IF kind = "stop" THEN "clean" ELSE "failed"

\* SSM refuses the command, or its answer is lost and the command never comes.
SubmitFails ==
  /\ stage \in Kinds /\ command = Idle /\ Fault
  /\ stage' = OnError(stage)
  /\ UNCHANGED <<command, answer, strays, Attempts>> /\ KeepsHost /\ KeepsTrial

Observes(next) ==
  /\ stage' = next /\ command' = Idle /\ answer' = "none"
  /\ UNCHANGED <<strays, faults>> /\ KeepsHost /\ KeepsTrial

Observe ==
  /\ command # Idle /\ stage # "reset" /\ answer = "success"
  /\ Observes(After(stage)) /\ UNCHANGED Attempts

\* The command succeeded, but what it printed is not the evidence; a start
\* cleans up behind an ambiguous readiness, not behind an unreadable one.
RejectEvidence ==
  /\ command # Idle /\ stage \in {"start", "gather", "collect", "reset"} /\ answer = "success" /\ Fault
  /\ stage' \in {"failed"} \cup (IF stage = "start" THEN {"clean"} ELSE {})
  /\ command' = Idle /\ answer' = "none"
  /\ UNCHANGED <<strays, Attempts>> /\ KeepsHost /\ KeepsTrial

\* Variant that repeats whatever did not succeed.
RetriesAnything(a) == a \in {"undelivered", "failed"}

\* _ssm_command_was_never_delivered: the only outcome that permits a retry.
NeverDelivered(a) == a = "undelivered"

\* Variant that counts the attempt it is about to make.
OneMore(n, most) == n <= most

AnotherAllowed(n, most) == n < most

RetryProbe ==
  /\ command.kind = "probe" /\ NeverDelivered(answer) /\ AnotherAllowed(probes, MaxProbes)
  /\ Observes("probe") /\ UNCHANGED Attempts

\* A collection that never ran is sent again behind a fresh recovery gate.
RetryCollection ==
  /\ command.kind = "collect" /\ NeverDelivered(answer)
  /\ AnotherAllowed(collections, MaxCollections)
  /\ Observes("probe") /\ probes' = 0 /\ UNCHANGED collections

Retries ==
  /\ NeverDelivered(answer)
  /\ \/ command.kind = "probe" /\ AnotherAllowed(probes, MaxProbes)
     \/ command.kind = "collect" /\ AnotherAllowed(collections, MaxCollections)

ObserveError ==
  /\ command # Idle /\ answer \in {"failed", "undelivered"} /\ ~Retries
  /\ Observes(OnError(stage)) /\ UNCHANGED Attempts

\* The waiter ends before the command does, and the command goes on alone.
GiveUp ==
  /\ command # Idle /\ answer = "none" /\ Fault
  /\ strays' = strays \cup {command}
  /\ stage' = OnError(stage) /\ command' = Idle
  /\ UNCHANGED <<answer, Attempts>> /\ KeepsHost /\ KeepsTrial

-----------------------------------------------------------------------------
\* The load, between the sampler's readiness and its stop signal.
Goto(next) == stage' = next /\ UNCHANGED <<runs, completions, samplerVars, command, answer, strays, probes, collections>>
Trial == <<mode, skew, rate, missed, results, summary>>

\* One strict reading of the API before k6 is started.
TakeSnapshot ==
  /\ stage = "snapshot"
  /\ \/ /\ Goto("load") /\ load' = "open" /\ window' = [window EXCEPT !.started = DriverTime]
        /\ UNCHANGED faults
     \/ Goto("clean") /\ Fault /\ UNCHANGED <<load, window>>
  /\ UNCHANGED Trial

\* k6 exits, or the driver is interrupted and terminates it.
EndLoad ==
  /\ stage = "load" /\ Goto("stop")
  /\ window' = [window EXCEPT !.ended = DriverTime]
  /\ \/ load' = "ended" /\ UNCHANGED faults
     \/ load' = "broken" /\ Fault
  /\ UNCHANGED Trial

Elapsed == window.ended > window.started

\* A tier wraps its window in a model that refuses an empty one.
ReadSummary ==
  /\ stage = "summary"
  /\ LET refused == mode = "tier" /\ ~Elapsed
     IN \/ ~refused /\ Goto("gather") /\ UNCHANGED faults
        \/ Goto("clean") /\ IF refused THEN UNCHANGED faults ELSE Fault
  /\ UNCHANGED <<Trial, load, window>>

Covers ==
  /\ Elapsed
  /\ HostTime(readyAt[rate]) <= window.started /\ HostTime(coveredTo[rate]) >= window.ended

\* validate_runtime_timeline_covers_load compares the clocks of two machines.
ValidateTimeline ==
  /\ stage = "validate"
  /\ Goto(IF Covers THEN "probe" ELSE "failed")
  /\ UNCHANGED <<Trial, load, window, faults>>

-----------------------------------------------------------------------------
NextRate(verdict) ==
  /\ results' = Append(results, verdict)
  /\ IF (mode = "tier" /\ ~verdict) \/ rate = Rates
       THEN stage' = "summarise" /\ UNCHANGED rate
       ELSE stage' = "prepare" /\ rate' = rate + 1
  /\ probes' = 0 /\ collections' = 0 /\ load' = "none"
  /\ window' = [started |-> 0, ended |-> 0]
  /\ UNCHANGED <<mode, skew, missed, summary>>

\* Runtime samples of two processes make the point an error.  Its verdict is
\* left open: it is that of k6's latencies and of the reconciliation, which
\* depends on who delivers the events of the host.
Derive ==
  /\ stage = "derive"
  /\ UNCHANGED <<runs, completions, samplerVars, command, answer, strays>>
  /\ \/ /\ mode = "rehost" /\ \E verdict \in BOOLEAN : NextRate(verdict)
        /\ UNCHANGED faults
     \/ mode = "tier" /\ stage' = "reset" /\ UNCHANGED <<Attempts, faults>> /\ KeepsTrial
     \/ stage' = "failed" /\ Fault /\ UNCHANGED Attempts /\ KeepsTrial

\* In a tier the point counts once the reset behind it is proven.
ObserveReset ==
  /\ command.kind = "reset" /\ answer = "success"
  /\ command' = Idle /\ answer' = "none"
  /\ UNCHANGED <<strays, faults>> /\ KeepsHost
  /\ \E verdict \in BOOLEAN : NextRate(verdict)

\* Variant in which a later pass opens the envelope again.
HighestPass(e, i) ==
  IF results[i] THEN [e EXCEPT !.maximum = i]
  ELSE IF e.failing = 0 THEN [e EXCEPT !.failing = i] ELSE e

\* derive_legacy_baseline_summary: the envelope is open until the first failure.
Extend(e, i) ==
  IF e.failing # 0 THEN e
  ELSE IF results[i] THEN [e EXCEPT !.maximum = i] ELSE [e EXCEPT !.failing = i]

Envelope[n \in 0 .. Len(results)] ==
  IF n = 0 THEN NoSummary ELSE Extend(Envelope[n - 1], n)

Summarise ==
  /\ stage = "summarise"
  /\ summary' = Envelope[Len(results)]
  /\ Goto("done") /\ UNCHANGED <<mode, skew, rate, load, window, missed, results, faults>>

\* The driver's process dies, and what runs on the host stays.  Its measurement is over
\* in any case: an exception terminates k6, and behind a SIGKILL k6 goes on until its
\* fixed duration is over, but nobody measures it.
Kill ==
  /\ stage \notin Ended /\ Fault
  /\ stage' = "killed" /\ command' = Idle /\ answer' = "none"
  /\ strays' = IF command # Idle /\ answer = "none" THEN strays \cup {command} ELSE strays
  /\ load' = IF load = "open" THEN "broken" ELSE load
  /\ KeepsHost /\ UNCHANGED <<Attempts, Trial, window>>

\* Time matters while a sampler runs or k6 does.
Tick ==
  /\ load = "open" \/ \E p \in Points : Alive(p)
  /\ load = "open" => clock < LongestLoad
  /\ SamplersObserve
  /\ missed' = IF load = "open" /\ ~Observing(rate) THEN missed \cup {rate} ELSE missed
  /\ UNCHANGED <<runs, completions, command, answer, strays, faults>>
  /\ UNCHANGED <<mode, skew, stage, rate, Attempts, load, window, results, summary>>

-----------------------------------------------------------------------------
DriverStep ==
  \/ Send \/ Observe \/ RejectEvidence \/ RetryProbe \/ RetryCollection \/ ObserveError
  \/ ObserveReset \/ TakeSnapshot \/ EndLoad \/ ReadSummary \/ ValidateTimeline
  \/ Derive \/ Summarise

HostStep == RunCommand \/ RunStray \/ RunStart

Next ==
  \/ DriverStep \/ SubmitFails \/ GiveUp \/ Kill \/ Tick
  \/ (HostStep \/ ExpireCommand \/ SamplerCrashes) /\ UNCHANGED driverVars

(* The driver is a process, an SSM command that was delivered runs to its  *)
(* end or its execution timeout, and time passes.                          *)
Fairness ==
  /\ WF_vars(DriverStep)
  /\ WF_vars(RunCommand /\ UNCHANGED driverVars)
  /\ WF_vars((RunStray \/ RunStart) /\ UNCHANGED driverVars)
  /\ WF_vars(Tick)

Spec == Init /\ [][Next]_vars /\ Fairness
-----------------------------------------------------------------------------
Counted == 1 .. Len(results)

\* A collection settles, completes and reconciles a run: it is repeated only
\* when it is certain that it never ran, and every counted point was prepared
\* and collected exactly once, whatever the host failed to deliver.
CollectedOnce ==
  /\ \A p \in Points : completions[p] <= 1
  /\ \A p \in Counted : completions[p] = 1

\* The samples of every counted point were really taken during the whole load,
\* although the check of the window compares the clocks of two machines: the
\* sampler ends without an error only on a signal sent after k6 has exited.
CoveredForReal == Counted \cap missed = {}

\* A load is observed by its own sampler alone, also after a point whose stop
\* or collection failed; and no sampler is left where the ladder ended well.
NoSamplerLingers ==
  /\ stage = "load" => \A p \in Points : Alive(p) => p = rate
  /\ stage = "done" => \A p \in Points : sampler[p] = "absent"

\* The summary is the envelope: every rate up to the maximum was measured and
\* passed, the next was measured and failed or was never offered.
EnvelopeIsConsecutive ==
  stage = "done" =>
    /\ \A p \in Points : p <= summary.maximum => p \in Counted /\ results[p]
    /\ summary.failing = 0 => summary.maximum = Rates
    /\ summary.failing # 0 => summary.failing = summary.maximum + 1 /\ ~results[summary.failing]

\* The ladder ends, and in the end no sampler runs on the host, also when the
\* driver dies or its cleanup is never delivered.
MeasurementEnds == <>[](stage \in Ended /\ \A p \in Points : ~Alive(p))
=============================================================================
