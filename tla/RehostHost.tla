----------------------------- MODULE RehostHost -----------------------------
(***************************************************************************)
(* The EC2 host of the rehost as a driver outside AWS commands it through  *)
(* SSM: the test runs of its database and, per measured point, the         *)
(* detached container that samples the two processes until it is told to   *)
(* stop.  A command is sent, perhaps delivered, and perhaps observed.      *)
(***************************************************************************)
EXTENDS Naturals, FiniteSets

CONSTANTS
  Rates,            \* number of offered rates; a point is one of them
  SamplerTimeout,   \* ticks after which a sampler gives up on its stop signal
  LongestLoad,      \* bound: ticks after which k6 has surely exited
  MaxFaults         \* bound: failures of commands, samplers, loads and drivers

ASSUME HostAssumption ==
  /\ Rates \in Nat \ {0} /\ SamplerTimeout \in Nat \ {0}
  /\ LongestLoad \in Nat \ {0} /\ MaxFaults \in Nat

Points == 1 .. Rates
Idle == [kind |-> "none", point |-> 1]

VARIABLES
  runs,          \* points with a row in test_runs
  completions,   \* how often each point's evidence was collected on the host
  sampler,       \* each container: "absent", "starting", "sampling", "stopping", "finished", "failed"
  readyAt,       \* when each sampler printed its ready line, 0 while it has not
  left,          \* ticks until each sampler gives up
  coveredTo,     \* when each sampler made its last attempt
  clock,         \* ticks since the last sampler was launched
  command,       \* what the driver has sent and not yet observed
  answer,        \* what has become of it: "none", "success", "failed", "undelivered"
  strays,        \* commands that run although the driver no longer waits
  faults         \* what is left of the bound

samplerVars == <<sampler, readyAt, left, coveredTo, clock>>
hostVars == <<runs, completions, samplerVars, command, answer, strays, faults>>

Kinds == {"prepare", "start", "stop", "gather", "clean", "probe", "collect", "reset"}
Commands == [kind : Kinds \cup {"ready"}, point : Points]

HostTypeOK ==
  /\ runs \subseteq Points
  /\ completions \in [Points -> Nat]
  /\ sampler \in [Points -> {"absent", "starting", "sampling", "stopping", "finished", "failed"}]
  /\ left \in [Points -> 0 .. SamplerTimeout]
  /\ clock \in 0 .. LongestLoad
  /\ readyAt \in [Points -> 0 .. LongestLoad] /\ coveredTo \in [Points -> 0 .. LongestLoad]
  /\ command \in Commands \cup {Idle} /\ strays \subseteq Commands
  /\ answer \in {"none", "success", "failed", "undelivered"}
  /\ faults \in 0 .. MaxFaults

HostInit ==
  /\ runs = {} /\ completions = [p \in Points |-> 0]
  /\ sampler = [p \in Points |-> "absent"]
  /\ readyAt = [p \in Points |-> 0] /\ left = readyAt /\ coveredTo = readyAt
  /\ clock = 0 /\ command = Idle /\ answer = "none" /\ strays = {}
  /\ faults = MaxFaults

Fault == faults > 0 /\ faults' = faults - 1
Observing(p) == sampler[p] \in {"sampling", "stopping"}
Alive(p) == sampler[p] = "starting" \/ Observing(p)
Removed(p) == [sampler EXCEPT ![p] = "absent"]

-----------------------------------------------------------------------------
\* What the payloads do.  A payload that fails may have had its effect.
Answers(a) ==
  \/ a = "success" /\ UNCHANGED faults
  \/ a = "failed" /\ Fault
EffectOf(a, holds) == holds \/ a = "failed"

PreparePoint(p, a) ==
  /\ runs' \in {runs, runs \cup {p}} /\ EffectOf(a, p \in runs')
  /\ Answers(a) /\ UNCHANGED <<completions, samplerVars>>

CollectPoint(p, a) ==
  /\ p \in runs
  /\ completions' \in {completions, [completions EXCEPT ![p] = @ + 1]}
  /\ EffectOf(a, completions'[p] > completions[p])
  /\ Answers(a) /\ UNCHANGED <<runs, samplerVars>>

\* The tables first, then the simulator: a failure may come between.
ResetPoint(a) ==
  /\ runs' \in {runs, {}} /\ EffectOf(a, runs' = {})
  /\ Answers(a) /\ UNCHANGED <<completions, samplerVars>>

Probe(a) == Answers(a) /\ UNCHANGED <<runs, completions, samplerVars>>

\* A start first removes an old container and runs a new one, detached ...
LaunchSampler(p) ==
  /\ sampler' = [sampler EXCEPT ![p] = "starting"]
  /\ readyAt' = [readyAt EXCEPT ![p] = 0]
  /\ left' = [left EXCEPT ![p] = SamplerTimeout]
  /\ clock' = 0 /\ UNCHANGED <<runs, completions, coveredTo, faults>>

\* Variant that answers as soon as the container runs.
ReadyAtOnce(p, a) ==
  a = "success" /\ UNCHANGED <<runs, completions, samplerVars, faults>>

\* ... and answers once the sampler has read both processes and said so.  A
\* start that fails removes its container, unless SSM ended it by its timeout.
AwaitReady(p, a) ==
  LET ready == sampler[p] # "absent" /\ readyAt[p] > 0
  IN /\ \/ a = "success" /\ ready /\ UNCHANGED <<sampler, faults>>
        \/ a = "failed" /\ ~Alive(p) /\ ~ready /\ sampler' = Removed(p) /\ UNCHANGED faults
        \/ a = "failed" /\ sampler' \in {sampler, Removed(p)} /\ Fault
     /\ UNCHANGED <<runs, completions, readyAt, left, coveredTo, clock>>

\* The stop file can be written only in a container that still runs.
StopSampler(p, a) ==
  /\ IF Observing(p)
       THEN /\ sampler' \in {sampler, [sampler EXCEPT ![p] = "stopping"]}
            /\ EffectOf(a, sampler'[p] = "stopping") /\ Answers(a)
       ELSE a = "failed" /\ UNCHANGED <<sampler, faults>>
  /\ UNCHANGED <<runs, completions, readyAt, left, coveredTo, clock>>

\* Variant without the trap that removes the container.
GatherAndLeave(p, a) ==
  /\ CASE sampler[p] = "finished" -> Answers(a)
       [] Alive(p) -> a = "failed" /\ Fault
       [] OTHER -> a = "failed" /\ UNCHANGED faults
  /\ UNCHANGED <<runs, completions, samplerVars>>

\* Wait until the sampler has exited, answer with its logs, remove it.  Only
\* exit code 0 succeeds; one that outlasts the wait is removed as well.
GatherSampler(p, a) ==
  /\ CASE sampler[p] = "finished" -> Answers(a)
       [] Alive(p) -> a = "failed" /\ Fault
       [] OTHER -> a = "failed" /\ UNCHANGED faults
  /\ sampler' \in {Removed(p)} \cup (IF a = "failed" /\ Alive(p) THEN {sampler} ELSE {})
  /\ UNCHANGED <<runs, completions, readyAt, left, coveredTo, clock>>

CleanSampler(p, a) ==
  /\ sampler' \in {sampler, Removed(p)}
  /\ EffectOf(a, sampler'[p] = "absent")
  /\ Answers(a) /\ UNCHANGED <<runs, completions, readyAt, left, coveredTo, clock>>

Runs(c, a) ==
  \/ c.kind = "prepare" /\ PreparePoint(c.point, a)
  \/ c.kind = "ready" /\ AwaitReady(c.point, a)
  \/ c.kind = "stop" /\ StopSampler(c.point, a)
  \/ c.kind = "gather" /\ GatherSampler(c.point, a)
  \/ c.kind = "clean" /\ CleanSampler(c.point, a)
  \/ c.kind = "probe" /\ Probe(a)
  \/ c.kind = "collect" /\ CollectPoint(c.point, a)
  \/ c.kind = "reset" /\ ResetPoint(a)

-----------------------------------------------------------------------------
\* The agent runs what it received, also when nobody waits for it any more.
RunCommand ==
  /\ command # Idle /\ answer = "none"
  /\ \E a \in {"success", "failed"} : Runs(command, a) /\ answer' = a
  /\ UNCHANGED <<command, strays>>

\* The host was too busy to take the command within its delivery window.
ExpireCommand ==
  /\ Fault
  /\ \/ command.kind \in Kinds /\ answer = "none" /\ answer' = "undelivered" /\ UNCHANGED strays
     \/ \E c \in strays : c.kind \in Kinds /\ strays' = strays \ {c} /\ UNCHANGED answer
  /\ UNCHANGED <<runs, completions, samplerVars, command>>

RunStray ==
  /\ \E c \in strays, a \in {"success", "failed"} : Runs(c, a) /\ strays' = strays \ {c}
  /\ UNCHANGED <<command, answer>>

\* The first half of a start, whoever waits for it.
Launched(c) == [c EXCEPT !.kind = "ready"]

RunStart ==
  \/ /\ command.kind = "start" /\ answer = "none"
     /\ LaunchSampler(command.point) /\ command' = Launched(command)
     /\ UNCHANGED <<answer, strays>>
  \/ /\ \E c \in strays :
          c.kind = "start" /\ LaunchSampler(c.point) /\ strays' = (strays \ {c}) \cup {Launched(c)}
     /\ UNCHANGED <<command, answer>>

-----------------------------------------------------------------------------
\* Variant of the first protocol, without an end of its own.
SamplerWaits(p) ==
  CASE sampler[p] = "starting" -> "sampling"
    [] sampler[p] = "stopping" -> "finished"
    [] OTHER -> sampler[p]

\* The first complete observation makes a sampler ready; after any other a
\* stop signal ends it normally, and the deadline ends it with an error.
SamplerObserves(p) ==
  CASE sampler[p] = "starting" -> "sampling"
    [] sampler[p] = "stopping" -> "finished"
    [] sampler[p] = "sampling" /\ left[p] <= 1 -> "failed"
    [] OTHER -> sampler[p]

SamplersObserve ==
  /\ clock' = IF clock < LongestLoad THEN clock + 1 ELSE clock
  /\ sampler' = [p \in Points |-> SamplerObserves(p)]
  /\ readyAt' = [p \in Points |-> IF sampler[p] = "starting" THEN clock' ELSE readyAt[p]]
  /\ left' = [p \in Points |-> IF Observing(p) /\ left[p] > 0 THEN left[p] - 1 ELSE left[p]]
  /\ coveredTo' = [p \in Points |-> IF Observing(p) THEN clock' ELSE coveredTo[p]]

SamplerCrashes ==
  /\ \E p \in Points : Alive(p) /\ sampler' = [sampler EXCEPT ![p] = "failed"]
  /\ Fault
  /\ UNCHANGED <<runs, completions, readyAt, left, coveredTo, clock, command, answer, strays>>
=============================================================================
