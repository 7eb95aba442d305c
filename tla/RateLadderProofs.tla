-------------------------- MODULE RateLadderProofs --------------------------
(***************************************************************************)
(* Proofs about RateLadder for any number of rates and failures, any       *)
(* timeout and any difference of the clocks.                               *)
(***************************************************************************)
EXTENDS RateLadder, WellFoundedInduction, TLAPS

-----------------------------------------------------------------------------
(* The inductive invariant *)

SamplerStates == {"absent", "starting", "sampling", "stopping", "finished", "failed"}
Stages == Kinds \cup {"snapshot", "load", "summary", "validate", "derive", "summarise"} \cup Ended

\* The types that the arguments need.
Types ==
  /\ completions \in [Points -> Nat]
  /\ sampler \in [Points -> SamplerStates]
  /\ readyAt \in [Points -> 0 .. LongestLoad] /\ clock \in 0 .. LongestLoad
  /\ command \in Commands \cup {Idle} /\ strays \subseteq Commands
  /\ answer \in {"none", "success", "failed", "undelivered"}
  /\ stage \in Stages /\ rate \in Points
  /\ missed \subseteq Points /\ results \in Seq(BOOLEAN)

\* A command is one of the present stage and rate; while the ladder goes on,
\* the only one that may run unobserved is a stop behind which it cleans up.
CommandInv ==
  /\ command = Idle => answer = "none"
  /\ command # Idle =>
       /\ stage \in Kinds /\ command.point = rate
       /\ command.kind = stage \/ (stage = "start" /\ command.kind = "ready")
  /\ command.kind = "start" => answer \in {"none", "undelivered"}
  /\ stage \notin {"clean", "failed", "killed"} => strays = {}
  /\ stage = "clean" => strays \subseteq {[kind |-> "stop", point |-> rate]}

\* The sampler of the present rate goes through its life in step with the
\* stages, and every other sampler is gone.
SamplerInv ==
  /\ \A p \in Points : sampler[p] = "starting" => readyAt[p] = 0
  /\ stage \notin {"failed", "killed"} => \A p \in Points \ {rate} : sampler[p] = "absent"
  /\ stage \in {"prepare", "validate", "probe", "collect", "derive", "reset", "summarise",
                 "done"} => sampler[rate] = "absent"
  /\ stage = "start" =>
       /\ command.kind # "ready" => sampler[rate] = "absent"
       /\ command.kind = "ready" /\ answer = "none" =>
            sampler[rate] \in {"starting", "sampling", "failed"}
       /\ answer = "success" => sampler[rate] \in {"sampling", "failed"}
  /\ stage \in {"snapshot", "load"} => sampler[rate] \in {"sampling", "failed"}
  /\ stage = "gather" /\ answer = "success" => sampler[rate] = "absent"

\* A load that was not observed has lost its sampler for good.
MissedInv ==
  /\ load = "open" => stage = "load"
  /\ Len(results) <= rate /\ \A p \in missed : p \notin 1 .. Len(results)
  /\ stage \notin {"summarise"} \cup Ended => Len(results) = rate - 1 /\ \A p \in missed : p <= rate
  /\ rate \in missed =>
       /\ stage \in {"load", "stop", "summary", "gather", "clean"} \cup Ended
       /\ stage \in {"load", "stop", "summary", "gather"} => sampler[rate] \in {"failed", "absent"}
       /\ stage = "gather" => answer # "success"

\* What a collection of the present rate has done, and may still do.
CompletionInv ==
  /\ \A p \in Points : completions[p] <= 1 /\ (p <= Len(results) => completions[p] = 1)
  /\ stage \notin {"summarise"} \cup Ended => \A p \in Points : p > rate => completions[p] = 0
  /\ stage \in {"derive", "reset"} => completions[rate] = 1
  /\ stage \notin {"collect", "derive", "reset", "summarise"} \cup Ended => completions[rate] = 0
  /\ stage = "collect" =>
       /\ answer \in {"none", "undelivered"} => completions[rate] = 0
       /\ answer = "success" => completions[rate] = 1
  /\ \A c \in strays : c.kind = "collect" => completions[c.point] = 0

Inv == Types /\ CommandInv /\ SamplerInv /\ MissedInv /\ CompletionInv

-----------------------------------------------------------------------------
(* What a payload does *)

\* A payload changes nothing but the sampler or the collections of its point,
\* and a success means what the driver takes it to mean.
PayloadDone(c, a) ==
  /\ completions' \in [Points -> Nat]
  /\ \A p \in Points : p # c.point => completions'[p] = completions[p]
  /\ c.kind # "collect" => completions' = completions
  /\ c.kind = "collect" => completions'[c.point] \in {completions[c.point], completions[c.point] + 1}
  /\ c.kind = "collect" /\ a = "success" => completions'[c.point] = completions[c.point] + 1
  /\ sampler' \in [Points -> SamplerStates]
  /\ \A p \in Points : p # c.point => sampler'[p] = sampler[p]
  /\ c.kind \notin {"ready", "stop", "gather", "clean"} => sampler' = sampler
  /\ sampler'[c.point] \in {sampler[c.point], "absent", "stopping"}
  /\ sampler'[c.point] = "stopping" =>
       sampler[c.point] = "stopping" \/ (Observing(c.point) /\ c.kind = "stop")
  /\ c.kind = "ready" /\ a = "success" =>
       sampler'[c.point] = sampler[c.point] /\ sampler[c.point] # "absent" /\ readyAt[c.point] > 0
  /\ c.kind = "gather" /\ a = "success" =>
       sampler[c.point] = "finished" /\ sampler'[c.point] = "absent"
  /\ readyAt' = readyAt /\ clock' = clock /\ c.kind # "start"

\* Each payload of an SSM command does no more than PayloadDone says.
LEMMA PayloadEffects ==
  ASSUME NEW c \in Commands, NEW a \in {"success", "failed"}, Types, Runs(c, a)
  PROVE  PayloadDone(c, a)
<1>0. c.point \in Points  BY DEF Commands
<1>1. CASE c.kind = "prepare" /\ PreparePoint(c.point, a)
  BY <1>1 DEF PayloadDone, PreparePoint, samplerVars, Types
<1>2. CASE c.kind = "ready" /\ AwaitReady(c.point, a)
  BY <1>2 DEF PayloadDone, AwaitReady, Removed, Types, SamplerStates
<1>3. CASE c.kind = "stop" /\ StopSampler(c.point, a)
  BY <1>3 DEF PayloadDone, StopSampler, Types, SamplerStates
<1>4. CASE c.kind = "gather" /\ GatherSampler(c.point, a)
  BY <1>0, <1>4 DEF PayloadDone, GatherSampler, Removed, Types, SamplerStates
<1>5. CASE c.kind = "clean" /\ CleanSampler(c.point, a)
  BY <1>5 DEF PayloadDone, CleanSampler, Removed, Types, SamplerStates
<1>6. CASE c.kind = "probe" /\ Probe(a)
  BY <1>6 DEF PayloadDone, Probe, samplerVars, Types
<1>7. CASE c.kind = "collect" /\ CollectPoint(c.point, a)
  BY <1>0, <1>7 DEF PayloadDone, CollectPoint, EffectOf, samplerVars, Types
<1>8. CASE c.kind = "reset" /\ ResetPoint(a)
  BY <1>8 DEF PayloadDone, ResetPoint, samplerVars, Types
<1>9. QED
  BY <1>1, <1>2, <1>3, <1>4, <1>5, <1>6, <1>7, <1>8 DEF Runs

-----------------------------------------------------------------------------
(* Every step keeps the invariant *)

\* A command is sent only when no other is waited for, so it belongs to the stage.
LEMMA SendKeeps ==
  ASSUME Inv, Send
  PROVE  Inv'
<1>1. Types'
  BY DEF Inv, Types, Send, KeepsHost, KeepsTrial, samplerVars, Commands
<1>2. CommandInv'
  BY DEF Inv, CommandInv, Send, KeepsTrial
<1>3. SamplerInv'
  BY DEF Inv, SamplerInv, Send, KeepsHost, KeepsTrial, samplerVars, Idle
<1>4. MissedInv'
  BY DEF Inv, MissedInv, Send, KeepsHost, KeepsTrial, samplerVars
<1>5. CompletionInv'
  BY DEF Inv, CommandInv, CompletionInv, Send, KeepsHost, KeepsTrial
<1>6. QED
  BY <1>1, <1>2, <1>3, <1>4, <1>5 DEF Inv

\* A success moves the driver on: what it takes for granted in the next stage holds,
\* since only one command of the stage can have given it.
LEMMA ObserveKeeps ==
  ASSUME Inv, Observe
  PROVE  Inv'
<1>1. Types'
  BY DEF Inv, Types, Stages, CommandInv, Observe, Observes, After, KeepsHost, KeepsTrial,
    samplerVars, Kinds, Ended
<1>2. CommandInv'
  BY DEF Inv, CommandInv, Observe, Observes, After, Kinds
<1>3. SamplerInv'
  BY DEF Inv, CommandInv, SamplerInv, Observe, Observes, After, KeepsHost, KeepsTrial,
    samplerVars, Kinds, Idle
<1>4. MissedInv'
  BY DEF Inv, CommandInv, MissedInv, Observe, Observes, After, KeepsHost, KeepsTrial,
    samplerVars, Kinds, Ended
<1>5. CompletionInv'
  BY DEF Inv, CommandInv, CompletionInv, Observe, Observes, After, KeepsHost, KeepsTrial,
    Kinds, Ended
<1>6. QED
  BY <1>1, <1>2, <1>3, <1>4, <1>5 DEF Inv

\* Output that is no evidence ends the ladder, or cleans up.
LEMMA RejectEvidenceKeeps ==
  ASSUME Inv, RejectEvidence
  PROVE  Inv'
<1>1. Types'
  BY DEF Inv, Types, Stages, RejectEvidence, KeepsHost, KeepsTrial, samplerVars, Kinds, Ended
<1>2. CommandInv'
  BY DEF Inv, CommandInv, RejectEvidence
<1>3. SamplerInv'
  BY DEF Inv, SamplerInv, RejectEvidence, KeepsHost, KeepsTrial, samplerVars
<1>4. MissedInv'
  BY DEF Inv, MissedInv, RejectEvidence, KeepsTrial, Ended
<1>5. CompletionInv'
  BY DEF Inv, CompletionInv, RejectEvidence, KeepsHost, KeepsTrial, Ended
<1>6. QED
  BY <1>1, <1>2, <1>3, <1>4, <1>5 DEF Inv

\* A probe that was never delivered left nothing behind.
LEMMA RetryProbeKeeps ==
  ASSUME Inv, RetryProbe
  PROVE  Inv'
<1>1. Types'
  BY DEF Inv, Types, CommandInv, RetryProbe, Observes, NeverDelivered, KeepsHost,
    KeepsTrial, samplerVars
<1>2. CommandInv'
  BY DEF Inv, CommandInv, RetryProbe, Observes, NeverDelivered
<1>3. SamplerInv'
  BY DEF Inv, CommandInv, SamplerInv, RetryProbe, Observes, NeverDelivered, KeepsHost,
    KeepsTrial, samplerVars
<1>4. MissedInv'
  BY DEF Inv, CommandInv, MissedInv, RetryProbe, Observes, NeverDelivered, KeepsTrial
<1>5. CompletionInv'
  BY DEF Inv, CommandInv, CompletionInv, RetryProbe, Observes, NeverDelivered, KeepsHost,
    KeepsTrial
<1>6. QED
  BY <1>1, <1>2, <1>3, <1>4, <1>5 DEF Inv

\* A collection that was never delivered has not run, so it may be sent again.
LEMMA RetryCollectionKeeps ==
  ASSUME Inv, RetryCollection
  PROVE  Inv'
<1>1. Types'
  BY DEF Inv, Types, Stages, RetryCollection, Observes, KeepsHost, KeepsTrial, samplerVars,
    Kinds
<1>2. CommandInv'
  BY DEF Inv, CommandInv, RetryCollection, Observes, NeverDelivered
<1>3. SamplerInv'
  BY DEF Inv, CommandInv, SamplerInv, RetryCollection, Observes, NeverDelivered, KeepsHost,
    KeepsTrial, samplerVars
<1>4. MissedInv'
  BY DEF Inv, CommandInv, MissedInv, RetryCollection, Observes, NeverDelivered, KeepsTrial,
    Ended
<1>5. CompletionInv'
  BY DEF Inv, CommandInv, CompletionInv, RetryCollection, Observes, NeverDelivered,
    KeepsHost, KeepsTrial, Ended
<1>6. QED
  BY <1>1, <1>2, <1>3, <1>4, <1>5 DEF Inv

\* Any other error ends the ladder, or cleans up.
LEMMA ObserveErrorKeeps ==
  ASSUME Inv, ObserveError
  PROVE  Inv'
<1>1. Types'
  BY DEF Inv, Types, Stages, ObserveError, Observes, OnError, KeepsHost, KeepsTrial,
    samplerVars, Kinds, Ended
<1>2. CommandInv'
  BY DEF Inv, CommandInv, ObserveError, Observes, OnError
<1>3. SamplerInv'
  BY DEF Inv, SamplerInv, ObserveError, Observes, OnError, KeepsHost, KeepsTrial, samplerVars
<1>4. MissedInv'
  BY DEF Inv, CommandInv, MissedInv, ObserveError, Observes, OnError, KeepsTrial, Kinds, Ended
<1>5. CompletionInv'
  BY DEF Inv, CompletionInv, ObserveError, Observes, OnError, KeepsHost, KeepsTrial, Ended
<1>6. QED
  BY <1>1, <1>2, <1>3, <1>4, <1>5 DEF Inv

\* A command that SSM refuses does not exist.
LEMMA SubmitFailsKeeps ==
  ASSUME Inv, SubmitFails
  PROVE  Inv'
<1>1. Types'
  BY DEF Inv, Types, Stages, SubmitFails, OnError, KeepsHost, KeepsTrial, samplerVars,
    Kinds, Ended
<1>2. CommandInv'
  BY DEF Inv, CommandInv, SubmitFails, OnError
<1>3. SamplerInv'
  BY DEF Inv, SamplerInv, SubmitFails, OnError, KeepsHost, KeepsTrial, samplerVars
<1>4. MissedInv'
  BY DEF Inv, MissedInv, SubmitFails, OnError, KeepsTrial, Kinds, Ended
<1>5. CompletionInv'
  BY DEF Inv, CompletionInv, SubmitFails, OnError, KeepsHost, KeepsTrial, Ended
<1>6. QED
  BY <1>1, <1>2, <1>3, <1>4, <1>5 DEF Inv

\* A command that is given up runs on, in a ladder that has failed or is cleaning up.
LEMMA GiveUpKeeps ==
  ASSUME Inv, GiveUp
  PROVE  Inv'
<1>1. Types'
  BY DEF Inv, Types, Stages, GiveUp, OnError, KeepsHost, KeepsTrial, samplerVars, Kinds, Ended
<1>2. CommandInv'
  BY DEF Inv, Types, CommandInv, GiveUp, OnError, KeepsTrial, Commands
<1>3. SamplerInv'
  BY DEF Inv, SamplerInv, GiveUp, OnError, KeepsHost, KeepsTrial, samplerVars
<1>4. MissedInv'
  BY DEF Inv, CommandInv, MissedInv, GiveUp, OnError, KeepsTrial, Kinds, Ended
<1>5. CompletionInv'
  BY DEF Inv, CommandInv, CompletionInv, GiveUp, OnError, KeepsHost, KeepsTrial, Ended
<1>6. QED
  BY <1>1, <1>2, <1>3, <1>4, <1>5 DEF Inv

\* The load begins behind a sampler that said it was ready.
LEMMA TakeSnapshotKeeps ==
  ASSUME Inv, TakeSnapshot
  PROVE  Inv'
<1>1. Types'
  BY DEF Inv, Types, Stages, TakeSnapshot, Goto, Trial, samplerVars, Kinds
<1>2. CommandInv'
  BY DEF Inv, CommandInv, TakeSnapshot, Goto, Kinds
<1>3. SamplerInv'
  BY DEF Inv, SamplerInv, TakeSnapshot, Goto, Trial, samplerVars
<1>4. MissedInv'
  BY DEF Inv, MissedInv, TakeSnapshot, Goto, Trial, Ended
<1>5. CompletionInv'
  BY DEF Inv, CompletionInv, TakeSnapshot, Goto, Trial, Ended
<1>6. QED
  BY <1>1, <1>2, <1>3, <1>4, <1>5 DEF Inv

\* The load has ended before the sampler is told to stop.
LEMMA EndLoadKeeps ==
  ASSUME Inv, EndLoad
  PROVE  Inv'
<1>1. Types'
  BY DEF Inv, Types, Stages, EndLoad, Goto, Trial, samplerVars, Kinds
<1>2. CommandInv'
  BY DEF Inv, CommandInv, EndLoad, Goto, Kinds
<1>3. SamplerInv'
  BY DEF Inv, SamplerInv, EndLoad, Goto, Trial, samplerVars
<1>4. MissedInv'
  BY DEF Inv, MissedInv, EndLoad, Goto, Trial, samplerVars, Ended
<1>5. CompletionInv'
  BY DEF Inv, CompletionInv, EndLoad, Goto, Trial, Ended
<1>6. QED
  BY <1>1, <1>2, <1>3, <1>4, <1>5 DEF Inv

\* Whether the summary is read or refused, the sampler is collected or cleaned up next.
LEMMA ReadSummaryKeeps ==
  ASSUME Inv, ReadSummary
  PROVE  Inv'
<1>1. Types'
  BY DEF Inv, Types, Stages, ReadSummary, Goto, Trial, samplerVars, Kinds
<1>2. CommandInv'
  BY DEF Inv, CommandInv, ReadSummary, Goto, Kinds
<1>3. SamplerInv'
  BY DEF Inv, CommandInv, SamplerInv, ReadSummary, Goto, Trial, samplerVars, Kinds
<1>4. MissedInv'
  BY DEF Inv, CommandInv, MissedInv, ReadSummary, Goto, Trial, samplerVars, Kinds, Ended
<1>5. CompletionInv'
  BY DEF Inv, CompletionInv, ReadSummary, Goto, Trial, Ended
<1>6. QED
  BY <1>1, <1>2, <1>3, <1>4, <1>5 DEF Inv

\* The check of the window is passed by points that were collected without an error.
LEMMA ValidateTimelineKeeps ==
  ASSUME Inv, ValidateTimeline
  PROVE  Inv'
<1>1. Types'
  BY DEF Inv, Types, Stages, ValidateTimeline, Goto, Trial, samplerVars, Kinds, Ended
<1>2. CommandInv'
  BY DEF Inv, CommandInv, ValidateTimeline, Goto, Kinds
<1>3. SamplerInv'
  BY DEF Inv, SamplerInv, ValidateTimeline, Goto, Trial, samplerVars
<1>4. MissedInv'
  BY DEF Inv, MissedInv, ValidateTimeline, Trial, Ended
<1>5. CompletionInv'
  BY DEF Inv, CompletionInv, ValidateTimeline, Goto, Trial, Ended
<1>6. QED
  BY <1>1, <1>2, <1>3, <1>4, <1>5 DEF Inv

\* The summary changes no result.
LEMMA SummariseKeeps ==
  ASSUME Inv, Summarise
  PROVE  Inv'
<1>1. Types'
  BY DEF Inv, Types, Stages, Summarise, Goto, samplerVars, Ended
<1>2. CommandInv'
  BY DEF Inv, CommandInv, Summarise, Goto, Kinds
<1>3. SamplerInv'
  BY DEF Inv, SamplerInv, Summarise, Goto, samplerVars
<1>4. MissedInv'
  BY DEF Inv, MissedInv, Summarise, Goto, Ended
<1>5. CompletionInv'
  BY DEF Inv, CompletionInv, Summarise, Goto, Ended
<1>6. QED
  BY <1>1, <1>2, <1>3, <1>4, <1>5 DEF Inv

\* When the driver dies, what it waited for becomes a stray.
LEMMA KillKeeps ==
  ASSUME Inv, Kill
  PROVE  Inv'
<1>1. Types'
  BY DEF Inv, Types, Stages, Kill, KeepsHost, Trial, samplerVars, Ended
<1>2. CommandInv'
  BY DEF CommandInv, Kill
<1>3. SamplerInv'
  BY DEF Inv, SamplerInv, Kill, KeepsHost, samplerVars
<1>4. MissedInv'
  BY DEF Inv, MissedInv, Kill, Trial, Ended
<1>5. CompletionInv'
  BY DEF Inv, CommandInv, CompletionInv, Kill, KeepsHost, Trial, Ended
<1>6. QED
  BY <1>1, <1>2, <1>3, <1>4, <1>5 DEF Inv

\* The next rate begins where the last is behind its collection, with nothing left on the host.
LEMMA NextRateKeeps ==
  ASSUME Inv, NEW verdict \in BOOLEAN, NextRate(verdict),
         stage \in {"derive", "reset"}, KeepsHost,
         command' = Idle, answer' = "none", strays' = strays
  PROVE  Inv'
<1>0. /\ results \in Seq(BOOLEAN) /\ results' = Append(results, verdict)
      /\ results' \in Seq(BOOLEAN) /\ Len(results') = Len(results) + 1
      /\ Len(results) = rate - 1 /\ Len(results') = rate /\ strays = {} /\ rate \in Nat
  BY DEF Inv, Types, NextRate, MissedInv, CommandInv, Points, Ended
<1>1. Types'
  BY HostAssumption, <1>0 DEF Inv, Types, SamplerStates, Stages, CommandInv, SamplerInv,
    NextRate, KeepsHost, samplerVars, Kinds, Ended, Idle, Points
<1>2. CommandInv'
  BY DEF Inv, CommandInv
<1>3. SamplerInv'
  BY HostAssumption, <1>0 DEF Inv, Types, SamplerStates, SamplerInv, NextRate, KeepsHost,
    samplerVars, Ended, Idle, Points
<1>4. MissedInv'
  BY DEF Inv, Types, MissedInv, NextRate, Ended, Points
<1>5. CompletionInv'
  BY HostAssumption, <1>0 DEF Inv, Types, SamplerStates, Stages, CompletionInv, NextRate,
    KeepsHost, samplerVars, Kinds, Ended, Commands, Idle, Points
<1>6. QED
  BY <1>1, <1>2, <1>3, <1>4, <1>5 DEF Inv

\* A result is derived behind the collection, and in a tier reset before it counts.
LEMMA DeriveKeeps ==
  ASSUME Inv, Derive
  PROVE  Inv'
<1>0. stage = "derive" /\ command = Idle /\ answer = "none"
  BY DEF Inv, Derive, CommandInv, Kinds
<1>1. CASE \E verdict \in BOOLEAN : NextRate(verdict)
  BY <1>0, <1>1, NextRateKeeps DEF Derive, KeepsHost
<1>2. CASE stage' \in {"reset", "failed"} /\ KeepsTrial
  <2>1. UNCHANGED <<completions, sampler, readyAt, clock, command, answer, strays>> /\ KeepsTrial
    BY <1>2 DEF Derive, samplerVars
  <2>2. Types'
    BY <1>2, <2>1 DEF Inv, Types, Stages, KeepsTrial, Kinds, Ended
  <2>3. CommandInv'
    BY <1>0, <2>1 DEF Inv, CommandInv
  <2>4. SamplerInv'
    BY <1>0, <1>2, <2>1 DEF Inv, SamplerInv, KeepsTrial
  <2>5. MissedInv'
    BY <1>0, <2>1 DEF Inv, MissedInv, KeepsTrial, Ended
  <2>6. CompletionInv'
    BY <1>0, <1>2, <2>1 DEF Inv, CompletionInv, KeepsTrial, Ended
  <2>7. QED
    BY <2>2, <2>3, <2>4, <2>5, <2>6 DEF Inv
<1>3. QED
  BY <1>1, <1>2 DEF Derive

\* A reset that is observed leads to the next rate.
LEMMA ObserveResetKeeps ==
  ASSUME Inv, ObserveReset
  PROVE  Inv'
<1>1. stage = "reset" /\ command # Idle
  BY DEF Inv, CommandInv, ObserveReset
<1>2. QED
  BY <1>1, NextRateKeeps DEF ObserveReset

\* A start replaces the sampler of its own point only.
LEMMA RunStartKeeps ==
  ASSUME Inv, RunStart, UNCHANGED driverVars
  PROVE  Inv'
<1>l. \A c \in Commands : Launched(c) \in Commands /\ Launched(c).kind = "ready" /\ Launched(c).point = c.point
  BY DEF Launched, Commands
<1>c. PICK c \in Commands :
        /\ c.kind = "start" /\ LaunchSampler(c.point) /\ answer' = answer
        /\ \/ c = command /\ stage = "start" /\ answer = "none" /\ command' = Launched(c) /\ strays' = strays
           \/ c \in strays /\ strays' = (strays \ {c}) \cup {Launched(c)} /\ command' = command
  BY DEF RunStart, Inv, Types, CommandInv, Idle
<1>p. c.point \in Points /\ c.kind = "start"
  BY <1>c DEF Commands
<1>s. /\ c \in strays => stage \in {"failed", "killed"}
      /\ stage = "start" => c = command /\ c.point = rate
  BY <1>c DEF Inv, CommandInv, Idle
<1>1. Types'
  BY HostAssumption, <1>l, <1>c, <1>p DEF Inv, Types, SamplerStates, LaunchSampler, driverVars
<1>2. CommandInv'
  BY <1>l, <1>c DEF Inv, CommandInv, driverVars, Idle
<1>3. SamplerInv'
  BY <1>l, <1>c DEF Inv, Types, CommandInv, SamplerInv, LaunchSampler, driverVars, Idle
<1>4. MissedInv'
  BY <1>c DEF Inv, CommandInv, MissedInv, driverVars
<1>5. CompletionInv'
  BY <1>l, <1>c DEF Inv, CompletionInv, LaunchSampler, driverVars
<1>6. QED
  BY <1>1, <1>2, <1>3, <1>4, <1>5 DEF Inv

\* A command that expires has done nothing.
LEMMA ExpireCommandKeeps ==
  ASSUME Inv, ExpireCommand, UNCHANGED driverVars
  PROVE  Inv'
<1>1. Types'
  BY DEF Inv, Types, ExpireCommand, driverVars, samplerVars
<1>2. CommandInv'
  BY DEF Inv, CommandInv, ExpireCommand, driverVars, Kinds, Idle
<1>3. SamplerInv'
  BY DEF Inv, SamplerInv, ExpireCommand, driverVars, samplerVars
<1>4. MissedInv'
  BY DEF Inv, MissedInv, ExpireCommand, driverVars, samplerVars
<1>5. CompletionInv'
  BY DEF Inv, CompletionInv, ExpireCommand, driverVars
<1>6. QED
  BY <1>1, <1>2, <1>3, <1>4, <1>5 DEF Inv

\* A sampler that crashes has failed for good.
LEMMA SamplerCrashesKeeps ==
  ASSUME Inv, SamplerCrashes, UNCHANGED driverVars
  PROVE  Inv'
<1>1. Types'
  BY DEF Inv, Types, SamplerStates, SamplerCrashes, driverVars
<1>2. CommandInv'
  BY DEF Inv, CommandInv, SamplerCrashes, driverVars
<1>3. SamplerInv'
  BY DEF Inv, SamplerInv, SamplerCrashes, Alive, Observing, driverVars
<1>4. MissedInv'
  BY DEF Inv, MissedInv, SamplerCrashes, driverVars
<1>5. CompletionInv'
  BY DEF Inv, CompletionInv, SamplerCrashes, driverVars
<1>6. QED
  BY <1>1, <1>2, <1>3, <1>4, <1>5 DEF Inv

\* A tick of load that its sampler does not observe marks the point; by then its
\* sampler has failed, and a gather of a failed sampler never succeeds.
LEMMA TickKeeps ==
  ASSUME Inv, Tick
  PROVE  Inv'
<1>1. Types'
  BY HostAssumption DEF Inv, Types, SamplerStates, Tick, SamplersObserve, SamplerObserves
<1>2. CommandInv'
  BY DEF Inv, CommandInv, Tick
<1>3. SamplerInv'
  BY DEF Inv, Types, SamplerInv, Tick, SamplersObserve, SamplerObserves
<1>4. MissedInv'
  <2>1. load = "open" => stage = "load" /\ Len(results) = rate - 1 /\ sampler[rate] \in {"sampling", "failed"}
    BY DEF Inv, MissedInv, SamplerInv, Ended
  <2>2. \A p \in Points : sampler[p] \in {"failed", "absent"} => sampler'[p] = sampler[p]
    BY DEF Tick, SamplersObserve, SamplerObserves
  <2>3. /\ missed' \subseteq missed \cup {rate}
        /\ rate \in missed' => rate \in missed \/ (load = "open" /\ sampler[rate] = "failed")
        /\ missed' # missed => load = "open"
    BY <2>1 DEF Tick, Observing
  <2>4. UNCHANGED <<load, stage, results, rate, answer>>
    BY DEF Tick
  <2>5. rate \in 1 .. Rates /\ Len(results) \in Nat
    BY DEF Inv, Types, Points
  <2>6. QED
    BY <2>1, <2>2, <2>3, <2>4 DEF Inv, Types, MissedInv, Points
<1>5. CompletionInv'
  BY DEF Inv, CompletionInv, Tick
<1>6. QED
  BY <1>1, <1>2, <1>3, <1>4, <1>5 DEF Inv

\* The command that the driver waits for runs: the stage says which one it can be.
LEMMA RunCommandKeeps ==
  ASSUME Inv, RunCommand, UNCHANGED driverVars
  PROVE  Inv'
<1>0. PICK a \in {"success", "failed"} : Runs(command, a) /\ answer' = a
  BY DEF RunCommand
<1>c. command \in Commands /\ command # Idle /\ Types
  BY DEF Inv, Types, RunCommand
<1>p. PayloadDone(command, a)
  BY <1>0, <1>c, PayloadEffects
<1>q. /\ command.point = rate /\ rate \in Points /\ stage \in Kinds
      /\ strays = {} \/ stage = "clean"
      /\ (command.kind = "collect") <=> (stage = "collect")
      /\ UNCHANGED <<stage, rate, strays, results>> /\ answer = "none"
  BY DEF Inv, Types, CommandInv, RunCommand, driverVars, Kinds
<1>1. Types'
  BY <1>p DEF Inv, Types, RunCommand, driverVars, PayloadDone
<1>2. CommandInv'
  BY <1>p DEF Inv, CommandInv, RunCommand, driverVars, PayloadDone
<1>3. SamplerInv'
  BY <1>0, <1>p DEF Inv, Types, CommandInv, SamplerInv, RunCommand, driverVars, PayloadDone
<1>4. MissedInv'
  BY <1>0, <1>p DEF Inv, CommandInv, MissedInv, RunCommand, driverVars, PayloadDone, Observing
<1>5. CompletionInv'
  <2>1. CASE stage = "collect"
    <3>1. /\ completions[rate] = 0 /\ strays = {} /\ ~(rate <= Len(results))
          /\ completions'[rate] \in {0, 1}
          /\ a = "success" => completions'[rate] = 1
      BY <1>p, <1>q, <2>1 DEF Inv, CompletionInv, PayloadDone
    <3>2. QED
      BY <1>0, <1>p, <1>q DEF Inv, Types, CompletionInv, PayloadDone, Points
  <2>2. CASE stage # "collect"
    BY <1>p, <1>q, <2>2 DEF Inv, CompletionInv, PayloadDone
  <2>3. QED
    BY <2>1, <2>2
<1>6. QED
  BY <1>1, <1>2, <1>3, <1>4, <1>5 DEF Inv

\* A stray runs when nothing it touches is relied upon any more.
LEMMA RunStrayKeeps ==
  ASSUME Inv, RunStray, UNCHANGED driverVars
  PROVE  Inv'
<1>0. PICK c \in strays, a \in {"success", "failed"} : Runs(c, a) /\ strays' = strays \ {c}
  BY DEF RunStray
<1>c. c \in Commands /\ Types
  BY DEF Inv, Types
<1>p. PayloadDone(c, a)
  BY <1>0, <1>c, PayloadEffects
<1>q. /\ c \in strays /\ c.point \in Points
      /\ stage \in {"clean", "failed", "killed"} /\ (c.kind = "collect" => stage \in Ended)
      /\ UNCHANGED <<stage, rate, results, command, answer>>
  BY <1>c DEF Inv, CommandInv, RunStray, driverVars, Commands, Ended
<1>1. Types'
  BY <1>p DEF Inv, Types, RunStray, driverVars, PayloadDone
<1>2. CommandInv'
  BY DEF Inv, CommandInv, RunStray, driverVars
<1>3. SamplerInv'
  BY <1>p DEF Inv, CommandInv, SamplerInv, driverVars, PayloadDone, Observing
<1>4. MissedInv'
  BY DEF Inv, CommandInv, MissedInv, driverVars
<1>5. CompletionInv'
  <2>1. CASE c.kind = "collect"
    <3>1. completions[c.point] = 0 /\ ~(c.point <= Len(results)) /\ completions'[c.point] \in {0, 1}
      BY <1>p, <1>q, <2>1 DEF Inv, CompletionInv, PayloadDone
    <3>2. \A d \in strays' : d.kind = "collect" => d.point # c.point
      <4>1. \A d \in Commands : d = [kind |-> d.kind, point |-> d.point]
        BY DEF Commands
      <4>2. QED
        BY <1>0, <2>1, <4>1 DEF Inv, Types
    <3>3. \A d \in strays' : d \in strays /\ d.point \in Points
      BY <1>0 DEF Inv, Types, Commands
    <3>4. \A d \in strays' : d.kind = "collect" => completions'[d.point] = 0
      BY <1>p, <3>2, <3>3 DEF Inv, CompletionInv, PayloadDone
    <3>5. \A p \in Points : completions'[p] <= 1 /\ (p <= Len(results) => completions'[p] = 1)
      BY <1>p DEF Inv, CompletionInv, PayloadDone
    <3>6. QED
      BY <1>q, <2>1, <3>4, <3>5 DEF CompletionInv
  <2>2. CASE c.kind # "collect"
    BY <1>0, <1>p, <1>q, <2>2 DEF Inv, CompletionInv, PayloadDone
  <2>3. QED
    BY <2>1, <2>2
<1>6. QED
  BY <1>1, <1>2, <1>3, <1>4, <1>5 DEF Inv

\* Every step of the driver, of the host and of time keeps the invariant.
LEMMA NextKeeps ==
  ASSUME Inv, [Next]_vars
  PROVE  Inv'
<1>1. CASE UNCHANGED vars
  BY <1>1 DEF Inv, Types, CommandInv, SamplerInv, MissedInv, CompletionInv, vars,
    hostVars, samplerVars, driverVars
<1>2. QED
  BY <1>1, SendKeeps, ObserveKeeps, RejectEvidenceKeeps, RetryProbeKeeps,
    RetryCollectionKeeps, ObserveErrorKeeps, ObserveResetKeeps, SubmitFailsKeeps,
    GiveUpKeeps, TakeSnapshotKeeps, EndLoadKeeps, ReadSummaryKeeps, ValidateTimelineKeeps,
    DeriveKeeps, SummariseKeeps, KillKeeps, TickKeeps, RunCommandKeeps, RunStrayKeeps,
    RunStartKeeps, ExpireCommandKeeps, SamplerCrashesKeeps
  DEF Next, DriverStep, HostStep

-----------------------------------------------------------------------------
(* The theorems about the protocol *)

\* The protocol between the driver, SSM and the host keeps its invariant, for any number
\* of rates, failures, attempts and clock differences.
THEOREM LadderInvariant == Spec => []Inv
<1>1. Init => Inv
  BY HostAssumption DEF Init, HostInit, Inv, Types, SamplerStates, Stages, CommandInv,
    SamplerInv, MissedInv, CompletionInv, Kinds, Points
<1>2. Inv /\ [Next]_vars => Inv'
  BY NextKeeps
<1>3. QED
  BY <1>1, <1>2, PTL DEF Spec

\* run_remote_action retries a collection only where it never ran: each point is collected
\* at most once, and each counted one exactly once.
THEOREM CollectionsAreSingle == Spec => []CollectedOnce
<1>1. Inv => CollectedOnce
  BY HostAssumption DEF Inv, Types, CompletionInv, MissedInv, CollectedOnce, Counted, Points
<1>2. QED
  BY <1>1, LadderInvariant, PTL

\* A counted point was observed during the whole load, whatever the clocks said to
\* validate_runtime_timeline_covers_load.
THEOREM CountedIsCovered == Spec => []CoveredForReal
<1>1. Inv => CoveredForReal
  BY DEF Inv, MissedInv, CoveredForReal, Counted
<1>2. QED
  BY <1>1, LadderInvariant, PTL

\* A load is observed by the sampler of its own rate alone, and a ladder that ends well
\* leaves none on the host.
THEOREM OneSamplerAtATime == Spec => []NoSamplerLingers
<1>1. Inv => NoSamplerLingers
  BY DEF Inv, SamplerInv, NoSamplerLingers, Alive, Observing
<1>2. QED
  BY <1>1, LadderInvariant, PTL

-----------------------------------------------------------------------------
(* The envelope *)

\* A set of numbers that is not empty has a least one: the first of the counterexamples
\* to what holds of one point after the other.
LEMMA LeastExists ==
  ASSUME NEW T \in SUBSET Nat, T # {}
  PROVE  \E m \in T : \A n \in T : m <= n
<1>1. PICK m \in T : \A n \in T : ~ (<<n, m>> \in OpToRel(<, Nat))
  BY NatLessThanWellFounded, WFMin
<1>2. \A n \in T : ~ (n < m)
  BY <1>1 DEF OpToRel
<1>3. QED
  BY <1>2

\* The envelope of the first m points.
Solves(f, m) == f = [n \in 0 .. m |-> IF n = 0 THEN NoSummary ELSE Extend(f[n - 1], n)]

\* The recursion over the results has a solution, so the envelope is one.
LEMMA EnvelopeUnfolds ==
  ASSUME results \in Seq(BOOLEAN)
  PROVE  Solves(Envelope, Len(results))
<1>1. Len(results) \in Nat
  OBVIOUS
<1>2. \A m \in 0 .. Len(results) : \E f : Solves(f, m)
  <2> DEFINE Bad == {m \in 0 .. Len(results) : ~ \E f : Solves(f, m)}
  <2>1. SUFFICES ASSUME Bad # {} PROVE FALSE
    OBVIOUS
  <2>2. PICK m \in Bad : \A n \in Bad : m <= n
    <3>1. Bad \in SUBSET Nat
      BY <1>1
    <3> HIDE DEF Bad
    <3>2. QED
      BY <2>1, <3>1, LeastExists
  <2>3. m # 0
    <3>1. Solves([n \in 0 .. 0 |-> NoSummary], 0)
      BY DEF Solves
    <3>2. QED
      BY <2>2, <3>1
  <2>4. m - 1 \in 0 .. Len(results) /\ m - 1 \notin Bad
    BY <1>1, <2>2, <2>3
  <2>5. PICK g : Solves(g, m - 1)
    BY <2>4
  <2> DEFINE f == [n \in 0 .. m |-> IF n = m THEN Extend(g[m - 1], m) ELSE g[n]]
  <2>6. Solves(f, m)
    <3>1. m \in Nat \ {0}
      BY <1>1, <2>2, <2>3
    <3>2. ASSUME NEW n \in 0 .. m
          PROVE  f[n] = IF n = 0 THEN NoSummary ELSE Extend(f[n - 1], n)
      <4>1. CASE n = m
        BY <3>1, <4>1
      <4>2. CASE n # m
        <5>1. n \in 0 .. (m - 1) /\ (n # 0 => n - 1 \in 0 .. (m - 1) /\ n - 1 # m)
          BY <3>1, <4>2
        <5>2. g[n] = IF n = 0 THEN NoSummary ELSE Extend(g[n - 1], n)
          BY <2>5, <5>1 DEF Solves
        <5>3. QED
          BY <3>1, <4>2, <5>1, <5>2
      <4>3. QED
        BY <4>1, <4>2
    <3>3. QED
      BY <3>2 DEF Solves
  <2>7. QED
    BY <2>2, <2>6
<1>3. \E f : Solves(f, Len(results))
  BY <1>1, <1>2
<1>4. Envelope = CHOOSE f : Solves(f, Len(results))
  BY DEF Envelope, Solves
<1>5. QED
  BY <1>3, <1>4

\* What the summary says of the first n points.
IsEnvelope(e, n) ==
  /\ e \in [maximum : 0 .. n, failing : 0 .. n]
  /\ \A p \in 1 .. e.maximum : results[p]
  /\ e.failing = 0 => e.maximum = n
  /\ e.failing # 0 => e.failing = e.maximum + 1 /\ ~results[e.failing]

\* Another point extends the envelope, ends it, or is behind its end.
LEMMA ExtendKeepsEnvelope ==
  ASSUME NEW n \in Nat, NEW e, IsEnvelope(e, n)
  PROVE  IsEnvelope(Extend(e, n + 1), n + 1)
<1>1. CASE e.failing # 0
  BY <1>1 DEF IsEnvelope, Extend
<1>2. CASE e.failing = 0 /\ results[n + 1]
  BY <1>2 DEF IsEnvelope, Extend
<1>3. CASE e.failing = 0 /\ ~results[n + 1]
  BY <1>3 DEF IsEnvelope, Extend
<1>4. QED
  BY <1>1, <1>2, <1>3

\* After each point the summary is the envelope of the points so far.
LEMMA EnvelopeIsEnvelope ==
  ASSUME results \in Seq(BOOLEAN)
  PROVE  IsEnvelope(Envelope[Len(results)], Len(results))
<1>1. Len(results) \in Nat
  OBVIOUS
<1> DEFINE Bad == {m \in 0 .. Len(results) : ~IsEnvelope(Envelope[m], m)}
<1>2. SUFFICES ASSUME Bad # {} PROVE FALSE
  BY <1>1
<1>3. PICK m \in Bad : \A n \in Bad : m <= n
  <2>1. Bad \in SUBSET Nat
    BY <1>1
  <2> HIDE DEF Bad
  <2>2. QED
    BY <1>2, <2>1, LeastExists
<1>4. Envelope[m] = IF m = 0 THEN NoSummary ELSE Extend(Envelope[m - 1], m)
  BY <1>3, EnvelopeUnfolds DEF Solves
<1>5. CASE m = 0
  BY <1>3, <1>4, <1>5 DEF IsEnvelope, NoSummary
<1>6. CASE m # 0
  <2>1. m - 1 \in Nat /\ m - 1 \in 0 .. Len(results) /\ m - 1 \notin Bad /\ m - 1 + 1 = m
    BY <1>1, <1>3, <1>6
  <2>2. IsEnvelope(Extend(Envelope[m - 1], m), m)
    BY <2>1, ExtendKeepsEnvelope
  <2>3. QED
    BY <1>3, <1>4, <1>6, <2>2
<1>7. QED
  BY <1>5, <1>6

-----------------------------------------------------------------------------
(* The types and the summary *)

\* How often a probe and a collection have been sent, and may be once more.
AttemptInv ==
  /\ probes \in 0 .. MaxProbes /\ collections \in 0 .. MaxCollections
  /\ stage \in {"prepare", "start", "snapshot", "load", "stop", "summary", "gather", "validate"}
       => probes = 0 /\ collections = 0
  /\ stage = "probe" => collections < MaxCollections /\ (command = Idle => probes < MaxProbes)
  /\ stage = "collect" /\ command = Idle => collections < MaxCollections

\* The types that the protocol does not depend on.
OtherTypes ==
  /\ runs \subseteq Points /\ faults \in 0 .. MaxFaults
  /\ left \in [Points -> 0 .. SamplerTimeout] /\ coveredTo \in [Points -> 0 .. LongestLoad]
  /\ load \in {"none", "open", "broken", "ended"}
  /\ summary \in [{"maximum", "failing"} -> 0 .. Rates]

\* A ladder ends behind its last rate or behind a failed one, and is summarised once.
VerdictInv ==
  /\ stage \in {"summarise", "done"}
       => Len(results) = Rates \/ (Len(results) > 0 /\ ~results[Len(results)])
  /\ stage = "done" => IsEnvelope(summary, Len(results))

LadderInv == Inv /\ AttemptInv /\ OtherTypes /\ VerdictInv

\* Every attempt is counted when it is sent, and sent only while another is allowed.
LEMMA AttemptsKeep ==
  ASSUME Inv, AttemptInv, [Next]_vars
  PROVE  AttemptInv'
<1> USE LadderAssumption DEF AttemptInv, Attempts, KeepsTrial, KeepsHost, Goto
<1>1. CASE Send
  BY <1>1 DEF Send, Kinds, Idle, Commands
<1>2. CASE Observe
  BY <1>2 DEF Observe, Observes, After, Inv, CommandInv, Kinds
<1>3. CASE RetryProbe
  BY <1>3 DEF RetryProbe, Observes, AnotherAllowed, Inv, CommandInv, Idle, Kinds, NeverDelivered
<1>4. CASE RetryCollection
  BY <1>4 DEF RetryCollection, Observes, AnotherAllowed
<1>5. CASE RejectEvidence \/ ObserveError \/ SubmitFails \/ GiveUp
  BY <1>5 DEF RejectEvidence, ObserveError, SubmitFails, GiveUp, Observes, OnError
<1>6. CASE TakeSnapshot \/ EndLoad \/ ReadSummary
  BY <1>6 DEF TakeSnapshot, EndLoad, ReadSummary
<1>7. CASE ValidateTimeline
  BY <1>7 DEF ValidateTimeline
<1>8. CASE Derive
  BY <1>8 DEF Derive, NextRate
<1>9. CASE ObserveReset
  BY <1>9 DEF ObserveReset, NextRate
<1>10. CASE Summarise \/ Kill \/ Tick
  BY <1>10 DEF Summarise, Kill, Tick, Ended
<1>11. CASE (HostStep \/ ExpireCommand \/ SamplerCrashes) /\ UNCHANGED driverVars
  <2>1. command' = Idle => command = Idle
    BY <1>11 DEF HostStep, RunCommand, RunStray, RunStart, Launched, ExpireCommand,
      SamplerCrashes, Idle, Inv, Types, Commands
  <2>2. QED
    BY <1>11, <2>1 DEF driverVars
<1>12. CASE UNCHANGED vars
  BY <1>12 DEF vars, hostVars, driverVars
<1>13. QED
  BY <1>1, <1>2, <1>3, <1>4, <1>5, <1>6, <1>7, <1>8, <1>9, <1>10, <1>11, <1>12
  DEF Next, DriverStep

\* A payload keeps the types of what it touches.
LEMMA PayloadTypes ==
  ASSUME OtherTypes, NEW c \in Commands, NEW a \in {"success", "failed"}, Runs(c, a)
  PROVE  runs' \subseteq Points /\ faults' \in 0 .. MaxFaults /\ UNCHANGED <<left, coveredTo>>
<1> USE HostAssumption DEF OtherTypes, Answers, Fault, samplerVars, Commands
<1>1. CASE PreparePoint(c.point, a) \/ CollectPoint(c.point, a) \/ ResetPoint(a) \/ Probe(a)
  BY <1>1 DEF PreparePoint, CollectPoint, ResetPoint, Probe
<1>2. CASE AwaitReady(c.point, a) \/ StopSampler(c.point, a)
  BY <1>2 DEF AwaitReady, StopSampler
<1>3. CASE GatherSampler(c.point, a) \/ CleanSampler(c.point, a)
  BY <1>3 DEF GatherSampler, CleanSampler
<1>4. QED
  BY <1>1, <1>2, <1>3 DEF Runs

\* There are no more results than rates.
LEMMA ResultsType ==
  ASSUME Types, MissedInv
  PROVE  results \in Seq(BOOLEAN) /\ Len(results) \in 0 .. Rates
<1>1. results \in Seq(BOOLEAN) /\ rate \in 1 .. Rates /\ Rates \in Nat
  BY HostAssumption DEF Types, Points
<1>2. Len(results) <= rate
  BY DEF MissedInv
<1>3. Len(results) \in Nat
  BY <1>1
<1>4. QED
  BY <1>1, <1>2, <1>3

\* A summary is a pair of rates.
LEMMA SummaryType ==
  ASSUME NEW n \in 0 .. Rates, NEW e, IsEnvelope(e, n)
  PROVE  e \in [{"maximum", "failing"} -> 0 .. Rates]
  BY HostAssumption DEF IsEnvelope

\* The other variables keep their types.
LEMMA OtherTypesKeep ==
  ASSUME Inv, OtherTypes, [Next]_vars
  PROVE  OtherTypes'
<1> USE HostAssumption DEF OtherTypes, Fault, KeepsTrial, KeepsHost, Goto, Trial, samplerVars
<1>1. CASE Send \/ Observe \/ RejectEvidence \/ RetryProbe \/ RetryCollection \/ ObserveError
  BY <1>1 DEF Send, Observe, RejectEvidence, RetryProbe, RetryCollection, ObserveError, Observes
<1>2. CASE SubmitFails \/ GiveUp \/ Kill
  BY <1>2 DEF SubmitFails, GiveUp, Kill
<1>3. CASE TakeSnapshot \/ EndLoad \/ ReadSummary \/ ValidateTimeline
  BY <1>3 DEF TakeSnapshot, EndLoad, ReadSummary, ValidateTimeline
<1>4. CASE Derive \/ ObserveReset
  BY <1>4 DEF Derive, ObserveReset, NextRate
<1>5. CASE Summarise
  <2>1. results \in Seq(BOOLEAN) /\ Len(results) \in 0 .. Rates
    BY ResultsType DEF Inv
  <2>2. summary' \in [{"maximum", "failing"} -> 0 .. Rates]
    BY <1>5, <2>1, EnvelopeIsEnvelope, SummaryType DEF Summarise
  <2>3. QED
    BY <1>5, <2>2 DEF Summarise
<1>6. CASE Tick
  <2>1. clock' \in 0 .. LongestLoad
    BY <1>6 DEF Tick, SamplersObserve, Inv, Types
  <2>2. left' \in [Points -> 0 .. SamplerTimeout]
    BY <1>6 DEF Tick, SamplersObserve
  <2>3. coveredTo' \in [Points -> 0 .. LongestLoad]
    BY <1>6, <2>1 DEF Tick, SamplersObserve
  <2>4. QED
    BY <1>6, <2>2, <2>3 DEF Tick
<1>7. CASE RunCommand /\ UNCHANGED driverVars
  BY <1>7, PayloadTypes DEF RunCommand, driverVars, Inv, Types
<1>8. CASE RunStray /\ UNCHANGED driverVars
  BY <1>8, PayloadTypes DEF RunStray, driverVars, Inv, Types
<1>9. CASE RunStart /\ UNCHANGED driverVars
  BY <1>9 DEF RunStart, LaunchSampler, driverVars
<1>10. CASE (ExpireCommand \/ SamplerCrashes) /\ UNCHANGED driverVars
  BY <1>10 DEF ExpireCommand, SamplerCrashes, driverVars
<1>11. CASE UNCHANGED vars
  BY <1>11 DEF vars, hostVars, driverVars
<1>12. QED
  BY <1>1, <1>2, <1>3, <1>4, <1>5, <1>6, <1>7, <1>8, <1>9, <1>10, <1>11
  DEF Next, DriverStep, HostStep

\* The ladder goes on until the last rate, or in a tier until one fails.
LEMMA NextRateVerdicts ==
  ASSUME Inv, stage \in {"derive", "reset"}, NEW verdict \in BOOLEAN, NextRate(verdict)
  PROVE  VerdictInv'
<1>1. results \in Seq(BOOLEAN) /\ Len(results) = rate - 1 /\ rate \in 1 .. Rates
  BY DEF Inv, Types, MissedInv, Points, Ended
<1>2. results' = Append(results, verdict) /\ stage' \in {"summarise", "prepare"}
  BY DEF NextRate
<1>3. Len(results') = rate /\ results'[Len(results')] = verdict
  BY <1>1, <1>2, HostAssumption
<1>4. stage' = "summarise" => ~verdict \/ rate = Rates
  BY DEF NextRate
<1>5. QED
  BY <1>1, <1>2, <1>3, <1>4 DEF VerdictInv

\* What the summary says is fixed with the results.
LEMMA VerdictsKeep ==
  ASSUME Inv, VerdictInv, [Next]_vars
  PROVE  VerdictInv'
<1> USE DEF VerdictInv
<1>1. ASSUME stage' \notin {"summarise", "done"} PROVE VerdictInv'
  BY <1>1
<1>2. ASSUME UNCHANGED <<stage, results, summary>> PROVE VerdictInv'
  BY <1>2 DEF IsEnvelope
<1>3. CASE Send \/ Observe
  BY <1>1, <1>3 DEF Send, Kinds, Observe, Observes, After, Inv, CommandInv
<1>4. CASE RejectEvidence \/ RetryProbe \/ RetryCollection \/ SubmitFails \/ Kill
  BY <1>1, <1>4 DEF RejectEvidence, RetryProbe, RetryCollection, Observes, SubmitFails,
    OnError, Kill
<1>5. CASE ObserveError \/ GiveUp
  BY <1>1, <1>5 DEF ObserveError, GiveUp, Observes, OnError
<1>6. CASE TakeSnapshot \/ EndLoad \/ ReadSummary \/ ValidateTimeline
  BY <1>1, <1>6 DEF TakeSnapshot, EndLoad, ReadSummary, ValidateTimeline, Goto
<1>7. CASE Derive
  BY <1>1, <1>7, NextRateVerdicts DEF Derive
<1>8. CASE ObserveReset
  <2>1. stage = "reset"
    BY <1>8 DEF ObserveReset, Inv, CommandInv, Idle
  <2>2. QED
    BY <1>8, <2>1, NextRateVerdicts DEF ObserveReset
<1>9. CASE Summarise
  BY <1>9, EnvelopeIsEnvelope DEF Summarise, Goto, Inv, Types, IsEnvelope
<1>10. CASE Tick
  BY <1>2, <1>10 DEF Tick
<1>11. CASE (HostStep \/ ExpireCommand \/ SamplerCrashes) /\ UNCHANGED driverVars
  BY <1>2, <1>11 DEF driverVars
<1>12. CASE UNCHANGED vars
  BY <1>2, <1>12 DEF vars, driverVars
<1>13. QED
  BY <1>3, <1>4, <1>5, <1>6, <1>7, <1>8, <1>9, <1>10, <1>11, <1>12 DEF Next, DriverStep

\* The attempts, the types and the summary keep their invariant with the protocol's.
THEOREM WholeLadderInvariant == Spec => []LadderInv
<1>1. Init => LadderInv
  <2> SUFFICES ASSUME Init PROVE LadderInv
    OBVIOUS
  <2> USE HostAssumption, LadderAssumption DEF Init, HostInit
  <2>1. Inv
    BY DEF Inv, Types, SamplerStates, Stages, CommandInv, SamplerInv, MissedInv, CompletionInv,
      Kinds, Points
  <2>2. AttemptInv
    BY DEF AttemptInv
  <2>3. OtherTypes
    BY DEF OtherTypes, NoSummary, Points
  <2>4. VerdictInv
    BY DEF VerdictInv
  <2>5. QED
    BY <2>1, <2>2, <2>3, <2>4 DEF LadderInv
<1>2. Inv /\ [Next]_vars => Inv'
  BY NextKeeps
<1>3. LadderInv /\ [Next]_vars => LadderInv'
  BY <1>2, AttemptsKeep, OtherTypesKeep, VerdictsKeep DEF LadderInv
<1>4. QED
  BY <1>1, <1>3, PTL DEF Spec

\* The variables of a ladder have their types, and its probes and collections keep to
\* SSM_RECOVERY_MAX_PROBES and SSM_COLLECTION_MAX_ATTEMPTS.
THEOREM LadderTypeCorrect == Spec => []TypeOK
<1>1. LadderInv => TypeOK
  <2> SUFFICES ASSUME LadderInv PROVE TypeOK
    OBVIOUS
  <2>1. HostTypeOK
    BY DEF LadderInv, Inv, Types, SamplerStates, OtherTypes, HostTypeOK
  <2>2. Len(results) <= Rates
    BY HostAssumption DEF LadderInv, Inv, Types, MissedInv, Points
  <2>3. QED
    BY <2>1, <2>2 DEF LadderInv, Inv, Types, Stages, AttemptInv, OtherTypes, TypeOK
<1>2. QED
  BY <1>1, WholeLadderInvariant, PTL

\* The summary of a ladder (derive_legacy_baseline_summary) is the envelope of its
\* results, for any number of rates and whatever the verdicts are.
THEOREM SummaryIsEnvelope == Spec => []EnvelopeIsConsecutive
<1>1. LadderInv => EnvelopeIsConsecutive
  <2> SUFFICES ASSUME LadderInv, stage = "done" PROVE EnvelopeIsConsecutive
    BY DEF EnvelopeIsConsecutive
  <2>1. Len(results) \in 0 .. Rates /\ Rates \in Nat
    BY HostAssumption DEF LadderInv, Inv, Types, MissedInv, Points
  <2>2. /\ Len(results) = Rates \/ (Len(results) > 0 /\ ~results[Len(results)])
        /\ IsEnvelope(summary, Len(results))
    BY DEF LadderInv, VerdictInv
  <2>3. QED
    BY <2>1, <2>2 DEF IsEnvelope, EnvelopeIsConsecutive, Counted, Points
<1>2. QED
  BY <1>1, WholeLadderInvariant, PTL
=============================================================================
