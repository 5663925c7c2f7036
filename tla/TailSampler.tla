----------------------------- MODULE TailSampler -----------------------------
(***************************************************************************)
(* The adaptive OTLP sampler proxy (scripts/sampler): handler threads      *)
(* decide the traces of a batch at the sampler's rate and forward what     *)
(* they keep, while the policy engine reads its signals, changes its own   *)
(* rate, audits, and hands the rate to the sampler (and, in file mode, to  *)
(* a file).  The feedback policy of exporters/tail_sampler.py derives      *)
(* another rate from a cached evaluation score.                            *)
(***************************************************************************)
EXTENDS Naturals, Sequences, FiniteSets

CONSTANTS
  TsHandlers,    \* handler threads: each takes one batch
  TsBatches,     \* the batches: the [trace, mark] of each span of a scope
  TsBucket,      \* sha256(trace id) of each trace, in percent
  TsRetries,     \* max_retries
  TsTicks,       \* bound: policy ticks
  FbCalls,       \* concurrent evaluate_rate() calls of the feedback policy
  FbTTL,         \* its cache_ttl
  FbTicks,       \* bound: clock ticks of the feedback policy
  FbReports      \* bound: changes it reports before calls stop

ASSUME TailSamplerAssumption ==
  /\ {TsRetries, TsTicks, FbTTL, FbTicks, FbReports} \subseteq Nat
  /\ TsBucket \in [DOMAIN TsBucket -> 0 .. 99]
  /\ \A batch \in TsBatches : batch \in Seq([trace : DOMAIN TsBucket, mark : STRING])

VARIABLES
  tsEngine,   \* the policy engine: rate, where its tick is, ticks done
  tsSampler,  \* AdaptiveSampler._rate
  tsFile,     \* the shared rate file (or none), and whether the last write failed
  tsHandler,  \* per handler: batch, traces decided and kept, attempts, outcome
  tsSeen,     \* the groups decided: trace, must, rate, verdict
  fb,         \* the feedback policy: now, score cache, rate, lock queue, reported changes
  fbCall      \* its calls: pc and the time they read

samplerVars == <<tsEngine, tsSampler, tsFile, tsHandler, tsSeen>>
feedbackVars == <<fb, fbCall>>

\* SAMPLER_RATES in percent; the two 5 % reasons are distinct decisions.
RateOf(reason) == CASE reason = "cpu_high" -> 5 [] reason = "error_budget_low" -> 5
                    [] reason = "error_high" -> 30 [] OTHER -> 10

SamplerInit ==
  /\ tsEngine = [reason |-> "default", pc |-> "idle", ticks |-> 0, stop |-> FALSE]
  /\ tsSampler = "default"
  /\ tsFile \in {[on |-> FALSE, reason |-> "none", failed |-> FALSE],
                 [on |-> TRUE, reason |-> "default", failed |-> FALSE]}
  /\ tsHandler = [h \in TsHandlers |-> [pc |-> "idle", batch |-> <<>>, decided |-> {}, kept |-> {},
                                        tries |-> 0, got |-> 0]]
  /\ tsSeen = {}

(***************************************************************************)
(* evaluate_rate(): a query that fails or has no series reads as no load,  *)
(* no errors, and an unknown budget.                                       *)
(***************************************************************************)
EvaluateRate(cpu, budgetLow, errors) ==
  CASE cpu -> "cpu_high"
    [] ~cpu /\ budgetLow -> "error_budget_low"
    [] ~cpu /\ ~budgetLow /\ errors -> "error_high"
    [] OTHER -> "default"

\* run_once(): the signals arrive, evaluate() changes the engine's rate at once.
Evaluate(cpu, budgetLow, errors) ==
  LET new == EvaluateRate(cpu, budgetLow, errors) IN
  /\ tsEngine.pc = "idle" /\ ~tsEngine.stop /\ tsEngine.ticks < TsTicks
  /\ tsEngine' = [tsEngine EXCEPT !.reason = new, !.ticks = @ + 1,
                                  !.pc = IF new = tsEngine.reason THEN "idle" ELSE "audit"]
  /\ UNCHANGED <<tsSampler, tsFile, tsHandler, tsSeen>>

\* The audit write ends, well or not, and the callback runs: the sampler first.
AuditThenApply ==
  /\ tsEngine.pc = "audit"
  /\ tsSampler' = tsEngine.reason
  /\ tsEngine' = [tsEngine EXCEPT !.pc = IF tsFile.on THEN "file" ELSE "idle"]
  /\ UNCHANGED <<tsFile, tsHandler, tsSeen>>

\* RateFileWriter.write(): a temporary file and a rename.  An error ends the tick.
WriteRateFile(ok) ==
  /\ tsEngine.pc = "file"
  /\ tsFile' = [tsFile EXCEPT !.reason = IF ok THEN tsEngine.reason ELSE @, !.failed = ~ok]
  /\ tsEngine' = [tsEngine EXCEPT !.pc = "idle"]
  /\ UNCHANGED <<tsSampler, tsHandler, tsSeen>>

\* The stop signal is seen between ticks: the last rate is applied and written.
StopEngine ==
  /\ tsEngine.pc = "idle" /\ ~tsEngine.stop
  /\ tsEngine' = [tsEngine EXCEPT !.stop = TRUE, !.pc = IF tsFile.on THEN "file" ELSE "idle"]
  /\ tsSampler' = tsEngine.reason
  /\ UNCHANGED <<tsFile, tsHandler, tsSeen>>

\* do_POST: an empty, oversized or malformed body is refused before any decision; one
\* without spans has nothing to decide or to forward.
Receive(h, batch) ==
  /\ tsHandler[h].pc = "idle"
  /\ tsHandler' = [tsHandler EXCEPT ![h].pc = IF batch = <<>> THEN "ok" ELSE "decide", ![h].batch = batch]
  /\ UNCHANGED <<tsEngine, tsSampler, tsFile, tsSeen>>

RefuseBody(h) ==
  /\ tsHandler[h].pc = "idle"
  /\ tsHandler' = [tsHandler EXCEPT ![h].pc = "refused"]
  /\ UNCHANGED <<tsEngine, tsSampler, tsFile, tsSeen>>

\* A plausible slip: the draw mixes the rate in, so lower rates keep other traces.
ProbabilisticKeepSalted(trace, rate) == (TsBucket[trace] + 19 * rate) % 100 < rate

\* The hash of the trace id against the rate, never a draw.
ProbabilisticKeep(trace, rate) == TsBucket[trace] < rate

\* extract_spans() and group_spans_by_trace(): the traces of a batch, in the order
\* of their first spans.
TracesOf(batch) == {batch[i].trace : i \in 1 .. Len(batch)}
NextTrace(r) ==
  LET open == {i \in 1 .. Len(r.batch) : r.batch[i].trace \notin r.decided}
  IN r.batch[CHOOSE i \in open : \A j \in open : i <= j].trace

\* is_interesting_span(): an error status or one of the always-keep attributes, set
\* to true, on any span of the group.
MustKeep(batch, trace) ==
  \E i \in 1 .. Len(batch) :
    batch[i].trace = trace /\ batch[i].mark \in {"error", "cost.over_budget", "security.incident"}

\* decide_trace() of the next group: the spans of one trace in one scope.  The
\* rate is read under the sampler's lock, once per group.
DecideTrace(h) ==
  LET r == tsHandler[h]
      t == NextTrace(r)
      rate == RateOf(tsSampler)
      must == MustKeep(r.batch, t)
      keep == must \/ ProbabilisticKeep(t, rate)
      kept == IF keep THEN r.kept \cup {t} ELSE r.kept
      last == TracesOf(r.batch) \subseteq r.decided \cup {t} IN
  /\ r.pc = "decide"
  /\ tsHandler' = [tsHandler EXCEPT ![h] =
       [r EXCEPT !.kept = kept, !.decided = @ \cup {t},
                 !.pc = CASE ~last -> "decide" [] last /\ kept # {} -> "forward" [] OTHER -> "ok"]]
  /\ tsSeen' = tsSeen \cup {[trace |-> t, must |-> must, rate |-> rate, keep |-> keep]}
  /\ UNCHANGED <<tsEngine, tsSampler, tsFile>>

(***************************************************************************)
(* One attempt of forward(): accepted; accepted though the answer is lost; *)
(* a transient failure (an exception, 429 or 5xx); a final rejection.  A   *)
(* batch that could not be forwarded is answered 200 like any other.       *)
(***************************************************************************)
ForwardAttempt(h, outcome) ==
  LET r == tsHandler[h]
      got == r.got + IF outcome \in {"accepted", "lost"} THEN 1 ELSE 0
      again == outcome \in {"lost", "transient"} /\ r.tries < TsRetries IN
  /\ r.pc = "forward"
  /\ tsHandler' = [tsHandler EXCEPT ![h] =
       [r EXCEPT !.tries = @ + 1, !.got = got,
                 !.pc = CASE again -> "forward" [] outcome = "accepted" -> "ok"
                          [] outcome = "rejected" -> "rejected" [] OTHER -> "exhausted"]]
  /\ UNCHANGED <<tsEngine, tsSampler, tsFile, tsSeen>>

SamplerNext ==
  \/ \E cpu, low, errors \in BOOLEAN : Evaluate(cpu, low, errors)
  \/ AuditThenApply
  \/ \E ok \in BOOLEAN : WriteRateFile(ok)
  \/ StopEngine
  \/ \E h \in TsHandlers :
       \/ \E batch \in TsBatches : Receive(h, batch)
       \/ RefuseBody(h)
       \/ DecideTrace(h)
       \/ \E o \in {"accepted", "lost", "transient", "rejected"} : ForwardAttempt(h, o)

-----------------------------------------------------------------------------
\* The feedback policy: score classes stand for the average faithfulness.
Scores == {"good", "low", "bad"}
FbRate(score) == CASE score = "good" -> 10 [] score = "low" -> 25 [] OTHER -> 40

FeedbackInit ==
  /\ fb = [now |-> 0, score |-> "none", at |-> 0, rate |-> 10, lock |-> <<>>, log |-> <<>>]
  /\ fbCall = [c \in FbCalls |-> [pc |-> "idle", now |-> 0]]

FbFresh(c) == fb.score # "none" /\ fbCall[c].now < fb.at + FbTTL

\* evaluate_rate() once the score is known: compare, set and report, with no await
\* between (the audit write comes after).
Settled(score) ==
  [fb EXCEPT !.rate = FbRate(score),
             !.log = IF FbRate(score) = fb.rate THEN @ ELSE Append(@, <<fb.rate, FbRate(score)>>)]

\* get_eval_score(): a fresh cache answers; else the call queues for the lock.
FbAsk(c) ==
  LET fresh == fb.score # "none" /\ fb.now < fb.at + FbTTL IN
  /\ fbCall[c].pc # "lock" /\ Len(fb.log) < FbReports
  /\ fbCall' = [fbCall EXCEPT ![c] = [pc |-> IF fresh THEN "done" ELSE "lock", now |-> fb.now]]
  /\ fb' = IF fresh THEN Settled(fb.score) ELSE [fb EXCEPT !.lock = Append(@, c)]

(***************************************************************************)
(* The holder of the lock: another call may have filled the cache since    *)
(* (the age is taken with the time read before the wait), else Prometheus  *)
(* answers, or the last score stands - and without one, 0.5: the worst     *)
(* class.                                                                  *)
(***************************************************************************)
FbAnswer(c, score) ==
  LET known == IF fb.score = "none" THEN "bad" ELSE fb.score IN
  /\ fbCall[c].pc = "lock" /\ Head(fb.lock) = c
  /\ FbFresh(c) => score = "none"
  /\ fb' = [Settled(IF score = "none" THEN known ELSE score) EXCEPT
              !.lock = Tail(@), !.score = IF score = "none" THEN @ ELSE score,
              !.at = IF score = "none" THEN @ ELSE fbCall[c].now]
  /\ fbCall' = [fbCall EXCEPT ![c].pc = "done"]

FbTick ==
  /\ fb.now < FbTicks
  /\ fb' = [fb EXCEPT !.now = @ + 1]
  /\ UNCHANGED fbCall

FeedbackNext ==
  \/ \E c \in FbCalls : FbAsk(c)
  \/ \E c \in FbCalls, s \in Scores \cup {"none"} : FbAnswer(c, s)
  \/ FbTick

\* The proxy beside the exporter's policy, which is in another process.
TailSpec ==
  /\ SamplerInit /\ FeedbackInit
  /\ [][ \/ SamplerNext /\ UNCHANGED feedbackVars
         \/ FeedbackNext /\ UNCHANGED samplerVars ]_<<samplerVars, feedbackVars>>

-----------------------------------------------------------------------------
Reasons == {"cpu_high", "error_budget_low", "error_high", "default"}
TailTypeOK ==
  /\ tsEngine.reason \in Reasons /\ tsEngine.pc \in {"idle", "audit", "file"}
  /\ tsSampler \in Reasons
  /\ \A h \in TsHandlers : tsHandler[h].pc \in
       {"idle", "decide", "forward", "ok", "rejected", "exhausted", "refused"}
  /\ fb.score \in Scores \cup {"none"} /\ fb.rate \in {10, 25, 40}

(***************************************************************************)
(* Between two ticks the handlers decide at the engine's rate, whatever    *)
(* audit or file write failed (run_policy_engine_loop, on_change); the     *)
(* file shows it too unless its last write failed.                         *)
(***************************************************************************)
RateApplied ==
  tsEngine.pc = "idle" =>
    tsSampler = tsEngine.reason /\ (tsFile.on => tsFile.reason = tsEngine.reason \/ tsFile.failed)

(***************************************************************************)
(* The verdict on a trace's ordinary spans is nested over rates: dropped   *)
(* at one rate, it is dropped at every lower one, in whichever batch and   *)
(* handler they come, so a repeated batch never flips at the same rate     *)
(* (_probabilistic_keep).  What must be kept is never dropped.             *)
(***************************************************************************)
VerdictsNested ==
  /\ \A a, b \in tsSeen :
       a.trace = b.trace /\ ~a.must /\ ~b.must /\ ~a.keep /\ b.rate <= a.rate => ~b.keep
  /\ \A a \in tsSeen : a.must => a.keep

(***************************************************************************)
(* A forwarded batch reaches the downstream at least once, a rejected one  *)
(* is not sent again, and none is sent more than max_retries + 1 times.    *)
(* Only a lost answer makes a duplicate (forward).                         *)
(***************************************************************************)
ForwardsBounded == \A h \in TsHandlers : LET r == tsHandler[h] IN
  /\ r.tries <= TsRetries + 1 /\ r.got <= r.tries
  /\ r.pc = "ok" => (r.got >= 1 <=> r.kept # {})
  /\ r.pc = "exhausted" => r.tries = TsRetries + 1

\* The changes the feedback policy reports form a chain that starts at the normal
\* rate and ends at its rate, however the calls interleave (_report_rate_change).
FeedbackChain ==
  /\ \A i \in 1 .. Len(fb.log) : fb.log[i][1] = IF i = 1 THEN 10 ELSE fb.log[i - 1][2]
  /\ fb.rate = IF fb.log = <<>> THEN 10 ELSE fb.log[Len(fb.log)][2]

\* The sampler: between two ticks the handlers decide at the engine's rate, a trace
\* dropped at one rate is dropped at every lower one, a batch is sent within its
\* attempts, and the rate changes reported form a chain (sampler_proxy.py,
\* policy_engine.py, exporters/tail_sampler.py).
SamplerConsistent == RateApplied /\ VerdictsNested /\ ForwardsBounded /\ FeedbackChain
=============================================================================
