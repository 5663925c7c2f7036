------------------------------ MODULE JudgeJobs ------------------------------
(***************************************************************************)
(* LLM-judge evaluations (eval/llm_judge.py, llm_judge_worker.py) and late *)
(* annotation (late_annotation.py).  The end of a root span asks the judge *)
(* for an evaluation: it is skipped, or a job goes to the RQ queue and the *)
(* span is marked pending.  A worker process scores the metrics, writes    *)
(* the result to ClickHouse or, for an hour, to Redis, and books the cost  *)
(* the sampler's budget is enforced on.                                    *)
(***************************************************************************)
EXTENDS Naturals, FiniteSets, FiniteSetsExt

CONSTANTS
  Evals,        \* evaluations, each of one root span
  JudgeMetrics, \* the metrics a job scores, one LLM call each
  EvalOf,       \* the trace of each evaluation
  JudgeFlips    \* bound: outages of a store

ASSUME JudgeAssumption == JudgeFlips \in Nat /\ IsFiniteSet(JudgeMetrics)

VARIABLES
  jdSetup,   \* a sampler was supplied; the name the queue holds resolves
  jdUp,      \* which of Redis and ClickHouse answer
  jdFlips,
  jdSpan,    \* eval.llm_judge.status of the root span
  jdJob,     \* where the job is
  jdScore,   \* the outcome of each metric
  jdHot,     \* results in eval_results_hot
  jdRedis,   \* results under eval_fallback:*
  jdLedger,  \* cost booked in agent_obs:eval:cost:<date>, by evaluation
  jdGone     \* history: results dropped, expired, and costs Redis refused

judgeVars == <<jdSetup, jdUp, jdFlips, jdSpan, jdJob, jdScore, jdHot, jdRedis, jdLedger, jdGone>>

JudgeInit ==
  /\ jdSetup \in [sampler : BOOLEAN, resolves : BOOLEAN]
  /\ jdUp = {"redis", "hot"} /\ jdFlips = 0
  /\ jdSpan = [e \in Evals |-> "open"] /\ jdJob = [e \in Evals |-> "none"]
  /\ jdScore = [e \in Evals |-> [m \in JudgeMetrics |-> "none"]]
  /\ jdHot = {} /\ jdRedis = {} /\ jdLedger = [e \in Evals |-> 0]
  /\ jdGone = [dropped |-> {}, expired |-> {}, unbooked |-> {}]

(***************************************************************************)
(* evaluate() of a finished root span.  With a sampler, _run_sync() names  *)
(* asyncio, which the module does not import: the call raises and the span *)
(* carries no evaluation status.  Without one, a random draw skips it, or  *)
(* the job is enqueued; an unreachable Redis still yields "pending".       *)
(***************************************************************************)
Marks(e, status) ==
  /\ jdSpan[e] = "open" /\ jdSpan' = [jdSpan EXCEPT ![e] = status]
  /\ UNCHANGED <<jdSetup, jdUp, jdFlips, jdScore, jdHot, jdRedis, jdLedger, jdGone>>

EvaluateRaises(e) == jdSetup.sampler /\ Marks(e, "unmarked") /\ UNCHANGED jdJob
EvaluateSkips(e) == ~jdSetup.sampler /\ Marks(e, "skipped") /\ UNCHANGED jdJob
Enqueues(e) ==
  /\ ~jdSetup.sampler /\ Marks(e, "pending")
  /\ jdJob' = [jdJob EXCEPT ![e] = IF "redis" \in jdUp THEN "queued" ELSE "lost"]

\* RQ takes the job and imports the function the queue names; the name has no
\* module path, and a job whose function cannot be imported fails.
JobStarts(e) ==
  /\ jdJob[e] = "queued" /\ "redis" \in jdUp
  /\ jdJob' = [jdJob EXCEPT ![e] = IF jdSetup.resolves THEN "scoring" ELSE "failed"]
  /\ UNCHANGED <<jdSetup, jdUp, jdFlips, jdSpan, jdScore, jdHot, jdRedis, jdLedger, jdGone>>

\* One LLM call: a score and its cost, or the score 0.0 with a "failed" flag and
\* no cost.
JudgeScores(e, m, outcome) ==
  /\ jdJob[e] = "scoring" /\ jdScore[e][m] = "none"
  /\ jdScore' = [jdScore EXCEPT ![e][m] = outcome]
  /\ UNCHANGED <<jdSetup, jdUp, jdFlips, jdSpan, jdJob, jdHot, jdRedis, jdLedger, jdGone>>

Scored(e) == \A m \in JudgeMetrics : jdScore[e][m] # "none"
JobCost(e) == Cardinality({m \in JudgeMetrics : jdScore[e][m] = "ok"})

\* A plausible slip: ClickHouse down drops the result without trying Redis.
AnnotateHotOnly(e) ==
  /\ jdJob[e] = "scoring" /\ Scored(e)
  /\ jdHot' = IF "hot" \in jdUp THEN jdHot \cup {e} ELSE jdHot
  /\ jdGone' = [jdGone EXCEPT !.dropped = IF jdUp = {} THEN @ \cup {e} ELSE @]
  /\ jdJob' = [jdJob EXCEPT ![e] = "annotated"]
  /\ UNCHANGED <<jdSetup, jdUp, jdFlips, jdSpan, jdScore, jdRedis, jdLedger>>

\* annotate_with_fallback(): ClickHouse, else Redis for an hour, else dropped; it
\* never raises.
AnnotateWithFallback(e) ==
  /\ jdJob[e] = "scoring" /\ Scored(e)
  /\ \/ "hot" \in jdUp /\ jdHot' = jdHot \cup {e} /\ UNCHANGED <<jdRedis, jdGone>>
     \/ jdUp = {"redis"} /\ jdRedis' = jdRedis \cup {e} /\ UNCHANGED <<jdHot, jdGone>>
     \/ jdUp = {} /\ jdGone' = [jdGone EXCEPT !.dropped = @ \cup {e}] /\ UNCHANGED <<jdHot, jdRedis>>
  /\ jdJob' = [jdJob EXCEPT ![e] = "annotated"]
  /\ UNCHANGED <<jdSetup, jdUp, jdFlips, jdSpan, jdScore, jdLedger>>

\* _write_eval_cost_to_redis() after the annotation; an error is only logged.
BookCost(e) ==
  /\ jdJob[e] = "annotated"
  /\ jdLedger' = [jdLedger EXCEPT ![e] = IF "redis" \in jdUp THEN JobCost(e) ELSE 0]
  /\ jdGone' = [jdGone EXCEPT !.unbooked = IF "redis" \in jdUp THEN @ ELSE @ \cup {e}]
  /\ jdJob' = [jdJob EXCEPT ![e] = "completed"]
  /\ UNCHANGED <<jdSetup, jdUp, jdFlips, jdSpan, jdScore, jdHot, jdRedis>>

\* The worker process dies with the job in hand; nothing runs the job again.
WorkerDies(e) ==
  /\ jdJob[e] \in {"scoring", "annotated"}
  /\ jdJob' = [jdJob EXCEPT ![e] = "failed"]
  /\ UNCHANGED <<jdSetup, jdUp, jdFlips, jdSpan, jdScore, jdHot, jdRedis, jdLedger, jdGone>>

\* The fallback entry lives an hour; nothing moves it to ClickHouse.
FallbackExpires(e) ==
  /\ e \in jdRedis
  /\ jdRedis' = jdRedis \ {e} /\ jdGone' = [jdGone EXCEPT !.expired = @ \cup {e}]
  /\ UNCHANGED <<jdSetup, jdUp, jdFlips, jdSpan, jdJob, jdScore, jdHot, jdLedger>>

StoreFlips(s) ==
  /\ jdFlips < JudgeFlips
  /\ jdUp' = IF s \in jdUp THEN jdUp \ {s} ELSE jdUp \cup {s}
  /\ jdFlips' = jdFlips + 1
  /\ UNCHANGED <<jdSetup, jdSpan, jdJob, jdScore, jdHot, jdRedis, jdLedger, jdGone>>

JudgeNext ==
  \/ \E e \in Evals :
       \/ EvaluateRaises(e) \/ EvaluateSkips(e) \/ Enqueues(e) \/ JobStarts(e) \/ AnnotateWithFallback(e) \/ BookCost(e)
       \/ WorkerDies(e) \/ FallbackExpires(e)
       \/ \E m \in JudgeMetrics, o \in {"ok", "failed"} : JudgeScores(e, m, o)
  \/ \E s \in {"redis", "hot"} : StoreFlips(s)

JudgeSpec == JudgeInit /\ [][JudgeNext]_judgeVars

\* get_eval_results(): ClickHouse's results when it has any of the trace, else the
\* fallback's.
EvalResults(t) ==
  LET hot == {e \in jdHot : EvalOf[e] = t /\ "hot" \in jdUp} IN
  IF hot # {} THEN hot ELSE {e \in jdRedis : EvalOf[e] = t /\ "redis" \in jdUp}

JudgeTypeOK ==
  /\ jdUp \subseteq {"redis", "hot"} /\ jdFlips \in 0 .. JudgeFlips
  /\ jdSpan \in [Evals -> {"open", "unmarked", "skipped", "pending"}]
  /\ jdJob \in [Evals -> {"none", "queued", "lost", "scoring", "annotated", "completed", "failed"}]
  /\ jdScore \in [Evals -> [JudgeMetrics -> {"none", "ok", "failed"}]]
  /\ jdHot \cup jdRedis \subseteq Evals /\ jdLedger \in [Evals -> Nat]

\* A completed job can be followed to its result and to its cost: the result is in
\* ClickHouse or in Redis unless both were down or the hour is over, it is what a
\* reader gets unless another result of the trace hides it, and its cost is booked
\* unless Redis refused it.  Only a pending span has a job.
JobsAccounted ==
  \A e \in Evals :
    /\ jdJob[e] # "none" => jdSpan[e] = "pending"
    /\ jdJob[e] = "completed" =>
         /\ e \in jdHot \cup jdRedis \cup jdGone.dropped \cup jdGone.expired
         /\ jdLedger[e] = JobCost(e) \/ e \in jdGone.unbooked
    /\ e \in jdHot \cup jdRedis /\ jdUp = {"redis", "hot"} =>
         \/ e \in EvalResults(EvalOf[e])
         \/ e \in jdRedis /\ EvalResults(EvalOf[e]) \cap jdHot # {}
=============================================================================
