-------------------------- MODULE EvaluationProofs --------------------------
(***************************************************************************)
(* Proofs about what reads traces after they were recorded: the judge's    *)
(* jobs (JudgeJobs), the evaluation sampler (EvalSampler), drill-down      *)
(* (DrillDown) and the trace tree (TraceTree). Each section states the     *)
(* inductive invariant of one component and derives what the component     *)
(* promises; the last one puts their types together for the runs'          *)
(* specification.                                                          *)
(***************************************************************************)
EXTENDS MCEvaluation, FiniteFacts

-----------------------------------------------------------------------------
(* Judge jobs.  The result of an annotated job is somewhere, or known to be  *)
(* lost, already before its cost is booked; nothing removes a result without *)
(* recording it.                                                             *)

Placed(e) == e \in jdHot \cup jdRedis \cup jdGone.dropped \cup jdGone.expired

JudgeInv ==
  /\ JudgeTypeOK
  /\ jdGone \in [dropped : SUBSET Evals, expired : SUBSET Evals, unbooked : SUBSET Evals]
  /\ \A e \in Evals : jdJob[e] # "none" => jdSpan[e] = "pending"
  /\ \A e \in Evals : jdJob[e] \in {"annotated", "completed"} => Placed(e)
  /\ \A e \in Evals : jdJob[e] = "completed" => jdLedger[e] = JobCost(e) \/ e \in jdGone.unbooked

\* The cost of a job is a number of metrics.
LEMMA JobCostTyped == ASSUME NEW e \in Evals PROVE JobCost(e) \in Nat
<1>1. IsFiniteSet({m \in JudgeMetrics : jdScore[e][m] = "ok"})
  BY FS_Subset, JudgeAssumption
<1> QED
  BY <1>1, FS_CardinalityType DEF JobCost

LEMMA JudgeStep == ASSUME JudgeInv, [JudgeNext]_judgeVars PROVE JudgeInv'
<1> USE DEF JudgeInv, JudgeTypeOK, Placed
<1> USE JudgeAssumption
<1>1. ASSUME NEW e \in Evals, NEW status \in {"unmarked", "skipped"}, Marks(e, status), UNCHANGED jdJob PROVE JudgeInv'
  BY <1>1 DEF Marks, JobCost
<1>2. ASSUME NEW e \in Evals, Enqueues(e) PROVE JudgeInv'
  BY <1>2 DEF Enqueues, Marks, JobCost
<1>3. ASSUME NEW e \in Evals, JobStarts(e) \/ WorkerDies(e) PROVE JudgeInv'
  <2>1. CASE JobStarts(e)
    BY <2>1 DEF JobStarts, JobCost
  <2>2. CASE WorkerDies(e)
    BY <2>2 DEF WorkerDies, JobCost
  <2> QED
    BY <1>3, <2>1, <2>2
<1>4. ASSUME NEW e \in Evals, NEW m \in JudgeMetrics, NEW o \in {"ok", "failed"}, JudgeScores(e, m, o) PROVE JudgeInv'
  <2>1. \A d \in Evals : d # e => JobCost(d)' = JobCost(d)
    BY <1>4 DEF JudgeScores, JobCost
  <2>2. jdJob[e] = "scoring"
    BY <1>4 DEF JudgeScores
  <2>3. JudgeTypeOK'
    BY <1>4 DEF JudgeScores
  <2> QED
    BY <1>4, <2>1, <2>2, <2>3 DEF JudgeScores
<1>5. ASSUME NEW e \in Evals, AnnotateWithFallback(e) PROVE JudgeInv'
  <2>1. JudgeTypeOK' /\ jdGone' \in [dropped : SUBSET Evals, expired : SUBSET Evals, unbooked : SUBSET Evals]
    <3>1. jdGone' \in [dropped : SUBSET Evals, expired : SUBSET Evals, unbooked : SUBSET Evals]
      BY <1>5 DEF AnnotateWithFallback
    <3>2. (jdHot \cup jdRedis)' \subseteq Evals
      BY <1>5 DEF AnnotateWithFallback
    <3> QED
      BY <1>5, <3>1, <3>2 DEF AnnotateWithFallback
  <2>2. e \in (jdHot \cup jdRedis \cup jdGone.dropped)' /\ \A d \in Evals : Placed(d) => Placed(d)'
    <3>1. CASE jdGone' = jdGone
      BY <1>5, <3>1 DEF AnnotateWithFallback
    <3>2. CASE jdGone' = [jdGone EXCEPT !.dropped = @ \cup {e}] /\ UNCHANGED <<jdHot, jdRedis>>
      BY <3>2
    <3> QED
      BY <1>5, <3>1, <3>2 DEF AnnotateWithFallback
  <2>3. jdGone'.unbooked = jdGone.unbooked
    BY <1>5 DEF AnnotateWithFallback
  <2>4. \A d \in Evals : JobCost(d)' = JobCost(d)
    BY <1>5 DEF AnnotateWithFallback, JobCost
  <2>5. jdJob' = [jdJob EXCEPT ![e] = "annotated"] /\ jdJob[e] = "scoring" /\ UNCHANGED <<jdSpan, jdLedger>>
    BY <1>5 DEF AnnotateWithFallback
  <2> QED
    BY <2>1, <2>2, <2>3, <2>4, <2>5
<1>6. ASSUME NEW e \in Evals, BookCost(e) PROVE JudgeInv'
  <2>1. \A d \in Evals : JobCost(d)' = JobCost(d) /\ JobCost(d) \in Nat
    BY <1>6, JobCostTyped DEF BookCost, JobCost
  <2>2. jdGone' \in [dropped : SUBSET Evals, expired : SUBSET Evals, unbooked : SUBSET Evals]
        /\ jdGone'.dropped = jdGone.dropped /\ jdGone'.expired = jdGone.expired
        /\ jdGone.unbooked \subseteq jdGone'.unbooked
        /\ ("redis" \notin jdUp => e \in jdGone'.unbooked)
    BY <1>6 DEF BookCost
  <2>3. jdJob' = [jdJob EXCEPT ![e] = "completed"] /\ jdJob[e] = "annotated"
        /\ jdLedger' = [jdLedger EXCEPT ![e] = IF "redis" \in jdUp THEN JobCost(e) ELSE 0]
        /\ UNCHANGED <<jdUp, jdFlips, jdSpan, jdScore, jdHot, jdRedis>>
    BY <1>6 DEF BookCost
  <2> HIDE DEF JudgeInv
  <2> HIDE DEF JobCost
  <2>4. JudgeTypeOK'
    BY <2>1, <2>3 DEF JudgeInv
  <2> QED
    BY <2>1, <2>2, <2>3, <2>4 DEF JudgeInv
<1>7. ASSUME NEW e \in Evals, FallbackExpires(e) PROVE JudgeInv'
  <2>1. jdGone' \in [dropped : SUBSET Evals, expired : SUBSET Evals, unbooked : SUBSET Evals]
        /\ jdGone'.dropped = jdGone.dropped /\ jdGone'.expired = jdGone.expired \cup {e}
        /\ jdGone'.unbooked = jdGone.unbooked
    BY <1>7 DEF FallbackExpires
  <2>2. \A d \in Evals : Placed(d) => Placed(d)'
    BY <1>7, <2>1 DEF FallbackExpires
  <2>3. JudgeTypeOK'
    BY <1>7 DEF FallbackExpires
  <2> QED
    BY <1>7, <2>1, <2>2, <2>3 DEF FallbackExpires, JobCost
<1>8. ASSUME NEW s \in {"redis", "hot"}, StoreFlips(s) PROVE JudgeInv'
  <2>1. JudgeTypeOK'
    BY <1>8 DEF StoreFlips
  <2> QED
    BY <1>8, <2>1 DEF StoreFlips, JobCost
<1>9. CASE UNCHANGED judgeVars
  BY <1>9 DEF judgeVars, JobCost
<1> HIDE DEF JudgeInv
<1> QED
  BY <1>1, <1>2, <1>3, <1>4, <1>5, <1>6, <1>7, <1>8, <1>9 DEF JudgeNext, EvaluateRaises, EvaluateSkips

\* A result of the trace in ClickHouse is read while ClickHouse answers, and hides the
\* ones in Redis.
LEMMA ResultsRead ==
  ASSUME NEW e \in jdHot \cup jdRedis, jdUp = {"redis", "hot"}
  PROVE  \/ e \in EvalResults(EvalOf[e])
         \/ e \in jdRedis /\ EvalResults(EvalOf[e]) \cap jdHot # {}
  BY DEF EvalResults

\* A completed job can be followed to its result and to its cost, whatever store was
\* down when and whichever worker died: for any number of evaluations, metrics and
\* outages (llm_judge_worker.py, late_annotation.py annotate_with_fallback).
THEOREM JobsFollowed == JudgeSpec => []JobsAccounted
<1>1. JudgeInit => JudgeInv
  BY JudgeAssumption DEF JudgeInit, JudgeInv, JudgeTypeOK, Placed
<1>2. JudgeInv => JobsAccounted
  BY ResultsRead DEF JudgeInv, JobsAccounted, Placed
<1> QED
  BY <1>1, <1>2, JudgeStep, PTL DEF JudgeSpec

\* The judge's variables keep their types.
THEOREM JudgeTyped == JudgeSpec => []JudgeTypeOK
<1>1. JudgeInit => JudgeInv
  BY JudgeAssumption DEF JudgeInit, JudgeInv, JudgeTypeOK, Placed
<1>2. JudgeInv => JudgeTypeOK
  BY DEF JudgeInv
<1> QED
  BY <1>1, <1>2, JudgeStep, PTL DEF JudgeSpec
-----------------------------------------------------------------------------
(* The evaluation sampler.  Two locks with queues of waiters: a call that    *)
(* waits is in its queue, and the one that awaits inside the lock is at the  *)
(* head.  So while nobody is inside the mode lock, the mode in force is the  *)
(* last one reported; while a call is, it is the one about to be assigned.   *)

EvalPcs == {"idle", "policy", "cost", "waits", "audits", "rate", "mode", "modewaits", "reports", "done"}
EvalModes == {"day", "night", "incident"}
EvalVerdicts == {"none", "paused", "limited", "eval", "skip"}
Instants == 0 .. EvalTicks
CallType == [pc : EvalPcs, kind : Kinds, bucket : 0 .. 99, day : EvalDays, at : Instants, cost : 0 .. EvalSpendMax,
             new : 0 .. 2, state : 0 .. 2, mode : EvalModes, verdict : EvalVerdicts]
WorldType == [now : Instants, spend : [EvalDays -> 0 .. EvalSpendMax], redis : BOOLEAN,
              alert : {"on", "off", "silent"}, policy : {"ok", "soft"}, flips : Nat,
              incr : [Instants -> Nat], allowed : [Instants -> Nat], open : [Instants -> Nat]]
BudgetType == [mult : 1 .. 2, cache : 0 .. EvalSpendMax, at : Instants, state : 0 .. 2, lock : Seq(EvalCalls)]
ModeType == [active : BOOLEAN, at : Instants, current : EvalModes, lock : Seq(EvalCalls), log : Seq(EvalModes \X EvalModes)]

\* A call that decides does so on the state it computed.
CallSound(r) == r.pc \in {"rate", "mode", "modewaits", "reports", "done"} => r.state = r.new

CallsSound == evCall \in [EvalCalls -> CallType] /\ \A c \in EvalCalls : CallSound(evCall[c])

\* Redis has counted every incident trace that was let through, but for those let
\* through while it was down.
WorldSound ==
  /\ evWorld \in WorldType
  /\ \A w \in Instants : /\ evWorld.allowed[w] <= evWorld.open[w] + evWorld.incr[w]
                         /\ evWorld.allowed[w] <= RateLimit + evWorld.open[w]

QueueSound(queue, waiting, inside) ==
  /\ queue \in Seq(EvalCalls)
  /\ \A c \in waiting : \E i \in 1 .. Len(queue) : queue[i] = c
  /\ \A c \in inside : queue # <<>> /\ queue[1] = c

CallsAt(pc) == {c \in EvalCalls : evCall[c].pc = pc}

BudgetSound == evBudget \in BudgetType /\ QueueSound(evBudget.lock, CallsAt("waits"), CallsAt("audits"))

LogSound ==
  LET log == evMode.log IN
  /\ \A i \in 2 .. Len(log) : log[i][1] = log[i - 1][2]
  /\ \A c \in EvalCalls : evCall[c].pc = "reports" => log # <<>> /\ log[Len(log)][2] = evCall[c].mode
  /\ CallsAt("reports") = {} /\ log # <<>> => evMode.current = log[Len(log)][2]

ModeSound ==
  /\ evMode \in ModeType /\ QueueSound(evMode.lock, CallsAt("modewaits"), CallsAt("reports"))
  /\ LogSound

EvalInv == CallsSound /\ WorldSound /\ BudgetSound /\ ModeSound

\* A queue that a waiter joins, that its head holds, and that its head leaves.
LEMMA QueueJoined ==
  ASSUME NEW q, NEW W, NEW H, QueueSound(q, W, H), NEW c \in EvalCalls
  PROVE  QueueSound(Append(q, c), W \cup {c}, H)
<1>1. q \in Seq(EvalCalls)
  BY DEF QueueSound
<1>2. Append(q, c) \in Seq(EvalCalls) /\ Len(Append(q, c)) = Len(q) + 1 /\ Append(q, c)[Len(q) + 1] = c
      /\ \A i \in 1 .. Len(q) : Append(q, c)[i] = q[i]
  BY <1>1
<1>3. Len(q) \in Nat /\ (q # <<>> => 1 \in 1 .. Len(q))
  BY <1>1
<1>4. ASSUME NEW w \in W \cup {c} PROVE \E i \in 1 .. Len(Append(q, c)) : Append(q, c)[i] = w
  <2>1. CASE w = c
    BY <1>2, <1>3, <2>1
  <2>2. CASE w \in W
    <3>1. PICK i \in 1 .. Len(q) : q[i] = w
      BY <2>2 DEF QueueSound
    <3> QED
      BY <1>2, <1>3, <3>1
  <2> QED
    BY <2>1, <2>2
<1>5. ASSUME NEW h \in H PROVE Append(q, c) # <<>> /\ Append(q, c)[1] = h
  BY <1>1, <1>2, <1>3 DEF QueueSound
<1> QED
  BY <1>2, <1>4, <1>5 DEF QueueSound

LEMMA QueueHeld ==
  ASSUME NEW q, NEW W, NEW H, QueueSound(q, W, H), NEW c \in W, Head(q) = c
  PROVE  QueueSound(q, W \ {c}, {c}) /\ q # <<>> /\ q[1] = c
<1>1. q \in Seq(EvalCalls) /\ \E i \in 1 .. Len(q) : q[i] = c
  BY DEF QueueSound
<1>2. q # <<>> /\ q[1] = c
  BY <1>1
<1> QED
  BY <1>1, <1>2 DEF QueueSound

LEMMA QueueLeft ==
  ASSUME NEW q, NEW W, NEW H, QueueSound(q, W, H), NEW c, q # <<>>, q[1] = c
  PROVE  QueueSound(Tail(q), W \ {c}, {}) /\ H \subseteq {c}
<1>1. q \in Seq(EvalCalls) /\ Tail(q) \in Seq(EvalCalls) /\ Len(Tail(q)) = Len(q) - 1 /\ Len(q) \in Nat
      /\ \A i \in 1 .. Len(q) - 1 : Tail(q)[i] = q[i + 1]
  BY DEF QueueSound
<1>2. ASSUME NEW w \in W \ {c} PROVE \E i \in 1 .. Len(Tail(q)) : Tail(q)[i] = w
  <2>1. PICK i \in 1 .. Len(q) : q[i] = w
    BY DEF QueueSound
  <2>2. i - 1 \in 1 .. Len(Tail(q)) /\ Tail(q)[i - 1] = w
    BY <1>1, <2>1
  <2> QED
    BY <2>2
<1> QED
  BY <1>1, <1>2 DEF QueueSound

LEMMA CallsMove ==
  ASSUME CallsSound, NEW c \in EvalCalls, NEW r \in CallType, CallSound(r), evCall' = [evCall EXCEPT ![c] = r]
  PROVE  CallsSound'
  BY DEF CallsSound

\* A call that is and stays away from a lock leaves what that lock guards alone.
LEMMA BudgetStands ==
  ASSUME CallsSound, BudgetSound, UNCHANGED evBudget,
         NEW c \in EvalCalls, NEW r, evCall' = [evCall EXCEPT ![c] = r],
         evCall[c].pc \notin {"waits", "audits"}, r.pc \notin {"waits", "audits"}
  PROVE  BudgetSound'
<1>1. CallsAt("waits")' = CallsAt("waits") /\ CallsAt("audits")' = CallsAt("audits")
  BY DEF CallsAt, CallsSound
<1> QED
  BY <1>1 DEF BudgetSound

LEMMA ModeStands ==
  ASSUME CallsSound, ModeSound, UNCHANGED evMode,
         NEW c \in EvalCalls, NEW r, evCall' = [evCall EXCEPT ![c] = r],
         evCall[c].pc \notin {"modewaits", "reports"}, r.pc \notin {"modewaits", "reports"}
  PROVE  ModeSound'
<1>1. CallsAt("modewaits")' = CallsAt("modewaits") /\ CallsAt("reports")' = CallsAt("reports")
  BY DEF CallsAt, CallsSound
<1>2. \A d \in EvalCalls : evCall'[d].pc = "reports" => evCall'[d] = evCall[d]
  BY DEF CallsSound
<1>3. LogSound'
  BY <1>1, <1>2 DEF ModeSound, LogSound
<1> QED
  BY <1>1, <1>3 DEF ModeSound

LEMMA IdleTyped == Idle \in CallType /\ CallSound(Idle) /\ Idle.pc = "idle"
<1>1. 0 \in EvalDays
  BY EvalSamplerAssumption DEF EvalDays
<1> QED
  BY <1>1, EvalSamplerAssumption DEF Idle, CallType, CallSound, EvalPcs, Kinds, Instants, EvalModes, EvalVerdicts

\* A call that is over, one whose budget is settled, and one whose mode is.
LEMMA OverTyped ==
  ASSUME NEW r \in CallType, NEW v \in EvalVerdicts
  PROVE  /\ Over(r, v) \in CallType /\ Over(r, v).pc = "done"
         /\ Over(r, v).new = r.new /\ Over(r, v).state = r.state
<1>1. "done" \in EvalPcs
  BY DEF EvalPcs
<1> QED
  BY <1>1, IdleTyped DEF Over, CallType

LEMMA RefreshedSound ==
  ASSUME WorldSound, NEW r \in CallType, NEW state \in 0 .. 2, r.new = state
  PROVE  /\ Refreshed(r, state) \in CallType /\ CallSound(Refreshed(r, state))
         /\ Refreshed(r, state).pc \in {"done", "rate", "mode"}
<1>1. evWorld.now \in Instants
  BY DEF WorldSound, WorldType
<1>2. {"rate", "mode"} \subseteq EvalPcs /\ "paused" \in EvalVerdicts
  BY DEF EvalPcs, EvalVerdicts
<1>3. CASE state = 2
  <2>1. [r EXCEPT !.state = 2] \in CallType /\ [r EXCEPT !.state = 2].new = 2 /\ [r EXCEPT !.state = 2].state = 2
    BY <1>3 DEF CallType
  <2>2. Refreshed(r, state) = Over([r EXCEPT !.state = 2], "paused")
    BY <1>3 DEF Refreshed
  <2> QED
    BY <1>2, <2>1, <2>2, OverTyped DEF CallSound
<1>4. ASSUME NEW pc \in {"rate", "mode"}
      PROVE  /\ [r EXCEPT !.state = state, !.pc = pc, !.at = evWorld.now] \in CallType
             /\ CallSound([r EXCEPT !.state = state, !.pc = pc, !.at = evWorld.now])
             /\ [r EXCEPT !.state = state, !.pc = pc, !.at = evWorld.now].pc = pc
  BY <1>1, <1>2 DEF CallType, CallSound
<1>5. CASE state # 2 /\ r.kind # "plain"
  <2>1. Refreshed(r, state) = [r EXCEPT !.state = state, !.pc = "rate", !.at = evWorld.now]
    BY <1>5 DEF Refreshed
  <2> QED
    BY <1>4, <2>1
<1>6. CASE state # 2 /\ r.kind = "plain"
  <2>1. Refreshed(r, state) = [r EXCEPT !.state = state, !.pc = "mode", !.at = evWorld.now]
    BY <1>6 DEF Refreshed
  <2> QED
    BY <1>4, <2>1
<1> QED
  BY <1>3, <1>5, <1>6

LEMMA BucketedSound ==
  ASSUME NEW r \in CallType, r.state = r.new, NEW mode
  PROVE  /\ Bucketed(r, mode) \in CallType /\ CallSound(Bucketed(r, mode)) /\ Bucketed(r, mode).pc = "done"
  BY OverTyped DEF Bucketed, EvalVerdicts, CallSound

LEMMA StatesDetermined ==
  ASSUME NEW cost, NEW mult PROVE DetermineState(cost, mult) \in 0 .. 2
  BY DEF DetermineState

\* The day of an instant is one of the days.
LEMMA DaysCover == ASSUME NEW t \in Instants PROVE t \div DayLen \in EvalDays
<1> DEFINE a == t \div DayLen
           b == EvalTicks \div DayLen
<1>1. a \in Nat /\ b \in Nat /\ t = DayLen * a + (t % DayLen) /\ EvalTicks = DayLen * b + (EvalTicks % DayLen)
      /\ t % DayLen \in 0 .. DayLen - 1 /\ EvalTicks % DayLen \in 0 .. DayLen - 1
  BY EvalSamplerAssumption DEF Instants
<1>2. DayLen * a < DayLen * (b + 1)
  <2> HIDE DEF a, b
  <2> DEFINE x == DayLen * a
             y == DayLen * b
             m == t % DayLen
             n == EvalTicks % DayLen
  <2>1. x \in Int /\ y \in Int /\ m \in Int /\ n \in Int /\ t = x + m /\ EvalTicks = y + n /\ m >= 0 /\ n < DayLen
    BY <1>1, EvalSamplerAssumption
  <2>2. DayLen * (b + 1) = y + DayLen
    BY <1>1, EvalSamplerAssumption
  <2> HIDE DEF x, y, m, n
  <2>3. x < y + DayLen
    BY <2>1, EvalSamplerAssumption DEF Instants
  <2> QED
    BY <2>2, <2>3 DEF x
<1> HIDE DEF a, b
<1>3. a < b + 1
  BY <1>1, <1>2, EvalSamplerAssumption
<1> QED
  BY <1>1, <1>3 DEF a, b, EvalDays

LEMMA EvalStarts == ASSUME EvalInit PROVE EvalInv
<1> USE EvalSamplerAssumption
<1>1. 0 \in EvalDays
  BY DEF EvalDays
<1>2. CallsSound /\ \A p \in EvalPcs \ {"idle"} : CallsAt(p) = {}
  BY IdleTyped DEF EvalInit, CallsSound, CallsAt
<1>3. WorldSound
  BY DEF EvalInit, WorldSound, WorldType, Instants
<1>4. BudgetSound
  BY <1>2 DEF EvalInit, BudgetSound, BudgetType, QueueSound, Instants, EvalPcs
<1>5. ModeSound
  <2>1. CallsAt("modewaits") = {} /\ CallsAt("reports") = {} /\ \A c \in EvalCalls : evCall[c].pc # "reports"
    BY <1>2 DEF EvalPcs, CallsAt
  <2> QED
    BY <2>1 DEF EvalInit, ModeSound, ModeType, QueueSound, LogSound, Instants, EvalModes
<1> QED
  BY <1>2, <1>3, <1>4, <1>5 DEF EvalInv

\* _check_state_transition() and what it leaves behind.
LEMMA SettleSound ==
  ASSUME EvalInv, NEW c \in EvalCalls, NEW r \in CallType, NEW b \in BudgetType, b.lock = evBudget.lock,
         evCall[c].pc \in {"policy", "cost"}, Settle(c, r, b), UNCHANGED <<evWorld, evMode>>
  PROVE  EvalInv'
<1> DEFINE new == DetermineState(r.cost, b.mult)
           n == [r EXCEPT !.new = new]
<1>1. n \in CallType /\ n.new \in 0 .. 2
  BY StatesDetermined DEF CallType
<1>2. WorldSound' /\ WorldSound /\ CallsSound /\ ModeSound /\ BudgetSound
  BY DEF EvalInv, WorldSound
<1>3. c \notin CallsAt("waits") /\ c \notin CallsAt("audits")
  BY DEF CallsAt
<1>4. QueueSound(b.lock, CallsAt("waits"), CallsAt("audits")) /\ b.lock \in Seq(EvalCalls)
  BY <1>2 DEF BudgetSound, QueueSound
<1>5. \/ b.lock # <<>> /\ Step(c, [n EXCEPT !.pc = "waits"]) /\ evBudget' = [b EXCEPT !.lock = Append(b.lock, c)]
      \/ b.lock = <<>> /\ n.new = b.state /\ Step(c, Refreshed(n, b.state)) /\ evBudget' = b
      \/ b.lock = <<>> /\ Step(c, [n EXCEPT !.pc = "audits"]) /\ evBudget' = [b EXCEPT !.lock = <<c>>]
  BY DEF Settle
<1> HIDE DEF n
<1>6. ASSUME NEW pc \in {"waits", "audits"}
      PROVE  LET x == [n EXCEPT !.pc = pc] IN x \in CallType /\ CallSound(x) /\ x.pc = pc
  BY <1>1 DEF CallType, CallSound, EvalPcs
<1>7. CASE b.lock # <<>> /\ Step(c, [n EXCEPT !.pc = "waits"]) /\ evBudget' = [b EXCEPT !.lock = Append(b.lock, c)]
  <2> DEFINE x == [n EXCEPT !.pc = "waits"]
  <2>1. x \in CallType /\ CallSound(x) /\ x.pc = "waits" /\ evCall' = [evCall EXCEPT ![c] = x]
    BY <1>6, <1>7 DEF Step
  <2> HIDE DEF x
  <2>2. CallsAt("waits")' = CallsAt("waits") \cup {c} /\ CallsAt("audits")' = CallsAt("audits")
    BY <1>2, <1>3, <2>1 DEF CallsAt, CallsSound
  <2>3. evBudget' \in BudgetType /\ evBudget'.lock = Append(b.lock, c)
    <3> DEFINE q == Append(b.lock, c)
    <3>1. q \in Seq(EvalCalls) /\ evBudget' = [b EXCEPT !.lock = q]
      BY <1>4, <1>7
    <3> HIDE DEF q
    <3>2. evBudget' \in BudgetType /\ evBudget'.lock = q
      BY <3>1 DEF BudgetType
    <3> QED
      BY <3>2 DEF q
  <2>4. BudgetSound'
    BY <1>4, <2>2, <2>3, QueueJoined DEF BudgetSound
  <2> QED
    BY <1>2, <2>1, <2>4, CallsMove, ModeStands DEF EvalInv
<1>8. CASE b.lock = <<>> /\ n.new = b.state /\ Step(c, Refreshed(n, b.state)) /\ evBudget' = b
  <2> DEFINE x == Refreshed(n, b.state)
  <2>1. x \in CallType /\ CallSound(x) /\ x.pc \in {"done", "rate", "mode"} /\ evCall' = [evCall EXCEPT ![c] = x]
    BY <1>1, <1>2, <1>8, RefreshedSound DEF Step
  <2> HIDE DEF x
  <2>2. CallsAt("waits")' = CallsAt("waits") /\ CallsAt("audits")' = CallsAt("audits")
    BY <1>2, <1>3, <2>1 DEF CallsAt, CallsSound
  <2>3. BudgetSound'
    BY <1>4, <1>8, <2>2 DEF BudgetSound
  <2> QED
    BY <1>2, <2>1, <2>3, CallsMove, ModeStands DEF EvalInv
<1>9. CASE b.lock = <<>> /\ Step(c, [n EXCEPT !.pc = "audits"]) /\ evBudget' = [b EXCEPT !.lock = <<c>>]
  <2> DEFINE x == [n EXCEPT !.pc = "audits"]
  <2>1. x \in CallType /\ CallSound(x) /\ x.pc = "audits" /\ evCall' = [evCall EXCEPT ![c] = x]
    BY <1>6, <1>9 DEF Step
  <2> HIDE DEF x
  <2>2. CallsAt("waits") = {} /\ CallsAt("audits") = {}
    BY <1>4, <1>9 DEF QueueSound
  <2>3. CallsAt("waits")' = {} /\ CallsAt("audits")' = {c}
    BY <1>2, <2>1, <2>2 DEF CallsAt, CallsSound
  <2>4. evBudget' \in BudgetType /\ evBudget'.lock = <<c>>
    <3> DEFINE q == <<c>>
    <3>1. q \in Seq(EvalCalls) /\ evBudget' = [b EXCEPT !.lock = q]
      BY <1>9
    <3> HIDE DEF q
    <3>2. evBudget' \in BudgetType /\ evBudget'.lock = q
      BY <3>1 DEF BudgetType
    <3> QED
      BY <3>2 DEF q
  <2>5. BudgetSound'
    BY <2>3, <2>4 DEF BudgetSound, QueueSound
  <2> QED
    BY <1>2, <2>1, <2>5, CallsMove, ModeStands DEF EvalInv
<1> QED
  BY <1>5, <1>7, <1>8, <1>9

LEMMA ReadingSteps ==
  ASSUME EvalInv, NEW c \in EvalCalls,
         (\E kind \in Kinds, bucket \in EvalBuckets : EvalBegins(c, kind, bucket)) \/ ReadsPolicy(c) \/ ReadsCost(c)
  PROVE  EvalInv'
<1>0. WorldSound /\ CallsSound /\ ModeSound /\ BudgetSound /\ evCall[c] \in CallType
  BY DEF EvalInv, CallsSound
<1>1. ASSUME NEW kind \in Kinds, NEW bucket \in EvalBuckets, EvalBegins(c, kind, bucket) PROVE EvalInv'
  <2> DEFINE x == [Idle EXCEPT !.pc = "policy", !.kind = kind, !.bucket = bucket]
  <2>1. 0 \in EvalDays /\ bucket \in 0 .. 99
    BY EvalSamplerAssumption DEF EvalDays
  <2>2. x \in CallType /\ CallSound(x) /\ x.pc = "policy"
    BY <2>1, IdleTyped DEF CallType, CallSound, EvalPcs
  <2>3. evCall' = [evCall EXCEPT ![c] = x] /\ evCall[c].pc = "idle" /\ UNCHANGED <<evWorld, evBudget, evMode>>
    BY <1>1 DEF EvalBegins, Step
  <2> HIDE DEF x
  <2>4. WorldSound'
    BY <1>0, <2>3 DEF WorldSound
  <2> QED
    BY <1>0, <2>2, <2>3, <2>4, CallsMove, BudgetStands, ModeStands DEF EvalInv
<1>2. CASE ReadsPolicy(c)
  <2> DEFINE mult == IF evWorld.redis /\ evWorld.policy \in {"soft", "hard"} THEN 1 ELSE 2
             b == [evBudget EXCEPT !.mult = mult]
  <2>1. b \in BudgetType /\ b.lock = evBudget.lock /\ b.cache \in 0 .. EvalSpendMax
    BY <1>0 DEF BudgetSound, BudgetType
  <2>2. evCall[c].pc = "policy" /\ UNCHANGED <<evWorld, evMode>>
        /\ \/ Settle(c, [evCall[c] EXCEPT !.cost = b.cache], b)
           \/ Step(c, [evCall[c] EXCEPT !.pc = "cost", !.day = Today, !.at = evWorld.now]) /\ evBudget' = b
    BY <1>2 DEF ReadsPolicy
  <2> HIDE DEF b
  <2>3. CASE Settle(c, [evCall[c] EXCEPT !.cost = b.cache], b)
    <3>1. [evCall[c] EXCEPT !.cost = b.cache] \in CallType
      BY <1>0, <2>1 DEF CallType
    <3> QED
      BY <2>1, <2>2, <2>3, <3>1, SettleSound
  <2>4. CASE Step(c, [evCall[c] EXCEPT !.pc = "cost", !.day = Today, !.at = evWorld.now]) /\ evBudget' = b
    <3> DEFINE x == [evCall[c] EXCEPT !.pc = "cost", !.day = Today, !.at = evWorld.now]
    <3>1. Today \in EvalDays /\ evWorld.now \in Instants
      BY <1>0, DaysCover DEF Today, WorldSound, WorldType
    <3>2. x \in CallType /\ CallSound(x) /\ x.pc = "cost"
      BY <1>0, <3>1 DEF CallType, CallSound, EvalPcs
    <3>3. evCall' = [evCall EXCEPT ![c] = x]
      BY <2>4 DEF Step
    <3> HIDE DEF x
    <3>4. CallsAt("waits")' = CallsAt("waits") /\ CallsAt("audits")' = CallsAt("audits")
      BY <1>0, <2>2, <3>2, <3>3 DEF CallsAt, CallsSound
    <3>5. BudgetSound' /\ WorldSound'
      BY <1>0, <2>1, <2>2, <2>4, <3>4 DEF BudgetSound, WorldSound
    <3> QED
      BY <1>0, <2>2, <3>2, <3>3, <3>5, CallsMove, ModeStands DEF EvalInv
  <2> QED
    BY <2>2, <2>3, <2>4
<1>3. CASE ReadsCost(c)
  <2> DEFINE cost == IF evWorld.redis THEN evWorld.spend[evCall[c].day] ELSE evBudget.cache
             b == IF evWorld.redis THEN [evBudget EXCEPT !.cache = cost, !.at = evCall[c].at] ELSE evBudget
             x == [evCall[c] EXCEPT !.cost = cost]
  <2>1. cost \in 0 .. EvalSpendMax
    BY <1>0 DEF WorldSound, WorldType, BudgetSound, BudgetType, CallType
  <2>2. evCall[c].pc = "cost" /\ UNCHANGED <<evWorld, evMode>> /\ Settle(c, x, b)
    BY <1>3 DEF ReadsCost
  <2> HIDE DEF cost
  <2>3. b \in BudgetType /\ b.lock = evBudget.lock /\ x \in CallType
    BY <1>0, <2>1 DEF BudgetSound, BudgetType, CallType
  <2> HIDE DEF b, x
  <2> QED
    BY <2>2, <2>3, SettleSound
<1> QED
  BY <1>1, <1>2, <1>3

LEMMA BudgetLockSteps ==
  ASSUME EvalInv, NEW c \in EvalCalls, GetsBudgetLock(c) \/ ChangesState(c)
  PROVE  EvalInv'
<1>0. WorldSound /\ CallsSound /\ ModeSound /\ BudgetSound /\ evCall[c] \in CallType /\ evBudget \in BudgetType
  BY DEF EvalInv, CallsSound, BudgetSound
<1>1. evCall[c].pc \in {"waits", "audits"} /\ UNCHANGED <<evWorld, evMode>> /\ WorldSound'
  BY <1>0 DEF GetsBudgetLock, ChangesState, WorldSound
<1>2. QueueSound(evBudget.lock, CallsAt("waits"), CallsAt("audits")) /\ evBudget.state \in 0 .. 2 /\ evCall[c].new \in 0 .. 2
  BY <1>0 DEF BudgetSound, BudgetType, CallType
<1>3. evBudget.lock # <<>> /\ evBudget.lock[1] = c
  <2>1. CASE GetsBudgetLock(c)
    <3>1. c \in CallsAt("waits") /\ Head(evBudget.lock) = c
      BY <2>1 DEF GetsBudgetLock, CallsAt
    <3> QED
      BY <1>2, <3>1, QueueHeld
  <2>2. CASE ChangesState(c)
    BY <1>2, <2>2 DEF ChangesState, CallsAt, QueueSound
  <2> QED
    BY <2>1, <2>2
\* The head goes on with the state and frees the lock.
<1>4. ASSUME NEW x \in CallType, CallSound(x), x.pc \in {"done", "rate", "mode"}, evCall' = [evCall EXCEPT ![c] = x],
             NEW state \in 0 .. 2, evBudget' = [evBudget EXCEPT !.state = state, !.lock = Tail(evBudget.lock)]
      PROVE  EvalInv'
  <2> DEFINE q == Tail(evBudget.lock)
  <2>1. QueueSound(q, CallsAt("waits") \ {c}, {}) /\ CallsAt("audits") \subseteq {c}
    BY <1>2, <1>3, QueueLeft
  <2>2. q \in Seq(EvalCalls) /\ evBudget' = [evBudget EXCEPT !.state = state, !.lock = q]
    BY <1>4, <2>1 DEF QueueSound
  <2> HIDE DEF q
  <2>3. evBudget' \in BudgetType /\ evBudget'.lock = q
    BY <1>0, <2>2 DEF BudgetType
  <2>4. CallsAt("waits")' = CallsAt("waits") \ {c} /\ CallsAt("audits")' = CallsAt("audits") \ {c}
    BY <1>0, <1>4 DEF CallsAt, CallsSound
  <2>5. CallsAt("audits")' = {}
    BY <2>1, <2>4
  <2>6. BudgetSound'
    BY <2>1, <2>3, <2>4, <2>5 DEF BudgetSound
  <2> QED
    BY <1>0, <1>1, <1>4, <2>6, CallsMove, ModeStands DEF EvalInv
<1>5. CASE GetsBudgetLock(c) /\ evCall[c].new = evBudget.state
  <2> DEFINE x == Refreshed(evCall[c], evBudget.state)
  <2>1. evCall' = [evCall EXCEPT ![c] = x] /\ evBudget' = [evBudget EXCEPT !.lock = Tail(evBudget.lock)]
    BY <1>5 DEF GetsBudgetLock, Step
  <2>2. evBudget' = [evBudget EXCEPT !.state = evBudget.state, !.lock = Tail(evBudget.lock)]
    BY <1>0, <2>1 DEF BudgetType
  <2>3. x \in CallType /\ CallSound(x) /\ x.pc \in {"done", "rate", "mode"}
    BY <1>0, <1>2, <1>5, RefreshedSound
  <2> HIDE DEF x
  <2> QED
    BY <1>2, <1>4, <2>1, <2>2, <2>3
<1>6. CASE ChangesState(c)
  <2> DEFINE x == Refreshed(evCall[c], evCall[c].new)
  <2>1. evCall' = [evCall EXCEPT ![c] = x]
        /\ evBudget' = [evBudget EXCEPT !.state = evCall[c].new, !.lock = Tail(evBudget.lock)]
    BY <1>6 DEF ChangesState, Step
  <2>2. x \in CallType /\ CallSound(x) /\ x.pc \in {"done", "rate", "mode"}
    BY <1>0, <1>2, RefreshedSound
  <2> HIDE DEF x
  <2> QED
    BY <1>2, <1>4, <2>1, <2>2
<1>7. CASE GetsBudgetLock(c) /\ evCall[c].new # evBudget.state
  <2> DEFINE x == [evCall[c] EXCEPT !.pc = "audits"]
  <2>1. evCall' = [evCall EXCEPT ![c] = x] /\ UNCHANGED evBudget /\ Head(evBudget.lock) = c /\ evCall[c].pc = "waits"
    BY <1>7 DEF GetsBudgetLock, Step
  <2>2. x \in CallType /\ CallSound(x) /\ x.pc = "audits"
    BY <1>0 DEF CallType, CallSound, EvalPcs
  <2> HIDE DEF x
  <2>3. c \in CallsAt("waits")
    BY <2>1 DEF CallsAt
  <2>4. QueueSound(evBudget.lock, CallsAt("waits") \ {c}, {c})
    BY <1>2, <2>1, <2>3, QueueHeld
  <2>5. CallsAt("audits") \subseteq {c}
    BY <1>2, <1>3 DEF QueueSound
  <2>6. CallsAt("waits")' = CallsAt("waits") \ {c} /\ CallsAt("audits")' = CallsAt("audits") \cup {c}
    BY <1>0, <2>1, <2>2 DEF CallsAt, CallsSound
  <2>7. CallsAt("audits")' = {c}
    BY <2>5, <2>6
  <2>8. BudgetSound'
    BY <1>0, <2>1, <2>4, <2>6, <2>7 DEF BudgetSound
  <2> QED
    BY <1>0, <1>1, <2>1, <2>2, <2>8, CallsMove, ModeStands DEF EvalInv
<1> QED
  BY <1>5, <1>6, <1>7

\* acquire(): Redis has counted whatever it let through.
LEMMA AcquireStep == ASSUME EvalInv, NEW c \in EvalCalls, Acquires(c) PROVE EvalInv'
<1>0. WorldSound /\ CallsSound /\ ModeSound /\ BudgetSound /\ evCall[c] \in CallType /\ evWorld \in WorldType
      /\ CallSound(evCall[c]) /\ evCall[c].pc = "rate"
  BY DEF EvalInv, CallsSound, WorldSound, Acquires
<1> DEFINE w == evCall[c].at
           n == evWorld.incr[w] + 1
           ok == ~evWorld.redis \/ n <= RateLimit
           x == Over(evCall[c], IF ok THEN "eval" ELSE "limited")
           incr == [evWorld.incr EXCEPT ![w] = IF evWorld.redis THEN n ELSE @]
           allowed == [evWorld.allowed EXCEPT ![w] = IF ok THEN @ + 1 ELSE @]
           open == [evWorld.open EXCEPT ![w] = IF evWorld.redis THEN @ ELSE @ + 1]
<1>1. evCall' = [evCall EXCEPT ![c] = x] /\ UNCHANGED <<evBudget, evMode>>
  BY DEF Acquires, Step
<1>2. x \in CallType /\ CallSound(x) /\ x.pc = "done"
  BY <1>0, OverTyped DEF CallSound, EvalVerdicts
<1>3. evWorld' = [evWorld EXCEPT !.incr = incr, !.allowed = allowed, !.open = open]
  BY <1>0 DEF Acquires, WorldType
<1>4. w \in Instants /\ evWorld.incr \in [Instants -> Nat] /\ evWorld.allowed \in [Instants -> Nat]
      /\ evWorld.open \in [Instants -> Nat] /\ n \in Nat
  BY <1>0 DEF CallType, WorldType
<1>5. incr \in [Instants -> Nat] /\ allowed \in [Instants -> Nat] /\ open \in [Instants -> Nat]
  BY <1>4
<1>6. ASSUME NEW v \in Instants
      PROVE  allowed[v] <= open[v] + incr[v] /\ allowed[v] <= RateLimit + open[v]
  <2>1. evWorld.allowed[v] <= evWorld.open[v] + evWorld.incr[v] /\ evWorld.allowed[v] <= RateLimit + evWorld.open[v]
    BY <1>0 DEF WorldSound
  <2>2. CASE v # w
    BY <1>4, <2>1, <2>2
  <2>3. CASE v = w
    BY <1>4, <2>1, <2>3, EvalSamplerAssumption
  <2> QED
    BY <2>2, <2>3
<1> HIDE DEF x, incr, allowed, open
<1>7. WorldSound'
  <2>1. evWorld' \in WorldType /\ evWorld'.incr = incr /\ evWorld'.allowed = allowed /\ evWorld'.open = open
    BY <1>0, <1>3, <1>5 DEF WorldType
  <2> QED
    BY <1>6, <2>1 DEF WorldSound
<1> QED
  BY <1>0, <1>1, <1>2, <1>7, CallsMove, BudgetStands, ModeStands DEF EvalInv

\* A change reported from the mode in force extends the chain of changes.
LEMMA LogGrows ==
  ASSUME NEW log \in Seq(EvalModes \X EvalModes), NEW from \in EvalModes, NEW to \in EvalModes,
         \A i \in 2 .. Len(log) : log[i][1] = log[i - 1][2],
         log # <<>> => from = log[Len(log)][2]
  PROVE  LET l == Append(log, <<from, to>>) IN
         /\ l \in Seq(EvalModes \X EvalModes) /\ l # <<>> /\ l[Len(l)][2] = to
         /\ \A i \in 2 .. Len(l) : l[i][1] = l[i - 1][2]
<1> DEFINE e == <<from, to>>
           l == Append(log, e)
<1>1. e \in EvalModes \X EvalModes /\ e[1] = from /\ e[2] = to
  OBVIOUS
<1> HIDE DEF e
<1>2. l \in Seq(EvalModes \X EvalModes) /\ Len(l) = Len(log) + 1 /\ Len(log) \in Nat /\ l[Len(log) + 1] = e
      /\ \A i \in 1 .. Len(log) : l[i] = log[i]
  BY <1>1
<1>3. l # <<>> /\ l[Len(l)][2] = to
  BY <1>1, <1>2
<1>4. ASSUME NEW i \in 2 .. Len(l) PROVE l[i][1] = l[i - 1][2]
  <2>1. CASE i \in 2 .. Len(log)
    <3>1. l[i] = log[i] /\ l[i - 1] = log[i - 1]
      BY <1>2, <2>1
    <3> QED
      BY <2>1, <3>1
  <2>2. CASE i = Len(log) + 1
    <3>1. log # <<>> /\ l[i] = e /\ l[i - 1] = log[Len(log)]
      BY <1>2, <2>2
    <3> QED
      BY <1>1, <3>1
  <2> QED
    BY <1>2, <2>1, <2>2
<1> QED
  BY <1>2, <1>3, <1>4 DEF e

LEMMA FetchTyped ==
  ASSUME WorldSound, ModeSound
  PROVE  FetchIncident \in ModeType /\ FetchIncident.lock = evMode.lock
         /\ FetchIncident.log = evMode.log /\ FetchIncident.current = evMode.current
<1>1. evMode \in ModeType /\ evWorld.now \in Instants
  BY DEF ModeSound, WorldSound, WorldType
<1>2. ASSUME NEW on \in BOOLEAN
      PROVE  LET m == [evMode EXCEPT !.active = on, !.at = evWorld.now] IN
             m \in ModeType /\ m.lock = evMode.lock /\ m.log = evMode.log /\ m.current = evMode.current
  BY <1>1 DEF ModeType
<1>3. \/ FetchIncident = evMode
      \/ \E on \in BOOLEAN : FetchIncident = [evMode EXCEPT !.active = on, !.at = evWorld.now]
  <2>1. \/ FetchIncident = evMode
        \/ FetchIncident = [evMode EXCEPT !.active = TRUE, !.at = evWorld.now]
        \/ FetchIncident = [evMode EXCEPT !.active = FALSE, !.at = evWorld.now]
    BY DEF FetchIncident
  <2> QED
    BY <2>1
<1> QED
  BY <1>1, <1>2, <1>3

\* The step that reports: the lock is the call's, nobody was inside, the change
\* starts from the mode in force.
LEMMA ReportSound ==
  ASSUME CallsSound, ModeSound, NEW c \in EvalCalls, NEW x \in CallType, x.pc = "reports",
         evCall' = [evCall EXCEPT ![c] = x], CallsAt("reports") = {},
         evMode' \in ModeType, evMode'.current = evMode.current,
         evMode'.log = Append(evMode.log, <<evMode.current, x.mode>>),
         QueueSound(evMode'.lock, CallsAt("modewaits") \ {c}, {c})
  PROVE  ModeSound'
<1> DEFINE log == evMode.log
           l == Append(log, <<evMode.current, x.mode>>)
<1>1. /\ l # <<>> /\ l[Len(l)][2] = x.mode
      /\ \A i \in 2 .. Len(l) : l[i][1] = l[i - 1][2]
  <2>1. log \in Seq(EvalModes \X EvalModes) /\ evMode.current \in EvalModes /\ x.mode \in EvalModes
    BY DEF ModeSound, ModeType, CallType
  <2>2. (\A i \in 2 .. Len(log) : log[i][1] = log[i - 1][2]) /\ (log # <<>> => evMode.current = log[Len(log)][2])
    BY DEF ModeSound, LogSound
  <2> QED
    BY <2>1, <2>2, LogGrows
<1>2. CallsAt("modewaits")' = CallsAt("modewaits") \ {c} /\ CallsAt("reports")' = {c}
  BY DEF CallsAt, CallsSound
<1>3. evMode'.log = l
  OBVIOUS
<1>4. \A d \in EvalCalls : evCall'[d].pc = "reports" => evCall'[d] = x
  BY <1>2 DEF CallsAt, CallsSound
<1> HIDE DEF l, log
<1>5. LogSound'
  BY <1>1, <1>2, <1>3, <1>4 DEF LogSound
<1> QED
  BY <1>2, <1>5 DEF ModeSound

LEMMA ModeSteps ==
  ASSUME EvalInv, NEW c \in EvalCalls, DetectsMode(c) \/ GetsModeLock(c) \/ ChangesMode(c)
  PROVE  EvalInv'
<1> DEFINE r == evCall[c]
<1>0. WorldSound /\ CallsSound /\ ModeSound /\ BudgetSound /\ r \in CallType /\ evMode \in ModeType
  BY DEF EvalInv, CallsSound, ModeSound
<1>1. r.pc \in {"mode", "modewaits", "reports"} /\ UNCHANGED <<evWorld, evBudget>> /\ WorldSound'
  BY <1>0 DEF DetectsMode, GetsModeLock, ChangesMode, WorldSound
<1>2. r.state = r.new /\ QueueSound(evMode.lock, CallsAt("modewaits"), CallsAt("reports"))
      /\ evMode.lock \in Seq(EvalCalls) /\ r.mode \in EvalModes
  BY <1>0, <1>1 DEF CallsSound, CallSound, ModeSound, QueueSound, CallType
\* What is left to show of a step: the call it leaves behind, and the mode.
<1>3. ASSUME NEW x \in CallType, CallSound(x), x.pc \in {"modewaits", "reports", "done"},
             evCall' = [evCall EXCEPT ![c] = x], ModeSound'
      PROVE  EvalInv'
  BY <1>0, <1>1, <1>3, CallsMove, BudgetStands DEF EvalInv
<1>4. ASSUME NEW x \in CallType, x.pc # "reports", evCall' = [evCall EXCEPT ![c] = x], r.pc # "reports",
             evMode'.log = evMode.log, evMode'.current = evMode.current
      PROVE  LogSound' /\ CallsAt("reports")' = CallsAt("reports")
  <2>1. CallsAt("reports")' = CallsAt("reports")
    BY <1>0, <1>4 DEF CallsAt, CallsSound
  <2>2. \A d \in EvalCalls : evCall'[d].pc = "reports" => evCall'[d] = evCall[d]
    BY <1>0, <1>4 DEF CallsSound
  <2> QED
    BY <1>0, <1>4, <2>1, <2>2 DEF ModeSound, LogSound
<1>5. CASE DetectsMode(c)
  <2> DEFINE m == FetchIncident
             new == ModeAt(m.active, r.at)
  <2>1. m \in ModeType /\ m.lock = evMode.lock /\ m.log = evMode.log /\ m.current = evMode.current
    BY <1>0, FetchTyped
  <2>2. new \in EvalModes
    BY DEF ModeAt, EvalModes
  <2>3. r.pc = "mode" /\ c \notin CallsAt("modewaits") /\ c \notin CallsAt("reports")
    BY <1>5 DEF DetectsMode, CallsAt
  <2>4. \/ m.lock # <<>> /\ Step(c, [r EXCEPT !.pc = "modewaits", !.mode = new])
           /\ evMode' = [m EXCEPT !.lock = Append(m.lock, c)]
        \/ m.lock = <<>> /\ Step(c, Bucketed(r, new)) /\ evMode' = m
        \/ m.lock = <<>> /\ Step(c, [r EXCEPT !.pc = "reports", !.mode = new])
           /\ evMode' = [m EXCEPT !.lock = <<c>>, !.log = Append(m.log, <<m.current, new>>)]
    BY <1>5 DEF DetectsMode
  <2> HIDE DEF m, new, r
  <2>5. ASSUME NEW pc \in {"modewaits", "reports"}
        PROVE  LET x == [r EXCEPT !.pc = pc, !.mode = new] IN
               x \in CallType /\ CallSound(x) /\ x.pc = pc /\ x.mode = new
    BY <1>0, <1>2, <2>2 DEF CallType, CallSound, EvalPcs
  <2>6. CASE m.lock # <<>> /\ Step(c, [r EXCEPT !.pc = "modewaits", !.mode = new])
             /\ evMode' = [m EXCEPT !.lock = Append(m.lock, c)]
    <3> DEFINE x == [r EXCEPT !.pc = "modewaits", !.mode = new]
               q == Append(m.lock, c)
    <3>1. x \in CallType /\ CallSound(x) /\ x.pc = "modewaits" /\ evCall' = [evCall EXCEPT ![c] = x]
      BY <2>5, <2>6 DEF Step
    <3>2. q \in Seq(EvalCalls) /\ evMode' = [m EXCEPT !.lock = q] /\ QueueSound(q, CallsAt("modewaits") \cup {c}, CallsAt("reports"))
      BY <1>2, <2>1, <2>6, QueueJoined
    <3> HIDE DEF x, q
    <3>3. evMode' \in ModeType /\ evMode'.lock = q /\ evMode'.log = evMode.log /\ evMode'.current = evMode.current
      BY <2>1, <3>2 DEF ModeType
    <3>4. LogSound' /\ CallsAt("reports")' = CallsAt("reports")
      BY <1>4, <2>3, <3>1, <3>3
    <3>5. CallsAt("modewaits")' = CallsAt("modewaits") \cup {c}
      BY <1>0, <3>1 DEF CallsAt, CallsSound
    <3>6. ModeSound'
      BY <3>2, <3>3, <3>4, <3>5 DEF ModeSound
    <3> QED
      BY <1>3, <3>1, <3>6
  <2>7. CASE m.lock = <<>> /\ Step(c, Bucketed(r, new)) /\ evMode' = m
    <3> DEFINE x == Bucketed(r, new)
    <3>1. x \in CallType /\ CallSound(x) /\ x.pc = "done" /\ evCall' = [evCall EXCEPT ![c] = x]
      BY <1>0, <1>2, <2>7, BucketedSound DEF Step
    <3> HIDE DEF x
    <3>2. LogSound' /\ CallsAt("reports")' = CallsAt("reports")
      BY <1>4, <2>1, <2>3, <2>7, <3>1
    <3>3. CallsAt("modewaits")' = CallsAt("modewaits")
      BY <1>0, <2>3, <3>1 DEF CallsAt, CallsSound
    <3>4. ModeSound'
      BY <1>2, <2>1, <2>7, <3>2, <3>3 DEF ModeSound
    <3> QED
      BY <1>3, <3>1, <3>4
  <2>8. CASE m.lock = <<>> /\ Step(c, [r EXCEPT !.pc = "reports", !.mode = new])
             /\ evMode' = [m EXCEPT !.lock = <<c>>, !.log = Append(m.log, <<m.current, new>>)]
    <3> DEFINE x == [r EXCEPT !.pc = "reports", !.mode = new]
               q == <<c>>
               l == Append(evMode.log, <<evMode.current, new>>)
    <3>1. x \in CallType /\ CallSound(x) /\ x.pc = "reports" /\ x.mode = new /\ evCall' = [evCall EXCEPT ![c] = x]
      BY <2>5, <2>8 DEF Step
    <3>2. CallsAt("modewaits") = {} /\ CallsAt("reports") = {}
      BY <1>2, <2>1, <2>8 DEF QueueSound
    <3>3. q \in Seq(EvalCalls) /\ QueueSound(q, {}, {c})
      BY DEF QueueSound
    <3>4. l \in Seq(EvalModes \X EvalModes)
      <4>1. <<evMode.current, new>> \in EvalModes \X EvalModes /\ evMode.log \in Seq(EvalModes \X EvalModes)
        BY <1>0, <2>2 DEF ModeType
      <4> QED
        BY <4>1
    <3>5. evMode' = [m EXCEPT !.lock = q, !.log = l]
      BY <2>1, <2>8
    <3> HIDE DEF x, q, l
    <3>6. evMode' \in ModeType /\ evMode'.lock = q /\ evMode'.log = l /\ evMode'.current = evMode.current
      BY <2>1, <3>3, <3>4, <3>5 DEF ModeType
    <3>7. QueueSound(evMode'.lock, CallsAt("modewaits") \ {c}, {c})
      BY <3>2, <3>3, <3>6 DEF QueueSound
    <3>8. evMode'.log = Append(evMode.log, <<evMode.current, x.mode>>)
      BY <3>1, <3>6 DEF l
    <3>9. ModeSound'
      BY <1>0, <3>1, <3>2, <3>6, <3>7, <3>8, ReportSound
    <3> QED
      BY <1>3, <3>1, <3>9
  <2> QED
    BY <2>4, <2>6, <2>7, <2>8
\* The head of the queue ends with the mode it found, which is then in force.
<1>6. ASSUME evMode.lock # <<>>, evMode.lock[1] = c, Step(c, Bucketed(r, r.mode)),
             NEW mode \in EvalModes, evMode' = [evMode EXCEPT !.current = mode, !.lock = Tail(evMode.lock)],
             evMode.log # <<>> => mode = evMode.log[Len(evMode.log)][2]
      PROVE  EvalInv'
  <2> DEFINE x == Bucketed(r, r.mode)
             q == Tail(evMode.lock)
  <2>1. x \in CallType /\ CallSound(x) /\ x.pc = "done" /\ evCall' = [evCall EXCEPT ![c] = x]
    BY <1>0, <1>2, <1>6, BucketedSound DEF Step
  <2>2. QueueSound(q, CallsAt("modewaits") \ {c}, {}) /\ CallsAt("reports") \subseteq {c}
    BY <1>2, <1>6, QueueLeft
  <2>3. q \in Seq(EvalCalls) /\ evMode' = [evMode EXCEPT !.current = mode, !.lock = q]
    BY <1>6, <2>2 DEF QueueSound
  <2> HIDE DEF x, q, r
  <2>4. evMode' \in ModeType /\ evMode'.lock = q /\ evMode'.log = evMode.log /\ evMode'.current = mode
    BY <1>0, <2>3 DEF ModeType
  <2>5. CallsAt("modewaits")' = CallsAt("modewaits") \ {c} /\ CallsAt("reports")' = CallsAt("reports") \ {c}
    BY <1>0, <2>1 DEF CallsAt, CallsSound
  <2>6. CallsAt("reports")' = {} /\ \A d \in EvalCalls : evCall'[d].pc # "reports"
    BY <2>2, <2>5 DEF CallsAt
  <2>7. LogSound'
    BY <1>0, <1>6, <2>4, <2>6 DEF ModeSound, LogSound
  <2>8. ModeSound'
    BY <2>2, <2>4, <2>5, <2>6, <2>7 DEF ModeSound
  <2> QED
    BY <1>3, <2>1, <2>8
<1>7. CASE GetsModeLock(c)
  <2>1. c \in CallsAt("modewaits") /\ Head(evMode.lock) = c /\ r.pc = "modewaits"
    BY <1>7 DEF GetsModeLock, CallsAt
  <2>2. evMode.lock # <<>> /\ evMode.lock[1] = c /\ QueueSound(evMode.lock, CallsAt("modewaits") \ {c}, {c})
    BY <1>2, <2>1, QueueHeld
  <2>3. CallsAt("reports") = {}
    <3>1. CallsAt("reports") \subseteq {c}
      BY <1>2, <2>2 DEF QueueSound
    <3> QED
      BY <2>1, <3>1 DEF CallsAt
  <2>4. evMode.log # <<>> => evMode.current = evMode.log[Len(evMode.log)][2]
    BY <1>0, <2>3 DEF ModeSound, LogSound
  <2>5. CASE r.mode = evMode.current
    <3>1. Step(c, Bucketed(r, r.mode)) /\ evMode' = [evMode EXCEPT !.lock = Tail(evMode.lock)]
      BY <1>7, <2>5 DEF GetsModeLock
    <3>2. evMode' = [evMode EXCEPT !.current = r.mode, !.lock = Tail(evMode.lock)]
      BY <1>0, <2>5, <3>1 DEF ModeType
    <3> QED
      BY <1>2, <1>6, <2>2, <2>4, <2>5, <3>1, <3>2
  <2>6. CASE r.mode # evMode.current
    <3> DEFINE x == [r EXCEPT !.pc = "reports"]
               l == Append(evMode.log, <<evMode.current, r.mode>>)
    <3>1. evCall' = [evCall EXCEPT ![c] = x] /\ evMode' = [evMode EXCEPT !.log = l]
      BY <1>7, <2>6 DEF GetsModeLock, Step
    <3> HIDE DEF r
    <3>2. x \in CallType /\ CallSound(x) /\ x.pc = "reports" /\ x.mode = r.mode
      BY <1>0, <1>2 DEF CallType, CallSound, EvalPcs
    <3>3. l \in Seq(EvalModes \X EvalModes)
      <4>1. <<evMode.current, r.mode>> \in EvalModes \X EvalModes /\ evMode.log \in Seq(EvalModes \X EvalModes)
        BY <1>0, <1>2 DEF ModeType
      <4> QED
        BY <4>1
    <3> HIDE DEF x, l
    <3>4. evMode' \in ModeType /\ evMode'.lock = evMode.lock /\ evMode'.log = l /\ evMode'.current = evMode.current
      BY <1>0, <3>1, <3>3 DEF ModeType
    <3>5. evMode'.log = Append(evMode.log, <<evMode.current, x.mode>>)
      BY <3>2, <3>4 DEF l
    <3>6. QueueSound(evMode'.lock, CallsAt("modewaits") \ {c}, {c})
      BY <2>2, <3>4
    <3>7. ModeSound'
      BY <1>0, <2>3, <3>1, <3>2, <3>4, <3>5, <3>6, ReportSound
    <3> QED
      BY <1>3, <3>1, <3>2, <3>7
  <2> QED
    BY <2>5, <2>6
<1>8. CASE ChangesMode(c)
  <2>1. c \in CallsAt("reports") /\ r.pc = "reports"
    BY <1>8 DEF ChangesMode, CallsAt
  <2>2. evMode.lock # <<>> /\ evMode.lock[1] = c
    BY <1>2, <2>1 DEF QueueSound
  <2>3. r.mode = evMode.log[Len(evMode.log)][2]
    BY <1>0, <2>1 DEF ModeSound, LogSound
  <2>4. Step(c, Bucketed(r, r.mode)) /\ evMode' = [evMode EXCEPT !.current = r.mode, !.lock = Tail(evMode.lock)]
    BY <1>8 DEF ChangesMode
  <2> QED
    BY <1>2, <1>6, <2>2, <2>3, <2>4
<1> QED
  BY <1>5, <1>7, <1>8

\* The judge's cost, the clock and the outages leave the calls alone.
LEMMA WorldSteps == ASSUME EvalInv, Spends \/ EvalTick \/ Flips PROVE EvalInv'
<1>1. UNCHANGED <<evBudget, evMode, evCall>> /\ evWorld \in WorldType
  BY DEF Spends, EvalTick, Flips, EvalInv, WorldSound
<1>2. evWorld' \in WorldType /\ evWorld'.incr = evWorld.incr /\ evWorld'.allowed = evWorld.allowed
      /\ evWorld'.open = evWorld.open
  <2>1. CASE Spends
    <3> DEFINE spend == [evWorld.spend EXCEPT ![Today] = @ + 1]
    <3>1. Today \in EvalDays
      BY <1>1, DaysCover DEF Today, WorldType
    <3>2. evWorld.spend \in [EvalDays -> 0 .. EvalSpendMax] /\ evWorld.spend[Today] < EvalSpendMax
      BY <1>1, <2>1 DEF Spends, WorldType
    <3>3. evWorld.spend[Today] + 1 \in 0 .. EvalSpendMax
      BY <3>1, <3>2, EvalSamplerAssumption
    <3>4. spend \in [EvalDays -> 0 .. EvalSpendMax]
      BY <3>1, <3>2, <3>3
    <3>5. evWorld' = [evWorld EXCEPT !.spend = spend]
      BY <2>1 DEF Spends
    <3> HIDE DEF spend
    <3> QED
      BY <1>1, <3>4, <3>5 DEF WorldType
  <2>2. CASE EvalTick
    <3>1. evWorld.now \in Instants /\ evWorld.now + 1 \in Instants
      BY <1>1, <2>2, EvalSamplerAssumption DEF EvalTick, WorldType, Instants
    <3> QED
      BY <1>1, <2>2, <3>1 DEF EvalTick, WorldType
  <2>3. CASE Flips
    <3> DEFINE redis == ~evWorld.redis
               policy == IF evWorld.policy = "ok" THEN "soft" ELSE "ok"
    <3>1. redis \in BOOLEAN /\ policy \in {"ok", "soft"} /\ evWorld.flips + 1 \in Nat
      BY <1>1 DEF WorldType
    <3>2. \/ evWorld' = [evWorld EXCEPT !.flips = evWorld.flips + 1, !.redis = redis]
          \/ \E a \in {"on", "off", "silent"} : evWorld' = [evWorld EXCEPT !.flips = evWorld.flips + 1, !.alert = a]
          \/ evWorld' = [evWorld EXCEPT !.flips = evWorld.flips + 1, !.policy = policy]
      BY <2>3 DEF Flips
    <3> HIDE DEF redis, policy
    <3>3. CASE evWorld' = [evWorld EXCEPT !.flips = evWorld.flips + 1, !.redis = redis]
      BY <1>1, <3>1, <3>3 DEF WorldType
    <3>4. CASE \E a \in {"on", "off", "silent"} : evWorld' = [evWorld EXCEPT !.flips = evWorld.flips + 1, !.alert = a]
      BY <1>1, <3>1, <3>4 DEF WorldType
    <3>5. CASE evWorld' = [evWorld EXCEPT !.flips = evWorld.flips + 1, !.policy = policy]
      BY <1>1, <3>1, <3>5 DEF WorldType
    <3> QED
      BY <3>2, <3>3, <3>4, <3>5
  <2> QED
    BY <2>1, <2>2, <2>3
<1>3. CallsSound' /\ WorldSound'
  BY <1>1, <1>2 DEF EvalInv, CallsSound, WorldSound
<1>4. CallsAt("waits")' = CallsAt("waits") /\ CallsAt("audits")' = CallsAt("audits")
      /\ CallsAt("modewaits")' = CallsAt("modewaits") /\ CallsAt("reports")' = CallsAt("reports")
  BY <1>1 DEF CallsAt
<1>5. BudgetSound' /\ ModeSound'
  BY <1>1, <1>4 DEF EvalInv, BudgetSound, ModeSound, LogSound
<1> QED
  BY <1>3, <1>5 DEF EvalInv

LEMMA EvalStep == ASSUME EvalInv, [EvalNext]_evalVars PROVE EvalInv'
<1>1. CASE UNCHANGED evalVars
  BY <1>1 DEF evalVars, EvalInv, CallsSound, WorldSound, BudgetSound, ModeSound, LogSound, CallsAt
<1> QED
  BY <1>1, ReadingSteps, BudgetLockSteps, AcquireStep, ModeSteps, WorldSteps DEF EvalNext

\* However the calls of should_eval() overlap at their awaits, each decides on the
\* budget state it computed itself, the mode changes reported are one chain that ends
\* in the mode in force, and Redis bounds the incident traces of a window: for any
\* number of calls, budget, limit, calendar and outages (eval/adaptive_sampler.py).
THEOREM EvalReadingsConsistency == EvalSpec => []EvalReadingsConsistent
<1>1. EvalInv => DecidesOnOwnReading
  BY DEF EvalInv, CallsSound, CallSound, DecidesOnOwnReading
<1>2. EvalInv => IncidentsBounded
  BY DEF EvalInv, WorldSound, IncidentsBounded, Instants
<1>3. EvalInv => ModeChangesChain
  <2> SUFFICES ASSUME EvalInv PROVE ModeChangesChain
    OBVIOUS
  <2>1. evMode.lock = <<>> => CallsAt("reports") = {}
    BY DEF EvalInv, ModeSound, QueueSound
  <2> QED
    BY <2>1 DEF EvalInv, ModeSound, LogSound, ModeChangesChain
<1>4. EvalInv => EvalReadingsConsistent
  BY <1>1, <1>2, <1>3 DEF EvalReadingsConsistent
<1> QED
  BY <1>4, EvalStarts, EvalStep, PTL DEF EvalSpec

\* The sampler's variables keep their types, the costs their bound.
THEOREM EvalTyped == EvalSpec => []EvalTypeOK
<1>1. EvalInv => EvalTypeOK
  BY DEF EvalInv, CallsSound, WorldSound, BudgetSound, ModeSound, WorldType, BudgetType, ModeType, CallType,
     Instants, EvalModes, EvalVerdicts, EvalTypeOK
<1> QED
  BY <1>1, EvalStarts, EvalStep, PTL DEF EvalSpec
-----------------------------------------------------------------------------
(* Drill-down.  A request's events are decided in the step that ends it.  An  *)
(* entry's stamp is used once, so what was due to an annotation is either     *)
(* still listed where the invalidation will look, or was dropped unlisted by  *)
(* another one.                                                               *)

DrillPcs == {"idle", "expand", "rate", "get", "hot", "warm", "cold", "value", "index", "done"}
EventNames == {"allow", "deny", "cross_tenant"}
DrillRecord == [pc : DrillPcs, q : DdQueries, ver : Nat, audit : Seq(EventNames)]

Endings == {<<"allow">>, <<"deny">>, <<"cross_tenant", "deny">>}

RequestSound(r) ==
  /\ r.pc # "done" => r.audit = <<>>
  /\ r.pc \notin {"idle", "done"} => Gate(r.q) = "open"
  /\ r.pc \in {"value", "index"} => r.ver > 0
  /\ r.pc = "done" => r.audit \in Endings
  /\ r.pc = "done" /\ r.audit = <<"allow">> => r.ver > 0 /\ Gate(r.q) = "open"

RequestsSound ==
  /\ ddReq \in [DdRequests -> DrillRecord]
  /\ \A r \in DdRequests : RequestSound(ddReq[r])

CacheSound ==
  /\ ddTrace \in [ver : Nat \ {0}, tier : {"hot", "warm", "cold"}]
  /\ ddCache \in [DdQueries -> [ver : Nat, stamp : Nat]] /\ ddIndex \subseteq DdQueries
  /\ ddPast \in [stamp : Nat, indexed : SUBSET Nat, orphans : SUBSET Nat]
  /\ \A q \in DdQueries : /\ ddCache[q] # NoValue => ddCache[q].ver > 0
                          /\ ddCache[q].stamp <= ddPast.stamp
  /\ \A p, q \in DdQueries : ddCache[p].stamp = ddCache[q].stamp => p = q \/ ddCache[p].stamp = 0
  /\ \A s \in ddPast.indexed : 0 < s /\ s <= ddPast.stamp
  /\ \A q \in DdQueries : ddCache[q].stamp \in ddPast.indexed =>
       q \in ddIndex \/ ddCache[q].stamp \in ddPast.orphans

InvRecord == [pc : {"idle", "list", "delete", "drop", "done"}, listed : SUBSET DdQueries,
              due : SUBSET Nat, clean : BOOLEAN]

\* Where the invalidation stands with what is due: listed by its second call,
\* gone after it.
InvSound(v) ==
  /\ v.due \subseteq ddPast.indexed
  /\ v.pc = "idle" => v.due = {}
  /\ v.pc = "delete" => \A q \in DdQueries : ddCache[q].stamp \in v.due =>
       q \in v.listed \/ ddCache[q].stamp \in ddPast.orphans
  /\ v.pc = "drop" \/ (v.pc = "done" /\ v.clean) =>
       \A q \in DdQueries : ddCache[q].stamp \in v.due => ddCache[q].stamp \in ddPast.orphans

AnnotationsSound ==
  /\ ddInv \in [Annotators -> InvRecord]
  /\ \A a \in Annotators : InvSound(ddInv[a])

DrillInv == RequestsSound /\ CacheSound /\ AnnotationsSound

LEMMA DrillStart == DrillInit => DrillInv
<1>. SUFFICES ASSUME DrillInit PROVE DrillInv
  OBVIOUS
<1>1. FirstQuery \in DdQueries
  BY DrillAssumption DEF FirstQuery
<1>2. RequestsSound
  BY <1>1 DEF DrillInit, RequestsSound, RequestSound, DrillRecord, DrillPcs
<1>3. CacheSound
  BY DEF DrillInit, CacheSound, NoValue
<1>4. AnnotationsSound
  BY DEF DrillInit, AnnotationsSound, InvRecord, InvSound
<1>. QED  BY <1>2, <1>3, <1>4 DEF DrillInv

LEMMA EndingsTyped == \A e \in Endings : e \in Seq(EventNames) /\ <<>> \o e = e
<1>1. <<"allow">> \in Seq(EventNames) /\ <<"deny">> \in Seq(EventNames)
  BY DEF EventNames
<1>2. <<"cross_tenant", "deny">> \in Seq(EventNames)
  BY DEF EventNames
<1>3. \A s \in Seq(EventNames) : <<>> \o s = s
  OBVIOUS
<1>. QED  BY <1>1, <1>2, <1>3 DEF Endings

\* A step of one request is sound if its record is; cache, index and annotations
\* are another matter.
LEMMA OneRequest ==
    ASSUME DrillInv, NEW r \in DdRequests, NEW v \in DrillRecord, RequestSound(v), Set(r, v)
    PROVE  RequestsSound'
<1>1. ddReq' = [ddReq EXCEPT ![r] = v] /\ ddReq \in [DdRequests -> DrillRecord]
      /\ \A s \in DdRequests : RequestSound(ddReq[s])
  BY DEF Set, DrillInv, RequestsSound
<1>2. ddReq' \in [DdRequests -> DrillRecord] /\ \A s \in DdRequests : RequestSound(ddReq'[s])
  BY <1>1
<1>. QED  BY <1>2 DEF RequestsSound, RequestSound

\* Ending a request that is under way with one of its endings.
LEMMA EndsSound ==
    ASSUME DrillInv, NEW r \in DdRequests, ddReq[r].pc \notin {"idle", "done"}, NEW events \in Endings,
           NEW n \in Nat, events = <<"allow">> => n > 0
    PROVE  LET v == [Ends(r, events) EXCEPT !.ver = n] IN v \in DrillRecord /\ RequestSound(v)
<1>1. ddReq[r] \in DrillRecord /\ RequestSound(ddReq[r])
  BY DEF DrillInv, RequestsSound
<1>2. events \in Seq(EventNames) /\ <<>> \o events = events
  BY EndingsTyped
<1>. DEFINE v == [Ends(r, events) EXCEPT !.ver = n]
<1>3. ddReq[r].audit = <<>> /\ Gate(ddReq[r].q) = "open"
  BY <1>1 DEF RequestSound
<1>4. v = [ddReq[r] EXCEPT !.pc = "done", !.audit = events, !.ver = n]
  BY <1>1, <1>2, <1>3 DEF Ends, DrillRecord
<1>5. v \in DrillRecord /\ v.pc = "done" /\ v.q = ddReq[r].q /\ v.ver = n /\ v.audit = events
  BY <1>1, <1>2, <1>4 DEF DrillRecord, DrillPcs
<1>. HIDE DEF v
<1>6. RequestSound(v)
  BY <1>3, <1>5 DEF RequestSound
<1>. QED  BY <1>5, <1>6 DEF v

\* The same where the version stays as it is.
LEMMA EndsAsIs ==
    ASSUME DrillInv, NEW r \in DdRequests, ddReq[r].pc \notin {"idle", "done"}, NEW events \in Endings,
           events = <<"allow">> => ddReq[r].ver > 0
    PROVE  Ends(r, events) \in DrillRecord /\ RequestSound(Ends(r, events))
<1>1. ddReq[r] \in DrillRecord /\ ddReq[r].ver \in Nat
  BY DEF DrillInv, RequestsSound, DrillRecord
<1>2. Ends(r, events) = [Ends(r, events) EXCEPT !.ver = ddReq[r].ver]
  BY <1>1 DEF Ends, DrillRecord
<1>. QED  BY <1>1, <1>2, EndsSound

\* Going on to another step of the request.
LEMMA GoesOn ==
    ASSUME DrillInv, NEW r \in DdRequests, ddReq[r].pc \notin {"idle", "done"},
           NEW to \in DrillPcs \ {"idle", "done"}, NEW n \in Nat, to \in {"value", "index"} => n > 0
    PROVE  LET v == [ddReq[r] EXCEPT !.pc = to, !.ver = n] IN v \in DrillRecord /\ RequestSound(v)
<1>1. ddReq[r] \in DrillRecord /\ RequestSound(ddReq[r])
  BY DEF DrillInv, RequestsSound
<1>. DEFINE v == [ddReq[r] EXCEPT !.pc = to, !.ver = n]
<1>2. v \in DrillRecord /\ v.pc = to /\ v.q = ddReq[r].q /\ v.ver = n /\ v.audit = ddReq[r].audit
  BY <1>1 DEF DrillRecord
<1>. HIDE DEF v
<1>3. RequestSound(v)
  BY <1>1, <1>2 DEF RequestSound
<1>. QED  BY <1>2, <1>3 DEF v

LEMMA GoesOnAsIs ==
    ASSUME DrillInv, NEW r \in DdRequests, ddReq[r].pc \notin {"idle", "done"},
           NEW to \in DrillPcs \ {"idle", "done"}, to \in {"value", "index"} => ddReq[r].ver > 0
    PROVE  LET v == [ddReq[r] EXCEPT !.pc = to] IN v \in DrillRecord /\ RequestSound(v)
<1>1. ddReq[r] \in DrillRecord /\ ddReq[r].ver \in Nat
  BY DEF DrillInv, RequestsSound, DrillRecord
<1>2. [ddReq[r] EXCEPT !.pc = to] = [ddReq[r] EXCEPT !.pc = to, !.ver = ddReq[r].ver]
  BY <1>1 DEF DrillRecord
<1>. QED  BY <1>1, <1>2, GoesOn

LEMMA EndingsListed == {<<"allow">>, <<"deny">>, <<"cross_tenant", "deny">>} = Endings /\ <<"deny">> # <<"allow">>
                       /\ <<"cross_tenant", "deny">> # <<"allow">>
BY DEF Endings

\* Steps of a request that leave cache, index and annotations alone.
LEMMA RequestSteps ==
    ASSUME DrillInv, NEW r \in DdRequests, UNCHANGED <<ddTrace, ddCache, ddIndex, ddInv, ddPast>>,
           \/ \E q \in DdQueries : RequestArrives(r, q)
           \/ Expands(r) \/ RateChecked(r) \/ CacheGet(r)
           \/ TierRecovers(r, "hot", "warm") \/ TierRecovers(r, "warm", "cold")
           \/ \E athena \in BOOLEAN : ColdRecovers(r, athena)
    PROVE  DrillInv'
<1>1. CacheSound'
  BY DEF DrillInv, CacheSound
<1>2. AnnotationsSound'
  BY DEF DrillInv, AnnotationsSound, InvSound
<1>3. ddReq[r] \in DrillRecord /\ RequestSound(ddReq[r])
  BY DEF DrillInv, RequestsSound
<1>4. ddTrace.ver \in Nat /\ ddTrace.ver > 0
  BY DEF DrillInv, CacheSound
<1>5. RequestsSound'
  <2>1. ASSUME NEW q \in DdQueries, RequestArrives(r, q) PROVE RequestsSound'
    <3>. DEFINE asked == [ddReq[r] EXCEPT !.q = q]
                v == IF Gate(q) = "open" THEN [asked EXCEPT !.pc = IF q.op = "drill" THEN "rate" ELSE "expand"]
                     ELSE [asked EXCEPT !.pc = "done", !.audit = <<"deny">>]
    <3>1. ddReq[r].pc = "idle" /\ Set(r, v) /\ ddReq[r].audit = <<>>
      BY <1>3, <2>1 DEF RequestArrives, RequestSound
    <3>2. CASE Gate(q) = "open"
      <4>1. v = [ddReq[r] EXCEPT !.q = q, !.pc = IF q.op = "drill" THEN "rate" ELSE "expand"]
        BY <1>3, <3>2 DEF DrillRecord
      <4>2. v \in DrillRecord /\ v.pc \in {"rate", "expand"} /\ v.q = q /\ v.audit = <<>>
        BY <1>3, <3>1, <4>1 DEF DrillRecord, DrillPcs
      <4>. HIDE DEF v
      <4>3. RequestSound(v)
        BY <3>2, <4>2 DEF RequestSound
      <4>. QED  BY <3>1, <4>2, <4>3, OneRequest
    <3>3. CASE Gate(q) # "open"
      <4>1. v = [ddReq[r] EXCEPT !.q = q, !.pc = "done", !.audit = <<"deny">>] /\ <<"deny">> \in Seq(EventNames)
        BY <1>3, <3>3, EndingsTyped, EndingsListed DEF DrillRecord
      <4>2. v \in DrillRecord /\ v.pc = "done" /\ v.audit = <<"deny">>
        BY <1>3, <4>1 DEF DrillRecord, DrillPcs
      <4>. HIDE DEF v
      <4>3. RequestSound(v)
        BY <4>2, EndingsListed DEF RequestSound
      <4>. QED  BY <3>1, <4>2, <4>3, OneRequest
    <3>. QED  BY <3>2, <3>3
  <2>2. ASSUME Expands(r) PROVE RequestsSound'
    <3>1. ddReq[r].pc = "expand" /\ (\/ Set(r, [Ends(r, <<"allow">>) EXCEPT !.ver = ddTrace.ver])
                                     \/ Set(r, Ends(r, <<"deny">>)))
      BY <2>2 DEF Expands
    <3>2. LET v == [Ends(r, <<"allow">>) EXCEPT !.ver = ddTrace.ver] IN v \in DrillRecord /\ RequestSound(v)
      BY <1>4, <3>1, EndsSound, EndingsListed
    <3>3. Ends(r, <<"deny">>) \in DrillRecord /\ RequestSound(Ends(r, <<"deny">>))
      BY <3>1, EndsAsIs, EndingsListed
    <3>. QED  BY <3>1, <3>2, <3>3, OneRequest
  <2>3. ASSUME RateChecked(r) PROVE RequestsSound'
    <3>1. ddReq[r].pc = "rate" /\ (Set(r, Ends(r, <<"deny">>)) \/ Set(r, [ddReq[r] EXCEPT !.pc = "get"]))
      BY <2>3 DEF RateChecked
    <3>2. Ends(r, <<"deny">>) \in DrillRecord /\ RequestSound(Ends(r, <<"deny">>))
      BY <3>1, EndsAsIs, EndingsListed
    <3>3. LET v == [ddReq[r] EXCEPT !.pc = "get"] IN v \in DrillRecord /\ RequestSound(v)
      BY <3>1, GoesOnAsIs DEF DrillPcs
    <3>. QED  BY <3>1, <3>2, <3>3, OneRequest
  <2>4. ASSUME CacheGet(r) PROVE RequestsSound'
    <3>. DEFINE entry == ddCache[ddReq[r].q]
    <3>1. ddReq[r].pc = "get"
          /\ (\/ entry # NoValue /\ Set(r, [Ends(r, <<"allow">>) EXCEPT !.ver = entry.ver])
              \/ Set(r, [ddReq[r] EXCEPT !.pc = "hot"]))
      BY <2>4 DEF CacheGet
    <3>2. entry.ver \in Nat /\ (entry # NoValue => entry.ver > 0)
      BY <1>3 DEF DrillInv, CacheSound, DrillRecord
    <3>. HIDE DEF entry
    <3>3. entry # NoValue =>
            LET v == [Ends(r, <<"allow">>) EXCEPT !.ver = entry.ver] IN v \in DrillRecord /\ RequestSound(v)
      BY <3>1, <3>2, EndsSound, EndingsListed
    <3>4. LET v == [ddReq[r] EXCEPT !.pc = "hot"] IN v \in DrillRecord /\ RequestSound(v)
      BY <3>1, GoesOnAsIs DEF DrillPcs
    <3>. QED  BY <3>1, <3>3, <3>4, OneRequest
  <2>5. ASSUME NEW from \in {"hot", "warm"}, NEW next \in {"warm", "cold"}, TierRecovers(r, from, next)
        PROVE  RequestsSound'
    <3>1. ddReq[r].pc \notin {"idle", "done"}
          /\ (\/ Set(r, [ddReq[r] EXCEPT !.pc = "value", !.ver = ddTrace.ver])
              \/ Set(r, [ddReq[r] EXCEPT !.pc = next]))
      BY <2>5 DEF TierRecovers
    <3>2. LET v == [ddReq[r] EXCEPT !.pc = "value", !.ver = ddTrace.ver] IN v \in DrillRecord /\ RequestSound(v)
      BY <1>4, <3>1, GoesOn DEF DrillPcs
    <3>3. LET v == [ddReq[r] EXCEPT !.pc = next] IN v \in DrillRecord /\ RequestSound(v)
      BY <3>1, GoesOnAsIs DEF DrillPcs
    <3>. QED  BY <3>1, <3>2, <3>3, OneRequest
  <2>6. ASSUME NEW athena \in BOOLEAN, ColdRecovers(r, athena) PROVE RequestsSound'
    <3>1. ddReq[r].pc \notin {"idle", "done"}
          /\ (\/ Set(r, [ddReq[r] EXCEPT !.pc = "value", !.ver = ddTrace.ver])
              \/ Set(r, Ends(r, <<"cross_tenant", "deny">>)) \/ Set(r, Ends(r, <<"deny">>)))
      BY <2>6 DEF ColdRecovers
    <3>2. LET v == [ddReq[r] EXCEPT !.pc = "value", !.ver = ddTrace.ver] IN v \in DrillRecord /\ RequestSound(v)
      BY <1>4, <3>1, GoesOn DEF DrillPcs
    <3>3. Ends(r, <<"deny">>) \in DrillRecord /\ RequestSound(Ends(r, <<"deny">>))
      BY <3>1, EndsAsIs, EndingsListed
    <3>4. Ends(r, <<"cross_tenant", "deny">>) \in DrillRecord /\ RequestSound(Ends(r, <<"cross_tenant", "deny">>))
      BY <3>1, EndsAsIs, EndingsListed
    <3>. QED  BY <3>1, <3>2, <3>3, <3>4, OneRequest
  <2>. QED  BY <2>1, <2>2, <2>3, <2>4, <2>5, <2>6
<1>. QED  BY <1>1, <1>2, <1>5 DEF DrillInv

\* SETEX: the stamp is new, so no annotation waits for it and no index has it.
LEMMA ValueSetKeeps ==
    ASSUME DrillInv, NEW r \in DdRequests, ValueSet(r)
    PROVE  DrillInv'
<1>1. ddReq[r] \in DrillRecord /\ ddReq[r].pc = "value" /\ ddReq[r].q \in DdQueries /\ ddReq[r].ver \in Nat
      /\ ddReq[r].ver > 0 /\ UNCHANGED <<ddTrace, ddIndex, ddInv>>
  BY DEF DrillInv, RequestsSound, RequestSound, DrillRecord, ValueSet
<1>2. CASE RedisWorks
  <2>. DEFINE s == ddPast.stamp + 1
              q == ddReq[r].q
  <2>1. /\ ddCache' = [ddCache EXCEPT ![q] = [ver |-> ddReq[r].ver, stamp |-> s]]
        /\ ddPast' = [ddPast EXCEPT !.stamp = s] /\ Set(r, [ddReq[r] EXCEPT !.pc = "index"])
    BY <1>2 DEF ValueSet
  <2>2. s \in Nat /\ ddPast.stamp < s /\ ddPast.stamp \in Nat
    BY DEF DrillInv, CacheSound
  <2>. HIDE DEF s
  <2>3. /\ ddPast' \in [stamp : Nat, indexed : SUBSET Nat, orphans : SUBSET Nat]
        /\ ddPast'.stamp = s /\ ddPast'.indexed = ddPast.indexed /\ ddPast'.orphans = ddPast.orphans
    BY <2>1, <2>2 DEF DrillInv, CacheSound
  <2>4. /\ ddCache' \in [DdQueries -> [ver : Nat, stamp : Nat]]
        /\ ddCache'[q].ver = ddReq[r].ver /\ ddCache'[q].stamp = s
        /\ \A p \in DdQueries \ {q} : ddCache'[p] = ddCache[p]
    BY <1>1, <2>1, <2>2 DEF DrillInv, CacheSound
  <2>5. s \notin ddPast.indexed /\ ddPast.indexed \subseteq Nat
    BY <2>2 DEF DrillInv, CacheSound
  <2>6. CacheSound'
    <3>1. \A p \in DdQueries : /\ ddCache'[p] # NoValue => ddCache'[p].ver > 0
                               /\ ddCache'[p].stamp <= s
      BY <1>1, <2>2, <2>4 DEF DrillInv, CacheSound
    <3>2. \A i \in ddPast.indexed : 0 < i /\ i <= s
      BY <2>2, <2>5 DEF DrillInv, CacheSound
    <3>3. \A p \in DdQueries : ddCache'[p].stamp \in ddPast.indexed =>
            p \in ddIndex \/ ddCache'[p].stamp \in ddPast.orphans
      BY <2>4, <2>5 DEF DrillInv, CacheSound
    <3>4. ASSUME NEW p \in DdQueries, NEW o \in DdQueries, ddCache'[p].stamp = ddCache'[o].stamp
          PROVE  p = o \/ ddCache'[p].stamp = 0
      <4>1. \A x \in DdQueries : ddCache[x].stamp \in Nat /\ ddCache[x].stamp <= ddPast.stamp
        BY DEF DrillInv, CacheSound
      <4>2. \A x \in DdQueries \ {q} : ddCache'[x].stamp # s
        BY <2>2, <2>4, <4>1
      <4>. QED  BY <2>4, <3>4, <4>2 DEF DrillInv, CacheSound
    <3>. QED  BY <1>1, <2>3, <2>4, <3>1, <3>2, <3>3, <3>4 DEF DrillInv, CacheSound, NoValue
  <2>7. AnnotationsSound'
    <3>1. ASSUME NEW a \in Annotators PROVE InvSound(ddInv[a])'
      <4>1. InvSound(ddInv[a]) /\ s \notin ddInv[a].due
        BY <2>5 DEF DrillInv, AnnotationsSound, InvSound
      <4>. QED  BY <1>1, <2>3, <2>4, <4>1 DEF InvSound
    <3>. QED  BY <1>1, <3>1 DEF DrillInv, AnnotationsSound
  <2>8. LET v == [ddReq[r] EXCEPT !.pc = "index"] IN v \in DrillRecord /\ RequestSound(v)
    BY <1>1, GoesOnAsIs DEF DrillPcs
  <2>9. RequestsSound'
    BY <2>1, <2>8, OneRequest
  <2>. QED  BY <2>6, <2>7, <2>9 DEF DrillInv
<1>3. CASE ~RedisWorks
  <2>1. Set(r, Ends(r, <<"allow">>)) /\ UNCHANGED <<ddCache, ddPast>>
    BY <1>3 DEF ValueSet
  <2>2. Ends(r, <<"allow">>) \in DrillRecord /\ RequestSound(Ends(r, <<"allow">>))
    BY <1>1, EndsAsIs, EndingsListed
  <2>3. RequestsSound'
    BY <2>1, <2>2, OneRequest
  <2>. QED  BY <1>1, <2>1, <2>3 DEF DrillInv, CacheSound, AnnotationsSound, InvSound
<1>. QED  BY <1>2, <1>3

\* SADD: what is indexed from now on is in the index, and due to no annotation yet.
LEMMA IndexSetKeeps ==
    ASSUME DrillInv, NEW r \in DdRequests, IndexSet(r)
    PROVE  DrillInv'
<1>. DEFINE q == ddReq[r].q
<1>1. ddReq[r] \in DrillRecord /\ ddReq[r].pc = "index" /\ q \in DdQueries /\ ddReq[r].ver \in Nat
      /\ ddReq[r].ver > 0 /\ UNCHANGED <<ddTrace, ddCache, ddInv>> /\ Set(r, Ends(r, <<"allow">>))
  BY DEF DrillInv, RequestsSound, RequestSound, DrillRecord, IndexSet
<1>2. Ends(r, <<"allow">>) \in DrillRecord /\ RequestSound(Ends(r, <<"allow">>))
  BY <1>1, EndsAsIs, EndingsListed
<1>3. RequestsSound'
  BY <1>1, <1>2, OneRequest
<1>4. CASE ddRedis.up
  <2>. DEFINE new == {ddCache[q].stamp} \ {0}
  <2>1. ddIndex' = ddIndex \cup {q} /\ ddPast' = [ddPast EXCEPT !.indexed = @ \cup new]
    BY <1>4 DEF IndexSet
  <2>2. new \subseteq Nat /\ \A s \in new : s = ddCache[q].stamp /\ 0 < s /\ s <= ddPast.stamp
    BY <1>1 DEF DrillInv, CacheSound
  <2>. HIDE DEF new
  <2>3. /\ ddPast' \in [stamp : Nat, indexed : SUBSET Nat, orphans : SUBSET Nat]
        /\ ddPast'.stamp = ddPast.stamp /\ ddPast'.indexed = ddPast.indexed \cup new
        /\ ddPast'.orphans = ddPast.orphans
    BY <2>1, <2>2 DEF DrillInv, CacheSound
  <2>4. CacheSound'
    <3>1. ASSUME NEW p \in DdQueries, ddCache[p].stamp \in ddPast'.indexed
          PROVE  p \in ddIndex' \/ ddCache[p].stamp \in ddPast.orphans
      BY <1>1, <2>1, <2>2, <2>3, <3>1 DEF DrillInv, CacheSound
    <3>. QED  BY <1>1, <2>1, <2>2, <2>3, <3>1 DEF DrillInv, CacheSound
  <2>5. AnnotationsSound'
    BY <1>1, <2>3 DEF DrillInv, AnnotationsSound, InvSound
  <2>. QED  BY <1>3, <2>4, <2>5 DEF DrillInv
<1>5. CASE ~ddRedis.up
  <2>1. UNCHANGED <<ddIndex, ddPast>>
    BY <1>5 DEF IndexSet
  <2>. QED  BY <1>1, <1>3, <2>1 DEF DrillInv, CacheSound, AnnotationsSound, InvSound
<1>. QED  BY <1>4, <1>5

\* A late annotation: what is due is indexed.
LEMMA AnnotatesKeeps ==
    ASSUME DrillInv, NEW a \in Annotators, Annotates(a)
    PROVE  DrillInv'
<1>. DEFINE due == {ddCache[q].stamp : q \in DdQueries} \cap ddPast.indexed
            v == [pc |-> "list", listed |-> {}, due |-> due, clean |-> TRUE]
<1>1. /\ ddTrace' = [ddTrace EXCEPT !.ver = @ + 1] /\ ddInv' = [ddInv EXCEPT ![a] = v]
      /\ UNCHANGED <<ddCache, ddIndex, ddReq, ddPast>>
  BY DEF Annotates
<1>2. due \subseteq ddPast.indexed /\ due \subseteq Nat
  BY DEF DrillInv, CacheSound
<1>. HIDE DEF due
<1>3. v \in InvRecord
  BY <1>2 DEF InvRecord
<1>4. InvSound(v)
  BY <1>2 DEF InvSound
<1>. HIDE DEF v
<1>5. ddTrace' \in [ver : Nat \ {0}, tier : {"hot", "warm", "cold"}]
  BY <1>1 DEF DrillInv, CacheSound
<1>6. CacheSound' /\ RequestsSound'
  BY <1>1, <1>5 DEF DrillInv, CacheSound, RequestsSound, RequestSound
<1>7. ddInv' \in [Annotators -> InvRecord] /\ \A b \in Annotators : InvSound(ddInv'[b])
  BY <1>1, <1>3, <1>4 DEF DrillInv, AnnotationsSound
<1>8. AnnotationsSound'
  BY <1>1, <1>7 DEF AnnotationsSound, InvSound
<1>. QED  BY <1>6, <1>8 DEF DrillInv

\* SMEMBERS, DEL, DEL, or a failing call: an annotation that gets to the end has
\* listed all that was due and not dropped by another, and what its last call
\* drops from the index is either gone or recorded as an orphan.
LEMMA InvalidatesKeeps ==
    ASSUME DrillInv, NEW a \in Annotators, Invalidates(a)
    PROVE  DrillInv'
<1>. DEFINE inv == ddInv[a]
<1>1. inv \in InvRecord /\ InvSound(inv) /\ ddInv \in [Annotators -> InvRecord]
      /\ \A b \in Annotators : InvSound(ddInv[b])
  BY DEF DrillInv, AnnotationsSound
<1>2. UNCHANGED <<ddTrace, ddReq>> /\ inv.pc \in {"list", "delete", "drop"}
  BY DEF Invalidates
<1>3. RequestsSound'
  BY <1>2 DEF DrillInv, RequestsSound, RequestSound
<1>4. CASE ddInv' = [ddInv EXCEPT ![a].pc = "done", ![a].clean = FALSE] /\ UNCHANGED <<ddCache, ddIndex, ddPast>>
  <2>. DEFINE v == [inv EXCEPT !.pc = "done", !.clean = FALSE]
  <2>1. ddInv' = [ddInv EXCEPT ![a] = v] /\ v \in InvRecord /\ v.pc = "done" /\ ~v.clean /\ v.due = inv.due
    BY <1>1, <1>4 DEF InvRecord
  <2>. HIDE DEF v
  <2>2. InvSound(v)
    BY <1>1, <2>1 DEF InvSound
  <2>3. ddInv' \in [Annotators -> InvRecord] /\ \A b \in Annotators : InvSound(ddInv'[b])
    BY <1>1, <2>1, <2>2
  <2>. QED  BY <1>2, <1>3, <1>4, <2>3 DEF DrillInv, CacheSound, AnnotationsSound, InvSound
<1>5. CASE /\ inv.pc = "list" /\ ddInv' = [ddInv EXCEPT ![a].pc = "delete", ![a].listed = ddIndex]
           /\ UNCHANGED <<ddCache, ddIndex, ddPast>>
  <2>. DEFINE v == [inv EXCEPT !.pc = "delete", !.listed = ddIndex]
  <2>1. ddInv' = [ddInv EXCEPT ![a] = v] /\ v \in InvRecord /\ v.pc = "delete" /\ v.listed = ddIndex
        /\ v.due = inv.due
    BY <1>1, <1>5 DEF InvRecord, DrillInv, CacheSound
  <2>. HIDE DEF v
  <2>2. InvSound(v)
    BY <1>1, <2>1 DEF InvSound, DrillInv, CacheSound
  <2>3. ddInv' \in [Annotators -> InvRecord] /\ \A b \in Annotators : InvSound(ddInv'[b])
    BY <1>1, <2>1, <2>2
  <2>. QED  BY <1>2, <1>3, <1>5, <2>3 DEF DrillInv, CacheSound, AnnotationsSound, InvSound
<1>6. CASE /\ inv.pc = "delete" /\ ddInv' = [ddInv EXCEPT ![a].pc = "drop"]
           /\ ddCache' = [q \in DdQueries |-> IF q \in inv.listed THEN NoValue ELSE ddCache[q]]
           /\ UNCHANGED <<ddIndex, ddPast>>
  <2>. DEFINE v == [inv EXCEPT !.pc = "drop"]
  <2>1. ddInv' = [ddInv EXCEPT ![a] = v] /\ v \in InvRecord /\ v.pc = "drop" /\ v.due = inv.due
    BY <1>1, <1>6 DEF InvRecord
  <2>. HIDE DEF v
  <2>2. \A q \in DdQueries : \/ ddCache'[q] = NoValue /\ ddCache'[q].stamp = 0
                             \/ ddCache'[q] = ddCache[q] /\ q \notin inv.listed
    BY <1>6 DEF NoValue
  <2>3. 0 \notin ddPast.indexed
    BY DEF DrillInv, CacheSound
  <2>4. CacheSound'
    <3>1. ddCache' \in [DdQueries -> [ver : Nat, stamp : Nat]]
      BY <1>6 DEF NoValue, DrillInv, CacheSound
    <3>. QED  BY <1>2, <1>6, <2>2, <2>3, <3>1 DEF DrillInv, CacheSound, NoValue
  <2>5. ddInv'[a].pc = "drop" /\ ddInv'[a].due = inv.due /\ ddInv'[a] \in InvRecord
    BY <1>1, <2>1
  <2>6. InvSound(ddInv[a])'
    BY <1>1, <1>6, <2>2, <2>3, <2>5 DEF InvSound
  <2>7. ASSUME NEW b \in Annotators PROVE InvSound(ddInv[b])' /\ ddInv'[b] \in InvRecord
    <3>1. CASE b = a
      BY <2>6, <2>5, <3>1
    <3>2. CASE b # a
      <4>1. ddInv'[b] = ddInv[b] /\ InvSound(ddInv[b])
        BY <1>1, <2>1, <3>2
      <4>. QED  BY <1>1, <1>6, <2>2, <2>3, <4>1 DEF InvSound
    <3>. QED  BY <3>1, <3>2
  <2>8. AnnotationsSound'
    BY <1>1, <2>1, <2>7 DEF AnnotationsSound
  <2>. QED  BY <1>3, <2>4, <2>8 DEF DrillInv
<1>7. CASE /\ inv.pc = "drop" /\ ddInv' = [ddInv EXCEPT ![a].pc = "done"] /\ ddIndex' = {}
           /\ ddPast' = [ddPast EXCEPT !.orphans = @ \cup ({ddCache[q].stamp : q \in ddIndex} \ inv.due)]
           /\ UNCHANGED ddCache
  <2>. DEFINE v == [inv EXCEPT !.pc = "done"]
              new == {ddCache[q].stamp : q \in ddIndex} \ inv.due
  <2>1. ddInv' = [ddInv EXCEPT ![a] = v] /\ v \in InvRecord /\ v.pc = "done" /\ v.due = inv.due
    BY <1>1, <1>7 DEF InvRecord
  <2>2. new \subseteq Nat /\ \A q \in ddIndex : ddCache[q].stamp \in new \cup inv.due
    BY DEF DrillInv, CacheSound
  <2>3. ddPast' = [ddPast EXCEPT !.orphans = @ \cup new]
    BY <1>7
  <2>. HIDE DEF v, new
  <2>4. /\ ddPast' \in [stamp : Nat, indexed : SUBSET Nat, orphans : SUBSET Nat]
        /\ ddPast'.stamp = ddPast.stamp /\ ddPast'.indexed = ddPast.indexed
        /\ ddPast'.orphans = ddPast.orphans \cup new
    BY <2>2, <2>3 DEF DrillInv, CacheSound
  <2>5. \A q \in DdQueries : ddCache[q].stamp \in inv.due => ddCache[q].stamp \in ddPast.orphans
    BY <1>1, <1>7 DEF InvSound
  <2>6. CacheSound'
    <3>1. \A q \in DdQueries : ddCache[q].stamp \in ddPast.indexed => ddCache[q].stamp \in ddPast'.orphans
      BY <2>2, <2>4, <2>5 DEF DrillInv, CacheSound
    <3>. QED  BY <1>2, <1>7, <2>4, <3>1 DEF DrillInv, CacheSound
  <2>7. ddInv'[a].pc = "done" /\ ddInv'[a].due = inv.due /\ ddInv'[a] \in InvRecord
    BY <1>1, <2>1
  <2>8. InvSound(ddInv[a])'
    BY <1>1, <1>7, <2>4, <2>5, <2>7 DEF InvSound
  <2>9. ASSUME NEW b \in Annotators PROVE InvSound(ddInv[b])' /\ ddInv'[b] \in InvRecord
    <3>1. CASE b = a
      BY <2>8, <2>7, <3>1
    <3>2. CASE b # a
      <4>1. ddInv'[b] = ddInv[b] /\ InvSound(ddInv[b])
        BY <1>1, <2>1, <3>2
      <4>. QED  BY <1>1, <1>7, <2>4, <4>1 DEF InvSound
    <3>. QED  BY <3>1, <3>2
  <2>10. AnnotationsSound'
    BY <1>1, <2>1, <2>9 DEF AnnotationsSound
  <2>. QED  BY <1>3, <2>6, <2>10 DEF DrillInv
<1>. QED  BY <1>4, <1>5, <1>6, <1>7 DEF Invalidates

\* An expired entry, and an index none of whose entries is left.
LEMMA EntryExpiresKeeps ==
    ASSUME DrillInv, EntryExpires
    PROVE  DrillInv'
<1>1. UNCHANGED <<ddTrace, ddReq, ddInv, ddPast>>
  BY DEF EntryExpires
<1>2. 0 \notin ddPast.indexed
  BY DEF DrillInv, CacheSound
<1>3. /\ ddCache' \in [DdQueries -> [ver : Nat, stamp : Nat]]
      /\ \A q \in DdQueries : ddCache'[q] = ddCache[q] \/ (ddCache'[q] = NoValue /\ ddCache'[q].stamp = 0)
      /\ ddIndex' \subseteq DdQueries
      /\ ddIndex' = ddIndex \/ \A q \in ddIndex : ddCache[q].stamp = 0
  BY DEF EntryExpires, NoValue, DrillInv, CacheSound
<1>4. CacheSound'
  BY <1>1, <1>2, <1>3 DEF DrillInv, CacheSound, NoValue
<1>5. AnnotationsSound'
  BY <1>1, <1>2, <1>3 DEF DrillInv, AnnotationsSound, InvSound
<1>6. RequestsSound'
  BY <1>1 DEF DrillInv, RequestsSound, RequestSound
<1>. QED  BY <1>4, <1>5, <1>6 DEF DrillInv

LEMMA DrillStep == DrillInv /\ [DrillNext]_drillVars => DrillInv'
<1>. SUFFICES ASSUME DrillInv, [DrillNext]_drillVars PROVE DrillInv'
  OBVIOUS
<1>1. CASE UNCHANGED drillVars
  BY <1>1 DEF drillVars, DrillInv, RequestsSound, RequestSound, CacheSound, AnnotationsSound, InvSound
<1>2. CASE \E r \in DdRequests :
             \/ \E q \in DdQueries : RequestArrives(r, q)
             \/ Expands(r) \/ RateChecked(r) \/ CacheGet(r)
             \/ TierRecovers(r, "hot", "warm") \/ TierRecovers(r, "warm", "cold")
             \/ \E athena \in BOOLEAN : ColdRecovers(r, athena)
  <2>1. UNCHANGED <<ddTrace, ddCache, ddIndex, ddInv, ddPast>>
    BY <1>2 DEF RequestArrives, Expands, RateChecked, CacheGet, TierRecovers, ColdRecovers
  <2>. QED  BY <1>2, <2>1, RequestSteps
<1>3. CASE \E r \in DdRequests : ValueSet(r) \/ IndexSet(r)
  BY <1>3, ValueSetKeeps, IndexSetKeeps
<1>4. CASE \E a \in Annotators : Annotates(a) \/ Invalidates(a)
  BY <1>4, AnnotatesKeeps, InvalidatesKeeps
<1>5. CASE EntryExpires
  BY <1>5, EntryExpiresKeeps
<1>6. CASE TierMoves
  <2>1. ddTrace' = [ddTrace EXCEPT !.tier = IF @ = "hot" THEN "warm" ELSE "cold"]
        /\ UNCHANGED <<ddCache, ddIndex, ddReq, ddInv, ddPast>>
    BY <1>6 DEF TierMoves
  <2>2. ddTrace' \in [ver : Nat \ {0}, tier : {"hot", "warm", "cold"}]
    BY <2>1 DEF DrillInv, CacheSound
  <2>. QED  BY <2>1, <2>2 DEF DrillInv, RequestsSound, RequestSound, CacheSound, AnnotationsSound, InvSound
<1>7. CASE DdRedisFlips
  <2>1. UNCHANGED <<ddTrace, ddCache, ddIndex, ddReq, ddInv, ddPast>>
    BY <1>7 DEF DdRedisFlips
  <2>. QED  BY <2>1 DEF DrillInv, RequestsSound, RequestSound, CacheSound, AnnotationsSound, InvSound
<1>. QED  BY <1>1, <1>2, <1>3, <1>4, <1>5, <1>6, <1>7 DEF DrillNext

\* Exactly one event of an ending is an allow or a deny.
LEMMA OneVerdict ==
    ASSUME NEW e \in Endings
    PROVE  Cardinality({i \in 1 .. Len(e) : e[i] \in {"allow", "deny"}}) = 1
<1>. DEFINE v == {i \in 1 .. Len(e) : e[i] \in {"allow", "deny"}}
<1>1. CASE e = <<"allow">> \/ e = <<"deny">>
  <2>1. v = {1}
    BY <1>1
  <2>. QED  BY <2>1, FS_Singleton
<1>2. CASE e = <<"cross_tenant", "deny">>
  <2>1. Len(e) = 2 /\ e[1] = "cross_tenant" /\ e[2] = "deny"
    BY <1>2
  <2>2. v = {2}
    BY <2>1
  <2>. QED  BY <2>2, FS_Singleton
<1>. QED  BY <1>1, <1>2 DEF Endings

\* storage/drill_down.py and trace_viewer/ui.py: for any requests, queries, roles
\* and annotations, whatever Redis refuses and however calls interleave, what was
\* due to a finished invalidation is gone or an orphan of another, and each ended
\* request left its one event.
THEOREM DrillDownSafety == DrillSpec => []DrillDownSafe
<1>1. DrillInv => DrillDownSafe
  <2>. SUFFICES ASSUME DrillInv PROVE DrillDownSafe
    OBVIOUS
  <2>1. InvalidationComplete
    BY DEF DrillInv, AnnotationsSound, InvSound, InvalidationComplete
  <2>2. RequestsAudited
    BY OneVerdict DEF DrillInv, RequestsSound, RequestSound, RequestsAudited
  <2>. QED  BY <2>1, <2>2 DEF DrillDownSafe
<1>. QED  BY <1>1, DrillStart, DrillStep, PTL DEF DrillSpec
-----------------------------------------------------------------------------
(* The trace tree.  What is below a node is the least set closed under        *)
(* children, so every fact about it is a set that is closed; that no span is  *)
(* out of reach of the candidates is the induction over the tree.             *)

TraceOK == ttTrace \in [parent : [TtSpans -> 0 .. TreeSpans], error : SUBSET TtSpans, loop : BOOLEAN]

LEMMA SpanFacts ==
  /\ IsFiniteSet(TtSpans) /\ 0 \notin TtSpans /\ TtSpans \subseteq Nat
  /\ TtSpans \subseteq 0 .. TreeSpans /\ 0 .. TreeSpans = TtSpans \cup {0} /\ IsFiniteSet(0 .. TreeSpans)
BY TreeAssumption, FS_Interval DEF TtSpans

\* A set that holds the first spans and the children of its own holds all that is reached.
LEMMA ReachableLeast ==
  ASSUME NEW F, NEW C \in SUBSET TtSpans, F \subseteq C, \A c \in TtSpans : ttTrace.parent[c] \in C => c \in C
  PROVE  Reachable(F) \subseteq C
BY DEF Reachable

LEMMA UnderClosed ==
  ASSUME NEW n \in TtSpans
  PROVE  /\ Under(n) \subseteq TtSpans /\ n \in Under(n) /\ IsFiniteSet(Under(n))
         /\ \A s \in TtSpans : ttTrace.parent[s] \in Under(n) => s \in Under(n)
<1>1. Under(n) \subseteq TtSpans /\ n \in Under(n)
  BY DEF Under, Reachable
<1>2. ASSUME NEW s \in TtSpans, ttTrace.parent[s] \in Under(n) PROVE s \in Under(n)
  <2>1. ASSUME NEW C \in SUBSET TtSpans, {n} \subseteq C, \A c \in TtSpans : ttTrace.parent[c] \in C => c \in C
        PROVE  s \in C
    <3>1. ttTrace.parent[s] \in C
      BY <1>2, <2>1 DEF Under, Reachable
    <3>. QED  BY <2>1, <3>1
  <2>. QED  BY <2>1 DEF Under, Reachable
<1>. QED  BY <1>1, <1>2, SpanFacts, FS_Subset

\* Every span below a node but the node itself has its parent there.
LEMMA UnderParent ==
  ASSUME NEW n \in TtSpans, NEW s \in Under(n), s # n
  PROVE  ttTrace.parent[s] \in Under(n)
<1>. DEFINE C == {x \in Under(n) : x = n \/ ttTrace.parent[x] \in Under(n)}
<1>1. C \in SUBSET TtSpans /\ {n} \subseteq C
  BY UnderClosed
<1>2. \A c \in TtSpans : ttTrace.parent[c] \in C => c \in C
  BY UnderClosed
<1>3. Under(n) \subseteq C
  <2>. HIDE DEF C
  <2>. QED  BY <1>1, <1>2, ReachableLeast DEF Under
<1>. QED  BY <1>3

LEMMA UnderTransitive ==
  ASSUME NEW n \in TtSpans, NEW m \in Under(n)
  PROVE  Under(m) \subseteq Under(n)
<1>1. Under(n) \in SUBSET TtSpans /\ {m} \subseteq Under(n)
  BY UnderClosed
<1>2. \A c \in TtSpans : ttTrace.parent[c] \in Under(n) => c \in Under(n)
  BY UnderClosed
<1>3. Reachable({m}) \subseteq Under(n)
  BY <1>1, <1>2, ReachableLeast
<1>. QED  BY <1>3 DEF Under

\* Two nodes above the same span are above one another.
LEMMA UnderLinear ==
  ASSUME NEW a \in TtSpans, NEW b \in TtSpans, NEW s \in Under(a), s \in Under(b)
  PROVE  a \in Under(b) \/ b \in Under(a)
<1>. DEFINE C == {x \in Under(a) : x \in Under(b) => a \in Under(b) \/ b \in Under(a)}
<1>1. C \in SUBSET TtSpans /\ {a} \subseteq C
  BY UnderClosed
<1>2. ASSUME NEW c \in TtSpans, ttTrace.parent[c] \in C PROVE c \in C
  <2>1. c \in Under(a)
    BY <1>2, UnderClosed
  <2>2. ASSUME c \in Under(b) PROVE a \in Under(b) \/ b \in Under(a)
    <3>1. CASE c = b
      BY <2>1, <3>1
    <3>2. CASE c # b
      <4>1. ttTrace.parent[c] \in Under(b)
        BY <2>2, <3>2, UnderParent
      <4>. QED  BY <1>2, <4>1
    <3>. QED  BY <3>1, <3>2
  <2>. QED  BY <2>1, <2>2
<1>3. Under(a) \subseteq C
  <2>. HIDE DEF C
  <2>. QED  BY <1>1, <1>2, ReachableLeast DEF Under
<1>. QED  BY <1>3

\* Induction from the candidates down.
LEMMA TreeInduction ==
  ASSUME TraceOK, ~Cyclic, NEW C \in SUBSET TtSpans,
         \A s \in TtSpans : ttTrace.parent[s] \in C \cup {0} => s \in C
  PROVE  C = TtSpans
<1>1. Candidates \subseteq C
  BY DEF Candidates
<1>2. Reachable(Candidates) \subseteq C
  BY <1>1, ReachableLeast
<1>. QED  BY <1>2 DEF Cyclic

\* No two spans are below each other, and none is below itself.
LEMMA UnderAntisymmetric ==
  ASSUME TraceOK, ~Cyclic, NEW s \in TtSpans, NEW x \in TtSpans, s \in Under(x), x \in Under(s)
  PROVE  x = s
<1>. DEFINE C == {c \in TtSpans : \A y \in TtSpans : c \in Under(y) /\ y \in Under(c) => y = c}
<1>1. ASSUME NEW c \in TtSpans, ttTrace.parent[c] \in C \cup {0} PROVE c \in C
  <2>. SUFFICES ASSUME NEW y \in TtSpans, c \in Under(y), y \in Under(c), y # c PROVE FALSE
    OBVIOUS
  <2>. DEFINE p == ttTrace.parent[c]
  <2>1. p \in Under(y)
    BY UnderParent
  <2>2. p \in TtSpans /\ p # 0
    BY <2>1, UnderClosed, SpanFacts
  <2>3. p \in C
    BY <1>1, <2>2
  <2>. HIDE DEF p
  <2>4. p \in Under(p) /\ c \in Under(p)
    BY <2>2, UnderClosed DEF p
  <2>5. y \in Under(p)
    BY <2>2, <2>4, UnderTransitive
  <2>6. y = p
    BY <2>1, <2>3, <2>5
  <2>7. c = p
    BY <2>3, <2>4, <2>6
  <2>. QED  BY <2>6, <2>7
<1>2. C = TtSpans
  <2>1. C \in SUBSET TtSpans
    OBVIOUS
  <2>. HIDE DEF C
  <2>. QED  BY <1>1, <2>1, TreeInduction
<1>. QED  BY <1>2

LEMMA NotUnderItself ==
  ASSUME TraceOK, ~Cyclic, NEW s \in TtSpans
  PROVE  ttTrace.parent[s] \notin Under(s) /\ ttTrace.parent[s] # s
<1>. DEFINE C == {c \in TtSpans : ttTrace.parent[c] # c}
<1>1. \A c \in TtSpans : ttTrace.parent[c] \in C \cup {0} => c \in C
  BY SpanFacts
<1>2. C = TtSpans
  <2>1. C \in SUBSET TtSpans
    OBVIOUS
  <2>. HIDE DEF C
  <2>. QED  BY <1>1, <2>1, TreeInduction
<1>3. ttTrace.parent[s] # s
  BY <1>2
<1>4. ASSUME ttTrace.parent[s] \in Under(s) PROVE FALSE
  <2>1. ttTrace.parent[s] \in TtSpans
    BY <1>4, UnderClosed
  <2>2. s \in Under(ttTrace.parent[s])
    BY <2>1, UnderClosed
  <2>. QED  BY <1>3, <1>4, <2>1, <2>2, UnderAntisymmetric
<1>. QED  BY <1>3, <1>4

(* The tree that build() makes, and what compress() makes of it. *)

BuiltRoot == IF Cardinality(Candidates) = 1 /\ ttTrace.loop THEN CHOOSE s \in Candidates : TRUE ELSE 0
Built == [NoTree EXCEPT !.nodes = TtSpans, !.root = BuiltRoot]
New == Replaced(Built)
Shown == TtSpans \ UNION {Under(n) \ {n} : n \in New}
NoEvents == [s \in 0 .. TreeSpans |-> {}]

\* The tree after the first pass, with what is awaited, visible and embedded in it.
TreeWith(nodes, pending, events) ==
  [root |-> BuiltRoot, nodes |-> nodes, summary |-> New,
   hides |-> [s \in TtSpans |-> IF s \in New THEN Under(s) \ {s} ELSE {}],
   count |-> [s \in TtSpans |-> IF s \in New THEN Cardinality(Under(s)) ELSE 0],
   pending |-> pending, events |-> events]

LEMMA RootTyped == BuiltRoot \in 0 .. TreeSpans
<1>1. CASE Cardinality(Candidates) = 1
  <2>1. Candidates \subseteq TtSpans
    BY DEF Candidates
  <2>2. Candidates # {}
    BY <1>1, FS_EmptySet
  <2>3. (CHOOSE s \in Candidates : TRUE) \in Candidates
    BY <2>2
  <2>. QED  BY <2>1, <2>3, SpanFacts DEF BuiltRoot
<1>. QED  BY <1>1, SpanFacts DEF BuiltRoot

LEMMA BuiltFields ==
  /\ Built.root = BuiltRoot /\ Built.nodes = TtSpans /\ Built.summary = {} /\ Built.pending = {}
  /\ Built.hides = [s \in TtSpans |-> {}] /\ Built.count = [s \in TtSpans |-> 0] /\ Built.events = NoEvents
BY DEF Built, NoTree, NoEvents

\* What should be compressed in the first pass.
LEMMA FirstPass ==
  ASSUME NEW n \in TtSpans
  PROVE  /\ Subtree(Built, n) = Under(n)
         /\ HasError(Built, n) <=> Under(n) \cap ttTrace.error # {}
         /\ Protected(Built, n) <=> \E a \in TtSpans : n \in Under(a) /\ a # BuiltRoot /\ Under(a) \cap ttTrace.error # {}
         /\ ShouldCompress(Built, n) <=> n # BuiltRoot /\ Cardinality(Under(n)) > MaxSubtreeSize /\ ~Protected(Built, n)
<1>1. \A a \in TtSpans : Subtree(Built, a) = Under(a)
  BY BuiltFields, UnderClosed DEF Subtree
<1>2. \A a \in TtSpans : HasError(Built, a) <=> Under(a) \cap ttTrace.error # {}
  BY <1>1 DEF HasError
<1>3. Protected(Built, n) <=> \E a \in TtSpans : n \in Under(a) /\ a # BuiltRoot /\ Under(a) \cap ttTrace.error # {}
  BY <1>2, BuiltFields DEF Protected
<1>4. ShouldCompress(Built, n) <=> n # BuiltRoot /\ Cardinality(Under(n)) > MaxSubtreeSize /\ ~Protected(Built, n)
  BY <1>1, BuiltFields DEF ShouldCompress
<1>. QED  BY <1>1, <1>2, <1>3, <1>4

\* Summaries hold no error and stand apart.
LEMMA NewFacts ==
  ASSUME NEW n \in New
  PROVE  /\ n \in TtSpans /\ n # BuiltRoot /\ Under(n) \cap ttTrace.error = {}
         /\ ShouldCompress(Built, n)
         /\ \A m \in New : n \in Under(m) => n = m
         /\ \A m \in New : n # m => Under(n) \cap Under(m) = {}
<1>1. /\ \A m \in New : m \in TtSpans /\ ShouldCompress(Built, m)
      /\ \A m \in New : \A a \in TtSpans : m \in Under(a) /\ a # m => ~ShouldCompress(Built, a)
  BY BuiltFields DEF New, Replaced
<1>2. n # BuiltRoot /\ ~Protected(Built, n)
  BY <1>1, FirstPass
<1>3. Under(n) \cap ttTrace.error = {}
  BY <1>1, <1>2, FirstPass, UnderClosed
<1>4. \A m, k \in New : m \in Under(k) => m = k
  BY <1>1
<1>5. ASSUME NEW m \in New, n # m, NEW x \in Under(n) \cap Under(m) PROVE FALSE
  <2>1. n \in Under(m) \/ m \in Under(n)
    BY <1>1, <1>5, UnderLinear
  <2>. QED  BY <1>4, <1>5, <2>1
<1>. QED  BY <1>1, <1>2, <1>3, <1>4, <1>5

\* Whatever is large enough is in a summary.
LEMMA NewAbove ==
  ASSUME TraceOK, ~Cyclic, NEW s \in TtSpans, ShouldCompress(Built, s)
  PROVE  \E b \in New : s \in Under(b)
<1>. DEFINE Above(c) == \E b \in New : c \in Under(b)
            C == {c \in TtSpans : \A a \in TtSpans : c \in Under(a) /\ ShouldCompress(Built, a) => Above(c)}
<1>1. ASSUME NEW c \in TtSpans, ttTrace.parent[c] \in C \cup {0} PROVE c \in C
  <2>1. ASSUME NEW a \in TtSpans, c \in Under(a), ShouldCompress(Built, a), a # c PROVE Above(c)
    <3>1. ttTrace.parent[c] \in Under(a)
      BY <2>1, UnderParent
    <3>2. ttTrace.parent[c] \in C
      BY <1>1, <2>1, <3>1, UnderClosed, SpanFacts
    <3>3. PICK b \in New : ttTrace.parent[c] \in Under(b)
      BY <2>1, <3>1, <3>2
    <3>. QED  BY <3>3, NewFacts, UnderClosed
  <2>2. ASSUME ShouldCompress(Built, c) PROVE Above(c)
    <3>1. CASE c \in New
      BY <3>1, UnderClosed
    <3>2. CASE c \notin New
      <4>1. \E a \in TtSpans : c \in Under(a) /\ a # c /\ ShouldCompress(Built, a)
        BY <2>2, <3>2, BuiltFields DEF New, Replaced
      <4>. QED  BY <2>1, <4>1
    <3>. QED  BY <3>1, <3>2
  <2>. QED  BY <2>1, <2>2
<1>2. C = TtSpans
  <2>1. C \in SUBSET TtSpans
    OBVIOUS
  <2>. HIDE DEF C
  <2>. QED  BY <1>1, <2>1, TreeInduction
<1>. QED  BY <1>2, UnderClosed

\* What is shown: no span below a summary but the summary itself.
LEMMA ShownFacts ==
  ASSUME TraceOK, ~Cyclic
  PROVE  /\ Shown \subseteq TtSpans /\ New \subseteq Shown /\ IsFiniteSet(Shown)
         /\ \A s \in TtSpans : s \in Shown <=> \A n \in New : s \in Under(n) => s = n
         /\ \A s \in Shown : ttTrace.parent[s] \in Shown \cup {0}
         /\ ttTrace.error \subseteq Shown
<1>1. Shown \subseteq TtSpans /\ IsFiniteSet(Shown)
  BY SpanFacts, FS_Subset DEF Shown
<1>2. \A s \in TtSpans : s \in Shown <=> \A n \in New : s \in Under(n) => s = n
  BY DEF Shown
<1>3. New \subseteq Shown
  BY <1>2, NewFacts
<1>4. ASSUME NEW s \in Shown, ttTrace.parent[s] \notin Shown \cup {0} PROVE FALSE
  <2>. DEFINE p == ttTrace.parent[s]
  <2>1. p \in TtSpans /\ s \in TtSpans
    BY <1>1, <1>4, SpanFacts DEF TraceOK
  <2>2. PICK n \in New : p \in Under(n) /\ p # n
    BY <1>2, <1>4, <2>1
  <2>3. n \in TtSpans /\ s \in Under(n)
    BY <2>1, <2>2, NewFacts, UnderClosed
  <2>4. s = n
    BY <1>2, <2>1, <2>2, <2>3
  <2>. QED  BY <2>2, <2>3, <2>4, NotUnderItself
<1>5. ttTrace.error \subseteq Shown
  <2>1. ttTrace.error \subseteq TtSpans
    BY DEF TraceOK
  <2>. QED  BY <1>2, <2>1, NewFacts
<1>. QED  BY <1>1, <1>2, <1>3, <1>4, <1>5

\* compress() of the built tree.
LEMMA CompressBuilt == Compressed(Built) = TreeWith(Shown, New, NoEvents)
<1>1. \A s \in TtSpans : Subtree(Built, s) = Under(s)
  BY FirstPass
<1>2. Compressed(Built) = [Built EXCEPT !.nodes = Shown, !.summary = New, !.pending = New,
         !.hides = [s \in TtSpans |-> IF s \in New THEN Subtree(Built, s) \ {s} ELSE Built.hides[s]],
         !.count = [s \in TtSpans |-> IF s \in New THEN Cardinality(Subtree(Built, s)) ELSE Built.count[s]]]
  <2>1. Built.nodes \ UNION {Under(n) \ {n} : n \in Replaced(Built)} = Shown
    BY BuiltFields DEF Shown, New
  <2>2. Built.summary \cup Replaced(Built) = New /\ Built.pending \cup Replaced(Built) = New
    BY BuiltFields DEF New
  <2>. QED  BY <2>1, <2>2 DEF Compressed, New, Built, NoTree
<1>3. [s \in TtSpans |-> IF s \in New THEN Subtree(Built, s) \ {s} ELSE Built.hides[s]]
        = [s \in TtSpans |-> IF s \in New THEN Under(s) \ {s} ELSE {}]
  BY <1>1, BuiltFields
<1>4. [s \in TtSpans |-> IF s \in New THEN Cardinality(Subtree(Built, s)) ELSE Built.count[s]]
        = [s \in TtSpans |-> IF s \in New THEN Cardinality(Under(s)) ELSE 0]
  BY <1>1, BuiltFields
<1>. QED  BY <1>2, <1>3, <1>4 DEF TreeWith, Built, NoTree, NoEvents

\* After a pass what is large is protected: by an error that is shown, below a node
\* that is shown.
LEMMA LargeProtected ==
  ASSUME TraceOK, ~Cyclic, NEW P, NEW E, NEW n \in Shown, n # BuiltRoot,
         Cardinality(Subtree(TreeWith(Shown, P, E), n)) > MaxSubtreeSize
  PROVE  Protected(TreeWith(Shown, P, E), n)
<1>. DEFINE t == TreeWith(Shown, P, E)
<1>0. t.nodes = Shown /\ t.root = BuiltRoot
  BY DEF TreeWith
<1>1. n \in TtSpans /\ \A a : Subtree(t, a) = Under(a) \cap Shown
  BY <1>0, ShownFacts DEF Subtree
<1>. HIDE DEF t
<1>2. n \notin New
  <2>1. ASSUME n \in New PROVE FALSE
    <3>1. Under(n) \cap Shown = {n}
      BY <1>1, <2>1, ShownFacts, UnderClosed
    <3>2. Cardinality(Subtree(t, n)) = 1
      BY <1>1, <3>1, FS_Singleton
    <3>. QED  BY <3>2, TreeAssumption DEF t
  <2>. QED  BY <2>1
<1>3. Cardinality(Under(n)) > MaxSubtreeSize
  <2>1. IsFiniteSet(Under(n)) /\ Under(n) \cap Shown \in SUBSET Under(n)
    BY <1>1, UnderClosed
  <2>2. Cardinality(Under(n) \cap Shown) <= Cardinality(Under(n)) /\ IsFiniteSet(Under(n) \cap Shown)
    BY <2>1, FS_Subset
  <2>3. Cardinality(Under(n)) \in Nat /\ Cardinality(Under(n) \cap Shown) \in Nat
    BY <2>1, <2>2, FS_CardinalityType
  <2>4. Cardinality(Under(n) \cap Shown) > MaxSubtreeSize
    BY <1>1 DEF t
  <2>. QED  BY <2>2, <2>3, <2>4, TreeAssumption
<1>4. ~ShouldCompress(Built, n)
  <2>1. ASSUME ShouldCompress(Built, n) PROVE FALSE
    <3>1. PICK b \in New : n \in Under(b)
      BY <1>1, <2>1, NewAbove
    <3>. QED  BY <1>1, <1>2, <3>1, ShownFacts
  <2>. QED  BY <2>1
<1>5. PICK a \in TtSpans : n \in Under(a) /\ a # BuiltRoot /\ Under(a) \cap ttTrace.error # {}
  BY <1>1, <1>3, <1>4, FirstPass
<1>6. a \in Shown
  <2>1. ASSUME NEW m \in New, a \in Under(m) PROVE FALSE
    <3>1. m \in TtSpans /\ Under(a) \subseteq Under(m)
      BY <2>1, NewFacts, UnderTransitive
    <3>. QED  BY <1>5, <3>1, NewFacts
  <2>. QED  BY <2>1, ShownFacts
<1>7. HasError(t, a)
  BY <1>1, <1>5, ShownFacts DEF HasError
<1>. QED  BY <1>0, <1>5, <1>6, <1>7 DEF Protected, t

\* A second pass changes nothing.
LEMMA CompressAgain ==
  ASSUME TraceOK, ~Cyclic, NEW P, NEW E
  PROVE  Compressed(TreeWith(Shown, P, E)) = TreeWith(Shown, P, E)
<1>. DEFINE t == TreeWith(Shown, P, E)
<1>0. /\ t.nodes = Shown /\ t.root = BuiltRoot /\ t.summary = New /\ t.pending = P
      /\ t.hides = [s \in TtSpans |-> IF s \in New THEN Under(s) \ {s} ELSE {}]
      /\ t.count = [s \in TtSpans |-> IF s \in New THEN Cardinality(Under(s)) ELSE 0]
  BY DEF TreeWith
<1>1. Replaced(t) = {}
  <2>1. ASSUME NEW n \in Shown, ShouldCompress(t, n) PROVE FALSE
    <3>1. n # BuiltRoot /\ Cardinality(Subtree(t, n)) > MaxSubtreeSize /\ ~Protected(t, n)
      BY <1>0, <2>1 DEF ShouldCompress
    <3>. QED  BY <3>1, LargeProtected
  <2>. HIDE DEF t
  <2>. QED  BY <1>0, <2>1 DEF Replaced
<1>2. Compressed(t) = [t EXCEPT !.nodes = t.nodes, !.summary = t.summary, !.pending = t.pending,
                         !.hides = [s \in TtSpans |-> t.hides[s]], !.count = [s \in TtSpans |-> t.count[s]]]
  <2>. HIDE DEF t
  <2>1. UNION {Under(n) \ {n} : n \in Replaced(t)} = {}
    BY <1>1
  <2>2. \A s : s \notin Replaced(t)
    BY <1>1
  <2>3. t.nodes \ UNION {Under(n) \ {n} : n \in Replaced(t)} = t.nodes
        /\ t.summary \cup Replaced(t) = t.summary /\ t.pending \cup Replaced(t) = t.pending
    BY <1>1, <2>1
  <2>4. [s \in TtSpans |-> IF s \in Replaced(t) THEN Subtree(t, s) \ {s} ELSE t.hides[s]] = [s \in TtSpans |-> t.hides[s]]
        /\ [s \in TtSpans |-> IF s \in Replaced(t) THEN Cardinality(Subtree(t, s)) ELSE t.count[s]] = [s \in TtSpans |-> t.count[s]]
    BY <2>2
  <2>. QED  BY <2>3, <2>4 DEF Compressed
<1>3. [s \in TtSpans |-> t.hides[s]] = t.hides /\ [s \in TtSpans |-> t.count[s]] = t.count
  <2>. HIDE DEF t
  <2>. QED  BY <1>0
<1>. QED  BY <1>2, <1>3 DEF TreeWith

(* Embedding: groups of leaves. *)

KidsOf(n) == {s \in Shown : ttTrace.parent[s] = n}
Into == {n \in Shown : /\ n # BuiltRoot /\ KidsOf(n) # {} /\ Cardinality(KidsOf(n)) <= MaxEmbeddedSize
                       /\ \A s \in KidsOf(n) : KidsOf(s) = {}}
Gone == UNION {KidsOf(n) : n \in Into}
Folded == [s \in 0 .. TreeSpans |-> IF s \in Into THEN KidsOf(s) ELSE {}]

\* A span is folded into its parent, which has no other place to go.
LEMMA GoneFacts ==
  /\ Gone \subseteq Shown /\ Into \subseteq Shown /\ Into \cap Gone = {}
  /\ \A s \in Shown : s \in Gone <=> ttTrace.parent[s] \in Into
  /\ \A s \in Shown : ttTrace.parent[s] \notin Gone
<1>1. Gone \subseteq Shown /\ Into \subseteq Shown
  BY DEF Gone, Into, KidsOf
<1>2. \A s \in Gone : KidsOf(s) = {}
  BY DEF Gone, Into
<1>3. Into \cap Gone = {}
  BY <1>2 DEF Into
<1>4. \A s \in Shown : s \in Gone <=> ttTrace.parent[s] \in Into
  BY DEF Gone, KidsOf
<1>5. \A s \in Shown : ttTrace.parent[s] \notin Gone
  BY <1>2 DEF KidsOf
<1>. QED  BY <1>1, <1>3, <1>4, <1>5

LEMMA EmbedShown ==
  ASSUME TraceOK, ~Cyclic, NEW P
  PROVE  Embedded(TreeWith(Shown, P, NoEvents)) = TreeWith(Shown \ Gone, P, Folded)
<1>. DEFINE t == TreeWith(Shown, P, NoEvents)
            into == {n \in t.nodes : Embeddable(t, n)}
            gone == UNION {Kids(t, n) : n \in into}
<1>0. t.nodes = Shown /\ t.root = BuiltRoot /\ t.events = NoEvents
  BY DEF TreeWith
<1>1. \A n : Kids(t, n) = KidsOf(n)
  <2>. HIDE DEF t
  <2>. QED  BY <1>0 DEF Kids, KidsOf
<1>2. into = Into
  <2>. HIDE DEF t
  <2>. QED  BY <1>0, <1>1 DEF Embeddable, Into
<1>3. gone = Gone
  <2>. HIDE DEF t, into
  <2>. QED  BY <1>1, <1>2 DEF Gone
<1>4. Embedded(t) = [t EXCEPT !.nodes = t.nodes \ gone,
                       !.events = [s \in 0 .. TreeSpans |->
                                     CASE s \in into /\ s \notin gone -> t.events[s] \cup Kids(t, s)
                                       [] s \in gone -> {}
                                       [] OTHER -> t.events[s]]]
  <2>. HIDE DEF t
  <2>. QED  BY DEF Embedded
<1>5. [s \in 0 .. TreeSpans |-> CASE s \in into /\ s \notin gone -> t.events[s] \cup Kids(t, s)
                                  [] s \in gone -> {}
                                  [] OTHER -> t.events[s]] = Folded
  <2>. HIDE DEF t, into, gone
  <2>1. ASSUME NEW s \in 0 .. TreeSpans
        PROVE  (CASE s \in into /\ s \notin gone -> t.events[s] \cup Kids(t, s)
                  [] s \in gone -> {}
                  [] OTHER -> t.events[s]) = (IF s \in Into THEN KidsOf(s) ELSE {})
    <3>1. t.events[s] = {} /\ Kids(t, s) = KidsOf(s)
      BY <1>0, <1>1 DEF NoEvents
    <3>. QED  BY <1>2, <1>3, <3>1, GoneFacts
  <2>. QED  BY <2>1 DEF Folded
<1>6. t.nodes \ gone = Shown \ Gone
  BY <1>0, <1>3
<1>7. Embedded(t) = [t EXCEPT !.nodes = Shown \ Gone, !.events = Folded]
  <2>. HIDE DEF t, into, gone
  <2>. QED  BY <1>4, <1>5, <1>6
<1>. QED  BY <1>7 DEF TreeWith

\* The viewer finds every span that was folded.
LEMMA ExpandFolded ==
  ASSUME TraceOK, ~Cyclic
  PROVE  (Shown \ Gone) \cup UNION {Folded[s] : s \in Shown \ Gone} = Shown
<1>0. Shown \subseteq 0 .. TreeSpans
  BY ShownFacts, SpanFacts
<1>1. \A s \in Shown : Folded[s] = IF s \in Into THEN KidsOf(s) ELSE {}
  BY <1>0 DEF Folded
<1>2. \A s \in Shown \ Gone : Folded[s] \subseteq Shown
  BY <1>1 DEF KidsOf
<1>3. ASSUME NEW x \in Gone PROVE \E s \in Shown \ Gone : x \in Folded[s]
  <2>1. PICK n \in Into : x \in KidsOf(n)
    BY DEF Gone
  <2>. QED  BY <1>1, <2>1, GoneFacts
<1>. QED  BY <1>2, <1>3, GoneFacts

(* Every stored span is somewhere, once. *)

LEMMA AtMostOne ==
  ASSUME NEW S, NEW a, S \subseteq {a}
  PROVE  Cardinality(S) = IF a \in S THEN 1 ELSE 0
<1>1. CASE a \in S
  <2>1. S = {a}
    BY <1>1
  <2>. QED  BY <1>1, <2>1, FS_Singleton
<1>2. CASE a \notin S
  <2>1. S = {}
    BY <1>2
  <2>. QED  BY <1>2, <2>1, FS_EmptySet
<1>. QED  BY <1>1, <1>2

\* A span is hidden in one summary, or shown.
LEMMA HiddenOnce ==
  ASSUME TraceOK, ~Cyclic, NEW s \in TtSpans
  PROVE  Cardinality({n \in TtSpans : n \in New /\ s \in Under(n) \ {n}}) = IF s \in Shown THEN 0 ELSE 1
<1>. DEFINE S == {n \in TtSpans : n \in New /\ s \in Under(n) \ {n}}
<1>1. CASE s \in Shown
  <2>1. S = {}
    BY <1>1, ShownFacts
  <2>. QED  BY <1>1, <2>1, FS_EmptySet
<1>2. CASE s \notin Shown
  <2>1. PICK n \in New : s \in Under(n) /\ s # n
    BY <1>2, ShownFacts
  <2>2. \A m \in New : s \in Under(m) => m = n
    BY <2>1, NewFacts
  <2>3. S = {n}
    BY <2>1, <2>2, NewFacts
  <2>. QED  BY <1>2, <2>3, FS_Singleton
<1>. QED  BY <1>1, <1>2

\* The three places, for the tree with or without its leaves folded.
Faithful(t) ==
  /\ \A s \in TtSpans :
       Cardinality({n \in TtSpans : s \in t.hides[n]})
         + Cardinality({n \in 0 .. TreeSpans : s \in t.events[n]})
         + (IF s \in t.nodes THEN 1 ELSE 0) = 1
  /\ \A n \in t.summary : t.count[n] = Cardinality(t.hides[n]) + 1
  /\ \A n \in t.nodes : ttTrace.parent[n] \in t.nodes \cup {0}
  /\ \A n \in TtSpans : t.events[n] # {} => n \in t.nodes
  /\ \A n \in t.summary : (t.hides[n] \cup {n}) \cap ttTrace.error = {}
  /\ t.root \in 0 .. TreeSpans /\ t.nodes \subseteq TtSpans /\ t.pending \subseteq t.summary

LEMMA BuiltFaithful == ASSUME TraceOK PROVE Faithful(Built)
<1>1. ASSUME NEW s \in TtSpans
      PROVE  /\ Cardinality({n \in TtSpans : s \in Built.hides[n]}) = 0
             /\ Cardinality({n \in 0 .. TreeSpans : s \in Built.events[n]}) = 0
  <2>1. {n \in TtSpans : s \in Built.hides[n]} = {} /\ {n \in 0 .. TreeSpans : s \in Built.events[n]} = {}
    BY BuiltFields DEF NoEvents
  <2>. QED  BY <2>1, FS_EmptySet
<1>2. \A n \in TtSpans : ttTrace.parent[n] \in TtSpans \cup {0}
  BY SpanFacts DEF TraceOK
<1>3. \A n \in TtSpans : Built.events[n] = {}
  BY BuiltFields, SpanFacts DEF NoEvents
<1>. QED  BY <1>1, <1>2, <1>3, BuiltFields, RootTyped DEF Faithful

\* What every tree after the first pass has in common.
LEMMA SummariesFaithful ==
  ASSUME TraceOK, ~Cyclic, NEW n \in New
  PROVE  /\ Cardinality(Under(n)) = Cardinality(Under(n) \ {n}) + 1
         /\ ((Under(n) \ {n}) \cup {n}) \cap ttTrace.error = {}
<1>1. n \in Under(n) /\ IsFiniteSet(Under(n)) /\ Under(n) \cap ttTrace.error = {}
  BY NewFacts, UnderClosed
<1>2. Cardinality(Under(n) \ {n}) = Cardinality(Under(n)) - 1 /\ Cardinality(Under(n)) \in Nat
  BY <1>1, FS_RemoveElement, FS_CardinalityType
<1>. QED  BY <1>1, <1>2

LEMMA WithFaithful ==
  ASSUME TraceOK, ~Cyclic, NEW P \in SUBSET New,
         NEW N \in SUBSET Shown, NEW E,
         \A s \in TtSpans : Cardinality({n \in 0 .. TreeSpans : s \in E[n]}) = IF s \in Shown \ N THEN 1 ELSE 0,
         \A n \in N : ttTrace.parent[n] \in N \cup {0},
         \A n \in TtSpans : E[n] # {} => n \in N
  PROVE  Faithful(TreeWith(N, P, E))
<1>. DEFINE t == TreeWith(N, P, E)
<1>0. /\ t.nodes = N /\ t.root = BuiltRoot /\ t.summary = New /\ t.pending = P /\ t.events = E
      /\ \A s \in TtSpans : t.hides[s] = IF s \in New THEN Under(s) \ {s} ELSE {}
      /\ \A s \in TtSpans : t.count[s] = IF s \in New THEN Cardinality(Under(s)) ELSE 0
  BY DEF TreeWith
<1>. HIDE DEF t
<1>1. ASSUME NEW s \in TtSpans
      PROVE  Cardinality({n \in TtSpans : s \in t.hides[n]})
               + Cardinality({n \in 0 .. TreeSpans : s \in t.events[n]})
               + (IF s \in t.nodes THEN 1 ELSE 0) = 1
  <2>1. {n \in TtSpans : s \in t.hides[n]} = {n \in TtSpans : n \in New /\ s \in Under(n) \ {n}}
    BY <1>0
  <2>2. Cardinality({n \in TtSpans : s \in t.hides[n]}) = IF s \in Shown THEN 0 ELSE 1
    BY <2>1, HiddenOnce
  <2>3. Cardinality({n \in 0 .. TreeSpans : s \in t.events[n]}) = IF s \in Shown \ N THEN 1 ELSE 0
    BY <1>0
  <2>. QED  BY <1>0, <2>2, <2>3
<1>2. \A n \in New : n \in TtSpans
  BY NewFacts
<1>3. ASSUME NEW n \in New
      PROVE  t.count[n] = Cardinality(t.hides[n]) + 1 /\ (t.hides[n] \cup {n}) \cap ttTrace.error = {}
  <2>1. t.hides[n] = Under(n) \ {n} /\ t.count[n] = Cardinality(Under(n))
    BY <1>0, <1>2
  <2>. QED  BY <2>1, SummariesFaithful
<1>4. N \subseteq TtSpans
  BY ShownFacts
<1>5. Faithful(t)
  BY <1>0, <1>1, <1>3, <1>4, RootTyped DEF Faithful
<1>. QED  BY <1>5 DEF t

LEMMA ShownFaithful ==
  ASSUME TraceOK, ~Cyclic, NEW P \in SUBSET New
  PROVE  Faithful(TreeWith(Shown, P, NoEvents))
<1>1. ASSUME NEW s \in TtSpans
      PROVE  Cardinality({n \in 0 .. TreeSpans : s \in NoEvents[n]}) = IF s \in Shown \ Shown THEN 1 ELSE 0
  <2>1. {n \in 0 .. TreeSpans : s \in NoEvents[n]} = {}
    BY DEF NoEvents
  <2>. QED  BY <2>1, FS_EmptySet
<1>2. \A n \in TtSpans : NoEvents[n] # {} => n \in Shown
  BY SpanFacts DEF NoEvents
<1>3. Shown \in SUBSET Shown /\ \A n \in Shown : ttTrace.parent[n] \in Shown \cup {0}
  BY ShownFacts
<1>. QED  BY <1>1, <1>2, <1>3, WithFaithful

LEMMA FoldedFaithful ==
  ASSUME TraceOK, ~Cyclic, NEW P \in SUBSET New
  PROVE  Faithful(TreeWith(Shown \ Gone, P, Folded))
<1>. DEFINE N == Shown \ Gone
<1>0. \A n \in 0 .. TreeSpans : Folded[n] = IF n \in Into THEN KidsOf(n) ELSE {}
  BY DEF Folded
<1>1. ASSUME NEW s \in TtSpans
      PROVE  Cardinality({n \in 0 .. TreeSpans : s \in Folded[n]}) = IF s \in Shown \ N THEN 1 ELSE 0
  <2>. DEFINE S == {n \in 0 .. TreeSpans : s \in Folded[n]}
  <2>1. \A n \in S : n = ttTrace.parent[s] /\ n \in Into /\ s \in Shown
    BY <1>0 DEF KidsOf
  <2>2. S \subseteq {ttTrace.parent[s]}
    BY <2>1
  <2>3. ttTrace.parent[s] \in S <=> s \in Gone
    <3>1. ASSUME s \in Gone PROVE ttTrace.parent[s] \in S
      <4>1. s \in Shown /\ ttTrace.parent[s] \in Into /\ ttTrace.parent[s] \in 0 .. TreeSpans
        BY <3>1, GoneFacts DEF TraceOK
      <4>. QED  BY <1>0, <4>1 DEF KidsOf
    <3>2. ASSUME ttTrace.parent[s] \in S PROVE s \in Gone
      BY <2>1, <3>2, GoneFacts
    <3>. QED  BY <3>1, <3>2
  <2>. HIDE DEF S
  <2>4. Cardinality(S) = IF ttTrace.parent[s] \in S THEN 1 ELSE 0
    BY <2>2, AtMostOne
  <2>5. s \in Shown \ N <=> s \in Gone
    BY GoneFacts
  <2>6. Cardinality(S) = IF s \in Shown \ N THEN 1 ELSE 0
    BY <2>3, <2>4, <2>5
  <2>. QED  BY <2>6 DEF S
<1>2. \A n \in TtSpans : Folded[n] # {} => n \in N
  BY <1>0, SpanFacts, GoneFacts
<1>3. N \in SUBSET Shown /\ \A n \in N : ttTrace.parent[n] \in N \cup {0}
  BY ShownFacts, GoneFacts
<1>. QED  BY <1>1, <1>2, <1>3, WithFaithful

\* The stored trace never changes, nor what is derived from it.
LEMMA TraceFixed ==
  ASSUME ttTrace' = ttTrace
  PROVE  /\ (TraceOK <=> TraceOK') /\ (Cyclic <=> Cyclic')
         /\ Built' = Built /\ New' = New /\ Shown' = Shown /\ Gone' = Gone /\ Folded' = Folded
         /\ \A N, P, E : TreeWith(N, P, E)' = TreeWith(N, P, E)
<1>1. Candidates' = Candidates /\ BuiltRoot' = BuiltRoot /\ Built' = Built
  BY DEF Candidates, BuiltRoot, Built, NoTree
<1>2. \A F : Reachable(F)' = Reachable(F)
  BY DEF Reachable
<1>3. \A n : Under(n)' = Under(n)
  BY <1>2 DEF Under
<1>4. Cyclic <=> Cyclic'
  BY <1>1, <1>2 DEF Cyclic
<1>5. \A n : ShouldCompress(Built, n)' <=> ShouldCompress(Built, n)
  <2>1. \A n : Subtree(Built, n)' = Subtree(Built, n)
    BY <1>1, <1>3 DEF Subtree
  <2>2. \A n : HasError(Built, n)' <=> HasError(Built, n)
    BY <2>1 DEF HasError
  <2>3. \A n : Protected(Built, n)' <=> Protected(Built, n)
    BY <1>1, <1>3, <2>2 DEF Protected
  <2>. QED  BY <1>1, <2>1, <2>3 DEF ShouldCompress
<1>6. New' = New
  BY <1>1, <1>3, <1>5 DEF New, Replaced
<1>7. Shown' = Shown
  BY <1>3, <1>6 DEF Shown
<1>8. \A n : KidsOf(n)' = KidsOf(n)
  BY <1>7 DEF KidsOf
<1>9. Into' = Into
  BY <1>1, <1>7, <1>8 DEF Into
<1>10. Gone' = Gone /\ Folded' = Folded
  BY <1>8, <1>9 DEF Gone, Folded
<1>11. \A N, P, E : TreeWith(N, P, E)' = TreeWith(N, P, E)
  BY <1>1, <1>3, <1>6 DEF TreeWith
<1>12. TraceOK <=> TraceOK'
  BY DEF TraceOK
<1>. QED  BY <1>1, <1>4, <1>6, <1>7, <1>10, <1>11, <1>12

Phases == {"stored", "refused", "built", "compressed", "summarised", "embedded", "expanded"}

\* The tree of every phase, in terms of the trace.
TreeInv ==
  /\ TraceOK
  /\ ttPhase \in [at : Phases, passes : Nat]
  /\ ttPhase.at \in {"stored", "refused"} => ttTree = NoTree
  /\ ttPhase.at \notin {"stored", "refused"} => ~Cyclic
  /\ ttPhase.at = "built" => ttTree = Built
  /\ ttPhase.at = "compressed" => ttTree = TreeWith(Shown, New, NoEvents)
  /\ ttPhase.at \in {"summarised", "expanded"} => \E P \in SUBSET New : ttTree = TreeWith(Shown, P, NoEvents)
  /\ ttPhase.at = "embedded" => \E P \in SUBSET New : ttTree = TreeWith(Shown \ Gone, P, Folded)

LEMMA TreeInitially == TreeInit => TreeInv
BY DEF TreeInit, TreeInv, TraceOK, Phases

LEMMA TreeStep == TreeInv /\ [TreeNext]_treeVars => TreeInv'
<1>. SUFFICES ASSUME TreeInv, [TreeNext]_treeVars
              PROVE  TreeInv'
  OBVIOUS
<1>0. /\ ttTrace' = ttTrace /\ (TraceOK <=> TraceOK') /\ (Cyclic <=> Cyclic')
      /\ Built' = Built /\ New' = New /\ Shown' = Shown /\ Gone' = Gone /\ Folded' = Folded /\ NoEvents' = NoEvents
      /\ \A N, P, E : TreeWith(N, P, E)' = TreeWith(N, P, E)
  <2>1. ttTrace' = ttTrace
    BY DEF TreeNext, Build, Compress, ApplyLateSummaries, Embed, ExpandEmbedded, treeVars
  <2>2. NoEvents' = NoEvents
    BY DEF NoEvents
  <2>. QED  BY <2>1, <2>2, TraceFixed
<1>. DEFINE at == ttPhase.at
<1>1. TraceOK /\ TraceOK' /\ ttPhase \in [at : Phases, passes : Nat]
  BY <1>0 DEF TreeInv
<1>2. CASE Build
  <2>1. CASE Cyclic
    <3>1. ttPhase' = [ttPhase EXCEPT !.at = "refused"] /\ ttTree' = ttTree /\ ttPhase.at = "stored"
      BY <1>2, <2>1 DEF Build
    <3>2. ttPhase'.at = "refused" /\ ttPhase' \in [at : Phases, passes : Nat]
      BY <1>1, <3>1 DEF Phases
    <3>3. ttTree' = NoTree /\ NoTree' = NoTree
      BY <3>1 DEF TreeInv, NoTree
    <3>. QED  BY <1>1, <3>2, <3>3 DEF TreeInv
  <2>2. CASE ~Cyclic
    <3>1. ttPhase' = [ttPhase EXCEPT !.at = "built"] /\ ttTree' = Built
      BY <1>2, <2>2 DEF Build, Built, BuiltRoot
    <3>2. ttPhase'.at = "built" /\ ttPhase' \in [at : Phases, passes : Nat]
      BY <1>1, <3>1 DEF Phases
    <3>. QED  BY <1>0, <1>1, <2>2, <3>1, <3>2 DEF TreeInv
  <2>. QED  BY <2>1, <2>2
<1>3. CASE Compress
  <2>1. /\ ttPhase.at \in {"built", "compressed"} /\ ttTree' = Compressed(ttTree)
        /\ ttPhase' = [at |-> "compressed", passes |-> ttPhase.passes + 1]
    BY <1>3 DEF Compress
  <2>2. ~Cyclic
    BY <2>1 DEF TreeInv
  <2>3. ttTree' = TreeWith(Shown, New, NoEvents)
    <3>1. CASE ttPhase.at = "built"
      BY <2>1, <3>1, CompressBuilt DEF TreeInv
    <3>2. CASE ttPhase.at = "compressed"
      BY <1>1, <2>1, <2>2, <3>2, CompressAgain DEF TreeInv
    <3>. QED  BY <2>1, <3>1, <3>2
  <2>4. ttPhase'.at = "compressed" /\ ttPhase' \in [at : Phases, passes : Nat]
    BY <1>1, <2>1 DEF Phases
  <2>. QED  BY <1>0, <1>1, <2>2, <2>3, <2>4 DEF TreeInv
<1>4. ASSUME NEW found \in SUBSET ttTree.summary, ApplyLateSummaries(found) PROVE TreeInv'
  <2>1. /\ ttPhase.at = "compressed" /\ ttTree' = [ttTree EXCEPT !.pending = ttTree.pending \ found]
        /\ ttPhase' = [ttPhase EXCEPT !.at = "summarised"]
    BY <1>4 DEF ApplyLateSummaries
  <2>2. ~Cyclic /\ ttTree = TreeWith(Shown, New, NoEvents)
    BY <2>1 DEF TreeInv
  <2>3. ttTree' = TreeWith(Shown, New \ found, NoEvents)
    BY <2>1, <2>2 DEF TreeWith
  <2>4. ttPhase'.at = "summarised" /\ ttPhase' \in [at : Phases, passes : Nat]
    BY <1>1, <2>1 DEF Phases
  <2>5. \E P \in SUBSET New : ttTree' = TreeWith(Shown, P, NoEvents)
    BY <2>3
  <2>. QED  BY <1>0, <1>1, <2>2, <2>4, <2>5 DEF TreeInv
<1>5. CASE Embed
  <2>1. ttPhase.at = "summarised" /\ ttTree' = Embedded(ttTree) /\ ttPhase' = [ttPhase EXCEPT !.at = "embedded"]
    BY <1>5 DEF Embed
  <2>2. ~Cyclic
    BY <2>1 DEF TreeInv
  <2>3. PICK P \in SUBSET New : ttTree = TreeWith(Shown, P, NoEvents)
    BY <2>1 DEF TreeInv
  <2>4. ttTree' = TreeWith(Shown \ Gone, P, Folded)
    BY <1>1, <2>1, <2>2, <2>3, EmbedShown
  <2>5. ttPhase'.at = "embedded" /\ ttPhase' \in [at : Phases, passes : Nat]
    BY <1>1, <2>1 DEF Phases
  <2>. QED  BY <1>0, <1>1, <2>2, <2>4, <2>5 DEF TreeInv
<1>6. CASE ExpandEmbedded
  <2>1. /\ ttPhase.at = "embedded" /\ ttPhase' = [ttPhase EXCEPT !.at = "expanded"]
        /\ ttTree' = [ttTree EXCEPT !.nodes = ttTree.nodes \cup UNION {ttTree.events[s] : s \in ttTree.nodes},
                                    !.events = NoEvents]
    BY <1>6 DEF ExpandEmbedded, NoEvents
  <2>2. ~Cyclic
    BY <2>1 DEF TreeInv
  <2>3. PICK P \in SUBSET New : ttTree = TreeWith(Shown \ Gone, P, Folded)
    BY <2>1 DEF TreeInv
  <2>4. ttTree.nodes = Shown \ Gone /\ ttTree.events = Folded
    BY <2>3 DEF TreeWith
  <2>5. ttTree.nodes \cup UNION {ttTree.events[s] : s \in ttTree.nodes} = Shown
    BY <1>1, <2>2, <2>4, ExpandFolded
  <2>6. ttTree' = TreeWith(Shown, P, NoEvents)
    BY <2>1, <2>3, <2>5 DEF TreeWith
  <2>7. ttPhase'.at = "expanded" /\ ttPhase' \in [at : Phases, passes : Nat]
    BY <1>1, <2>1 DEF Phases
  <2>. QED  BY <1>0, <1>1, <2>2, <2>6, <2>7 DEF TreeInv
<1>7. CASE UNCHANGED treeVars
  <2>1. ttTree' = ttTree /\ ttPhase' = ttPhase /\ NoTree' = NoTree
    BY <1>7 DEF treeVars, NoTree
  <2>. QED  BY <1>0, <1>1, <2>1 DEF TreeInv
<1>. QED  BY <1>2, <1>3, <1>4, <1>5, <1>6, <1>7 DEF TreeNext

LEMMA TreeInvFaithful == TreeInv => TreeTypeOK /\ TreeFaithful
<1>. SUFFICES ASSUME TreeInv PROVE TreeTypeOK /\ TreeFaithful
  OBVIOUS
<1>1. ttPhase.at \in Phases /\ TraceOK
  BY DEF TreeInv
<1>2. CASE ttPhase.at \in {"stored", "refused"}
  <2>1. ttTree = NoTree
    BY <1>2 DEF TreeInv
  <2>2. TreeTypeOK
    BY <1>2, <2>1, SpanFacts DEF TreeTypeOK, NoTree
  <2>. QED  BY <1>2, <2>2 DEF TreeFaithful, SpansConserved, ErrorsVisible
<1>3. CASE ttPhase.at \notin {"stored", "refused"}
  <2>0. ~Cyclic
    BY <1>3 DEF TreeInv
  <2>1. Faithful(ttTree)
    <3>1. ttPhase.at \in {"built", "compressed", "summarised", "embedded", "expanded"}
      BY <1>1, <1>3 DEF Phases
    <3>2. CASE ttPhase.at = "built"
      BY <1>1, <3>2, BuiltFaithful DEF TreeInv
    <3>3. CASE ttPhase.at = "compressed"
      <4>1. ttTree = TreeWith(Shown, New, NoEvents) /\ New \in SUBSET New
        BY <3>3 DEF TreeInv
      <4>. QED  BY <1>1, <2>0, <4>1, ShownFaithful
    <3>4. CASE ttPhase.at \in {"summarised", "expanded"}
      <4>1. PICK P \in SUBSET New : ttTree = TreeWith(Shown, P, NoEvents)
        BY <3>4 DEF TreeInv
      <4>. QED  BY <1>1, <2>0, <4>1, ShownFaithful
    <3>5. CASE ttPhase.at = "embedded"
      <4>1. PICK P \in SUBSET New : ttTree = TreeWith(Shown \ Gone, P, Folded)
        BY <3>5 DEF TreeInv
      <4>. QED  BY <1>1, <2>0, <4>1, FoldedFaithful
    <3>. QED  BY <3>1, <3>2, <3>3, <3>4, <3>5
  <2>2. SpansConserved
    BY <2>1 DEF Faithful, SpansConserved
  <2>3. TreeTypeOK
    BY <1>1, <2>1 DEF Faithful, TreeTypeOK, Phases
  <2>4. ASSUME ttPhase.at = "compressed"
        PROVE  /\ Compressed(ttTree) = ttTree
               /\ \A n \in ttTree.nodes \ {ttTree.root} :
                    Cardinality(Subtree(ttTree, n)) > MaxSubtreeSize => Protected(ttTree, n)
    <3>1. ttTree = TreeWith(Shown, New, NoEvents)
      BY <2>4 DEF TreeInv
    <3>2. ttTree.nodes = Shown /\ ttTree.root = BuiltRoot
      BY <3>1 DEF TreeWith
    <3>3. Compressed(ttTree) = ttTree
      BY <1>1, <2>0, <3>1, CompressAgain
    <3>. QED  BY <1>1, <2>0, <3>1, <3>2, <3>3, LargeProtected
  <2>5. ErrorsVisible
    BY <2>1, <2>4 DEF Faithful, ErrorsVisible
  <2>. QED  BY <2>2, <2>3, <2>5 DEF TreeFaithful
<1>. QED  BY <1>2, <1>3

\* tree_compressor.py, for every trace and every threshold: through build, any number of
\* compressions, late summaries, embedding and expansion every stored span is a visible
\* node, hidden in one summary or an event of one visible node; no error is hidden; after
\* one pass what is still large is protected by an error, and a second pass changes nothing.
THEOREM TraceTreeFaithful == TreeSpec => [](TreeTypeOK /\ TreeFaithful)
BY TreeInitially, TreeStep, TreeInvFaithful, PTL DEF TreeSpec
-----------------------------------------------------------------------------
(* The runs' specification.  A behaviour of it is one of the four parts, and  *)
(* the other three stand still: it is a behaviour of each part's own.         *)

LEMMA RatesTyped == DrillInv /\ ddRate \in [Users -> Nat] /\ [DrillNext]_drillVars => (ddRate \in [Users -> Nat])'
<1>. SUFFICES ASSUME DrillInv, ddRate \in [Users -> Nat], [DrillNext]_drillVars
              PROVE  ddRate' \in [Users -> Nat]
  BY DEF Users
<1>1. ASSUME NEW r \in DdRequests, RateChecked(r) PROVE ddRate' \in [Users -> Nat]
  <2>. DEFINE u == ddReq[r].q.user
  <2>1. ddReq[r].q \in DdQueries
    BY DEF DrillInv, RequestsSound, DrillRecord
  <2>2. u \in Users
    BY <2>1 DEF Users
  <2>3. ddRate' = [ddRate EXCEPT ![u] = ddRate[u] + 1] \/ ddRate' = ddRate
    BY <1>1 DEF RateChecked
  <2>. HIDE DEF u
  <2>. QED  BY <2>2, <2>3
<1>2. ASSUME ~\E r \in DdRequests : RateChecked(r) PROVE ddRate' = ddRate
  BY <1>2 DEF DrillNext, RequestArrives, Expands, CacheGet, TierRecovers, ColdRecovers, ValueSet, IndexSet,
              Annotates, Invalidates, EntryExpires, TierMoves, DdRedisFlips, drillVars
<1>. QED  BY <1>1, <1>2

\* The requests, the cache index and the rates of the drill-down service keep their types.
THEOREM DrillTyped == DrillSpec => []DrillTypeOK
<1>. DEFINE Typed == DrillInv /\ ddRate \in [Users -> Nat]
<1>1. DrillInit => Typed
  BY DrillStart DEF DrillInit
<1>2. Typed /\ [DrillNext]_drillVars => Typed'
  BY DrillStep, RatesTyped
<1>3. Typed => DrillTypeOK
  <2>. SUFFICES ASSUME Typed PROVE DrillTypeOK
    OBVIOUS
  <2>1. \A r \in DdRequests : ddReq[r].q \in DdQueries /\ ddReq[r].pc \in DrillPcs
    BY DEF DrillInv, RequestsSound, DrillRecord
  <2>2. \A a \in Annotators : ddInv[a].listed \subseteq DdQueries
    BY DEF DrillInv, AnnotationsSound, InvRecord
  <2>. QED  BY <2>1, <2>2 DEF DrillInv, CacheSound, DrillTypeOK, DrillPcs
<1>. QED  BY <1>1, <1>2, <1>3, PTL DEF DrillSpec

\* Every behaviour the run of MCEvaluation explores is one of each component.
LEMMA EvaluationComposes == Spec => JudgeSpec /\ EvalSpec /\ DrillSpec /\ TreeSpec
<1>1. Init => JudgeInit /\ EvalInit /\ DrillInit /\ TreeInit
  BY DEF Init
<1>2. [Next]_<<evalVars, judgeVars, drillVars, treeVars, part>> => [JudgeNext]_judgeVars
  BY DEF Next
<1>3. [Next]_<<evalVars, judgeVars, drillVars, treeVars, part>> => [EvalNext]_evalVars
  BY DEF Next
<1>4. [Next]_<<evalVars, judgeVars, drillVars, treeVars, part>> => [DrillNext]_drillVars
  BY DEF Next
<1>5. [Next]_<<evalVars, judgeVars, drillVars, treeVars, part>> => [TreeNext]_treeVars
  BY DEF Next
<1>. QED  BY <1>1, <1>2, <1>3, <1>4, <1>5, PTL DEF Spec, JudgeSpec, EvalSpec, DrillSpec, TreeSpec

\* The variables of all four parts keep their types in the runs' specification, and a
\* summary is awaited only for a summary node.
THEOREM EvaluationTyped == Spec => []EvaluationTypeOK
<1>1. JudgeTypeOK /\ EvalTypeOK /\ DrillTypeOK /\ TreeTypeOK => EvaluationTypeOK
  BY DEF EvaluationTypeOK
<1>. QED  BY <1>1, EvaluationComposes, JudgeTyped, EvalTyped, DrillTyped, TraceTreeFaithful, PTL
=============================================================================
