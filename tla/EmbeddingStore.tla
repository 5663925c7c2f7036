--------------------------- MODULE EmbeddingStore ---------------------------
(***************************************************************************)
(* Response embeddings, from the evaluator that computes them              *)
(* (eval/embedding.py) through the SDK's embedding queue and its worker    *)
(* (observability.py) to ClickHouse, or to Redis when ClickHouse fails;    *)
(* and the sliding error-rate window each enqueued span is counted in.     *)
(***************************************************************************)
EXTENDS Integers, FiniteSets, SequencesExt

CONSTANTS
  EsSpans,       \* number of spans
  EsQueueMax,    \* maxsize of the embedding queue
  EsBatchMax,    \* most embeddings of one flush (256)
  EsWindow,      \* length of the error-rate window, in ticks
  EsTicks        \* bound: ticks of the clock

ASSUME EmbeddingAssumption == {EsSpans, EsQueueMax, EsBatchMax, EsTicks, EsWindow} \subseteq Nat /\ EsBatchMax > 0

VARIABLES
  esGolden,   \* the golden answers: unloaded, or loaded with no, zero or real vectors
  esLoop,     \* whether evaluate() is called inside a running event loop
  esSpan,     \* per span: what it carries and how far it is
  esQueue,    \* _embedding_queue
  esWorker,   \* the worker: pc and the batch in its hands
  esTables,   \* the embeddings in ClickHouse and in Redis
  esCount,    \* the metrics, and the embeddings cut off in the worker's hands
  esShut,     \* shutdown(): up, waiting for the worker, over or cut; what was queued when it began
  esRate      \* error-rate window of the agent, its running counts, and the clock

embeddingVars == <<esGolden, esLoop, esSpan, esQueue, esWorker, esTables, esCount, esShut, esRate>>

EsIds == 1 .. EsSpans

EmbeddingInit ==
  /\ esGolden = "unloaded" /\ esLoop \in BOOLEAN
  /\ esSpan = [s \in EsIds |-> "new"]
  /\ esQueue = <<>> /\ esWorker = [pc |-> "waits", batch |-> <<>>]
  /\ esTables = [clickhouse |-> {}, redis |-> {}]
  /\ esCount = [stored |-> 0, failed |-> 0, fallback |-> 0, cut |-> 0]
  /\ esShut = [pc |-> "up", queued |-> {}]
  /\ esRate = [window |-> <<>>, errors |-> 0, tracked |-> 0, now |-> 0]

-----------------------------------------------------------------------------
(* GoldenStore.find_by_intent(): the answers are loaded, and their vectors   *)
(* asked for, only while there are none.  A missing file is looked for every *)
(* time; inside a running loop asyncio.run() raises after the answers were   *)
(* loaded; a failed request gives zero vectors, which stay.                  *)
Golden(g) ==
  IF esGolden # "unloaded" THEN g = esGolden
  ELSE g \in IF esLoop THEN {"unloaded", "bare"} ELSE {"unloaded", "zero", "real"}

\* evaluate(): what the span carries afterwards.  Nothing, if it is skipped, has
\* no text, no golden answer, or asyncio.run() raises; else the answer's vector,
\* zero if the request failed.
Carries(g, v) == v = "plain" \/ (g \in {"zero", "real"} /\ ~esLoop /\ v \in {"vector", "zeros"})
\* (evaluate() does not await: spans are numbered in the order they are enqueued.)
EvaluateSimilarity(s) ==
  /\ esSpan[s] = "new" /\ \A t \in 1 .. s - 1 : esSpan[t] \in {"taken", "done"}
  /\ \E g \in {"unloaded", "bare", "zero", "real"}, v \in {"plain", "vector", "zeros"} :
       /\ g = esGolden \/ Golden(g)
       /\ Carries(g, v)
       /\ esGolden' = g /\ esSpan' = [esSpan EXCEPT ![s] = v]
  /\ UNCHANGED <<esLoop, esQueue, esWorker, esTables, esCount, esShut, esRate>>

ErrorsIn(w) == Cardinality({i \in DOMAIN w : w[i].error})

\* The loop that pops entries older than the window stops at the first that is not.
Expired(w, now) == Min({n \in 0 .. Len(w) : n = Len(w) \/ w[n + 1].at + EsWindow >= now})

\* _update_error_rate(): append, evict what is older than the window, keep the counts in step.
ErrorRateOf(r, error) ==
  LET w == Append(r.window, [at |-> r.now, error |-> error])
      old == Expired(w, r.now)
      kept == SubSeq(w, old + 1, Len(w))
      tracked == r.tracked + 1 - old
      errors == r.errors + (IF error THEN 1 ELSE 0) - ErrorsIn(SubSeq(w, 1, old))
  IN [window |-> kept, tracked |-> Len(kept), now |-> r.now,
      errors |-> Max({0, Min({IF tracked = Len(kept) THEN errors ELSE ErrorsIn(kept), Len(kept)})})]

EmbeddingRefused(c) == [c EXCEPT !.failed = @ + 1]

\* _enqueue(): the embedding leaves the span for the queue, or is dropped and counted.
EnqueueSpan(s, error) ==
  /\ esSpan[s] \in {"plain", "vector", "zeros"}
  /\ LET carries == esSpan[s] # "plain"
         full == Len(esQueue) >= EsQueueMax IN
     /\ esQueue' = IF carries /\ ~full THEN Append(esQueue, s) ELSE esQueue
     /\ esCount' = IF carries /\ full THEN EmbeddingRefused(esCount) ELSE esCount
     /\ esSpan' = [esSpan EXCEPT ![s] = IF carries THEN "taken" ELSE "done"]
  /\ esRate' = ErrorRateOf(esRate, error)
  /\ UNCHANGED <<esGolden, esLoop, esWorker, esTables, esShut>>

\* external: the clock.
EmbeddingTick ==
  /\ esRate.now < EsTicks
  /\ esRate' = [esRate EXCEPT !.now = @ + 1]
  /\ UNCHANGED <<esGolden, esLoop, esSpan, esQueue, esWorker, esTables, esCount, esShut>>

-----------------------------------------------------------------------------
\* _embedding_worker(): one embedding awaited, the rest drained at once.
WorkerTakes ==
  /\ esWorker.pc = "waits" /\ esQueue # <<>>
  /\ LET n == IF Len(esQueue) < EsBatchMax THEN Len(esQueue) ELSE EsBatchMax IN
     /\ esWorker' = [pc |-> "inserts", batch |-> SubSeq(esQueue, 1, n)]
     /\ esQueue' = SubSeq(esQueue, n + 1, Len(esQueue))
  /\ UNCHANGED <<esGolden, esLoop, esSpan, esTables, esCount, esShut, esRate>>

\* The batch is disposed of: the worker ends if shutdown has begun and nothing waits.
WorkerGoesOn == [pc |-> IF esShut.pc # "up" /\ esQueue = <<>> THEN "ended" ELSE "waits", batch |-> <<>>]

\* _embedding_clickhouse_write() succeeds.
InsertStores ==
  /\ esWorker.pc = "inserts"
  /\ esTables' = [esTables EXCEPT !.clickhouse = @ \cup ToSet(esWorker.batch)]
  /\ esCount' = [esCount EXCEPT !.stored = @ + Len(esWorker.batch)]
  /\ esWorker' = WorkerGoesOn
  /\ UNCHANGED <<esGolden, esLoop, esSpan, esQueue, esShut, esRate>>

\* It raises, perhaps after ClickHouse took the rows.
InsertFails(applied) ==
  /\ esWorker.pc = "inserts"
  /\ esTables' = IF applied THEN [esTables EXCEPT !.clickhouse = @ \cup ToSet(esWorker.batch)] ELSE esTables
  /\ esCount' = [esCount EXCEPT !.failed = @ + Len(esWorker.batch)]
  /\ esWorker' = [esWorker EXCEPT !.pc = "falls"]
  /\ UNCHANGED <<esGolden, esLoop, esSpan, esQueue, esShut, esRate>>

\* _embedding_redis_fallback(): stored, failed or not allowed by the redis breaker
\* (CircuitBreaker, shared with the other users of Redis); it never raises, so
\* the fallback is counted in each case.
RedisFallback(stored) ==
  /\ esWorker.pc = "falls"
  /\ esTables' = IF stored THEN [esTables EXCEPT !.redis = @ \cup ToSet(esWorker.batch)] ELSE esTables
  /\ esCount' = [esCount EXCEPT !.fallback = @ + Len(esWorker.batch)]
  /\ esWorker' = WorkerGoesOn
  /\ UNCHANGED <<esGolden, esLoop, esSpan, esQueue, esShut, esRate>>

\* wait_for() times out with nothing in the queue.
WorkerIdles ==
  /\ esWorker.pc = "waits" /\ esQueue = <<>> /\ esShut.pc # "up"
  /\ esWorker' = WorkerGoesOn
  /\ UNCHANGED <<esGolden, esLoop, esSpan, esQueue, esTables, esCount, esShut, esRate>>

\* A plausible slip: the worker leaves as soon as shutdown is asked for.
ShutdownAtOnce == [esWorker EXCEPT !.pc = IF @ = "waits" THEN "ended" ELSE @]
ShutdownSignalled == esWorker

\* shutdown(): the worker is told and waited for.
EmbeddingShutdownBegins ==
  /\ esShut.pc = "up"
  /\ esShut' = [pc |-> "waits", queued |-> ToSet(esQueue)] /\ esWorker' = ShutdownSignalled
  /\ UNCHANGED <<esGolden, esLoop, esSpan, esQueue, esTables, esCount, esRate>>
ShutdownReturns ==
  /\ esShut.pc = "waits" /\ esWorker.pc = "ended"
  /\ esShut' = [esShut EXCEPT !.pc = "over"]
  /\ UNCHANGED <<esGolden, esLoop, esSpan, esQueue, esWorker, esTables, esCount, esRate>>

\* Five seconds are over: the worker is cancelled with the batch in its hands.
\* The thread that writes to ClickHouse goes on, and so may Redis.
ShutdownCuts(applied) ==
  /\ esShut.pc = "waits" /\ esWorker.pc # "ended"
  /\ esShut' = [esShut EXCEPT !.pc = "cut"] /\ esWorker' = [pc |-> "ended", batch |-> <<>>]
  /\ esCount' = [esCount EXCEPT !.cut = IF esWorker.pc = "inserts" THEN Len(esWorker.batch) ELSE 0]
  /\ esTables' = CASE applied /\ esWorker.pc = "inserts" -> [esTables EXCEPT !.clickhouse = @ \cup ToSet(esWorker.batch)]
                   [] applied /\ esWorker.pc = "falls" -> [esTables EXCEPT !.redis = @ \cup ToSet(esWorker.batch)]
                   [] OTHER -> esTables
  /\ UNCHANGED <<esGolden, esLoop, esSpan, esQueue, esRate>>

\* external: the keys of the fallback live one hour.
RedisExpires ==
  /\ esTables.redis # {}
  /\ esTables' = [esTables EXCEPT !.redis = {}]
  /\ UNCHANGED <<esGolden, esLoop, esSpan, esQueue, esWorker, esCount, esShut, esRate>>

EmbeddingNext ==
  \/ \E s \in EsIds : EvaluateSimilarity(s) \/ \E e \in BOOLEAN : EnqueueSpan(s, e)
  \/ EmbeddingTick \/ WorkerTakes \/ InsertStores \/ WorkerIdles \/ RedisExpires
  \/ \E b \in BOOLEAN : InsertFails(b) \/ RedisFallback(b) \/ ShutdownCuts(b)
  \/ EmbeddingShutdownBegins \/ ShutdownReturns

EmbeddingSpec == EmbeddingInit /\ [][EmbeddingNext]_embeddingVars

-----------------------------------------------------------------------------
EmbeddingTypeOK ==
  /\ esQueue \in Seq(EsIds) /\ Len(esQueue) <= EsQueueMax
  /\ esWorker.pc \in {"waits", "inserts", "falls", "ended"} /\ Len(esWorker.batch) <= EsBatchMax
  /\ esTables.clickhouse \subseteq EsIds /\ esTables.redis \subseteq EsIds

\* Every embedding that left its span waits in the queue, is being inserted, is
\* counted as stored (and then in ClickHouse) or as failed, or was cut off by
\* shutdown while being inserted; a shutdown that was not cut left nothing of what
\* was queued when it began (_enqueue, _flush_embedding_batch, shutdown).
EmbeddingsAccounted ==
  LET inserting == IF esWorker.pc = "inserts" THEN Len(esWorker.batch) ELSE 0 IN
  /\ Cardinality({s \in EsIds : esSpan[s] = "taken"})
       = Len(esQueue) + inserting + esCount.stored + esCount.failed + esCount.cut
  /\ esCount.stored <= Cardinality(esTables.clickhouse) /\ esCount.fallback <= esCount.failed
  /\ esShut.pc = "over" => esShut.queued \cap ToSet(esQueue) = {}

\* The running counts behind the error-rate gauge are those of the window, whatever
\* was evicted (_update_error_rate).
ErrorRateExact ==
  /\ esRate.tracked = Len(esRate.window)
  /\ esRate.errors = ErrorsIn(esRate.window)

\* Embeddings are accounted for from the span to the tables, and the error-rate
\* counts are exact (observability.py).
EmbeddingsSafe == EmbeddingsAccounted /\ ErrorRateExact
=============================================================================
