---------------------------- MODULE SpanPipeline ----------------------------
(***************************************************************************)
(* The path of a span through ObservabilitySDK (agent_obs/observability.py *)
(* and agent_obs/span_aggregator.py): _enqueue with the micro-span         *)
(* aggregator, the bounded ring buffer and the per-trace totals, the       *)
(* export worker, and shutdown().                                          *)
(*                                                                         *)
(* Everything runs on one asyncio loop, so the code between two awaits     *)
(* that suspend is one step.  _enqueue suspends only in the guardrail,     *)
(* before it touches any of this state (SpanAggregator.add and flush await *)
(* an uncontended lock and each other, which never yields), so it is one   *)
(* action; the worker suspends while it waits for a span and while an      *)
(* exporter runs; shutdown() suspends wherever it joins a task.            *)
(***************************************************************************)
EXTENDS Integers, Sequences, FiniteSets

CONSTANTS
    Traces,         \* agent runs
    LateTraces,     \* those with tasks that end after the agent returned
    Offers,         \* what agents emit: [kind, cost, status]
    RingSize,       \* ring_buffer_maxsize
    MaxCount,       \* aggregation max_count
    MaxTraceAgg,    \* _max_trace_agg
    CostThreshold,  \* cost_threshold
    NExporters,     \* len(_exporters)
    MaxOffers,      \* bound: spans the agents end
    NoTrace,        \* None
    NoStamp         \* a root without totals, and every other span

Kinds == {"micro", "call", "root", "agg"}
Status == {"ok", "error"}

ASSUME PipelineAssumption ==
    /\ LateTraces \subseteq Traces
    /\ Offers \subseteq [kind : {"micro", "call", "root"}, cost : Nat, status : Status]
    /\ \A o \in Offers : o.kind # "call" => o.cost = 0
    /\ RingSize \in Nat \ {0}
    /\ MaxCount \in Nat \ {0}
    /\ MaxTraceAgg \in Nat
    /\ CostThreshold \in Nat
    /\ NExporters \in Nat \ {0}
    /\ MaxOffers \in Nat
    /\ NoTrace \notin Traces

VARIABLES
    offered,    \* spans the agents have ended so far
    accepted,   \* every span the ring ever took, in order (last_spans)
    ring,       \* _ring_buffer: positions in accepted
    aggBuf,     \* _span_aggregator._buffer
    aggTrace,   \* trace of _aggregation_src_ctx
    traceAgg,   \* _trace_agg
    worker,     \* where _export_worker is
    batch,      \* the worker's batch: positions in accepted
    delivered,  \* per exporter: positions in accepted it was handed
    down,       \* where shutdown() is; "running" before it is called
    ended,      \* history: traces whose root span has been offered
    flushed,    \* history: micro-spans that went into aggregates
    micros      \* history: micro-spans that were offered

vars == <<offered, accepted, ring, aggBuf, aggTrace, traceAgg, worker, batch,
          delivered, down, ended, flushed, micros>>

enqVars == <<offered, accepted, aggBuf, aggTrace, traceAgg, ended, flushed, micros>>

Totals == [steps : Nat, cost : Nat, status : Status]

\* steps.count, cost.usd_sum and cost.over_budget of a root.
Stamp == [steps : Nat, cost : Nat, over : {"true", "false"}]

\* A micro-span as the aggregator buffers it.
Micro == [no : Nat, trace : Traces, status : Status]

\* A span in the ring.  no is 0 for an aggregate; micros are the events of
\* an aggregate.
Span == [no : Nat, trace : Traces, kind : Kinds, cost : Nat, status : Status,
         micros : Seq(Micro), stamp : Stamp \union {NoStamp}]

TypeOK ==
    /\ offered \in 0..MaxOffers
    /\ accepted \in Seq(Span)
    /\ ring \in Seq(1..Len(accepted)) /\ Len(ring) <= RingSize
    /\ aggBuf \in Seq(Micro)
    /\ aggTrace \in Traces \union {NoTrace}
    /\ DOMAIN traceAgg \subseteq Traces
    /\ \A t \in DOMAIN traceAgg : traceAgg[t] \in Totals
    /\ Cardinality(DOMAIN traceAgg) <= MaxTraceAgg
    /\ worker \in {"waiting", "exporting", "exited", "dead", "cancelled"}
    /\ batch \in Seq(1..Len(accepted))
    /\ delivered \in [1..NExporters -> Seq(1..Len(accepted))]
    /\ down \in {"running", "closing", "joining", "flushing", "returned", "raised"}
    /\ ended \subseteq Traces
    /\ flushed \in Seq(Micro)
    /\ micros \in Seq(Micro)

Init ==
    /\ offered = 0
    /\ accepted = <<>>
    /\ ring = <<>>
    /\ aggBuf = <<>>
    /\ aggTrace = NoTrace
    /\ traceAgg = [t \in {} |-> NoStamp]
    /\ worker = "waiting"
    /\ batch = <<>>
    /\ delivered = [e \in 1..NExporters |-> <<>>]
    /\ down = "running"
    /\ ended = {}
    /\ flushed = <<>>
    /\ micros = <<>>
-----------------------------------------------------------------------------
\* The state one put_nowait works on: ring, accepted and traceAgg together.
Tank(rg, acc, ta) == [ring |-> rg, accepted |-> acc, traceAgg |-> ta]

\* The totals of s's trace with s counted in (an llm.call is the only span
\* offered with a cost); status is "error" once has_error is set.
AddTo(tot, s) ==
    [steps  |-> tot.steps + 1,
     cost   |-> tot.cost + s.cost,
     status |-> IF s.status = "error" THEN "error" ELSE tot.status]

Zero == [steps |-> 0, cost |-> 0, status |-> "ok"]

\* Is the trace counted: it has an entry, or there is room for one.
Counted(ta, t) == t \in DOMAIN ta \/ Cardinality(DOMAIN ta) < MaxTraceAgg

TotalsOf(ta, t) == IF t \in DOMAIN ta THEN ta[t] ELSE Zero

\* _accumulate_trace_aggregates: what becomes of _trace_agg ...
Accumulate(ta, s) ==
    IF ~Counted(ta, s.trace) THEN ta
    ELSE IF s.kind = "root"
         THEN [t \in DOMAIN ta \ {s.trace} |-> ta[t]]
         ELSE [t \in DOMAIN ta \union {s.trace} |->
                  IF t = s.trace THEN AddTo(TotalsOf(ta, t), s) ELSE ta[t]]

StampOf(tot) ==
    [steps |-> tot.steps, cost |-> tot.cost,
     over |-> IF tot.cost > CostThreshold THEN "true" ELSE "false"]

\* Mutant of Stamped: the root is stamped before it is counted.
StampedTooEarly(ta, s) ==
    IF s.kind = "root" /\ Counted(ta, s.trace)
    THEN LET tot == TotalsOf(ta, s.trace)
         IN  [s EXCEPT !.stamp = StampOf(tot), !.status = tot.status]
    ELSE s

\* ... and of the span: a counted root carries the totals and their error flag.
Stamped(ta, s) ==
    IF s.kind = "root" /\ Counted(ta, s.trace)
    THEN LET tot == AddTo(TotalsOf(ta, s.trace), s)
         IN  [s EXCEPT !.stamp = StampOf(tot), !.status = tot.status]
    ELSE s

\* put_nowait and what follows it; QueueFull drops the span.
Put(tank, s) ==
    IF Len(tank.ring) < RingSize
    THEN Tank(Append(tank.ring, Len(tank.accepted) + 1),
              Append(tank.accepted, Stamped(tank.traceAgg, s)),
              Accumulate(tank.traceAgg, s))
    ELSE tank

\* _aggregate_to_span: the context of the first micro-span, status "ok".
AggregateToSpan(buf, t) ==
    [no |-> 0, trace |-> t, kind |-> "agg", cost |-> 0, status |-> "ok",
     micros |-> buf, stamp |-> NoStamp]

\* _flush_aggregation: the buffer, if any, goes into the ring as one span.
FlushInto(tank) ==
    IF aggBuf = <<>> THEN tank ELSE Put(tank, AggregateToSpan(aggBuf, aggTrace))

\* Mutant of ClearAggregation: the buffer is not cleared.
ClearKeepsBuffer == aggTrace' = NoTrace /\ UNCHANGED aggBuf

\* After every flush: the aggregator starts over, without a source context.
ClearAggregation == aggBuf' = <<>> /\ aggTrace' = NoTrace

Here == Tank(ring, accepted, traceAgg)

SetTank(tank) ==
    /\ ring' = tank.ring
    /\ accepted' = tank.accepted
    /\ traceAgg' = tank.traceAgg

SpanOf(o, t) ==
    [no |-> offered + 1, trace |-> t, kind |-> o.kind, cost |-> o.cost,
     status |-> o.status, micros |-> <<>>, stamp |-> NoStamp]

\* A span of trace t may end: the root once, children before it unless the
\* trace leaves tasks behind.
MayEnd(o, t) ==
    /\ o \in Offers
    /\ offered < MaxOffers
    /\ t \notin ended \/ (o.kind # "root" /\ t \in LateTraces)

MicroOf(o, t) == [no |-> offered + 1, trace |-> t, status |-> o.status]

\* _aggregation_src_ctx with one more micro-span of trace t.
Source(t) == IF aggTrace = NoTrace THEN t ELSE aggTrace

\* _enqueue of an agent.reasoning span that SpanAggregator.add only buffers:
\* the span itself goes on to the ring as well.
EnqueueMicro(o, t) ==
    /\ o.kind = "micro"
    /\ MayEnd(o, t)
    /\ Len(aggBuf) + 1 < MaxCount
    /\ offered' = offered + 1
    /\ micros' = Append(micros, MicroOf(o, t))
    /\ aggBuf' = Append(aggBuf, MicroOf(o, t))
    /\ aggTrace' = Source(t)
    /\ SetTank(Put(Here, SpanOf(o, t)))
    /\ UNCHANGED <<worker, batch, delivered, down, ended, flushed>>

\* The same when the buffer is full, or the window since its first span has
\* passed: the aggregate takes the span's place.
EnqueueMicroFlush(o, t) ==
    /\ o.kind = "micro"
    /\ MayEnd(o, t)
    /\ Len(aggBuf) + 1 >= MaxCount \/ aggBuf # <<>>
    /\ offered' = offered + 1
    /\ micros' = Append(micros, MicroOf(o, t))
    /\ SetTank(Put(Here, AggregateToSpan(Append(aggBuf, MicroOf(o, t)), Source(t))))
    /\ flushed' = flushed \o Append(aggBuf, MicroOf(o, t))
    /\ ClearAggregation
    /\ UNCHANGED <<worker, batch, delivered, down, ended>>

\* _enqueue of any other child (llm.call, tool.call).
EnqueueCall(o, t) ==
    /\ o.kind = "call"
    /\ MayEnd(o, t)
    /\ offered' = offered + 1
    /\ SetTank(Put(Here, SpanOf(o, t)))
    /\ UNCHANGED <<aggBuf, aggTrace, worker, batch, delivered, down, ended,
                   flushed, micros>>

\* _enqueue of an agent.loop root: the buffered micro-spans of whatever
\* trace are flushed first.
EnqueueRoot(o, t) ==
    /\ o.kind = "root"
    /\ MayEnd(o, t)
    /\ offered' = offered + 1
    /\ ended' = ended \union {t}
    /\ SetTank(Put(FlushInto(Here), SpanOf(o, t)))
    /\ ClearAggregation
    /\ flushed' = flushed \o aggBuf
    /\ UNCHANGED <<worker, batch, delivered, down, micros>>

Enqueue ==
    \E o \in Offers, t \in Traces :
        \/ EnqueueMicro(o, t)
        \/ EnqueueMicroFlush(o, t)
        \/ EnqueueCall(o, t)
        \/ EnqueueRoot(o, t)
-----------------------------------------------------------------------------
\* _shutdown.is_set()
ShutdownSet == down # "running"

\* The worker got a span and the drain loop ended before a second one joined
\* it (the ring was empty, or the 50 ms were over): the export is inside that
\* loop, so the batch of one is dropped.
WorkerTakesOne ==
    /\ worker = "waiting"
    /\ ring # <<>>
    /\ ring' = Tail(ring)
    /\ worker' = IF ShutdownSet /\ ring' = <<>> THEN "exited" ELSE "waiting"
    /\ UNCHANGED <<batch, delivered, down, enqVars>>

\* Mutant of WorkerTakesTwo: the second span is read and left in the ring.
WorkerPeeks ==
    /\ worker = "waiting"
    /\ Len(ring) >= 2
    /\ batch' = SubSeq(ring, 1, 2)
    /\ ring' = Tail(ring)
    /\ worker' = "exporting"
    /\ UNCHANGED <<delivered, down, enqVars>>

\* The drain loop gets a second span and awaits the first exporter with both.
WorkerTakesTwo ==
    /\ worker = "waiting"
    /\ Len(ring) >= 2
    /\ batch' = SubSeq(ring, 1, 2)
    /\ ring' = SubSeq(ring, 3, Len(ring))
    /\ worker' = "exporting"
    /\ UNCHANGED <<delivered, down, enqVars>>

\* The exporter returns.  The latency metric is then observed with a label it
\* does not have, in the try block and again in its handler: the ValueError
\* ends the task before the next exporter is reached.
ExportReturns ==
    /\ worker = "exporting"
    /\ delivered' = [delivered EXCEPT ![1] = @ \o batch]
    /\ batch' = <<>>
    /\ worker' = "dead"
    /\ UNCHANGED <<ring, down, enqVars>>

\* The exporter raises: the handler observes the same metric.
ExportRaises ==
    /\ worker = "exporting"
    /\ batch' = <<>>
    /\ worker' = "dead"
    /\ UNCHANGED <<ring, delivered, down, enqVars>>

\* No span for 0.5 s.
WorkerTimesOut ==
    /\ worker = "waiting"
    /\ ring = <<>>
    /\ ShutdownSet
    /\ worker' = "exited"
    /\ UNCHANGED <<ring, batch, delivered, down, enqVars>>

Worker ==
    \/ WorkerTakesOne
    \/ WorkerTakesTwo
    \/ WorkerTimesOut
-----------------------------------------------------------------------------
\* shutdown(): flush the aggregator, set the event, then wait for the
\* embedding worker, the monitors and the audit tasks.
ShutdownBegins ==
    /\ down = "running"
    /\ down' = "closing"
    /\ SetTank(FlushInto(Here))
    /\ ClearAggregation
    /\ flushed' = flushed \o aggBuf
    /\ UNCHANGED <<offered, worker, batch, delivered, ended, micros>>

\* Every one of those waits has its own timeout.
OthersStopped ==
    /\ down = "closing"
    /\ down' = "joining"
    /\ UNCHANGED <<ring, worker, batch, delivered, enqVars>>

\* wait_for(_worker_task, 5): the task has ended ...
JoinEnded ==
    /\ down = "joining"
    /\ \/ worker = "exited" /\ down' = "flushing"
       \/ worker = "dead" /\ down' = "raised"
    /\ UNCHANGED <<ring, worker, batch, delivered, enqVars>>

\* Mutant of JoinTimesOut: an export in progress is waited for.
JoinWaitsForExport ==
    /\ down = "joining"
    /\ worker = "waiting"
    /\ worker' = "cancelled"
    /\ down' = "flushing"
    /\ UNCHANGED <<ring, batch, delivered, enqVars>>

\* ... or the deadline passes and it is cancelled, in the middle of an export
\* if it is in one: the exporter may or may not have sent the batch.
JoinTimesOut ==
    /\ down = "joining"
    /\ worker \in {"waiting", "exporting"}
    /\ worker' = "cancelled"
    /\ down' = "flushing"
    /\ batch' = <<>>
    /\ \/ UNCHANGED delivered
       \/ delivered' = [delivered EXCEPT ![1] = @ \o batch]
    /\ UNCHANGED <<ring, enqVars>>

\* Each exporter's flush() is given 3 s and its errors are logged.
FlushExporters ==
    /\ down = "flushing"
    /\ down' = "returned"
    /\ UNCHANGED <<ring, worker, batch, delivered, enqVars>>

Shutdown == OthersStopped \/ JoinEnded \/ JoinTimesOut \/ FlushExporters

Next ==
    \/ Enqueue
    \/ Worker
    \/ ExportReturns
    \/ ExportRaises
    \/ ShutdownBegins
    \/ Shutdown

Spec == Init /\ [][Next]_vars

\* The loop keeps running the worker and, once it is called, shutdown().
\* Nothing makes an exporter answer.
Fairness == WF_vars(Worker) /\ WF_vars(Shutdown)

FairSpec == Spec /\ Fairness
-----------------------------------------------------------------------------
\* No micro-span is lost by the aggregator or put into two aggregates, through
\* flushes by count, by window, by a root of any trace and by shutdown.
MicrosConserved == micros = flushed \o aggBuf

\* _aggregation_src_ctx is the context of the first buffered micro-span: the
\* "unknown" agent of _aggregate_to_span "should not happen with proper flush".
SourceIsFirst ==
    aggTrace = IF aggBuf = <<>> THEN NoTrace ELSE aggBuf[1].trace

\* The buffers keep their types and the aggregator loses no micro-span and
\* never forgets whose they are.
PipelineSafe == TypeOK /\ MicrosConserved /\ SourceIsFirst

\* The positions of the spans of p's trace that the ring took up to p.
UpTo(p) == {q \in 1..p : accepted[q].trace = accepted[p].trace}

\* What the spans of trace t among the first n of acc cost together.
CostUpTo(acc, t, n) ==
    LET sum[q \in 0..n] ==
            IF q = 0 THEN 0
            ELSE sum[q - 1] + (IF acc[q].trace = t THEN acc[q].cost ELSE 0)
    IN  sum[n]

Roots == {p \in 1..Len(accepted) : accepted[p].kind = "root"}

\* A root that carries totals carries the right ones: the number of spans of
\* its trace that were accepted, their cost, whether it is over budget, and
\* "error" if any of them failed.
TotalsRight ==
    \A p \in {r \in Roots : accepted[r].stamp # NoStamp} :
        LET cost == CostUpTo(accepted, accepted[p].trace, p)
        IN  /\ accepted[p].stamp.steps = Cardinality(UpTo(p))
            /\ accepted[p].stamp.cost = cost
            /\ (accepted[p].stamp.over = "true") <=> (cost > CostThreshold)
            /\ (accepted[p].status = "error") <=>
                    \E q \in UpTo(p) : accepted[q].status = "error"

\* A trace that is over keeps an entry in _trace_agg only if its root was
\* dropped by a full ring or if one of its tasks outlived it.
LeaksExplained ==
    \A t \in DOMAIN traceAgg \intersect ended :
        t \in LateTraces \/ \A p \in Roots : accepted[p].trace # t

\* The trace totals: right on every root that carries them, and left in memory
\* only for a root dropped or a task that outlived it.
TracesAccounted == TotalsRight /\ LeaksExplained

\* shutdown() returns or raises, even if an exporter never answers.
ShutdownEnds == ShutdownSet ~> down \in {"returned", "raised"}

\* The first exporter gets accepted spans in order, none twice.
Delivery == INSTANCE SpanDelivery
            WITH count <- Len(accepted), pending <- batch \o ring, out <- delivered[1]
DeliverySpec == Delivery!Spec
-----------------------------------------------------------------------------
\* _export_worker: it "continues draining any remaining spans until the queue
\* is empty before exiting", so a worker that exits has exported them all.
DrainedOnExit ==
    [][worker' = "exited" /\ worker # "exited" =>
          \A e \in 1..NExporters :
              1..Len(accepted) \subseteq {delivered[e][i] : i \in 1..Len(delivered[e])}]_vars

\* tests/test_export_worker.py, after an exporter raised: "Worker should still
\* be alive".
WorkerSurvives == worker # "dead"

\* _aggregate_to_span means to "preserve tenant_id from the original
\* micro-spans": an aggregate never mixes spans of different traces.
OneTracePerAggregate ==
    \A p \in 1..Len(accepted) : \A i \in 1..Len(accepted[p].micros) :
        accepted[p].micros[i].trace = accepted[p].trace

\* README: a micro-step span is "buffered by SpanAggregator into an aggregated
\* span": it reaches the ring inside its aggregate and not on its own too.
NotSentTwice ==
    \A p, q \in 1..Len(accepted) : \A i \in 1..Len(accepted[q].micros) :
        accepted[p].no # accepted[q].micros[i].no

\* _accumulate_trace_aggregates stamps the root with "the error flag": no
\* failed step of the trace is hidden from it.
ErrorsReachRoot ==
    \A p \in Roots :
        (accepted[p].stamp # NoStamp
           /\ \E i \in 1..Len(flushed) : /\ flushed[i].trace = accepted[p].trace
                                          /\ flushed[i].status = "error"
                                          /\ flushed[i].no < accepted[p].no)
            => accepted[p].status = "error"
=============================================================================
