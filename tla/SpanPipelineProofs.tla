------------------------- MODULE SpanPipelineProofs -------------------------
(***************************************************************************)
(* Proofs about SpanPipeline, for every set of traces and offers, ring     *)
(* size, aggregation size and number of exporters.                         *)
(***************************************************************************)
EXTENDS SpanPipeline, FiniteFacts, SequenceTheorems

\* The aggregator's own part of the invariant: the types it needs, and the
\* two facts the runs check.
AggInv ==
    /\ offered \in Nat
    /\ aggBuf \in Seq(Micro)
    /\ flushed \in Seq(Micro)
    /\ micros \in Seq(Micro)
    /\ SourceIsFirst
    /\ MicrosConserved

\* A micro-span as _enqueue hands it to the aggregator has the right shape.
LEMMA MicroType ==
    ASSUME offered \in Nat, NEW o \in Offers, NEW t \in Traces
    PROVE  MicroOf(o, t) \in Micro /\ MicroOf(o, t).trace = t
  BY PipelineAssumption DEF MicroOf, Micro

\* The empty sequence is neutral.
LEMMA EmptyConcat ==
    ASSUME NEW S, NEW a \in Seq(S)
    PROVE  a \o <<>> = a /\ <<>> \o a = a
  OBVIOUS

\* What Append does to the first element.
LEMMA AppendFirst ==
    ASSUME NEW S, NEW a \in Seq(S), NEW x \in S
    PROVE  /\ Append(a, x) \in Seq(S)
           /\ Append(a, x) # <<>>
           /\ a = <<>> => Append(a, x)[1] = x
           /\ a # <<>> => Append(a, x)[1] = a[1]
  OBVIOUS

\* The aggregator keeps every micro-span in exactly one place, and its source
\* context belongs to the first of them, whatever flushes it.
THEOREM AggregationInvariant == Spec => []AggInv
<1>1. Init => AggInv
  BY EmptyConcat DEF Init, AggInv, SourceIsFirst, MicrosConserved
<1>2. AggInv /\ [Next]_vars => AggInv'
  <2> SUFFICES ASSUME AggInv, [Next]_vars PROVE AggInv'
    OBVIOUS
  <2>1. ASSUME NEW o \in Offers, NEW t \in Traces, EnqueueMicro(o, t)
        PROVE  AggInv'
    <3> DEFINE x == MicroOf(o, t)
    <3>1. x \in Micro /\ x.trace = t
      BY MicroType DEF AggInv
    <3> HIDE DEF x
    <3>2. /\ offered' = offered + 1
          /\ micros' = Append(micros, x)
          /\ aggBuf' = Append(aggBuf, x)
          /\ aggTrace' = Source(t)
          /\ flushed' = flushed
      BY <2>1 DEF EnqueueMicro, x
    <3>3. SourceIsFirst'
      <4>1. CASE aggBuf = <<>>
        <5>1. aggTrace' = t
          BY <3>2, <4>1 DEF AggInv, SourceIsFirst, Source
        <5>2. aggBuf' # <<>> /\ aggBuf'[1] = x
          BY <3>1, <3>2, <4>1, AppendFirst DEF AggInv
        <5> QED
          BY <3>1, <5>1, <5>2 DEF SourceIsFirst
      <4>2. CASE aggBuf # <<>>
        <5>1. aggBuf[1].trace \in Traces
          <6>1. aggBuf[1] \in Micro
            BY <4>2 DEF AggInv
          <6> QED
            BY <6>1 DEF Micro
        <5>2. aggTrace' = aggBuf[1].trace
          BY <3>2, <4>2, <5>1, PipelineAssumption DEF AggInv, SourceIsFirst, Source
        <5>3. aggBuf' # <<>> /\ aggBuf'[1] = aggBuf[1]
          BY <3>1, <3>2, <4>2, AppendFirst DEF AggInv
        <5> QED
          BY <5>2, <5>3 DEF SourceIsFirst
      <4> QED
        BY <4>1, <4>2
    <3>4. MicrosConserved'
      <4>0. flushed \in Seq(Micro) /\ aggBuf \in Seq(Micro) /\ x \in Micro
        BY <3>1 DEF AggInv
      <4>1. Append(flushed \o aggBuf, x) = flushed \o Append(aggBuf, x)
        BY <4>0
      <4> QED
        BY <3>2, <4>1, Zenon DEF AggInv, MicrosConserved
    <3> QED
      BY <3>1, <3>2, <3>3, <3>4, AppendFirst DEF AggInv
  <2>2. ASSUME NEW o \in Offers, NEW t \in Traces, EnqueueMicroFlush(o, t)
        PROVE  AggInv'
    <3> DEFINE x == MicroOf(o, t)
    <3>1. x \in Micro
      BY MicroType DEF AggInv
    <3> HIDE DEF x
    <3>2. /\ offered' = offered + 1
          /\ micros' = Append(micros, x)
          /\ aggBuf' = <<>>
          /\ aggTrace' = NoTrace
          /\ flushed' = flushed \o Append(aggBuf, x)
      BY <2>2 DEF EnqueueMicroFlush, ClearAggregation, x
    <3>3. flushed' \in Seq(Micro) /\ micros' \in Seq(Micro)
      BY <3>1, <3>2, AppendFirst DEF AggInv
    <3>4. MicrosConserved'
      <4>0. flushed \in Seq(Micro) /\ aggBuf \in Seq(Micro) /\ x \in Micro
        BY <3>1 DEF AggInv
      <4>1. Append(flushed \o aggBuf, x) = flushed \o Append(aggBuf, x)
        BY <4>0
      <4>2. flushed' \o <<>> = flushed'
        BY <3>3, EmptyConcat
      <4> QED
        BY <3>2, <4>1, <4>2, Zenon DEF AggInv, MicrosConserved
    <3> QED
      BY <3>2, <3>3, <3>4 DEF AggInv, SourceIsFirst
  <2>3. ASSUME NEW o \in Offers, NEW t \in Traces, EnqueueCall(o, t)
        PROVE  AggInv'
    BY <2>3 DEF EnqueueCall, AggInv, SourceIsFirst, MicrosConserved
  <2>4. ASSUME aggBuf' = <<>>, aggTrace' = NoTrace, flushed' = flushed \o aggBuf,
               UNCHANGED micros, offered' \in Nat
        PROVE  AggInv'
    BY <2>4, EmptyConcat DEF AggInv, SourceIsFirst, MicrosConserved
  <2>5. ASSUME NEW o \in Offers, NEW t \in Traces, EnqueueRoot(o, t)
        PROVE  AggInv'
    BY <2>4, <2>5 DEF EnqueueRoot, ClearAggregation, AggInv
  <2>6. CASE ShutdownBegins
    BY <2>4, <2>6 DEF ShutdownBegins, ClearAggregation, AggInv
  <2>7. ASSUME UNCHANGED enqVars PROVE AggInv'
    BY <2>7 DEF enqVars, AggInv, SourceIsFirst, MicrosConserved
  <2>8. CASE Worker \/ ExportReturns \/ ExportRaises \/ Shutdown
    BY <2>7, <2>8 DEF Worker, WorkerTakesOne, WorkerTakesTwo, WorkerTimesOut,
       ExportReturns, ExportRaises, Shutdown, OthersStopped, JoinEnded,
       JoinTimesOut, FlushExporters
  <2>9. CASE UNCHANGED vars
    BY <2>7, <2>9 DEF vars, enqVars
  <2> QED
    BY <2>1, <2>2, <2>3, <2>5, <2>6, <2>8, <2>9 DEF Next, Enqueue
<1> QED
  BY <1>1, <1>2, PTL DEF Spec

\* No micro-span is lost by the aggregator or put into two aggregates.
THEOREM NoMicroLost == Spec => []MicrosConserved
  BY AggregationInvariant, PTL DEF AggInv

\* The fallback context of _aggregate_to_span is never used.
THEOREM SourceKnown == Spec => []SourceIsFirst
  BY AggregationInvariant, PTL DEF AggInv
-----------------------------------------------------------------------------
\* What TypeOK says of _trace_agg, and that it is finite.
AggOK(ta) ==
    /\ DOMAIN ta \subseteq Traces
    /\ \A t \in DOMAIN ta : ta[t] \in Totals
    /\ IsFiniteSet(DOMAIN ta)
    /\ Cardinality(DOMAIN ta) <= MaxTraceAgg

\* Counting a span in keeps the totals of a trace well formed.
LEMMA AddToType ==
    ASSUME NEW tot \in Totals, NEW s \in Span
    PROVE  AddTo(tot, s) \in Totals
  BY DEF AddTo, Totals, Span, Status

LEMMA TotalsOfType ==
    ASSUME NEW ta, AggOK(ta), NEW t
    PROVE  TotalsOf(ta, t) \in Totals
  BY DEF AggOK, TotalsOf, Zero, Totals, Status

\* The memory guard of _accumulate_trace_aggregates holds: an accepted span
\* never takes _trace_agg past its cap.
LEMMA AccumulateType ==
    ASSUME NEW ta, AggOK(ta), NEW s \in Span
    PROVE  AggOK(Accumulate(ta, s))
<1>0. s.trace \in Traces
  BY DEF Span
<1>1. CASE ~Counted(ta, s.trace)
  BY <1>1 DEF Accumulate
<1>2. CASE Counted(ta, s.trace) /\ s.kind = "root"
  <2> DEFINE new == [t \in DOMAIN ta \ {s.trace} |-> ta[t]]
  <2>1. Accumulate(ta, s) = new
    BY <1>2 DEF Accumulate
  <2>2. /\ IsFiniteSet(DOMAIN ta \ {s.trace})
        /\ Cardinality(DOMAIN ta \ {s.trace}) <= Cardinality(DOMAIN ta)
    BY FS_Subset DEF AggOK
  <2>3. Cardinality(DOMAIN ta) \in Nat /\ Cardinality(DOMAIN ta \ {s.trace}) \in Nat
    BY <2>2, FS_CardinalityType DEF AggOK
  <2>4. DOMAIN new = DOMAIN ta \ {s.trace}
    OBVIOUS
  <2>5. \A t \in DOMAIN new : new[t] \in Totals
    BY DEF AggOK
  <2> QED
    BY <2>1, <2>2, <2>3, <2>4, <2>5, PipelineAssumption DEF AggOK
<1>3. CASE Counted(ta, s.trace) /\ s.kind # "root"
  <2> DEFINE new == [t \in DOMAIN ta \union {s.trace} |->
                        IF t = s.trace THEN AddTo(TotalsOf(ta, t), s) ELSE ta[t]]
  <2>1. Accumulate(ta, s) = new
    BY <1>3 DEF Accumulate
  <2>2. /\ IsFiniteSet(DOMAIN ta \union {s.trace})
        /\ Cardinality(DOMAIN ta \union {s.trace}) =
             IF s.trace \in DOMAIN ta THEN Cardinality(DOMAIN ta)
             ELSE Cardinality(DOMAIN ta) + 1
    BY FS_AddElement DEF AggOK
  <2>3. Cardinality(DOMAIN ta) \in Nat
    BY FS_CardinalityType DEF AggOK
  <2>4. Cardinality(DOMAIN ta \union {s.trace}) <= MaxTraceAgg
    BY <1>3, <2>2, <2>3, PipelineAssumption DEF Counted, AggOK
  <2>5. DOMAIN new = DOMAIN ta \union {s.trace}
    OBVIOUS
  <2>6. \A t \in DOMAIN new : new[t] \in Totals
    BY AddToType, TotalsOfType DEF AggOK
  <2> QED
    BY <1>0, <2>1, <2>2, <2>4, <2>5, <2>6 DEF AggOK
<1> QED
  BY <1>1, <1>2, <1>3

\* A stamped root is still a span.
LEMMA StampedType ==
    ASSUME NEW ta, AggOK(ta), NEW s \in Span
    PROVE  Stamped(ta, s) \in Span
<1> DEFINE tot == AddTo(TotalsOf(ta, s.trace), s)
<1>1. tot \in Totals
  BY AddToType, TotalsOfType
<1>2. StampOf(tot) \in Stamp
  BY <1>1 DEF StampOf, Stamp, Totals
<1>3. tot.status \in Status
  BY <1>1 DEF Totals
<1> HIDE DEF tot
<1>4. [s EXCEPT !.stamp = StampOf(tot), !.status = tot.status] \in Span
  BY <1>2, <1>3 DEF Span
<1> QED
  BY <1>4 DEF Stamped, tot

\* What TypeOK says of the three variables put_nowait works on.
TankOK(tank) ==
    /\ tank.accepted \in Seq(Span)
    /\ tank.ring \in Seq(1..Len(tank.accepted))
    /\ Len(tank.ring) <= RingSize
    /\ AggOK(tank.traceAgg)

\* A sequence of positions stays one when more spans are accepted.
LEMMA PositionsGrow ==
    ASSUME NEW m \in Nat, NEW n \in Nat, m <= n, NEW q \in Seq(1..m)
    PROVE  q \in Seq(1..n)
<1>1. Len(q) \in Nat /\ \A i \in 1..Len(q) : q[i] \in 1..n
  OBVIOUS
<1>2. q = [i \in 1..Len(q) |-> q[i]]
  OBVIOUS
<1> QED
  BY <1>1, <1>2

\* One put_nowait: the tank stays well formed, and either nothing changed or
\* the next position was appended to the ring.
LEMMA PutType ==
    ASSUME NEW tank, TankOK(tank), NEW s \in Span
    PROVE  /\ TankOK(Put(tank, s))
           /\ \/ Put(tank, s) = tank
              \/ /\ Put(tank, s).ring = Append(tank.ring, Len(tank.accepted) + 1)
                 /\ Len(Put(tank, s).accepted) = Len(tank.accepted) + 1
<1>1. CASE Len(tank.ring) < RingSize
  <2> DEFINE n == Len(tank.accepted)
             r == Append(tank.ring, n + 1)
             a == Append(tank.accepted, Stamped(tank.traceAgg, s))
             g == Accumulate(tank.traceAgg, s)
  <2>1. Put(tank, s) = Tank(r, a, g)
    BY <1>1 DEF Put
  <2>2. n \in Nat
    BY DEF TankOK
  <2>3. Stamped(tank.traceAgg, s) \in Span /\ AggOK(g)
    BY StampedType, AccumulateType DEF TankOK
  <2>4. a \in Seq(Span) /\ Len(a) = n + 1
    BY <2>3 DEF TankOK
  <2>5. tank.ring \in Seq(1..(n + 1))
    BY <2>2, PositionsGrow DEF TankOK
  <2>6. r \in Seq(1..(n + 1)) /\ Len(r) = Len(tank.ring) + 1
    BY <2>2, <2>5
  <2>7. Len(r) <= RingSize
    BY <1>1, <2>5, <2>6, PipelineAssumption
  <2> HIDE DEF r, a, g, n
  <2>8. Tank(r, a, g).ring = r /\ Tank(r, a, g).accepted = a /\ Tank(r, a, g).traceAgg = g
    BY DEF Tank
  <2>9. TankOK(Tank(r, a, g))
    BY <2>3, <2>4, <2>6, <2>7, <2>8 DEF TankOK
  <2> QED
    BY <2>1, <2>4, <2>8, <2>9 DEF r, n
<1>2. CASE ~(Len(tank.ring) < RingSize)
  BY <1>2 DEF Put
<1> QED
  BY <1>1, <1>2

\* An agent's span, and an aggregate of a well-formed buffer, are spans.
LEMMA SpanTypes ==
    ASSUME offered \in Nat
    PROVE  /\ \A o \in Offers, t \in Traces : SpanOf(o, t) \in Span
           /\ \A b \in Seq(Micro), t \in Traces : AggregateToSpan(b, t) \in Span
<1>1. ASSUME NEW o \in Offers, NEW t \in Traces PROVE SpanOf(o, t) \in Span
  <2>1. o \in [kind : {"micro", "call", "root"}, cost : Nat, status : Status]
    BY PipelineAssumption
  <2>2. <<>> \in Seq(Micro)
    OBVIOUS
  <2> QED
    BY <2>1, <2>2 DEF SpanOf, Span, Kinds
<1>2. ASSUME NEW b \in Seq(Micro), NEW t \in Traces
      PROVE  AggregateToSpan(b, t) \in Span
  BY <1>2 DEF AggregateToSpan, Span, Kinds, Status
<1> QED
  BY <1>1, <1>2

\* new is old with the next position, or the next two, put into the ring.
Grown(old, new) ==
    LET n == Len(old.accepted)
    IN  \/ /\ new.ring = old.ring
           /\ Len(new.accepted) = n
        \/ /\ new.ring = Append(old.ring, n + 1)
           /\ Len(new.accepted) = n + 1
        \/ /\ new.ring = Append(Append(old.ring, n + 1), n + 2)
           /\ Len(new.accepted) = n + 2

\* One put_nowait, and two in a row.
LEMMA PutsGrow ==
    ASSUME NEW tank, TankOK(tank), NEW s \in Span
    PROVE  /\ Grown(tank, Put(tank, s))
           /\ \A r \in Span : /\ TankOK(Put(Put(tank, s), r))
                             /\ Grown(tank, Put(Put(tank, s), r))
<1> DEFINE mid == Put(tank, s)
<1>1. /\ TankOK(mid)
      /\ \/ mid = tank
         \/ /\ mid.ring = Append(tank.ring, Len(tank.accepted) + 1)
            /\ Len(mid.accepted) = Len(tank.accepted) + 1
  BY PutType
<1>2. Len(tank.accepted) \in Nat
  BY DEF TankOK
<1> HIDE DEF mid
<1>3. ASSUME NEW r \in Span
      PROVE  TankOK(Put(mid, r)) /\ Grown(tank, Put(mid, r))
  <2> DEFINE new == Put(mid, r)
  <2>1. /\ TankOK(new)
        /\ \/ new = mid
           \/ /\ new.ring = Append(mid.ring, Len(mid.accepted) + 1)
              /\ Len(new.accepted) = Len(mid.accepted) + 1
    BY <1>1, PutType
  <2> SUFFICES TankOK(new) /\ Grown(tank, new)
    OBVIOUS
  <2> HIDE DEF new
  <2>2. (Len(tank.accepted) + 1) + 1 = Len(tank.accepted) + 2
    BY <1>2
  <2>3. CASE mid = tank
    BY <2>1, <2>3 DEF Grown
  <2>4. CASE new = mid
    BY <1>1, <2>1, <2>4 DEF Grown
  <2>5. CASE mid # tank /\ new # mid
    <3>1. /\ new.ring = Append(Append(tank.ring, Len(tank.accepted) + 1), Len(tank.accepted) + 2)
          /\ Len(new.accepted) = Len(tank.accepted) + 2
      BY <1>1, <2>1, <2>2, <2>5
    <3> QED
      BY <2>1, <3>1 DEF Grown
  <2> QED
    BY <2>3, <2>4, <2>5
<1> QED
  BY <1>1, <1>2, <1>3 DEF Grown, mid

\* The fields of Here are the variables.
LEMMA HereFields ==
    /\ Here.ring = ring /\ Here.accepted = accepted /\ Here.traceAgg = traceAgg
    /\ Here'.ring = ring' /\ Here'.accepted = accepted' /\ Here'.traceAgg = traceAgg'
  BY DEF Here, Tank

\* Setting the variables from a tank transfers what is known of it.
LEMMA SetTankType ==
    ASSUME NEW tank, TankOK(tank), Grown(Here, tank), SetTank(tank)
    PROVE  TankOK(Here)' /\ Grown(Here, Here')
  BY HereFields DEF SetTank, TankOK, Grown

\* _flush_aggregation puts a well-formed span, if any.
LEMMA FlushType ==
    ASSUME AggInv, TankOK(Here)
    PROVE  /\ TankOK(FlushInto(Here)) /\ Grown(Here, FlushInto(Here))
           /\ \A r \in Span : /\ TankOK(Put(FlushInto(Here), r))
                             /\ Grown(Here, Put(FlushInto(Here), r))
<1>1. CASE aggBuf = <<>>
  <2>1. FlushInto(Here) = Here
    BY <1>1 DEF FlushInto
  <2> QED
    BY <2>1, PutsGrow, PutType DEF Grown
<1>2. CASE aggBuf # <<>>
  <2> DEFINE s == AggregateToSpan(aggBuf, aggTrace)
  <2>1. aggTrace \in Traces
    <3>1. aggBuf[1] \in Micro
      BY <1>2 DEF AggInv
    <3> QED
      BY <1>2, <3>1 DEF AggInv, SourceIsFirst, Micro
  <2>2. s \in Span
    BY <2>1, SpanTypes DEF AggInv
  <2>3. FlushInto(Here) = Put(Here, s)
    BY <1>2 DEF FlushInto
  <2> HIDE DEF s
  <2> QED
    BY <2>2, <2>3, PutsGrow, PutType
<1> QED
  BY <1>1, <1>2

\* Every step that touches the ring from the agents' side keeps it well formed
\* and appends the next positions to it.
LEMMA EnqueueGrows ==
    ASSUME AggInv, TankOK(Here), Enqueue \/ ShutdownBegins
    PROVE  TankOK(Here)' /\ Grown(Here, Here')
<1>1. ASSUME NEW o \in Offers, NEW t \in Traces,
             EnqueueMicro(o, t) \/ EnqueueCall(o, t)
      PROVE  TankOK(Here)' /\ Grown(Here, Here')
  <2>1. SpanOf(o, t) \in Span
    BY SpanTypes DEF AggInv
  <2>2. SetTank(Put(Here, SpanOf(o, t)))
    BY <1>1 DEF EnqueueMicro, EnqueueCall
  <2> QED
    BY <2>1, <2>2, PutType, PutsGrow, SetTankType
<1>2. ASSUME NEW o \in Offers, NEW t \in Traces, EnqueueMicroFlush(o, t)
      PROVE  TankOK(Here)' /\ Grown(Here, Here')
  <2> DEFINE buf == Append(aggBuf, MicroOf(o, t))
  <2>1. buf \in Seq(Micro)
    BY MicroType, AppendFirst DEF AggInv
  <2>2. Source(t) \in Traces
    <3>1. aggBuf # <<>> => aggBuf[1] \in Micro
      BY DEF AggInv
    <3> QED
      BY <3>1 DEF AggInv, SourceIsFirst, Source, Micro
  <2>3. AggregateToSpan(buf, Source(t)) \in Span
    BY <2>1, <2>2, SpanTypes DEF AggInv
  <2>4. SetTank(Put(Here, AggregateToSpan(buf, Source(t))))
    BY <1>2 DEF EnqueueMicroFlush
  <2> QED
    BY <2>3, <2>4, PutType, PutsGrow, SetTankType
<1>3. ASSUME NEW o \in Offers, NEW t \in Traces, EnqueueRoot(o, t)
      PROVE  TankOK(Here)' /\ Grown(Here, Here')
  <2>1. SpanOf(o, t) \in Span
    BY SpanTypes DEF AggInv
  <2>2. SetTank(Put(FlushInto(Here), SpanOf(o, t)))
    BY <1>3 DEF EnqueueRoot
  <2> QED
    BY <2>1, <2>2, FlushType, SetTankType
<1>4. CASE ShutdownBegins
  <2>1. SetTank(FlushInto(Here))
    BY <1>4 DEF ShutdownBegins
  <2> QED
    BY <2>1, FlushType, SetTankType
<1> QED
  BY <1>1, <1>2, <1>3, <1>4 DEF Enqueue
-----------------------------------------------------------------------------
\* The worker's and shutdown's part of the types.
WorkerOK ==
    /\ worker \in {"waiting", "exporting", "exited", "dead", "cancelled"}
    /\ batch \in Seq(1..Len(accepted))
    /\ delivered \in [1..NExporters -> Seq(1..Len(accepted))]
    /\ down \in {"running", "closing", "joining", "flushing", "returned", "raised"}

\* The worker holds spans only while an exporter runs.
BatchOnlyInExport == worker # "exporting" => batch = <<>>

PipeInv ==
    /\ AggInv
    /\ TankOK(Here)
    /\ WorkerOK
    /\ BatchOnlyInExport
    /\ offered \in 0..MaxOffers
    /\ aggTrace \in Traces \union {NoTrace}
    /\ ended \subseteq Traces

\* The parts of PipeInv that only the agents' steps change.
LEMMA AgentTypes ==
    ASSUME PipeInv, [Next]_vars
    PROVE  /\ offered' \in 0..MaxOffers
           /\ aggTrace' \in Traces \union {NoTrace}
           /\ ended' \subseteq Traces
<1>1. ASSUME NEW o \in Offers, NEW t \in Traces,
             \/ EnqueueMicro(o, t) \/ EnqueueMicroFlush(o, t)
             \/ EnqueueCall(o, t) \/ EnqueueRoot(o, t)
      PROVE  /\ offered' \in 0..MaxOffers
             /\ aggTrace' \in Traces \union {NoTrace}
             /\ ended' \subseteq Traces
  BY <1>1, PipelineAssumption
     DEF EnqueueMicro, EnqueueMicroFlush, EnqueueCall, EnqueueRoot, MayEnd,
         ClearAggregation, Source, PipeInv
<1>2. CASE ShutdownBegins
  BY <1>2 DEF ShutdownBegins, ClearAggregation, PipeInv
<1>3. CASE UNCHANGED enqVars
  BY <1>3 DEF enqVars, PipeInv
<1>4. CASE Worker \/ ExportReturns \/ ExportRaises \/ Shutdown \/ UNCHANGED vars
  BY <1>3, <1>4 DEF Worker, WorkerTakesOne, WorkerTakesTwo, WorkerTimesOut,
     ExportReturns, ExportRaises, Shutdown, OthersStopped, JoinEnded,
     JoinTimesOut, FlushExporters, vars, enqVars
<1> QED
  BY <1>1, <1>2, <1>4 DEF Next, Enqueue

\* An agent's step leaves the worker alone; the positions it holds remain
\* positions.
LEMMA WorkerKept ==
    ASSUME PipeInv, TankOK(Here)', Grown(Here, Here'),
           UNCHANGED <<worker, batch, delivered>>,
           down' \in {"running", "closing", "joining", "flushing", "returned", "raised"}
    PROVE  WorkerOK' /\ BatchOnlyInExport'
<1>1. /\ Len(accepted) \in Nat /\ Len(accepted') \in Nat
      /\ Len(accepted) <= Len(accepted')
  <2>1. accepted \in Seq(Span) /\ accepted' \in Seq(Span)
    BY HereFields DEF PipeInv, TankOK
  <2>2. Len(accepted) \in Nat /\ Len(accepted') \in Nat
    BY <2>1
  <2>3. Len(accepted') \in {Len(accepted), Len(accepted) + 1, Len(accepted) + 2}
    BY HereFields DEF Grown
  <2> QED
    BY <2>2, <2>3
<1>2. batch' \in Seq(1..Len(accepted'))
  BY <1>1, PositionsGrow DEF PipeInv, WorkerOK
<1>3. ASSUME NEW e \in 1..NExporters PROVE delivered[e] \in Seq(1..Len(accepted'))
  BY <1>1, PositionsGrow DEF PipeInv, WorkerOK
<1>4. delivered' \in [1..NExporters -> Seq(1..Len(accepted'))]
  BY <1>3 DEF PipeInv, WorkerOK
<1> QED
  BY <1>2, <1>4 DEF PipeInv, WorkerOK, BatchOnlyInExport

\* What the worker and shutdown leave in the ring is well formed.
LEMMA RingShrinks ==
    ASSUME TankOK(Here), UNCHANGED <<accepted, traceAgg>>,
           ring' \in Seq(1..Len(accepted)), Len(ring') <= Len(ring)
    PROVE  TankOK(Here)'
<1>1. Len(ring) \in Nat /\ Len(ring') \in Nat /\ Len(ring) <= RingSize
  BY HereFields DEF TankOK
<1>2. Len(ring') <= RingSize
  BY <1>1, PipelineAssumption
<1> QED
  BY <1>2, HereFields DEF TankOK

\* Every step of the worker and of shutdown's waits preserves its own part.
LEMMA WorkerSteps ==
    ASSUME PipeInv, Worker \/ ExportReturns \/ ExportRaises \/ Shutdown
    PROVE  TankOK(Here)' /\ WorkerOK' /\ BatchOnlyInExport'
<1> DEFINE P == 1..Len(accepted)
<1>1. /\ ring \in Seq(P) /\ batch \in Seq(P) /\ delivered \in [1..NExporters -> Seq(P)]
      /\ 1 \in 1..NExporters
  BY HereFields, PipelineAssumption DEF PipeInv, TankOK, WorkerOK
<1>2. UNCHANGED <<accepted, traceAgg>>
  BY DEF Worker, WorkerTakesOne, WorkerTakesTwo, WorkerTimesOut,
     ExportReturns, ExportRaises, Shutdown, OthersStopped, JoinEnded,
     JoinTimesOut, FlushExporters, enqVars
<1> HIDE DEF P
<1>3. delivered[1] \o batch \in Seq(P)
  BY <1>1
<1>4. [delivered EXCEPT ![1] = @ \o batch] \in [1..NExporters -> Seq(P)]
  BY <1>1, <1>3
<1>5. CASE WorkerTakesOne
  <2>1. Tail(ring) \in Seq(P) /\ Len(Tail(ring)) <= Len(ring)
    BY <1>1, <1>5 DEF WorkerTakesOne
  <2> QED
    BY <1>2, <1>5, <2>1, RingShrinks
       DEF WorkerTakesOne, PipeInv, WorkerOK, BatchOnlyInExport, P
<1>6. CASE WorkerTakesTwo
  <2>1. /\ SubSeq(ring, 1, 2) \in Seq(P)
        /\ SubSeq(ring, 3, Len(ring)) \in Seq(P)
        /\ Len(SubSeq(ring, 3, Len(ring))) <= Len(ring)
    BY <1>1, <1>6 DEF WorkerTakesTwo
  <2>2. TankOK(Here)'
    BY <1>2, <1>6, <2>1, RingShrinks DEF WorkerTakesTwo, PipeInv, P
  <2> QED
    BY <1>2, <1>6, <2>1, <2>2
       DEF WorkerTakesTwo, PipeInv, WorkerOK, BatchOnlyInExport, P
<1>7. ASSUME ring' = ring PROVE TankOK(Here)'
  <2>1. Len(ring') <= Len(ring)
    BY <1>1, <1>7
  <2> QED
    BY <1>1, <1>2, <1>7, <2>1, RingShrinks DEF PipeInv, P
<1>8. <<>> \in Seq(P)
  OBVIOUS
<1>9. CASE ExportReturns \/ ExportRaises
  BY <1>1, <1>2, <1>4, <1>7, <1>8, <1>9
     DEF ExportReturns, ExportRaises, PipeInv, WorkerOK, BatchOnlyInExport, P
<1>10. CASE WorkerTimesOut \/ OthersStopped \/ JoinEnded \/ FlushExporters
  BY <1>1, <1>2, <1>7, <1>10
     DEF WorkerTimesOut, OthersStopped, JoinEnded, FlushExporters,
         PipeInv, WorkerOK, BatchOnlyInExport, P
<1>11. CASE JoinTimesOut
  BY <1>1, <1>2, <1>4, <1>7, <1>8, <1>11
     DEF JoinTimesOut, PipeInv, WorkerOK, BatchOnlyInExport, P
<1> QED
  BY <1>5, <1>6, <1>9, <1>10, <1>11 DEF Worker, Shutdown

\* Everything TypeOK says, together with what makes it inductive: the source
\* context of the aggregator and the worker's empty hands between exports.
THEOREM PipelineInvariant == Spec => []PipeInv
<1>1. Init => PipeInv
  <2> SUFFICES ASSUME Init PROVE PipeInv
    OBVIOUS
  <2>1. AggInv
    BY EmptyConcat DEF Init, AggInv, SourceIsFirst, MicrosConserved
  <2>2. TankOK(Here)
    <3>1. DOMAIN traceAgg = {}
      BY DEF Init
    <3>2. AggOK(traceAgg)
      BY <3>1, FS_EmptySet, PipelineAssumption DEF AggOK
    <3> QED
      BY <3>2, HereFields, PipelineAssumption DEF Init, TankOK
  <2> QED
    BY <2>1, <2>2, PipelineAssumption DEF Init, PipeInv, WorkerOK, BatchOnlyInExport
<1>2. AggInv' /\ PipeInv /\ [Next]_vars => PipeInv'
  <2> SUFFICES ASSUME AggInv', PipeInv, [Next]_vars PROVE PipeInv'
    OBVIOUS
  <2>1. CASE Enqueue \/ ShutdownBegins
    <3>1. TankOK(Here)' /\ Grown(Here, Here')
      BY <2>1, EnqueueGrows DEF PipeInv
    <3>2. /\ UNCHANGED <<worker, batch, delivered>>
          /\ down' \in {"running", "closing", "joining", "flushing", "returned", "raised"}
      BY <2>1 DEF Enqueue, EnqueueMicro, EnqueueMicroFlush, EnqueueCall, EnqueueRoot,
         ShutdownBegins, PipeInv, WorkerOK
    <3> QED
      BY <3>1, <3>2, WorkerKept, AgentTypes DEF PipeInv
  <2>2. CASE Worker \/ ExportReturns \/ ExportRaises \/ Shutdown
    BY <2>2, WorkerSteps, AgentTypes DEF PipeInv
  <2>3. CASE UNCHANGED vars
    BY <2>3, AgentTypes
       DEF vars, PipeInv, WorkerOK, BatchOnlyInExport, Here, TankOK, Tank
  <2> QED
    BY <2>1, <2>2, <2>3 DEF Next
<1> QED
  BY <1>1, <1>2, AggregationInvariant, PTL DEF Spec

\* Type correctness; with it the ring never holds more than RingSize spans and
\* _trace_agg never more than MaxTraceAgg traces.
THEOREM Typing == Spec => []TypeOK
<1>1. PipeInv => TypeOK
  BY HereFields DEF PipeInv, AggInv, TankOK, AggOK, WorkerOK, TypeOK
<1> QED
  BY <1>1, PipelineInvariant, PTL

\* The aggregator and the buffers, through every interleaving with the worker
\* and shutdown().
THEOREM PipelineSafety == Spec => []PipelineSafe
  BY Typing, NoMicroLost, SourceKnown, PTL DEF PipelineSafe
-----------------------------------------------------------------------------
\* Facts about sequences of numbers the refinement needs.
LEMMA AppendsConcat ==
    ASSUME NEW b \in Seq(Nat), NEW r \in Seq(Nat), NEW n \in Nat
    PROVE  /\ b \o Append(r, n + 1) = Append(b \o r, n + 1)
           /\ b \o Append(Append(r, n + 1), n + 2) = Append(Append(b \o r, n + 1), n + 2)
  OBVIOUS

\* Taking a prefix of two apart, and giving a known prefix away.
LEMMA PrefixFacts ==
    ASSUME NEW b \in Seq(Nat), NEW r \in Seq(Nat)
    PROVE  /\ Len(r) >= 2 => SubSeq(r, 1, 2) \o SubSeq(r, 3, Len(r)) = r
           /\ SubSeq(b \o r, 1, Len(b)) = b
           /\ SubSeq(b \o r, Len(b) + 1, Len(b \o r)) = r
           /\ r # <<>> => Tail(r) = SubSeq(r, 2, Len(r))
  OBVIOUS

\* Positions are numbers.
LEMMA PositionsAreNat ==
    ASSUME PipeInv
    PROVE  /\ Len(accepted) \in Nat
           /\ ring \in Seq(Nat) /\ batch \in Seq(Nat)
           /\ delivered[1] \in Seq(Nat)
<1>1. /\ Len(accepted) \in Nat
      /\ ring \in Seq(1..Len(accepted)) /\ batch \in Seq(1..Len(accepted))
      /\ delivered[1] \in Seq(1..Len(accepted))
  BY HereFields, PipelineAssumption DEF PipeInv, TankOK, WorkerOK
<1>2. ASSUME NEW n \in Nat, NEW q \in Seq(1..n) PROVE q \in Seq(Nat)
  <2>1. Len(q) \in Nat /\ \A i \in 1..Len(q) : q[i] \in Nat
    OBVIOUS
  <2>2. q = [i \in 1..Len(q) |-> q[i]]
    OBVIOUS
  <2> QED
    BY <2>1, <2>2
<1> QED
  BY <1>1, <1>2

\* The export path implements SpanDelivery: whatever the agents, the worker,
\* an exporter and shutdown() do, the first exporter is handed accepted spans
\* in order and none twice.
THEOREM ImplementsDelivery == Spec => DeliverySpec
<1>1. Init => Delivery!Init
  BY PipelineAssumption, EmptyConcat DEF Init, Delivery!Init
<1>2. PipeInv /\ [Next]_vars => [Delivery!Next]_(Delivery!vars)
  <2> SUFFICES ASSUME PipeInv, [Next]_vars
               PROVE  Delivery!Next \/ UNCHANGED Delivery!vars
    BY DEF Delivery!vars
  <2>0. /\ Len(accepted) \in Nat
        /\ ring \in Seq(Nat) /\ batch \in Seq(Nat)
        /\ delivered[1] \in Seq(Nat)
    BY PositionsAreNat
  <2>1. CASE Enqueue \/ ShutdownBegins
    <3>1. UNCHANGED <<batch, delivered>>
      BY <2>1 DEF Enqueue, EnqueueMicro, EnqueueMicroFlush, EnqueueCall, EnqueueRoot,
         ShutdownBegins
    <3>2. Grown(Here, Here')
      BY <2>1, EnqueueGrows DEF PipeInv
    <3>3. CASE ring' = ring /\ Len(accepted') = Len(accepted)
      BY <3>1, <3>3 DEF Delivery!vars
    <3>4. CASE /\ ring' = Append(ring, Len(accepted) + 1)
               /\ Len(accepted') = Len(accepted) + 1
      <4>1. batch \o ring' = Append(batch \o ring, Len(accepted) + 1)
        BY <2>0, <3>4, AppendsConcat
      <4> QED
        BY <3>1, <3>4, <4>1 DEF Delivery!Next, Delivery!AcceptOne
    <3>5. CASE /\ ring' = Append(Append(ring, Len(accepted) + 1), Len(accepted) + 2)
               /\ Len(accepted') = Len(accepted) + 2
      <4>1. batch \o ring' =
              Append(Append(batch \o ring, Len(accepted) + 1), Len(accepted) + 2)
        BY <2>0, <3>5, AppendsConcat
      <4> QED
        BY <3>1, <3>5, <4>1 DEF Delivery!Next, Delivery!AcceptTwo
    <3> QED
      BY <3>2, <3>3, <3>4, <3>5, HereFields DEF Grown
  <2>2. CASE WorkerTakesOne
    <3>1. batch = <<>> /\ batch' = <<>> /\ ring # <<>> /\ ring' = SubSeq(ring, 2, Len(ring))
      BY <2>0, <2>2, PrefixFacts DEF WorkerTakesOne, PipeInv, BatchOnlyInExport
    <3>2. batch \o ring = ring /\ batch' \o ring' = SubSeq(ring, 2, Len(ring))
      BY <2>0, <3>1
    <3>3. 1 \in 1..Len(ring)
      BY <2>0, <3>1
    <3> QED
      <4>1. /\ 1 \in 1..Len(batch \o ring)
            /\ batch' \o ring' = SubSeq(batch \o ring, 1 + 1, Len(batch \o ring))
        BY <3>2, <3>3
      <4>2. UNCHANGED <<accepted, delivered>>
        BY <2>2 DEF WorkerTakesOne, enqVars
      <4>3. Delivery!Lose
        BY <4>1, <4>2, Zenon DEF Delivery!Lose
      <4> QED
        BY <4>3 DEF Delivery!Next
  <2>3. CASE WorkerTakesTwo
    <3>1. batch = <<>> /\ batch' \o ring' = ring
      BY <2>0, <2>3, PrefixFacts DEF WorkerTakesTwo, PipeInv, BatchOnlyInExport
    <3>2. batch \o ring = ring
      BY <2>0, <3>1
    <3> QED
      BY <2>3, <3>1, <3>2 DEF WorkerTakesTwo, enqVars, Delivery!vars
  <2>4. ASSUME ring' = ring, batch' = <<>>, UNCHANGED <<accepted>>, 
               \/ delivered'[1] = delivered[1] \o batch
               \/ delivered'[1] = delivered[1]
        PROVE  Delivery!Next \/ UNCHANGED Delivery!vars
    <3>1. batch' \o ring' = ring
      BY <2>0, <2>4
    <3>2. CASE batch = <<>>
      <4>1. batch \o ring = ring /\ delivered[1] \o batch = delivered[1]
        BY <2>0, <3>2
      <4> QED
        BY <2>4, <3>1, <4>1 DEF Delivery!vars
    <3>3. CASE batch # <<>>
      <4>1. /\ SubSeq(batch \o ring, 1, Len(batch)) = batch
            /\ SubSeq(batch \o ring, Len(batch) + 1, Len(batch \o ring)) = ring
        BY <2>0, PrefixFacts
      <4>2. Len(batch) \in 1..Len(batch \o ring)
        BY <2>0, <3>3
      <4> QED
        BY <2>4, <3>1, <4>1, <4>2 DEF Delivery!Next, Delivery!Lose, Delivery!Deliver
    <3> QED
      BY <3>2, <3>3
  <2>5. CASE ExportReturns \/ ExportRaises \/ JoinTimesOut
    BY <2>4, <2>5, PipelineAssumption
       DEF ExportReturns, ExportRaises, JoinTimesOut, enqVars, PipeInv, WorkerOK
  <2>6. CASE \/ WorkerTimesOut \/ OthersStopped \/ JoinEnded \/ FlushExporters
             \/ UNCHANGED vars
    BY <2>6 DEF WorkerTimesOut, OthersStopped, JoinEnded, FlushExporters, enqVars,
       vars, Delivery!vars
  <2> QED
    BY <2>1, <2>2, <2>3, <2>5, <2>6 DEF Next, Worker, Shutdown
<1> QED
  BY <1>1, <1>2, PipelineInvariant, PTL DEF Spec, DeliverySpec, Delivery!Spec

-----------------------------------------------------------------------------
(* What SpanDelivery guarantees an exporter.                                   *)

\* Delivered and pending spans together are in order, and all are numbered up
\* to c: the strengthening that makes InOrder inductive.
Ordered(c, p, o) ==
    /\ c \in Nat /\ p \in Seq(Nat) /\ o \in Seq(Nat)
    /\ Delivery!Increasing(o)
    /\ Delivery!Increasing(p)
    /\ \A i \in 1..Len(p) : p[i] <= c
    /\ \A i \in 1..Len(o), j \in 1..Len(p) : o[i] < p[j]
    /\ \A i \in 1..Len(o) : o[i] <= c

\* Appending the next number keeps all of it.
LEMMA AcceptKeeps ==
    ASSUME NEW n, NEW p, NEW o, Ordered(n, p, o)
    PROVE  Ordered(n + 1, Append(p, n + 1), o)
<1> USE DEF Ordered
<1> DEFINE q == Append(p, n + 1)
<1>1. q \in Seq(Nat) /\ Len(q) = Len(p) + 1 /\ Len(p) \in Nat /\ Len(o) \in Nat
  OBVIOUS
<1>2. q[Len(p) + 1] = n + 1 /\ \A i \in 1..Len(p) : q[i] = p[i]
  OBVIOUS
<1>3. \A i \in 1..Len(p) : p[i] \in Nat
  OBVIOUS
<1>4. \A i \in 1..Len(o) : o[i] \in Nat
  OBVIOUS
<1> HIDE DEF q
<1>a. \A i \in 1..Len(q) : i \in 1..Len(p) \/ i = Len(p) + 1
  BY <1>1
<1>5. Delivery!Increasing(q)
  <2> SUFFICES ASSUME NEW i \in 1..Len(q), NEW j \in 1..Len(q), i < j
               PROVE  q[i] < q[j]
    BY DEF Delivery!Increasing
  <2>1. i \in 1..Len(p)
    BY <1>1
  <2>2. q[i] = p[i] /\ p[i] <= n /\ p[i] \in Nat
    BY <1>2, <1>3, <2>1
  <2>3. CASE j \in 1..Len(p)
    <3>1. p[i] < p[j]
      BY <2>1, <2>3 DEF Delivery!Increasing
    <3> QED
      BY <1>2, <2>2, <2>3, <3>1
  <2>4. CASE j = Len(p) + 1
    BY <1>2, <2>2, <2>4
  <2> QED
    BY <1>a, <2>3, <2>4
<1>6. ASSUME NEW i \in 1..Len(q) PROVE q[i] <= n + 1
  <2>1. CASE i \in 1..Len(p)
    <3>1. q[i] = p[i] /\ p[i] <= n /\ p[i] \in Nat
      BY <1>2, <1>3, <2>1
    <3> QED
      BY <3>1
  <2>2. CASE i = Len(p) + 1
    BY <1>2, <2>2
  <2> QED
    BY <1>a, <2>1, <2>2
<1>7. ASSUME NEW i \in 1..Len(o), NEW j \in 1..Len(q) PROVE o[i] < q[j]
  <2>1. CASE j \in 1..Len(p)
    BY <1>2, <2>1
  <2>2. CASE j = Len(p) + 1
    <3>1. o[i] <= n /\ o[i] \in Nat
      BY <1>4
    <3> QED
      BY <1>2, <2>2, <3>1
  <2> QED
    BY <1>a, <2>1, <2>2
<1>8. \A i \in 1..Len(o) : o[i] <= n + 1
  BY <1>4
<1> QED
  BY <1>1, <1>5, <1>6, <1>7, <1>8 DEF q

\* The elements of a concatenation.
LEMMA ConcatFacts ==
    ASSUME NEW a \in Seq(Nat), NEW b \in Seq(Nat)
    PROVE  /\ a \o b \in Seq(Nat)
           /\ Len(a \o b) = Len(a) + Len(b)
           /\ \A i \in 1..Len(a \o b) :
                 (a \o b)[i] = IF i <= Len(a) THEN a[i] ELSE b[i - Len(a)]
  BY ConcatProperties

\* Handing the first n pending spans over, or dropping them, keeps all of it.
LEMMA LeaveKeeps ==
    ASSUME NEW c, NEW p, NEW o, Ordered(c, p, o), NEW n \in 1..Len(p)
    PROVE  /\ Ordered(c, SubSeq(p, n + 1, Len(p)), o \o SubSeq(p, 1, n))
           /\ Ordered(c, SubSeq(p, n + 1, Len(p)), o)
<1> USE DEF Ordered
<1> DEFINE q == SubSeq(p, n + 1, Len(p))
           h == SubSeq(p, 1, n)
           r == o \o h
<1>1. /\ n \in Nat /\ Len(p) \in Nat /\ Len(o) \in Nat /\ n <= Len(p)
      /\ \A i \in 1..Len(p) : p[i] \in Nat
      /\ \A i \in 1..Len(o) : o[i] \in Nat
  OBVIOUS
<1>2. q \in Seq(Nat) /\ Len(q) = Len(p) - n /\ \A i \in 1..Len(q) : q[i] = p[n + i]
  BY <1>1
<1>3. h \in Seq(Nat) /\ Len(h) = n /\ \A i \in 1..n : h[i] = p[i]
  BY <1>1
<1> HIDE DEF q, h
<1>4. /\ r \in Seq(Nat) /\ Len(r) = Len(o) + Len(h)
      /\ \A i \in 1..Len(r) : r[i] = IF i <= Len(o) THEN o[i] ELSE h[i - Len(o)]
  <2>1. o \in Seq(Nat)
    OBVIOUS
  <2> HIDE DEF Ordered
  <2> QED
    BY <1>3, <2>1, ConcatFacts
<1> HIDE DEF r
<1>5. ASSUME NEW i \in 1..Len(r)
      PROVE  \/ i \in 1..Len(o) /\ r[i] = o[i]
             \/ i > Len(o) /\ i - Len(o) \in 1..n /\ r[i] = p[i - Len(o)]
  <2>1. CASE i <= Len(o)
    BY <1>1, <1>4, <2>1
  <2>2. CASE ~(i <= Len(o))
    <3>1. i - Len(o) \in 1..n
      BY <1>1, <1>3, <1>4, <2>2
    <3> QED
      BY <1>1, <1>3, <1>4, <2>2, <3>1
  <2> QED
    BY <2>1, <2>2
<1>b. ASSUME NEW i \in 1..Len(q) PROVE n + i \in 1..Len(p) /\ q[i] = p[n + i]
  BY <1>1, <1>2
<1>6. Delivery!Increasing(q) /\ \A i \in 1..Len(q) : q[i] <= c
  <2>1. ASSUME NEW i \in 1..Len(q), NEW j \in 1..Len(q), i < j PROVE q[i] < q[j]
    <3>1. n + i < n + j
      BY <1>1, <1>2, <2>1
    <3> QED
      BY <1>b, <3>1 DEF Delivery!Increasing
  <2> QED
    BY <1>b, <2>1 DEF Delivery!Increasing
<1>7. \A i \in 1..Len(o), j \in 1..Len(q) : o[i] < q[j]
  BY <1>b
<1>8. Delivery!Increasing(r)
  <2> SUFFICES ASSUME NEW i \in 1..Len(r), NEW j \in 1..Len(r), i < j
               PROVE  r[i] < r[j]
    BY DEF Delivery!Increasing
  <2>1. CASE j \in 1..Len(o) /\ r[j] = o[j]
    <3>1. i \in 1..Len(o) /\ r[i] = o[i]
      BY <1>1, <1>5, <2>1
    <3> QED
      BY <2>1, <3>1 DEF Delivery!Increasing
  <2>2. CASE j > Len(o) /\ j - Len(o) \in 1..n /\ r[j] = p[j - Len(o)]
    <3>1. j - Len(o) \in 1..Len(p)
      BY <1>1, <2>2
    <3>2. CASE i \in 1..Len(o) /\ r[i] = o[i]
      BY <2>2, <3>1, <3>2
    <3>3. CASE i > Len(o) /\ i - Len(o) \in 1..n /\ r[i] = p[i - Len(o)]
      <4>1. i \in Nat /\ j \in Nat /\ Len(o) \in Nat
        BY <1>1
      <4>2. i - Len(o) \in 1..Len(p)
        BY <1>1, <3>3
      <4>3. i - Len(o) < j - Len(o)
        BY <4>1
      <4> QED
        BY <2>2, <3>1, <3>3, <4>2, <4>3 DEF Delivery!Increasing
    <3> QED
      BY <1>5, <3>2, <3>3
  <2> QED
    BY <1>5, <2>1, <2>2
<1>9. ASSUME NEW i \in 1..Len(r), NEW j \in 1..Len(q) PROVE r[i] < q[j]
  <2>1. CASE i \in 1..Len(o) /\ r[i] = o[i]
    BY <1>7, <2>1
  <2>2. CASE i > Len(o) /\ i - Len(o) \in 1..n /\ r[i] = p[i - Len(o)]
    <3>1. i - Len(o) \in 1..Len(p) /\ i - Len(o) < n + j
      <4>1. n <= Len(p) /\ n \in Nat /\ j \in Nat \ {0} /\ i - Len(o) <= n
        BY <1>1, <1>2, <2>2
      <4> QED
        BY <1>1, <2>2, <4>1
    <3> QED
      BY <1>b, <2>2, <3>1 DEF Delivery!Increasing
  <2> QED
    BY <1>5, <2>1, <2>2
<1>10. ASSUME NEW i \in 1..Len(r) PROVE r[i] <= c
  <2>1. \A k \in 1..n : k \in 1..Len(p)
    BY <1>1
  <2> QED
    BY <1>5, <2>1
<1> QED
  BY <1>2, <1>4, <1>6, <1>7, <1>8, <1>9, <1>10 DEF q, r, h

\* SpanDelivery promises what it should: an exporter sees no span twice and no span
\* before an older one, for every number of spans accepted, delivered and lost.
LEMMA DeliveryInOrder == DeliverySpec => []Delivery!InOrder
<1> DEFINE Inv == Ordered(Len(accepted), batch \o ring, delivered[1])
<1>1. Delivery!Init => Inv
  BY DEF Delivery!Init, Ordered, Delivery!Increasing
<1>2. Inv /\ [Delivery!Next]_(Delivery!vars) => Inv'
  <2> DEFINE count == Len(accepted)
             pending == batch \o ring
             out == delivered[1]
  <2> SUFFICES ASSUME Inv, [Delivery!Next]_(Delivery!vars) PROVE Inv'
    OBVIOUS
  <2>1. CASE Delivery!AcceptOne
    <3>1. count' = count + 1 /\ pending' = Append(pending, count + 1) /\ out' = out
      BY <2>1 DEF Delivery!AcceptOne
    <3> QED
      BY <3>1, AcceptKeeps
  <2>2. CASE Delivery!AcceptTwo
    <3>1. Ordered((count + 1) + 1, Append(Append(pending, count + 1), (count + 1) + 1), out)
      BY AcceptKeeps
    <3>2. (count + 1) + 1 = count + 2
      BY DEF Ordered
    <3>3. count' = count + 2 /\ pending' = Append(Append(pending, count + 1), count + 2) /\ out' = out
      BY <2>2 DEF Delivery!AcceptTwo
    <3> QED
      BY <3>1, <3>2, <3>3
  <2>3. CASE Delivery!Deliver \/ Delivery!Lose
    <3>1. PICK n \in 1..Len(pending) :
            /\ pending' = SubSeq(pending, n + 1, Len(pending)) /\ count' = count
            /\ out' = out \/ out' = out \o SubSeq(pending, 1, n)
      BY <2>3 DEF Delivery!Deliver, Delivery!Lose
    <3> QED
      BY <3>1, LeaveKeeps
  <2>4. CASE UNCHANGED Delivery!vars
    BY <2>4 DEF Delivery!vars
  <2> QED
    BY <2>1, <2>2, <2>3, <2>4 DEF Delivery!Next
<1>3. Inv => Delivery!InOrder
  BY DEF Ordered, Delivery!InOrder
<1> QED
  BY <1>1, <1>2, <1>3, PTL DEF DeliverySpec, Delivery!Spec

\* The first exporter sees no span twice and no span before an older one: what the
\* pipeline does refines SpanDelivery, and SpanDelivery keeps the order.
THEOREM DeliveredInOrder == Spec => []Delivery!InOrder
BY ImplementsDelivery, DeliveryInOrder, PTL

-----------------------------------------------------------------------------
(* The totals of a trace.  While the ring has not taken the root of a trace,   *)
(* its entry in _trace_agg has the totals of what the ring took of it, and the *)
(* root is stamped with them and itself; later spans come after it.  A trace   *)
(* that is over left nothing in the aggregator, because its root flushed it.   *)

\* What the q-th span of acc adds to the cost of trace t.
Share(acc, t, q) == IF acc[q].trace = t THEN acc[q].cost ELSE 0

\* f has the partial sums of the shares.
PartialSums(f, acc, t, n) ==
    /\ f \in [0..n -> Nat]
    /\ f[0] = 0
    /\ \A q \in 1..n : f[q] = f[q - 1] + Share(acc, t, q)

LEMMA SharesAreNumbers ==
    ASSUME NEW acc \in Seq(Span), NEW t, NEW q \in 1..Len(acc)
    PROVE  Share(acc, t, q) \in Nat
<1>1. acc[q] \in Span
  OBVIOUS
<1> QED
  BY <1>1 DEF Share, Span

\* There are partial sums: the least length without them would be one more than
\* a length that has them.
LEMMA PartialSumsExist ==
    ASSUME NEW acc \in Seq(Span), NEW t, NEW n \in 0..Len(acc)
    PROVE  \E f : PartialSums(f, acc, t, n)
<1> DEFINE Without == {m \in 0..Len(acc) : ~\E f : PartialSums(f, acc, t, m)}
<1> SUFFICES ASSUME Without # {} PROVE FALSE
  OBVIOUS
<1>1. PICK m \in Without : \A k \in Without : m <= k
  <2>1. Without \in SUBSET Nat
    OBVIOUS
  <2> QED
    BY <2>1, LeastNumber
<1>2. m \in 0..Len(acc)
  OBVIOUS
<1>3. m # 0
  <2>1. PartialSums([q \in 0..0 |-> 0], acc, t, 0)
    BY DEF PartialSums
  <2> QED
    BY <1>1, <2>1
<1>4. PICK f : PartialSums(f, acc, t, m - 1)
  <2>1. m - 1 \in 0..Len(acc) /\ m - 1 \notin Without
    BY <1>1, <1>2, <1>3
  <2> QED
    BY <2>1
<1> DEFINE g == [q \in 0..m |-> IF q = m THEN f[m - 1] + Share(acc, t, m) ELSE f[q]]
<1>5. PartialSums(g, acc, t, m)
  <2>1. Share(acc, t, m) \in Nat
    BY <1>2, <1>3, SharesAreNumbers
  <2>2. \A q \in 0..(m - 1) : g[q] = f[q] /\ f[q] \in Nat
    BY <1>2, <1>4 DEF PartialSums
  <2>3. g[m] = f[m - 1] + Share(acc, t, m) /\ g[m] \in Nat
    <3>1. m \in 0..m /\ m - 1 \in 0..(m - 1)
      BY <1>2, <1>3
    <3>2. f[m - 1] \in Nat
      BY <2>2, <3>1
    <3> QED
      BY <2>1, <3>1, <3>2
  <2>4. g \in [0..m -> Nat]
    <3>1. \A q \in 0..m : q = m \/ q \in 0..(m - 1)
      BY <1>2
    <3>2. \A q \in 0..m : g[q] \in Nat
      BY <2>2, <2>3, <3>1
    <3> QED
      BY <3>2
  <2>5. ASSUME NEW q \in 1..m PROVE g[q] = g[q - 1] + Share(acc, t, q)
    <3>1. CASE q = m
      BY <1>2, <1>3, <2>2, <2>3, <3>1
    <3>2. CASE q # m
      <4>1. q \in 0..(m - 1) /\ q - 1 \in 0..(m - 1) /\ q \in 1..(m - 1)
        BY <1>2, <3>2
      <4> QED
        BY <1>4, <2>2, <4>1 DEF PartialSums
    <3> QED
      BY <3>1, <3>2
  <2>6. g[0] = 0
    BY <1>2, <1>3, <1>4, <2>2 DEF PartialSums
  <2> HIDE DEF g
  <2> QED
    BY <2>4, <2>5, <2>6 DEF PartialSums
<1> QED
  BY <1>1, <1>5

\* CostUpTo is the last of any partial sums.
LEMMA CostIsPartialSum ==
    ASSUME NEW acc \in Seq(Span), NEW t, NEW n \in 0..Len(acc),
           NEW f, PartialSums(f, acc, t, n)
    PROVE  CostUpTo(acc, t, n) = f[n]
<1> DEFINE Body(h) == [q \in 0..n |-> IF q = 0 THEN 0 ELSE h[q - 1] + Share(acc, t, q)]
           c == CHOOSE h : h = Body(h)
<1>1. CostUpTo(acc, t, n) = c[n]
  BY DEF CostUpTo, Share
<1>2. f = Body(f)
  <2>1. \A q \in 0..n : f[q] = Body(f)[q]
    BY DEF PartialSums
  <2> QED
    BY <2>1 DEF PartialSums
<1>3. c = Body(c)
  BY <1>2
<1> HIDE DEF c
<1>4. \A q \in 0..n : c[q] = IF q = 0 THEN 0 ELSE c[q - 1] + Share(acc, t, q)
  BY <1>3
<1> DEFINE Differ == {q \in 0..n : c[q] # f[q]}
<1>5. Differ = {}
  <2> SUFFICES ASSUME Differ # {} PROVE FALSE
    OBVIOUS
  <2>1. PICK q \in Differ : \A k \in Differ : q <= k
    <3>1. Differ \in SUBSET Nat
      OBVIOUS
    <3> QED
      BY <3>1, LeastNumber
  <2>2. q # 0
    BY <1>4 DEF PartialSums
  <2>3. q - 1 \in 0..n /\ q \in 1..n
    BY <2>2
  <2>4. c[q - 1] = f[q - 1]
    BY <2>1, <2>3
  <2>5. c[q] = f[q]
    BY <1>4, <2>2, <2>3, <2>4 DEF PartialSums
  <2> QED
    BY <2>5
<1> QED
  BY <1>1, <1>5

LEMMA CostOfNothing ==
    ASSUME NEW t
    PROVE  CostUpTo(<<>>, t, 0) = 0
<1>1. <<>> \in Seq(Span) /\ Len(<<>>) = 0 /\ 0 \in 0..0
  OBVIOUS
<1>2. PartialSums([q \in 0..0 |-> 0], <<>>, t, 0)
  BY DEF PartialSums
<1> QED
  BY <1>1, <1>2, CostIsPartialSum

\* One more span accepted: what was summed stays, and its own cost is added.
LEMMA CostGrows ==
    ASSUME NEW acc \in Seq(Span), NEW s \in Span, NEW t
    PROVE  /\ \A n \in 0..Len(acc) : /\ CostUpTo(acc, t, n) \in Nat
                                    /\ CostUpTo(Append(acc, s), t, n) = CostUpTo(acc, t, n)
           /\ CostUpTo(Append(acc, s), t, Len(acc) + 1) =
                CostUpTo(acc, t, Len(acc)) + (IF s.trace = t THEN s.cost ELSE 0)
<1> DEFINE new == Append(acc, s)
<1>1. new \in Seq(Span) /\ Len(new) = Len(acc) + 1 /\ Len(acc) \in Nat
  OBVIOUS
<1>2. \A q \in 1..Len(acc) : new[q] = acc[q]
  OBVIOUS
<1>3. new[Len(acc) + 1] = s
  OBVIOUS
<1> HIDE DEF new
<1>5. ASSUME NEW n \in 0..Len(acc), NEW f, PartialSums(f, new, t, n)
      PROVE  /\ f[n] \in Nat
             /\ CostUpTo(new, t, n) = f[n]
             /\ CostUpTo(acc, t, n) = f[n]
  <2>1. PartialSums(f, acc, t, n)
    <3>1. \A q \in 1..n : q \in 1..Len(acc)
      BY <1>1
    <3>2. \A q \in 1..n : Share(new, t, q) = Share(acc, t, q)
      BY <1>2, <3>1 DEF Share
    <3> QED
      BY <1>5, <3>2 DEF PartialSums
  <2>2. n \in 0..Len(new)
    BY <1>1
  <2>3. f[n] \in Nat
    BY <1>5 DEF PartialSums
  <2> QED
    BY <1>1, <1>5, <2>1, <2>2, <2>3, CostIsPartialSum
<1>6. ASSUME NEW n \in 0..Len(acc)
      PROVE  CostUpTo(acc, t, n) \in Nat /\ CostUpTo(new, t, n) = CostUpTo(acc, t, n)
  <2>1. n \in 0..Len(new)
    BY <1>1
  <2>2. \E f : PartialSums(f, new, t, n)
    BY <1>1, <2>1, PartialSumsExist
  <2> QED
    BY <1>5, <2>2
<1>7. CostUpTo(new, t, Len(acc) + 1) = CostUpTo(acc, t, Len(acc)) + Share(new, t, Len(acc) + 1)
  <2>1. Len(acc) + 1 \in 0..Len(new)
    BY <1>1
  <2>2. PICK f : PartialSums(f, new, t, Len(acc) + 1)
    BY <1>1, <2>1, PartialSumsExist
  <2> DEFINE g == [q \in 0..Len(acc) |-> f[q]]
  <2>3. PartialSums(g, new, t, Len(acc))
    BY <1>1, <2>2 DEF PartialSums
  <2>4. g[Len(acc)] = f[Len(acc)] /\ Len(acc) \in 0..Len(acc)
    BY <1>1
  <2> HIDE DEF g
  <2>5. CostUpTo(acc, t, Len(acc)) = f[Len(acc)]
    BY <1>5, <2>3, <2>4
  <2>6. CostUpTo(new, t, Len(acc) + 1) = f[Len(acc) + 1]
    BY <1>1, <2>1, <2>2, CostIsPartialSum
  <2>7. f[Len(acc) + 1] = f[Len(acc)] + Share(new, t, Len(acc) + 1)
    <3>1. Len(acc) + 1 \in 1..(Len(acc) + 1) /\ (Len(acc) + 1) - 1 = Len(acc)
      BY <1>1
    <3> QED
      BY <2>2, <3>1 DEF PartialSums
  <2> QED
    BY <2>5, <2>6, <2>7
<1> QED
  BY <1>3, <1>6, <1>7 DEF Share, new

\* The positions of the spans of trace t among the first n of acc.
OfTrace(acc, t, n) == {q \in 1..n : acc[q].trace = t}

\* acc has the root of trace t.
RootIn(acc, t) == \E p \in 1..Len(acc) : acc[p].kind = "root" /\ acc[p].trace = t

\* tot has the totals of what acc holds of trace t.
TotalsMatch(tot, acc, t) ==
    /\ tot.steps = Cardinality(OfTrace(acc, t, Len(acc)))
    /\ tot.cost = CostUpTo(acc, t, Len(acc))
    /\ (tot.status = "error") <=> \E q \in OfTrace(acc, t, Len(acc)) : acc[q].status = "error"

\* What TotalsRight says of the root at position p.
StampRight(acc, p) ==
    LET t == acc[p].trace
        cost == CostUpTo(acc, t, p)
    IN  /\ acc[p].stamp.steps = Cardinality(OfTrace(acc, t, p))
        /\ acc[p].stamp.cost = cost
        /\ (acc[p].stamp.over = "true") <=> (cost > CostThreshold)
        /\ (acc[p].status = "error") <=> \E q \in OfTrace(acc, t, p) : acc[q].status = "error"

TankTotals(tank) ==
    /\ \A t \in Traces : ~RootIn(tank.accepted, t) =>
            TotalsMatch(TotalsOf(tank.traceAgg, t), tank.accepted, t)
    /\ \A p \in 1..Len(tank.accepted) :
            tank.accepted[p].kind = "root" /\ tank.accepted[p].stamp # NoStamp =>
                StampRight(tank.accepted, p)

\* A span accepted joins the positions of its own trace and of no other.
LEMMA OfTraceGrows ==
    ASSUME NEW acc \in Seq(Span), NEW r \in Span, NEW t
    PROVE  /\ \A n \in 0..Len(acc) : OfTrace(Append(acc, r), t, n) = OfTrace(acc, t, n)
           /\ OfTrace(Append(acc, r), t, Len(acc) + 1) =
                OfTrace(acc, t, Len(acc)) \union (IF r.trace = t THEN {Len(acc) + 1} ELSE {})
           /\ IsFiniteSet(OfTrace(acc, t, Len(acc)))
           /\ Len(acc) + 1 \notin OfTrace(acc, t, Len(acc))
           /\ r.trace = t => Cardinality(OfTrace(Append(acc, r), t, Len(acc) + 1)) =
                                Cardinality(OfTrace(acc, t, Len(acc))) + 1
<1> DEFINE new == Append(acc, r)
           n == Len(acc)
<1>1. n \in Nat
  OBVIOUS
<1>2. (\A q \in 1..n : new[q] = acc[q]) /\ new[n + 1] = r
  OBVIOUS
<1> HIDE DEF new, n
<1>3. \A m \in 0..n : OfTrace(new, t, m) = OfTrace(acc, t, m)
  <2>1. ASSUME NEW m \in 0..n, NEW q \in 1..m PROVE new[q] = acc[q]
    <3>1. q \in 1..n
      BY <1>1
    <3> QED
      BY <1>2, <3>1
  <2> QED
    BY <2>1 DEF OfTrace
<1>4. OfTrace(new, t, n + 1) = OfTrace(acc, t, n) \union (IF r.trace = t THEN {n + 1} ELSE {})
  <2>1. 1..(n + 1) = (1..n) \union {n + 1}
    BY <1>1
  <2> QED
    BY <1>2, <2>1 DEF OfTrace
<1>5. IsFiniteSet(OfTrace(acc, t, n))
  <2>1. IsFiniteSet(1..n)
    BY <1>1, FS_Interval
  <2>2. OfTrace(acc, t, n) \subseteq 1..n
    BY DEF OfTrace
  <2> QED
    BY <2>1, <2>2, FS_Subset
<1>6. n + 1 \notin OfTrace(acc, t, n)
  BY <1>1 DEF OfTrace
<1>7. ASSUME r.trace = t
      PROVE  Cardinality(OfTrace(new, t, n + 1)) = Cardinality(OfTrace(acc, t, n)) + 1
  <2>1. OfTrace(new, t, n + 1) = OfTrace(acc, t, n) \union {n + 1}
    BY <1>4, <1>7
  <2> QED
    BY <1>5, <1>6, <2>1, FS_AddElement
<1> QED
  BY <1>3, <1>4, <1>5, <1>6, <1>7 DEF new, n

\* The totals of the accepted span's trace with it counted in are those of the
\* longer sequence; the status it was given may be the trace's.
LEMMA TotalsAdd ==
    ASSUME NEW acc \in Seq(Span), NEW tot \in Totals, NEW s \in Span, NEW r \in Span,
           r.trace = s.trace, r.cost = s.cost,
           r.status = s.status \/ r.status = AddTo(tot, s).status,
           TotalsMatch(tot, acc, s.trace)
    PROVE  TotalsMatch(AddTo(tot, s), Append(acc, r), s.trace)
<1> DEFINE new == Append(acc, r)
           t == s.trace
           n == Len(acc)
<1>1. Len(new) = n + 1 /\ n \in Nat /\ (\A q \in 1..n : new[q] = acc[q]) /\ new[n + 1] = r
  OBVIOUS
<1>2. /\ AddTo(tot, s).steps = tot.steps + 1
      /\ AddTo(tot, s).cost = tot.cost + s.cost
      /\ AddTo(tot, s).status = IF s.status = "error" THEN "error" ELSE tot.status
  BY DEF AddTo
<1>3. CostUpTo(new, t, n + 1) = CostUpTo(acc, t, n) + s.cost
  BY CostGrows
<1>4. Cardinality(OfTrace(new, t, n + 1)) = Cardinality(OfTrace(acc, t, n)) + 1
  BY OfTraceGrows
<1>5. OfTrace(new, t, n + 1) = OfTrace(acc, t, n) \union {n + 1}
  BY OfTraceGrows
<1> HIDE DEF new, n
<1>6. \A q \in OfTrace(acc, t, n) : new[q] = acc[q]
  BY <1>1 DEF OfTrace
<1>7. (AddTo(tot, s).status = "error") <=> \E q \in OfTrace(new, t, n + 1) : new[q].status = "error"
  <2>1. (\E q \in OfTrace(new, t, n + 1) : new[q].status = "error")
          <=> (r.status = "error" \/ \E q \in OfTrace(acc, t, n) : acc[q].status = "error")
    BY <1>1, <1>5, <1>6
  <2>2. (tot.status = "error") <=> \E q \in OfTrace(acc, t, n) : acc[q].status = "error"
    BY DEF TotalsMatch, n
  <2> QED
    BY <1>2, <2>1, <2>2
<1>8. tot.steps = Cardinality(OfTrace(acc, t, n)) /\ tot.cost = CostUpTo(acc, t, n)
  BY DEF TotalsMatch, n
<1>9. Len(new) = n + 1
  BY <1>1
<1> HIDE DEF t
<1>10. TotalsMatch(AddTo(tot, s), new, t)
  BY ONLY <1>2, <1>3, <1>4, <1>7, <1>8, <1>9 DEF TotalsMatch
<1> QED
  BY <1>10 DEF new, t

\* Those of the other traces are untouched.
LEMMA TotalsOfOthers ==
    ASSUME NEW acc \in Seq(Span), NEW tot, NEW r \in Span, NEW t, r.trace # t,
           TotalsMatch(tot, acc, t)
    PROVE  TotalsMatch(tot, Append(acc, r), t)
<1> DEFINE new == Append(acc, r)
           n == Len(acc)
<1>1. Len(new) = n + 1 /\ n \in Nat /\ \A q \in 1..n : new[q] = acc[q]
  OBVIOUS
<1>2. CostUpTo(new, t, n + 1) = CostUpTo(acc, t, n)
  <2>1. CostUpTo(new, t, n + 1) = CostUpTo(acc, t, n) + 0
    BY CostGrows
  <2>2. CostUpTo(acc, t, n) \in Nat
    <3>1. n \in 0..Len(acc)
      OBVIOUS
    <3> QED
      BY <3>1, CostGrows
  <2> QED
    BY <2>1, <2>2
<1>3. OfTrace(new, t, n + 1) = OfTrace(acc, t, n)
  <2>1. OfTrace(new, t, n + 1) = OfTrace(acc, t, n) \union (IF r.trace = t THEN {n + 1} ELSE {})
    BY OfTraceGrows
  <2> QED
    BY ONLY <2>1, r.trace # t
<1>4. \A q \in OfTrace(acc, t, n) : new[q] = acc[q]
  BY <1>1 DEF OfTrace
<1>5. Len(new) = n + 1
  BY <1>1
<1> HIDE DEF new
<1>6. TotalsMatch(tot, new, t)
  BY <1>2, <1>3, <1>4, <1>5 DEF TotalsMatch
<1> QED
  BY <1>6 DEF new

\* A root already accepted keeps the right totals.
LEMMA StampStays ==
    ASSUME NEW acc \in Seq(Span), NEW r \in Span, NEW p \in 1..Len(acc), StampRight(acc, p)
    PROVE  StampRight(Append(acc, r), p)
<1> DEFINE new == Append(acc, r)
           t == acc[p].trace
<1>1. (\A q \in 1..p : new[q] = acc[q]) /\ p \in 0..Len(acc)
  OBVIOUS
<1>2. CostUpTo(new, t, p) = CostUpTo(acc, t, p)
  BY <1>1, CostGrows
<1>3. OfTrace(new, t, p) = OfTrace(acc, t, p)
  BY <1>1, OfTraceGrows
<1>4. new[p] = acc[p]
  BY <1>1
<1> HIDE DEF new
<1>5. \A q \in OfTrace(acc, t, p) : new[q] = acc[q]
  BY <1>1 DEF OfTrace
<1>6. new[p].trace = t
  BY <1>4
<1>7. StampRight(acc, p)
  OBVIOUS
<1>8. StampRight(new, p)
  BY ONLY <1>2, <1>3, <1>4, <1>5, <1>6, <1>7 DEF StampRight, t
<1> QED
  BY <1>8 DEF new

\* Short of the cap every trace is counted.
LEMMA RoomForAll ==
    ASSUME NEW ta, AggOK(ta), NEW t \in Traces, IsFiniteSet(Traces),
           Cardinality(Traces) <= MaxTraceAgg
    PROVE  Counted(ta, t)
<1> SUFFICES ASSUME t \notin DOMAIN ta PROVE Cardinality(DOMAIN ta) < MaxTraceAgg
  BY DEF Counted
<1>1. DOMAIN ta \subseteq Traces \ {t} /\ IsFiniteSet(Traces \ {t})
  BY FS_RemoveElement DEF AggOK
<1>2. Cardinality(Traces \ {t}) = Cardinality(Traces) - 1
  BY FS_RemoveElement
<1>3. Cardinality(DOMAIN ta) <= Cardinality(Traces \ {t})
  BY <1>1, FS_Subset
<1>4. /\ Cardinality(DOMAIN ta) \in Nat /\ Cardinality(Traces) \in Nat
      /\ Cardinality(Traces \ {t}) \in Nat
  BY <1>1, FS_CardinalityType DEF AggOK
<1> QED
  BY <1>2, <1>3, <1>4, PipelineAssumption

\* One put_nowait keeps the totals right.
LEMMA PutTotals ==
    ASSUME NEW tank, TankOK(tank), NEW s \in Span, TankTotals(tank),
           s.kind = "root" => ~RootIn(tank.accepted, s.trace),
           IsFiniteSet(Traces), Cardinality(Traces) <= MaxTraceAgg
    PROVE  TankTotals(Put(tank, s))
<1>1. CASE ~(Len(tank.ring) < RingSize)
  BY <1>1 DEF Put
<1>2. CASE Len(tank.ring) < RingSize
  <2> DEFINE acc == tank.accepted
             ta == tank.traceAgg
             n == Len(acc)
             r == Stamped(ta, s)
             new == Append(acc, r)
             ga == Accumulate(ta, s)
             old == TotalsOf(ta, s.trace)
             tot == AddTo(old, s)
  <2>1. Put(tank, s).accepted = new /\ Put(tank, s).traceAgg = ga
    BY <1>2 DEF Put, Tank
  <2>2. acc \in Seq(Span) /\ AggOK(ta) /\ s.trace \in Traces
    BY DEF TankOK, Span
  <2>3. Counted(ta, s.trace)
    BY <2>2, RoomForAll
  <2>4. old \in Totals /\ tot \in Totals /\ r \in Span
    BY <2>2, TotalsOfType, AddToType, StampedType
  <2>5. /\ r.trace = s.trace /\ r.cost = s.cost /\ r.kind = s.kind
        /\ s.kind # "root" => r = s
        /\ s.kind = "root" => r.status = tot.status /\ r.stamp = StampOf(tot)
    BY <2>3 DEF Stamped, Span
  <2>6. n \in Nat /\ Len(new) = n + 1 /\ (\A q \in 1..n : new[q] = acc[q]) /\ new[n + 1] = r
    BY <2>2, <2>4
  <2>7. /\ s.kind = "root" => \A t \in Traces : t # s.trace => TotalsOf(ga, t) = TotalsOf(ta, t)
        /\ s.kind # "root" => /\ TotalsOf(ga, s.trace) = tot
                              /\ \A t \in Traces : t # s.trace => TotalsOf(ga, t) = TotalsOf(ta, t)
    BY <2>3 DEF Accumulate, TotalsOf
  <2>8. /\ \A t \in Traces : ~RootIn(acc, t) => TotalsMatch(TotalsOf(ta, t), acc, t)
        /\ \A p \in 1..n : acc[p].kind = "root" /\ acc[p].stamp # NoStamp => StampRight(acc, p)
        /\ s.kind = "root" => ~RootIn(acc, s.trace)
    BY DEF TankTotals
  <2> HIDE DEF acc, ta, n, r, new, ga, old, tot
  <2>9. ASSUME NEW t, ~RootIn(new, t) PROVE ~RootIn(acc, t)
    <3>1. \A p \in 1..n : p \in 1..Len(new)
      BY <2>6
    <3> QED
      BY <2>6, <2>9, <3>1 DEF RootIn, n
  <2>10. ~RootIn(acc, s.trace) => TotalsMatch(tot, new, s.trace)
    <3>1. SUFFICES ASSUME TotalsMatch(old, acc, s.trace) PROVE TotalsMatch(tot, new, s.trace)
      BY <2>2, <2>8 DEF old
    <3>2. r.status = s.status \/ r.status = AddTo(old, s).status
      BY <2>5 DEF tot
    <3>3. TotalsMatch(AddTo(old, s), Append(acc, r), s.trace)
      BY <2>2, <2>4, <2>5, <3>1, <3>2, TotalsAdd
    <3> QED
      BY <3>3 DEF tot, new
  <2>11. ASSUME NEW t \in Traces, ~RootIn(new, t)
         PROVE  TotalsMatch(TotalsOf(ga, t), new, t)
    <3>1. CASE t = s.trace
      <4>1. s.kind # "root"
        <5>1. n + 1 \in 1..Len(new)
          BY <2>6
        <5> QED
          BY <2>5, <2>6, <2>11, <3>1, <5>1 DEF RootIn
      <4> QED
        BY <2>7, <2>9, <2>10, <2>11, <3>1, <4>1
    <3>2. CASE t # s.trace
      <4>1. TotalsMatch(TotalsOf(ta, t), acc, t)
        BY <2>8, <2>9, <2>11
      <4>2. TotalsMatch(TotalsOf(ta, t), new, t)
        BY <2>2, <2>4, <2>5, <3>2, <4>1, TotalsOfOthers DEF new
      <4> QED
        BY <2>7, <3>2, <4>2
    <3> QED
      BY <3>1, <3>2
  <2>12. ASSUME NEW p \in 1..Len(new), new[p].kind = "root", new[p].stamp # NoStamp
         PROVE  StampRight(new, p)
    <3>1. CASE p \in 1..n
      <4>1. StampRight(acc, p)
        BY <2>6, <2>8, <2>12, <3>1
      <4> QED
        BY <2>2, <2>4, <3>1, <4>1, StampStays DEF new, n
    <3>2. CASE p = n + 1
      <4>1. /\ s.kind = "root" /\ new[p].trace = s.trace /\ new[p].status = tot.status
            /\ new[p].stamp = StampOf(tot)
        BY <2>5, <2>6, <2>12, <3>2
      <4>2. TotalsMatch(tot, new, s.trace)
        BY <2>8, <2>10, <4>1
      <4>3. /\ StampOf(tot).steps = tot.steps /\ StampOf(tot).cost = tot.cost
            /\ (StampOf(tot).over = "true") <=> (tot.cost > CostThreshold)
        BY DEF StampOf
      <4>4. Len(new) = p
        BY <2>6, <3>2
      <4> QED
        BY ONLY <4>1, <4>2, <4>3, <4>4 DEF StampRight, TotalsMatch
    <3> QED
      BY <2>6, <3>1, <3>2
  <2> QED
    BY <2>1, <2>11, <2>12 DEF TankTotals
<1> QED
  BY <1>1, <1>2

\* What is left in _trace_agg, with E the traces that are over.
LeakFree(tank, E) ==
    /\ \A p \in 1..Len(tank.accepted) :
            tank.accepted[p].kind = "root" => tank.accepted[p].trace \in E
    /\ \A t \in DOMAIN tank.traceAgg \intersect E :
            t \in LateTraces \/ ~RootIn(tank.accepted, t)

\* One put_nowait: a span of a trace that is over, other than its root, comes
\* from a task that outlived it; a root accepted removes the entry.
LEMMA PutLeaks ==
    ASSUME NEW tank, TankOK(tank), NEW s \in Span, NEW E, LeakFree(tank, E),
           s.kind # "root" => s.trace \notin E \/ s.trace \in LateTraces,
           s.kind = "root" => s.trace \in E
    PROVE  LeakFree(Put(tank, s), E)
<1>1. CASE ~(Len(tank.ring) < RingSize)
  BY <1>1 DEF Put
<1>2. CASE Len(tank.ring) < RingSize
  <2> DEFINE acc == tank.accepted
             ta == tank.traceAgg
             n == Len(acc)
             r == Stamped(ta, s)
             new == Append(acc, r)
             ga == Accumulate(ta, s)
  <2>1. Put(tank, s).accepted = new /\ Put(tank, s).traceAgg = ga
    BY <1>2 DEF Put, Tank
  <2>2. acc \in Seq(Span) /\ AggOK(ta)
    BY DEF TankOK
  <2>3. r \in Span /\ r.trace = s.trace /\ r.kind = s.kind
    <3>1. r \in Span
      BY <2>2, StampedType
    <3> QED
      BY <3>1 DEF Stamped, Span
  <2>4. n \in Nat /\ Len(new) = n + 1 /\ (\A q \in 1..n : new[q] = acc[q]) /\ new[n + 1] = r
    BY <2>2, <2>3
  <2>5. /\ s.kind = "root" => DOMAIN ga \subseteq DOMAIN ta \ {s.trace}
        /\ s.kind # "root" => DOMAIN ga \subseteq DOMAIN ta \union {s.trace}
    BY DEF Accumulate, Counted
  <2>6. /\ \A p \in 1..n : acc[p].kind = "root" => acc[p].trace \in E
        /\ \A t \in DOMAIN ta \intersect E : t \in LateTraces \/ ~RootIn(acc, t)
    BY DEF LeakFree
  <2> HIDE DEF acc, ta, n, r, new, ga
  <2>7. \A p \in 1..Len(new) : p = n + 1 \/ p \in 1..n
    BY <2>4
  <2>8. ASSUME NEW t, RootIn(new, t) PROVE RootIn(acc, t) \/ (s.kind = "root" /\ t = s.trace)
    BY <2>3, <2>4, <2>7, <2>8 DEF RootIn, n
  <2>9. ASSUME NEW p \in 1..Len(new), new[p].kind = "root" PROVE new[p].trace \in E
    BY <2>3, <2>4, <2>6, <2>7, <2>9
  <2>10. ASSUME NEW t \in DOMAIN ga \intersect E PROVE t \in LateTraces \/ ~RootIn(new, t)
    <3>1. CASE t \in DOMAIN ta
      BY <2>5, <2>6, <2>8, <3>1
    <3>2. CASE t \notin DOMAIN ta
      BY <2>5, <3>2
    <3> QED
      BY <3>1, <3>2
  <2> QED
    BY <2>1, <2>9, <2>10 DEF LeakFree
<1> QED
  BY <1>1, <1>2

\* What the aggregator holds is of a trace that goes on, or of one with late
\* tasks: the root of any trace flushed the buffer when it ended.
TraceInv ==
    /\ aggTrace \in ended => aggTrace \in LateTraces
    /\ LeakFree(Here, ended)

\* _flush_aggregation puts a child's span, if any, of a trace that goes on.
LEMMA FlushPuts ==
    ASSUME PipeInv, TraceInv
    PROVE  \/ FlushInto(Here) = Here
           \/ \E s \in Span : /\ FlushInto(Here) = Put(Here, s)
                              /\ s.kind # "root"
                              /\ s.trace \notin ended \/ s.trace \in LateTraces
<1>1. CASE aggBuf = <<>>
  BY <1>1 DEF FlushInto
<1>2. CASE aggBuf # <<>>
  <2> DEFINE s == AggregateToSpan(aggBuf, aggTrace)
  <2>1. aggBuf[1] \in Micro
    BY <1>2 DEF PipeInv, AggInv
  <2>2. aggTrace \in Traces
    BY <1>2, <2>1 DEF PipeInv, AggInv, SourceIsFirst, Micro
  <2>3. s \in Span
    BY <2>2, SpanTypes DEF PipeInv, AggInv
  <2>4. s.kind # "root" /\ s.trace = aggTrace
    BY DEF AggregateToSpan
  <2>5. FlushInto(Here) = Put(Here, s)
    BY <1>2 DEF FlushInto
  <2> HIDE DEF s
  <2> QED
    BY <2>3, <2>4, <2>5 DEF TraceInv
<1> QED
  BY <1>1, <1>2

\* The spans the agents' steps put: which tank each of them sets.
LEMMA AgentPuts ==
    ASSUME PipeInv, TraceInv, Enqueue \/ ShutdownBegins
    PROVE  \/ /\ ended' = ended
              /\ SetTank(Here)
           \/ /\ ended' = ended
              /\ \E s \in Span : /\ SetTank(Put(Here, s))
                                 /\ s.kind # "root"
                                 /\ s.trace \notin ended \/ s.trace \in LateTraces
           \/ \E r \in Span : /\ ended' = ended \union {r.trace}
                              /\ SetTank(Put(FlushInto(Here), r))
                              /\ r.kind = "root"
                              /\ r.trace \notin ended
<1>1. ASSUME NEW o \in Offers, NEW t \in Traces
      PROVE  SpanOf(o, t) \in Span /\ SpanOf(o, t).kind = o.kind /\ SpanOf(o, t).trace = t
  <2>1. SpanOf(o, t) \in Span
    BY SpanTypes DEF PipeInv, AggInv
  <2> QED
    BY <2>1 DEF SpanOf
<1>2. ASSUME NEW o \in Offers, NEW t \in Traces, EnqueueMicro(o, t) \/ EnqueueCall(o, t)
      PROVE  /\ ended' = ended
             /\ SetTank(Put(Here, SpanOf(o, t)))
             /\ SpanOf(o, t).kind # "root"
             /\ t \notin ended \/ t \in LateTraces
  BY <1>1, <1>2 DEF EnqueueMicro, EnqueueCall, MayEnd
<1>3. ASSUME NEW o \in Offers, NEW t \in Traces, EnqueueMicroFlush(o, t)
      PROVE  /\ ended' = ended
             /\ \E s \in Span : /\ SetTank(Put(Here, s))
                                /\ s.kind # "root"
                                /\ s.trace \notin ended \/ s.trace \in LateTraces
  <2> DEFINE buf == Append(aggBuf, MicroOf(o, t))
             s == AggregateToSpan(buf, Source(t))
  <2>1. buf \in Seq(Micro)
    BY MicroType, AppendFirst DEF PipeInv, AggInv
  <2>2. Source(t) \in Traces
    BY DEF PipeInv, Source
  <2>3. s \in Span
    BY <2>1, <2>2, SpanTypes DEF PipeInv, AggInv
  <2>4. s.kind # "root" /\ s.trace = Source(t)
    BY DEF AggregateToSpan
  <2>5. Source(t) \notin ended \/ Source(t) \in LateTraces
    BY <1>3 DEF EnqueueMicroFlush, MayEnd, Source, TraceInv
  <2>6. SetTank(Put(Here, s)) /\ ended' = ended
    BY <1>3 DEF EnqueueMicroFlush
  <2> HIDE DEF s
  <2> QED
    BY <2>3, <2>4, <2>5, <2>6
<1>4. ASSUME NEW o \in Offers, NEW t \in Traces, EnqueueRoot(o, t)
      PROVE  /\ ended' = ended \union {t}
             /\ SetTank(Put(FlushInto(Here), SpanOf(o, t)))
             /\ SpanOf(o, t).kind = "root"
             /\ t \notin ended
  BY <1>1, <1>4 DEF EnqueueRoot, MayEnd
<1>5. CASE ShutdownBegins
  <2>1. SetTank(FlushInto(Here)) /\ ended' = ended
    BY <1>5 DEF ShutdownBegins
  <2> QED
    BY <2>1, FlushPuts
<1>6. CASE Enqueue
  <2>1. PICK o \in Offers, t \in Traces :
            \/ EnqueueMicro(o, t) \/ EnqueueMicroFlush(o, t)
            \/ EnqueueCall(o, t) \/ EnqueueRoot(o, t)
    BY <1>6 DEF Enqueue
  <2>2. CASE EnqueueMicro(o, t) \/ EnqueueCall(o, t)
    BY <1>1, <1>2, <2>2
  <2>3. CASE EnqueueMicroFlush(o, t)
    BY <1>3, <2>3
  <2>4. CASE EnqueueRoot(o, t)
    BY <1>1, <1>4, <2>4
  <2> QED
    BY <2>1, <2>2, <2>3, <2>4
<1> QED
  BY <1>5, <1>6

\* Setting the variables from a tank transfers the two facts about it.
LEMMA SetTankFacts ==
    ASSUME NEW tank, SetTank(tank)
    PROVE  /\ TankTotals(tank) => TankTotals(Here)'
           /\ \A E : LeakFree(tank, E) /\ ended' = E => LeakFree(Here, ended)'
  BY HereFields DEF SetTank, TankTotals, LeakFree

\* The steps of worker and shutdown() leave all this alone.
LEMMA OthersKeepTraces ==
    ASSUME [Next]_vars
    PROVE  \/ Enqueue \/ ShutdownBegins
           \/ UNCHANGED <<accepted, traceAgg, aggTrace, ended>>
<1>1. ASSUME Worker \/ ExportReturns \/ ExportRaises \/ Shutdown \/ UNCHANGED vars
      PROVE  UNCHANGED <<accepted, traceAgg, aggTrace, ended>>
  BY <1>1 DEF Worker, WorkerTakesOne, WorkerTakesTwo, WorkerTimesOut,
     ExportReturns, ExportRaises, Shutdown, OthersStopped, JoinEnded,
     JoinTimesOut, FlushExporters, vars, enqVars
<1> QED
  BY <1>1 DEF Next

\* A trace that starts to be over: nothing of it was accepted as a root yet.
LEMMA RootIsNew ==
    ASSUME NEW tank, NEW E, NEW t, LeakFree(tank, E), t \notin E
    PROVE  ~RootIn(tank.accepted, t) /\ LeakFree(tank, E \union {t})
  BY DEF LeakFree, RootIn

LEMMA TraceStep ==
    ASSUME PipeInv, TraceInv, [Next]_vars
    PROVE  TraceInv'
<1>1. CASE UNCHANGED <<accepted, traceAgg, aggTrace, ended>>
  BY <1>1, HereFields DEF TraceInv, LeakFree
<1>2. CASE Enqueue \/ ShutdownBegins
  <2>1. (aggTrace \in ended => aggTrace \in LateTraces)'
    <3>1. NoTrace \notin ended
      BY PipelineAssumption DEF PipeInv
    <3>2. ASSUME NEW o \in Offers, NEW t \in Traces, EnqueueMicro(o, t)
          PROVE  aggTrace' \in ended' => aggTrace' \in LateTraces
      BY <3>2 DEF EnqueueMicro, MayEnd, Source, TraceInv
    <3>3. ASSUME NEW o \in Offers, NEW t \in Traces, EnqueueCall(o, t)
          PROVE  aggTrace' \in ended' => aggTrace' \in LateTraces
      BY <3>3 DEF EnqueueCall, TraceInv
    <3>4. ASSUME NEW o \in Offers, NEW t \in Traces,
                 EnqueueMicroFlush(o, t) \/ EnqueueRoot(o, t)
          PROVE  aggTrace' \in ended' => aggTrace' \in LateTraces
      BY <3>1, <3>4, PipelineAssumption DEF EnqueueMicroFlush, EnqueueRoot, ClearAggregation
    <3>5. CASE ShutdownBegins
      BY <3>1, <3>5 DEF ShutdownBegins, ClearAggregation
    <3> QED
      BY <1>2, <3>2, <3>3, <3>4, <3>5 DEF Enqueue
  <2>2. LeakFree(Here, ended)'
    <3>1. TankOK(Here) /\ LeakFree(Here, ended)
      BY DEF PipeInv, TraceInv
    <3>2. CASE ended' = ended /\ SetTank(Here)
      BY <3>1, <3>2, SetTankFacts
    <3>3. ASSUME NEW s \in Span, ended' = ended, SetTank(Put(Here, s)), s.kind # "root",
                 s.trace \notin ended \/ s.trace \in LateTraces
          PROVE  LeakFree(Here, ended)'
      <4>1. LeakFree(Put(Here, s), ended)
        BY <3>1, <3>3, PutLeaks
      <4> QED
        BY <3>3, <4>1, SetTankFacts
    <3>4. ASSUME NEW r \in Span, ended' = ended \union {r.trace},
                 SetTank(Put(FlushInto(Here), r)), r.kind = "root", r.trace \notin ended
          PROVE  LeakFree(Here, ended)'
      <4> DEFINE mid == FlushInto(Here)
      <4>1. TankOK(mid)
        BY <3>1, FlushType DEF PipeInv
      <4>2. LeakFree(mid, ended)
        BY <3>1, FlushPuts, PutLeaks
      <4> HIDE DEF mid
      <4>3. LeakFree(mid, ended \union {r.trace})
        BY <3>4, <4>2, RootIsNew
      <4>4. LeakFree(Put(mid, r), ended \union {r.trace})
        BY <3>4, <4>1, <4>3, PutLeaks
      <4> QED
        BY <3>4, <4>4, SetTankFacts DEF mid
    <3> QED
      BY <1>2, <3>2, <3>3, <3>4, AgentPuts
  <2> QED
    BY <2>1, <2>2 DEF TraceInv
<1> QED
  BY <1>1, <1>2, OthersKeepTraces

LEMMA TotalsStep ==
    ASSUME IsFiniteSet(Traces), Cardinality(Traces) <= MaxTraceAgg,
           PipeInv, TraceInv, TankTotals(Here), [Next]_vars
    PROVE  TankTotals(Here)'
<1>0. TankOK(Here) /\ LeakFree(Here, ended)
  BY DEF PipeInv, TraceInv
<1>1. CASE UNCHANGED <<accepted, traceAgg, aggTrace, ended>>
  BY <1>1, HereFields DEF TankTotals
<1>2. CASE ended' = ended /\ SetTank(Here)
  BY <1>2, SetTankFacts
<1>3. ASSUME NEW s \in Span, SetTank(Put(Here, s)), s.kind # "root"
      PROVE  TankTotals(Here)'
  <2>1. TankTotals(Put(Here, s))
    BY <1>0, <1>3, PutTotals
  <2> QED
    BY <1>3, <2>1, SetTankFacts
<1>4. ASSUME NEW r \in Span, SetTank(Put(FlushInto(Here), r)), r.kind = "root", r.trace \notin ended
      PROVE  TankTotals(Here)'
  <2> DEFINE mid == FlushInto(Here)
  <2>1. TankOK(mid)
    BY <1>0, FlushType DEF PipeInv
  <2>2. LeakFree(mid, ended)
    BY <1>0, FlushPuts, PutLeaks
  <2>3. TankTotals(mid)
    BY <1>0, FlushPuts, PutTotals
  <2> HIDE DEF mid
  <2>4. ~RootIn(mid.accepted, r.trace)
    BY <1>4, <2>2, RootIsNew
  <2>5. TankTotals(Put(mid, r))
    BY <2>1, <2>3, <2>4, PutTotals
  <2> QED
    BY <1>4, <2>5, SetTankFacts DEF mid
<1>5. CASE Enqueue \/ ShutdownBegins
  BY <1>2, <1>3, <1>4, <1>5, AgentPuts
<1> QED
  BY <1>1, <1>5, OthersKeepTraces

LEMMA TracesStart ==
    ASSUME Init
    PROVE  TraceInv /\ TankTotals(Here)
<1>1. accepted = <<>> /\ DOMAIN traceAgg = {} /\ ended = {} /\ Len(accepted) = 0
  BY DEF Init
<1>2. ASSUME NEW t PROVE TotalsMatch(TotalsOf(traceAgg, t), accepted, t)
  <2>1. OfTrace(accepted, t, 0) = {} /\ Cardinality({}) = 0
    BY FS_EmptySet DEF OfTrace
  <2>2. CostUpTo(accepted, t, 0) = 0
    BY <1>1, CostOfNothing
  <2>3. TotalsOf(traceAgg, t) = Zero
    BY <1>1 DEF TotalsOf
  <2>4. Zero.steps = 0 /\ Zero.cost = 0 /\ Zero.status # "error"
    BY DEF Zero
  <2>5. Len(accepted) = 0
    BY <1>1
  <2> HIDE DEF Zero
  <2> QED
    BY ONLY <2>1, <2>2, <2>3, <2>4, <2>5 DEF TotalsMatch
<1>3. TankTotals(Here)
  BY <1>1, <1>2, HereFields DEF TankTotals
<1> QED
  BY <1>1, <1>3, HereFields DEF TraceInv, LeakFree

\* A trace that is over keeps an entry in _trace_agg only if its root was
\* dropped by a full ring or a task outlived it, at any cap and ring size.
THEOREM LeaksAreExplained == Spec => []LeaksExplained
<1>1. Init => TraceInv
  BY TracesStart
<1>2. PipeInv /\ TraceInv /\ [Next]_vars => TraceInv'
  BY TraceStep
<1>3. TraceInv => LeaksExplained
  BY HereFields DEF TraceInv, LeakFree, LeaksExplained, RootIn, Roots
<1> QED
  BY <1>1, <1>2, <1>3, PipelineInvariant, PTL DEF Spec

\* With room for every trace in _trace_agg, a root that the ring took carries
\* the totals of what the ring took of its trace up to it.  At the cap it may
\* not: the first spans of a trace are then skipped.
THEOREM TracesAreAccounted ==
    ASSUME IsFiniteSet(Traces), Cardinality(Traces) <= MaxTraceAgg
    PROVE  Spec => []TracesAccounted
<1>1. Init => TraceInv /\ TankTotals(Here)
  BY TracesStart
<1>2. PipeInv /\ TraceInv /\ TankTotals(Here) /\ [Next]_vars => TraceInv' /\ TankTotals(Here)'
  BY TraceStep, TotalsStep
<1>3. TankTotals(Here) => TotalsRight
  <2> SUFFICES ASSUME TankTotals(Here), NEW p \in 1..Len(accepted),
                      accepted[p].kind = "root", accepted[p].stamp # NoStamp
               PROVE  StampRight(accepted, p)
    BY DEF StampRight, OfTrace, TotalsRight, Roots, UpTo
  <2> QED
    BY HereFields DEF TankTotals
<1> QED
  BY <1>1, <1>2, <1>3, LeaksAreExplained, PipelineInvariant, PTL DEF Spec, TracesAccounted
=============================================================================
