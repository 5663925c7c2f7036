--------------------------- MODULE LangfuseExport ---------------------------
(***************************************************************************)
(* The Langfuse exporter (exporters/langfuse_exporter.py): the SDK's       *)
(* export worker hands it one batch at a time; export() asks the circuit   *)
(* breaker, posts with retries and stashes what it could not deliver;      *)
(* flush(), called once at shutdown under a timeout, tries every stashed   *)
(* batch once.  The backend keeps observations by id.                      *)
(***************************************************************************)
EXTENDS Naturals, Sequences, FiniteSets

CONSTANTS
  LfBatches,       \* batches are 1 .. LfBatches, in the order of export
  LfEvents,        \* per batch: the events of its span, as <<name, timestamp>> keys
  MaxEventSpans,   \* MAX_EVENT_SPANS_PER_SPAN
  LfMaxRetries,    \* max_retries: attempts of one export
  PendingCap,      \* pending_cap
  LfThreshold      \* failure_threshold of the breaker

ASSUME LangfuseAssumption ==
  LfBatches \in Nat /\ LfMaxRetries \in Nat \ {0} /\ PendingCap \in Nat \ {0} /\ LfThreshold \in Nat \ {0}

VARIABLES
  lfBatch,     \* per batch: where it is, attempts made, posts the backend accepted
  lfPending,   \* _pending
  lfBreaker,   \* state, consecutive failures, probe in flight
  lfFlush,     \* none, running (the batches it took), done
  lfStored     \* the observation ids in the backend

langfuseVars == <<lfBatch, lfPending, lfBreaker, lfFlush, lfStored>>

Batches == 1 .. LfBatches
LfOutcomes == {"accepted", "lost", "transient", "rejected", "raises"}

LangfuseInit ==
  /\ lfBatch = [b \in Batches |-> [pc |-> "queued", tries |-> 0, posts |-> 0]]
  /\ lfPending = <<>>
  /\ lfBreaker = [state |-> "closed", failures |-> 0, probe |-> FALSE]
  /\ lfFlush = [pc |-> "none", todo |-> <<>>]
  /\ lfStored = {}

\* _generate_event_span_id(): the parent, the name and the timestamp, not the attempt.
EventId(b, key, attempt) == <<b, key>>

\* The observation of the span itself, and a child for each of its first events.
SpanObservation(b) == <<b>>
EventObservations(b, attempt) ==
  {EventId(b, LfEvents[b][i], attempt) : i \in {j \in 1 .. Len(LfEvents[b]) : j <= MaxEventSpans}}

Payload(b, attempt) == {SpanObservation(b)} \cup EventObservations(b, attempt)

\* allow_request(): what it answers and what it does to the breaker.
AllowRequest == lfBreaker.state \in {"closed", "ready"} \/ (lfBreaker.state = "half" /\ ~lfBreaker.probe)
Allowed == IF lfBreaker.state = "closed" THEN lfBreaker
           ELSE [lfBreaker EXCEPT !.state = "half", !.probe = TRUE]
RecordSuccess == [state |-> "closed", failures |-> 0, probe |-> FALSE]
RecordFailure ==
  IF lfBreaker.state = "half" \/ (lfBreaker.state = "closed" /\ lfBreaker.failures + 1 >= LfThreshold)
  THEN [state |-> "open", failures |-> lfBreaker.failures + 1, probe |-> FALSE]
  ELSE [lfBreaker EXCEPT !.failures = @ + 1]

\* recovery_time passes.
BreakerCools ==
  /\ lfBreaker.state = "open"
  /\ lfBreaker' = [lfBreaker EXCEPT !.state = "ready"]
  /\ UNCHANGED <<lfBatch, lfPending, lfFlush, lfStored>>

\* A plausible slip: the overflow drops the batch that has just come.
StashedNewest(b, batch) ==
  IF Len(lfPending) >= PendingCap
  THEN [pending |-> lfPending, batch |-> [batch EXCEPT ![b].pc = "overflowed"]]
  ELSE [pending |-> Append(lfPending, b), batch |-> [batch EXCEPT ![b].pc = "stashed"]]

\* _stash(): append, and drop the oldest beyond the cap.
Stashed(b, batch) ==
  LET all == Append(lfPending, b)
      in == [batch EXCEPT ![b].pc = "stashed"] IN
  IF Len(all) > PendingCap
  THEN [pending |-> Tail(all), batch |-> [in EXCEPT ![Head(all)].pc = "overflowed"]]
  ELSE [pending |-> all, batch |-> in]

\* export(): the worker takes the next batch once the one before is over.
Export(b) ==
  /\ lfBatch[b].pc = "queued" /\ lfFlush.pc = "none"
  /\ \A a \in 1 .. b - 1 : lfBatch[a].pc \notin {"queued", "posting"}
  /\ IF AllowRequest
     THEN /\ lfBatch' = [lfBatch EXCEPT ![b].pc = "posting"]
          /\ lfBreaker' = Allowed
          /\ UNCHANGED lfPending
     ELSE LET s == Stashed(b, lfBatch) IN
          lfBatch' = s.batch /\ lfPending' = s.pending /\ UNCHANGED lfBreaker
  /\ UNCHANGED <<lfFlush, lfStored>>

\* The backend takes the payload, whether or not its answer comes back.
Taken(b, o) == IF o \in {"accepted", "lost"} THEN Payload(b, lfBatch[b].tries) ELSE {}
LfCounted(b, o) == [lfBatch EXCEPT ![b].tries = @ + 1,
                                 ![b].posts = IF o \in {"accepted", "lost"} THEN @ + 1 ELSE @]

(***************************************************************************)
(* One attempt of _post_with_retries(): success and a 4xx both tell the    *)
(* breaker the endpoint is up; exhausted retries count as one failure and  *)
(* stash the batch; an exception outside the listed kinds leaves export()  *)
(* and the breaker is told nothing.                                        *)
(***************************************************************************)
Post(b, o) ==
  LET n == LfCounted(b, o)
      again == o \in {"lost", "transient"} /\ lfBatch[b].tries + 1 < LfMaxRetries
      stash == Stashed(b, n) IN
  /\ lfBatch[b].pc = "posting"
  /\ lfStored' = lfStored \cup Taken(b, o)
  /\ CASE again -> lfBatch' = n /\ UNCHANGED <<lfPending, lfBreaker>>
       [] o \in {"accepted", "rejected"} ->
            /\ lfBatch' = [n EXCEPT ![b].pc = IF o = "accepted" THEN "delivered" ELSE "rejected"]
            /\ lfBreaker' = RecordSuccess /\ UNCHANGED lfPending
       [] o = "raises" -> lfBatch' = [n EXCEPT ![b].pc = "raised"] /\ UNCHANGED <<lfPending, lfBreaker>>
       [] OTHER -> lfBatch' = stash.batch /\ lfPending' = stash.pending /\ lfBreaker' = RecordFailure
  /\ UNCHANGED lfFlush

\* shutdown(): flush() takes the whole queue.
Flush ==
  /\ lfFlush.pc = "none" /\ \A b \in Batches : lfBatch[b].pc # "posting"
  /\ lfFlush' = [pc |-> "running", todo |-> lfPending]
  /\ lfPending' = <<>>
  /\ UNCHANGED <<lfBatch, lfBreaker, lfStored>>

\* One attempt per batch; whatever it brings, the batch is not kept.
FlushPost(o) ==
  LET b == Head(lfFlush.todo) IN
  /\ lfFlush.pc = "running" /\ lfFlush.todo # <<>>
  /\ lfStored' = lfStored \cup Taken(b, o)
  /\ lfBatch' = [LfCounted(b, o) EXCEPT ![b].pc = IF o = "accepted" THEN "delivered" ELSE "flush_failed"]
  /\ lfFlush' = [lfFlush EXCEPT !.todo = Tail(@)]
  /\ UNCHANGED <<lfPending, lfBreaker>>

\* It ends, or the three seconds shutdown() grants are over and it is cancelled.
LfFlushEnds ==
  /\ lfFlush.pc = "running"
  /\ lfBatch' = [b \in Batches |->
       IF \E i \in 1 .. Len(lfFlush.todo) : lfFlush.todo[i] = b
       THEN [lfBatch[b] EXCEPT !.pc = "cut"] ELSE lfBatch[b]]
  /\ lfFlush' = [pc |-> "done", todo |-> <<>>]
  /\ UNCHANGED <<lfPending, lfBreaker, lfStored>>

LangfuseNext ==
  \/ BreakerCools
  \/ \E b \in Batches : Export(b)
  \/ \E b \in Batches, o \in LfOutcomes : Post(b, o)
  \/ Flush
  \/ \E o \in LfOutcomes : FlushPost(o)
  \/ LfFlushEnds

LangfuseSpec == LangfuseInit /\ [][LangfuseNext]_langfuseVars

-----------------------------------------------------------------------------
LfPlaces == {"queued", "posting", "stashed", "delivered", "rejected", "raised", "overflowed",
             "flush_failed", "cut"}
LangfuseTypeOK ==
  /\ \A b \in Batches : lfBatch[b].pc \in LfPlaces /\ lfBatch[b].tries \in 0 .. LfMaxRetries + 1
  /\ lfBreaker.state \in {"closed", "open", "ready", "half"}
  /\ lfFlush.pc \in {"none", "running", "done"}

(***************************************************************************)
(* No batch is forgotten or kept twice: the stashed ones are exactly the   *)
(* queue and what flush() took, in the order of export and at most the     *)
(* cap, and only an older batch than all of them overflows.  However often *)
(* a batch was accepted, the backend holds its observations once.          *)
(***************************************************************************)
BatchesAccounted ==
  LET kept == lfFlush.todo \o lfPending IN
  /\ {b \in Batches : lfBatch[b].pc = "stashed"} = {kept[i] : i \in 1 .. Len(kept)}
  /\ \A i \in 1 .. Len(kept) - 1 : kept[i] < kept[i + 1]
  /\ Len(lfPending) <= PendingCap
  /\ \A b \in Batches, i \in 1 .. Len(kept) : lfBatch[b].pc = "overflowed" => b < kept[i]
  /\ \A b \in Batches : {o \in lfStored : o[1] = b} = IF lfBatch[b].posts > 0 THEN Payload(b, 0) ELSE {}

(***************************************************************************)
(* The half-open breaker waits for an answer that is still to come: with   *)
(* no post under way its probe was lost only to an exception that left     *)
(* export() unrecorded.                                                    *)
(***************************************************************************)
ProbeReturns ==
  lfBreaker.state = "half" /\ lfBreaker.probe =>
    \E b \in Batches : lfBatch[b].pc \in {"posting", "raised"}

\* The Langfuse exporter: no batch is forgotten or kept twice, and a probe of the
\* breaker is lost only to an exception that left export() (exporters/langfuse_exporter.py).
LangfuseSafe == BatchesAccounted /\ ProbeReturns
=============================================================================
