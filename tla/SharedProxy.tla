----------------------------- MODULE SharedProxy -----------------------------
(***************************************************************************)
(* The shared observability and security proxy: SharedPipeline.process(),  *)
(* SecurityClient.scan(), DecisionRouter and DecisionRecorder of           *)
(* agent_obs/proxy/, and the write of SharedAuditTrail.                    *)
(*                                                                         *)
(* process() starts a scan task and an enrichment task and awaits first    *)
(* the one, then the other, each with wait_for.  wait_for cancels the task *)
(* it gives up on, so that by the time the handler asks which task is      *)
(* done(), the one that timed out is.  Both pipelines go through breakers  *)
(* that other clients in the process share.                                *)
(***************************************************************************)
EXTENDS Integers, Sequences, FiniteSets

CONSTANTS
  Requests,   \* requests in one process
  RequestIds, \* the ids they carry; a client's retry repeats one
  Threshold,  \* failure_threshold of the security breaker
  QueueMax,   \* maxsize of the recorder's queue
  NotRunning  \* no flush loop, no stop() under way

ASSUME SharedAssumption ==
  /\ Threshold \in Nat \ {0} /\ QueueMax \in Nat
  /\ NotRunning \notin Seq(RequestIds)

VARIABLES
  req,       \* per request: process(), its two tasks, the answer (history: what was scanned)
  secBreaker,\* circuit_breaker_for("vault"), shared with VaultClient and the audit trail
  obsBreaker,\* circuit_breaker_for("langfuse"), shared with the Langfuse exporter
  recorder,  \* DecisionRecorder: queue, seen ids, flush loop and the batches being written
  written,   \* external: audit events that reached the sink, in order
  spansMade  \* whether the SDK has _create_span, which minimal spans need

sharedVars == <<req, secBreaker, obsBreaker, recorder, written, spansMade>>

Closed == [state |-> "closed", failures |-> 0]

SharedInit ==
  /\ req = [r \in Requests |->
       [pc |-> "idle", id |-> NotRunning, scan |-> "new", verdict |-> "none", scanned |-> "none",
        enrich |-> "new", answer |-> "none"]]
  /\ secBreaker = Closed /\ obsBreaker = Closed
  /\ recorder = [queue |-> <<>>, seen |-> {}, loop |-> NotRunning, stop |-> NotRunning, lost |-> {}]
  /\ written = <<>>
  /\ spansMade \in BOOLEAN

-----------------------------------------------------------------------------
(* The breaker, as a value: "half-open" is half-open with its probe taken.  *)
(* recovery_window, which SharedPipeline sets, is not the field it reads.    *)

Allows(b, rested) == b.state = "closed" \/ (b.state = "open" /\ rested)
Allow(b, rested) == IF b.state = "open" /\ rested THEN [b EXCEPT !.state = "half-open"] ELSE b
Success(b) == Closed
Failure(b) ==
  LET n == IF b.failures < Threshold THEN b.failures + 1 ELSE b.failures
  IN  [state |-> IF b.state = "half-open" \/ (b.state = "closed" /\ n >= Threshold) THEN "open" ELSE b.state,
       failures |-> n]

\* VaultClient, the audit trail and the exporter report to the same breakers.
OthersReport ==
  /\ \/ secBreaker' \in {Success(secBreaker), Failure(secBreaker)} /\ UNCHANGED obsBreaker
     \/ obsBreaker' \in {Success(obsBreaker), Failure(obsBreaker)} /\ UNCHANGED secBreaker
  /\ UNCHANGED <<req, recorder, written, spansMade>>

-----------------------------------------------------------------------------
(* The scan task.                                                           *)

\* SecurityScanResult.fail_open: verdict "clean", told apart here as "open".
FailOpen == "open"

ProcessStarts(r, id) ==
  /\ req[r].pc = "idle"
  /\ req' = [req EXCEPT ![r].pc = "scan", ![r].id = id]
  /\ UNCHANGED <<secBreaker, obsBreaker, recorder, written, spansMade>>

\* _scan_with_timeout and scan() both ask the breaker, the same one: the
\* probe that the first admits is refused by the second.
ScanStarts(r, rested) ==
  LET b == Allow(secBreaker, rested)
      posts == Allows(secBreaker, rested) /\ Allows(b, rested)
  IN  /\ req[r].pc # "idle" /\ req[r].scan = "new"
      /\ secBreaker' = b
      /\ req' = [req EXCEPT ![r].scan = IF posts THEN "posted" ELSE "done",
                            ![r].verdict = IF posts THEN "none" ELSE FailOpen]
      /\ UNCHANGED <<obsBreaker, recorder, written, spansMade>>

ScanAnswers(r, verdict) ==
  /\ req[r].scan = "posted"
  /\ req' = [req EXCEPT ![r].scan = "done", ![r].verdict = verdict, ![r].scanned = verdict]
  /\ secBreaker' = Success(secBreaker)
  /\ UNCHANGED <<obsBreaker, recorder, written, spansMade>>

\* Whether scan() fails open or raises, its caller fails open.
ScanFails(r) ==
  /\ req[r].scan = "posted"
  /\ req' = [req EXCEPT ![r].scan = "done", ![r].verdict = FailOpen]
  /\ secBreaker' = Failure(secBreaker)
  /\ UNCHANGED <<obsBreaker, recorder, written, spansMade>>

-----------------------------------------------------------------------------
(* The enrichment task.  It never reports a failure to its breaker.          *)

Minimal == IF spansMade THEN "done" ELSE "raised"   \* _build_minimal_span

EnrichStarts(r, rested) ==
  /\ req[r].pc # "idle" /\ req[r].enrich = "new"
  /\ obsBreaker' = Allow(obsBreaker, rested)
  /\ req' = [req EXCEPT ![r].enrich = IF Allows(obsBreaker, rested) THEN "running" ELSE Minimal]
  /\ UNCHANGED <<secBreaker, recorder, written, spansMade>>

EnrichEnds(r, ok) ==
  /\ req[r].enrich = "running"
  /\ req' = [req EXCEPT ![r].enrich = IF ok THEN "done" ELSE Minimal]
  /\ UNCHANGED <<secBreaker, obsBreaker, recorder, written, spansMade>>

-----------------------------------------------------------------------------
(* process() between its awaits.                                            *)

Done(status) == status \in {"done", "raised", "cancelled"}
Ends(r, answer) == [req[r] EXCEPT !.pc = "ended", !.answer = answer]

\* Both handlers that fail open build a minimal span first; if that raises,
\* process() raises and the request is answered with an error.
FailsOpen(q) ==
  IF spansMade THEN [q EXCEPT !.pc = "decide", !.verdict = FailOpen]
  ELSE [q EXCEPT !.pc = "ended", !.answer = "error"]

ScanAwaited(r) ==
  /\ req[r].pc = "scan" /\ req[r].scan = "done"
  /\ req' = [req EXCEPT ![r].pc = "enrich"]
  /\ UNCHANGED <<secBreaker, obsBreaker, recorder, written, spansMade>>

\* The handler of a timeout.  A task that timed out is done() by cancellation:
\* if the other is not done, result() of the cancelled scan raises
\* CancelledError through process(); if it is, both count as timed out.
HandleTimeout(q) ==
  IF Done(q.enrich) THEN FailsOpen(q) ELSE [q EXCEPT !.pc = "ended", !.answer = "cancelled"]

ScanTimesOut(r) ==
  /\ req[r].pc = "scan" /\ ~Done(req[r].scan)
  /\ req' = [req EXCEPT ![r] = HandleTimeout([req[r] EXCEPT !.scan = "cancelled"])]
  /\ UNCHANGED <<secBreaker, obsBreaker, recorder, written, spansMade>>

\* Both results in: the verdict stands and both breakers record a success.
\* An enrichment that raised ends in the last handler, which fails open.
EnrichAwaited(r) ==
  /\ req[r].pc = "enrich" /\ Done(req[r].enrich)
  /\ IF req[r].enrich = "done"
     THEN /\ req' = [req EXCEPT ![r].pc = "decide"]
          /\ secBreaker' = Success(secBreaker) /\ obsBreaker' = Success(obsBreaker)
     ELSE /\ req' = [req EXCEPT ![r] = FailsOpen(@)]
          /\ UNCHANGED <<secBreaker, obsBreaker>>
  /\ UNCHANGED <<recorder, written, spansMade>>

EnrichTimesOut(r) ==
  /\ req[r].pc = "enrich" /\ ~Done(req[r].enrich)
  /\ req' = [req EXCEPT ![r] = HandleTimeout([req[r] EXCEPT !.enrich = "cancelled"])]
  /\ UNCHANGED <<secBreaker, obsBreaker, recorder, written, spansMade>>

-----------------------------------------------------------------------------
(* Decision and record.                                                     *)

\* Mutant of Action: policy is asked before security.
ActionPolicyFirst(verdict, policy) ==
  IF policy = "allowed" THEN "forward" ELSE IF policy = "denied" THEN "block" ELSE verdict

\* decide(): security first, then the policy engine, which fails open.
Action(verdict, policy) ==
  CASE verdict = "block"  -> "block"
    [] verdict = "flag"   -> "flag"
    [] policy = "denied"  -> "block"
    [] OTHER              -> "forward"

\* Mutant of Recorded: the id is not remembered.
RecordedTwice(rec, id) ==
  IF Len(rec.queue) >= QueueMax THEN rec ELSE [rec EXCEPT !.queue = Append(@, id), !.seen = @ \cup {id}]

\* Mutant of Recorded: the queue has no limit.
RecordedUnbounded(rec, id) ==
  IF id \in rec.seen THEN rec ELSE [rec EXCEPT !.queue = Append(@, id), !.seen = @ \cup {id}]

\* record(): once per request id; a full queue drops the record and forgets
\* the id.
Recorded(rec, id) ==
  IF id \in rec.seen \/ Len(rec.queue) >= QueueMax THEN rec
  ELSE [rec EXCEPT !.queue = Append(@, id), !.seen = @ \cup {id}]

\* decide() records and only then answers: record-then-block.
Decide(r, policy) ==
  /\ req[r].pc = "decide"
  /\ recorder' = Recorded(recorder, req[r].id)
  /\ req' = [req EXCEPT ![r] = Ends(r, Action(req[r].verdict, policy))]
  /\ UNCHANGED <<secBreaker, obsBreaker, written, spansMade>>

\* The first n events of a batch reached the sink, the rest did not: its
\* exception is swallowed and nothing is retried.
Writes(batch, n, rec) ==
  /\ n \in 0 .. Len(batch)
  /\ written' = written \o SubSeq(batch, 1, n)
  /\ recorder' = [rec EXCEPT !.lost = @ \cup {batch[i] : i \in n + 1 .. Len(batch)}]

RecorderStarts ==
  /\ recorder.loop = NotRunning
  /\ recorder' = [recorder EXCEPT !.loop = <<>>]
  /\ UNCHANGED <<req, secBreaker, obsBreaker, written, spansMade>>

\* flush() of the loop: the queue is emptied, then the batch is written.
LoopFlushes ==
  /\ recorder.loop = <<>> /\ recorder.queue # <<>>
  /\ recorder' = [recorder EXCEPT !.loop = recorder.queue, !.queue = <<>>]
  /\ UNCHANGED <<req, secBreaker, obsBreaker, written, spansMade>>

LoopWrites ==
  /\ recorder.loop \notin {NotRunning, <<>>}
  /\ \E n \in 0 .. Len(recorder.loop) : Writes(recorder.loop, n, [recorder EXCEPT !.loop = <<>>])
  /\ UNCHANGED <<req, secBreaker, obsBreaker, spansMade>>

\* stop(): the loop is cancelled, in the middle of a write if it is in one,
\* and what the queue holds is flushed once more.
RecorderStops ==
  /\ recorder.loop # NotRunning /\ recorder.stop = NotRunning
  /\ \E n \in 0 .. Len(recorder.loop) :
       Writes(recorder.loop, n,
              [recorder EXCEPT !.loop = NotRunning, !.stop = recorder.queue, !.queue = <<>>])
  /\ UNCHANGED <<req, secBreaker, obsBreaker, spansMade>>

StopWrites ==
  /\ recorder.stop # NotRunning
  /\ \E n \in 0 .. Len(recorder.stop) : Writes(recorder.stop, n, [recorder EXCEPT !.stop = NotRunning])
  /\ UNCHANGED <<req, secBreaker, obsBreaker, spansMade>>

SharedNext ==
  \/ \E r \in Requests :
       \/ ScanFails(r) \/ \E id \in RequestIds : ProcessStarts(r, id)
       \/ \E rested \in BOOLEAN : ScanStarts(r, rested) \/ EnrichStarts(r, rested)
       \/ \E verdict \in {"clean", "flag", "block"} : ScanAnswers(r, verdict)
       \/ \E ok \in BOOLEAN : EnrichEnds(r, ok)
       \/ ScanAwaited(r) \/ ScanTimesOut(r) \/ EnrichAwaited(r) \/ EnrichTimesOut(r)
       \/ \E policy \in {"none", "allowed", "denied", "raises"} : Decide(r, policy)
  \/ OthersReport
  \/ RecorderStarts \/ LoopFlushes \/ LoopWrites \/ RecorderStops \/ StopWrites
SharedSpec == SharedInit /\ [][SharedNext]_sharedVars

-----------------------------------------------------------------------------
(* Properties.                                                              *)

Elements(s) == {s[i] : i \in DOMAIN s}

SharedTypeOK ==
  /\ \A r \in Requests :
       /\ req[r].pc \in {"idle", "scan", "enrich", "decide", "ended"}
       /\ req[r].scan \in {"new", "posted", "done", "cancelled"}
       /\ req[r].enrich \in {"new", "running", "done", "raised", "cancelled"}
       /\ req[r].verdict \in {"none", FailOpen, "clean", "flag", "block"}
  /\ {secBreaker.state, obsBreaker.state} \subseteq {"closed", "open", "half-open"}
  /\ {secBreaker.failures, obsBreaker.failures} \subseteq 0 .. Threshold
  /\ Len(recorder.queue) <= QueueMax

\* What the scan blocked is let through only when the enrichment beside it
\* failed or was late, the one way in which process() drops a verdict it has;
\* neither a breaker, the policy engine nor a repeated id undoes a block.
BlockStands ==
  \A r \in Requests :
    req[r].scanned = "block" /\ req[r].answer \in {"forward", "flag"} =>
      req[r].enrich \in {"cancelled", "raised"}

\* A task outlives the request it was started for only if the scan timed out
\* first (its result() raises CancelledError past the code that would cancel).
TasksReaped ==
  \A r \in Requests :
    req[r].pc = "ended" /\ ~(Done(req[r].scan) /\ Done(req[r].enrich)) => req[r].answer = "cancelled"

\* A decision is on record once: an id the recorder has seen is in the queue,
\* in exactly one batch, written or lost, however requests repeat ids and
\* however flushing and stopping overlap.
RecordedOnce ==
  LET all == [s \in {"queue", "loop", "stop"} |-> IF recorder[s] = NotRunning THEN <<>> ELSE recorder[s]]
      one == all["queue"] \o all["loop"] \o all["stop"] \o written
  IN  /\ Elements(one) \cup recorder.lost = recorder.seen
      /\ Cardinality(Elements(one)) = Len(one)
      /\ Elements(one) \cap recorder.lost = {}

\* Refuted: "Security decisions (clean/flag/block) override obs decisions"
\* (shared_pipeline.py:14).  A late enrichment turns a block into fail-open.
BlockAlwaysStands ==
  [][\A r \in Requests : req[r].verdict = "block" => req'[r].verdict = "block"]_sharedVars

\* Refuted: "After recovery_time seconds the next allow_request() ... admits a
\* single probe request" (health_checks.py).  Asked twice, the breaker refuses
\* the probe it admitted, and the request that was let through unscanned closes it.
ClosedByScan ==
  [][secBreaker.state # "closed" /\ secBreaker'.state = "closed" =>
       \E r \in Requests : req[r].scan = "posted" /\ req'[r].scan = "done"]_sharedVars

\* What the scan blocked is forwarded only beside a failed or late enrichment, and
\* a task outlives its request only if the scan timed out first
\* (proxy/shared_pipeline.py process, _handle_timeout).
VerdictsStand == BlockStands /\ TasksReaped
=============================================================================
