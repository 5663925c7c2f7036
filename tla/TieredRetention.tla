-------------------------- MODULE TieredRetention --------------------------
(***************************************************************************)
(* The daily jobs of agent_obs/storage/maintenance.py that empty a         *)
(* ClickHouse table into a longer-lived tier: audit events into Parquet    *)
(* objects in S3, eval results and spans into Postgres.  The three share   *)
(* one shape: read a batch past the retention window, oldest first; ship   *)
(* it; delete it.  Beside them ClickHouse drops what is past the table's   *)
(* TTL by itself, whether it was shipped or not.                           *)
(*                                                                         *)
(* A row is its timestamp.  A runner is a process that runs the job: the   *)
(* scheduler, or somebody at the command line.  S3, Postgres and           *)
(* ClickHouse are external: calls that work or raise.                      *)
(***************************************************************************)
EXTENDS Integers, FiniteSets, FiniteSetsExt

CONSTANTS
    Job,         \* "audit", "eval" or "span": the table and its job
    Runners,     \* processes that run the job
    Retention,   \* the job ships what is older than this ...
    TTL,         \* ... and ClickHouse drops what is this old
    Delay,       \* a row is inserted at most this long after its timestamp
    PerSecond,   \* timestamps in one second
    BatchSize,
    MaxBatches,  \* batches of one run
    Period,      \* a run starts at least this often, and ends before time
                 \* passes; 0: runs start whenever they like
    Failing,     \* the calls that may raise: of "read", "ship", "delete", "crash"
    MaxTime      \* bound: rows and time are 1 .. MaxTime

ASSUME RetentionAssumption ==
    /\ Job \in {"audit", "eval", "span"}
    /\ Delay \in Nat /\ Retention \in Nat /\ TTL \in Nat
    /\ Delay <= Retention /\ Retention <= TTL
    /\ MaxTime \in Nat /\ Period \in Nat
    /\ BatchSize \in Nat \ {0} /\ MaxBatches \in Nat \ {0} /\ PerSecond \in Nat \ {0}

Rows == 1 .. MaxTime
Keys == 0 .. MaxTime   \* object keys in S3; Postgres is object 0

VARIABLES
    now,
    hot,       \* the rows in ClickHouse
    archive,   \* object key -> the rows in it
    lastRun,   \* when a run last began
    pc, cutoff, batch, batches, errors,  \* of each runner's run
    report,    \* what each runner's last run told the metrics
    stored,    \* history: every row ever inserted
    dropped,   \* history: every row ClickHouse dropped unshipped
    clean      \* history: "yes" until a store fails or a runner dies

run == <<pc, cutoff, batch, batches, errors, report>>
vars == <<now, hot, archive, lastRun, run, stored, dropped, clean>>

Archived == UNION {archive[k] : k \in Keys}

Init ==
    /\ now = 0 /\ lastRun = 0
    /\ hot = {} /\ stored = {} /\ dropped = {}
    /\ archive = [k \in Keys |-> {}]
    /\ pc = [u \in Runners |-> "idle"]
    /\ cutoff = [u \in Runners |-> 0]
    /\ batch = [u \in Runners |-> {}]
    /\ batches = [u \in Runners |-> 0]
    /\ errors = [u \in Runners |-> 0]
    /\ report = [u \in Runners |-> "none"]
    /\ clean = "yes"

Goto(u, a, b) == pc[u] = a /\ pc' = [pc EXCEPT ![u] = b]

\* The run ends; run_cron_job makes of it what the metrics say.
End(u, a, r) == Goto(u, a, "idle") /\ report' = [report EXCEPT ![u] = r]

(* ------------------------------ one run ------------------------------ *)

Begin(u) ==
    /\ Goto(u, "idle", "read")
    /\ lastRun' = now
    /\ cutoff' = [cutoff EXCEPT ![u] = now - Retention]
    /\ batch' = [batch EXCEPT ![u] = {}]
    /\ batches' = [batches EXCEPT ![u] = 0]
    /\ errors' = [errors EXCEPT ![u] = 0]
    /\ UNCHANGED <<now, hot, archive, report, stored, dropped, clean>>

\* WHERE timestamp < cutoff.
Expired(u) == {r \in hot : r < cutoff[u]}

\* ORDER BY timestamp LIMIT batch_size.
Oldest(rows) ==
    {r \in rows : Cardinality({s \in rows : s < r}) < BatchSize}

Read(u) ==
    /\ Expired(u) # {}
    /\ Goto(u, "read", "ship")
    /\ batch' = [batch EXCEPT ![u] = Oldest(Expired(u))]
    /\ UNCHANGED <<now, hot, archive, lastRun, cutoff, batches, errors, report, stored, dropped, clean>>

\* `if not rows: break`.
ReadNothing(u) ==
    /\ Expired(u) = {}
    /\ End(u, "read", "success")
    /\ UNCHANGED <<now, hot, archive, lastRun, cutoff, batch, batches, errors, stored, dropped, clean>>

\* A query that raises ends the job; run_cron_job counts the failure.
QueryFails(u) ==
    /\ \/ "read" \in Failing /\ End(u, "read", "failure")
       \/ "delete" \in Failing /\ End(u, "delete", "failure")
    /\ clean' = "no"
    /\ UNCHANGED <<now, hot, archive, lastRun, cutoff, batch, batches, errors, stored, dropped>>

\* Mutant of ObjectKey: the key is made of the time of the run.
RunKey(u) == cutoff[u] + Retention

\* part-<second of the batch's oldest row>.parquet.
ObjectKey(u) == Min(batch[u]) \div PerSecond

\* write_parquet puts an object in place of any other of its key;
\* insert_eval_results upserts row by row.
Shipped(u) ==
    IF Job = "audit" THEN [archive EXCEPT ![ObjectKey(u)] = batch[u]]
                     ELSE [archive EXCEPT ![0] = @ \union batch[u]]

\* insert_traces passes 14 values to a statement of 15 parameters (user_hash
\* is a column of the table and not of the row): Postgres never takes a span.
Ship(u) ==
    /\ Job # "span"
    /\ Goto(u, "ship", "delete")
    /\ archive' = Shipped(u)
    /\ UNCHANGED <<now, hot, lastRun, cutoff, batch, batches, errors, report, stored, dropped, clean>>

\* Mutant of ShipFails: the failed batch is deleted all the same.
ShipFailsOn(u) ==
    /\ Job = "span" \/ "ship" \in Failing
    /\ Goto(u, "ship", "delete")
    /\ errors' = [errors EXCEPT ![u] = @ + 1]
    /\ UNCHANGED <<now, hot, archive, lastRun, cutoff, batch, batches, report, stored, dropped, clean>>

\* The except clause keeps the hot rows, counts an error and breaks: the job
\* returns a result, and a result is a success.
ShipFails(u) ==
    /\ Job = "span" \/ "ship" \in Failing
    /\ End(u, "ship", "success")
    /\ errors' = [errors EXCEPT ![u] = @ + 1]
    /\ clean' = IF Job = "span" THEN clean ELSE "no"
    /\ UNCHANGED <<now, hot, archive, lastRun, cutoff, batch, batches, stored, dropped>>

\* Mutant of More: the loop ends with the first batch.
MoreNever(u) == FALSE

\* A full batch, and batches left: the loop reads on.
More(u) == Cardinality(batch[u]) = BatchSize /\ batches[u] + 1 < MaxBatches

\* The batch's rows are deleted, whoever else has read or deleted them.
Delete(u) ==
    /\ hot' = hot \ batch[u]
    /\ batches' = [batches EXCEPT ![u] = @ + 1]
    /\ IF More(u) THEN Goto(u, "delete", "read") /\ UNCHANGED report
                  ELSE End(u, "delete", "success")
    /\ UNCHANGED <<now, archive, lastRun, cutoff, batch, errors, stored, dropped, clean>>

\* The process is killed; whatever it did last, the next one starts over.
Crash(u) ==
    /\ "crash" \in Failing
    /\ pc[u] # "idle"
    /\ pc' = [pc EXCEPT ![u] = "idle"]
    /\ report' = [report EXCEPT ![u] = "none"]
    /\ clean' = "no"
    /\ UNCHANGED <<now, hot, archive, lastRun, cutoff, batch, batches, errors, stored, dropped>>

(* ---------------------------- environment ---------------------------- *)

\* ClickHouse takes a row, long before it is past the retention window.
Insert(r) ==
    /\ r \notin stored
    /\ r <= now /\ now <= r + Delay
    /\ stored' = stored \union {r}
    /\ hot' = hot \union {r}
    /\ UNCHANGED <<now, archive, lastRun, run, dropped, clean>>

\* A merge drops a row past the TTL, sooner or later.
Drop(r) ==
    /\ r \in hot
    /\ now - r >= TTL
    /\ hot' = hot \ {r}
    /\ dropped' = IF r \in Archived THEN dropped ELSE dropped \union {r}
    /\ UNCHANGED <<now, archive, lastRun, run, stored, clean>>

Tick ==
    /\ now < MaxTime
    /\ Period > 0 => /\ now + 1 - lastRun <= Period
                     /\ \A u \in Runners : pc[u] = "idle"
    /\ now' = now + 1
    /\ UNCHANGED <<hot, archive, lastRun, run, stored, dropped, clean>>

Step(u) ==
    \/ Begin(u) \/ Read(u) \/ ReadNothing(u) \/ QueryFails(u)
    \/ Ship(u) \/ ShipFails(u) \/ Delete(u) \/ Crash(u)

Next ==
    \/ \E u \in Runners : Step(u)
    \/ \E r \in Rows : Insert(r) \/ Drop(r)
    \/ Tick

Spec == Init /\ [][Next]_vars
-----------------------------------------------------------------------------
TypeOK ==
    /\ now \in 0 .. MaxTime /\ lastRun \in 0 .. MaxTime
    /\ hot \in SUBSET Rows /\ stored \in SUBSET Rows /\ dropped \in SUBSET Rows
    /\ archive \in [Keys -> SUBSET Rows]
    /\ pc \in [Runners -> {"idle", "read", "ship", "delete"}]
    /\ cutoff \in [Runners -> -Retention .. MaxTime]
    /\ batch \in [Runners -> SUBSET Rows]
    /\ batches \in [Runners -> 0 .. MaxBatches]
    /\ errors \in [Runners -> 0 .. 1]
    /\ report \in [Runners -> {"none", "success", "failure"}]
    /\ clean \in {"no", "yes"}

\* maintenance.py: "no data is ever lost by a partial failure": a row is in
\* ClickHouse or in the archive, unless the TTL took it, whatever fails or
\* crashes between the upload and the delete, and whoever else runs the job.
Kept == stored \subseteq hot \union Archived \union dropped

\* "re-running the same batch overwrites the object rather than appending a
\* duplicate": no audit event is ever in two objects, although a crash or a
\* failed delete makes the next run ship rows again, in a batch cut anew.
InOneObject ==
    \A j, k \in Keys : j # k => archive[j] \intersect archive[k] = {}

\* clickhouse_ddl.sql, the window between the retention and the TTL: while
\* runs are on time and the stores answer, no row is dropped unshipped; what
\* a run cannot take for want of batches the next one still takes in time.
NeverDropped == clean = "yes" => dropped = {}

\* scheduler.py: "After the final failure the job reports failure
\* (cron_last_success_timestamp_seconds stays stale)": a run that shipped
\* nothing for an error is not a success.
ShipFailureReported ==
    \A u \in Runners : errors[u] > 0 /\ pc[u] = "idle" => report[u] # "success"
=============================================================================
