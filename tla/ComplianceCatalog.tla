-------------------------- MODULE ComplianceCatalog --------------------------
(***************************************************************************)
(* The compliance catalog: how often which PII was masked.  The buffer and *)
(* its flush, the writers and the tier they are built for (catalog.py),    *)
(* the daily aggregation of the warm table (aggregate.py) and the weekly   *)
(* move from hot to warm (migrate_hot_to_warm.py).                         *)
(*                                                                         *)
(* The writer and both jobs await HotStore, whose methods are not          *)
(* coroutines: the statement runs, and awaiting its result raises.         *)
(* `asyncHot' is whether the store given is one that can be awaited.       *)
(***************************************************************************)
EXTENDS Integers, FiniteSets, FiniteSetsExt

CONSTANTS
  CatalogKeys,   \* (agent_id, tool, field, pii_type)
  Flushers,      \* tasks in flush(): the worker and callers of flush()
  HotDays,       \* hot_retention_days
  WarmDays,      \* retention_days of the warm table
  MaxRecorded,   \* bound: events recorded per key
  MaxDoubtful,   \* bound: events in doubtful writes, per key
  MaxDay         \* bound: the clock, in days

ASSUME CatalogAssumption ==
  /\ HotDays \in Nat /\ WarmDays \in Nat
  /\ "worker" \in Flushers /\ IsFiniteSet(Flushers)
  /\ MaxRecorded \in Nat /\ MaxDoubtful \in Nat /\ MaxDay \in Nat

VARIABLES
  buffer,    \* _buffer: per key, the count not yet flushed
  flight,    \* per flusher: the rows it is writing
  pg,        \* external: compliance_catalog, frequency and last_seen
  hot,       \* external: compliance_catalog_hot after merging: the last row of a key
  tier,      \* the writer that build_compliance_catalog chose
  asyncHot,  \* whether HotStore can be awaited
  job,       \* the aggregation or migration in progress, and the rows it read
  today,
  catRecorded, \* history: events recorded
  cleaned,   \* history: counts deleted with stale rows
  doubtful   \* history: events in a write that failed after it happened, or was cancelled

catalogVars == <<buffer, flight, pg, hot, tier, asyncHot, job, today, catRecorded, cleaned, doubtful>>

NoRow == [freq |-> 0, seen |-> -1]
Zero == [k \in CatalogKeys |-> 0]
NoJob == [pc |-> "none", rows |-> {}]

\* build_compliance_catalog: AGENT_OBS_COMPLIANCE_TIER and _PG.
Tiers == {"warm_only", "hot_only", "dual", "null"}

CatalogInit ==
  /\ buffer = Zero /\ flight = [f \in Flushers |-> Zero] /\ catRecorded = Zero /\ cleaned = Zero /\ doubtful = Zero
  /\ pg = [k \in CatalogKeys |-> NoRow] /\ hot = [k \in CatalogKeys |-> NoRow]
  /\ tier \in Tiers /\ asyncHot \in BOOLEAN /\ job = NoJob /\ today = 0

Plus(a, b) == [k \in CatalogKeys |-> a[k] + b[k]]

\* record(): in memory only.
CatalogRecord(k) ==
  /\ catRecorded[k] < MaxRecorded
  /\ buffer' = [buffer EXCEPT ![k] = @ + 1] /\ catRecorded' = [catRecorded EXCEPT ![k] = @ + 1]
  /\ UNCHANGED <<flight, pg, hot, tier, asyncHot, job, today, cleaned, doubtful>>

\* flush(): the buffer is taken and cleared before the write is awaited.
FlushBegins(f) ==
  /\ buffer # Zero /\ flight[f] = Zero
  /\ flight' = [flight EXCEPT ![f] = buffer] /\ buffer' = Zero
  /\ UNCHANGED <<pg, hot, tier, asyncHot, job, today, catRecorded, cleaned, doubtful>>

\* PostgresCatalogWriter: counts add up.
PgUpsert(rows) ==
  [k \in CatalogKeys |-> IF rows[k] = 0 THEN pg[k] ELSE [freq |-> pg[k].freq + rows[k], seen |-> today]]

\* HotCatalogWriter: a new version of the row, which replaces the old count.
HotUpsert(rows) ==
  [k \in CatalogKeys |-> IF rows[k] = 0 THEN hot[k] ELSE [freq |-> rows[k], seen |-> today]]

\* The outcomes of upsert(rows): which tables took the rows, and whether the
\* writer raised.  The composite tries each writer and swallows what it raises.
Outcomes ==
  CASE tier = "warm_only" -> {[pg |-> TRUE, hot |-> FALSE, raised |-> FALSE],
                              [pg |-> TRUE, hot |-> FALSE, raised |-> TRUE],
                              [pg |-> FALSE, hot |-> FALSE, raised |-> TRUE]}
    [] tier = "hot_only"  -> {[pg |-> FALSE, hot |-> h, raised |-> ~(h /\ asyncHot)] : h \in BOOLEAN}
    [] tier = "dual"      -> [pg : BOOLEAN, hot : BOOLEAN, raised : {FALSE}]
    [] OTHER              -> {[pg |-> FALSE, hot |-> FALSE, raised |-> FALSE]}

Landed(rows, o) ==
  /\ pg' = IF o.pg THEN PgUpsert(rows) ELSE pg
  /\ hot' = IF o.hot THEN HotUpsert(rows) ELSE hot

\* Mutant of Restored: rows recorded meanwhile are overwritten.
RestoredOver(f) == [k \in CatalogKeys |-> IF flight[f][k] > 0 THEN flight[f][k] ELSE buffer[k]]

\* A failed batch is added back to what was recorded meanwhile.
Restored(f) == Plus(buffer, flight[f])

FlushEnds(f) ==
  /\ flight[f] # Zero
  /\ \E o \in Outcomes :
       /\ Landed(flight[f], o)
       /\ buffer' = IF o.raised THEN Restored(f) ELSE buffer
       /\ doubtful' = IF (o.raised /\ o.pg) \/ (~o.raised /\ ~o.pg) THEN Plus(doubtful, flight[f]) ELSE doubtful
  /\ \A k \in CatalogKeys : doubtful'[k] <= MaxDoubtful
  /\ flight' = [flight EXCEPT ![f] = Zero]
  /\ UNCHANGED <<tier, asyncHot, job, today, catRecorded, cleaned>>

\* close() gives the worker five seconds and cancels it: the cancellation of
\* a write is no Exception, and the rows are not put back.
CloseCancels ==
  /\ flight["worker"] # Zero
  /\ \E o \in Outcomes : Landed(flight["worker"], o)
  /\ doubtful' = Plus(doubtful, flight["worker"])
  /\ \A k \in CatalogKeys : doubtful'[k] <= MaxDoubtful
  /\ flight' = [flight EXCEPT !["worker"] = Zero]
  /\ UNCHANGED <<buffer, tier, asyncHot, job, today, catRecorded, cleaned>>

-----------------------------------------------------------------------------
(* The two jobs.                                                            *)

Later(a, b) == [freq |-> IF a.freq > b.freq THEN a.freq ELSE b.freq,
                seen |-> IF a.seen > b.seen THEN a.seen ELSE b.seen]

\* update_compliance_last_seen_from_hot: GREATEST of both.
SyncFromHot(rows) == [k \in CatalogKeys |-> IF k \in rows THEN Later(pg[k], hot[k]) ELSE pg[k]]
InHot == {k \in CatalogKeys : hot[k] # NoRow}

\* aggregate_compliance_catalog reads the warm table once, at the start.
AggregateReads ==
  /\ job = NoJob
  /\ job' = [pc |-> "sync", rows |-> {[key |-> k, seen |-> pg[k].seen] : k \in {k \in CatalogKeys : pg[k] # NoRow}}]
  /\ UNCHANGED <<buffer, flight, pg, hot, tier, asyncHot, today, catRecorded, cleaned, doubtful>>

\* The sync from hot may fail, and is skipped then.
AggregateSyncs ==
  /\ job.pc = "sync"
  /\ pg' \in (IF asyncHot THEN {SyncFromHot(InHot), pg} ELSE {pg})
  /\ job' = [job EXCEPT !.pc = "clean"]
  /\ UNCHANGED <<buffer, flight, hot, tier, asyncHot, today, catRecorded, cleaned, doubtful>>

\* Rows that were stale when they were read are deleted by id.
AggregateCleans ==
  /\ job.pc = "clean" /\ job' = NoJob
  /\ LET stale == {r.key : r \in {r \in job.rows : r.seen < today - WarmDays}}
     IN  /\ pg' = [k \in CatalogKeys |-> IF k \in stale THEN NoRow ELSE pg[k]]
         /\ cleaned' = [k \in CatalogKeys |-> IF k \in stale THEN Min({cleaned[k] + pg[k].freq, MaxRecorded + MaxDoubtful})
                                                   ELSE cleaned[k]]
  /\ UNCHANGED <<buffer, flight, hot, tier, asyncHot, today, catRecorded, doubtful>>

\* migrate_compliance_catalog_hot_to_warm: ships what is younger than the
\* cutoff and purges what is older.
MigrateShips ==
  /\ job = NoJob /\ asyncHot
  /\ LET young == {k \in InHot : hot[k].seen >= today - HotDays}
     IN  /\ young # {}
         /\ pg' = SyncFromHot(young)
  /\ job' = [NoJob EXCEPT !.pc = "purge"]
  /\ UNCHANGED <<buffer, flight, hot, tier, asyncHot, today, catRecorded, cleaned, doubtful>>

MigratePurges ==
  /\ job.pc = "purge" /\ job' = NoJob
  /\ hot' = [k \in CatalogKeys |-> IF hot[k].seen < today - HotDays THEN NoRow ELSE hot[k]]
  /\ UNCHANGED <<buffer, flight, pg, tier, asyncHot, today, catRecorded, cleaned, doubtful>>

JobDies == /\ job # NoJob /\ job' = NoJob
           /\ UNCHANGED <<buffer, flight, pg, hot, tier, asyncHot, today, catRecorded, cleaned, doubtful>>

CatalogDay == /\ today < MaxDay /\ today' = today + 1
              /\ UNCHANGED <<buffer, flight, pg, hot, tier, asyncHot, job, catRecorded, cleaned, doubtful>>

CatalogNext ==
  \/ \E k \in CatalogKeys : CatalogRecord(k)
  \/ \E f \in Flushers : FlushBegins(f) \/ FlushEnds(f)
  \/ CloseCancels \/ AggregateReads \/ AggregateSyncs \/ AggregateCleans
  \/ MigrateShips \/ MigratePurges \/ JobDies \/ CatalogDay

CatalogSpec == CatalogInit /\ [][CatalogNext]_catalogVars

-----------------------------------------------------------------------------
(* Properties.                                                              *)

CatalogTypeOK ==
  /\ {buffer, catRecorded} \subseteq [CatalogKeys -> 0 .. 2 * MaxRecorded]
  /\ job.pc \in {"none", "sync", "clean", "purge"} /\ tier \in Tiers /\ today \in 0 .. MaxDay
  /\ \A k \in CatalogKeys : pg[k].seen <= today /\ hot[k].seen <= today

\* Events of a key that are in the table, were cleaned from it as stale, or wait.
InFlight(k) == [f \in Flushers |-> flight[f][k]]
Counted(k) == pg[k].freq + cleaned[k] + buffer[k] + MapThenSumSet(LAMBDA f : InFlight(k)[f], Flushers)

\* The table counts every masking event once, however flushes, failures and
\* recording overlap: it is off by no more than the events of batches whose
\* write was cancelled, failed after it happened, or failed in the composite.
CatalogConserved ==
  \A k \in CatalogKeys :
    tier = "warm_only" \/ (tier = "dual" /\ cleaned[k] = 0) =>
      /\ Counted(k) <= catRecorded[k] + doubtful[k]
      /\ catRecorded[k] <= Counted(k) + doubtful[k]

\* Refuted: "Cleans stale records older than retention_days without activity"
\* (aggregate.py:61).  A row refreshed after the read is deleted all the same.
FreshRowsKept ==
  [][\A k \in CatalogKeys : pg[k] # NoRow /\ pg'[k] = NoRow => pg[k].seen < today - WarmDays]_catalogVars
=============================================================================
