---------------------------- MODULE ColdMigration ----------------------------
(***************************************************************************)
(* The weekly job that archives warm traces as Parquet and purges them:    *)
(* migrate_traces_to_cold() of agent_obs/storage/maintenance.py with the   *)
(* queries of WarmStore and the objects of ColdStore.  One run at a time;  *)
(* rows keep arriving in the warm table while it waits for a query.        *)
(***************************************************************************)
EXTENDS Integers, FiniteSets, FiniteSetsExt

CONSTANTS
  Traces,   \* trace ids, in key order: a set of numbers
  Day,      \* the day of each trace: Day[t] is the number in its prefix
  MaxRows   \* max_partition_rows

ASSUME ColdAssumption ==
  /\ Traces \subseteq Nat \ {0} /\ IsFiniteSet(Traces)
  /\ Day \in [Traces -> Nat \ {0}] /\ MaxRows \in Nat \ {0}

VARIABLES
  warm,    \* traces_warm
  cold,    \* external: per day, the traces the objects under its prefix stand for
  aged,    \* days whose traces are past the cutoff
  mig,     \* the run: its partitions, where it stands, and its result so far
  arrived, \* history: traces ever in the warm table
  late,    \* history: days that got a row after a run had begun to read them
  big      \* history: days that a run read in more than one chunk

coldVars == <<warm, cold, aged, mig, arrived, late, big>>

Days == {Day[t] : t \in Traces}
NotRunningCold == [pc |-> "idle", days |-> {}, day |-> 0, after |-> 0, errors |-> 0, ids |-> {}]

ColdInit ==
  /\ warm = {} /\ cold = [d \in Days |-> {}] /\ aged = {} /\ arrived = {}
  /\ mig = NotRunningCold /\ late = {} /\ big = {}

Partition(d) == {t \in warm : Day[t] = d}

\* get_traces_for_partition: keyset pagination by trace id.
Chunk(d, after) ==
  LET rest == {t \in Partition(d) : t > after}
  IN  {t \in rest : Cardinality({u \in rest : u <= t}) <= MaxRows}

\* delete_prefix(".../day=1") also lists what lies under ".../day=10": the
\* prefix has no closing slash.
Covers(d, e) == e = d \/ e \in 10 * d .. 10 * d + 9

\* insert_traces: an upsert by the span migration, at any time.
Arrives(t) ==
  /\ t \notin warm /\ t \notin arrived
  /\ warm' = warm \cup {t} /\ arrived' = arrived \cup {t}
  /\ late' = IF Day[t] \in aged THEN late \cup {Day[t]} ELSE late
  /\ UNCHANGED <<cold, aged, mig, big>>

\* list_trace_partitions(cutoff).
Lists ==
  /\ mig.pc = "idle"
  /\ LET days == {d \in aged : Partition(d) # {}}
     IN  /\ days # {}
         /\ mig' = [NotRunningCold EXCEPT !.pc = "read", !.days = days, !.day = Min(days)]
  /\ UNCHANGED <<warm, cold, aged, arrived, late, big>>

\* Time passes: the oldest day that is not past the cutoff comes to be.
DayAges ==
  /\ aged # Days
  /\ aged' = aged \cup {Min(Days \ aged)}
  /\ UNCHANGED <<warm, cold, mig, arrived, late, big>>

\* The next partition, or the end of the run.
NextDay(m) ==
  LET left == {d \in m.days : d > m.day}
  IN  IF left = {} THEN NotRunningCold
      ELSE [m EXCEPT !.pc = "read", !.day = Min(left), !.after = 0, !.ids = {}]

\* Mutant of MayPurge: the errors of other partitions do not matter.
MayPurgeAlone(m) == m.pc # "failed"

\* Nothing is purged any more once anything failed in this run.
MayPurge(m) == m.errors = 0

\* Mutant of PartitionRead: a failed partition is not left.
PartitionReadStuck(m) == IF MayPurge(m) THEN [m EXCEPT !.pc = "collect", !.after = 0] ELSE m

\* After the last chunk of a partition, or the first that failed.
PartitionRead(m) ==
  IF MayPurge(m) THEN [m EXCEPT !.pc = "collect", !.after = 0] ELSE NextDay(m)

\* One turn of the chunk loop: read, aggregate, wipe the prefix, write one
\* object.  From the query's return to the end of the turn nothing suspends.
Migrates ==
  LET d == mig.day  rows == Chunk(d, mig.after)
      wiped == [e \in Days |-> IF Covers(d, e) THEN {} ELSE cold[e]]
  IN  /\ mig.pc = "read"
      /\ IF rows = {}
         THEN mig' = PartitionRead(mig) /\ UNCHANGED <<cold, big>>
         ELSE /\ big' = IF mig.after > 0 THEN big \cup {d} ELSE big
              /\ \/ /\ cold' = [wiped EXCEPT ![d] = rows]
                    /\ mig' = [mig EXCEPT !.after = Max(rows)]
                 \/ \* the wipe or the upload fails
                    /\ cold' \in {cold, wiped}
                    /\ mig' = PartitionRead([mig EXCEPT !.errors = @ + 1, !.pc = "failed"])
      /\ UNCHANGED <<warm, aged, arrived, late>>

\* The second walk over the partition collects the ids to delete.
Collects ==
  LET rows == Chunk(mig.day, mig.after)
  IN  /\ mig.pc = "collect"
      /\ mig' = IF rows # {} THEN [mig EXCEPT !.ids = @ \cup rows, !.after = Max(rows)]
                ELSE IF mig.ids # {} THEN [mig EXCEPT !.pc = "purge"]
                ELSE NextDay(mig)
      /\ UNCHANGED <<warm, cold, aged, arrived, late, big>>

\* delete_traces: one statement, or an error that is counted.
Purges ==
  /\ mig.pc = "purge"
  /\ \/ /\ warm' = warm \ mig.ids /\ mig' = NextDay(mig)
     \/ /\ mig' = NextDay([mig EXCEPT !.errors = @ + 1])
        /\ UNCHANGED warm
  /\ UNCHANGED <<cold, aged, arrived, late, big>>

\* A query that raises ends the run, and so does the end of the process; a
\* process may also die between the wipe and the upload.
RunDies ==
  /\ mig.pc # "idle" /\ mig' = NotRunningCold
  /\ \/ UNCHANGED cold
     \/ /\ mig.pc = "read" /\ Chunk(mig.day, mig.after) # {}
        /\ cold' = [e \in Days |-> IF Covers(mig.day, e) THEN {} ELSE cold[e]]
  /\ UNCHANGED <<warm, aged, arrived, late, big>>

ColdNext ==
  \/ \E t \in Traces : Arrives(t)
  \/ DayAges \/ Lists \/ Migrates \/ Collects \/ Purges \/ RunDies

ColdSpec == ColdInit /\ [][ColdNext]_coldVars

-----------------------------------------------------------------------------
(* Properties.                                                              *)

ColdTypeOK ==
  /\ warm \subseteq Traces /\ cold \in [Days -> SUBSET Traces]
  /\ aged \subseteq Days /\ mig.errors \in 0 .. Cardinality(Days) /\ mig.ids \subseteq Traces
  /\ mig.pc \in {"idle", "read", "collect", "purge"}

InATier(t) == t \in warm \/ t \in cold[Day[t]]

\* A trace is lost only through its own day, or a day whose prefix covers it,
\* being read in several chunks or getting rows after its cutoff: failed
\* uploads, failed deletes, a crash between wipe and upload and the order of
\* partitions never lose one.
ColdLossExplained ==
  \A t \in arrived : InATier(t) \/ \E d \in Days : Covers(d, Day[t]) /\ d \in late \cup big

\* Refuted: "a failed archive must never lose the source rows" (cold.py, of
\* is_available): the archive need not even fail.
NothingLostCold == \A t \in arrived : InATier(t)
=============================================================================
