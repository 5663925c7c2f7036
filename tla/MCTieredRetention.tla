------------------------- MODULE MCTieredRetention -------------------------
(***************************************************************************)
(* Instances of TieredRetention for TLC: the job the configuration names,  *)
(* and, as a part of its own on the same variables, the audit job of one   *)
(* runner with larger batches and runs that come when they like.           *)
(***************************************************************************)
EXTENDS TieredRetention, TLC

CONSTANTS u1, u2, u3, Parts

VARIABLE part

One == {u1}
Two == {u1, u2}
Everything == {"read", "ship", "delete", "crash"}
RunnerSymmetry == Permutations({u1, u2})

Audit == INSTANCE TieredRetention
         WITH Job <- "audit", Runners <- {u3}, TTL <- 9, BatchSize <- 2, Period <- 0

MCInit ==
    /\ part \in Parts
    /\ \/ part = "job" /\ Init
       \/ part = "audit" /\ Audit!Init
MCNext ==
    /\ UNCHANGED part
    /\ \/ part = "job" /\ Next
       \/ part = "audit" /\ Audit!Next
MCSpec == MCInit /\ [][MCNext]_<<vars, part>>

\* No row of the eval job is lost, whatever fails or crashes between the upload and
\* the delete, and whoever else runs the job (maintenance.py migrate_eval_results_to_warm).
EvalKept == part = "job" => Kept

\* The job's bookkeeping keeps its types and, while runs are on time and the stores
\* answer, what it is responsible for leaves ClickHouse before the TTL takes it.
RetentionTimely == part = "job" => TypeOK /\ NeverDropped
=============================================================================
