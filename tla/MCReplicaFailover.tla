------------------------ MODULE MCReplicaFailover ------------------------
(***************************************************************************)
(* An instance of ReplicaFailover for TLC: three replicas, and either one  *)
(* thread that calls the store for ever, or two threads at once for as     *)
(* long as at most MaxMoves calls, closings and changes of a replica last. *)
(***************************************************************************)
EXTENDS ReplicaFailover, TLC

CONSTANTS t1, t2, MaxMoves

VARIABLES
    active,  \* the threads of this behaviour
    moves    \* bound: moves so far, when two threads are active

TwoThreads == {t1, t2}

\* What begins a call or disturbs one.
Move ==
    \/ \E t \in active : Begin(t) \/ Reject(t) \/ Close(t)
    \/ \E r \in Replicas : GoDown(r) \/ ComeUp(r) \/ CooldownEnds(r)

MCInit == FailoverInit /\ active \in {{t1}, TwoThreads} /\ moves = 0
MCNext ==
    /\ UNCHANGED active
    /\ \/ \E t \in active : (CallStep(t) \/ Reset(t)) /\ UNCHANGED moves
       \/ active = {t1} /\ Move /\ UNCHANGED moves
       \/ active = TwoThreads /\ moves < MaxMoves /\ Move /\ moves' = moves + 1
MCSpec == MCInit /\ [][MCNext]_<<failoverVars, active, moves>> /\ FailoverFairness

\* With one thread the query of a call runs on the replica the call selected, so that
\* the replica marked dead is the one that failed, and a call does not fail while some
\* replica has been answering ever since it began (storage/hot.py _with_failover).
ServesFromHealthy == active = {t1} => RunsOnSelected /\ HealthyReplicaServes
==========================================================================
