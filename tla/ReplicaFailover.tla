------------------------- MODULE ReplicaFailover -------------------------
(***************************************************************************)
(* HotStore's failover over the ClickHouse replicas: one client object,    *)
(* the label of the replica it is connected to, the index of the active    *)
(* replica and the cooldown table, shared without a lock by every thread   *)
(* that calls the store, and the loop of _with_failover that each call     *)
(* runs.  One step of a thread is one read or one assignment of the shared *)
(* attributes.                                                             *)
(*                                                                         *)
(* The driver connects lazily, on the first query: making a client never   *)
(* fails, running a query on a replica that is down does.  The breaker     *)
(* that gates a call is module CircuitBreaker; here a call is admitted or  *)
(* not, and its outcome is what the breaker is told: "success", "failure", *)
(* or "unrecorded" when an exception outside the failover errors (a server *)
(* error, an AttributeError on a missing client) leaves the loop.          *)
(***************************************************************************)
EXTENDS Integers, FiniteSets

CONSTANTS
    N,        \* len(self._replicas)
    Threads   \* the threads that call the store

ASSUME ReplicaAssumption == N \in Nat \ {0}

Replicas == 0 .. (N - 1)
NoClient == -1   \* None

VARIABLES
    client,       \* the replica self._client is connected to, or NoClient
    clientHost,   \* self._client_host
    activeIdx,    \* self._active_idx
    cooling,      \* the keys of self._dead_until whose deadline is ahead
    up,           \* the replicas that answer
    pc,           \* where each thread is
    idx,          \* the replica each thread selected
    tried,        \* the replicas each thread's call has selected so far
    round,        \* iterations of the loop each thread's call has begun
    got,          \* the client _client_for returned to each thread
    out,          \* how each thread's last call ended
    alwaysUp      \* history: the replicas up ever since each call began

shared == <<client, clientHost, activeIdx, cooling>>
failoverVars == <<shared, up, pc, idx, tried, round, got, out, alwaysUp>>

Steps == {"idle", "select", "checkClient", "checkHost", "drop", "connect",
          "label", "activate", "return", "run", "discard", "reset"}
CallOutcomes == {"none", "success", "failure", "unrecorded", "rejected"}

FailoverInit ==
    /\ client = NoClient /\ clientHost = 0 /\ activeIdx = 0
    /\ cooling = {}
    /\ up \in SUBSET Replicas
    /\ pc = [t \in Threads |-> "idle"]
    /\ idx = [t \in Threads |-> 0]
    /\ tried = [t \in Threads |-> {}]
    /\ round = [t \in Threads |-> 0]
    /\ got = [t \in Threads |-> NoClient]
    /\ out = [t \in Threads |-> "none"]
    /\ alwaysUp = [t \in Threads |-> {}]

\* Thread t moves from step a to step b.
Goto(t, a, b) == pc[t] = a /\ pc' = [pc EXCEPT ![t] = b]

(* ---------------------------- one call ------------------------------- *)

\* allow_request() admits the call, and the loop's state is set up ...
Begin(t) ==
    /\ Goto(t, "idle", "select")
    /\ tried' = [tried EXCEPT ![t] = {}]
    /\ round' = [round EXCEPT ![t] = 0]
    /\ out' = [out EXCEPT ![t] = "none"]
    /\ alwaysUp' = [alwaysUp EXCEPT ![t] = up]
    /\ UNCHANGED <<shared, up, idx, got>>

\* ... or it does not, and CircuitOpenError is raised.
Reject(t) ==
    /\ Goto(t, "idle", "idle")
    /\ out' = [out EXCEPT ![t] = "rejected"]
    /\ UNCHANGED <<shared, up, idx, tried, round, got, alwaysUp>>

\* The replica nearest the active one, going round, among candidates.
Nearest(candidates) ==
    LET distance(i) == (i - activeIdx + N) % N
    IN  CHOOSE i \in candidates : \A j \in candidates : distance(i) <= distance(j)

\* Mutant of SelectReplica: the cooldown is a hard fence.
SelectFenced(exclude) ==
    IF Replicas \ (exclude \union cooling) # {}
    THEN Nearest(Replicas \ (exclude \union cooling))
    ELSE activeIdx

\* _select_replica(exclude): not excluded and not cooling down, else not
\* excluded, else the active one.
SelectReplica(exclude) ==
    IF Replicas \ (exclude \union cooling) # {}
    THEN Nearest(Replicas \ (exclude \union cooling))
    ELSE IF Replicas \ exclude # {} THEN Nearest(Replicas \ exclude) ELSE activeIdx

\* Mutant of Select: `while True` in place of the bounded loop.
SelectUncounted(t) ==
    /\ Goto(t, "select", "checkClient")
    /\ idx' = [idx EXCEPT ![t] = SelectReplica(tried[t])]
    /\ tried' = [tried EXCEPT ![t] = @ \union {idx'[t]}]
    /\ UNCHANGED <<shared, up, round, got, out, alwaysUp>>

Select(t) ==
    /\ Goto(t, "select", "checkClient")
    /\ idx' = [idx EXCEPT ![t] = SelectReplica(tried[t])]
    /\ tried' = [tried EXCEPT ![t] = @ \union {idx'[t]}]
    /\ round' = [round EXCEPT ![t] = @ + 1]
    /\ UNCHANGED <<shared, up, got, out, alwaysUp>>

\* `self._client is None or replica != self._client_host`: two reads.
CheckClient(t) ==
    /\ Goto(t, "checkClient", IF client = NoClient THEN "drop" ELSE "checkHost")
    /\ UNCHANGED <<shared, up, idx, tried, round, got, out, alwaysUp>>

CheckHost(t) ==
    /\ Goto(t, "checkHost", IF clientHost # idx[t] THEN "drop" ELSE "activate")
    /\ UNCHANGED <<shared, up, idx, tried, round, got, out, alwaysUp>>

Drop(t) ==
    /\ Goto(t, "drop", "connect")
    /\ client' = NoClient
    /\ UNCHANGED <<clientHost, activeIdx, cooling, up, idx, tried, round, got, out, alwaysUp>>

Connect(t) ==
    /\ Goto(t, "connect", "label")
    /\ client' = idx[t]
    /\ UNCHANGED <<clientHost, activeIdx, cooling, up, idx, tried, round, got, out, alwaysUp>>

\* Mutant of Label: the new client keeps the old client's label.
LabelKept(t) ==
    /\ Goto(t, "label", "activate")
    /\ UNCHANGED <<shared, up, idx, tried, round, got, out, alwaysUp>>

Label(t) ==
    /\ Goto(t, "label", "activate")
    /\ clientHost' = idx[t]
    /\ UNCHANGED <<client, activeIdx, cooling, up, idx, tried, round, got, out, alwaysUp>>

Activate(t) ==
    /\ Goto(t, "activate", "return")
    /\ activeIdx' = idx[t]
    /\ UNCHANGED <<client, clientHost, cooling, up, idx, tried, round, got, out, alwaysUp>>

Return(t) ==
    /\ Goto(t, "return", "run")
    /\ got' = [got EXCEPT ![t] = client]
    /\ UNCHANGED <<shared, up, idx, tried, round, out, alwaysUp>>

\* fn(client) returns (record_success) or raises an error of the server,
\* which no other replica would answer differently.
RunAnswered(t) ==
    /\ Goto(t, "run", "idle")
    /\ got[t] \in up
    /\ \E o \in {"success", "unrecorded"} : out' = [out EXCEPT ![t] = o]
    /\ UNCHANGED <<shared, up, idx, tried, round, got, alwaysUp>>

\* fn(None): AttributeError, which is not one of the failover errors.
RunNoClient(t) ==
    /\ Goto(t, "run", "idle")
    /\ got[t] = NoClient
    /\ out' = [out EXCEPT ![t] = "unrecorded"]
    /\ UNCHANGED <<shared, up, idx, tried, round, got, alwaysUp>>

\* A connection-level error: _mark_dead(idx), whatever client was used.
RunFails(t) ==
    /\ Goto(t, "run", "discard")
    /\ got[t] \in Replicas \ up
    /\ cooling' = cooling \union {idx[t]}
    /\ UNCHANGED <<client, clientHost, activeIdx, up, idx, tried, round, got, out, alwaysUp>>

\* _drop_client(), then the next iteration or, after N, record_failure().
Discard(t) ==
    /\ Goto(t, "discard", IF round[t] < N THEN "select" ELSE "idle")
    /\ client' = NoClient
    /\ out' = IF round[t] < N THEN out ELSE [out EXCEPT ![t] = "failure"]
    /\ UNCHANGED <<clientHost, activeIdx, cooling, up, idx, tried, round, got, alwaysUp>>

(* ------------------------------ close -------------------------------- *)

\* close(): _drop_client(), then the failover state is reset.
Close(t) ==
    /\ Goto(t, "idle", "reset")
    /\ client' = NoClient
    /\ UNCHANGED <<clientHost, activeIdx, cooling, up, idx, tried, round, got, out, alwaysUp>>

Reset(t) ==
    /\ Goto(t, "reset", "idle")
    /\ cooling' = {} /\ activeIdx' = 0 /\ clientHost' = 0
    /\ UNCHANGED <<client, up, idx, tried, round, got, out, alwaysUp>>

(* --------------------------- environment ----------------------------- *)

\* A replica stops answering.
GoDown(r) ==
    /\ r \in up
    /\ up' = up \ {r}
    /\ alwaysUp' = [t \in Threads |-> alwaysUp[t] \ {r}]
    /\ UNCHANGED <<shared, pc, idx, tried, round, got, out>>

\* A replica answers again.
ComeUp(r) ==
    /\ r \in Replicas \ up
    /\ up' = up \union {r}
    /\ UNCHANGED <<shared, pc, idx, tried, round, got, out, alwaysUp>>

\* REPLICA_COOLDOWN_SECONDS have passed since _mark_dead(r).
CooldownEnds(r) ==
    /\ r \in cooling
    /\ cooling' = cooling \ {r}
    /\ UNCHANGED <<client, clientHost, activeIdx, up, pc, idx, tried, round, got, out, alwaysUp>>

ClientFor(t) ==
    \/ CheckClient(t) \/ CheckHost(t) \/ Drop(t) \/ Connect(t) \/ Label(t)
    \/ Activate(t) \/ Return(t)

CallStep(t) ==
    \/ Select(t) \/ ClientFor(t)
    \/ RunAnswered(t) \/ RunNoClient(t) \/ RunFails(t) \/ Discard(t)

FailoverNext ==
    \/ \E t \in Threads : Begin(t) \/ Reject(t) \/ CallStep(t) \/ Close(t) \/ Reset(t)
    \/ \E r \in Replicas : GoDown(r) \/ ComeUp(r) \/ CooldownEnds(r)

\* A thread inside a call runs: the operating system schedules it, and the
\* driver's connect and receive timeouts end every query.
FailoverFairness == \A t \in Threads : WF_failoverVars(CallStep(t) \/ Reset(t))

FailoverSpec == FailoverInit /\ [][FailoverNext]_failoverVars /\ FailoverFairness

(* ---------------------------- properties ----------------------------- *)

FailoverTypeOK ==
    /\ client \in Replicas \union {NoClient}
    /\ clientHost \in Replicas
    /\ activeIdx \in Replicas
    /\ cooling \in SUBSET Replicas
    /\ up \in SUBSET Replicas
    /\ pc \in [Threads -> Steps]
    /\ idx \in [Threads -> Replicas]
    /\ tried \in [Threads -> SUBSET Replicas]
    /\ round \in [Threads -> 0 .. N]
    /\ got \in [Threads -> Replicas \union {NoClient}]
    /\ out \in [Threads -> CallOutcomes]
    /\ alwaysUp \in [Threads -> SUBSET Replicas]

\* A call is recorded as a failure (and counts toward opening the breaker)
\* only after every replica was selected: the loop that counts iterations
\* never spends two of them on one replica, cooldowns or not, however other
\* threads move the active index meanwhile.
FailureTriedAll == \A t \in Threads : out[t] = "failure" => tried[t] = Replicas

\* The store's attributes and every call's locals keep their types, and a call
\* that is told to the breaker as a failure has tried every replica.
FailoverSafe == FailoverTypeOK /\ FailureTriedAll

\* The query of a call runs on the replica the call selected, so the replica
\* that is marked dead on an error is the one that failed.
RunsOnSelected == \A t \in Threads : pc[t] = "run" => got[t] = idx[t]

\* A call does not fail while some replica has been answering ever since it
\* began.
HealthyReplicaServes == \A t \in Threads : out[t] = "failure" => alwaysUp[t] = {}

\* A call is never handed a missing client.
ClientPresent == \A t \in Threads : pc[t] = "run" => got[t] # NoClient

\* Every call ends: failing over never goes round for ever.
CallEnds == \A t \in Threads : pc[t] = "select" ~> pc[t] = "idle"
==========================================================================
