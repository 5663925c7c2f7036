------------------------- MODULE AvailabilityProofs -------------------------
(***************************************************************************)
(* Proofs about what stands between a client and a dependency that may be  *)
(* down: the circuit breaker, for every set of callers, threshold and      *)
(* recovery time (CircuitBreaker), and HotStore's failover, for any number *)
(* of replicas and threads (ReplicaFailover).                              *)
(***************************************************************************)
EXTENDS CircuitBreaker, MCReplicaFailover, FiniteFacts

\* The failure counter stays in its range when it is bumped and never falls.
LEMMA BumpRange ==
    ASSUME NEW n \in 0..MaxFailures
    PROVE  /\ Bump(n) \in 0..MaxFailures
           /\ Bump(n) >= n
  BY BreakerAssumption DEF Bump

\* Type correctness: the variables of the breaker keep the shape the
\* constructor gives them through every interleaving of its three methods.
THEOREM Typing == Spec => []TypeOK
<1>1. Init => TypeOK
  BY BreakerAssumption DEF Init, TypeOK, CircuitState
<1>2. TypeOK /\ [Next]_vars => TypeOK'
  <2> SUFFICES ASSUME TypeOK, [Next]_vars PROVE TypeOK'
    OBVIOUS
  <2>1. ASSUME NEW c \in Callers, AllowRequest(c) PROVE TypeOK'
    BY <2>1 DEF TypeOK, AllowRequest, Admitted, CircuitState
  <2>2. ASSUME NEW c \in Callers, RecordSuccess(c) PROVE TypeOK'
    BY <2>2, BreakerAssumption DEF TypeOK, RecordSuccess, SuccessRecorded, CircuitState
  <2>3. ASSUME NEW c \in Callers, RecordFailure(c) PROVE TypeOK'
    BY <2>3, BreakerAssumption, BumpRange DEF TypeOK, RecordFailure, FailureRecorded, CircuitState
  <2>4. ASSUME NEW c \in Callers, Unrecorded(c) PROVE TypeOK'
    BY <2>4 DEF TypeOK, Unrecorded
  <2>5. CASE Tick
    BY <2>5, BreakerAssumption DEF TypeOK, Tick
  <2>6. CASE UNCHANGED vars
    BY <2>6 DEF TypeOK, vars
  <2> QED
    BY <2>1, <2>2, <2>3, <2>4, <2>5, <2>6 DEF Next, Report
<1> QED
  BY <1>1, <1>2, PTL DEF Spec

\* The two facts that are inductive only together with the types: the raw
\* state is a function of the counter, and the slot of the raw state.
BreakerInv == TypeOK /\ ClosedIffBelowThreshold /\ ProbeSlotIffHalfOpen

\* BreakerInv is inductive: every method of the breaker, called in any order
\* by any caller, preserves it.
THEOREM BreakerInvariant == Spec => []BreakerInv
<1>1. Init => ClosedIffBelowThreshold /\ ProbeSlotIffHalfOpen
  BY BreakerAssumption DEF Init, ClosedIffBelowThreshold, ProbeSlotIffHalfOpen
<1>2. /\ TypeOK /\ TypeOK'
      /\ ClosedIffBelowThreshold /\ ProbeSlotIffHalfOpen
      /\ [Next]_vars
      => ClosedIffBelowThreshold' /\ ProbeSlotIffHalfOpen'
  <2> SUFFICES ASSUME TypeOK, TypeOK',
                      ClosedIffBelowThreshold, ProbeSlotIffHalfOpen,
                      [Next]_vars
               PROVE  ClosedIffBelowThreshold' /\ ProbeSlotIffHalfOpen'
    OBVIOUS
  <2> USE DEF ClosedIffBelowThreshold, ProbeSlotIffHalfOpen
  <2>1. ASSUME NEW c \in Callers, AllowRequest(c)
        PROVE  ClosedIffBelowThreshold' /\ ProbeSlotIffHalfOpen'
    BY <2>1 DEF AllowRequest, Admitted, Admits, TypeOK
  <2>2. ASSUME NEW c \in Callers, RecordSuccess(c)
        PROVE  ClosedIffBelowThreshold' /\ ProbeSlotIffHalfOpen'
    BY <2>2, BreakerAssumption DEF RecordSuccess, SuccessRecorded
  <2>3. ASSUME NEW c \in Callers, RecordFailure(c)
        PROVE  ClosedIffBelowThreshold' /\ ProbeSlotIffHalfOpen'
    <3>1. CASE Opens
      <4>1. Bump(failures) >= FailureThreshold
        BY <3>1, BumpRange, BreakerAssumption DEF Opens, TypeOK, CircuitState
      <4> QED
        BY <2>3, <3>1, <4>1, BumpRange, BreakerAssumption
           DEF RecordFailure, FailureRecorded, TypeOK
    <3>2. CASE ~Opens
      BY <2>3, <3>2, BumpRange, BreakerAssumption
         DEF RecordFailure, FailureRecorded, Opens, TypeOK, CircuitState
    <3> QED
      BY <3>1, <3>2
  <2>4. ASSUME NEW c \in Callers, Unrecorded(c)
        PROVE  ClosedIffBelowThreshold' /\ ProbeSlotIffHalfOpen'
    BY <2>4 DEF Unrecorded
  <2>5. CASE Tick
    BY <2>5 DEF Tick
  <2>6. CASE UNCHANGED vars
    BY <2>6 DEF vars
  <2> QED
    BY <2>1, <2>2, <2>3, <2>4, <2>5, <2>6 DEF Next, Report
<1> QED
  BY <1>1, <1>2, Typing, PTL DEF Spec, BreakerInv

\* The breaker lets ordinary traffic through exactly while fewer than
\* failure_threshold consecutive failures are on record.
THEOREM ClosedBelowThreshold == Spec => []ClosedIffBelowThreshold
  BY BreakerInvariant, PTL DEF BreakerInv

\* The probe slot is taken exactly while the breaker is half-open.
THEOREM SlotMeansHalfOpen == Spec => []ProbeSlotIffHalfOpen
  BY BreakerInvariant, PTL DEF BreakerInv

\* Of all steps only an unreported ending can leave a taken slot without a
\* running probe: every report releases the slot, or finds it free.
LEMMA OnlyUnrecordedOrphans ==
    ASSUME BreakerInv, BreakerInv', ProbeSlotHasOwner, [Next]_vars,
           ~ProbeSlotHasOwner'
    PROVE  \E c \in Callers : Unrecorded(c)
<1> USE DEF BreakerInv, TypeOK
<1>0. probeInFlight' = "yes" /\ ~\E d \in Callers : call'[d] = "probe"
  BY DEF ProbeSlotHasOwner
<1>1. ASSUME NEW c \in Callers, AllowRequest(c)
      PROVE  FALSE
  <2>1. CASE state = "closed"
    BY <1>0, <1>1, <2>1 DEF AllowRequest, Admitted, ProbeSlotIffHalfOpen
  <2>2. CASE state # "closed"
    BY <1>0, <1>1, <2>2 DEF AllowRequest, Admitted
  <2> QED
    BY <2>1, <2>2
<1>2. ASSUME NEW c \in Callers, RecordSuccess(c)
      PROVE  FALSE
  BY <1>0, <1>2 DEF RecordSuccess, SuccessRecorded
<1>3. ASSUME NEW c \in Callers, RecordFailure(c)
      PROVE  FALSE
  BY <1>0, <1>3 DEF RecordFailure, FailureRecorded, Opens, ProbeSlotIffHalfOpen
<1>4. ASSUME Tick
      PROVE  FALSE
  BY <1>0, <1>4 DEF Tick, ProbeSlotHasOwner
<1>5. ASSUME UNCHANGED vars
      PROVE  FALSE
  BY <1>0, <1>5 DEF vars, ProbeSlotHasOwner
<1> QED
  BY <1>1, <1>2, <1>3, <1>4, <1>5 DEF Next, Report

\* A client that reports every outcome (CircuitBreaker.call does) never
\* orphans the slot: while it is taken, its probe is still running.
THEOREM SlotOwned ==
    ASSUME "unrecorded" \notin Outcomes
    PROVE  Spec => []ProbeSlotHasOwner
<1>1. Init => ProbeSlotHasOwner
  BY DEF Init, ProbeSlotHasOwner
<1>2. /\ BreakerInv /\ BreakerInv' /\ ProbeSlotHasOwner /\ [Next]_vars
      => ProbeSlotHasOwner'
  BY OnlyUnrecordedOrphans DEF Unrecorded
<1> QED
  BY <1>1, <1>2, BreakerInvariant, PTL DEF Spec

\* Whatever the clients do, the slot is orphaned only by a probe that ends
\* without a report.
THEOREM SlotOrphaned == Spec => OrphanedByUnreported
<1>1. ASSUME BreakerInv, BreakerInv', [Next]_vars, ProbeSlotHasOwner, ~ProbeSlotHasOwner'
      PROVE  /\ \E c \in Callers : call[c] = "probe" /\ call'[c] = "idle"
             /\ UNCHANGED <<state, failures, openFor, probeInFlight>>
  <2> USE DEF BreakerInv, TypeOK
  <2>1. PICK c \in Callers : Unrecorded(c)
    BY <1>1, OnlyUnrecordedOrphans
  <2>2. UNCHANGED <<state, failures, openFor, probeInFlight>>
    BY <2>1 DEF Unrecorded
  <2>3. PICK d \in Callers : call[d] = "probe"
    BY <1>1, <2>2 DEF ProbeSlotHasOwner
  <2>4. call'[d] # "probe"
    BY <1>1, <2>2 DEF ProbeSlotHasOwner
  <2>5. d = c /\ call'[c] = "idle"
    BY <1>1, <2>1, <2>3, <2>4 DEF Unrecorded
  <2> QED
    BY <2>2, <2>3, <2>5
<1>2. BreakerInv /\ BreakerInv' /\ [Next]_vars
      => [(ProbeSlotHasOwner /\ ~ProbeSlotHasOwner')
            => /\ \E c \in Callers : call[c] = "probe" /\ call'[c] = "idle"
               /\ UNCHANGED <<state, failures, openFor, probeInFlight>>]_vars
  BY <1>1
<1> QED
  BY <1>2, BreakerInvariant, PTL DEF Spec, OrphanedByUnreported

\* No timer and no failure closes the breaker: it takes a reported success.
THEOREM OnlySuccessCloses == Spec => ClosesOnSuccessOnly
<1> DEFINE Closes == /\ failures' = 0
                     /\ \E c \in Callers : call[c] # "idle" /\ call'[c] = "idle"
<1>1. ASSUME BreakerInv, [Next]_vars, state # "closed", state' = "closed"
      PROVE  Closes
  <2> USE DEF BreakerInv, TypeOK
  <2>1. ASSUME NEW c \in Callers, AllowRequest(c)
        PROVE  FALSE
    BY <1>1, <2>1 DEF AllowRequest, Admitted
  <2>2. ASSUME NEW c \in Callers, RecordSuccess(c)
        PROVE  Closes
    BY <1>1, <2>2 DEF RecordSuccess, SuccessRecorded
  <2>3. ASSUME NEW c \in Callers, RecordFailure(c)
        PROVE  FALSE
    BY <1>1, <2>3 DEF RecordFailure, FailureRecorded
  <2>4. ASSUME NEW c \in Callers, Unrecorded(c)
        PROVE  FALSE
    BY <1>1, <2>4 DEF Unrecorded
  <2>5. ASSUME Tick \/ UNCHANGED vars
        PROVE  FALSE
    BY <1>1, <2>5 DEF Tick, vars
  <2> QED
    BY <1>1, <2>1, <2>2, <2>3, <2>4, <2>5 DEF Next, Report
<1>2. BreakerInv /\ [Next]_vars => [(state # "closed" /\ state' = "closed") => Closes]_vars
  BY <1>1
<1> QED
  BY <1>2, BreakerInvariant, PTL DEF Spec, ClosesOnSuccessOnly

\* The breaker's own state is consistent in every reachable state.
THEOREM BreakerSafety == Spec => []BreakerSafe
  BY Typing, ClosedBelowThreshold, SlotMeansHalfOpen, PTL DEF BreakerSafe

\* No step orphans the slot silently or closes the breaker without a success.
THEOREM BreakerStepsSafe == Spec => BreakerSteps
  BY SlotOrphaned, OnlySuccessCloses, PTL DEF BreakerSteps
-----------------------------------------------------------------------------
(* Failover.  A call is recorded as a failure only after it selected every   *)
(* replica.  The loop counts iterations; that they are as many as the        *)
(* replicas it selected needs that _select_replica never returns an excluded *)
(* one while another is left, wherever other threads have moved the index.   *)

\* The loop's bookkeeping: an iteration per replica tried, and the loop goes
\* on only while one is left.
Counted ==
    \A t \in Threads :
        /\ Cardinality(tried[t]) = round[t]
        /\ pc[t] = "select" => round[t] < N

IInv == FailoverTypeOK /\ Counted /\ FailureTriedAll

\* The going-round search of _select_replica finds one of its candidates.
LEMMA NearestIsCandidate ==
    ASSUME activeIdx \in Replicas, NEW C \in SUBSET Replicas, C # {}
    PROVE  Nearest(C) \in C
<1> DEFINE distance(i) == (i - activeIdx + N) % N
           D == {distance(i) : i \in C}
<1>1. \A i \in C : distance(i) \in Nat
  BY ReplicaAssumption DEF Replicas
<1>2. D \subseteq Nat /\ D # {}
  BY <1>1
<1>3. PICK d \in D : \A e \in D : d <= e
  <2> HIDE DEF D
  <2>1. QED
    BY <1>2, LeastNumber
<1>4. PICK i \in C : d = distance(i)
  OBVIOUS
<1>5. \A j \in C : distance(i) <= distance(j)
  BY <1>3, <1>4
<1>6. QED
  BY <1>5, Zenon DEF Nearest

\* _select_replica returns a replica, and not an excluded one while another
\* is left.
LEMMA SelectsUntried ==
    ASSUME FailoverTypeOK, NEW E \in SUBSET Replicas
    PROVE  /\ SelectReplica(E) \in Replicas
           /\ E # Replicas => SelectReplica(E) \notin E
<1>1. activeIdx \in Replicas
  BY DEF FailoverTypeOK
<1>2. CASE Replicas \ (E \union cooling) # {}
  <2>1. Nearest(Replicas \ (E \union cooling)) \in Replicas \ (E \union cooling)
    BY <1>1, <1>2, NearestIsCandidate
  <2>2. QED
    BY <1>2, <2>1 DEF SelectReplica
<1>3. CASE Replicas \ (E \union cooling) = {} /\ Replicas \ E # {}
  <2>1. Nearest(Replicas \ E) \in Replicas \ E
    BY <1>1, <1>3, NearestIsCandidate
  <2>2. QED
    BY <1>3, <2>1 DEF SelectReplica
<1>4. CASE Replicas \ (E \union cooling) = {} /\ Replicas \ E = {}
  BY <1>1, <1>4 DEF SelectReplica
<1>5. QED
  BY <1>2, <1>3, <1>4

\* There are N replicas: a set of N of them is all of them.
LEMMA AllReplicas ==
    /\ IsFiniteSet(Replicas)
    /\ \A S \in SUBSET Replicas :
          /\ IsFiniteSet(S)
          /\ Cardinality(S) = N <=> S = Replicas
<1>1. IsFiniteSet(Replicas) /\ Cardinality(Replicas) = N
  BY ReplicaAssumption, FS_Interval DEF Replicas
<1>2. ASSUME NEW S \in SUBSET Replicas
      PROVE  IsFiniteSet(S) /\ (Cardinality(Replicas) = Cardinality(S) => S = Replicas)
  BY <1>1, FS_Subset
<1>3. QED
  BY <1>1, <1>2

\* No call has begun in the first state.
LEMMA InitIInv == ASSUME FailoverInit PROVE IInv
<1>1. FailoverTypeOK
  BY ReplicaAssumption DEF FailoverInit, FailoverTypeOK, Replicas, NoClient, Steps, CallOutcomes
<1>2. Counted
  BY FS_EmptySet DEF FailoverInit, Counted
<1>3. FailureTriedAll
  BY DEF FailoverInit, FailureTriedAll
<1>4. QED
  BY <1>1, <1>2, <1>3 DEF IInv

\* An iteration of the loop tries one more replica.
LEMMA SelectStep ==
    ASSUME IInv, NEW t \in Threads, Select(t)
    PROVE  IInv'
<1> DEFINE i == SelectReplica(tried[t])
<1> USE DEF IInv
<1>1. /\ tried[t] \in SUBSET Replicas /\ round[t] \in 0 .. N
      /\ Cardinality(tried[t]) = round[t] /\ round[t] < N
  BY DEF Select, Goto, FailoverTypeOK, Counted
<1>2. tried[t] # Replicas /\ IsFiniteSet(tried[t])
  BY <1>1, ReplicaAssumption, AllReplicas
<1>3. i \in Replicas /\ i \notin tried[t]
  BY <1>1, <1>2, SelectsUntried
<1>4. Cardinality(tried[t] \union {i}) = round[t] + 1
  BY <1>1, <1>2, <1>3, FS_AddElement
<1>5. /\ idx' = [idx EXCEPT ![t] = i]
      /\ tried' = [tried EXCEPT ![t] = tried[t] \union {i}]
      /\ round' = [round EXCEPT ![t] = round[t] + 1]
      /\ pc' = [pc EXCEPT ![t] = "checkClient"]
  BY DEF Select, Goto, FailoverTypeOK
<1>6. UNCHANGED <<client, clientHost, activeIdx, cooling, up, got, out, alwaysUp>>
  BY DEF Select, shared
<1>7. round[t] + 1 \in 0 .. N
  BY <1>1, ReplicaAssumption
<1>8. FailoverTypeOK'
  <2> HIDE DEF i
  <2>1. QED
    BY <1>1, <1>3, <1>5, <1>6, <1>7 DEF FailoverTypeOK, Steps
<1>9. Counted'
  <2> HIDE DEF i
  <2>1. QED
    BY <1>1, <1>4, <1>5 DEF FailoverTypeOK, Counted
<1>10. out[t] # "failure"
  BY <1>2 DEF FailureTriedAll
<1>11. FailureTriedAll'
  <2> HIDE DEF i
  <2>1. QED
    BY <1>5, <1>6, <1>10 DEF FailoverTypeOK, FailureTriedAll
<1>12. QED
  BY <1>8, <1>9, <1>11

\* The loop ends in a failure only when it has been through all replicas.
LEMMA DiscardStep ==
    ASSUME IInv, NEW t \in Threads, Discard(t)
    PROVE  IInv'
<1> USE DEF IInv
<1>1. /\ tried[t] \in SUBSET Replicas /\ round[t] \in 0 .. N
      /\ Cardinality(tried[t]) = round[t]
  BY DEF FailoverTypeOK, Counted
<1>2. /\ client' = NoClient
      /\ UNCHANGED <<clientHost, activeIdx, cooling, up, idx, tried, round, got, alwaysUp>>
  BY DEF Discard
<1>3. CASE round[t] < N
  <2>1. pc' = [pc EXCEPT ![t] = "select"] /\ out' = out
    BY <1>3 DEF Discard, Goto
  <2>2. FailoverTypeOK'
    BY <1>2, <2>1 DEF FailoverTypeOK, Steps
  <2>3. Counted'
    BY <1>2, <1>3, <2>1 DEF FailoverTypeOK, Counted
  <2>4. FailureTriedAll'
    BY <1>2, <2>1 DEF FailureTriedAll
  <2>5. QED
    BY <2>2, <2>3, <2>4
<1>4. CASE ~(round[t] < N)
  <2>1. pc' = [pc EXCEPT ![t] = "idle"] /\ out' = [out EXCEPT ![t] = "failure"]
    BY <1>4 DEF Discard, Goto
  <2>2. round[t] = N
    BY <1>1, <1>4, ReplicaAssumption
  <2>3. tried[t] = Replicas
    BY <1>1, <2>2, AllReplicas
  <2>4. FailoverTypeOK'
    BY <1>2, <2>1 DEF FailoverTypeOK, Steps, CallOutcomes
  <2>5. Counted'
    BY <1>2, <2>1 DEF FailoverTypeOK, Counted
  <2>6. FailureTriedAll'
    BY <1>2, <2>1, <2>3 DEF FailoverTypeOK, FailureTriedAll
  <2>7. QED
    BY <2>4, <2>5, <2>6
<1>5. QED
  BY <1>3, <1>4

\* Steps of a call, of close() and of the environment that leave the loop's
\* bookkeeping alone.
LEMMA OtherStep ==
    ASSUME IInv, [FailoverNext]_failoverVars,
           \A t \in Threads : ~Select(t) /\ ~Discard(t)
    PROVE  IInv'
<1> USE DEF IInv
<1>1. CASE UNCHANGED failoverVars
  BY <1>1 DEF failoverVars, shared, FailoverTypeOK, Counted, FailureTriedAll
<1>2. ASSUME NEW t \in Threads, Begin(t) PROVE IInv'
  <2>1. FailoverTypeOK'
    BY <1>2, ReplicaAssumption DEF Begin, Goto, shared, FailoverTypeOK, Steps, CallOutcomes
  <2>2. Counted'
    BY <1>2, FS_EmptySet, ReplicaAssumption DEF Begin, Goto, FailoverTypeOK, Counted
  <2>3. FailureTriedAll'
    BY <1>2 DEF Begin, FailoverTypeOK, FailureTriedAll
  <2>4. QED
    BY <2>1, <2>2, <2>3
<1>3. ASSUME NEW t \in Threads, Reject(t) \/ Close(t) \/ Reset(t) PROVE IInv'
  <2>0. 0 \in Replicas
    BY ReplicaAssumption DEF Replicas
  <2>1. FailoverTypeOK'
    BY <1>3, <2>0 DEF Reject, Close, Reset, Goto, shared, FailoverTypeOK, Steps, CallOutcomes
  <2>2. Counted'
    BY <1>3 DEF Reject, Close, Reset, Goto, FailoverTypeOK, Counted
  <2>3. FailureTriedAll'
    BY <1>3 DEF Reject, Close, Reset, FailoverTypeOK, FailureTriedAll
  <2>4. QED
    BY <2>1, <2>2, <2>3
<1>4. ASSUME NEW t \in Threads, ClientFor(t) PROVE IInv'
  <2>1. FailoverTypeOK'
    BY <1>4 DEF ClientFor, CheckClient, CheckHost, Drop, Connect, Label, Activate,
                Return, Goto, shared, FailoverTypeOK, Steps
  <2>2. Counted'
    BY <1>4 DEF ClientFor, CheckClient, CheckHost, Drop, Connect, Label, Activate,
                Return, Goto, FailoverTypeOK, Counted
  <2>3. FailureTriedAll'
    BY <1>4 DEF ClientFor, CheckClient, CheckHost, Drop, Connect, Label, Activate,
                Return, FailureTriedAll
  <2>4. QED
    BY <2>1, <2>2, <2>3
<1>5. ASSUME NEW t \in Threads, RunAnswered(t) \/ RunNoClient(t) \/ RunFails(t) PROVE IInv'
  <2>1. FailoverTypeOK'
    BY <1>5 DEF RunAnswered, RunNoClient, RunFails, Goto, shared, FailoverTypeOK, Steps, CallOutcomes
  <2>2. Counted'
    BY <1>5 DEF RunAnswered, RunNoClient, RunFails, Goto, FailoverTypeOK, Counted
  <2>3. FailureTriedAll'
    BY <1>5 DEF RunAnswered, RunNoClient, RunFails, FailoverTypeOK, FailureTriedAll
  <2>4. QED
    BY <2>1, <2>2, <2>3
<1>6. ASSUME NEW r \in Replicas, GoDown(r) \/ ComeUp(r) \/ CooldownEnds(r) PROVE IInv'
  <2>1. FailoverTypeOK'
    BY <1>6 DEF GoDown, ComeUp, CooldownEnds, shared, FailoverTypeOK
  <2>2. Counted' /\ FailureTriedAll'
    BY <1>6 DEF GoDown, ComeUp, CooldownEnds, Counted, FailureTriedAll
  <2>3. QED
    BY <2>1, <2>2
<1>7. QED
  BY <1>1, <1>2, <1>3, <1>4, <1>5, <1>6 DEF FailoverNext, CallStep

\* IInv is inductive.
LEMMA StepIInv == ASSUME IInv, [FailoverNext]_failoverVars PROVE IInv'
  BY SelectStep, DiscardStep, OtherStep

\* The store's attributes and every call's locals keep their types.
THEOREM FailoverTyping == FailoverSpec => []FailoverTypeOK
<1>1. IInv => FailoverTypeOK
  BY DEF IInv
<1>2. QED
  BY InitIInv, StepIInv, <1>1, PTL DEF FailoverSpec

\* _with_failover: record_failure() is reached only after every replica was
\* selected, however the threads that share the store interleave.
THEOREM FailureMeansAllTried == FailoverSpec => []FailureTriedAll
<1>1. IInv => FailureTriedAll
  BY DEF IInv
<1>2. QED
  BY InitIInv, StepIInv, <1>1, PTL DEF FailoverSpec

\* The two together: what the run checks of every interleaving of the calls.
THEOREM FailoverSafety == FailoverSpec => []FailoverSafe
  BY FailoverTyping, FailureMeansAllTried, PTL DEF FailoverSafe
-----------------------------------------------------------------------------
(* With one thread the store also serves from a healthy replica.  That the   *)
(* query runs on the selected replica needs that a client carries its own    *)
(* host's label wherever the label is compared; that a call does not fail    *)
(* beside a healthy replica needs that what was tried and given up is not    *)
(* among those that answered all along.                                      *)

Calling == {"checkClient", "checkHost", "drop", "connect", "label", "activate", "return", "run"}

Alone ==
    /\ \A u \in Threads \ {t1} : pc[u] = "idle" /\ out[u] = "none"
    /\ pc[t1] # "label" /\ client # NoClient => client = clientHost
    /\ pc[t1] \in {"label", "activate", "return"} => client = idx[t1]
    /\ pc[t1] = "run" => got[t1] = idx[t1]
    /\ pc[t1] = "reset" => client = NoClient
    /\ pc[t1] = "checkHost" => client # NoClient
    /\ alwaysUp[t1] \subseteq up
    /\ pc[t1] \in {"select", "discard"} => tried[t1] \intersect alwaysUp[t1] = {}
    /\ pc[t1] \in Calling => (tried[t1] \ {idx[t1]}) \intersect alwaysUp[t1] = {}
    /\ out[t1] = "failure" => alwaysUp[t1] = {}

\* The invariant of a process with one thread.
LoneInv == IInv /\ Alone

LEMMA LoneStep ==
    ASSUME t1 \in Threads, LoneInv,
           Move \/ CallStep(t1) \/ Reset(t1), active = {t1}
    PROVE  LoneInv'
<1> USE DEF LoneInv
<1>t. FailoverTypeOK
  BY DEF IInv
<1>i. IInv'
  <2>1. FailoverNext
    BY DEF Move, FailoverNext
  <2>2. QED
    BY <2>1, StepIInv
<1>a. /\ \A u \in Threads \ {t1} : pc[u] = "idle" /\ out[u] = "none"
      /\ pc[t1] # "label" /\ client # NoClient => client = clientHost
      /\ pc[t1] \in {"label", "activate", "return"} => client = idx[t1]
      /\ pc[t1] = "run" => got[t1] = idx[t1]
      /\ pc[t1] = "reset" => client = NoClient
      /\ pc[t1] = "checkHost" => client # NoClient
  BY DEF Alone
<1>u. /\ alwaysUp[t1] \subseteq up
      /\ pc[t1] \in {"select", "discard"} => tried[t1] \intersect alwaysUp[t1] = {}
      /\ pc[t1] \in Calling => (tried[t1] \ {idx[t1]}) \intersect alwaysUp[t1] = {}
      /\ out[t1] = "failure" => alwaysUp[t1] = {}
  BY DEF Alone
<1>1. CASE Begin(t1)
  BY <1>1, <1>a, <1>i, <1>t DEF Alone, Begin, Goto, shared, FailoverTypeOK, Calling
<1>2. CASE Reject(t1) \/ Close(t1) \/ Reset(t1)
  BY <1>2, <1>a, <1>u, <1>i, <1>t DEF Alone, Reject, Close, Reset, Goto, shared, FailoverTypeOK, Calling
<1>3. CASE Select(t1)
  <2>1. /\ pc' = [pc EXCEPT ![t1] = "checkClient"] /\ pc[t1] = "select"
        /\ idx'[t1] \in Replicas /\ tried'[t1] = tried[t1] \union {idx'[t1]}
        /\ UNCHANGED <<client, clientHost, up, out, alwaysUp>>
    BY <1>3, <1>i, <1>t DEF Select, Goto, shared, FailoverTypeOK, IInv
  <2>2. QED
    BY <2>1, <1>a, <1>u, <1>i, <1>t DEF Alone, FailoverTypeOK, Calling
<1>4. CASE CheckClient(t1) \/ CheckHost(t1)
  BY <1>4, <1>a, <1>u, <1>i, <1>t DEF Alone, CheckClient, CheckHost, Goto, shared, FailoverTypeOK, Calling
<1>5. CASE Drop(t1) \/ Connect(t1) \/ Label(t1)
  BY <1>5, <1>a, <1>u, <1>i, <1>t DEF Alone, Drop, Connect, Label, Goto, FailoverTypeOK, Calling
<1>6. CASE Activate(t1) \/ Return(t1)
  BY <1>6, <1>a, <1>u, <1>i, <1>t DEF Alone, Activate, Return, Goto, shared, FailoverTypeOK, Calling
<1>7. CASE RunAnswered(t1) \/ RunNoClient(t1)
  BY <1>7, <1>a, <1>u, <1>i, <1>t DEF Alone, RunAnswered, RunNoClient, Goto, shared, FailoverTypeOK, Calling
<1>8. CASE RunFails(t1)
  <2>1. idx[t1] \notin alwaysUp[t1]
    BY <1>8, <1>a, <1>u DEF RunFails, Goto
  <2>2. tried[t1] \intersect alwaysUp[t1] = {}
    BY <1>8, <1>u, <2>1 DEF RunFails, Goto, Calling
  <2>3. QED
    BY <1>8, <1>a, <1>u, <1>i, <1>t, <2>2 DEF Alone, RunFails, Goto, FailoverTypeOK, Calling
<1>9. CASE Discard(t1)
  <2>1. /\ pc[t1] = "discard" /\ client' = NoClient /\ UNCHANGED <<up, idx, tried, got, alwaysUp, clientHost>>
        /\ \/ pc' = [pc EXCEPT ![t1] = "select"] /\ out' = out
           \/ pc' = [pc EXCEPT ![t1] = "idle"] /\ out' = [out EXCEPT ![t1] = "failure"]
    BY <1>9 DEF Discard, Goto
  <2>2. out'[t1] = "failure" => tried[t1] = Replicas
    BY <1>i, <2>1 DEF IInv, FailureTriedAll
  <2>3. out'[t1] = "failure" => alwaysUp[t1] = {}
    BY <1>t, <1>u, <2>1, <2>2 DEF FailoverTypeOK
  <2>4. QED
    BY <1>a, <1>u, <1>i, <1>t, <2>1, <2>3 DEF Alone, FailoverTypeOK, Calling
<1>10. ASSUME NEW r \in Replicas, GoDown(r) \/ ComeUp(r) \/ CooldownEnds(r)
       PROVE  LoneInv'
  BY <1>10, <1>a, <1>u, <1>i, <1>t DEF Alone, GoDown, ComeUp, CooldownEnds, shared, FailoverTypeOK, Calling
<1>11. QED
  BY <1>1, <1>2, <1>3, <1>4, <1>5, <1>6, <1>7, <1>8, <1>9, <1>10 DEF Move, CallStep, ClientFor

\* storage/hot.py, _with_failover and _client_for: for any number of replicas
\* that come and go, a process with one thread runs its query on the replica it
\* selected, marks dead the one that failed, and does not fail while a replica
\* has been answering since the call began.
THEOREM HealthyReplicasServe ==
    ASSUME t1 \in Threads
    PROVE  MCSpec => []ServesFromHealthy
<1> DEFINE PartInv == active = {t1} => LoneInv
<1>1. MCInit => PartInv
  <2>1. ASSUME FailoverInit PROVE Alone
    BY <2>1 DEF FailoverInit, Alone, Calling, NoClient
  <2>2. QED
    BY <2>1, InitIInv DEF MCInit, LoneInv
<1>2. PartInv /\ [MCNext]_<<failoverVars, active, moves>> => PartInv'
  <2>1. ASSUME PartInv, [MCNext]_<<failoverVars, active, moves>>, active' = {t1}
        PROVE  LoneInv'
    <3>1. active = {t1} /\ LoneInv
      BY <2>1 DEF MCNext
    <3>2. CASE UNCHANGED failoverVars
      <4>1. IInv'
        BY <3>1, <3>2, StepIInv DEF LoneInv
      <4>2. QED
        BY <3>1, <3>2, <4>1 DEF LoneInv, Alone, failoverVars, shared
    <3>3. CASE Move \/ CallStep(t1) \/ Reset(t1)
      BY <3>1, <3>3, LoneStep
    <3>4. QED
      BY <2>1, <3>1, <3>2, <3>3 DEF MCNext
  <2>2. QED
    BY <2>1
<1>3. PartInv => ServesFromHealthy
  BY DEF LoneInv, Alone, ServesFromHealthy, RunsOnSelected, HealthyReplicaServes
<1>4. QED
  BY <1>1, <1>2, <1>3, PTL DEF MCSpec
=============================================================================
