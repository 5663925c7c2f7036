--------------------------- MODULE CircuitBreaker ---------------------------
(***************************************************************************)
(* The per-dependency circuit breaker of agent_obs/ha/health_checks.py and *)
(* the clients that go through it: HotStore, VaultClient, LangfuseExporter *)
(* the compliance catalog, the Redis fallback and SecurityClient all call  *)
(* allow_request(), run an operation, and report record_success() or       *)
(* record_failure().  Each of the three methods runs under one             *)
(* threading.Lock, so each is one atomic step; the operation in between is *)
(* not, so any number of callers may be between admission and report.      *)
(***************************************************************************)
EXTENDS Integers, FiniteSets

CONSTANTS
    Callers,           \* threads and tasks that use the breaker
    FailureThreshold,  \* failure_threshold, at least 1 (the constructor's max)
    RecoveryTime,      \* recovery_time, in ticks
    Outcomes,          \* how an admitted operation of this client may end
    MaxFailures        \* bound: the failure counter saturates here

ASSUME BreakerAssumption ==
    /\ FailureThreshold \in Nat \ {0}
    /\ RecoveryTime \in Nat
    /\ Outcomes \subseteq {"success", "failure", "unrecorded"}
    /\ MaxFailures \in Nat
    /\ MaxFailures >= FailureThreshold

VARIABLES
    state,          \* _state
    failures,       \* _failures, consecutive failures
    openFor,        \* clock() - _opened_at, saturating at RecoveryTime
    probeInFlight,  \* _probe_in_flight: "no" or "yes"
    call            \* per caller: not in a call, or how it was admitted

vars == <<state, failures, openFor, probeInFlight, call>>

CircuitState == {"closed", "half-open", "open"}

TypeOK ==
    /\ state \in CircuitState
    /\ failures \in 0..MaxFailures
    /\ openFor \in 0..RecoveryTime
    /\ probeInFlight \in {"no", "yes"}
    /\ call \in [Callers -> {"idle", "normal", "probe"}]

Init ==
    /\ state = "closed"
    /\ failures = 0
    /\ openFor = 0
    /\ probeInFlight = "no"
    /\ call = [c \in Callers |-> "idle"]
-----------------------------------------------------------------------------
\* allow_request() returns True in exactly these states.
Admits ==
    \/ state = "closed"
    \/ state = "open" /\ openFor >= RecoveryTime
    \/ state = "half-open" /\ probeInFlight = "no"

\* An admitted call: while closed it is an ordinary call, otherwise the
\* caller becomes the half-open probe.  A rejected call changes nothing.
Admitted ==
    /\ Admits
    /\ IF state = "closed"
       THEN UNCHANGED <<state, probeInFlight>>
       ELSE state' = "half-open" /\ probeInFlight' = "yes"
    /\ UNCHANGED <<failures, openFor>>

\* Mutant of AllowRequest: a refused request restarts the recovery window.
AllowRequestRestarts(c) ==
    /\ call[c] = "idle"
    /\ IF Admits
       THEN /\ Admitted
            /\ call' = [call EXCEPT ![c] = IF state = "closed" THEN "normal" ELSE "probe"]
       ELSE openFor' = 0 /\ UNCHANGED <<state, failures, probeInFlight, call>>

AllowRequest(c) ==
    /\ call[c] = "idle"
    /\ Admitted
    /\ call' = [call EXCEPT ![c] = IF state = "closed" THEN "normal" ELSE "probe"]

\* record_success() does not ask who reports: a call admitted long ago closes
\* the breaker as well as the probe does.
SuccessRecorded ==
    /\ failures' = 0
    /\ probeInFlight' = "no"
    /\ state' = "closed"
    /\ UNCHANGED openFor

RecordSuccess(c) ==
    /\ call[c] # "idle"
    /\ "success" \in Outcomes
    /\ call' = [call EXCEPT ![c] = "idle"]
    /\ SuccessRecorded

Bump(n) == IF n < MaxFailures THEN n + 1 ELSE n

\* Mutant of Opens: one failure too many is tolerated.
OpensLate ==
    \/ state = "half-open"
    \/ state = "closed" /\ Bump(failures) > FailureThreshold

\* Whether this failure makes record_failure() call _open_locked().
Opens ==
    \/ state = "half-open"
    \/ state = "closed" /\ Bump(failures) >= FailureThreshold

\* record_failure() counts in every state and (re)opens from two of them.
FailureRecorded ==
    /\ failures' = Bump(failures)
    /\ IF Opens
       THEN /\ state' = "open"
            /\ openFor' = 0
            /\ probeInFlight' = "no"
       ELSE UNCHANGED <<state, openFor, probeInFlight>>

RecordFailure(c) ==
    /\ call[c] # "idle"
    /\ "failure" \in Outcomes
    /\ call' = [call EXCEPT ![c] = "idle"]
    /\ FailureRecorded

\* The operation ends without a report: HotStore._with_failover and
\* VaultClient._with_failover let an error that is not a connection error
\* through, and a cancelled task runs neither branch of any client.
Unrecorded(c) ==
    /\ call[c] # "idle"
    /\ "unrecorded" \in Outcomes
    /\ call' = [call EXCEPT ![c] = "idle"]
    /\ UNCHANGED <<state, failures, openFor, probeInFlight>>

\* Mutant of Tick: the timer itself closes the breaker.
TickCloses ==
    /\ state = "open"
    /\ openFor < RecoveryTime
    /\ openFor' = openFor + 1
    /\ state' = IF openFor' = RecoveryTime THEN "closed" ELSE state
    /\ UNCHANGED <<failures, probeInFlight, call>>

\* The monotonic clock.  Only openFor >= RecoveryTime is ever tested, so the
\* age of the opening stops there.
Tick ==
    /\ state = "open"
    /\ openFor < RecoveryTime
    /\ openFor' = openFor + 1
    /\ UNCHANGED <<state, failures, probeInFlight, call>>

Report(c) == RecordSuccess(c) \/ RecordFailure(c) \/ Unrecorded(c)

Next ==
    \/ \E c \in Callers : AllowRequest(c) \/ Report(c)
    \/ Tick

\* Time passes, every admitted operation ends (the clients set connect and
\* receive timeouts), and some client keeps asking.
Fairness ==
    /\ WF_vars(Tick)
    /\ \A c \in Callers : WF_vars(Report(c))
    /\ WF_vars(\E c \in Callers : AllowRequest(c))

Spec == Init /\ [][Next]_vars
FairSpec == Spec /\ Fairness
-----------------------------------------------------------------------------
\* The breaker lets traffic through exactly while fewer than
\* failure_threshold consecutive failures are on record, however late
\* successes and failures of earlier calls interleave with the probe.
ClosedIffBelowThreshold == (state = "closed") <=> (failures < FailureThreshold)

\* The probe slot is taken exactly in half-open: _open_locked and
\* record_success always release it, so the last branch of allow_request
\* (half-open with a free slot) is never taken.
ProbeSlotIffHalfOpen == (state = "half-open") <=> (probeInFlight = "yes")

\* For clients that report every outcome: while the slot is taken some caller
\* is still out there whose report will release it.
ProbeSlotHasOwner == probeInFlight = "yes" => \E c \in Callers : call[c] = "probe"

\* The slot is orphaned only by a probe that ends without a report: no mixture
\* of late successes and failures of earlier calls takes it from its probe and
\* leaves it taken.
OrphanedByUnreported ==
    [][(ProbeSlotHasOwner /\ ~ProbeSlotHasOwner')
          => /\ \E c \in Callers : call[c] = "probe" /\ call'[c] = "idle"
             /\ UNCHANGED <<state, failures, openFor, probeInFlight>>]_vars

\* The breaker lets a request through again and again, whatever fails, unless
\* its slot is orphaned for good: that is the only way it can wedge.
AdmitsUnlessOrphaned == []<>Admits \/ <>[](~ProbeSlotHasOwner)

\* hot.py: "the first request after the recovery window is admitted as a
\* half-open probe": the breaker never stops admitting for good.
AdmitsAgain == []<>Admits

\* Leaving "open" or "half-open" for "closed" takes the report of a success:
\* no timer and no failure ever closes the breaker.
ClosesOnSuccessOnly ==
    [][(state # "closed" /\ state' = "closed")
          => (failures' = 0 /\ \E c \in Callers : call[c] # "idle" /\ call'[c] = "idle")]_vars

\* The state of the breaker agrees with itself after every mixture of reports:
\* its fields have their types, it is closed exactly below the threshold, and
\* its probe slot is taken exactly while it is half-open.
BreakerSafe == TypeOK /\ ClosedIffBelowThreshold /\ ProbeSlotIffHalfOpen

\* What no step of the breaker does: orphan the probe slot other than by an
\* unreported ending, or close on anything but a success.
BreakerSteps == OrphanedByUnreported /\ ClosesOnSuccessOnly

\* health_checks.py: "admits a single probe request (single-flight: concurrent
\* callers are still rejected)".
SingleFlight == Cardinality({c \in Callers : call[c] = "probe"}) <= 1
=============================================================================
