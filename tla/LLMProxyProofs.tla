--------------------------- MODULE LLMProxyProofs ---------------------------
(***************************************************************************)
(* Proofs about LLMProxy, for every number of tasks, every budget and      *)
(* every price of an answer: each answered request has left one span, and  *)
(* the spend overshoots the gate by at most one answer per task.           *)
(*                                                                         *)
(* Neither is inductive.  The spans need to know that a task that is being *)
(* served has neither answered nor left a span; the spend needs to know    *)
(* how many answers are still on their way, because each of them was let   *)
(* through when the spend was below the mark and may cost MaxCost.         *)
(***************************************************************************)
EXTENDS LLMProxy, FiniteSetTheorems, TLAPS

\* The tasks past the gate whose answer is not priced yet.
OnTheWay == {r \in Requests : pc[r] \in {"upstream", "streaming"}}

\* The bound on the spend once every answer on its way has been priced at
\* MaxCost: what SpendBounded holds of what was spent, this holds of what may
\* still be.
SpendCovered ==
    10 * spend + 10 * (MaxCost * Cardinality(OnTheWay))
        < 8 * Budget + 10 * (MaxCost * Cardinality(Requests))

\* A task that serves a request has not answered it and has left no span.
UnansweredUntilIdle ==
    \A r \in Requests : pc[r] # "idle" => resp[r] = "none" /\ spans[r] = 0

ProxyInv == TypeOK /\ OneSpanPerRequest /\ UnansweredUntilIdle /\ SpendCovered
-----------------------------------------------------------------------------
\* One more answer costs MaxCost more.
LEMMA TimesStep == \A n \in Nat : MaxCost * (n + 1) = MaxCost * n + MaxCost
  BY ProxyAssumption

\* More answers cost no less.
LEMMA TimesMonotone ==
  ASSUME NEW m \in Nat, NEW n \in Nat, m <= n
  PROVE  MaxCost * m <= MaxCost * n /\ MaxCost * m \in Nat /\ MaxCost * n \in Nat
  BY ProxyAssumption

\* The tasks on their way are a finite part of all tasks.
LEMMA OnTheWayCount ==
  /\ IsFiniteSet(OnTheWay)
  /\ Cardinality(OnTheWay) \in Nat
  /\ Cardinality(Requests) \in Nat
  /\ Cardinality(OnTheWay) <= Cardinality(Requests)
  BY ProxyAssumption, FS_Subset, FS_CardinalityType DEF OnTheWay
-----------------------------------------------------------------------------
\* Whatever the proxy does to its breaker, the breaker keeps its types: the
\* proxy tells it of a failure without having been admitted (CircuitOpen) and
\* never of a success.
LEMMA BreakerStep ==
  ASSUME TypeOK,
         \/ \E r \in Requests : \/ Breaker!AllowRequest(r)
                                \/ Breaker!Unrecorded(r)
                                \/ Breaker!RecordFailure(r)
         \/ Breaker!FailureRecorded /\ UNCHANGED call
         \/ Breaker!Tick
         \/ UNCHANGED <<breakerVars, call>>
  PROVE  Breaker!TypeOK'
<1>. USE ProxyAssumption DEF TypeOK, Breaker!TypeOK, Breaker!CircuitState
<1>1. ASSUME NEW r \in Requests, Breaker!AllowRequest(r)
      PROVE  Breaker!TypeOK'
  BY <1>1 DEF Breaker!AllowRequest, Breaker!Admitted
<1>2. ASSUME NEW r \in Requests, Breaker!Unrecorded(r)
      PROVE  Breaker!TypeOK'
  BY <1>2 DEF Breaker!Unrecorded
<1>3. ASSUME NEW r \in Requests, Breaker!RecordFailure(r)
      PROVE  Breaker!TypeOK'
  BY <1>3 DEF Breaker!RecordFailure, Breaker!FailureRecorded, Breaker!Bump
<1>4. CASE Breaker!FailureRecorded /\ UNCHANGED call
  BY <1>4 DEF Breaker!FailureRecorded, Breaker!Bump
<1>5. CASE Breaker!Tick
  BY <1>5 DEF Breaker!Tick
<1>6. CASE UNCHANGED <<breakerVars, call>>
  BY <1>6 DEF breakerVars
<1>. QED  BY <1>1, <1>2, <1>3, <1>4, <1>5, <1>6

\* A task that answers had not answered before, and leaves its one span with
\* the answer; a client that left before its stream began leaves none.
LEMMA AnswerStep ==
  ASSUME TypeOK, OneSpanPerRequest, UnansweredUntilIdle, [Next]_vars
  PROVE  (TypeOK /\ OneSpanPerRequest /\ UnansweredUntilIdle)'
<1>. USE ProxyAssumption DEF OneSpanPerRequest, UnansweredUntilIdle
<1>. DEFINE Rest == /\ cache \in SUBSET Bodies
                    /\ spend \in Nat
                    /\ pc \in [Requests -> {"idle", "received", "upstream", "streaming", "fallback"}]
                    /\ body \in [Requests -> Bodies]
                    /\ stream \in [Requests -> {"no", "yes"}]
                    /\ resp \in [Requests -> Answers]
                    /\ spans \in [Requests -> 0 .. 1]
            Served == Rest /\ OneSpanPerRequest /\ UnansweredUntilIdle
<1>0. Served  BY DEF TypeOK
<1>1. ASSUME NEW r \in Requests, Arrive(r)
      PROVE  Served' /\ UNCHANGED <<breakerVars, call>>
  BY <1>0, <1>1 DEF Arrive, Goto, Answers
<1>2. ASSUME NEW r \in Requests, CacheHit(r)
      PROVE  Served' /\ UNCHANGED <<breakerVars, call>>
  BY <1>0, <1>2 DEF CacheHit, Goto, Finish, Answers
<1>3. ASSUME NEW r \in Requests, RejectOverBudget(r)
      PROVE  Served' /\ UNCHANGED <<breakerVars, call>>
  BY <1>0, <1>3 DEF RejectOverBudget, Goto, Finish, Answers
<1>4. ASSUME NEW r \in Requests, CircuitOpen(r)
      PROVE  Served' /\ Breaker!FailureRecorded /\ UNCHANGED call
  BY <1>0, <1>4 DEF CircuitOpen, Goto
<1>5. ASSUME NEW r \in Requests, Forward(r)
      PROVE  Served' /\ Breaker!AllowRequest(r)
  BY <1>0, <1>5 DEF Forward, Goto
<1>6. ASSUME NEW r \in Requests, Answered(r)
      PROVE  Served' /\ Breaker!Unrecorded(r)
  <2>1. CASE \E cost \in 0 .. MaxCost : Finish(r, "ok") /\ Enrich(cost)
    BY <1>0, <1>6, <2>1 DEF Answered, Goto, Finish, Enrich, Answers
  <2>2. CASE Finish(r, "error") /\ UNCHANGED spend
    BY <1>0, <1>6, <2>2 DEF Answered, Goto, Finish, Answers
  <2>. QED  BY <1>6, <2>1, <2>2 DEF Answered
<1>7. ASSUME NEW r \in Requests, HeadersArrive(r)
      PROVE  Served' /\ Breaker!Unrecorded(r)
  BY <1>0, <1>7 DEF HeadersArrive, Goto
<1>8. ASSUME NEW r \in Requests, StreamEnds(r)
      PROVE  Served' /\ UNCHANGED <<breakerVars, call>>
  BY <1>0, <1>8 DEF StreamEnds, Goto, Finish, Enrich, Answers
<1>9. ASSUME NEW r \in Requests, StreamAbandoned(r)
      PROVE  Served' /\ UNCHANGED <<breakerVars, call>>
  BY <1>0, <1>9 DEF StreamAbandoned, Goto, Answers
<1>10. ASSUME NEW r \in Requests, UpstreamFails(r)
       PROVE  Served' /\ Breaker!RecordFailure(r)
  BY <1>0, <1>10 DEF UpstreamFails, Goto
<1>11. ASSUME NEW r \in Requests, InternalError(r)
       PROVE  Served' /\ Breaker!Unrecorded(r)
  BY <1>0, <1>11 DEF InternalError, Goto, Finish, Answers
<1>12. ASSUME NEW r \in Requests, Fallback(r)
       PROVE  Served' /\ UNCHANGED <<breakerVars, call>>
  BY <1>0, <1>12 DEF Fallback, Goto, Finish, Answers
<1>13. ASSUME NEW b \in Bodies, CacheExpires(b)
       PROVE  Served' /\ UNCHANGED <<breakerVars, call>>
  BY <1>0, <1>13 DEF CacheExpires
<1>14. CASE NewDay
  <2>. Served' /\ UNCHANGED <<breakerVars, call>>
    BY <1>0, <1>14 DEF NewDay
  <2>. QED  BY BreakerStep DEF TypeOK
<1>15. CASE Tick
  <2>. Served' /\ Breaker!Tick
    BY <1>0, <1>15 DEF Tick
  <2>. QED  BY BreakerStep DEF TypeOK
<1>16. CASE UNCHANGED vars
  <2>. Served' /\ UNCHANGED <<breakerVars, call>>
    BY <1>0, <1>16 DEF vars
  <2>. QED  BY BreakerStep DEF TypeOK
<1>17. ASSUME NEW r \in Requests, Serve(r)
       PROVE  Served' /\ Breaker!TypeOK'
  BY <1>2, <1>3, <1>4, <1>5, <1>6, <1>7, <1>8, <1>9, <1>10, <1>11, <1>12, <1>17,
     BreakerStep DEF Serve
<1>18. CASE \E r \in Requests : Arrive(r) \/ Serve(r)
  BY <1>1, <1>17, <1>18, BreakerStep DEF TypeOK
<1>19. CASE \E b \in Bodies : CacheExpires(b)
  BY <1>13, <1>19, BreakerStep DEF TypeOK
<1>. QED  BY <1>14, <1>15, <1>16, <1>18, <1>19 DEF Next
-----------------------------------------------------------------------------
\* The bound is untouched while the spend and the answers on their way are.
LEMMA CoveredUnchanged ==
  ASSUME SpendCovered, spend' = spend, OnTheWay' = OnTheWay
  PROVE  SpendCovered'
BY DEF SpendCovered

\* An answer arrives: at most MaxCost is spent and one answer less is on its
\* way.
LEMMA CoveredByAnswer ==
  ASSUME SpendCovered, spend \in Nat, NEW r \in Requests, r \in OnTheWay,
         OnTheWay' = OnTheWay \ {r},
         NEW cost \in 0 .. MaxCost, spend' = spend + cost
  PROVE  SpendCovered'
<1>1. Cardinality(OnTheWay') = Cardinality(OnTheWay) - 1
  BY OnTheWayCount, FS_RemoveElement
<1>2. PICK n \in Nat : Cardinality(OnTheWay') = n /\ Cardinality(OnTheWay) = n + 1
  BY <1>1, OnTheWayCount, FS_CardinalityType, FS_RemoveElement
<1>3. MaxCost * (n + 1) = MaxCost * n + MaxCost
  BY TimesStep
<1>4. MaxCost * n \in Nat /\ MaxCost * Cardinality(Requests) \in Nat
  BY TimesMonotone, OnTheWayCount
<1>. HIDE DEF OnTheWay
<1>. QED  BY <1>2, <1>3, <1>4, ProxyAssumption DEF SpendCovered

\* A request passes the gate: the spend is below the mark, and the answers on
\* their way, this one among them, are no more than there are tasks.
LEMMA CoveredAtGate ==
  ASSUME TypeOK, ~OverBudget, spend' = spend,
         IsFiniteSet(OnTheWay'), OnTheWay' \in SUBSET Requests
  PROVE  SpendCovered'
<1>1. /\ Cardinality(OnTheWay') \in Nat
      /\ Cardinality(OnTheWay') <= Cardinality(Requests)
  BY ProxyAssumption, FS_Subset, FS_CardinalityType
<1>2. MaxCost * Cardinality(OnTheWay') <= MaxCost * Cardinality(Requests)
  BY <1>1, OnTheWayCount, TimesMonotone
<1>3. MaxCost * Cardinality(OnTheWay') \in Nat /\ MaxCost * Cardinality(Requests) \in Nat
  BY <1>1, OnTheWayCount, TimesMonotone
<1>. HIDE DEF OnTheWay
<1>. QED  BY <1>2, <1>3, ProxyAssumption DEF SpendCovered, OverBudget, TypeOK

\* Every step keeps the spend covered: a request is let through below the mark
\* only, and what one answer costs was set aside for it at the gate.
LEMMA SpendStep ==
  ASSUME ProxyInv, [Next]_vars
  PROVE  SpendCovered'
<1>. USE DEF ProxyInv
<1>t. /\ pc \in [Requests -> {"idle", "received", "upstream", "streaming", "fallback"}]
      /\ spend \in Nat
  BY DEF TypeOK
<1>1. ASSUME NEW r \in Requests, Arrive(r) \/ CacheHit(r) \/ RejectOverBudget(r)
                                 \/ CircuitOpen(r) \/ HeadersArrive(r) \/ Fallback(r)
      PROVE  SpendCovered'
  <2>1. OnTheWay' = OnTheWay
    BY <1>1, <1>t DEF OnTheWay, Goto, Arrive, CacheHit, RejectOverBudget, CircuitOpen,
                      HeadersArrive, Fallback
  <2>2. spend' = spend
    BY <1>1 DEF Arrive, CacheHit, RejectOverBudget, CircuitOpen, HeadersArrive, Fallback
  <2>. QED  BY <2>1, <2>2, CoveredUnchanged
<1>2. ASSUME NEW r \in Requests, Forward(r)
      PROVE  SpendCovered'
  <2>1. OnTheWay' = OnTheWay \cup {r}
    BY <1>2, <1>t DEF OnTheWay, Forward, Goto
  <2>2. IsFiniteSet(OnTheWay') /\ OnTheWay' \in SUBSET Requests
    BY <2>1, OnTheWayCount, FS_AddElement DEF OnTheWay
  <2>3. ~OverBudget /\ spend' = spend
    BY <1>2 DEF Forward
  <2>. QED  BY <2>2, <2>3, CoveredAtGate
<1>3. ASSUME NEW r \in Requests,
             Answered(r) \/ StreamEnds(r) \/ StreamAbandoned(r) \/ UpstreamFails(r)
                \/ InternalError(r)
      PROVE  SpendCovered'
  <2>1. r \in OnTheWay /\ OnTheWay' = OnTheWay \ {r}
    BY <1>3, <1>t DEF OnTheWay, Goto, Answered, StreamEnds, StreamAbandoned, UpstreamFails,
                      InternalError
  <2>2. \E cost \in 0 .. MaxCost : spend' = spend + cost
    BY <1>3, <1>t, ProxyAssumption
       DEF Enrich, Answered, StreamEnds, StreamAbandoned, UpstreamFails, InternalError
  <2>. QED  BY <1>t, <2>1, <2>2, CoveredByAnswer
<1>4. CASE NewDay
  <2>1. OnTheWay' = OnTheWay /\ spend' = 0
    BY <1>4 DEF NewDay, OnTheWay
  <2>2. MaxCost * Cardinality(OnTheWay) <= MaxCost * Cardinality(Requests)
        /\ MaxCost * Cardinality(OnTheWay) \in Nat /\ MaxCost * Cardinality(Requests) \in Nat
    BY OnTheWayCount, TimesMonotone
  <2>. HIDE DEF OnTheWay
  <2>. QED  BY <2>1, <2>2, ProxyAssumption DEF SpendCovered
<1>5. ASSUME UNCHANGED pc, UNCHANGED spend
      PROVE  SpendCovered'
  BY <1>5, CoveredUnchanged DEF OnTheWay
<1>6. ASSUME NEW r \in Requests, Serve(r)
      PROVE  SpendCovered'
  BY <1>1, <1>2, <1>3, <1>6 DEF Serve
<1>7. CASE \E b \in Bodies : CacheExpires(b)
  BY <1>5, <1>7 DEF CacheExpires
<1>8. CASE Tick
  BY <1>5, <1>8 DEF Tick
<1>9. CASE UNCHANGED vars
  BY <1>5, <1>9 DEF vars
<1>. QED  BY <1>1, <1>4, <1>6, <1>7, <1>8, <1>9 DEF Next

\* Nothing is on its way, spent or answered at the start.
LEMMA ProxyInitially == Init => ProxyInv
<1>. SUFFICES ASSUME Init PROVE ProxyInv
  OBVIOUS
<1>1. TypeOK
  BY ProxyAssumption DEF Init, TypeOK, Answers, Breaker!Init, Breaker!TypeOK, Breaker!CircuitState
<1>2. OneSpanPerRequest /\ UnansweredUntilIdle
  BY DEF Init, OneSpanPerRequest, UnansweredUntilIdle
<1>3. spend = 0 /\ OnTheWay = {}
  BY DEF Init, OnTheWay
<1>4. /\ MaxCost * Cardinality(OnTheWay) <= MaxCost * Cardinality(Requests)
      /\ MaxCost * Cardinality(OnTheWay) \in Nat /\ MaxCost * Cardinality(Requests) \in Nat
  BY OnTheWayCount, TimesMonotone
<1>5. SpendCovered
  <2>. HIDE DEF OnTheWay
  <2>. QED  BY <1>3, <1>4, ProxyAssumption DEF SpendCovered
<1>. QED  BY <1>1, <1>2, <1>5 DEF ProxyInv

\* What is covered is bounded.
LEMMA CoveredIsBounded ==
  ASSUME ProxyInv
  PROVE  SpendBounded
<1>1. /\ MaxCost * Cardinality(OnTheWay) \in Nat
      /\ MaxCost * Cardinality(Requests) \in Nat
  BY OnTheWayCount, TimesMonotone
<1>2. 10 * MaxCost * Cardinality(Requests) = 10 * (MaxCost * Cardinality(Requests))
  BY OnTheWayCount, ProxyAssumption
<1>3. spend \in Nat
  BY DEF ProxyInv, TypeOK
<1>. HIDE DEF OnTheWay
<1>. QED  BY <1>1, <1>2, <1>3, ProxyAssumption DEF ProxyInv, SpendCovered, SpendBounded

\* The inductive invariant.
THEOREM ProxyInductive == Spec => []ProxyInv
<1>1. ProxyInv /\ [Next]_vars => ProxyInv'
  BY AnswerStep, SpendStep DEF ProxyInv
<1>. QED  BY <1>1, ProxyInitially, PTL DEF Spec

\* server.py, chat_completions: for any number of concurrent requests, however
\* their gates, upstream calls, streams and fallbacks interleave with each
\* other, with the breaker and with midnight, every answered request has left
\* exactly one llm.proxy.call span, and the tenant's spend stays below 80 % of
\* the budget plus one answer per task.
THEOREM ProxyKeepsBudgetAndSpans == Spec => []ProxySafe
<1>1. ProxyInv => ProxySafe
  BY CoveredIsBounded DEF ProxyInv, ProxySafe
<1>. QED  BY <1>1, ProxyInductive, PTL
=============================================================================
