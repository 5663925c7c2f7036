----------------------------- MODULE LLMProxy -----------------------------
(***************************************************************************)
(* The LLM proxy of agent_obs/proxy/server.py in its observability-only    *)
(* mode: chat_completions with the semantic cache, the daily budget gate,  *)
(* the breaker of the upstream, plain and streamed answers, the fallback,  *)
(* and the span every request leaves.  Requests are asyncio tasks of one   *)
(* loop: what a task does between two awaits is one step.  The breaker is  *)
(* the one of module CircuitBreaker, driven the way _forward_with_retry    *)
(* drives it.  One tenant is modelled: tenants meet only in the breaker    *)
(* and the cache.  Costs are whole units.                                  *)
(***************************************************************************)
EXTENDS Integers, FiniteSets

CONSTANTS
    Requests,          \* tasks that serve requests, each again and again
    Bodies,            \* request bodies, the keys of the semantic cache
    EmptyBody,         \* the empty body, which no client sends
    Budget,            \* the tenant's daily budget, above zero: enforced
    MaxCost,           \* bound: what one answer may cost
    FailureThreshold,  \* of the breaker
    RecoveryTime,
    MaxFailures

ASSUME ProxyAssumption ==
    /\ IsFiniteSet(Requests)
    /\ EmptyBody \notin Bodies
    /\ Budget \in Nat \ {0}
    /\ MaxCost \in Nat
    /\ FailureThreshold \in Nat \ {0}
    /\ RecoveryTime \in Nat
    /\ MaxFailures \in Nat
    /\ MaxFailures >= FailureThreshold

VARIABLES
    state, failures, openFor, probeInFlight, call,  \* upstream_breaker
    cache,   \* the bodies that have an answer in Redis
    spend,   \* spend_today(tenant)
    pc,      \* where each task is
    body,    \* the body of each task's request
    stream,  \* "yes" if the request asks for a stream, else "no"
    resp,    \* what each task answered last
    spans    \* spans the request has left

Breaker == INSTANCE CircuitBreaker WITH
    Callers <- Requests, Outcomes <- {"success", "failure", "unrecorded"}

breakerVars == <<state, failures, openFor, probeInFlight>>
vars == <<breakerVars, call, cache, spend, pc, body, stream, resp, spans>>

Answers == {"none", "hit", "budget", "ok", "error", "gone", "500", "503"}

\* The proxy never fills the cache (see Answered): what it finds there was
\* put there by another user of the same Redis.
Init ==
    /\ Breaker!Init
    /\ cache \in SUBSET Bodies
    /\ spend = 0
    /\ pc = [r \in Requests |-> "idle"]
    /\ body \in [Requests -> Bodies]
    /\ stream = [r \in Requests |-> "no"]
    /\ resp = [r \in Requests |-> "none"]
    /\ spans = [r \in Requests |-> 0]

Goto(r, a, b) == pc[r] = a /\ pc' = [pc EXCEPT ![r] = b]

\* A request arrives and its body is read.
Arrive(r) ==
    /\ Goto(r, "idle", "received")
    /\ \E b \in Bodies : body' = [body EXCEPT ![r] = b]
    /\ \E s \in {"no", "yes"} : stream' = [stream EXCEPT ![r] = s]
    /\ resp' = [resp EXCEPT ![r] = "none"]
    /\ spans' = [spans EXCEPT ![r] = 0]
    /\ UNCHANGED <<breakerVars, call, cache, spend>>

\* span.end_time is set, the span is enqueued, the answer a is sent.
Finish(r, a) ==
    /\ resp' = [resp EXCEPT ![r] = a]
    /\ spans' = [spans EXCEPT ![r] = @ + 1]

\* _check_semantic_cache: a hit is answered before any gate, at no cost.
CacheHit(r) ==
    /\ Goto(r, "received", "idle")
    /\ body[r] \in cache
    /\ Finish(r, "hit")
    /\ UNCHANGED <<breakerVars, call, cache, spend, body, stream>>

\* Mutant of OverBudget: only the exhausted budget is refused.
OnlyExhausted == spend >= Budget

\* BudgetEnforcer.check: "approaching" from 80 %, "exhausted" from 100 %;
\* both are refused, with 429 and 403.
OverBudget == 10 * spend >= 8 * Budget

\* A miss, or a Redis error, which get() turns into a miss: the budget gate.
RejectOverBudget(r) ==
    /\ Goto(r, "received", "idle")
    /\ OverBudget
    /\ Finish(r, "budget")
    /\ UNCHANGED <<breakerVars, call, cache, spend, body, stream>>

\* Mutant of CircuitOpen: a refused request is not counted as a failure.
CircuitOpenSilent(r) ==
    /\ Goto(r, "received", "fallback")
    /\ ~OverBudget
    /\ ~Breaker!Admits
    /\ UNCHANGED <<breakerVars, call, cache, spend, body, stream, resp, spans>>

\* allow_request() refuses: _record_failure("circuit_open") tells the breaker
\* of a failure all the same, then the fallback.
CircuitOpen(r) ==
    /\ Goto(r, "received", "fallback")
    /\ ~OverBudget
    /\ ~Breaker!Admits
    /\ Breaker!FailureRecorded
    /\ UNCHANGED <<call, cache, spend, body, stream, resp, spans>>

\* allow_request() admits and the request goes to the upstream.
Forward(r) ==
    /\ Goto(r, "received", "upstream")
    /\ ~OverBudget
    /\ Breaker!AllowRequest(r)
    /\ UNCHANGED <<cache, spend, body, stream, resp, spans>>

\* enrich_span: the usage in the answer is priced and recorded; an error, or
\* an answer without usage, costs nothing.
Enrich(cost) == spend' = spend + cost

\* _forward_with_retry returns whatever answer arrives from inside its try
\* block: the 429 and 5xx retries and record_success() below it are never
\* reached, so the breaker hears nothing.  _handle_non_streaming then prices
\* the answer, leaves the span, and fails to fill the cache (tenant_id is not
\* a name of that function; the NameError is logged and dropped).
Answered(r) ==
    /\ Goto(r, "upstream", "idle")
    /\ stream[r] = "no"
    /\ Breaker!Unrecorded(r)
    /\ \/ \E cost \in 0 .. MaxCost : Finish(r, "ok") /\ Enrich(cost)
       \/ Finish(r, "error") /\ UNCHANGED spend
    /\ UNCHANGED <<cache, body, stream>>

\* The same for a stream: the headers end _forward_with_retry ...
HeadersArrive(r) ==
    /\ Goto(r, "upstream", "streaming")
    /\ stream[r] = "yes"
    /\ Breaker!Unrecorded(r)
    /\ UNCHANGED <<cache, spend, body, stream, resp, spans>>

\* ... and the generator's finally block ends the span, whether the stream
\* ended, the upstream broke off or the client went away in the middle; usage
\* seen so far is priced.
StreamEnds(r) ==
    /\ Goto(r, "streaming", "idle")
    /\ \E cost \in 0 .. MaxCost : Enrich(cost)
    /\ \E a \in {"ok", "error"} : Finish(r, a)
    /\ UNCHANGED <<breakerVars, call, cache, body, stream>>

\* The client went away while the upstream was silent: the server drops the
\* generator before its first step, and with it the finally block.
StreamAbandoned(r) ==
    /\ Goto(r, "streaming", "idle")
    /\ resp' = [resp EXCEPT ![r] = "gone"]
    /\ UNCHANGED <<breakerVars, call, cache, spend, body, stream, spans>>

\* A timeout or a transport error: recorded, never retried.
UpstreamFails(r) ==
    /\ Goto(r, "upstream", "fallback")
    /\ Breaker!RecordFailure(r)
    /\ UNCHANGED <<cache, spend, body, stream, resp, spans>>

\* Any other exception of the client (an undecodable answer, say): 500.
InternalError(r) ==
    /\ Goto(r, "upstream", "idle")
    /\ Breaker!Unrecorded(r)
    /\ Finish(r, "500")
    /\ UNCHANGED <<cache, spend, body, stream>>

\* _fallback_to_cache_or_503 looks the answer up under llm.input_text, which
\* only enrich_span sets, after an answer: it asks for the empty body.
Fallback(r) ==
    /\ Goto(r, "fallback", "idle")
    /\ Finish(r, IF EmptyBody \in cache THEN "hit" ELSE "503")
    /\ UNCHANGED <<breakerVars, call, cache, spend, body, stream>>

\* An entry outlives its TTL.
CacheExpires(b) ==
    /\ b \in cache
    /\ cache' = cache \ {b}
    /\ UNCHANGED <<breakerVars, call, spend, pc, body, stream, resp, spans>>

\* Midnight, UTC: spend_today counts from nothing.
NewDay ==
    /\ spend > 0
    /\ spend' = 0
    /\ UNCHANGED <<breakerVars, call, cache, pc, body, stream, resp, spans>>

Tick ==
    /\ Breaker!Tick
    /\ UNCHANGED <<cache, spend, pc, body, stream, resp, spans>>

Serve(r) ==
    \/ CacheHit(r) \/ RejectOverBudget(r) \/ CircuitOpen(r) \/ Forward(r)
    \/ Answered(r) \/ HeadersArrive(r) \/ StreamEnds(r) \/ StreamAbandoned(r)
    \/ UpstreamFails(r) \/ InternalError(r) \/ Fallback(r)

Next ==
    \/ \E r \in Requests : Arrive(r) \/ Serve(r)
    \/ \E b \in Bodies : CacheExpires(b)
    \/ NewDay
    \/ Tick

Spec == Init /\ [][Next]_vars

\* The loop runs its tasks, httpx times every upstream call out, clients keep
\* coming, entries expire and time passes.
Fairness ==
    /\ \A r \in Requests : WF_vars(Serve(r)) /\ WF_vars(Arrive(r))
    /\ \A b \in Bodies : WF_vars(CacheExpires(b))
    /\ WF_vars(NewDay)
    /\ WF_vars(Tick)

FairSpec == Spec /\ Fairness
-----------------------------------------------------------------------------
TypeOK ==
    /\ Breaker!TypeOK
    /\ cache \in SUBSET Bodies
    /\ spend \in Nat
    /\ pc \in [Requests -> {"idle", "received", "upstream", "streaming", "fallback"}]
    /\ body \in [Requests -> Bodies]
    /\ stream \in [Requests -> {"no", "yes"}]
    /\ resp \in [Requests -> Answers]
    /\ spans \in [Requests -> 0 .. 1]

\* Every answered request has left exactly one llm.proxy.call span, on every
\* path through the gates, the upstream, a stream and the fallback; a request
\* still being served, or whose client left before its stream began, has left
\* none.
OneSpanPerRequest ==
    \A r \in Requests : spans[r] = (IF resp[r] \in {"none", "gone"} THEN 0 ELSE 1)

\* The gate is checked before the call and the cost known only after it: the
\* spend may pass the 80 % mark, but by no more than one answer per request
\* that was on its way.
SpendBounded == 10 * spend < 8 * Budget + 10 * MaxCost * Cardinality(Requests)

\* Types, one span for every answered request, and the spend held at the gate.
ProxySafe == TypeOK /\ OneSpanPerRequest /\ SpendBounded

\* The upstream's breaker never shuts the proxy off for good, although its
\* probe's success is never reported: the requests it turns away re-open it,
\* and the recovery time admits the next probe.
AdmitsAgain == []<>(Breaker!Admits)

\* health_checks.py: "half-open - one probe in flight. record_success closes
\* the breaker": a probe that the upstream answers well closes it.
ProbeSuccessCloses ==
    [][\A r \in Requests :
          call[r] = "probe" /\ call'[r] = "idle" /\ resp'[r] = "ok" => state' = "closed"]_vars

\* proxy/README.md: "Cache Miss: Forwards to upstream, then caches the
\* successful response".
SuccessIsCached ==
    [][\A r \in Requests :
          pc[r] = "upstream" /\ resp'[r] = "ok" => body[r] \in cache']_vars

\* server.py, the fallback: "Handle fallback: cache lookup or 503 response":
\* a request is not answered 503 while the cache holds its answer.
FallbackUsesCache ==
    [][\A r \in Requests :
          pc[r] = "fallback" /\ resp'[r] = "503" => body[r] \notin cache]_vars
=============================================================================
