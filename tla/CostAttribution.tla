-------------------------- MODULE CostAttribution --------------------------
(***************************************************************************)
(* What one tenant's LLM calls cost, as the proxies account for it         *)
(* (agent_obs/cost/attribution.py): every proxy process adds up what it    *)
(* records per agent and UTC day, reconciles that sum with the spans that  *)
(* reached ClickHouse, and writes the larger of the two to Postgres.  The  *)
(* budget gate reads the process's own sum.                                *)
(*                                                                         *)
(* flush_once runs without an await up to the upsert, so it is two steps:  *)
(* reconcile and snapshot, then write.  ClickHouse and Postgres are        *)
(* external: a table of sums, and a call that may fail.                    *)
(***************************************************************************)
EXTENDS Integers, FiniteSets, FiniteSetsExt

CONSTANTS
    Proxies,    \* proxy processes of the deployment
    Headers,    \* X-OryaObs-Agent-Id as clients send it ...
    NoHeader,   \* ... or leave it out
    MaxDay,     \* bound: days 1 .. MaxDay
    MaxSpend,   \* bound: units spent in all
    Failing     \* the stores that may fail: a subset of {"hot", "warm"}

ASSUME CostAssumption == MaxDay \in Nat \ {0} /\ IsFiniteSet(Headers)

Days == 1 .. MaxDay

\* attribution_from_headers names a missing agent "unknown"; the span of the
\* same request carries build_proxy_span's "proxy".
MemoryAgent(h) == IF h = NoHeader THEN "unknown" ELSE h
SpanAgent(h) == IF h = NoHeader THEN "proxy" ELSE h

Agents == {MemoryAgent(h) : h \in Headers} \union {SpanAgent(h) : h \in Headers}
CostKeys == Agents \X Days
Zero == [k \in CostKeys |-> 0]

VARIABLES
    day,      \* today, UTC
    spend,    \* per proxy: _spend
    snap,     \* per proxy: the rows flush_once is about to upsert
    worker,   \* per proxy: where its flush worker is
    pending,  \* cost of spans recorded and not yet in ClickHouse, by agent and start day
    hot,      \* the same, in spans_hot
    warm,     \* tenant_cost_daily
    spent     \* history: what was spent, per header and day

costVars == <<day, spend, snap, worker, pending, hot, warm, spent>>

CostInit ==
    /\ day = 1
    /\ spend = [p \in Proxies |-> Zero]
    /\ snap = [p \in Proxies |-> Zero]
    /\ worker = [p \in Proxies |-> "wait"]
    /\ pending = Zero /\ hot = Zero /\ warm = Zero
    /\ spent = [k \in Headers \X Days |-> 0]

Total(f) == MapThenSumSet(LAMBDA k : f[k], DOMAIN f)
Larger(f, g) == [k \in CostKeys |-> IF f[k] < g[k] THEN g[k] ELSE f[k]]

\* record(): one unit of cost, for today.  The span it rides on began today
\* or, if midnight fell into the call, the day before.
Record(p, h) ==
    /\ Total(spent) < MaxSpend
    /\ spend' = [spend EXCEPT ![p][<<MemoryAgent(h), day>>] = @ + 1]
    /\ \E d \in {day - 1, day} \intersect Days :
          pending' = [pending EXCEPT ![<<SpanAgent(h), d>>] = @ + 1]
    /\ spent' = [spent EXCEPT ![<<h, day>>] = @ + 1]
    /\ UNCHANGED <<day, snap, worker, hot, warm>>

\* The span pipeline stores a span, or loses it.
Export(k) ==
    /\ pending[k] > 0
    /\ pending' = [pending EXCEPT ![k] = @ - 1]
    /\ hot' = [hot EXCEPT ![k] = @ + 1]
    /\ UNCHANGED <<day, spend, snap, worker, warm, spent>>

Lose(k) ==
    /\ pending[k] > 0
    /\ pending' = [pending EXCEPT ![k] = @ - 1]
    /\ UNCHANGED <<day, spend, snap, worker, hot, warm, spent>>

Today(f) == [k \in CostKeys |-> IF k[2] = day THEN f[k] ELSE 0]

\* Mutant of Reconcile: adds what ClickHouse knows to what memory knows.
ReconcileAdds(p) == [k \in CostKeys |-> spend[p][k] + Today(hot)[k]]

\* max(memory, ClickHouse) for every row ClickHouse has for today.
Reconcile(p) == Larger(spend[p], Today(hot))

\* flush_once up to the upsert: nothing was recorded, nothing happens; else
\* reconcile, unless ClickHouse fails, and snapshot today's rows.
Snapshot(p, from, to) ==
    /\ worker[p] = from
    /\ worker' = [worker EXCEPT ![p] = to]
    /\ IF spend[p] = Zero
       THEN snap' = [snap EXCEPT ![p] = Zero] /\ UNCHANGED spend
       ELSE /\ \/ spend' = [spend EXCEPT ![p] = Reconcile(p)]
               \/ "hot" \in Failing /\ UNCHANGED spend
            /\ snap' = [snap EXCEPT ![p] = Today(spend'[p])]
    /\ UNCHANGED <<day, pending, hot, warm, spent>>

\* Mutant of Upsert: the last writer wins.
UpsertLast(p) == [k \in CostKeys |-> IF snap[p][k] > 0 THEN snap[p][k] ELSE warm[k]]

\* Mutant of Upsert: the snapshot is added to the row.
UpsertAdds(p) == [k \in CostKeys |-> warm[k] + snap[p][k]]

\* upsert_tenant_cost_daily: ON CONFLICT ... GREATEST.
Upsert(p) == Larger(warm, snap[p])

Write(p, from, to) ==
    /\ worker[p] = from
    /\ worker' = [worker EXCEPT ![p] = to]
    /\ \/ warm' = Upsert(p)
       \/ "warm" \in Failing /\ UNCHANGED warm
    /\ snap' = [snap EXCEPT ![p] = Zero]
    /\ UNCHANGED <<day, spend, pending, hot, spent>>

\* One cycle of _flush_worker.
FlushBegins(p) == Snapshot(p, "wait", "write")
FlushWrites(p) == Write(p, "write", "wait")

\* stop(): the worker ends, or is cancelled in the middle of its upsert after
\* five seconds; then the final flush.
Stop(p) ==
    /\ worker[p] \in {"wait", "write"}
    /\ worker' = [worker EXCEPT ![p] = "final"]
    /\ snap' = [snap EXCEPT ![p] = Zero]
    /\ UNCHANGED <<day, spend, pending, hot, warm, spent>>

FinalBegins(p) == Snapshot(p, "final", "finalWrite")
FinalWrites(p) == Write(p, "finalWrite", "stopped")

\* The process ends, stopped or killed, and another takes its place.
Restart(p) ==
    /\ worker' = [worker EXCEPT ![p] = "wait"]
    /\ spend' = [spend EXCEPT ![p] = Zero]
    /\ snap' = [snap EXCEPT ![p] = Zero]
    /\ UNCHANGED <<day, pending, hot, warm, spent>>

Midnight ==
    /\ day < MaxDay
    /\ day' = day + 1
    /\ UNCHANGED <<spend, snap, worker, pending, hot, warm, spent>>

CostNext ==
    \/ \E p \in Proxies, h \in Headers : Record(p, h)
    \/ \E p \in Proxies : FlushBegins(p) \/ FlushWrites(p) \/ Stop(p)
                            \/ FinalBegins(p) \/ FinalWrites(p) \/ Restart(p)
    \/ \E k \in CostKeys : Export(k) \/ Lose(k)
    \/ Midnight

CostSpec == CostInit /\ [][CostNext]_costVars
-----------------------------------------------------------------------------
CostTypeOK ==
    /\ day \in Days
    /\ spend \in [Proxies -> [CostKeys -> Nat]]
    /\ snap \in [Proxies -> [CostKeys -> Nat]]
    /\ worker \in [Proxies -> {"wait", "write", "final", "finalWrite", "stopped"}]
    /\ pending \in [CostKeys -> Nat]
    /\ hot \in [CostKeys -> Nat]
    /\ warm \in [CostKeys -> Nat]
    /\ spent \in [Headers \X Days -> Nat]

\* spend_today of a process.
SpendToday(p) == Total(Today(spend[p]))
SpentOn(d) == Total([h \in Headers |-> spent[<<h, d>>]])

\* Requests without the agent header are counted under two names once their
\* spans are in ClickHouse: this much of a day's cost may appear twice.
Unnamed(d) == IF NoHeader \in Headers THEN spent[<<NoHeader, d>>] ELSE 0

\* The budget gate charges the tenant at most what it spent today, and the
\* unnamed part at most twice, however the process's own sum, late spans,
\* restarts and the sums of the other processes are merged.
ChargeBounded ==
    \A p \in Proxies : SpendToday(p) <= SpentOn(day) + Unnamed(day)

\* No agent that names itself is charged for another's calls or twice for its
\* own, unless it names itself as the proxy names those that do not.
AgentChargedOnce ==
    \A p \in Proxies, h \in Headers \ {NoHeader, "unknown", "proxy"}, d \in Days :
        warm[<<h, d>>] <= spent[<<h, d>>] /\ spend[p][<<h, d>>] <= spent[<<h, d>>]

\* The daily rollup has the same bound, although rows of one day may be
\* written after midnight and spans may be filed under the day before.
RollupBounded ==
    \A d \in Days : Total([k \in CostKeys |-> IF k[2] = d THEN warm[k] ELSE 0])
                       <= SpentOn(d) + Unnamed(d)

\* server.py, the budget gate: "so the gate and the rollup agree on which
\* bucket the request belongs to": nobody is charged more than was spent.
NeverOvercharges == \A p \in Proxies : SpendToday(p) <= SpentOn(day)

\* warm.py: "a daily rollup must never go backwards", whatever order the
\* processes' snapshots arrive in.
RollupNeverDecreases == [][\A k \in CostKeys : warm'[k] >= warm[k]]_costVars

\* attribution.py, stop(): "run one final flush to drain pending spend": what
\* memory holds when the final flush begins is in its snapshot, unless
\* Postgres has it already.
FinalFlushDrains ==
    [][\A p \in Proxies : worker[p] = "final" /\ worker'[p] = "finalWrite"
          => \A k \in CostKeys : spend[p][k] <= Larger(warm, snap'[p])[k]]_costVars

\* server.py, stop(): "stop the cost-attribution worker first so the final
\* flush lands before the process tears down its stores": when the process
\* is done, its spend is in Postgres.
NothingLeftBehind ==
    \A p \in Proxies : worker[p] = "stopped" => \A k \in CostKeys : warm[k] >= spend[p][k]

\* A tenant is never charged more than it spent, at the gate, agent by agent and in
\* the daily rollup, but for requests without the agent header, which may be counted
\* twice (cost/attribution.py record, flush_once, spend_today).
ChargesBounded == ChargeBounded /\ AgentChargedOnce /\ RollupBounded
=============================================================================
