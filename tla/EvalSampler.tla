----------------------------- MODULE EvalSampler -----------------------------
(***************************************************************************)
(* The adaptive evaluation sampler (eval/adaptive_sampler.py): concurrent  *)
(* should_eval() calls of one event loop.  Each refreshes the daily        *)
(* budget, asks the rate limiter (an incident trace) or the mode (any      *)
(* other), and buckets the trace.  The calls share the cost cache, the     *)
(* budget state, the incident cache and the current mode; a call gives up  *)
(* control at each await, and a lock queues its waiters in order.          *)
(***************************************************************************)
EXTENDS Naturals, Sequences, FiniteSets

CONSTANTS
  EvalCalls,      \* the should_eval() calls
  EvalBudget,     \* budget_usd, in half units of spend (an even number)
  CostTTL,        \* cache_ttl of the cost and of the incident cache
  DayLen,         \* clock ticks of a UTC day; the first half is "day"
  RateLimit,      \* incident evaluations per window (a window is one tick)
  EvalBuckets,    \* sha256(trace_id) % 100 of the traces: a set of its values
  EvalTicks,      \* bound: clock ticks
  EvalSpendMax,   \* bound: cost the judge workers add
  EvalFlips       \* bound: outages, policy changes and alerts

ASSUME EvalSamplerAssumption ==
  EvalBudget \in Nat \ {0} /\ CostTTL \in Nat /\ DayLen \in Nat \ {0} /\ RateLimit \in Nat \ {0}
  /\ EvalBuckets \subseteq 0 .. 99 /\ {EvalTicks, EvalSpendMax} \subseteq Nat

VARIABLES
  evWorld,   \* now, spend of each day, redis up, prometheus, policy state, incr counters
  evBudget,  \* the BudgetEnforcer: mult (halves), cache, state, lock
  evMode,    \* incident cache, _current_mode, lock, and the changes reported
  evCall     \* what each call has read and where it is

evalVars == <<evWorld, evBudget, evMode, evCall>>

EvalDays == 0 .. EvalTicks \div DayLen
\* has_security_incident or has_prompt_injection, against any other trace.
Kinds == {"plain", "incident"}
Idle == [pc |-> "idle", kind |-> "plain", bucket |-> 0, day |-> 0, at |-> 0,
         cost |-> 0, new |-> 0, state |-> 0, mode |-> "day", verdict |-> "none"]

EvalInit ==
  /\ evWorld = [now |-> 0, spend |-> [d \in EvalDays |-> 0], redis |-> TRUE, alert |-> "off",
                policy |-> "ok", flips |-> 0, incr |-> [w \in 0 .. EvalTicks |-> 0],
                allowed |-> [w \in 0 .. EvalTicks |-> 0], open |-> [w \in 0 .. EvalTicks |-> 0]]
  /\ evBudget = [mult |-> 2, cache |-> 0, at |-> 0, state |-> 0, lock |-> <<>>]
  /\ evMode = [active |-> FALSE, at |-> 0, current |-> "day", lock |-> <<>>, log |-> <<>>]
  /\ evCall = [c \in EvalCalls |-> Idle]

Today == evWorld.now \div DayLen
YoungEnough(t) == evWorld.now - t < CostTTL

\* 0 ok, 1 soft (80 % of the budget after the error-budget multiplier), 2 paused.
DetermineState(cost, mult) ==
  CASE 2 * cost >= EvalBudget * mult -> 2
    [] 10 * cost >= 4 * EvalBudget * mult -> 1
    [] OTHER -> 0

\* A call that is over keeps its verdict and what it was based on.
Over(r, verdict) == [Idle EXCEPT !.pc = "done", !.new = r.new, !.state = r.state, !.verdict = verdict]

Step(c, r) == evCall' = [evCall EXCEPT ![c] = r]

EvalBegins(c, kind, bucket) ==
  /\ evCall[c].pc = "idle"
  /\ Step(c, [Idle EXCEPT !.pc = "policy", !.kind = kind, !.bucket = bucket])
  /\ UNCHANGED <<evWorld, evBudget, evMode>>

(***************************************************************************)
(* refresh_budget() once the state is settled: the paused verdict, or on   *)
(* to the rate limiter (with the window of this moment) or the mode.       *)
(***************************************************************************)
Refreshed(r, state) ==
  CASE state = 2 -> Over([r EXCEPT !.state = 2], "paused")
    [] state # 2 /\ r.kind # "plain" ->
         [r EXCEPT !.state = state, !.pc = "rate", !.at = evWorld.now]
    [] OTHER -> [r EXCEPT !.state = state, !.pc = "mode", !.at = evWorld.now]

\* Compare and write the state: the fast path when nobody holds the lock, a
\* transition that keeps the lock while its audit event is written, or a wait.
Settle(c, r, budget) ==
  LET n == [r EXCEPT !.new = DetermineState(r.cost, budget.mult)] IN
  IF budget.lock # <<>>
  THEN /\ Step(c, [n EXCEPT !.pc = "waits"])
       /\ evBudget' = [budget EXCEPT !.lock = Append(@, c)]
  ELSE IF n.new = budget.state
  THEN Step(c, Refreshed(n, budget.state)) /\ evBudget' = budget
  ELSE /\ Step(c, [n EXCEPT !.pc = "audits"])
       /\ evBudget' = [budget EXCEPT !.lock = <<c>>]

\* The policy state arrives: the multiplier is set, and the cost comes from the
\* cache when it holds a cost that is young enough.  The key of the day is chosen
\* now, the hash is read later.
ReadsPolicy(c) ==
  LET cut == evWorld.redis /\ evWorld.policy \in {"soft", "hard"}
      b == [evBudget EXCEPT !.mult = IF cut THEN 1 ELSE 2] IN
  /\ evCall[c].pc = "policy"
  /\ IF b.cache > 0 /\ YoungEnough(b.at)
     THEN Settle(c, [evCall[c] EXCEPT !.cost = b.cache], b)
     ELSE /\ Step(c, [evCall[c] EXCEPT !.pc = "cost", !.day = Today, !.at = evWorld.now])
          /\ evBudget' = b
  /\ UNCHANGED <<evWorld, evMode>>

\* HGETALL answers, or fails and leaves the last cached cost, however old.
ReadsCost(c) ==
  LET r == evCall[c]
      cost == IF evWorld.redis THEN evWorld.spend[r.day] ELSE evBudget.cache
      b == IF evWorld.redis THEN [evBudget EXCEPT !.cache = cost, !.at = r.at] ELSE evBudget IN
  /\ r.pc = "cost"
  /\ Settle(c, [r EXCEPT !.cost = cost], b)
  /\ UNCHANGED <<evWorld, evMode>>

\* A plausible slip: whether the state changes is decided before the lock is held.
GetsBudgetLockStale(c) ==
  /\ evCall[c].pc = "waits" /\ Head(evBudget.lock) = c
  /\ Step(c, Refreshed(evCall[c], evBudget.state))
  /\ evBudget' = [evBudget EXCEPT !.lock = Tail(@)]
  /\ UNCHANGED <<evWorld, evMode>>

\* A waiter gets the lock and only now compares with the state.
GetsBudgetLock(c) ==
  /\ evCall[c].pc = "waits" /\ Head(evBudget.lock) = c
  /\ IF evCall[c].new = evBudget.state
     THEN /\ Step(c, Refreshed(evCall[c], evBudget.state))
          /\ evBudget' = [evBudget EXCEPT !.lock = Tail(@)]
     ELSE Step(c, [evCall[c] EXCEPT !.pc = "audits"]) /\ UNCHANGED evBudget
  /\ UNCHANGED <<evWorld, evMode>>

\* The audit write ends (its failure is logged): the state changes and the call
\* goes on with it.
ChangesState(c) ==
  LET r == evCall[c] IN
  /\ r.pc = "audits"
  /\ evBudget' = [evBudget EXCEPT !.state = r.new, !.lock = Tail(@)]
  /\ Step(c, Refreshed(r, r.new))
  /\ UNCHANGED <<evWorld, evMode>>

\* INCR on the window chosen before the await; Redis down lets the trace through.
Acquires(c) ==
  LET r == evCall[c]
      n == evWorld.incr[r.at] + 1
      ok == ~evWorld.redis \/ n <= RateLimit IN
  /\ r.pc = "rate"
  /\ evWorld' = [evWorld EXCEPT !.incr[r.at] = IF evWorld.redis THEN n ELSE @,
                                !.allowed[r.at] = IF ok THEN @ + 1 ELSE @,
                                !.open[r.at] = IF evWorld.redis THEN @ ELSE @ + 1]
  /\ Step(c, Over(r, IF ok THEN "eval" ELSE "limited"))
  /\ UNCHANGED <<evBudget, evMode>>

\* The share of the traces a mode evaluates: 5 % while the budget is soft.
InShare(r, mode) ==
  IF mode = "incident" THEN FALSE
  ELSE r.bucket < (IF r.state = 1 THEN 5 ELSE IF mode = "night" THEN 50 ELSE 10)

Bucketed(r, mode) ==
  Over(r, IF InShare(r, mode) THEN "eval" ELSE "skip")

\* The alert gauge: only "on" is cached, an empty answer or an error leaves the
\* last value, and a first value of "off" is asked again each time.
FetchIncident ==
  IF evMode.active /\ YoungEnough(evMode.at) THEN evMode
  ELSE CASE evWorld.alert = "on" -> [evMode EXCEPT !.active = TRUE, !.at = evWorld.now]
         [] evWorld.alert = "off" -> [evMode EXCEPT !.active = FALSE, !.at = evWorld.now]
         [] OTHER -> evMode

ModeAt(active, t) ==
  CASE active -> "incident"
    [] ~active /\ 2 * (t % DayLen) < DayLen -> "day"
    [] OTHER -> "night"

DetectsMode(c) ==
  LET r == evCall[c]
      m == FetchIncident
      new == ModeAt(m.active, r.at) IN
  /\ r.pc = "mode"
  /\ IF m.lock # <<>>
     THEN /\ Step(c, [r EXCEPT !.pc = "modewaits", !.mode = new])
          /\ evMode' = [m EXCEPT !.lock = Append(@, c)]
     ELSE IF new = m.current
     THEN Step(c, Bucketed(r, new)) /\ evMode' = m
     ELSE /\ Step(c, [r EXCEPT !.pc = "reports", !.mode = new])
          /\ evMode' = [m EXCEPT !.lock = <<c>>, !.log = Append(@, <<m.current, new>>)]
  /\ UNCHANGED <<evWorld, evBudget>>

GetsModeLock(c) ==
  LET r == evCall[c] IN
  /\ r.pc = "modewaits" /\ Head(evMode.lock) = c
  /\ IF r.mode = evMode.current
     THEN Step(c, Bucketed(r, r.mode)) /\ evMode' = [evMode EXCEPT !.lock = Tail(@)]
     ELSE /\ Step(c, [r EXCEPT !.pc = "reports"])
          /\ evMode' = [evMode EXCEPT !.log = Append(@, <<evMode.current, r.mode>>)]
  /\ UNCHANGED <<evWorld, evBudget>>

\* The change was reported (gauge, audit event): only now is the mode assigned.
ChangesMode(c) ==
  LET r == evCall[c] IN
  /\ r.pc = "reports"
  /\ evMode' = [evMode EXCEPT !.current = r.mode, !.lock = Tail(@)]
  /\ Step(c, Bucketed(r, r.mode))
  /\ UNCHANGED <<evWorld, evBudget>>

\* A judge worker books its cost; the world changes.
Spends ==
  /\ evWorld.redis /\ evWorld.spend[Today] < EvalSpendMax
  /\ evWorld' = [evWorld EXCEPT !.spend[Today] = @ + 1]
  /\ UNCHANGED <<evBudget, evMode, evCall>>

EvalTick ==
  /\ evWorld.now < EvalTicks
  /\ evWorld' = [evWorld EXCEPT !.now = @ + 1]
  /\ UNCHANGED <<evBudget, evMode, evCall>>

Flips ==
  /\ evWorld.flips < EvalFlips
  /\ \/ evWorld' = [evWorld EXCEPT !.flips = @ + 1, !.redis = ~@]
     \/ \E a \in {"on", "off", "silent"} \ {evWorld.alert} :
          evWorld' = [evWorld EXCEPT !.flips = @ + 1, !.alert = a]
     \/ evWorld' = [evWorld EXCEPT !.flips = @ + 1, !.policy = IF @ = "ok" THEN "soft" ELSE "ok"]
  /\ UNCHANGED <<evBudget, evMode, evCall>>

EvalNext ==
  \/ \E c \in EvalCalls :
       \/ \E kind \in Kinds, bucket \in EvalBuckets : EvalBegins(c, kind, bucket)
       \/ ReadsPolicy(c) \/ ReadsCost(c) \/ GetsBudgetLock(c) \/ ChangesState(c)
       \/ Acquires(c) \/ DetectsMode(c) \/ GetsModeLock(c) \/ ChangesMode(c)
  \/ Spends \/ EvalTick \/ Flips

EvalSpec == EvalInit /\ [][EvalNext]_evalVars

EvalTypeOK ==
  /\ evWorld.now \in 0 .. EvalTicks /\ evWorld.spend \in [EvalDays -> 0 .. EvalSpendMax]
  /\ evWorld.redis \in BOOLEAN /\ evWorld.alert \in {"on", "off", "silent"}
  /\ evWorld.policy \in {"ok", "soft"}
  /\ evBudget.mult \in 1 .. 2 /\ evBudget.cache \in 0 .. EvalSpendMax /\ evBudget.state \in 0 .. 2
  /\ evMode.active \in BOOLEAN /\ evMode.current \in {"day", "night", "incident"}
  /\ \A c \in EvalCalls : /\ evCall[c].state \in 0 .. 2 /\ evCall[c].new \in 0 .. 2
                          /\ evCall[c].verdict \in {"none", "paused", "limited", "eval", "skip"}

\* A call decides on the budget state it computed from its own reading of the
\* cost, never on one that another call, with an older or newer reading, wrote to
\* the shared _state in between.
DecidesOnOwnReading ==
  \A c \in EvalCalls : evCall[c].pc \in {"rate", "mode", "modewaits", "reports", "done"}
    => evCall[c].state = evCall[c].new

\* Reported mode changes form one chain: each starts from the mode the one before
\* ended in, and with the lock free the last one reported is the current mode.
ModeChangesChain ==
  LET log == evMode.log IN
  /\ \A i \in 2 .. Len(log) : log[i][1] = log[i - 1][2]
  /\ evMode.lock = <<>> /\ log # <<>> => evMode.current = log[Len(log)][2]

\* In a window at most the limit of incident traces is evaluated, beyond those let
\* through because Redis did not answer.
IncidentsBounded ==
  \A w \in 0 .. EvalTicks : evWorld.allowed[w] <= RateLimit + evWorld.open[w]

\* A call of the sampler decides on the budget state it computed from its own reading;
\* the mode changes reported form one chain; and in a window at most the limit of
\* incident traces is evaluated, apart from those let through because Redis did not
\* answer (eval/adaptive_sampler.py refresh_budget, acquire, should_eval).
EvalReadingsConsistent == DecidesOnOwnReading /\ ModeChangesChain /\ IncidentsBounded
=============================================================================
