------------------------------ MODULE SloPolicy ------------------------------
(***************************************************************************)
(* Service level objectives (slo/): the refresher thread measures every    *)
(* SLO of the catalog in turn, sets its gauges, classifies the error       *)
(* budget and fires an action on a change of class; the action publishes   *)
(* one Redis flag for the evaluation sampler.  The burn-rate alert and the *)
(* deploy gate read the gauges.  Every count is a separate query of the    *)
(* hot store and may fail; a failure skips what is left of that SLO.       *)
(***************************************************************************)
EXTENDS Integers, Sequences

CONSTANTS
  SloCount,      \* the SLOs are 1 .. SloCount, in catalog order
  SloTarget,     \* target of each SLO in per mille
  SloBias,       \* sign of the rounding error of the float 1 - target
  SloPairs,      \* burn_rate_thresholds: <<short, long, threshold in tenths>>
  SloWindows,    \* the window specs, in the order the refresher meets them
  SloReadings,   \* what a query may count: <<errors, total>>
  FlagTTL,       \* POLICY_STATE_TTL_SECONDS in refresh periods
  SloRefreshes   \* bound: refresh cycles

Slos == 1 .. SloCount

ASSUME SloAssumption ==
  /\ SloCount \in Nat \ {0} /\ FlagTTL \in Nat /\ SloRefreshes \in Nat
  /\ \A s \in Slos : SloTarget[s] \in 1 .. 999 /\ SloBias[s] \in {"up", "down"}
  /\ SloReadings \subseteq Nat \X Nat /\ \A r \in SloReadings : r[1] <= r[2]
  /\ SloWindows \in Seq(STRING)
  /\ \A i \in 1 .. Len(SloPairs) : \A j \in {1, 2} :
       SloPairs[i][3] \in Nat /\ \E w \in 1 .. Len(SloWindows) : SloWindows[w] = SloPairs[i][j]

VARIABLES
  sloRun,    \* where the refresher is: SLO, window, rolling counts, cycle
  sloGauge,  \* per SLO: the cycle that set sli, and burn (per window) and remaining with theirs
  sloState,  \* ErrorBudgetPolicy._states
  sloFlag,   \* the Redis key, and whether a publish has failed since the last one that worked
  sloLog     \* per SLO: the actions fired

sloVars == <<sloRun, sloGauge, sloState, sloFlag, sloLog>>

\* get_sli_stats(): any counts of the window, an empty one included.
Readings == SloReadings \cup {<<0, 0>>}
Unset == [at |-> 0, value |-> <<0, 0>>]
NoFlag == [state |-> "none", at |-> 0, stuck |-> FALSE]

SloInit ==
  /\ sloRun = [pc |-> "idle", slo |-> 1, win |-> 1, counts |-> <<0, 0>>, cycle |-> 0]
  /\ sloGauge = [s \in Slos |-> [sli |-> 0, burn |-> [w \in 1 .. Len(SloWindows) |-> Unset],
                                 remaining |-> [at |-> 0, value |-> "ok"]]]
  /\ sloState = [s \in Slos |-> "ok"]
  /\ sloFlag = NoFlag
  /\ sloLog = [s \in Slos |-> <<>>]

(***************************************************************************)
(* from_counts() and classify().  remaining <= 0 and remaining < 0.2 are   *)
(* compared in floating point: exactly at the threshold the outcome is the *)
(* rounding error of 1 - target (up for 0.999 and 0.95, down for 0.9).     *)
(***************************************************************************)
Beyond(s, spent, allowed) == spent > allowed \/ (SloBias[s] = "down" /\ spent = allowed)
Classify(s, c) ==
  LET allowed == (1000 - SloTarget[s]) * c[2] IN
  CASE c[2] = 0 -> "ok"
    [] c[2] > 0 /\ Beyond(s, 1000 * c[1], allowed) -> "hard"
    [] c[2] > 0 /\ ~Beyond(s, 1000 * c[1], allowed) /\ Beyond(s, 5000 * c[1], 4 * allowed) -> "soft"
    [] OTHER -> "ok"

\* The next SLO of the loop, or the end of the cycle.
NextSlo(r) ==
  IF r.slo < SloCount
  THEN [r EXCEPT !.pc = "rolling", !.slo = @ + 1, !.win = 1, !.counts = <<0, 0>>]
  ELSE [r EXCEPT !.pc = "idle", !.slo = 1, !.win = 1, !.counts = <<0, 0>>]

Refresh ==
  /\ sloRun.pc = "idle" /\ sloRun.cycle < SloRefreshes
  /\ sloRun' = [sloRun EXCEPT !.pc = "rolling", !.cycle = @ + 1]
  /\ UNCHANGED <<sloGauge, sloState, sloFlag, sloLog>>

\* The counts of the SLO's own window; the sli gauge is set at once.
FetchRolling(c) ==
  /\ sloRun.pc = "rolling"
  /\ sloGauge' = [sloGauge EXCEPT ![sloRun.slo].sli = sloRun.cycle]
  /\ sloRun' = [sloRun EXCEPT !.pc = IF SloWindows = <<>> THEN "budget" ELSE "window", !.counts = c]
  /\ UNCHANGED <<sloState, sloFlag, sloLog>>

\* The burn rate of one alerting window.
FetchWindow(c) ==
  /\ sloRun.pc = "window"
  /\ sloGauge' = [sloGauge EXCEPT ![sloRun.slo].burn[sloRun.win] = [at |-> sloRun.cycle, value |-> c]]
  /\ sloRun' = IF sloRun.win < Len(SloWindows)
               THEN [sloRun EXCEPT !.win = @ + 1] ELSE [sloRun EXCEPT !.pc = "budget"]
  /\ UNCHANGED <<sloState, sloFlag, sloLog>>

\* A query fails: refresh() logs it and goes on with the next SLO.
FetchFails ==
  /\ sloRun.pc \in {"rolling", "window"}
  /\ sloRun' = NextSlo(sloRun)
  /\ UNCHANGED <<sloGauge, sloState, sloFlag, sloLog>>

\* The remaining gauge, clamped at zero, shows the class.
RemainingSet(s, new) == [sloGauge EXCEPT ![s].remaining = [at |-> sloRun.cycle, value |-> new]]

(***************************************************************************)
(* The remaining gauge is set and evaluate() stores the state before the   *)
(* action runs: an unchanged state fires nothing.                          *)
(***************************************************************************)
Evaluates ==
  LET s == sloRun.slo
      new == Classify(s, sloRun.counts) IN
  /\ sloRun.pc = "budget"
  /\ sloGauge' = RemainingSet(s, new)
  /\ sloState' = [sloState EXCEPT ![s] = new]
  /\ sloLog' = IF new = sloState[s] THEN sloLog ELSE [sloLog EXCEPT ![s] = Append(@, new)]
  /\ sloRun' = IF new = sloState[s] THEN NextSlo(sloRun) ELSE [sloRun EXCEPT !.pc = "publish"]
  /\ UNCHANGED sloFlag

\* A plausible slip: a publish that fails takes the stored state back, to retry.
PublishesRetry(ok) ==
  LET s == sloRun.slo IN
  /\ sloRun.pc = "publish"
  /\ sloFlag' = CASE ok /\ sloState[s] = "ok" -> NoFlag
                  [] ok /\ sloState[s] # "ok" ->
                       [state |-> sloState[s], at |-> sloRun.cycle, stuck |-> FALSE]
                  [] ~ok -> [sloFlag EXCEPT !.stuck = TRUE]
  /\ sloState' = IF ok THEN sloState ELSE [sloState EXCEPT ![s] = "ok"]
  /\ sloRun' = NextSlo(sloRun)
  /\ UNCHANGED <<sloGauge, sloLog>>

\* RedisPolicyStateSink: one key for all SLOs, set with a TTL or deleted; an
\* outage is logged and the publish is not repeated.
Publishes(ok) ==
  LET s == sloRun.slo IN
  /\ sloRun.pc = "publish"
  /\ sloFlag' = CASE ok /\ sloState[s] = "ok" -> NoFlag
                  [] ok /\ sloState[s] # "ok" ->
                       [state |-> sloState[s], at |-> sloRun.cycle, stuck |-> FALSE]
                  [] ~ok -> [sloFlag EXCEPT !.stuck = TRUE]
  /\ sloRun' = NextSlo(sloRun)
  /\ UNCHANGED <<sloGauge, sloState, sloLog>>

FlagExpires ==
  /\ sloFlag.state # "none" /\ sloRun.cycle - sloFlag.at >= FlagTTL
  /\ sloFlag' = [NoFlag EXCEPT !.stuck = sloFlag.stuck]
  /\ UNCHANGED <<sloRun, sloGauge, sloState, sloLog>>

(***************************************************************************)
(* burn_rate(), is_burned() and is_alert_fired(): a pair fires when both   *)
(* of its gauges exceed its threshold; a gauge never set is zero, an empty *)
(* window is perfect.                                                      *)
(***************************************************************************)
WindowAt(w) == CHOOSE i \in 1 .. Len(SloWindows) : SloWindows[i] = w
Burns(s, w, tenths) ==
  LET c == sloGauge[s].burn[WindowAt(w)].value IN
  c[2] > 0 /\ 10000 * c[1] > tenths * (1000 - SloTarget[s]) * c[2]
AlertFired(s) == \E i \in 1 .. Len(SloPairs) :
  LET p == SloPairs[i] IN Burns(s, p[1], p[3]) /\ Burns(s, p[2], p[3])
LowestThreshold(w) ==
  LET ts == {SloPairs[i][3] : i \in {j \in 1 .. Len(SloPairs) : w \in {SloPairs[j][1], SloPairs[j][2]}}}
  IN CHOOSE t \in ts : \A u \in ts : t <= u
IsBurned(s, w) == Burns(s, w, LowestThreshold(w))

\* error_budget_gate.py, when Prometheus answers (it is closed when it does not):
\* blocked when a published gauge is at zero.
GateBlocks == \E s \in Slos : sloGauge[s].remaining.at > 0 /\ sloGauge[s].remaining.value = "hard"

SloNext ==
  \/ Refresh
  \/ \E c \in Readings : FetchRolling(c)
  \/ \E c \in Readings : FetchWindow(c)
  \/ FetchFails
  \/ Evaluates
  \/ \E ok \in BOOLEAN : Publishes(ok)
  \/ FlagExpires

SloSpec == SloInit /\ [][SloNext]_sloVars

-----------------------------------------------------------------------------
SloStates == {"ok", "soft", "hard"}
SloTypeOK ==
  /\ sloRun.pc \in {"idle", "rolling", "window", "budget", "publish"} /\ sloRun.slo \in Slos
  /\ sloRun.counts \in Readings /\ sloRun.cycle \in 0 .. SloRefreshes
  /\ sloState \in [Slos -> SloStates]
  /\ sloFlag.state \in SloStates \cup {"none"} /\ sloFlag.at \in 0 .. sloRun.cycle

(***************************************************************************)
(* The policy fires one action per change of class, whatever queries and   *)
(* publishes fail: the actions of an SLO never repeat, and the last one is *)
(* its state (ErrorBudgetPolicy.evaluate).  The flag is left set after all *)
(* SLOs have recovered only when a publish failed.                         *)
(***************************************************************************)
ActionsMatchState ==
  /\ \A s \in Slos : LET log == <<"ok">> \o sloLog[s] IN
       /\ \A i \in 1 .. Len(log) - 1 : log[i] # log[i + 1]
       /\ log[Len(log)] = sloState[s]
  /\ (\A s \in Slos : sloState[s] = "ok") /\ sloRun.pc # "publish" =>
       sloFlag.state = "none" \/ sloFlag.stuck

(***************************************************************************)
(* A refresh that fails half way leaves gauges of two cycles side by side, *)
(* but in the order they are set: none is newer than one measured before   *)
(* it, so a fired alert pairs a short window at least as fresh as the long *)
(* one, the budget is never newer than the burn rates, the policy's state   *)
(* is the class the budget gauge shows, and the deploy gate blocks exactly *)
(* while the state of some SLO is hard.                                    *)
(***************************************************************************)
GaugesInOrder == \A s \in Slos :
  LET g == sloGauge[s]
      at == <<g.sli>> \o [w \in 1 .. Len(SloWindows) |-> g.burn[w].at] \o <<g.remaining.at>> IN
  /\ \A i \in 1 .. Len(at) - 1 : at[i] >= at[i + 1]
  /\ g.remaining.value = sloState[s]
  /\ GateBlocks <=> \E t \in Slos : sloState[t] = "hard"
  /\ AlertFired(s) => \E i \in 1 .. Len(SloPairs) : \A j \in {1, 2} : IsBurned(s, SloPairs[i][j])

\* Refuted: while the state of an SLO is soft or hard, the flag the evaluation sampler
\* reads is set, unless Redis refused the last publish (the promise of
\* RedisPolicyStateSink's docstring).  All SLOs share the one key.
FlagWhileBurning ==
  (\E s \in Slos : sloState[s] # "ok") /\ sloRun.pc # "publish" =>
    sloFlag.state # "none" \/ sloFlag.stuck

=============================================================================
