---------------------------- MODULE HealthProbe ----------------------------
(***************************************************************************)
(* The health checker (ha/health_checks.py HealthChecker): cycle after     *)
(* cycle it probes every configured dependency concurrently and publishes  *)
(* the gauges when all probes have answered.  A probe's failure is an      *)
(* answer; only the ClickHouse probe can raise, while it builds its store, *)
(* and then the cycle ends without touching a gauge.                       *)
(***************************************************************************)
EXTENDS Naturals

CONSTANTS
  HpTargets,   \* targets(): the configured dependencies
  HpRaising,   \* those whose probe may raise
  HpCycles     \* bound: cycles

ASSUME HealthAssumption == HpRaising \subseteq HpTargets /\ HpCycles \in Nat

VARIABLES
  hpProbe,   \* per dependency: idle, running, or the answer
  hpGauge,   \* per dependency: the value published and the cycle it is from
  hpCycle    \* cycles begun, the last one published, whether one is running

healthVars == <<hpProbe, hpGauge, hpCycle>>

Answers == {"healthy", "unhealthy"}

HealthInit ==
  /\ hpProbe = [d \in HpTargets |-> "idle"]
  /\ hpGauge = [d \in HpTargets |-> [value |-> "none", cycle |-> 0]]
  /\ hpCycle = [n |-> 0, published |-> 0, pc |-> "waits"]

\* check_all(): nothing configured is an empty result; else all probes start.
BeginCycle ==
  /\ hpCycle.pc = "waits" /\ hpCycle.n < HpCycles
  /\ hpCycle' = [hpCycle EXCEPT !.n = @ + 1, !.pc = IF HpTargets = {} THEN "waits" ELSE "probes"]
  /\ hpProbe' = [d \in HpTargets |-> "running"]
  /\ UNCHANGED hpGauge

\* A probe answers: the dependency, its error, or the timeout.
Answer(d, a) ==
  /\ hpCycle.pc = "probes" /\ hpProbe[d] = "running"
  /\ hpProbe' = [hpProbe EXCEPT ![d] = a]
  /\ UNCHANGED <<hpGauge, hpCycle>>

\* gather() passes the exception on: the cycle fails, later answers are discarded.
Raise(d) ==
  /\ d \in HpRaising /\ hpCycle.pc = "probes" /\ hpProbe[d] = "running"
  /\ hpProbe' = [e \in HpTargets |-> "idle"]
  /\ hpCycle' = [hpCycle EXCEPT !.pc = "waits"]
  /\ UNCHANGED hpGauge

\* apply_gauges() with the results of all probes.
ApplyGauges ==
  /\ hpCycle.pc = "probes" /\ \A d \in HpTargets : hpProbe[d] \in Answers
  /\ hpGauge' = [d \in HpTargets |-> [value |-> hpProbe[d], cycle |-> hpCycle.n]]
  /\ hpCycle' = [hpCycle EXCEPT !.pc = "waits", !.published = hpCycle.n]
  /\ hpProbe' = [d \in HpTargets |-> "idle"]

HealthNext ==
  \/ BeginCycle
  \/ \E d \in HpTargets, a \in Answers : Answer(d, a)
  \/ \E d \in HpTargets : Raise(d)
  \/ ApplyGauges

HealthSpec == HealthInit /\ [][HealthNext]_healthVars

-----------------------------------------------------------------------------
HealthTypeOK ==
  /\ hpProbe \in [HpTargets -> {"idle", "running"} \cup Answers]
  /\ hpCycle.pc \in {"waits", "probes"}

\* The gauges are one snapshot: all of the last cycle whose probes all answered,
\* never a mix of two cycles (check_all, apply_gauges).
GaugesOneCycle == \A d \in HpTargets :
  /\ hpGauge[d].cycle = hpCycle.published
  /\ (hpGauge[d].value = "none") = (hpCycle.published = 0)

=============================================================================
