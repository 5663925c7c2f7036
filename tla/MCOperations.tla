---------------------------- MODULE MCOperations ----------------------------
(***************************************************************************)
(* What runs beside the pipeline: the schedule of the retention process,   *)
(* the weekly archive, the compliance catalog, the SLO refresher with its  *)
(* error budget policy, the tail sampler and its feedback policy, the      *)
(* Langfuse exporter, the health checker, cold-tier queries, access        *)
(* decisions, the embedding queue, and drift detection.  They share no     *)
(* state; a behaviour is one of them.                                      *)
(***************************************************************************)
EXTENDS CronScheduler, ColdMigration, ComplianceCatalog, SloPolicy, TailSampler, LangfuseExport, HealthProbe,
        AthenaQuery, AccessPolicy, EmbeddingStore, DriftWatch

CONSTANTS k1, h1, h2, f1, f2, p1, p2, q1, q2, g1, g2

VARIABLE part

Star == <<[star |-> TRUE, from |-> 0, to |-> 0, step |-> 1]>>
Every(n) == <<[star |-> TRUE, from |-> 0, to |-> 0, step |-> n]>>
On(n) == <<[star |-> FALSE, from |-> n, to |-> n, step |-> 1]>>

\* The shape of build_jobs(): an hourly job first, jobs every few minutes, and
\* daily and weekly ones, some of them on the hour.
MCJobs == <<"vault", "audit", "migrate", "cold", "export", "golden">>
MCFields == [j \in {"vault", "audit", "migrate", "cold", "export", "golden"} |->
  CASE j = "vault"   -> [minute |-> On(0), hour |-> Star, day |-> Star, weekday |-> Star]
    [] j = "audit"   -> [minute |-> On(1), hour |-> On(1), day |-> Star, weekday |-> Star]
    [] j = "migrate" -> [minute |-> On(3), hour |-> On(1), day |-> Star, weekday |-> Star]
    [] j = "cold"    -> [minute |-> On(3), hour |-> On(0), day |-> On(2), weekday |-> On(2)]
    [] j = "export"  -> [minute |-> Every(2), hour |-> Star, day |-> Star, weekday |-> Star]
    [] j = "golden"  -> [minute |-> On(0), hour |-> On(1), day |-> Star, weekday |-> Star]]

\* Days 1 and 10: the prefix of one begins the other.
MCDay == [t \in 1 .. 5 |-> <<1, 1, 1, 10, 2>>[t]]

MCTarget == [s \in 1 .. SloCount |-> <<950, 900>>[s]]
MCBias == [s \in 1 .. SloCount |-> <<"up", "down">>[s]]
MCWindows == <<"1h", "6h">>
MCPairs == << <<"1h", "6h", 60>> >>
MCReadings == {<<1, 10>>, <<1, 20>>}
MCBucket == [x |-> 7, y |-> 20]
MCBatches == {<<>>, <<[trace |-> "x", mark |-> "none"], [trace |-> "y", mark |-> "none"]>>,
              <<[trace |-> "x", mark |-> "none"], [trace |-> "x", mark |-> "error"]>>}
MCEvents == [b \in 1 .. LfBatches |->
               IF b = 1 THEN << <<"x", 1>>, <<"x", 1>>, <<"y", 1>> >> ELSE <<>>]

\* A data row of the second page that looks like the header.
MCAnswers == {<< <<Header>> >>, << <<Header, "a">>, <<Header, "b">> >>}
Asks(mfa, own) == [user |-> "ana", action |-> "pii:recover", resource |-> "trace", mfa |-> mfa, own |-> own]
MCRequests == {Asks(TRUE, TRUE), Asks(FALSE, TRUE), Asks(TRUE, FALSE)}

Parts == {"schedule", "archive", "catalog", "slo", "sampler", "feedback", "langfuse", "health",
          "athena", "access", "embedding", "drift"}

\* A part that is not the one running starts in one state.
Init ==
  /\ part \in Parts
  /\ CronInit /\ (part = "schedule" \/ cron.boot)
  /\ ColdInit
  /\ CatalogInit /\ (part = "catalog" \/ (tier = "null" /\ ~asyncHot))
  /\ SloInit
  /\ SamplerInit /\ (part = "sampler" \/ ~tsFile.on)
  /\ FeedbackInit /\ LangfuseInit /\ HealthInit
  /\ AthenaInit
  /\ \/ part = "athena"
     \/ atCall.req = [trace |-> "safe", fields |-> "none", tenant |-> "none", day |-> "none"]
        /\ Len(atQuery.pages) = 1
  /\ AccessInit /\ (part = "access" \/ apTable = Nobody)
  /\ EmbeddingInit /\ (part = "embedding" \/ esLoop)
  /\ DriftInit /\ (part = "drift" \/ dfAwaits)

allVars == <<cronVars, coldVars, catalogVars, sloVars, samplerVars, feedbackVars, langfuseVars, healthVars,
             athenaVars, accessVars, embeddingVars, driftVars>>

\* Every part but one stands still.
Others(p) ==
  /\ part = p /\ UNCHANGED part
  /\ p # "schedule" => UNCHANGED cronVars
  /\ p # "archive" => UNCHANGED coldVars
  /\ p # "catalog" => UNCHANGED catalogVars
  /\ p # "slo" => UNCHANGED sloVars
  /\ p # "sampler" => UNCHANGED samplerVars
  /\ p # "feedback" => UNCHANGED feedbackVars
  /\ p # "langfuse" => UNCHANGED langfuseVars
  /\ p # "health" => UNCHANGED healthVars
  /\ p # "athena" => UNCHANGED athenaVars
  /\ p # "access" => UNCHANGED accessVars
  /\ p # "embedding" => UNCHANGED embeddingVars
  /\ p # "drift" => UNCHANGED driftVars

Next ==
  \/ Others("schedule") /\ CronNext
  \/ Others("archive") /\ ColdNext
  \/ Others("catalog") /\ CatalogNext
  \/ Others("slo") /\ SloNext
  \/ Others("sampler") /\ SamplerNext
  \/ Others("feedback") /\ FeedbackNext
  \/ Others("langfuse") /\ LangfuseNext
  \/ Others("health") /\ HealthNext
  \/ Others("athena") /\ AthenaNext
  \/ Others("access") /\ AccessNext
  \/ Others("embedding") /\ EmbeddingNext
  \/ Others("drift") /\ DriftNext
Spec == Init /\ [][Next]_<<allVars, part>>
ScheduleSpec == Spec /\ part = "schedule" /\ CronFair

\* What the operators see: the budget policy fires one action per change of class
\* whatever fails, no SLO gauge is newer than one measured before it, and the health
\* gauges are all of one cycle (slo/error_budget.py, slo/refresher.py, ha/health_checks.py).
GaugesConsistent == ActionsMatchState /\ GaugesInOrder /\ GaugesOneCycle

OperationsTypeOK ==
  /\ CronTypeOK /\ ColdTypeOK /\ CatalogTypeOK /\ SloTypeOK /\ TailTypeOK /\ LangfuseTypeOK /\ HealthTypeOK
  /\ AthenaTypeOK /\ AccessTypeOK /\ EmbeddingTypeOK /\ DriftTypeOK
=============================================================================
