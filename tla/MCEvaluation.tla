---------------------------- MODULE MCEvaluation ----------------------------
(***************************************************************************)
(* What reads traces after they were recorded: the evaluation sampler, the *)
(* judge's jobs, drill-down and the trace tree.  They share no state; a    *)
(* behaviour is one of the four.                                           *)
(***************************************************************************)
EXTENDS EvalSampler, JudgeJobs, DrillDown, TraceTree, TLC

CONSTANTS c1, c2, r1, r2, a1, a2

VARIABLE part

Query(op, user, fields, mfa, tenant) ==
  [op |-> op, user |-> user, fields |-> fields, mfa |-> mfa, tenant |-> tenant]
MCQueries == {Query("drill", "dan", "plain", "missing", ""), Query("drill", "dan", "pii", "valid", "t1"),
              Query("drill", "dan", "plain", "missing", "t2"), Query("expand", "ana", "pii", "invalid", ""),
              Query("expand", "ana", "plain", "missing", "")}
MCRoleOf == [ana |-> "sre", dan |-> "dpo"]
MCEvalOf == [e \in Evals |-> 1]

\* A part that is not the one running starts in one state.
Init ==
  /\ EvalInit /\ JudgeInit /\ DrillInit /\ TreeInit
  /\ part \in {"sampler", "judge", "drill", "tree"}
  /\ part = "judge" \/ jdSetup = [sampler |-> FALSE, resolves |-> TRUE]
  /\ part = "drill" \/ ddClient = "sync"
  /\ part = "tree" \/ ttTrace = [parent |-> [s \in TtSpans |-> 0], error |-> {}, loop |-> TRUE]
Next ==
  /\ UNCHANGED part
  /\ \/ part = "sampler" /\ EvalNext /\ UNCHANGED <<judgeVars, drillVars, treeVars>>
     \/ part = "judge" /\ JudgeNext /\ UNCHANGED <<evalVars, drillVars, treeVars>>
     \/ part = "drill" /\ DrillNext /\ UNCHANGED <<evalVars, judgeVars, treeVars>>
     \/ part = "tree" /\ TreeNext /\ UNCHANGED <<evalVars, judgeVars, drillVars>>
Spec == Init /\ [][Next]_<<evalVars, judgeVars, drillVars, treeVars, part>>

Symmetry == Permutations(EvalCalls) \cup Permutations(DdRequests) \cup Permutations(Annotators)

\* The parts' variables keep their types; a summary is awaited only for a summary node.
EvaluationTypeOK == EvalTypeOK /\ JudgeTypeOK /\ DrillTypeOK /\ TreeTypeOK
=============================================================================
