---------------------------- MODULE MCSharedCost ----------------------------
(***************************************************************************)
(* The shared proxy, and the cost accounting of the proxies of a tenant.   *)
(* They share no state; a behaviour is one of the two.  Two requests, ids  *)
(* that may repeat and a queue of one; two processes that write the same   *)
(* rows, two days so that midnight falls everywhere, and two units of cost *)
(* so that memory, ClickHouse and Postgres can all differ.                 *)
(***************************************************************************)
EXTENDS SharedProxy, CostAttribution, TLC

CONSTANTS r1, r2, i1, i2, none

VARIABLE part

NamedAndNot == {"agent", none}
AllStores == {"hot", "warm"}

Init ==
  /\ SharedInit /\ CostInit
  /\ part \in {"shared", "cost"}
  /\ part = "shared" \/ spansMade
Next ==
  /\ UNCHANGED part
  /\ \/ part = "shared" /\ SharedNext /\ UNCHANGED costVars
     \/ part = "cost" /\ CostNext /\ UNCHANGED sharedVars
Spec == Init /\ [][Next]_<<sharedVars, costVars, part>>

\* r1 and r2 are the requests or the processes, as the part has it.
Symmetry == Permutations({r1, r2}) \cup Permutations(RequestIds)

\* The variables of both keep their types: the recorder's queue stays within its
\* size, the breakers' counters within their threshold, and no sum is negative
\* (proxy/decision_router.py, cost/attribution.py).
SharedCostTypeOK == IF part = "shared" THEN SharedTypeOK ELSE CostTypeOK
=============================================================================
