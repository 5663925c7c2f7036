---------------------------- MODULE MCLLMProxy ----------------------------
(***************************************************************************)
(* Model values for LLMProxy: two tasks, each serving request after        *)
(* request, so that a stale call meets a probe at the breaker and two      *)
(* calls pass the budget gate together; 5 is the smallest budget at which  *)
(* the 80 % mark and the full budget refuse different requests.            *)
(***************************************************************************)
EXTENDS LLMProxy, TLC

CONSTANTS r1, r2, b1, empty

TwoRequests == {r1, r2}
OneBody == {b1}
=============================================================================
