------------------------- MODULE MCCircuitBreaker -------------------------
(***************************************************************************)
(* Model values for CircuitBreaker: three callers, so that an old call, a  *)
(* probe and a newcomer can coexist; threshold 2, so that one failure is   *)
(* not enough; a recovery time of two ticks.                               *)
(***************************************************************************)
EXTENDS CircuitBreaker, TLC

CONSTANTS c1, c2, c3

MCCallers == {c1, c2, c3}
AllOutcomes == {"success", "failure", "unrecorded"}
=============================================================================
