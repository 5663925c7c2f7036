----------------------------- MODULE MCGuardrail -----------------------------
(***************************************************************************)
(* The guardrail and its vault.  A behaviour is one of two kinds: guarded  *)
(* calls fill the vault while its addresses fail and come back, or         *)
(* engineers recover from it while secrets are stored and expire.          *)
(***************************************************************************)
EXTENDS GuardedCall, TLC

CONSTANTS t1, none, r1, r2, c1

VARIABLE side

MCInputs == {NoText, [pii |-> "before", score |-> "benign"],
             [pii |-> "across", score |-> "injection"]}
MCOutputs == {NoText, [pii |-> "after", score |-> "suspicious"]}
Symmetry == Permutations(Callers)

Init == VaultInit /\ GuardInit /\ side \in {"calls", "recoveries"}
Next == /\ UNCHANGED side
        /\ \/ side = "recoveries" /\ VaultNext /\ UNCHANGED guardVars
           \/ side = "calls" /\ GuardNext
           \/ side = "calls" /\ AddrsNext /\ UNCHANGED guardVars
Spec == Init /\ [][Next]_<<vaultVars, guardVars, side>>
=============================================================================
