SPECIFICATION Spec
CONSTANTS
  t1 = t1
  none = none
  r1 = r1
  r2 = r2
  c1 = c1
  Callers = {r1, r2}
  Tenants = {t1}
  NoTenant = none
  N = 2
  MaxAttempts = 2
  TTL = 1
  MaxEvents = 1
  RedisMayFail = TRUE
  MaxKeys = 1
  MaxTime = 2
  MaxCount = 5
  Calls = {c1}
  Inputs <- MCInputs
  Outputs <- MCOutputs
  NoText = NoText
  Redacted = Redacted
  Digest = Digest
SYMMETRY Symmetry
INVARIANTS
  GuardrailTypeOK
  VaultSafe
  
  
CHECK_DEADLOCK FALSE
