SPECIFICATION Spec
CONSTANTS
  c1 = c1
  c2 = c2
  r1 = r1
  r2 = r2
  a1 = a1
  a2 = a2
  EvalCalls = {c1, c2}
  EvalBudget = 2
  CostTTL = 1
  DayLen = 2
  RateLimit = 1
  EvalBuckets = {10}
  EvalTicks = 2
  EvalSpendMax = 2
  EvalFlips = 2
  Evals = {1, 2}
  JudgeMetrics = {"faith", "complete"}
  EvalOf <- MCEvalOf
  JudgeFlips = 2
  DdRequests = {r1, r2}
  DdQueries <- MCQueries
  RoleOf <- MCRoleOf
  Annotators = {a1, a2}
  DdRateLimit = 1
  DdFlips = 1
  TreeSpans = 4
  MaxSubtreeSize = 1
  MaxEmbeddedSize = 2
  TreePasses = 2
SYMMETRY Symmetry
INVARIANTS
  EvaluationTypeOK
  EvalReadingsConsistent
  
  
  
CHECK_DEADLOCK FALSE
