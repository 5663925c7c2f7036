SPECIFICATION ScheduleSpec
CONSTANTS
  k1 = k1
  JobList <- MCJobs
  Fields <- MCFields
  Retrying = {"migrate"}
  Unwrapped = {"golden", "export"}
  Broken = {"cold"}
  MigrationAttempts = 2
  RetryMinutes = 2
  MinutesPerHour = 4
  HoursPerDay = 2
  DaysPerMonth = 3
  DaysPerWeek = 2
  Period = 48
  LongestRun = 2
  Traces = {1, 2, 3, 4, 5}
  Day <- MCDay
  MaxRows = 2
  CatalogKeys = {k1}
  Flushers = {"worker", "caller"}
  HotDays = 0
  WarmDays = 1
  MaxRecorded = 2
  MaxDoubtful = 2
  MaxDay = 2
  h1 = h1
  h2 = h2
  f1 = f1
  f2 = f2
  SloCount = 2
  SloTarget <- MCTarget
  SloBias <- MCBias
  SloPairs <- MCPairs
  SloWindows <- MCWindows
  SloReadings <- MCReadings
  FlagTTL = 2
  SloRefreshes = 2
  TsHandlers = {h1, h2}
  TsBatches <- MCBatches
  TsBucket <- MCBucket
  TsRetries = 1
  TsTicks = 1
  FbCalls = {f1, f2}
  FbTTL = 1
  FbTicks = 3
  FbReports = 2
  LfBatches = 4
  LfEvents <- MCEvents
  MaxEventSpans = 2
  LfMaxRetries = 2
  PendingCap = 1
  LfThreshold = 1
  HpTargets = {"langfuse", "ch", "redis"}
  HpRaising = {"ch"}
  HpCycles = 3
  p1 = p1
  p2 = p2
  q1 = q1
  q2 = q2
  g1 = g1
  g2 = g2
  MaxScan = 1
  ScanMost = 2
  AtDatabase = "safe"
  AtAnswers <- MCAnswers
  ApUsers = {"ana"}
  ApRows = {"none", "sre", "root"}
  ApRequests <- MCRequests
  ApChecks = {p1, p2}
  ApTTL = 1
  ApTicks = 2
  ApLoads = 2
  ApGrants = 1
  EsSpans = 3
  EsQueueMax = 2
  EsBatchMax = 2
  EsWindow = 0
  EsTicks = 1
  DfAgents = {g1, g2}
  DfCals = {q1, q2}
  DfScores = {0, 2}
  DfMinSamples = 2
  DfWindow = 1
  DfRuns = 2
  DfDays = 1
  DfStarts = 2
PROPERTY EveryJobRuns
CHECK_DEADLOCK FALSE
