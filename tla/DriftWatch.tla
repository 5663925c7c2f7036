----------------------------- MODULE DriftWatch -----------------------------
(***************************************************************************)
(* Drift detection (drift/detector.py, drift/threshold.py) and the monthly *)
(* calibration (scripts/cron/calibrate_drift_threshold.py).  They meet in  *)
(* the threshold file: the detector reads it through a cache keyed by its  *)
(* modification time, a calibration reads it, awaits its queries, and      *)
(* replaces it.  Two calibrations may overlap: the scheduled one and one   *)
(* started by hand.                                                        *)
(***************************************************************************)
EXTENDS Integers, FiniteSets, SequencesExt

CONSTANTS
  DfAgents,       \* agents
  DfCals,         \* calibrations that may overlap
  DfScores,       \* KL scores, in tenths
  DfMinSamples,   \* MIN_SAMPLES_FOR_CALIBRATION
  DfWindow,       \* DEFAULT_HISTORY_WINDOW_DAYS
  DfRuns,         \* bound: runs of the detector
  DfDays,         \* bound: days
  DfStarts        \* bound: calibrations started

ASSUME DriftAssumption ==
  /\ {DfMinSamples, DfWindow, DfRuns, DfDays, DfStarts} \subseteq Nat /\ DfMinSamples > 0
  /\ DfScores \subseteq Nat

VARIABLES
  dfFile,      \* the threshold file: modification time and entries
  dfCache,     \* ThresholdStore: the modification time and the entries it holds, and the
               \* version of the file they are from
  dfDetector,  \* the detector's run: pc, agent, the mtime it read, the threshold it
               \* applies and the version of the file that is from
  dfHistory,   \* drift_history: scored runs
  dfCal,       \* per calibration: pc, agents left and calibrated, what it will save,
               \* and the version of the file it read
  dfSave,      \* about the last save: the entries it changed without calibrating them, and why it may
  dfAwaits,    \* whether the store's query can be awaited (HotStore's cannot)
  dfClock      \* day, and what is left of runs and starts

driftVars == <<dfFile, dfCache, dfDetector, dfHistory, dfCal, dfSave, dfAwaits, dfClock>>

\* Thresholds are in thousandths; DEFAULT_KL_THRESHOLD is 0.1.
DefaultThreshold == 100
NoEntry == [in |-> FALSE, value |-> DefaultThreshold, calibrated |-> FALSE]
NoEntries == [a \in DfAgents |-> NoEntry]

NoRun == [pc |-> "idle", agent |-> "none", seen |-> 0, threshold |-> DefaultThreshold, gen |-> -1]
NoCal == [pc |-> "idle", todo |-> {}, done |-> {}, merged |-> NoEntries, read |-> 0]

DriftInit ==
  /\ dfFile = [mtime |-> 0, map |-> NoEntries]
  /\ dfCache = [mtime |-> -1, map |-> NoEntries, gen |-> -1]
  /\ dfDetector = NoRun
  /\ dfHistory = <<>>
  /\ dfCal = [k \in DfCals |-> NoCal]
  /\ dfSave = [changed |-> {}, blind |-> FALSE, raced |-> FALSE]
  /\ dfAwaits \in BOOLEAN
  /\ dfClock = [day |-> 0, runs |-> DfRuns, starts |-> DfStarts]

\* load_thresholds(): a file that cannot be read or parsed is no entries at all.
Loads(readable) == IF readable THEN dfFile.map ELSE NoEntries

-----------------------------------------------------------------------------
Stale == dfFile.mtime # dfCache.mtime \/ dfCache.map = NoEntries

\* run_once(): effective_threshold() compares the file's mtime with the cached one.
DetectorStats(a) ==
  /\ dfDetector.pc = "idle" /\ dfClock.runs > 0
  /\ dfDetector' = [pc |-> IF Stale THEN "loads" ELSE "scores", agent |-> a, seen |-> dfFile.mtime,
                    threshold |-> IF Stale THEN DefaultThreshold ELSE dfCache.map[a].value, gen |-> dfCache.gen]
  /\ dfClock' = [dfClock EXCEPT !.runs = @ - 1]
  /\ UNCHANGED <<dfFile, dfCache, dfHistory, dfCal, dfSave, dfAwaits>>

\* _ensure_loaded(): the file, which may have been replaced meanwhile, is kept
\* under the mtime read before.
DetectorLoads(readable) ==
  /\ dfDetector.pc = "loads"
  /\ dfCache' = [mtime |-> dfDetector.seen, map |-> Loads(readable), gen |-> dfFile.mtime]
  /\ dfDetector' = [dfDetector EXCEPT !.pc = "scores", !.threshold = Loads(readable)[dfDetector.agent].value,
                                      !.gen = dfFile.mtime]
  /\ UNCHANGED <<dfFile, dfHistory, dfCal, dfSave, dfAwaits, dfClock>>

\* The embeddings of both windows: none when the query raises, as it does when its
\* answer cannot be awaited.
WindowsRead == dfAwaits

\* Too few embeddings, or an exception: the run leaves no history.
DetectorSkips ==
  /\ dfDetector.pc = "scores"
  /\ dfDetector' = NoRun
  /\ UNCHANGED <<dfFile, dfCache, dfHistory, dfCal, dfSave, dfAwaits, dfClock>>

\* A scored run is written to drift_history; a failed write is logged only.
DetectorScores(kl) ==
  /\ dfDetector.pc = "scores" /\ WindowsRead
  /\ dfHistory' = Append(dfHistory, [agent |-> dfDetector.agent, kl |-> kl, day |-> dfClock.day,
                                     drift |-> 100 * kl > dfDetector.threshold])
  /\ dfDetector' = NoRun
  /\ UNCHANGED <<dfFile, dfCache, dfCal, dfSave, dfAwaits, dfClock>>

DriftDay ==
  /\ dfClock.day < DfDays
  /\ dfClock' = [dfClock EXCEPT !.day = @ + 1]
  /\ UNCHANGED <<dfFile, dfCache, dfDetector, dfHistory, dfCal, dfSave, dfAwaits>>

-----------------------------------------------------------------------------
\* The k-th smallest of the scores f, as often as it occurs.
Ranked(f, k) == Min({v \in Range(f) : Cardinality({i \in DOMAIN f : f[i] <= v}) >= k})

\* compute_p99(): linear interpolation between the two scores around the rank.
Percentile99(f) ==
  LET rank == 99 * (Cardinality(DOMAIN f) - 1)
      low == rank \div 100
      part == rank % 100
  IN Ranked(f, low + 1) * (100 - part) + (IF part = 0 THEN 0 ELSE Ranked(f, low + 2) * part)

\* The agent's scored runs of the window, drift included (_KL_HISTORY_QUERY).
Samples(a) == {i \in DOMAIN dfHistory : dfHistory[i].agent = a /\ dfHistory[i].day >= dfClock.day - DfWindow}
KlOf(runs) == [i \in runs |-> dfHistory[i].kl]
SpanDays(runs) ==
  LET days == {dfHistory[i].day : i \in runs} IN IF Cardinality(runs) < 2 THEN 0 ELSE Max(days) - Min(days)

\* calibrate_agent(): too few samples, or too short a history, is no calibration.
Enough(a) == Cardinality(Samples(a)) >= DfMinSamples /\ 100 * SpanDays(Samples(a)) >= 95 * DfWindow

\* A plausible slip: the new file starts empty.
MergedStartsEmpty(current) == NoEntries
MergedStarts(current) == current

\* calibrate_all(): load the file; the agents are those named, or those the history
\* knows.  (If that query cannot be awaited, or fails, the run ends here.)
CalBegins(k, agents, readable) ==
  /\ dfCal[k].pc = "idle" /\ dfClock.starts > 0
  /\ dfCal' = [dfCal EXCEPT ![k] =
       [pc |-> "queries", todo |-> agents, done |-> {},
        merged |-> MergedStarts(Loads(readable)), read |-> IF readable THEN dfFile.mtime ELSE -1]]
  /\ dfClock' = [dfClock EXCEPT !.starts = @ - 1]
  /\ UNCHANGED <<dfFile, dfCache, dfDetector, dfHistory, dfSave, dfAwaits>>

Calibrated(c, a, p99) ==
  [c EXCEPT !.todo = @ \ {a}, !.done = @ \cup {a}, !.merged[a] = [in |-> TRUE, value |-> p99, calibrated |-> TRUE]]

\* One agent calibrated: the percentile of its samples.
CalAgent(k, a) ==
  /\ dfCal[k].pc = "queries" /\ a \in dfCal[k].todo /\ dfAwaits /\ Enough(a)
  /\ dfCal' = [dfCal EXCEPT ![k] = Calibrated(@, a, Percentile99(KlOf(Samples(a))))]
  /\ UNCHANGED <<dfFile, dfCache, dfDetector, dfHistory, dfSave, dfAwaits, dfClock>>

KeptEntry(entry) == [entry EXCEPT !.in = TRUE]
NotCalibrated(c, a) == [c EXCEPT !.todo = @ \ {a}, !.merged[a] = KeptEntry(@)]

\* One agent not calibrated (a failed query, no data, not enough): what is in force is kept.
CalAgentSkips(k, a) ==
  /\ dfCal[k].pc = "queries" /\ a \in dfCal[k].todo
  /\ dfCal' = [dfCal EXCEPT ![k] = NotCalibrated(@, a)]
  /\ UNCHANGED <<dfFile, dfCache, dfDetector, dfHistory, dfSave, dfAwaits, dfClock>>

\* save_thresholds(): a temporary file replaces the old one at once.
CalSaves(k) ==
  /\ dfCal[k].pc = "queries" /\ dfCal[k].todo = {}
  /\ dfFile' = [mtime |-> dfFile.mtime + 1, map |-> dfCal[k].merged]
  /\ dfSave' = [changed |-> {a \in DfAgents \ dfCal[k].done :
                               dfFile.map[a].in /\ dfCal[k].merged[a] # dfFile.map[a]},
                blind |-> dfCal[k].read = -1, raced |-> dfCal[k].read # dfFile.mtime]
  /\ dfCal' = [dfCal EXCEPT ![k] = NoCal]
  /\ UNCHANGED <<dfCache, dfDetector, dfHistory, dfAwaits, dfClock>>

\* A dry run, or a save that fails, leaves the file as it was.
CalEnds(k) ==
  /\ dfCal[k].pc = "queries" /\ dfCal[k].todo = {}
  /\ dfCal' = [dfCal EXCEPT ![k] = NoCal]
  /\ UNCHANGED <<dfFile, dfCache, dfDetector, dfHistory, dfSave, dfAwaits, dfClock>>

DriftNext ==
  \/ \E a \in DfAgents : DetectorStats(a)
  \/ \E readable \in BOOLEAN : DetectorLoads(readable)
  \/ DetectorSkips \/ (\E kl \in DfScores : DetectorScores(kl)) \/ DriftDay
  \/ \E k \in DfCals, agents \in SUBSET DfAgents, readable \in BOOLEAN : CalBegins(k, agents, readable)
  \/ \E k \in DfCals, a \in DfAgents : CalAgent(k, a) \/ CalAgentSkips(k, a)
  \/ \E k \in DfCals : CalSaves(k) \/ CalEnds(k)

DriftSpec == DriftInit /\ [][DriftNext]_driftVars

-----------------------------------------------------------------------------
DriftTypeOK ==
  /\ dfDetector.pc \in {"idle", "loads", "scores"} /\ dfDetector.agent \in DfAgents \cup {"none"}
  /\ \A k \in DfCals : dfCal[k].pc \in {"idle", "queries"} /\ dfCal[k].todo \subseteq DfAgents
  /\ \A a \in DfAgents : dfFile.map[a].value \in Nat

\* A run applies a threshold of the file as it was when the run began, or later:
\* a calibration that was saved takes effect with the next run
\* (ThresholdStore._ensure_loaded, run_once).
ThresholdFresh == dfDetector.pc = "scores" => dfDetector.gen >= dfDetector.seen

\* A save changes or drops the entry of an agent it did not calibrate only if it
\* could not read the file when it began, or another save came between
\* (calibrate_all, load_thresholds, save_thresholds).
ThresholdsKept == dfSave.changed # {} => dfSave.blind \/ dfSave.raced

\* The percentile of any history is one: of n scores fewer than (n + 99) / 100 lie
\* above it, and it is at most the largest (compute_p99).
PercentileRight == dfHistory # <<>> =>
  LET kls == KlOf(DOMAIN dfHistory)
      p99 == Percentile99(kls)
  IN /\ 100 * Cardinality({i \in DOMAIN kls : 100 * kls[i] > p99}) < Len(dfHistory) + 99
     /\ \E i \in DOMAIN kls : p99 <= 100 * kls[i]

\* Drift: a saved calibration takes effect, a save loses nobody's threshold without a
\* reason, and the percentile is one (drift/threshold.py, calibrate_drift_threshold.py).
DriftSafe == ThresholdFresh /\ ThresholdsKept /\ PercentileRight
=============================================================================
