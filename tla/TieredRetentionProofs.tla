----------------------- MODULE TieredRetentionProofs -----------------------
(***************************************************************************)
(* The daily eval job loses no row, for any number of runners, any         *)
(* retention, TTL and batch size, and whatever call fails: what is deleted *)
(* was shipped, and Postgres forgets nothing.  In a deployment that is     *)
(* provisioned for what it receives no row is dropped unshipped, and the   *)
(* audit job of one runner never leaves an event in two objects.           *)
(***************************************************************************)
EXTENDS MCTieredRetention, FiniteFacts

\* A runner about to delete has shipped what it will delete; with Kept this
\* is inductive, because an upsert only ever adds to the archive.
ShippedFirst ==
    \A u \in Runners : pc[u] = "delete" => batch[u] \subseteq Archived

Typed ==
    /\ archive \in [Keys -> SUBSET Rows]
    /\ hot \subseteq Rows
    /\ pc \in [Runners -> {"idle", "read", "ship", "delete"}]
    /\ batch \in [Runners -> SUBSET Rows]

IInv == Typed /\ Kept /\ ShippedFirst

\* The upsert of insert_eval_results keeps every row and adds the batch.
LEMMA UpsertAdds ==
    ASSUME Job = "eval", Typed,
           NEW u \in Runners, archive' = Shipped(u)
    PROVE  /\ archive' \in [Keys -> SUBSET Rows]
           /\ Archived \subseteq Archived'
           /\ batch[u] \subseteq Archived'
<1>1. 0 \in Keys
  BY RetentionAssumption DEF Keys
<1>2. archive' = [archive EXCEPT ![0] = archive[0] \union batch[u]]
  BY <1>1 DEF Shipped, Typed
<1>3. archive' \in [Keys -> SUBSET Rows]
  BY <1>1, <1>2 DEF Typed
<1>4. \A k \in Keys : archive[k] \subseteq archive'[k]
  BY <1>1, <1>2 DEF Typed
<1>5. batch[u] \subseteq archive'[0]
  BY <1>1, <1>2 DEF Typed
<1>6. Archived \subseteq Archived'
  <2>1. ASSUME NEW x \in Archived PROVE x \in Archived'
    <3>1. PICK k \in Keys : x \in archive[k]
      BY <2>1 DEF Archived
    <3>2. x \in archive'[k]
      BY <3>1, <1>4
    <3>3. QED
      BY <3>1, <3>2 DEF Archived
  <2>2. QED
    BY <2>1
<1>7. batch[u] \subseteq Archived'
  BY <1>1, <1>5 DEF Archived
<1>8. QED
  BY <1>3, <1>6, <1>7

\* The first state has nothing to lose.
LEMMA InitIInv == ASSUME Init PROVE IInv
  BY DEF Init, IInv, Typed, Kept, ShippedFirst

\* Every step of the jobs, of ClickHouse and of time keeps IInv.
LEMMA StepIInv ==
    ASSUME Job = "eval", IInv, [Next]_vars
    PROVE  IInv'
<1> USE DEF IInv
<1> SUFFICES ASSUME Next PROVE IInv'
  <2>1. CASE UNCHANGED vars
    BY <2>1 DEF vars, run, Typed, Kept, ShippedFirst, Archived
  <2>2. QED
    BY <2>1
<1>1. ASSUME NEW u \in Runners, Begin(u) PROVE IInv'
  BY <1>1 DEF Begin, Goto, Typed, Kept, ShippedFirst, Archived
<1>2. ASSUME NEW u \in Runners, Read(u) PROVE IInv'
  BY <1>2 DEF Read, Goto, Oldest, Expired, Typed, Kept, ShippedFirst, Archived
<1>3. ASSUME NEW u \in Runners, ReadNothing(u) PROVE IInv'
  BY <1>3 DEF ReadNothing, End, Goto, Typed, Kept, ShippedFirst, Archived
<1>4. ASSUME NEW u \in Runners, QueryFails(u) PROVE IInv'
  BY <1>4 DEF QueryFails, End, Goto, Typed, Kept, ShippedFirst, Archived
<1>5. ASSUME NEW u \in Runners, Ship(u) PROVE IInv'
  <2>1. /\ archive' \in [Keys -> SUBSET Rows]
        /\ Archived \subseteq Archived'
        /\ batch[u] \subseteq Archived'
    BY <1>5, UpsertAdds DEF Ship
  <2>2. Typed'
    BY <1>5, <2>1 DEF Ship, Goto, Typed
  <2>3. Kept'
    BY <1>5, <2>1 DEF Ship, Kept
  <2>4. ShippedFirst'
    <3>1. ASSUME NEW v \in Runners, pc'[v] = "delete" PROVE batch'[v] \subseteq Archived'
      <4>1. CASE v = u
        BY <1>5, <2>1, <4>1 DEF Ship
      <4>2. CASE v # u
        <5>1. pc[v] = "delete"
          BY <1>5, <3>1, <4>2 DEF Ship, Goto, Typed
        <5>2. QED
          BY <1>5, <2>1, <5>1 DEF Ship, ShippedFirst
      <4>3. QED
        BY <4>1, <4>2
    <3>2. QED
      BY <3>1 DEF ShippedFirst
  <2>5. QED
    BY <2>2, <2>3, <2>4
<1>6. ASSUME NEW u \in Runners, ShipFails(u) PROVE IInv'
  BY <1>6 DEF ShipFails, End, Goto, Typed, Kept, ShippedFirst, Archived
<1>7. ASSUME NEW u \in Runners, Delete(u) PROVE IInv'
  <2>1. Archived' = Archived
    BY <1>7 DEF Delete, Archived
  <2>2. pc[u] = "delete" /\ (pc' = [pc EXCEPT ![u] = "read"] \/ pc' = [pc EXCEPT ![u] = "idle"])
    BY <1>7 DEF Delete, End, Goto
  <2>3. Typed'
    BY <1>7, <2>2 DEF Delete, Typed
  <2>4. Kept'
    BY <1>7, <2>1, <2>2 DEF Delete, Kept, ShippedFirst
  <2>5. ShippedFirst'
    BY <1>7, <2>1, <2>2 DEF Delete, ShippedFirst, Typed
  <2>6. QED
    BY <2>3, <2>4, <2>5
<1>8. ASSUME NEW u \in Runners, Crash(u) PROVE IInv'
  BY <1>8 DEF Crash, Typed, Kept, ShippedFirst, Archived
<1>9. ASSUME NEW r \in Rows, Insert(r) PROVE IInv'
  BY <1>9 DEF Insert, run, Typed, Kept, ShippedFirst, Archived
<1>10. ASSUME NEW r \in Rows, Drop(r) PROVE IInv'
  <2>1. Archived' = Archived
    BY <1>10 DEF Drop, Archived
  <2>2. QED
    BY <1>10, <2>1 DEF Drop, run, Typed, Kept, ShippedFirst
<1>11. ASSUME Tick PROVE IInv'
  BY <1>11 DEF Tick, run, Typed, Kept, ShippedFirst, Archived
<1>12. QED
  BY <1>1, <1>2, <1>3, <1>4, <1>5, <1>6, <1>7, <1>8, <1>9, <1>10, <1>11 DEF Next, Step

\* migrate_eval_results_to_warm: no eval result is lost by a failed upsert, a
\* failed delete, a crash or a second process that runs the same job.
THEOREM EvalResultsKept ==
    ASSUME Job = "eval"
    PROVE  Spec => []Kept
<1>1. Init => IInv
  BY InitIInv
<1>2. IInv /\ [Next]_vars => IInv'
  BY StepIInv
<1>3. IInv => Kept
  BY DEF IInv
<1>4. QED
  BY <1>1, <1>2, <1>3, PTL DEF Spec

\* The same of the runs' specification, in which the eval job of any number of
\* runners stands beside an audit job: what the run checks of a small instance.
THEOREM EvalRunsKeep ==
    ASSUME Job = "eval"
    PROVE  MCSpec => []EvalKept
<1> DEFINE PartInv == part = "job" => IInv
<1>1. MCInit => PartInv
  BY InitIInv, Zenon DEF MCInit
<1>2. PartInv /\ [MCNext]_<<vars, part>> => PartInv'
  <2>1. ASSUME PartInv, [MCNext]_<<vars, part>>, part' = "job"
        PROVE  IInv'
    <3>1. part = "job" /\ [Next]_vars
      BY <2>1, Zenon DEF MCNext
    <3>2. QED
      BY <2>1, <3>1, StepIInv
  <2>2. QED
    BY <2>1
<1>3. PartInv => EvalKept
  BY DEF IInv, EvalKept
<1>4. QED
  BY <1>1, <1>2, <1>3, PTL DEF MCSpec
-----------------------------------------------------------------------------
(* Types.  A run counts an error only when it ends, and reads on only while   *)
(* batches are left.                                                          *)

RetTyped ==
    /\ TypeOK
    /\ \A u \in Runners : pc[u] # "idle" => errors[u] = 0 /\ batches[u] < MaxBatches

\* A runner's pc changes, and what belongs to it with it.
LEMMA RunnerTyped ==
    ASSUME RetTyped, NEW u \in Runners, Step(u)
    PROVE  RetTyped'
<1>. USE RetentionAssumption DEF RetTyped
<1>1. CASE Begin(u)
  <2>1. now - Retention \in -Retention .. MaxTime
    BY DEF TypeOK
  <2>2. TypeOK'
    BY <1>1, <2>1 DEF Begin, Goto, TypeOK
  <2>. QED  BY <1>1, <2>2 DEF Begin, Goto, TypeOK
<1>2. CASE Read(u)
  <2>1. Oldest(Expired(u)) \in SUBSET Rows
    BY DEF Oldest, Expired, TypeOK
  <2>2. TypeOK'
    BY <1>2, <2>1 DEF Read, Goto, TypeOK
  <2>. QED  BY <1>2, <2>2 DEF Read, Goto, TypeOK
<1>3. CASE ReadNothing(u) \/ QueryFails(u) \/ Crash(u)
  <2>1. /\ \E r \in {"none", "success", "failure"} : report' = [report EXCEPT ![u] = r]
        /\ pc' = [pc EXCEPT ![u] = "idle"] /\ clean' \in {"no", "yes"}
        /\ UNCHANGED <<now, hot, archive, lastRun, cutoff, batch, batches, errors, stored, dropped>>
    BY <1>3 DEF ReadNothing, QueryFails, Crash, End, Goto, TypeOK
  <2>2. TypeOK'
    BY <2>1 DEF TypeOK
  <2>. QED  BY <2>1, <2>2 DEF TypeOK
<1>4. CASE Ship(u)
  <2>1. archive' \in [Keys -> SUBSET Rows]
    <3>1. Shipped(u) = [archive EXCEPT ![ObjectKey(u)] = batch[u]] \/ Shipped(u) = [archive EXCEPT ![0] = archive[0] \union batch[u]]
      BY DEF Shipped
    <3>2. batch[u] \in SUBSET Rows /\ archive \in [Keys -> SUBSET Rows] /\ 0 \in Keys
      BY DEF TypeOK, Keys
    <3>3. archive[0] \union batch[u] \in SUBSET Rows
      BY <3>2
    <3>4. \A k, b : b \in SUBSET Rows => [archive EXCEPT ![k] = b] \in [Keys -> SUBSET Rows]
      BY <3>2
    <3>. QED  BY <1>4, <3>1, <3>2, <3>3, <3>4 DEF Ship
  <2>2. TypeOK'
    BY <1>4, <2>1 DEF Ship, Goto, TypeOK
  <2>. QED  BY <1>4, <2>2 DEF Ship, Goto, TypeOK
<1>5. CASE ShipFails(u)
  <2>1. /\ pc[u] = "ship" /\ pc' = [pc EXCEPT ![u] = "idle"] /\ report' = [report EXCEPT ![u] = "success"]
        /\ errors' = [errors EXCEPT ![u] = 1] /\ clean' \in {"no", "yes"}
        /\ UNCHANGED <<now, hot, archive, lastRun, cutoff, batch, batches, stored, dropped>>
    <3>1. pc[u] = "ship" /\ errors' = [errors EXCEPT ![u] = errors[u] + 1]
      BY <1>5 DEF ShipFails, End, Goto
    <3>2. errors[u] + 1 = 1
      BY <3>1
    <3>. QED  BY <1>5, <3>1, <3>2 DEF ShipFails, End, Goto, TypeOK
  <2>2. TypeOK'
    BY <2>1 DEF TypeOK
  <2>. QED  BY <2>1, <2>2 DEF TypeOK
<1>6. CASE Delete(u)
  <2>1. /\ pc[u] = "delete" /\ hot' = hot \ batch[u]
        /\ batches' = [batches EXCEPT ![u] = batches[u] + 1]
        /\ \/ More(u) /\ pc' = [pc EXCEPT ![u] = "read"] /\ report' = report
           \/ pc' = [pc EXCEPT ![u] = "idle"] /\ report' = [report EXCEPT ![u] = "success"]
        /\ UNCHANGED <<now, archive, lastRun, cutoff, batch, errors, stored, dropped, clean>>
    BY <1>6 DEF Delete, End, Goto
  <2>2. batches[u] + 1 \in 0 .. MaxBatches
    BY <2>1 DEF TypeOK
  <2>3. TypeOK'
    BY <2>1, <2>2 DEF TypeOK
  <2>. QED  BY <2>1, <2>2, <2>3 DEF TypeOK, More
<1>. QED  BY <1>1, <1>2, <1>3, <1>4, <1>5, <1>6 DEF Step

LEMMA RetTypedInitially == Init => RetTyped
BY RetentionAssumption DEF Init, RetTyped, TypeOK

LEMMA RetTypedStep == RetTyped /\ [Next]_vars => RetTyped'
<1>. SUFFICES ASSUME RetTyped, [Next]_vars
              PROVE  RetTyped'
  OBVIOUS
<1>1. ASSUME NEW r \in Rows, Insert(r) \/ Drop(r) PROVE RetTyped'
  BY <1>1 DEF Insert, Drop, run, RetTyped, TypeOK
<1>2. CASE Tick
  BY <1>2, RetentionAssumption DEF Tick, run, RetTyped, TypeOK
<1>3. CASE UNCHANGED vars
  BY <1>3 DEF vars, run, RetTyped, TypeOK
<1>. QED  BY <1>1, <1>2, <1>3, RunnerTyped DEF Next

\* The variables of the daily jobs keep their types, for every job, number of runners
\* and constants: a run never counts two errors, nor more batches than it may take.
THEOREM RetentionTyped == Spec => []TypeOK
<1>1. RetTyped => TypeOK
  BY DEF RetTyped
<1>. QED  BY <1>1, RetTypedInitially, RetTypedStep, PTL DEF Spec
-----------------------------------------------------------------------------
(* On time.  That no row is dropped unshipped needs to know how old the rows  *)
(* in ClickHouse can be.  When all runs have ended, nothing is left that was  *)
(* past the window when the last one began; while one is under way, what is   *)
(* left is no more than the batches it may still take.                        *)

\* ORDER BY timestamp LIMIT batch_size: the head of the rows, a full batch of it or
\* all there is.
LEMMA OldestOf ==
    ASSUME NEW S \in SUBSET Rows
    PROVE  /\ Oldest(S) \subseteq S /\ IsFiniteSet(S) /\ IsFiniteSet(Oldest(S))
           /\ \A r \in Oldest(S), s \in S : s <= r => s \in Oldest(S)
           /\ S # {} => Oldest(S) # {} /\ Min(S) \in Oldest(S)
           /\ Oldest(S) = S \/ Cardinality(Oldest(S)) = BatchSize
           /\ Cardinality(Oldest(S)) <= BatchSize
<1>. DEFINE o == Oldest(S)
            Below(r) == {s \in S : s < r}
<1>1. S \subseteq Nat /\ IsFiniteSet(S)
  <2>1. IsFiniteSet(Rows) /\ Rows \subseteq Nat
    BY RetentionAssumption, FS_Interval DEF Rows
  <2>. QED  BY <2>1, FS_Subset
<1>2. o = {r \in S : Cardinality(Below(r)) < BatchSize}
  BY DEF Oldest
<1>. HIDE DEF o
<1>3. o \subseteq S /\ IsFiniteSet(o)
  BY <1>1, <1>2, FS_Subset
<1>0. \A r, t : t \in Below(r) <=> t \in S /\ t < r
  OBVIOUS
<1>. HIDE DEF Below
<1>4. ASSUME NEW r \in S PROVE IsFiniteSet(Below(r)) /\ Cardinality(Below(r)) \in Nat
  <2>1. Below(r) \subseteq S
    BY <1>0
  <2>. QED  BY <1>1, <2>1, FS_Subset, FS_CardinalityType
<1>5. ASSUME NEW r \in o, NEW s \in S, s <= r PROVE s \in o
  <2>0. r \in Nat /\ s \in Nat /\ r \in S
    BY <1>1, <1>3
  <2>1. Below(s) \subseteq Below(r)
    <3>1. ASSUME NEW t \in Below(s) PROVE t \in Below(r)
      <4>1. t \in S /\ t \in Nat /\ t < s
        BY <1>0, <1>1
      <4>2. t < r
        BY <1>5, <2>0, <4>1
      <4>. QED  BY <1>0, <4>1, <4>2
    <3>. QED  BY <3>1
  <2>2. Cardinality(Below(s)) <= Cardinality(Below(r))
    BY <1>4, <2>0, <2>1, FS_Subset
  <2>3. Cardinality(Below(r)) < BatchSize
    BY <1>2
  <2>4. Cardinality(Below(s)) < BatchSize
    BY <1>4, <2>0, <2>2, <2>3, RetentionAssumption
  <2>. QED  BY <1>2, <2>4
<1>6. ASSUME S # {} PROVE Min(S) \in o
  <2>1. Min(S) \in S /\ \A e \in S : Min(S) <= e
    BY <1>1, <1>6, MinIsLeast
  <2>2. Below(Min(S)) = {}
    <3>1. ASSUME NEW t \in Below(Min(S)) PROVE FALSE
      <4>1. t \in S /\ t \in Nat /\ t < Min(S) /\ Min(S) \in Nat /\ Min(S) <= t
        BY <1>0, <1>1, <2>1
      <4>. QED  BY <4>1
    <3>. QED  BY <3>1
  <2>3. Cardinality(Below(Min(S))) = 0
    BY <2>2, FS_EmptySet
  <2>. QED  BY <1>2, <2>1, <2>3, RetentionAssumption
<1>7. Cardinality(o) <= BatchSize
  <2>1. CASE o = {}
    BY <2>1, FS_EmptySet, RetentionAssumption
  <2>2. CASE o # {}
    <3>1. PICK b \in Nat : \A t \in o : t <= b
      BY <1>3, RetentionAssumption DEF Rows
    <3>2. o \in SUBSET Nat
      BY <1>1, <1>3
    <3>3. Max(o) \in o /\ \A t \in o : t <= Max(o)
      BY <2>2, <3>1, <3>2, MaxIsGreatest
    <3>. DEFINE x == Max(o)
    <3>. HIDE DEF x
    <3>4. x \in o /\ \A t \in o : t <= x
      BY <3>3 DEF x
    <3>5. Below(x) = o \ {x}
      <4>0. x \in Nat /\ x \in S
        BY <1>1, <1>3, <3>4
      <4>1. ASSUME NEW t \in Below(x) PROVE t \in o \ {x}
        <5>1. t \in S /\ t \in Nat /\ t < x
          BY <1>0, <1>1
        <5>2. t <= x /\ t # x
          BY <4>0, <5>1
        <5>. QED  BY <1>5, <3>4, <5>1, <5>2
      <4>2. ASSUME NEW t \in o \ {x} PROVE t \in Below(x)
        <5>1. t \in S /\ t \in Nat /\ t <= x /\ t # x
          BY <1>1, <1>3, <3>4
        <5>2. t < x
          BY <4>0, <5>1
        <5>. QED  BY <1>0, <5>1, <5>2
      <4>. QED  BY <4>1, <4>2
    <3>6. Cardinality(o \ {x}) = Cardinality(o) - 1 /\ Cardinality(o) \in Nat
      BY <1>3, <3>4, FS_RemoveElement, FS_CardinalityType
    <3>7. Cardinality(o \ {x}) < BatchSize
      BY <1>2, <3>4, <3>5
    <3>. QED  BY <3>6, <3>7, RetentionAssumption
  <2>. QED  BY <2>1, <2>2
<1>8. o = S \/ Cardinality(o) = BatchSize
  <2>. SUFFICES ASSUME o # S PROVE Cardinality(o) = BatchSize
    OBVIOUS
  <2>. DEFINE m == Min(S \ o)
  <2>1. m \in S \ o /\ \A e \in S \ o : m <= e
    <3>1. S \ o \in SUBSET Nat /\ S \ o # {}
      BY <1>1, <1>3
    <3>. QED  BY <3>1, MinIsLeast
  <2>. HIDE DEF m
  <2>2. Below(m) = o
    <3>0. m \in Nat /\ m \in S /\ m \notin o
      BY <1>1, <2>1
    <3>1. ASSUME NEW t \in Below(m) PROVE t \in o
      <4>1. t \in S /\ t \in Nat /\ t < m
        BY <1>0, <1>1
      <4>2. ~(m <= t)
        BY <3>0, <4>1
      <4>. QED  BY <2>1, <4>1, <4>2
    <3>2. ASSUME NEW t \in o PROVE t \in Below(m)
      <4>1. t \in S /\ t \in Nat /\ ~(m <= t)
        BY <1>1, <1>3, <1>5, <3>0
      <4>2. t < m
        BY <3>0, <4>1
      <4>. QED  BY <1>0, <4>1, <4>2
    <3>. QED  BY <3>1, <3>2
  <2>3. ~(Cardinality(o) < BatchSize)
    BY <1>2, <2>1, <2>2
  <2>. QED  BY <1>3, <1>7, <2>3, FS_CardinalityType, RetentionAssumption
<1>. QED  BY <1>1, <1>3, <1>5, <1>6, <1>7, <1>8 DEF o

\* What a run cannot take is what its batches cannot hold; rows come one to a tick.
LEMMA BatchesHold ==
    ASSUME NEW n \in Nat
    PROVE  n * BatchSize \in Nat /\ (n + 1) * BatchSize = n * BatchSize + BatchSize
BY RetentionAssumption

Left(u) == Expired(u) \ batch[u]

\* A run that will leave nothing that is past the window.
Finishing(u) ==
    /\ pc[u] # "idle"
    /\ pc[u] = "read" => Cardinality(Expired(u)) <= (MaxBatches - batches[u]) * BatchSize
    /\ pc[u] # "read" => /\ Cardinality(Left(u)) <= (MaxBatches - (batches[u] + 1)) * BatchSize
                         /\ Cardinality(batch[u]) # BatchSize => Left(u) = {}

SweptTo(t) == \A r \in hot : r >= t

OnTime ==
    /\ now - lastRun <= Period /\ lastRun <= now
    /\ \A u \in Runners : pc[u] # "idle" => lastRun = now /\ cutoff[u] = now - Retention
    /\ clean = "yes" => /\ dropped = {}
                        /\ SweptTo(now - Period - Retention)
                        /\ SweptTo(lastRun - Retention) \/ \E u \in Runners : Finishing(u)

TimelyInv == RetTyped /\ OnTime

LEMMA ExpiredFinite ==
    ASSUME RetTyped, NEW u \in Runners
    PROVE  /\ Expired(u) \in SUBSET Rows /\ IsFiniteSet(Expired(u)) /\ IsFiniteSet(Left(u))
           /\ Cardinality(Expired(u)) \in Nat /\ Cardinality(Left(u)) \in Nat
           /\ cutoff[u] \in Int /\ hot \subseteq Nat /\ now \in Nat /\ lastRun \in Nat
<1>1. IsFiniteSet(Rows) /\ Rows \subseteq Nat
  BY RetentionAssumption, FS_Interval DEF Rows
<1>2. Expired(u) \in SUBSET Rows /\ Left(u) \in SUBSET Rows /\ hot \subseteq Nat
  BY <1>1 DEF RetTyped, TypeOK, Expired, Left
<1>3. cutoff[u] \in Int /\ now \in Nat /\ lastRun \in Nat
  BY RetentionAssumption DEF RetTyped, TypeOK
<1>. QED  BY <1>1, <1>2, <1>3, FS_Subset, FS_CardinalityType

\* Rows leave: a run that will finish will finish.
LEMMA FewerFinishing ==
    ASSUME RetTyped, NEW u \in Runners, Finishing(u), RetTyped',
           Expired(u)' \subseteq Expired(u), pc'[u] = pc[u], batch'[u] = batch[u], batches'[u] = batches[u]
    PROVE  Finishing(u)'
<1>1. Left(u)' \subseteq Left(u)
  BY DEF Left
<1>2. Cardinality(Left(u)') <= Cardinality(Left(u)) /\ Cardinality(Expired(u)') <= Cardinality(Expired(u))
  BY <1>1, ExpiredFinite, FS_Subset
<1>3. /\ Cardinality(Left(u)) \in Nat /\ Cardinality(Expired(u)) \in Nat
      /\ Cardinality(Left(u)') \in Nat /\ Cardinality(Expired(u)') \in Nat
  BY <1>2, <1>1, ExpiredFinite, FS_Subset, FS_CardinalityType
<1>4. batches[u] \in Nat
  BY RetentionAssumption DEF RetTyped, TypeOK
<1>. DEFINE whole == (MaxBatches - batches[u]) * BatchSize
            rest == (MaxBatches - (batches[u] + 1)) * BatchSize
<1>5. whole \in Int /\ rest \in Int
  BY <1>4, RetentionAssumption
<1>6. /\ pc[u] # "idle"
      /\ pc[u] = "read" => Cardinality(Expired(u)) <= whole
      /\ pc[u] # "read" => Cardinality(Left(u)) <= rest /\ (Cardinality(batch[u]) # BatchSize => Left(u) = {})
  BY DEF Finishing
<1>. HIDE DEF whole, rest
<1>7. /\ pc[u] = "read" => Cardinality(Expired(u)') <= whole
      /\ pc[u] # "read" => Cardinality(Left(u)') <= rest /\ (Cardinality(batch[u]) # BatchSize => Left(u)' = {})
  BY <1>1, <1>2, <1>3, <1>5, <1>6
<1>. QED  BY <1>6, <1>7 DEF Finishing, whole, rest

\* The deployment the window is made for: a run starts every Period, its batches
\* hold what one Period brings, and the TTL leaves a Period beyond the retention.
Provisioned ==
    /\ Job # "span"
    /\ Period > 0 /\ MaxBatches * BatchSize >= Period
    /\ TTL > Retention + Period

\* Rows are timestamps: an interval of time holds no more of them than its length.
LEMMA FewRows ==
    ASSUME NEW a \in Int, NEW b \in Int, a <= b, NEW S \in SUBSET Int, \A r \in S : a <= r /\ r < b
    PROVE  IsFiniteSet(S) /\ Cardinality(S) <= b - a
<1>1. S \subseteq a .. (b - 1)
  OBVIOUS
<1>2. IsFiniteSet(a .. (b - 1)) /\ Cardinality(a .. (b - 1)) = b - a
  <2>1. b - 1 \in Int /\ (IF a > b - 1 THEN 0 ELSE (b - 1) - a + 1) = b - a
    OBVIOUS
  <2>2. IsFiniteSet(a .. (b - 1)) /\ Cardinality(a .. (b - 1)) = IF a > b - 1 THEN 0 ELSE (b - 1) - a + 1
    BY <2>1, FS_Interval
  <2>. QED  BY <2>1, <2>2
<1>. QED  BY <1>1, <1>2, FS_Subset

LEMMA OnTimeFacts ==
    ASSUME TimelyInv
    PROVE  /\ now \in Nat /\ lastRun \in Nat /\ hot \subseteq Nat /\ now - lastRun <= Period /\ lastRun <= now
           /\ Retention \in Nat /\ Period \in Nat /\ TTL \in Nat /\ Delay \in Nat /\ Delay <= Retention
           /\ BatchSize \in Nat \ {0} /\ MaxBatches \in Nat \ {0}
           /\ \A u \in Runners : batches[u] \in Nat /\ cutoff[u] \in Int /\ (pc[u] # "idle" => batches[u] < MaxBatches)
           /\ pc \in [Runners -> {"idle", "read", "ship", "delete"}]
<1>1. Rows \subseteq Nat
  BY DEF Rows
<1>. QED  BY <1>1, RetentionAssumption DEF TimelyInv, RetTyped, TypeOK, OnTime

\* A step of a run under way that leaves the clocks alone and takes rows at most.
LEMMA OnTimeKept ==
    ASSUME TimelyInv, UNCHANGED <<now, lastRun, cutoff, dropped, clean>>, hot' \subseteq hot,
           \A v \in Runners : pc'[v] # "idle" => pc[v] # "idle",
           \A v \in Runners : Finishing(v) => Finishing(v)' \/ SweptTo(lastRun - Retention)'
    PROVE  OnTime'
<1>1. \A t : SweptTo(t) => \A r \in hot' : r >= t
  BY DEF SweptTo
<1>2. SweptTo(now - Period - Retention) => SweptTo(now - Period - Retention)'
  BY <1>1 DEF SweptTo
<1>3. SweptTo(lastRun - Retention) => SweptTo(lastRun - Retention)'
  BY <1>1 DEF SweptTo
<1>4. ASSUME clean' = "yes"
      PROVE  dropped' = {} /\ SweptTo(now - Period - Retention)'
             /\ (SweptTo(lastRun - Retention)' \/ \E u \in Runners : Finishing(u)')
  BY <1>2, <1>3, <1>4 DEF TimelyInv, OnTime
<1>5. /\ now' - lastRun' <= Period /\ lastRun' <= now'
      /\ \A u \in Runners : pc'[u] # "idle" => lastRun' = now' /\ cutoff'[u] = now' - Retention
  BY DEF TimelyInv, OnTime
<1>. QED  BY <1>4, <1>5 DEF OnTime

LEMMA BeginOnTime ==
    ASSUME Provisioned, TimelyInv, RetTyped', NEW u \in Runners, Begin(u)
    PROVE  OnTime'
<1>0. now \in Nat /\ lastRun \in Nat /\ hot \subseteq Nat /\ Retention \in Nat /\ Period \in Nat
  BY OnTimeFacts
<1>1. /\ pc[u] = "idle" /\ pc' = [pc EXCEPT ![u] = "read"] /\ pc'[u] = "read" /\ lastRun' = now
      /\ cutoff'[u] = now - Retention /\ batches'[u] = 0
      /\ \A v \in Runners : v # u => pc'[v] = pc[v] /\ cutoff'[v] = cutoff[v] /\ batch'[v] = batch[v] /\ batches'[v] = batches[v]
      /\ UNCHANGED <<now, hot, dropped, clean>>
  BY DEF Begin, Goto, TimelyInv, RetTyped, TypeOK
<1>2. /\ now' - lastRun' <= Period /\ lastRun' <= now'
      /\ \A v \in Runners : pc'[v] # "idle" => lastRun' = now' /\ cutoff'[v] = now' - Retention
  BY <1>0, <1>1 DEF TimelyInv, OnTime
<1>3. ASSUME clean' = "yes" PROVE dropped' = {} /\ SweptTo(now - Period - Retention)'
  BY <1>1, <1>3 DEF TimelyInv, OnTime, SweptTo
<1>4. ASSUME NEW v \in Runners, Finishing(v) PROVE Finishing(v)'
  <2>1. v # u
    BY <1>1, <1>4 DEF Finishing
  <2>2. Expired(v)' \subseteq Expired(v)
    BY <1>1, <2>1 DEF Expired
  <2>. QED  BY <1>1, <1>4, <2>1, <2>2, FewerFinishing DEF TimelyInv
<1>5. ASSUME SweptTo(lastRun - Retention) PROVE Finishing(u)'
  <2>1. Expired(u)' = {r \in hot : r < now - Retention}
    BY <1>1 DEF Expired
  <2>. DEFINE E == {r \in hot : r < now - Retention}
  <2>2. E \in SUBSET Int /\ \A r \in E : lastRun - Retention <= r /\ r < now - Retention
    <3>1. ASSUME NEW r \in E PROVE r \in Int /\ lastRun - Retention <= r /\ r < now - Retention
      <4>1. r \in Nat /\ r >= lastRun - Retention /\ r < now - Retention
        BY <1>0, <1>5 DEF SweptTo
      <4>. QED  BY <1>0, <4>1
    <3>. HIDE DEF E
    <3>. QED  BY <3>1
  <2>3. /\ lastRun - Retention \in Int /\ now - Retention \in Int /\ lastRun - Retention <= now - Retention
        /\ (now - Retention) - (lastRun - Retention) <= Period
    BY <1>0, OnTimeFacts
  <2>. HIDE DEF E
  <2>4. IsFiniteSet(E) /\ Cardinality(E) <= (now - Retention) - (lastRun - Retention)
    BY <2>2, <2>3, FewRows
  <2>5. Cardinality(E) \in Nat
    BY <2>4, FS_CardinalityType
  <2>6. (MaxBatches - 0) * BatchSize \in Nat /\ (MaxBatches - 0) * BatchSize >= Period
    BY OnTimeFacts DEF Provisioned
  <2>7. Cardinality(E) <= (MaxBatches - 0) * BatchSize
    BY <1>0, <2>3, <2>4, <2>5, <2>6
  <2>8. Cardinality(Expired(u)') <= (MaxBatches - batches'[u]) * BatchSize
    BY <1>1, <2>1, <2>7 DEF E
  <2>. QED  BY <1>1, <2>8 DEF Finishing
<1>6. ASSUME clean' = "yes" PROVE \E v \in Runners : Finishing(v)'
  BY <1>1, <1>4, <1>5, <1>6 DEF TimelyInv, OnTime
<1>. QED  BY <1>2, <1>3, <1>6 DEF OnTime

LEMMA ReadOnTime ==
    ASSUME TimelyInv, RetTyped', NEW u \in Runners, Read(u)
    PROVE  OnTime'
<1>1. /\ pc[u] = "read" /\ pc'[u] = "ship" /\ batch'[u] = Oldest(Expired(u)) /\ batches' = batches
      /\ \A v \in Runners : v # u => pc'[v] = pc[v] /\ batch'[v] = batch[v]
      /\ UNCHANGED <<now, hot, lastRun, cutoff, dropped, clean>>
  BY DEF Read, Goto, TimelyInv, RetTyped, TypeOK
<1>2. \A v : Expired(v)' = Expired(v)
  BY <1>1 DEF Expired
<1>3. ASSUME NEW v \in Runners, v # u, Finishing(v) PROVE Finishing(v)'
  BY <1>1, <1>2, <1>3, FewerFinishing DEF TimelyInv
<1>4. ASSUME Finishing(u) PROVE Finishing(u)'
  <2>. DEFINE E == Expired(u)
              o == Oldest(E)
              n == MaxBatches - (batches[u] + 1)
  <2>1. E \in SUBSET Rows /\ IsFiniteSet(E) /\ Cardinality(E) \in Nat
    BY ExpiredFinite DEF TimelyInv
  <2>2. Left(u)' = E \ o
    BY <1>1, <1>2 DEF Left
  <2>3. Cardinality(E) <= (MaxBatches - batches[u]) * BatchSize
    BY <1>1, <1>4 DEF Finishing
  <2>4. n \in Nat /\ MaxBatches - batches[u] = n + 1
    BY <1>1, OnTimeFacts
  <2>. HIDE DEF E, n
  <2>5. o \subseteq E /\ IsFiniteSet(o) /\ (o = E \/ Cardinality(o) = BatchSize)
    BY <2>1, OldestOf
  <2>. HIDE DEF o
  <2>6. n * BatchSize \in Nat /\ (n + 1) * BatchSize = n * BatchSize + BatchSize
    BY <2>4, BatchesHold
  <2>7. CASE o = E
    <3>1. E \ o = {}
      BY <2>7
    <3>2. Cardinality(E \ o) = 0
      BY <3>1, FS_EmptySet
    <3>3. Cardinality(E \ o) <= n * BatchSize
      BY <2>6, <3>2
    <3>. QED  BY <1>1, <2>2, <3>1, <3>3 DEF Finishing, n
  <2>8. CASE Cardinality(o) = BatchSize
    <3>1. E \cap o = o
      BY <2>5
    <3>2. Cardinality(E \ o) = Cardinality(E) - Cardinality(o)
      <4>1. Cardinality(E \ o) = Cardinality(E) - Cardinality(E \cap o)
        BY <2>1, FS_Difference
      <4>. QED  BY <3>1, <4>1
    <3>. DEFINE c == Cardinality(E)
                d == Cardinality(E \ o)
                k == n * BatchSize
    <3>3. c <= k + BatchSize /\ d = c - BatchSize /\ c \in Nat /\ k \in Nat /\ BatchSize \in Nat
      BY <2>1, <2>3, <2>4, <2>6, <2>8, <3>2, RetentionAssumption
    <3>. HIDE DEF c, d, k
    <3>4. d <= k
      BY <3>3
    <3>5. Cardinality(Left(u)') <= (MaxBatches - (batches'[u] + 1)) * BatchSize
      BY <1>1, <2>2, <3>4 DEF d, k, n
    <3>6. Cardinality(batch'[u]) = BatchSize
      BY <1>1, <2>8 DEF o, E
    <3>. QED  BY <1>1, <3>5, <3>6 DEF Finishing
  <2>. QED  BY <2>5, <2>7, <2>8
<1>5. \A v \in Runners : Finishing(v) => Finishing(v)'
  BY <1>3, <1>4
<1>. QED  BY <1>1, <1>5, OnTimeKept

LEMMA DeleteOnTime ==
    ASSUME TimelyInv, RetTyped', NEW u \in Runners, Delete(u)
    PROVE  OnTime'
<1>1. /\ pc[u] = "delete" /\ batches'[u] = batches[u] + 1 /\ hot' = hot \ batch[u]
      /\ \/ More(u) /\ pc'[u] = "read"
         \/ ~More(u) /\ pc'[u] = "idle"
      /\ \A v \in Runners : v # u => pc'[v] = pc[v] /\ batches'[v] = batches[v]
      /\ UNCHANGED <<now, batch, lastRun, cutoff, dropped, clean>>
  <2>1. /\ pc[u] = "delete" /\ batches' = [batches EXCEPT ![u] = batches[u] + 1] /\ hot' = hot \ batch[u]
        /\ \/ More(u) /\ pc' = [pc EXCEPT ![u] = "read"]
           \/ ~More(u) /\ pc' = [pc EXCEPT ![u] = "idle"]
        /\ UNCHANGED <<now, batch, lastRun, cutoff, dropped, clean>>
    BY DEF Delete, End, Goto, More
  <2>. QED  BY <2>1 DEF TimelyInv, RetTyped, TypeOK
<1>2. \A v : Expired(v)' \subseteq Expired(v)
  BY <1>1 DEF Expired
<1>3. ASSUME NEW v \in Runners, v # u, Finishing(v) PROVE Finishing(v)'
  BY <1>1, <1>2, <1>3, FewerFinishing DEF TimelyInv
<1>4. Expired(u)' = Left(u)
  BY <1>1 DEF Expired, Left
<1>5. ASSUME Finishing(u) PROVE Finishing(u)' \/ SweptTo(lastRun - Retention)'
  <2>1. /\ Cardinality(Left(u)) <= (MaxBatches - (batches[u] + 1)) * BatchSize
        /\ Cardinality(batch[u]) # BatchSize => Left(u) = {}
    BY <1>1, <1>5 DEF Finishing
  <2>2. CASE More(u)
    BY <1>1, <1>4, <2>1, <2>2 DEF Finishing
  <2>3. CASE ~More(u)
    <3>1. Left(u) = {}
      <4>1. CASE Cardinality(batch[u]) # BatchSize
        BY <2>1, <4>1
      <4>2. CASE Cardinality(batch[u]) = BatchSize
        <5>1. MaxBatches - (batches[u] + 1) = 0
          BY <1>1, <2>3, <4>2, OnTimeFacts DEF More
        <5>2. (MaxBatches - (batches[u] + 1)) * BatchSize = 0
          BY <5>1, RetentionAssumption
        <5>3. Cardinality(Left(u)) = 0 /\ IsFiniteSet(Left(u))
          BY <2>1, <5>2, ExpiredFinite DEF TimelyInv
        <5>. QED  BY <5>3, FS_EmptySet
      <4>. QED  BY <4>1, <4>2
    <3>2. cutoff'[u] = lastRun' - Retention
      BY <1>1, OnTimeFacts DEF TimelyInv, OnTime
    <3>3. \A r \in hot' : ~(r < lastRun' - Retention)
      BY <1>4, <3>1, <3>2 DEF Expired
    <3>4. hot' \subseteq Nat /\ lastRun' - Retention \in Int
      BY <1>1, OnTimeFacts
    <3>5. \A r \in hot' : r >= lastRun' - Retention
      BY <3>3, <3>4
    <3>. QED  BY <1>1, <3>5 DEF SweptTo
  <2>. QED  BY <2>2, <2>3
<1>6. \A v \in Runners : Finishing(v) => Finishing(v)' \/ SweptTo(lastRun - Retention)'
  BY <1>3, <1>5
<1>. QED  BY <1>1, <1>6, OnTimeKept

\* A run that finds nothing leaves nothing; one that ships keeps what it will delete.
LEMMA QuietOnTime ==
    ASSUME TimelyInv, RetTyped', NEW u \in Runners, ReadNothing(u) \/ Ship(u)
    PROVE  OnTime'
<1>1. /\ pc[u] # "idle"
      /\ \A v \in Runners : v # u => pc'[v] = pc[v]
      /\ UNCHANGED <<now, hot, batch, batches, lastRun, cutoff, dropped, clean>>
  BY DEF ReadNothing, Ship, End, Goto, TimelyInv, RetTyped, TypeOK
<1>2. \A v : Expired(v)' = Expired(v) /\ Left(v)' = Left(v)
  BY <1>1 DEF Expired, Left
<1>3. ASSUME NEW v \in Runners, v # u, Finishing(v) PROVE Finishing(v)'
  BY <1>1, <1>2, <1>3, FewerFinishing DEF TimelyInv
<1>4. CASE Ship(u)
  <2>1. pc[u] = "ship" /\ pc'[u] = "delete"
    BY <1>4 DEF Ship, Goto, TimelyInv, RetTyped, TypeOK
  <2>2. Finishing(u) => Finishing(u)'
    BY <1>1, <1>2, <2>1 DEF Finishing
  <2>3. \A v \in Runners : Finishing(v) => Finishing(v)'
    BY <1>3, <2>2
  <2>. QED  BY <1>1, <2>3, OnTimeKept
<1>5. CASE ReadNothing(u)
  <2>1. Expired(u) = {} /\ pc[u] = "read" /\ cutoff[u] = lastRun - Retention
    BY <1>5, OnTimeFacts DEF ReadNothing, End, Goto, TimelyInv, OnTime
  <2>2. \A r \in hot : r >= lastRun - Retention
    BY <2>1, OnTimeFacts DEF Expired
  <2>3. SweptTo(lastRun - Retention)'
    BY <1>1, <2>2 DEF SweptTo
  <2>. QED  BY <1>1, <2>3, OnTimeKept
<1>. QED  BY <1>4, <1>5

\* A failure ends the promise.
LEMMA FailureOnTime ==
    ASSUME Provisioned, TimelyInv, NEW u \in Runners, QueryFails(u) \/ ShipFails(u) \/ Crash(u)
    PROVE  OnTime'
<1>1. /\ \A v \in Runners : pc'[v] # "idle" => pc[v] # "idle"
      /\ clean' = "no" /\ UNCHANGED <<now, lastRun, cutoff>>
  BY DEF QueryFails, ShipFails, Crash, End, Goto, TimelyInv, RetTyped, TypeOK, Provisioned
<1>. QED  BY <1>1 DEF TimelyInv, OnTime

\* Rows come inside the window, and none is old enough to be dropped.
LEMMA RowsOnTime ==
    ASSUME Provisioned, TimelyInv, RetTyped', NEW r \in Rows, Insert(r) \/ Drop(r)
    PROVE  OnTime'
<1>0. r \in Nat
  BY DEF Rows
<1>1. UNCHANGED <<now, lastRun, pc, cutoff, batch, batches, clean>>
  BY DEF Insert, Drop, run
<1>2. /\ now' - lastRun' <= Period /\ lastRun' <= now'
      /\ \A v \in Runners : pc'[v] # "idle" => lastRun' = now' /\ cutoff'[v] = now' - Retention
  BY <1>1 DEF TimelyInv, OnTime
<1>3. CASE Drop(r)
  <2>1. ASSUME clean = "yes" PROVE FALSE
    <3>1. r \in hot /\ now - r >= TTL /\ r >= now - Period - Retention
      BY <1>3, <2>1 DEF Drop, TimelyInv, OnTime, SweptTo
    <3>. QED  BY <1>0, <3>1, OnTimeFacts DEF Provisioned
  <2>. QED  BY <1>1, <1>2, <2>1 DEF OnTime
<1>4. CASE Insert(r)
  <2>1. hot' = hot \cup {r} /\ now <= r + Delay /\ dropped' = dropped
    BY <1>4 DEF Insert
  <2>2. r >= now - Retention /\ r >= now - Period - Retention /\ r >= lastRun - Retention
    BY <1>0, <2>1, OnTimeFacts
  <2>3. SweptTo(now - Period - Retention) => SweptTo(now - Period - Retention)'
    BY <1>1, <2>1, <2>2 DEF SweptTo
  <2>4. SweptTo(lastRun - Retention) => SweptTo(lastRun - Retention)'
    BY <1>1, <2>1, <2>2 DEF SweptTo
  <2>5. ASSUME NEW v \in Runners, Finishing(v) PROVE Finishing(v)'
    <3>1. cutoff[v] = now - Retention
      BY <2>5 DEF Finishing, TimelyInv, OnTime
    <3>2. ~(r < cutoff'[v])
      BY <1>0, <1>1, <2>2, <3>1, OnTimeFacts
    <3>3. Expired(v)' \subseteq Expired(v)
      BY <1>1, <2>1, <3>2 DEF Expired
    <3>. QED  BY <1>1, <2>5, <3>3, FewerFinishing DEF TimelyInv
  <2>6. ASSUME clean' = "yes"
        PROVE  dropped' = {} /\ SweptTo(now - Period - Retention)'
               /\ (SweptTo(lastRun - Retention)' \/ \E v \in Runners : Finishing(v)')
    BY <1>1, <2>1, <2>3, <2>4, <2>5, <2>6 DEF TimelyInv, OnTime
  <2>. QED  BY <1>2, <2>6 DEF OnTime
<1>. QED  BY <1>3, <1>4

\* Time passes only when every run has ended, and the next one is not yet due.
LEMMA TickOnTime ==
    ASSUME Provisioned, TimelyInv, Tick
    PROVE  OnTime'
<1>0. Period \in Nat /\ Period > 0
  BY OnTimeFacts DEF Provisioned
<1>1. /\ now' = now + 1 /\ now + 1 - lastRun <= Period /\ \A v \in Runners : pc[v] = "idle"
      /\ UNCHANGED <<hot, lastRun, pc, dropped, clean>>
  BY <1>0 DEF Tick, run
<1>2. lastRun' <= now' /\ now' - lastRun' <= Period
  BY <1>1, OnTimeFacts
<1>3. ASSUME clean' = "yes"
      PROVE  dropped' = {} /\ SweptTo(now - Period - Retention)' /\ SweptTo(lastRun - Retention)'
  <2>1. dropped = {} /\ SweptTo(lastRun - Retention)
    BY <1>1, <1>3 DEF TimelyInv, OnTime, Finishing
  <2>2. \A r \in hot : r >= lastRun - Retention
    BY <2>1 DEF SweptTo
  <2>3. \A r \in hot : r >= (now + 1) - Period - Retention
    BY <1>1, <2>2, OnTimeFacts
  <2>. QED  BY <1>1, <2>1, <2>2, <2>3 DEF SweptTo
<1>. QED  BY <1>1, <1>2, <1>3 DEF OnTime

LEMMA TimelyInitially == ASSUME Provisioned, Init PROVE TimelyInv
<1>1. RetTyped
  BY RetTypedInitially
<1>2. OnTime
  BY RetentionAssumption DEF Init, OnTime, SweptTo, Provisioned
<1>. QED  BY <1>1, <1>2 DEF TimelyInv

LEMMA TimelyStep == ASSUME Provisioned, TimelyInv, [Next]_vars PROVE TimelyInv'
<1>1. RetTyped'
  BY RetTypedStep DEF TimelyInv
<1>2. CASE UNCHANGED vars
  BY <1>1, <1>2 DEF vars, run, TimelyInv, OnTime, SweptTo, Finishing, Left, Expired
<1>3. ASSUME NEW u \in Runners, Step(u) PROVE OnTime'
  BY <1>1, <1>3, BeginOnTime, ReadOnTime, QuietOnTime, DeleteOnTime, FailureOnTime DEF Step
<1>. QED  BY <1>1, <1>2, <1>3, RowsOnTime, TickOnTime DEF Next, TimelyInv

\* clickhouse_ddl.sql, the window between the retention and the TTL: in a deployment
\* it is made for, no row of any number of runners is dropped unshipped while runs
\* are on time and the stores answer, however the runs race and wherever one of
\* several takes what another was to take.
THEOREM RetentionInTime ==
    ASSUME Provisioned
    PROVE  Spec => []NeverDropped
<1>1. Init => TimelyInv
  BY TimelyInitially
<1>2. TimelyInv /\ [Next]_vars => TimelyInv'
  BY TimelyStep
<1>3. TimelyInv => NeverDropped
  BY DEF TimelyInv, OnTime, NeverDropped
<1>. QED  BY <1>1, <1>2, <1>3, PTL DEF Spec

\* The same of the runs' specification, with the types of the job's variables.
THEOREM RetentionRunsTimely ==
    ASSUME Provisioned
    PROVE  MCSpec => []RetentionTimely
<1>. DEFINE PartInv == part = "job" => TimelyInv
<1>1. MCInit => PartInv
  BY TimelyInitially, Zenon DEF MCInit
<1>2. PartInv /\ [MCNext]_<<vars, part>> => PartInv'
  <2>1. ASSUME PartInv, [MCNext]_<<vars, part>>, part' = "job"
        PROVE  TimelyInv'
    <3>1. part = "job" /\ [Next]_vars
      BY <2>1, Zenon DEF MCNext
    <3>. QED  BY <2>1, <3>1, TimelyStep
  <2>. QED  BY <2>1
<1>3. PartInv => RetentionTimely
  BY DEF TimelyInv, RetTyped, OnTime, NeverDropped, RetentionTimely
<1>. QED  BY <1>1, <1>2, <1>3, PTL DEF MCSpec
-----------------------------------------------------------------------------
(* One object.  The key of an object is the second of its oldest row, so a    *)
(* batch shipped again after a crash or a failed delete lands on the object   *)
(* of the first attempt only if its oldest row is the same.  It is: what is   *)
(* archived and still in ClickHouse is in the one object of the oldest row,   *)
(* new rows are younger than all that is archived, and a delete takes the     *)
(* whole of that object.                                                      *)

Reading == {"ship", "delete"}

OneObject ==
    /\ InOneObject
    /\ \A k \in Keys : \A r \in archive[k] : r < now - Retention
    /\ \A k \in Keys : \A r \in archive[k], s \in hot : r \notin hot => r < s
    /\ \A k \in Keys : \A r \in archive[k] : r \in hot => k = Min(hot) \div PerSecond
    /\ \A u \in Runners : pc[u] # "idle" => cutoff[u] <= now - Retention
    /\ \A u \in Runners : pc[u] \in Reading =>
           /\ batch[u] # {} /\ batch[u] \subseteq hot
           /\ \A r \in batch[u] : r < cutoff[u] /\ \A s \in hot : s <= r => s \in batch[u]
    /\ \A u \in Runners : pc[u] = "delete" => archive[Min(batch[u]) \div PerSecond] = batch[u]

ObjectInv == RetTyped /\ OneObject

OneRunner == \A u, v \in Runners : u = v

\* ClickHouse drops nothing.
NoDrop == \A r \in Rows : ~Drop(r)

LEMMA ObjectFacts ==
    ASSUME ObjectInv
    PROVE  /\ now \in Nat /\ hot \in SUBSET Nat /\ Retention \in Nat /\ Delay \in Nat /\ Delay <= Retention
           /\ \A k \in Keys : archive[k] \subseteq Rows /\ archive[k] \subseteq Nat
           /\ \A u \in Runners : cutoff[u] \in Int /\ batch[u] \in SUBSET Nat /\ batch[u] \subseteq Rows
           /\ pc \in [Runners -> {"idle", "read", "ship", "delete"}]
           /\ batch \in [Runners -> SUBSET Rows] /\ archive \in [Keys -> SUBSET Rows]
           /\ cutoff \in [Runners -> -Retention .. MaxTime]
<1>1. Rows \subseteq Nat
  BY DEF Rows
<1>2. /\ now \in 0 .. MaxTime /\ hot \subseteq Rows /\ archive \in [Keys -> SUBSET Rows]
      /\ cutoff \in [Runners -> -Retention .. MaxTime] /\ batch \in [Runners -> SUBSET Rows]
      /\ pc \in [Runners -> {"idle", "read", "ship", "delete"}]
  BY DEF ObjectInv, RetTyped, TypeOK
<1>3. /\ \A k \in Keys : archive[k] \subseteq Rows
      /\ \A u \in Runners : cutoff[u] \in -Retention .. MaxTime /\ batch[u] \subseteq Rows
  BY <1>2
<1>4. now \in Nat /\ \A u \in Runners : cutoff[u] \in Int
  BY <1>2, <1>3, RetentionAssumption
<1>5. \A b : b \subseteq Rows => b \subseteq Nat
  BY <1>1
<1>6. hot \in SUBSET Nat
  BY <1>2, <1>5
<1>7. \A k \in Keys : archive[k] \subseteq Nat
  BY <1>3, <1>5
<1>8. \A u \in Runners : batch[u] \in SUBSET Nat
  BY <1>3, <1>5
<1>. QED  BY <1>2, <1>3, <1>4, <1>6, <1>7, <1>8, RetentionAssumption

\* The key of a row's second is a key.
LEMMA RowKey ==
    ASSUME NEW r \in Rows PROVE r \div PerSecond \in Keys
<1>1. r \in Nat /\ r <= MaxTime /\ PerSecond \in Nat /\ PerSecond >= 1 /\ MaxTime \in Nat
  BY RetentionAssumption DEF Rows
<1>2. r \div PerSecond \in Nat /\ r \div PerSecond <= r
  BY <1>1
<1>. QED  BY <1>1, <1>2 DEF Keys

\* The oldest row of a batch is the oldest row there is.
LEMMA BatchHead ==
    ASSUME ObjectInv, NEW u \in Runners, pc[u] \in Reading
    PROVE  Min(batch[u]) = Min(hot) /\ Min(batch[u]) \in Rows /\ Min(batch[u]) \in hot
<1>1. batch[u] # {} /\ batch[u] \subseteq hot /\ \A r \in batch[u] : \A s \in hot : s <= r => s \in batch[u]
  BY DEF ObjectInv, OneObject
<1>2. Min(batch[u]) \in batch[u] /\ \A e \in batch[u] : Min(batch[u]) <= e
  BY <1>1, ObjectFacts, MinIsLeast
<1>3. Min(hot) \in hot /\ \A e \in hot : Min(hot) <= e
  BY <1>1, ObjectFacts, MinIsLeast
<1>4. Min(hot) <= Min(batch[u]) /\ Min(batch[u]) <= Min(hot) /\ Min(hot) \in Nat /\ Min(batch[u]) \in Nat
  BY <1>1, <1>2, <1>3, ObjectFacts
<1>. QED  BY <1>1, <1>2, <1>4, ObjectFacts

LEMMA ReadOneObject ==
    ASSUME ObjectInv, OneRunner, NEW u \in Runners, Read(u)
    PROVE  OneObject'
<1>1. /\ pc[u] = "read" /\ pc'[u] = "ship" /\ batch'[u] = Oldest(Expired(u)) /\ Expired(u) # {}
      /\ UNCHANGED <<now, hot, archive, cutoff>> /\ \A v \in Runners : v = u
  BY ObjectFacts DEF Read, Goto, OneRunner
<1>2. Expired(u) \in SUBSET Rows /\ Expired(u) \subseteq hot /\ \A r \in Expired(u) : r < cutoff[u]
  BY DEF ObjectInv, RetTyped, TypeOK, Expired
<1>3. /\ Oldest(Expired(u)) \subseteq Expired(u) /\ Oldest(Expired(u)) # {}
      /\ \A r \in Oldest(Expired(u)), s \in Expired(u) : s <= r => s \in Oldest(Expired(u))
  BY <1>1, <1>2, OldestOf
<1>4. ASSUME NEW r \in Oldest(Expired(u)), NEW s \in hot, s <= r PROVE s \in Oldest(Expired(u))
  <2>1. r < cutoff[u] /\ r \in Nat /\ s \in Nat /\ cutoff[u] \in Int
    BY <1>2, <1>3, ObjectFacts
  <2>2. s \in Expired(u)
    BY <1>4, <2>1 DEF Expired
  <2>. QED  BY <1>3, <1>4, <2>2
<1>. QED  BY <1>1, <1>2, <1>3, <1>4 DEF ObjectInv, OneObject, InOneObject, Reading

LEMMA ShipOneObject ==
    ASSUME ObjectInv, OneRunner, Job = "audit", NEW u \in Runners, Ship(u)
    PROVE  OneObject'
<1>. DEFINE k == Min(batch[u]) \div PerSecond
<1>1. /\ pc[u] = "ship" /\ pc[u] \in Reading /\ pc'[u] = "delete" /\ archive' = [archive EXCEPT ![k] = batch[u]]
      /\ UNCHANGED <<now, hot, batch, cutoff>> /\ \A v \in Runners : v = u
  BY ObjectFacts DEF Ship, Goto, OneRunner, Shipped, ObjectKey, Reading
<1>2. k \in Keys /\ k = Min(hot) \div PerSecond
  BY <1>1, BatchHead, RowKey
<1>3. /\ batch[u] # {} /\ batch[u] \subseteq hot
      /\ \A r \in batch[u] : r < cutoff[u] /\ \A s \in hot : s <= r => s \in batch[u]
      /\ cutoff[u] <= now - Retention
  BY <1>1 DEF ObjectInv, OneObject
<1>4. archive'[Min(batch[u]) \div PerSecond] = batch[u]
  BY <1>1, <1>2, ObjectFacts
<1>. HIDE DEF k
<1>5. archive'[k] = batch[u] /\ \A j \in Keys : j # k => archive'[j] = archive[j]
  BY <1>1, <1>2, ObjectFacts
<1>6. \A r \in batch[u] : r < now - Retention
  BY <1>3, ObjectFacts
<1>7. \A j \in Keys : j # k => archive[j] \cap batch[u] = {}
  BY <1>2, <1>3 DEF ObjectInv, OneObject
<1>8. InOneObject'
  BY <1>5, <1>7 DEF ObjectInv, OneObject, InOneObject
<1>9. ASSUME NEW j \in Keys, NEW r \in archive'[j]
      PROVE  /\ r < now - Retention
             /\ \A s \in hot : r \notin hot => r < s
             /\ r \in hot => j = Min(hot) \div PerSecond
  BY <1>2, <1>3, <1>5, <1>6, <1>9 DEF ObjectInv, OneObject
<1>. QED  BY <1>1, <1>3, <1>4, <1>8, <1>9 DEF ObjectInv, OneObject

LEMMA DeleteOneObject ==
    ASSUME ObjectInv, OneRunner, NEW u \in Runners, Delete(u)
    PROVE  OneObject'
<1>1. /\ pc[u] = "delete" /\ pc[u] \in Reading /\ pc'[u] \in {"read", "idle"} /\ hot' = hot \ batch[u]
      /\ UNCHANGED <<now, archive, batch, cutoff>> /\ \A v \in Runners : v = u
  BY ObjectFacts DEF Delete, End, Goto, OneRunner, Reading
<1>2. \A r \in batch[u] : \A s \in hot : s <= r => s \in batch[u]
  BY <1>1 DEF ObjectInv, OneObject
<1>3. archive[Min(hot) \div PerSecond] = batch[u]
  BY <1>1, BatchHead DEF ObjectInv, OneObject
<1>4. ASSUME NEW k \in Keys, NEW r \in archive[k], NEW s \in hot \ batch[u], r \notin hot \ batch[u]
      PROVE  r < s
  <2>1. CASE r \notin hot
    BY <1>4, <2>1 DEF ObjectInv, OneObject
  <2>2. CASE r \in batch[u]
    <3>1. r \in Nat /\ s \in Nat /\ ~(s <= r)
      BY <1>2, <1>4, <2>2, ObjectFacts
    <3>. QED  BY <3>1
  <2>. QED  BY <1>4, <2>1, <2>2
<1>5. ASSUME NEW k \in Keys, NEW r \in archive[k] PROVE r \notin hot \ batch[u]
  BY <1>3, <1>5 DEF ObjectInv, OneObject
<1>. QED  BY <1>1, <1>4, <1>5 DEF ObjectInv, OneObject, InOneObject, Reading

\* A new row is younger than everything archived and everything in a batch.
LEMMA InsertOneObject ==
    ASSUME ObjectInv, NEW r \in Rows, Insert(r)
    PROVE  OneObject'
<1>1. hot' = hot \cup {r} /\ now <= r + Delay /\ UNCHANGED <<now, archive, pc, batch, cutoff>>
  BY DEF Insert, run
<1>2. r \in Nat /\ r >= now - Retention
  <2>1. r \in Nat
    BY DEF Rows
  <2>. QED  BY <1>1, <2>1, ObjectFacts
<1>3. ASSUME NEW k \in Keys, NEW x \in archive[k] PROVE x < r /\ x \in Nat /\ x # r
  <2>1. x < now - Retention /\ x \in Nat
    BY ObjectFacts DEF ObjectInv, OneObject
  <2>. QED  BY <1>2, <2>1, ObjectFacts
<1>4. ASSUME NEW k \in Keys, NEW x \in archive[k], x \in hot' PROVE k = Min(hot') \div PerSecond
  <2>1. x \in hot /\ x < r /\ x \in Nat
    BY <1>1, <1>3, <1>4
  <2>2. k = Min(hot) \div PerSecond
    BY <2>1 DEF ObjectInv, OneObject
  <2>3. Min(hot) \in hot /\ \A e \in hot : Min(hot) <= e
    BY <2>1, ObjectFacts, MinIsLeast
  <2>4. hot' \in SUBSET Nat /\ hot' # {}
    BY <1>1, <1>2, ObjectFacts
  <2>5. Min(hot') \in hot' /\ \A e \in hot' : Min(hot') <= e
    BY <2>4, MinIsLeast
  <2>6. Min(hot) \in Nat /\ Min(hot') \in Nat /\ Min(hot) <= x
    BY <2>1, <2>3, <2>4, <2>5, ObjectFacts
  <2>7. Min(hot') # r
    <3>1. x \in hot' /\ Min(hot') <= x
      BY <1>4, <2>5
    <3>. QED  BY <1>2, <2>1, <3>1
  <2>8. Min(hot') <= Min(hot) /\ Min(hot) <= Min(hot')
    BY <1>1, <2>3, <2>5, <2>7
  <2>9. Min(hot') = Min(hot)
    BY <2>6, <2>8
  <2>. QED  BY <2>2, <2>9
<1>5. ASSUME NEW u \in Runners, pc[u] \in Reading
      PROVE  /\ batch[u] # {} /\ batch[u] \subseteq hot'
             /\ \A x \in batch[u] : x < cutoff[u] /\ \A s \in hot' : s <= x => s \in batch[u]
  <2>1. /\ batch[u] # {} /\ batch[u] \subseteq hot /\ pc[u] # "idle"
        /\ \A x \in batch[u] : x < cutoff[u] /\ \A s \in hot : s <= x => s \in batch[u]
    BY <1>5 DEF ObjectInv, OneObject, Reading
  <2>2. cutoff[u] <= now - Retention
    BY <2>1 DEF ObjectInv, OneObject
  <2>3. ASSUME NEW x \in batch[u] PROVE ~(r <= x)
    <3>1. x \in Nat /\ x < cutoff[u] /\ cutoff[u] \in Int
      BY <2>1, ObjectFacts
    <3>. QED  BY <1>2, <2>2, <3>1, ObjectFacts
  <2>. QED  BY <1>1, <2>1, <2>3
<1>6. ASSUME NEW k \in Keys, NEW x \in archive[k], NEW s \in hot', x \notin hot' PROVE x < s
  BY <1>1, <1>3, <1>6 DEF ObjectInv, OneObject
<1>7. \A u \in Runners : pc'[u] # "idle" => cutoff'[u] <= now' - Retention
  BY <1>1 DEF ObjectInv, OneObject
<1>8. InOneObject' /\ \A k \in Keys : \A x \in archive'[k] : x < now' - Retention
  BY <1>1 DEF ObjectInv, OneObject, InOneObject
<1>9. \A u \in Runners : pc'[u] = "delete" => archive'[Min(batch'[u]) \div PerSecond] = batch'[u]
  BY <1>1 DEF ObjectInv, OneObject
<1>. QED  BY <1>1, <1>4, <1>5, <1>6, <1>7, <1>8, <1>9 DEF OneObject

\* A run begins or ends, or time passes: the cutoff stays behind the window.
LEMMA OtherOneObject ==
    ASSUME ObjectInv, OneRunner,
           Tick \/ \E u \in Runners : Begin(u) \/ ReadNothing(u) \/ QueryFails(u) \/ ShipFails(u) \/ Crash(u)
    PROVE  OneObject'
<1>1. CASE Tick
  <2>1. now' = now + 1 /\ UNCHANGED <<hot, archive, pc, batch, cutoff>>
    BY <1>1 DEF Tick, run
  <2>2. \A x \in Int : (x < now - Retention => x < now' - Retention) /\ (x <= now - Retention => x <= now' - Retention)
    BY <2>1, ObjectFacts
  <2>3. \A k \in Keys : \A r \in archive[k] : r \in Int
    BY ObjectFacts
  <2>. QED  BY <2>1, <2>2, <2>3, ObjectFacts DEF ObjectInv, OneObject, InOneObject
<1>2. ASSUME NEW u \in Runners, Begin(u) PROVE OneObject'
  <2>1. /\ pc'[u] = "read" /\ cutoff'[u] = now - Retention /\ UNCHANGED <<now, hot, archive>>
        /\ \A v \in Runners : v = u
    BY <1>2, ObjectFacts DEF Begin, Goto, OneRunner
  <2>2. cutoff'[u] <= now - Retention
    BY <2>1, ObjectFacts
  <2>. QED  BY <2>1, <2>2 DEF ObjectInv, OneObject, InOneObject, Reading
<1>3. ASSUME NEW u \in Runners, ReadNothing(u) \/ QueryFails(u) \/ ShipFails(u) \/ Crash(u) PROVE OneObject'
  <2>1. pc'[u] = "idle" /\ UNCHANGED <<now, hot, archive>> /\ \A v \in Runners : v = u
    BY <1>3, ObjectFacts DEF ReadNothing, QueryFails, ShipFails, Crash, End, Goto, OneRunner
  <2>. QED  BY <2>1 DEF ObjectInv, OneObject, InOneObject, Reading
<1>. QED  BY <1>1, <1>2, <1>3

LEMMA ObjectInitially == ASSUME Init PROVE ObjectInv
<1>1. RetTyped
  BY RetTypedInitially
<1>2. OneObject
  BY DEF Init, OneObject, InOneObject, Reading
<1>. QED  BY <1>1, <1>2 DEF ObjectInv

LEMMA ObjectStep ==
    ASSUME ObjectInv, OneRunner, Job = "audit", [Next]_vars, [NoDrop]_vars
    PROVE  ObjectInv'
<1>1. RetTyped'
  BY RetTypedStep DEF ObjectInv
<1>2. CASE UNCHANGED vars
  BY <1>1, <1>2 DEF vars, run, ObjectInv, OneObject, InOneObject
<1>3. ASSUME Next, NoDrop PROVE OneObject'
  BY <1>3, ReadOneObject, ShipOneObject, DeleteOneObject, InsertOneObject, OtherOneObject DEF Next, NoDrop, Step
<1>. QED  BY <1>1, <1>2, <1>3 DEF ObjectInv

\* maintenance.py archive_audit_events: "re-running the same batch overwrites the
\* object rather than appending a duplicate".  One runner, whose runs fail or are
\* killed wherever they like and cut their batches anew, never leaves an audit event
\* in two objects, as long as ClickHouse drops none of the rows a failed delete left.
THEOREM AuditInOneObject ==
    ASSUME Job = "audit", OneRunner
    PROVE  Spec /\ [][NoDrop]_vars => []InOneObject
<1>1. Init => ObjectInv
  BY ObjectInitially
<1>2. ObjectInv /\ [Next]_vars /\ [NoDrop]_vars => ObjectInv'
  BY ObjectStep
<1>3. ObjectInv => InOneObject
  BY DEF ObjectInv, OneObject
<1>. QED  BY <1>1, <1>2, <1>3, PTL DEF Spec
=============================================================================
