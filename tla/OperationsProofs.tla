-------------------------- MODULE OperationsProofs --------------------------
(***************************************************************************)
(* Proofs about what runs beside the pipeline, one section for each        *)
(* component: access decisions (AccessPolicy), the Langfuse exporter       *)
(* (LangfuseExport), the tail sampler with its feedback policy             *)
(* (TailSampler), the gauges of the SLOs and of the health checker         *)
(* (SloPolicy, HealthProbe), the schedule (CronScheduler), drift           *)
(* thresholds (DriftWatch), the compliance catalog (ComplianceCatalog),    *)
(* the weekly migration to cold (ColdMigration), cold-tier queries         *)
(* (AthenaQuery) and the embedding queue (EmbeddingStore). Each states the *)
(* inductive invariant of its component and derives what the component     *)
(* promises; the last one puts their types together for the runs'          *)
(* specification.                                                          *)
(***************************************************************************)
EXTENDS MCOperations, FiniteFacts, SequenceTheorems

-----------------------------------------------------------------------------
(* Access decisions.  A call carries a role it read and, once OPA or the     *)
(* cache has answered, why; an entry of the cache carries the call that      *)
(* stored it, sits under that call's key, and its age and what it has left   *)
(* to live add up to the TTL.                                                *)

RoleNames == DOMAIN ROLES \cup {"none"}
Asked == ApRequests \cup {AnyRequest}
Verdicts == {"none", "allow", "deny"}
EntryType == [verdict : Verdicts, left : 0 .. ApTTL, age : 0 .. ApTTL, role : RoleNames, req : Asked]
CheckType == [pc : {"free", "cache", "opa", "stores", "done"}, req : Asked, role : RoleNames, verdict : Verdicts,
              why : {"none", "role", "cache", "opa", "outage"}, from : EntryType]

\* What an entry that is no miss says of the call that stored it.
EntrySound(k, x) ==
  /\ x.verdict = "none" => x.left = 0
  /\ x.verdict # "none" => x.left > 0 /\ x.age + x.left = ApTTL /\ CacheKey(x.req) = k
  /\ x.verdict = "allow" => OpaAllows(x.role, x.req)

CheckSound(x) ==
  /\ x.pc # "free" => x.req \in ApRequests
  /\ x.pc \in {"cache", "opa", "stores"} => x.role # "none"
  /\ x.pc \in {"free", "cache", "opa"} => x.verdict = "none"
  /\ x.pc = "stores" => x.why \in {"opa", "outage"} /\ x.verdict # "none"
  /\ x.verdict = "allow" =>
       /\ x.role # "none"
       /\ \/ x.why = "opa" /\ OpaAllows(x.role, x.req)
          \/ /\ x.why = "cache" /\ x.from.age < ApTTL
             /\ OpaAllows(x.from.role, x.from.req)
             /\ CacheKey(x.from.req) = CacheKey(x.req)

AccessInv ==
  /\ apTable \in [ApUsers -> ApRows]
  /\ apStore \in [map : [ApUsers -> RoleNames], loaded : BOOLEAN]
  /\ apStore.loaded \/ apStore.map = Nobody
  /\ apCheck \in [ApChecks -> CheckType] /\ \A c \in ApChecks : CheckSound(apCheck[c])
  /\ apCache \in [ApKeys -> EntryType] /\ \A k \in ApKeys : EntrySound(k, apCache[k])

LEMMA MissSound == Miss \in EntryType /\ \A k \in ApKeys : EntrySound(k, Miss)
  BY AccessAssumption DEF Miss, EntryType, EntrySound, Verdicts, RoleNames, Asked

LEMMA AccessStarts == ASSUME AccessInit PROVE AccessInv
<1>1. Fresh \in CheckType /\ CheckSound(Fresh)
  BY MissSound DEF Fresh, CheckType, CheckSound, Verdicts, RoleNames, Asked
<1>2. Nobody \in [ApUsers -> RoleNames]
  BY DEF Nobody, RoleNames
<1> QED
  BY <1>1, <1>2, MissSound DEF AccessInit, AccessInv

\* A step of one call: the call it leaves behind is sound, the rest stands.
LEMMA CheckMoves ==
  ASSUME AccessInv, NEW c \in ApChecks, NEW x \in CheckType, CheckSound(x),
         apCheck' = [apCheck EXCEPT ![c] = x], UNCHANGED <<apTable, apStore, apCache>>
  PROVE  AccessInv'
  BY DEF AccessInv

LEMMA AccessStep == ASSUME AccessInv, [AccessNext]_accessVars PROVE AccessInv'
<1>1. ASSUME NEW u \in ApUsers, NEW role \in ApRows, GrantRole(u, role) PROVE AccessInv'
  BY <1>1 DEF GrantRole, AccessInv
<1>2. CASE LoadFetches
  BY <1>2 DEF LoadFetches, AccessInv
<1>3. CASE LoadFails
  BY <1>3 DEF LoadFails, AccessInv, Nobody, RoleNames
<1>4. CASE LoadStores
  BY <1>4 DEF LoadStores, AccessInv, RoleNames
<1>5. ASSUME NEW c \in ApChecks, NEW q \in ApRequests, CheckBegins(c, q) PROVE AccessInv'
  <2> DEFINE role == GetRole(apStore, q.user)
             pc == RoleRead(c, role)
             x == [pc |-> pc, req |-> q, role |-> role, verdict |-> IF pc = "done" THEN "deny" ELSE "none",
                   why |-> IF pc = "done" THEN "role" ELSE "none", from |-> Miss]
  <2>1. role \in RoleNames
    BY DEF GetRole, RoleNames
  <2>2. pc \in {"done", "cache"} /\ (pc = "cache" => role # "none")
    BY DEF RoleRead
  <2>3. apCheck' = [apCheck EXCEPT ![c] = x] /\ UNCHANGED <<apTable, apStore, apCache>>
    BY <1>5 DEF CheckBegins
  <2> HIDE DEF role, pc
  <2>4. x \in CheckType
    BY <2>1, <2>2, MissSound DEF CheckType, Verdicts, Asked
  <2>5. CheckSound(x)
    BY <2>1, <2>2 DEF CheckSound
  <2> HIDE DEF x
  <2> QED
    BY <2>3, <2>4, <2>5, CheckMoves
<1>6. ASSUME NEW c \in ApChecks, CacheHit(c) PROVE AccessInv'
  <2> DEFINE k == CacheKey(apCheck[c].req)
             e == apCache[k]
             x == [apCheck[c] EXCEPT !.pc = "done", !.why = "cache", !.verdict = e.verdict, !.from = e]
  <2>1. apCheck[c] \in CheckType /\ CheckSound(apCheck[c]) /\ apCheck[c].pc = "cache"
    BY <1>6 DEF CacheHit, AccessInv
  <2>2. k \in ApKeys
    BY <2>1 DEF CheckSound, ApKeys
  <2>3. e \in EntryType /\ EntrySound(k, e)
    BY <2>2 DEF AccessInv
  <2>4. apCheck' = [apCheck EXCEPT ![c] = x] /\ UNCHANGED <<apTable, apStore, apCache>>
    BY <1>6 DEF CacheHit, AccessInv, CheckType
  <2> HIDE DEF e
  <2>5. x \in CheckType
    BY <2>1, <2>3 DEF CheckType, EntryType
  <2>6. CheckSound(x)
    <3>1. /\ x.pc = "done" /\ x.why = "cache" /\ x.verdict = e.verdict /\ x.from = e
          /\ x.req = apCheck[c].req /\ x.role = apCheck[c].role
      BY <2>1 DEF CheckType
    <3>2. x.req \in ApRequests /\ x.role # "none" /\ CacheKey(x.req) = k
      BY <2>1, <3>1 DEF CheckSound
    <3> HIDE DEF x, k
    <3>3. e.verdict = "allow" => e.age < ApTTL /\ OpaAllows(e.role, e.req) /\ CacheKey(e.req) = k
      BY <2>3, AccessAssumption DEF EntrySound, EntryType
    <3> QED
      BY <3>1, <3>2, <3>3 DEF CheckSound
  <2> HIDE DEF x
  <2> QED
    BY <2>4, <2>5, <2>6, CheckMoves
<1>7. ASSUME NEW c \in ApChecks, CacheMiss(c) PROVE AccessInv'
  <2> DEFINE x == [apCheck[c] EXCEPT !.pc = "opa"]
  <2>1. apCheck[c] \in CheckType /\ CheckSound(apCheck[c]) /\ apCheck[c].pc = "cache"
    BY <1>7 DEF CacheMiss, AccessInv
  <2>2. x \in CheckType /\ CheckSound(x)
    BY <2>1 DEF CheckType, CheckSound
  <2>3. apCheck' = [apCheck EXCEPT ![c] = x] /\ UNCHANGED <<apTable, apStore, apCache>>
    BY <1>7 DEF CacheMiss
  <2> HIDE DEF x
  <2> QED
    BY <2>2, <2>3, CheckMoves
<1>8. ASSUME NEW c \in ApChecks, NEW down \in BOOLEAN, QueryOpa(c, down) PROVE AccessInv'
  <2> DEFINE v == OpaVerdict(c, down)
             why == IF down THEN "outage" ELSE "opa"
             x == [apCheck[c] EXCEPT !.pc = "stores", !.verdict = v, !.why = why]
  <2>1. apCheck[c] \in CheckType /\ CheckSound(apCheck[c]) /\ apCheck[c].pc = "opa"
    BY <1>8 DEF QueryOpa, AccessInv
  <2>2. v \in {"allow", "deny"} /\ (v = "allow" => ~down /\ OpaAllows(apCheck[c].role, apCheck[c].req))
    BY DEF OpaVerdict
  <2>3. why \in {"opa", "outage"} /\ (~down => why = "opa")
    OBVIOUS
  <2>4. apCheck' = [apCheck EXCEPT ![c] = x] /\ UNCHANGED <<apTable, apStore, apCache>>
    BY <1>8 DEF QueryOpa, AccessInv, CheckType
  <2> HIDE DEF v, why
  <2>5. x \in CheckType
    BY <2>1, <2>2, <2>3 DEF CheckType, Verdicts
  <2>6. CheckSound(x)
    <3>1. /\ x.pc = "stores" /\ x.why = why /\ x.verdict = v
          /\ x.req = apCheck[c].req /\ x.role = apCheck[c].role
      BY <2>1 DEF CheckType
    <3>2. x.req \in ApRequests /\ x.role # "none"
      BY <2>1, <3>1 DEF CheckSound
    <3> HIDE DEF x
    <3> QED
      BY <2>2, <2>3, <3>1, <3>2 DEF CheckSound
  <2> HIDE DEF x
  <2> QED
    BY <2>4, <2>5, <2>6, CheckMoves
<1>9. ASSUME NEW c \in ApChecks, NEW stored \in BOOLEAN, CacheSet(c, stored) PROVE AccessInv'
  <2> DEFINE k == CacheKey(apCheck[c].req)
             x == [apCheck[c] EXCEPT !.pc = "done"]
             e == Entry(c)
  <2>1. apCheck[c] \in CheckType /\ CheckSound(apCheck[c]) /\ apCheck[c].pc = "stores"
    BY <1>9 DEF CacheSet, AccessInv
  <2>2. x \in CheckType /\ CheckSound(x)
    BY <2>1 DEF CheckType, CheckSound
  <2>3. k \in ApKeys
    BY <2>1 DEF CheckSound, ApKeys
  <2>4. e \in EntryType /\ EntrySound(k, e)
    BY <2>1, AccessAssumption DEF Entry, EntryType, CheckType, EntrySound, CheckSound
  <2>5. apCheck' = [apCheck EXCEPT ![c] = x] /\ UNCHANGED <<apTable, apStore>>
        /\ apCache' = IF stored THEN [apCache EXCEPT ![k] = e] ELSE apCache
    BY <1>9 DEF CacheSet
  <2> HIDE DEF x, k, e
  <2>6. apCache' \in [ApKeys -> EntryType] /\ \A j \in ApKeys : EntrySound(j, apCache'[j])
    BY <2>3, <2>4, <2>5 DEF AccessInv
  <2> QED
    BY <2>2, <2>5, <2>6 DEF AccessInv
<1>10. CASE AccessTick
  <2> DEFINE older(k) == IF apCache[k].left <= 1 THEN Miss ELSE [apCache[k] EXCEPT !.left = @ - 1, !.age = @ + 1]
  <2>1. ASSUME NEW k \in ApKeys PROVE older(k) \in EntryType /\ EntrySound(k, older(k))
    <3>1. apCache[k] \in EntryType /\ EntrySound(k, apCache[k])
      BY DEF AccessInv
    <3>2. CASE apCache[k].left <= 1
      BY <3>2, MissSound
    <3>3. CASE ~(apCache[k].left <= 1)
      <4> DEFINE e == apCache[k]
      <4>1. e \in EntryType /\ e.verdict # "none" /\ EntrySound(k, e)
        BY <3>1, <3>3 DEF EntrySound
      <4>2. older(k) = [e EXCEPT !.left = e.left - 1, !.age = e.age + 1]
        BY <3>3
      <4> HIDE DEF e, older
      <4>3. /\ older(k).verdict = e.verdict /\ older(k).role = e.role /\ older(k).req = e.req
            /\ older(k).left = e.left - 1 /\ older(k).age = e.age + 1
        BY <4>1, <4>2 DEF EntryType
      <4>4. e.left - 1 \in 1 .. ApTTL /\ e.age + 1 \in 0 .. ApTTL /\ e.age + 1 + (e.left - 1) = ApTTL
        <5>1. e.left \in 0 .. ApTTL /\ e.age \in 0 .. ApTTL /\ e.left > 1 /\ e.age + e.left = ApTTL
          BY <3>3, <4>1 DEF EntryType, EntrySound, e
        <5> QED
          BY <5>1, AccessAssumption
      <4>5. older(k) \in EntryType
        <5> DEFINE left == e.left - 1
                   age == e.age + 1
        <5>1. left \in 0 .. ApTTL /\ age \in 0 .. ApTTL /\ older(k) = [e EXCEPT !.left = left, !.age = age]
          BY <4>2, <4>4, AccessAssumption
        <5> HIDE DEF left, age
        <5> QED
          BY <4>1, <5>1 DEF EntryType
      <4> QED
        BY <4>1, <4>3, <4>4, <4>5, AccessAssumption DEF EntrySound
    <3> QED
      BY <3>2, <3>3
  <2>2. apCache' = [k \in ApKeys |-> older(k)] /\ UNCHANGED <<apTable, apStore, apCheck>>
    BY <1>10 DEF AccessTick
  <2> HIDE DEF older
  <2> QED
    BY <2>1, <2>2 DEF AccessInv
<1>11. CASE UNCHANGED accessVars
  BY <1>11 DEF accessVars, AccessInv
<1> QED
  BY <1>1, <1>2, <1>3, <1>4, <1>5, <1>6, <1>7, <1>8, <1>9, <1>10, <1>11 DEF AccessNext

\* No call is allowed that OPA did not allow, for the role its user had when the call
\* began or, within the TTL, for the call whose verdict the cache kept under the same
\* key; an outage allows nothing and a failed load grants nothing: for any users,
\* requests, role table, TTL and number of concurrent calls (rbac/policy_engine.py
\* check, rbac/roles.py load).
THEOREM AllowsAreJustified == AccessSpec => []AllowsJustified
<1>1. AccessInv => AllowsJustified
  BY DEF AccessInv, CheckSound, AllowsJustified, RbacAllows, OpaAllows
<1> QED
  BY <1>1, AccessStarts, AccessStep, PTL DEF AccessSpec

\* The variables of the access decisions keep their types.
THEOREM AccessTyped == AccessSpec => []AccessTypeOK
<1>1. AccessInv => AccessTypeOK
  BY DEF AccessInv, AccessTypeOK, CheckType, EntryType, RoleNames
<1> QED
  BY <1>1, AccessStarts, AccessStep, PTL DEF AccessSpec
-----------------------------------------------------------------------------
(* The Langfuse exporter.  Batches leave the worker in order, so whatever is *)
(* stashed is older than the batch in hand; before flush() the stash is      *)
(* _pending, afterwards what flush() still has to do.                        *)

LfBatchType == [pc : LfPlaces, tries : 0 .. LfMaxRetries + 1, posts : Nat]
LfOpen == {"queued", "posting"}
LfKept == IF lfFlush.pc = "none" THEN lfPending ELSE lfFlush.todo

\* How often a batch was posted, by where it is.
TriesSound(x) ==
  /\ x.pc = "queued" => x.tries = 0
  /\ x.pc = "posting" => x.tries < LfMaxRetries
  /\ x.pc = "stashed" => x.tries <= LfMaxRetries

BatchesSound == lfBatch \in [Batches -> LfBatchType] /\ \A b \in Batches : TriesSound(lfBatch[b])

InOrder == \A a, b \in Batches : a < b /\ lfBatch[b].pc # "queued" => lfBatch[a].pc \notin LfOpen

PhaseSound ==
  /\ lfPending \in Seq(Batches) /\ Len(lfPending) <= PendingCap
  /\ lfFlush \in [pc : {"none", "running", "done"}, todo : Seq(Batches)]
  /\ lfFlush.pc = "none" => lfFlush.todo = <<>>
  /\ lfFlush.pc # "none" => lfPending = <<>> /\ \A b \in Batches : lfBatch[b].pc # "posting"

\* The queue holds the stashed batches, oldest first, and only older ones overflowed.
KeptSound(queue, batch) ==
  /\ queue \in Seq(Batches)
  /\ \A i, j \in 1 .. Len(queue) : i < j => queue[i] < queue[j]
  /\ \A b \in Batches : batch[b].pc = "stashed" <=> \E i \in 1 .. Len(queue) : queue[i] = b
  /\ \A b \in Batches, i \in 1 .. Len(queue) : batch[b].pc = "overflowed" => b < queue[i]

StoredSound ==
  \A b \in Batches : {o \in lfStored : o[1] = b} = IF lfBatch[b].posts > 0 THEN Payload(b, 0) ELSE {}

BreakerSound ==
  /\ lfBreaker \in [state : {"closed", "open", "ready", "half"}, failures : Nat, probe : BOOLEAN]
  /\ ProbeReturns

LangfuseInv ==
  BatchesSound /\ InOrder /\ PhaseSound /\ KeptSound(LfKept, lfBatch) /\ StoredSound /\ BreakerSound

LEMMA BatchesNumbered == Batches \subseteq Nat
  BY LangfuseAssumption DEF Batches

\* _stash(): the batch joins the queue as its youngest, and beyond the cap the oldest
\* leaves it.
LEMMA StashSound ==
  ASSUME NEW batch \in [Batches -> LfBatchType], NEW b \in Batches,
         KeptSound(lfPending, batch), Len(lfPending) <= PendingCap,
         batch[b].pc \notin {"stashed", "overflowed"},
         \A k \in Batches : batch[k].pc \in {"stashed", "overflowed"} => k < b
  PROVE  /\ KeptSound(Stashed(b, batch).pending, Stashed(b, batch).batch)
         /\ Len(Stashed(b, batch).pending) <= PendingCap
         /\ Stashed(b, batch).batch \in [Batches -> LfBatchType]
         /\ Stashed(b, batch).batch[b] = [batch[b] EXCEPT !.pc = "stashed"]
         /\ \A k \in Batches \ {b} :
              \/ Stashed(b, batch).batch[k] = batch[k]
              \/ batch[k].pc = "stashed" /\ Stashed(b, batch).batch[k] = [batch[k] EXCEPT !.pc = "overflowed"]
<1> DEFINE after == Stashed(b, batch).batch
           queue == Stashed(b, batch).pending
           all == Append(lfPending, b)
           n == Len(lfPending)
           x == [batch[b] EXCEPT !.pc = "stashed"]
           in == [batch EXCEPT ![b] = x]
<1>0. Batches \subseteq Nat /\ n \in Nat /\ lfPending \in Seq(Batches) /\ PendingCap \in Nat \ {0}
  BY BatchesNumbered, LangfuseAssumption DEF KeptSound
<1>1. x \in LfBatchType /\ x.pc = "stashed" /\ in \in [Batches -> LfBatchType]
  BY DEF LfBatchType, LfPlaces
<1>2. all \in Seq(Batches) /\ Len(all) = n + 1 /\ all[n + 1] = b /\ \A i \in 1 .. n : all[i] = lfPending[i]
  BY <1>0
<1>3. Stashed(b, batch) = IF Len(all) > PendingCap
                          THEN [pending |-> Tail(all), batch |-> [in EXCEPT ![Head(all)].pc = "overflowed"]]
                          ELSE [pending |-> all, batch |-> in]
  BY DEF Stashed
<1>4. \A i \in 1 .. n : lfPending[i] \in Batches /\ batch[lfPending[i]].pc = "stashed" /\ lfPending[i] < b
  <2> SUFFICES ASSUME NEW i \in 1 .. n
               PROVE  lfPending[i] \in Batches /\ batch[lfPending[i]].pc = "stashed" /\ lfPending[i] < b
    OBVIOUS
  <2>1. lfPending[i] \in Batches
    BY <1>0
  <2>2. \E j \in 1 .. Len(lfPending) : lfPending[j] = lfPending[i]
    OBVIOUS
  <2>3. batch[lfPending[i]].pc = "stashed"
    BY <2>1, <2>2 DEF KeptSound
  <2> QED
    BY <2>1, <2>3
<1> SUFFICES /\ KeptSound(queue, after) /\ Len(queue) <= PendingCap
             /\ after \in [Batches -> LfBatchType]
             /\ after[b] = [batch[b] EXCEPT !.pc = "stashed"]
             /\ \A k \in Batches \ {b} :
                  \/ after[k] = batch[k]
                  \/ batch[k].pc = "stashed" /\ after[k] = [batch[k] EXCEPT !.pc = "overflowed"]
  OBVIOUS
<1>9. after = Stashed(b, batch).batch /\ queue = Stashed(b, batch).pending
  OBVIOUS
<1> HIDE DEF all, x, in, after, queue
<1>5. \A i, j \in 1 .. n + 1 : i < j => all[i] < all[j]
  <2> SUFFICES ASSUME NEW i \in 1 .. n + 1, NEW j \in 1 .. n + 1, i < j PROVE all[i] < all[j]
    OBVIOUS
  <2>1. CASE j = n + 1
    BY <1>0, <1>2, <1>4, <2>1
  <2>2. CASE j \in 1 .. n
    <3>1. i \in 1 .. n /\ all[i] = lfPending[i] /\ all[j] = lfPending[j]
      BY <1>0, <1>2, <2>2
    <3> QED
      BY <2>2, <3>1 DEF KeptSound
  <2> QED
    BY <1>0, <2>1, <2>2
<1>6. KeptSound(all, in)
  <2>1. ASSUME NEW k \in Batches PROVE in[k].pc = "stashed" <=> \E i \in 1 .. n + 1 : all[i] = k
    <3>1. CASE k = b
      BY <1>0, <1>1, <1>2, <3>1 DEF in
    <3>2. CASE k # b
      <4>1. in[k] = batch[k]
        BY <3>2 DEF in
      <4>2. (\E i \in 1 .. n + 1 : all[i] = k) <=> (\E i \in 1 .. n : lfPending[i] = k)
        BY <1>0, <1>2, <3>2
      <4> QED
        BY <4>1, <4>2 DEF KeptSound
    <3> QED
      BY <3>1, <3>2
  <2>2. ASSUME NEW k \in Batches, NEW i \in 1 .. n + 1, in[k].pc = "overflowed" PROVE k < all[i]
    <3>1. k # b /\ batch[k].pc = "overflowed"
      BY <1>1, <2>2 DEF in
    <3>2. CASE i = n + 1
      BY <1>2, <3>1, <3>2
    <3>3. CASE i \in 1 .. n
      BY <1>2, <3>1, <3>3 DEF KeptSound
    <3> QED
      BY <1>0, <3>2, <3>3
  <2> QED
    BY <1>2, <1>5, <2>1, <2>2 DEF KeptSound
<1>7. CASE ~(Len(all) > PendingCap)
  <2>1. after = in /\ queue = all
    BY <1>3, <1>7, <1>9
  <2> QED
    BY <1>0, <1>1, <1>2, <1>6, <1>7, <2>1 DEF in, x
<1>8. CASE Len(all) > PendingCap
  <2> DEFINE h == all[1]
             y == [batch[h] EXCEPT !.pc = "overflowed"]
             t == Tail(all)
  <2>1. n >= 1 /\ n <= PendingCap /\ 1 \in 1 .. n /\ h = lfPending[1] /\ Head(all) = h
    BY <1>0, <1>2, <1>8
  <2>2. h \in Batches /\ h < b /\ h # b /\ batch[h].pc = "stashed" /\ in[h] = batch[h]
    BY <1>0, <1>4, <2>1 DEF in
  <2>3. t \in Seq(Batches) /\ Len(t) = n /\ \A i \in 1 .. n : t[i] = all[i + 1]
    BY <1>0, <1>2
  <2>4. y \in LfBatchType /\ y.pc = "overflowed"
    BY <2>2 DEF LfBatchType, LfPlaces
  <2>5. after = [in EXCEPT ![h] = y] /\ queue = t
    <3>1. after = [in EXCEPT ![Head(all)].pc = "overflowed"] /\ queue = t
      BY <1>3, <1>8, <1>9
    <3>2. after = [in EXCEPT ![h].pc = "overflowed"]
      BY <2>1, <3>1
    <3>3. after = [in EXCEPT ![h] = [in[h] EXCEPT !.pc = "overflowed"]]
      BY <3>2
    <3> QED
      BY <2>2, <3>1, <3>3
  <2> HIDE DEF h, y, t
  <2>6. \A i \in 1 .. n : h < t[i]
    BY <1>0, <1>5, <2>1, <2>3 DEF h
  <2>7. KeptSound(t, after)
    <3>1. \A i, j \in 1 .. n : i < j => t[i] < t[j]
      BY <1>0, <1>5, <2>3
    <3>2. ASSUME NEW k \in Batches PROVE after[k].pc = "stashed" <=> \E i \in 1 .. n : t[i] = k
      <4>1. CASE k = h
        BY <1>0, <1>1, <2>2, <2>3, <2>4, <2>5, <2>6, <4>1
      <4>2. CASE k # h
        <5>1. after[k] = in[k]
          BY <2>5, <4>2
        <5>2. (\E i \in 1 .. n : t[i] = k) <=> (\E i \in 1 .. n + 1 : all[i] = k)
          <6>1. ASSUME NEW i \in 1 .. n + 1, all[i] = k PROVE \E j \in 1 .. n : t[j] = k
            <7>1. i # 1
              BY <4>2, <6>1 DEF h
            <7>2. i - 1 \in 1 .. n /\ t[i - 1] = k
              BY <1>0, <2>3, <6>1, <7>1
            <7> QED
              BY <7>2
          <6>2. ASSUME NEW i \in 1 .. n, t[i] = k PROVE \E j \in 1 .. n + 1 : all[j] = k
            <7>1. i + 1 \in 1 .. n + 1 /\ all[i + 1] = k
              BY <1>0, <2>3, <6>2
            <7> QED
              BY <7>1
          <6> QED
            BY <6>1, <6>2
        <5>3. in[k].pc = "stashed" <=> \E i \in 1 .. n + 1 : all[i] = k
          BY <1>2, <1>6 DEF KeptSound
        <5> QED
          BY <5>1, <5>2, <5>3
      <4> QED
        BY <4>1, <4>2
    <3>3. ASSUME NEW k \in Batches, NEW i \in 1 .. n, after[k].pc = "overflowed" PROVE k < t[i]
      <4>1. CASE k = h
        BY <2>6, <4>1
      <4>2. CASE k # h
        <5>1. in[k].pc = "overflowed" /\ i + 1 \in 1 .. n + 1 /\ t[i] = all[i + 1]
          BY <1>0, <2>3, <2>5, <3>3, <4>2
        <5> QED
          BY <1>2, <1>6, <5>1 DEF KeptSound
      <4> QED
        BY <4>1, <4>2
    <3> QED
      BY <2>3, <3>1, <3>2, <3>3 DEF KeptSound
  <2>8. after \in [Batches -> LfBatchType]
    BY <1>1, <2>2, <2>4, <2>5
  <2>9. after[b] = x /\ after[h] = y /\ \A k \in Batches \ {b, h} : after[k] = batch[k]
    BY <1>1, <2>2, <2>5 DEF in
  <2> QED
    BY <2>1, <2>2, <2>3, <2>5, <2>7, <2>8, <2>9 DEF x, y
<1> QED
  BY <1>7, <1>8

\* A batch that is neither stashed nor overflowed, before and after, moves nothing
\* in the queue.
LEMMA KeptElsewhere ==
  ASSUME NEW queue, NEW batch \in [Batches -> LfBatchType], KeptSound(queue, batch), NEW b \in Batches, NEW x,
         batch[b].pc \notin {"stashed", "overflowed"}, x.pc \notin {"stashed", "overflowed"}
  PROVE  KeptSound(queue, [batch EXCEPT ![b] = x])
<1> DEFINE after == [batch EXCEPT ![b] = x]
<1>1. after[b] = x /\ \A k \in Batches : k # b => after[k] = batch[k]
  OBVIOUS
<1> HIDE DEF after
<1>2. \A k \in Batches : /\ after[k].pc = "stashed" <=> batch[k].pc = "stashed"
                         /\ after[k].pc = "overflowed" <=> batch[k].pc = "overflowed"
  BY <1>1
<1>3. KeptSound(queue, after)
  BY <1>2 DEF KeptSound
<1> QED
  BY <1>3 DEF after

\* The oldest of the queue is taken out of it for good.
LEMMA KeptTaken ==
  ASSUME NEW queue, NEW batch \in [Batches -> LfBatchType], KeptSound(queue, batch), queue # <<>>,
         NEW x, x.pc \notin {"stashed", "overflowed"}
  PROVE  /\ queue[1] \in Batches /\ batch[queue[1]].pc = "stashed" /\ Head(queue) = queue[1]
         /\ KeptSound(Tail(queue), [batch EXCEPT ![queue[1]] = x])
<1> DEFINE b == queue[1]
           n == Len(queue)
           t == Tail(queue)
           after == [batch EXCEPT ![b] = x]
<1>1. queue \in Seq(Batches) /\ n \in Nat /\ n >= 1 /\ b \in Batches /\ Head(queue) = b
  BY DEF KeptSound
<1>2. t \in Seq(Batches) /\ Len(t) = n - 1 /\ \A i \in 1 .. n - 1 : t[i] = queue[i + 1]
  BY <1>1
<1>3. batch[b].pc = "stashed"
  <2>1. \E i \in 1 .. n : queue[i] = b
    BY <1>1
  <2> QED
    BY <1>1, <2>1 DEF KeptSound
<1>4. after[b] = x /\ \A k \in Batches : k # b => after[k] = batch[k]
  BY <1>1
<1> HIDE DEF t, after
<1>5. \A i \in 1 .. n - 1 : t[i] \in Batches /\ b < t[i]
  BY <1>1, <1>2 DEF KeptSound
<1>6. \A i, j \in 1 .. n - 1 : i < j => t[i] < t[j]
  <2> SUFFICES ASSUME NEW i \in 1 .. n - 1, NEW j \in 1 .. n - 1, i < j PROVE t[i] < t[j]
    OBVIOUS
  <2>1. i + 1 \in 1 .. n /\ j + 1 \in 1 .. n /\ i + 1 < j + 1 /\ t[i] = queue[i + 1] /\ t[j] = queue[j + 1]
    BY <1>1, <1>2
  <2> QED
    BY <2>1 DEF KeptSound
<1>7. ASSUME NEW k \in Batches PROVE after[k].pc = "stashed" <=> \E i \in 1 .. n - 1 : t[i] = k
  <2>1. CASE k = b
    BY <1>1, <1>4, <1>5, <2>1, BatchesNumbered
  <2>2. CASE k # b
    <3>1. (\E i \in 1 .. n - 1 : t[i] = k) <=> (\E i \in 1 .. n : queue[i] = k)
      <4>1. ASSUME NEW i \in 1 .. n, queue[i] = k PROVE \E j \in 1 .. n - 1 : t[j] = k
        <5>1. i - 1 \in 1 .. n - 1 /\ t[i - 1] = k
          BY <1>1, <1>2, <2>2, <4>1
        <5> QED
          BY <5>1
      <4>2. ASSUME NEW i \in 1 .. n - 1, t[i] = k PROVE \E j \in 1 .. n : queue[j] = k
        <5>1. i + 1 \in 1 .. n /\ queue[i + 1] = k
          BY <1>1, <1>2, <4>2
        <5> QED
          BY <5>1
      <4> QED
        BY <4>1, <4>2
    <3>2. batch[k].pc = "stashed" <=> \E i \in 1 .. n : queue[i] = k
      BY DEF KeptSound
    <3> QED
      BY <1>4, <2>2, <3>1, <3>2
  <2> QED
    BY <2>1, <2>2
<1>8. ASSUME NEW k \in Batches, NEW i \in 1 .. n - 1, after[k].pc = "overflowed" PROVE k < t[i]
  <2>1. k # b /\ batch[k].pc = "overflowed" /\ i + 1 \in 1 .. n /\ t[i] = queue[i + 1]
    BY <1>1, <1>2, <1>4, <1>8
  <2> QED
    BY <2>1 DEF KeptSound
<1>9. KeptSound(t, after)
  BY <1>2, <1>6, <1>7, <1>8 DEF KeptSound
<1> QED
  BY <1>1, <1>3, <1>9 DEF t, after

\* An observation carries its batch, whichever attempt sent it; so a batch posted
\* again adds nothing.
LEMMA PayloadOfBatch ==
  ASSUME NEW b, NEW attempt
  PROVE  Payload(b, attempt) = Payload(b, 0) /\ \A o \in Payload(b, attempt) : o[1] = b
  BY DEF Payload, SpanObservation, EventObservations, EventId

LEMMA StoredGrows ==
  ASSUME BatchesSound, StoredSound, NEW b \in Batches, NEW o \in LfOutcomes, lfStored' = lfStored \cup Taken(b, o),
         lfBatch'[b].posts = IF o \in {"accepted", "lost"} THEN lfBatch[b].posts + 1 ELSE lfBatch[b].posts,
         \A k \in Batches : k # b => lfBatch'[k].posts = lfBatch[k].posts
  PROVE  StoredSound'
<1> DEFINE p == Payload(b, 0)
<1>1. \A x \in p : x[1] = b
  BY PayloadOfBatch
<1>2. CASE o \in {"accepted", "lost"}
  <2>1. Taken(b, o) = p
    BY <1>2, PayloadOfBatch DEF Taken
  <2>2. lfBatch'[b].posts > 0
    BY <1>2 DEF BatchesSound, LfBatchType
  <2> HIDE DEF p
  <2>3. ASSUME NEW k \in Batches
        PROVE  {x \in lfStored' : x[1] = k} = IF lfBatch'[k].posts > 0 THEN Payload(k, 0) ELSE {}
    <3>1. CASE k = b
      <4>1. {x \in lfStored : x[1] = b} \subseteq p
        BY DEF StoredSound, p
      <4>2. {x \in lfStored' : x[1] = b} = p
        BY <1>1, <2>1, <4>1
      <4> QED
        BY <2>2, <3>1, <4>2 DEF p
    <3>2. CASE k # b
      <4>1. {x \in lfStored' : x[1] = k} = {x \in lfStored : x[1] = k}
        BY <1>1, <2>1, <3>2
      <4> QED
        BY <3>2, <4>1 DEF StoredSound
    <3> QED
      BY <3>1, <3>2
  <2> QED
    BY <2>3 DEF StoredSound
<1>3. CASE o \notin {"accepted", "lost"}
  <2>1. lfStored' = lfStored /\ \A k \in Batches : lfBatch'[k].posts = lfBatch[k].posts
    BY <1>3 DEF Taken
  <2> QED
    BY <2>1 DEF StoredSound
<1> QED
  BY <1>2, <1>3

\* Batches are taken in order, and none is taken again.
LEMMA OrderKept ==
  ASSUME InOrder,
         \A k \in Batches : lfBatch[k].pc \notin LfOpen => lfBatch'[k].pc \notin LfOpen,
         \A k \in Batches : lfBatch'[k].pc # "queued" =>
           lfBatch[k].pc # "queued" \/ \A j \in Batches : j < k => lfBatch[j].pc \notin LfOpen
  PROVE  InOrder'
  BY DEF InOrder

\* Whatever has left the worker is older than the batch that has not.
LEMMA OlderThan ==
  ASSUME InOrder, NEW b \in Batches, NEW k \in Batches, lfBatch[b].pc \in LfOpen, lfBatch[k].pc \notin LfOpen
  PROVE  k < b
<1>1. k # b
  OBVIOUS
<1>2. ~(b < k)
  BY DEF InOrder, LfOpen
<1> QED
  BY <1>1, <1>2, BatchesNumbered

LEMMA LangfuseStarts == ASSUME LangfuseInit PROVE LangfuseInv
<1> USE LangfuseAssumption
<1>1. BatchesSound /\ InOrder
  BY DEF LangfuseInit, BatchesSound, InOrder, TriesSound, LfBatchType, LfPlaces, LfOpen
<1>2. PhaseSound /\ LfKept = <<>>
  BY DEF LangfuseInit, PhaseSound, LfKept
<1>3. KeptSound(<<>>, lfBatch)
  BY DEF LangfuseInit, KeptSound
<1>4. StoredSound /\ BreakerSound
  BY DEF LangfuseInit, StoredSound, BreakerSound, ProbeReturns
<1> QED
  BY <1>1, <1>2, <1>3, <1>4 DEF LangfuseInv

\* A batch after one more post, and the batch its end puts somewhere.
PostedOnce(b, o) ==
  [lfBatch[b] EXCEPT !.tries = @ + 1, !.posts = IF o \in {"accepted", "lost"} THEN @ + 1 ELSE @]

LEMMA CountedOnce ==
  ASSUME BatchesSound, NEW b \in Batches, NEW o \in LfOutcomes, lfBatch[b].tries <= LfMaxRetries
  PROVE  /\ LfCounted(b, o) = [lfBatch EXCEPT ![b] = PostedOnce(b, o)]
         /\ PostedOnce(b, o) \in LfBatchType /\ PostedOnce(b, o).pc = lfBatch[b].pc
         /\ PostedOnce(b, o).tries = lfBatch[b].tries + 1
         /\ PostedOnce(b, o).posts = IF o \in {"accepted", "lost"} THEN lfBatch[b].posts + 1 ELSE lfBatch[b].posts
<1> DEFINE x == lfBatch[b]
           tries == x.tries + 1
           posts == IF o \in {"accepted", "lost"} THEN x.posts + 1 ELSE x.posts
<1>1. x \in LfBatchType /\ tries \in 0 .. LfMaxRetries + 1 /\ posts \in Nat
  BY LangfuseAssumption DEF BatchesSound, LfBatchType
<1>2. PostedOnce(b, o) = [x EXCEPT !.tries = tries, !.posts = posts]
  BY DEF PostedOnce
<1>3. LfCounted(b, o) = [lfBatch EXCEPT ![b] = PostedOnce(b, o)]
  BY DEF LfCounted, PostedOnce, BatchesSound, LfBatchType
<1> HIDE DEF x, tries, posts
<1>4. PostedOnce(b, o) \in LfBatchType /\ PostedOnce(b, o).pc = x.pc /\ PostedOnce(b, o).tries = tries
      /\ PostedOnce(b, o).posts = posts
  BY <1>1, <1>2 DEF LfBatchType
<1> QED
  BY <1>3, <1>4 DEF x, tries, posts

\* The worker's batch is stashed.
LEMMA WorkerStashes ==
  ASSUME LangfuseInv, lfFlush.pc = "none", UNCHANGED lfFlush, NEW b \in Batches, lfBatch[b].pc \in LfOpen,
         \A j \in Batches : j < b => lfBatch[j].pc \notin LfOpen,
         NEW x \in LfBatchType, x.pc = lfBatch[b].pc, x.tries <= LfMaxRetries,
         lfBatch' = Stashed(b, [lfBatch EXCEPT ![b] = x]).batch,
         lfPending' = Stashed(b, [lfBatch EXCEPT ![b] = x]).pending
  PROVE  /\ BatchesSound' /\ InOrder' /\ PhaseSound' /\ KeptSound(LfKept', lfBatch')
         /\ lfBatch'[b].posts = x.posts /\ \A k \in Batches : k # b => lfBatch'[k].posts = lfBatch[k].posts
         /\ \A k \in Batches : k # b /\ lfBatch[k].pc \in {"posting", "raised"} => lfBatch'[k].pc = lfBatch[k].pc
<1> DEFINE batch == [lfBatch EXCEPT ![b] = x]
<1>1. BatchesSound /\ InOrder /\ PhaseSound /\ LfKept = lfPending /\ KeptSound(lfPending, lfBatch)
  BY DEF LangfuseInv, LfKept
<1>2. batch \in [Batches -> LfBatchType] /\ batch[b] = x /\ \A k \in Batches : k # b => batch[k] = lfBatch[k]
  BY <1>1 DEF BatchesSound
<1>3. KeptSound(lfPending, batch)
  BY <1>1, KeptElsewhere DEF LfOpen, BatchesSound
<1>4. \A k \in Batches : batch[k].pc \in {"stashed", "overflowed"} => k < b
  <2> SUFFICES ASSUME NEW k \in Batches, batch[k].pc \in {"stashed", "overflowed"} PROVE k < b
    OBVIOUS
  <2>1. k # b /\ lfBatch[k].pc \notin LfOpen
    BY <1>2 DEF LfOpen
  <2> QED
    BY <1>1, <2>1, OlderThan
<1>5. Len(lfPending) <= PendingCap /\ batch[b].pc \notin {"stashed", "overflowed"}
  BY <1>1, <1>2 DEF PhaseSound, LfOpen
<1>6. lfBatch' = Stashed(b, batch).batch /\ lfPending' = Stashed(b, batch).pending
  OBVIOUS
<1> HIDE DEF batch
<1>7. /\ KeptSound(lfPending', lfBatch') /\ Len(lfPending') <= PendingCap
      /\ lfBatch' \in [Batches -> LfBatchType]
      /\ lfBatch'[b] = [batch[b] EXCEPT !.pc = "stashed"]
      /\ \A k \in Batches \ {b} :
           \/ lfBatch'[k] = batch[k]
           \/ batch[k].pc = "stashed" /\ lfBatch'[k] = [batch[k] EXCEPT !.pc = "overflowed"]
  <2>1. /\ KeptSound(Stashed(b, batch).pending, Stashed(b, batch).batch)
        /\ Len(Stashed(b, batch).pending) <= PendingCap
        /\ Stashed(b, batch).batch \in [Batches -> LfBatchType]
        /\ Stashed(b, batch).batch[b] = [batch[b] EXCEPT !.pc = "stashed"]
        /\ \A k \in Batches \ {b} :
             \/ Stashed(b, batch).batch[k] = batch[k]
             \/ batch[k].pc = "stashed" /\ Stashed(b, batch).batch[k] = [batch[k] EXCEPT !.pc = "overflowed"]
    BY ONLY <1>2, <1>3, <1>4, <1>5, b \in Batches, StashSound
  <2> QED
    BY <1>6, <2>1
<1>8. lfBatch'[b].pc = "stashed" /\ lfBatch'[b].tries = x.tries /\ lfBatch'[b].posts = x.posts
  BY <1>2, <1>7 DEF LfBatchType
<1>9. ASSUME NEW k \in Batches, k # b
      PROVE  \/ lfBatch'[k] = lfBatch[k]
             \/ /\ lfBatch[k].pc = "stashed" /\ lfBatch'[k].pc = "overflowed"
                /\ lfBatch'[k].tries = lfBatch[k].tries /\ lfBatch'[k].posts = lfBatch[k].posts
  <2>1. batch[k] = lfBatch[k] /\ lfBatch[k] \in LfBatchType
    BY <1>1, <1>2, <1>9 DEF BatchesSound
  <2>2. lfBatch'[k] = lfBatch[k] \/ (lfBatch[k].pc = "stashed" /\ lfBatch'[k] = [lfBatch[k] EXCEPT !.pc = "overflowed"])
    BY <1>7, <1>9, <2>1
  <2> QED
    BY <2>1, <2>2 DEF LfBatchType
<1>10. BatchesSound'
  <2>1. ASSUME NEW k \in Batches PROVE TriesSound(lfBatch'[k])
    <3>1. TriesSound(lfBatch[k])
      BY <1>1 DEF BatchesSound
    <3> QED
      BY <1>8, <1>9, <3>1 DEF TriesSound
  <2> QED
    BY <1>7, <2>1 DEF BatchesSound
<1>11. InOrder'
  BY <1>1, <1>8, <1>9, OrderKept DEF LfOpen
<1>12. PhaseSound' /\ LfKept' = lfPending'
  BY <1>1, <1>7 DEF PhaseSound, KeptSound, LfKept
<1> QED
  BY <1>7, <1>8, <1>9, <1>10, <1>11, <1>12

\* The worker's batch goes on, or ends elsewhere than in the stash.
LEMMA WorkerMoves ==
  ASSUME LangfuseInv, lfFlush.pc = "none", UNCHANGED <<lfFlush, lfPending>>, NEW b \in Batches,
         lfBatch[b].pc \in LfOpen, \A j \in Batches : j < b => lfBatch[j].pc \notin LfOpen,
         NEW x \in LfBatchType, TriesSound(x), x.pc \notin {"queued", "stashed", "overflowed"},
         lfBatch' = [lfBatch EXCEPT ![b] = x]
  PROVE  /\ BatchesSound' /\ InOrder' /\ PhaseSound' /\ KeptSound(LfKept', lfBatch')
         /\ lfBatch'[b] = x /\ \A k \in Batches : k # b => lfBatch'[k] = lfBatch[k]
<1>1. BatchesSound /\ InOrder /\ PhaseSound /\ LfKept = lfPending /\ KeptSound(lfPending, lfBatch)
  BY DEF LangfuseInv, LfKept
<1>2. lfBatch'[b] = x /\ \A k \in Batches : k # b => lfBatch'[k] = lfBatch[k]
  BY <1>1 DEF BatchesSound
<1>3. BatchesSound'
  BY <1>1 DEF BatchesSound
<1>4. KeptSound(lfPending, lfBatch')
  BY <1>1, KeptElsewhere DEF LfOpen, BatchesSound
<1>5. InOrder'
  BY <1>1, <1>2, OrderKept DEF LfOpen
<1>6. PhaseSound' /\ LfKept' = lfPending
  BY <1>1 DEF PhaseSound, LfKept
<1> QED
  BY <1>2, <1>3, <1>4, <1>5, <1>6

LEMMA ExportStep == ASSUME LangfuseInv, NEW b \in Batches, Export(b) PROVE LangfuseInv'
<1> DEFINE r == lfBatch[b]
<1>1. BatchesSound /\ StoredSound /\ BreakerSound /\ r \in LfBatchType /\ r.pc = "queued" /\ r.tries = 0
      /\ lfFlush.pc = "none" /\ UNCHANGED <<lfFlush, lfStored>> /\ r.pc \in LfOpen
  BY DEF LangfuseInv, BatchesSound, TriesSound, Export, LfOpen
<1>2. \A j \in Batches : j < b => lfBatch[j].pc \notin LfOpen
  BY LangfuseAssumption DEF Export, LfOpen, Batches
<1>3. CASE AllowRequest
  <2> DEFINE x == [r EXCEPT !.pc = "posting"]
  <2>1. lfBatch' = [lfBatch EXCEPT ![b] = x] /\ lfBreaker' = Allowed /\ UNCHANGED lfPending
    BY <1>3 DEF Export
  <2>2. x \in LfBatchType /\ x.pc = "posting" /\ x.tries = 0 /\ x.posts = r.posts
    BY <1>1 DEF LfBatchType, LfPlaces
  <2>3. TriesSound(x)
    BY <2>2, LangfuseAssumption DEF TriesSound
  <2> HIDE DEF x
  <2>4. /\ BatchesSound' /\ InOrder' /\ PhaseSound' /\ KeptSound(LfKept', lfBatch')
        /\ lfBatch'[b] = x /\ \A k \in Batches : k # b => lfBatch'[k] = lfBatch[k]
    BY <1>1, <1>2, <2>1, <2>2, <2>3, WorkerMoves
  <2>5. StoredSound'
    BY <1>1, <2>2, <2>4 DEF StoredSound
  <2>6. BreakerSound'
    BY <1>1, <2>1, <2>2, <2>4 DEF BreakerSound, Allowed, ProbeReturns
  <2> QED
    BY <2>4, <2>5, <2>6 DEF LangfuseInv
<1>4. CASE ~AllowRequest
  <2>1. lfBatch' = Stashed(b, lfBatch).batch /\ lfPending' = Stashed(b, lfBatch).pending /\ UNCHANGED lfBreaker
    BY <1>4 DEF Export
  <2>2. [lfBatch EXCEPT ![b] = r] = lfBatch
    BY <1>1 DEF BatchesSound
  <2>3. /\ BatchesSound' /\ InOrder' /\ PhaseSound' /\ KeptSound(LfKept', lfBatch')
        /\ lfBatch'[b].posts = r.posts /\ \A k \in Batches : k # b => lfBatch'[k].posts = lfBatch[k].posts
        /\ \A k \in Batches : k # b /\ lfBatch[k].pc \in {"posting", "raised"} => lfBatch'[k].pc = lfBatch[k].pc
    BY <1>1, <1>2, <2>1, <2>2, WorkerStashes, LangfuseAssumption
  <2>4. StoredSound'
    BY <1>1, <2>3 DEF StoredSound
  <2>5. BreakerSound'
    BY <1>1, <2>1, <2>3 DEF BreakerSound, ProbeReturns
  <2> QED
    BY <2>3, <2>4, <2>5 DEF LangfuseInv
<1> QED
  BY <1>3, <1>4

\* One attempt of _post_with_retries(), in its four endings.
LEMMA PostStep == ASSUME LangfuseInv, NEW b \in Batches, NEW o \in LfOutcomes, Post(b, o) PROVE LangfuseInv'
<1> DEFINE r == lfBatch[b]
           x == PostedOnce(b, o)
           n == LfCounted(b, o)
           again == o \in {"lost", "transient"} /\ r.tries + 1 < LfMaxRetries
<1>1. BatchesSound /\ InOrder /\ PhaseSound /\ StoredSound /\ BreakerSound /\ r \in LfBatchType /\ TriesSound(r)
      /\ r.pc = "posting" /\ UNCHANGED lfFlush /\ lfStored' = lfStored \cup Taken(b, o)
  BY DEF LangfuseInv, BatchesSound, Post
<1>2. r.tries < LfMaxRetries /\ r.tries \in Nat /\ LfMaxRetries \in Nat /\ r.pc \in LfOpen /\ lfFlush.pc = "none"
  BY <1>1, LangfuseAssumption DEF TriesSound, LfBatchType, LfOpen, PhaseSound
<1>3. \A j \in Batches : j < b => lfBatch[j].pc \notin LfOpen
  BY <1>1 DEF InOrder
<1>4. /\ n = [lfBatch EXCEPT ![b] = x] /\ x \in LfBatchType /\ x.pc = "posting" /\ x.tries = r.tries + 1
      /\ x.posts = IF o \in {"accepted", "lost"} THEN r.posts + 1 ELSE r.posts
  BY <1>1, <1>2, CountedOnce
<1>5. \/ again /\ lfBatch' = n /\ UNCHANGED <<lfPending, lfBreaker>>
      \/ /\ ~again /\ o \in {"accepted", "rejected"} /\ lfBreaker' = RecordSuccess /\ UNCHANGED lfPending
         /\ lfBatch' = [n EXCEPT ![b].pc = IF o = "accepted" THEN "delivered" ELSE "rejected"]
      \/ /\ o = "raises" /\ lfBatch' = [n EXCEPT ![b].pc = "raised"] /\ UNCHANGED <<lfPending, lfBreaker>>
      \/ lfBatch' = Stashed(b, n).batch /\ lfPending' = Stashed(b, n).pending /\ lfBreaker' = RecordFailure
  BY DEF Post
<1> HIDE DEF n, x
\* An ending that leaves the stash alone.
<1>6. ASSUME NEW y \in LfBatchType, TriesSound(y), y.pc \notin {"queued", "stashed", "overflowed"}, y.posts = x.posts,
             lfBatch' = [lfBatch EXCEPT ![b] = y], UNCHANGED lfPending,
             \/ lfBreaker' = RecordSuccess
             \/ UNCHANGED lfBreaker /\ y.pc \in {"posting", "raised"}
      PROVE  LangfuseInv'
  <2>1. /\ BatchesSound' /\ InOrder' /\ PhaseSound' /\ KeptSound(LfKept', lfBatch')
        /\ lfBatch'[b] = y /\ \A k \in Batches : k # b => lfBatch'[k] = lfBatch[k]
    BY <1>1, <1>2, <1>3, <1>6, WorkerMoves
  <2>2. StoredSound'
    BY <1>1, <1>4, <1>6, <2>1, StoredGrows
  <2>3. BreakerSound'
    <3>1. CASE lfBreaker' = RecordSuccess
      BY <3>1 DEF BreakerSound, ProbeReturns, RecordSuccess
    <3>2. CASE UNCHANGED lfBreaker /\ y.pc \in {"posting", "raised"}
      <4>1. \E k \in Batches : lfBatch'[k].pc \in {"posting", "raised"}
        BY <2>1, <3>2
      <4> QED
        BY <1>1, <3>2, <4>1 DEF BreakerSound, ProbeReturns
    <3> QED
      BY <1>6, <3>1, <3>2
  <2> QED
    BY <2>1, <2>2, <2>3 DEF LangfuseInv
<1>7. CASE again /\ lfBatch' = n /\ UNCHANGED <<lfPending, lfBreaker>>
  <2>1. TriesSound(x)
    BY <1>2, <1>4, <1>7 DEF TriesSound
  <2> QED
    BY <1>4, <1>6, <1>7, <2>1
<1>8. CASE o \in {"accepted", "rejected"} /\ lfBreaker' = RecordSuccess /\ UNCHANGED lfPending
           /\ lfBatch' = [n EXCEPT ![b].pc = IF o = "accepted" THEN "delivered" ELSE "rejected"]
  <2> DEFINE p == IF o = "accepted" THEN "delivered" ELSE "rejected"
             y == [x EXCEPT !.pc = p]
  <2>1. p \in {"delivered", "rejected"}
    OBVIOUS
  <2>2. lfBatch' = [lfBatch EXCEPT ![b] = y]
    BY <1>1, <1>4, <1>8 DEF BatchesSound
  <2> HIDE DEF p
  <2>3. y \in LfBatchType /\ y.posts = x.posts /\ y.pc = p
    BY <1>4, <2>1 DEF LfBatchType, LfPlaces
  <2> HIDE DEF y
  <2>4. TriesSound(y)
    BY <2>1, <2>3 DEF TriesSound
  <2> QED
    BY <1>6, <1>8, <2>1, <2>2, <2>3, <2>4
<1>9. CASE o = "raises" /\ lfBatch' = [n EXCEPT ![b].pc = "raised"] /\ UNCHANGED <<lfPending, lfBreaker>>
  <2> DEFINE y == [x EXCEPT !.pc = "raised"]
  <2>1. lfBatch' = [lfBatch EXCEPT ![b] = y]
    BY <1>1, <1>4, <1>9 DEF BatchesSound
  <2>2. y \in LfBatchType /\ y.posts = x.posts /\ y.pc = "raised"
    BY <1>4 DEF LfBatchType, LfPlaces
  <2> HIDE DEF y
  <2>3. TriesSound(y)
    BY <2>2 DEF TriesSound
  <2> QED
    BY <1>6, <1>9, <2>1, <2>2, <2>3
<1>10. CASE lfBatch' = Stashed(b, n).batch /\ lfPending' = Stashed(b, n).pending /\ lfBreaker' = RecordFailure
  <2>1. lfBatch' = Stashed(b, [lfBatch EXCEPT ![b] = x]).batch
        /\ lfPending' = Stashed(b, [lfBatch EXCEPT ![b] = x]).pending
    BY <1>4, <1>10
  <2>2. x.tries <= LfMaxRetries /\ x.pc = lfBatch[b].pc
    BY <1>1, <1>2, <1>4
  <2>3. /\ BatchesSound' /\ InOrder' /\ PhaseSound' /\ KeptSound(LfKept', lfBatch')
        /\ lfBatch'[b].posts = x.posts /\ \A k \in Batches : k # b => lfBatch'[k].posts = lfBatch[k].posts
    BY <1>1, <1>2, <1>3, <1>4, <2>1, <2>2, WorkerStashes
  <2>4. StoredSound'
    BY <1>1, <1>4, <2>3, StoredGrows
  <2>5. BreakerSound'
    BY <1>1, <1>10 DEF BreakerSound, ProbeReturns, RecordFailure
  <2> QED
    BY <2>3, <2>4, <2>5 DEF LangfuseInv
<1> QED
  BY <1>5, <1>7, <1>8, <1>9, <1>10

LEMMA CoolsStep == ASSUME LangfuseInv, BreakerCools PROVE LangfuseInv'
<1>1. UNCHANGED <<lfBatch, lfPending, lfFlush, lfStored>> /\ LfKept' = LfKept
  BY DEF BreakerCools, LfKept
<1>2. BreakerSound'
  BY DEF LangfuseInv, BreakerCools, BreakerSound, ProbeReturns
<1> QED
  BY <1>1, <1>2 DEF LangfuseInv, BatchesSound, InOrder, PhaseSound, StoredSound

\* flush() takes the queue.
LEMMA FlushStep == ASSUME LangfuseInv, Flush PROVE LangfuseInv'
<1>1. LfKept = lfPending /\ LfKept' = lfPending /\ UNCHANGED <<lfBatch, lfBreaker, lfStored>>
  BY DEF Flush, LfKept
<1>2. PhaseSound'
  BY LangfuseAssumption DEF LangfuseInv, PhaseSound, Flush
<1> QED
  BY <1>1, <1>2 DEF LangfuseInv, BatchesSound, InOrder, StoredSound, BreakerSound, ProbeReturns

LEMMA FlushPostStep == ASSUME LangfuseInv, NEW o \in LfOutcomes, FlushPost(o) PROVE LangfuseInv'
<1> DEFINE b == lfFlush.todo[1]
           x == PostedOnce(b, o)
           p == IF o = "accepted" THEN "delivered" ELSE "flush_failed"
           y == [x EXCEPT !.pc = p]
           t == Tail(lfFlush.todo)
<1>1. BatchesSound /\ InOrder /\ PhaseSound /\ StoredSound /\ BreakerSound /\ KeptSound(lfFlush.todo, lfBatch)
      /\ lfFlush.pc = "running" /\ lfFlush.todo # <<>> /\ UNCHANGED <<lfPending, lfBreaker>>
  BY DEF LangfuseInv, FlushPost, LfKept
<1>2. b \in Batches /\ lfBatch[b].pc = "stashed" /\ Head(lfFlush.todo) = b /\ t \in Seq(Batches)
  <2>1. lfFlush.todo \in Seq(Batches) /\ b \in Batches /\ Head(lfFlush.todo) = b /\ t \in Seq(Batches)
    BY <1>1 DEF KeptSound
  <2>2. \E i \in 1 .. Len(lfFlush.todo) : lfFlush.todo[i] = b
    BY <1>1, <2>1
  <2> QED
    BY <1>1, <2>1, <2>2 DEF KeptSound
<1>3. lfBatch[b] \in LfBatchType /\ lfBatch[b].tries <= LfMaxRetries
  BY <1>1, <1>2 DEF BatchesSound, TriesSound
<1>4. /\ LfCounted(b, o) = [lfBatch EXCEPT ![b] = x] /\ x \in LfBatchType
      /\ x.posts = IF o \in {"accepted", "lost"} THEN lfBatch[b].posts + 1 ELSE lfBatch[b].posts
  BY <1>1, <1>2, <1>3, CountedOnce
<1>5. /\ lfStored' = lfStored \cup Taken(b, o) /\ lfFlush' = [lfFlush EXCEPT !.todo = t]
      /\ lfBatch' = [LfCounted(b, o) EXCEPT ![b].pc = p]
  BY <1>2 DEF FlushPost
<1> HIDE DEF b, x, t
<1>6. p \in {"delivered", "flush_failed"} /\ lfBatch' = [lfBatch EXCEPT ![b] = y]
  BY <1>1, <1>2, <1>4, <1>5 DEF BatchesSound
<1> HIDE DEF p
<1>7. y \in LfBatchType /\ y.posts = x.posts /\ y.pc = p
  BY <1>4, <1>6 DEF LfBatchType, LfPlaces
<1> HIDE DEF y
<1>8. lfBatch'[b] = y /\ \A k \in Batches : k # b => lfBatch'[k] = lfBatch[k]
  BY <1>1, <1>2, <1>6 DEF BatchesSound
<1>9. BatchesSound'
  <2>1. TriesSound(y)
    BY <1>6, <1>7 DEF TriesSound
  <2> QED
    BY <1>1, <1>6, <1>7, <2>1 DEF BatchesSound
<1>10. InOrder'
  BY <1>1, <1>2, <1>6, <1>7, <1>8, OrderKept DEF LfOpen
<1>11. PhaseSound' /\ LfKept' = t
  BY <1>1, <1>2, <1>5, <1>6, <1>7, <1>8 DEF PhaseSound, LfKept
<1>12. KeptSound(t, lfBatch')
  BY <1>1, <1>2, <1>6, <1>7, KeptTaken DEF b, t, BatchesSound
<1>13. StoredSound'
  BY <1>1, <1>2, <1>4, <1>5, <1>7, <1>8, StoredGrows
<1>14. BreakerSound'
  BY <1>1, <1>2, <1>8 DEF BreakerSound, ProbeReturns
<1> QED
  BY <1>9, <1>10, <1>11, <1>12, <1>13, <1>14 DEF LangfuseInv

\* What is cut was stashed, and nothing stays stashed.
LEMMA FlushEndsStep == ASSUME LangfuseInv, LfFlushEnds PROVE LangfuseInv'
<1> DEFINE todo == lfFlush.todo
<1>1. BatchesSound /\ InOrder /\ PhaseSound /\ StoredSound /\ BreakerSound /\ KeptSound(todo, lfBatch)
      /\ lfFlush.pc = "running" /\ UNCHANGED <<lfPending, lfBreaker, lfStored>>
  BY DEF LangfuseInv, LfFlushEnds, LfKept
<1>2. lfFlush' = [pc |-> "done", todo |-> <<>>]
      /\ lfBatch' = [b \in Batches |-> IF \E i \in 1 .. Len(todo) : todo[i] = b
                                       THEN [lfBatch[b] EXCEPT !.pc = "cut"] ELSE lfBatch[b]]
  BY DEF LfFlushEnds
<1>3. ASSUME NEW b \in Batches
      PROVE  /\ lfBatch'[b] \in LfBatchType /\ lfBatch'[b].posts = lfBatch[b].posts
             /\ lfBatch'[b].pc = IF lfBatch[b].pc = "stashed" THEN "cut" ELSE lfBatch[b].pc
             /\ TriesSound(lfBatch'[b])
  <2>1. lfBatch[b] \in LfBatchType /\ TriesSound(lfBatch[b])
    BY <1>1 DEF BatchesSound
  <2>2. lfBatch[b].pc = "stashed" <=> \E i \in 1 .. Len(todo) : todo[i] = b
    BY <1>1 DEF KeptSound
  <2>3. CASE lfBatch[b].pc = "stashed"
    <3>1. lfBatch'[b] = [lfBatch[b] EXCEPT !.pc = "cut"]
      BY <1>2, <2>2, <2>3
    <3> QED
      BY <2>1, <2>3, <3>1 DEF LfBatchType, LfPlaces, TriesSound
  <2>4. CASE lfBatch[b].pc # "stashed"
    <3>1. lfBatch'[b] = lfBatch[b]
      BY <1>2, <2>2, <2>4
    <3> QED
      BY <2>1, <2>4, <3>1
  <2> QED
    BY <2>3, <2>4
<1>4. BatchesSound'
  BY <1>2, <1>3 DEF BatchesSound
<1>5. InOrder'
  BY <1>1, <1>3, OrderKept DEF LfOpen
<1>6. PhaseSound' /\ LfKept' = <<>>
  BY <1>1, <1>2, <1>3 DEF PhaseSound, LfKept
<1>7. KeptSound(<<>>, lfBatch')
  BY <1>3 DEF KeptSound
<1>8. StoredSound' /\ BreakerSound'
  BY <1>1, <1>3 DEF StoredSound, BreakerSound, ProbeReturns
<1> QED
  BY <1>4, <1>5, <1>6, <1>7, <1>8 DEF LangfuseInv

LEMMA LangfuseStep == ASSUME LangfuseInv, [LangfuseNext]_langfuseVars PROVE LangfuseInv'
<1>1. CASE UNCHANGED langfuseVars
  <2>1. UNCHANGED <<lfBatch, lfPending, lfBreaker, lfFlush, lfStored>> /\ LfKept' = LfKept
    BY <1>1 DEF langfuseVars, LfKept
  <2> QED
    BY <2>1 DEF LangfuseInv, BatchesSound, InOrder, PhaseSound, StoredSound, BreakerSound, ProbeReturns
<1> QED
  BY <1>1, CoolsStep, ExportStep, PostStep, FlushStep, FlushPostStep, FlushEndsStep DEF LangfuseNext

\* No batch handed to the exporter is forgotten or kept twice, the backend holds its
\* observations once however often it was posted, and a probe of the breaker is lost
\* only to an exception: for any number of batches, events, attempts, cap and failures
\* (exporters/langfuse_exporter.py export, _stash, flush).
THEOREM LangfuseSafety == LangfuseSpec => []LangfuseSafe
<1>1. ASSUME LangfuseInv PROVE BatchesAccounted
  <2> DEFINE kept == lfFlush.todo \o lfPending
  <2>1. kept = LfKept
    BY <1>1 DEF LangfuseInv, PhaseSound, LfKept
  <2>2. KeptSound(kept, lfBatch) /\ Len(lfPending) <= PendingCap /\ StoredSound
    BY <1>1, <2>1 DEF LangfuseInv, PhaseSound
  <2> HIDE DEF kept
  <2>3. kept \in Seq(Batches) /\ Len(kept) \in Nat /\ \A i \in 1 .. Len(kept) : kept[i] \in Batches
    BY <2>2 DEF KeptSound
  <2>4. {b \in Batches : lfBatch[b].pc = "stashed"} = {kept[i] : i \in 1 .. Len(kept)}
    BY <2>2, <2>3 DEF KeptSound
  <2>5. \A i \in 1 .. Len(kept) - 1 : kept[i] < kept[i + 1]
    BY <2>2, <2>3 DEF KeptSound
  <2>6. \A b \in Batches, i \in 1 .. Len(kept) : lfBatch[b].pc = "overflowed" => b < kept[i]
    BY <2>2 DEF KeptSound
  <2> QED
    BY <2>2, <2>4, <2>5, <2>6 DEF BatchesAccounted, StoredSound, kept
<1>2. LangfuseInv => LangfuseSafe
  BY <1>1 DEF LangfuseSafe, LangfuseInv, BreakerSound
<1> QED
  BY <1>2, LangfuseStarts, LangfuseStep, PTL DEF LangfuseSpec

\* The exporter's variables keep their types: no batch is posted more often than its
\* attempts and the flush allow.
THEOREM LangfuseTyped == LangfuseSpec => []LangfuseTypeOK
<1>1. LangfuseInv => LangfuseTypeOK
  BY DEF LangfuseInv, BatchesSound, LfBatchType, PhaseSound, BreakerSound, LangfuseTypeOK
<1> QED
  BY <1>1, LangfuseStarts, LangfuseStep, PTL DEF LangfuseSpec

-----------------------------------------------------------------------------
(* The sampler proxy and the feedback policy.  The verdicts are nested since  *)
(* each is the bucket of its trace against a rate; an attempt is counted      *)
(* before its outcome is known; the reports chain since rate and report are   *)
(* one step.                                                                  *)

HandlerPcs == {"idle", "decide", "forward", "ok", "rejected", "exhausted", "refused"}
BatchSpans == [trace : DOMAIN TsBucket, mark : STRING]
HandlerRecord ==
  [pc : HandlerPcs, batch : Seq(BatchSpans), decided : SUBSET (DOMAIN TsBucket),
   kept : SUBSET (DOMAIN TsBucket), tries : Nat, got : Nat]

\* A handler: something is left to decide while it decides, something is kept
\* while it forwards, and attempts begin with forwarding.
HandlerSound(r) ==
  /\ r.pc = "decide" => ~(TracesOf(r.batch) \subseteq r.decided)
  /\ r.pc \in {"idle", "decide", "refused"} => r.tries = 0 /\ r.got = 0
  /\ r.pc = "idle" => r.decided = {} /\ r.kept = {}
  /\ r.pc = "forward" => r.kept # {} /\ r.tries <= TsRetries
  /\ r.tries <= TsRetries + 1 /\ r.got <= r.tries
  /\ r.pc = "ok" => (r.got >= 1 <=> r.kept # {})
  /\ r.pc = "exhausted" => r.tries = TsRetries + 1

\* The engine: the sampler has its rate unless a tick is between evaluation and
\* callback, and only a rate file in use is written.
EngineSound ==
  /\ tsEngine \in [reason : Reasons, pc : {"idle", "audit", "file"}, ticks : Nat, stop : BOOLEAN]
  /\ tsSampler \in Reasons
  /\ tsFile \in [on : BOOLEAN, reason : Reasons \cup {"none"}, failed : BOOLEAN]
  /\ tsEngine.pc \in {"idle", "file"} => tsSampler = tsEngine.reason
  /\ tsEngine.pc = "file" => tsFile.on
  /\ tsEngine.pc = "idle" /\ tsFile.on => tsFile.reason = tsEngine.reason \/ tsFile.failed

\* A decided group: its verdict is that of its bucket at the rate it met.
SeenSound(a) ==
  /\ a.trace \in DOMAIN TsBucket /\ a.rate \in Nat /\ {a.must, a.keep} \subseteq BOOLEAN
  /\ a.keep <=> a.must \/ TsBucket[a.trace] < a.rate

SamplerInv ==
  /\ EngineSound
  /\ tsHandler \in [TsHandlers -> HandlerRecord] /\ \A h \in TsHandlers : HandlerSound(tsHandler[h])
  /\ \A a \in tsSeen : SeenSound(a)

FbRates == {10, 25, 40}
FeedbackTyped ==
  /\ fb \in [now : Nat, score : Scores \cup {"none"}, at : Nat, rate : FbRates,
             lock : Seq(FbCalls), log : Seq(FbRates \X FbRates)]
  /\ fbCall \in [FbCalls -> [pc : {"idle", "lock", "done"}, now : Nat]]

\* The reports from the normal rate to r form a chain.
Chains(log, r) ==
  /\ \A i \in 1 .. Len(log) : log[i][1] = IF i = 1 THEN 10 ELSE log[i - 1][2]
  /\ r = IF log = <<>> THEN 10 ELSE log[Len(log)][2]

FeedbackInv ==
  /\ FeedbackTyped /\ Chains(fb.log, fb.rate)
  /\ \A c \in FbCalls : fbCall[c].pc = "lock" => \E i \in 1 .. Len(fb.lock) : fb.lock[i] = c

\* The next trace of a batch is one of its traces: there is a first span left.
LEMMA NextTraceOfBatch ==
    ASSUME NEW r \in HandlerRecord, ~(TracesOf(r.batch) \subseteq r.decided)
    PROVE  NextTrace(r) \in TracesOf(r.batch) /\ NextTrace(r) \in DOMAIN TsBucket
<1>. DEFINE open == {i \in 1 .. Len(r.batch) : r.batch[i].trace \notin r.decided}
<1>1. r.batch \in Seq(BatchSpans) /\ Len(r.batch) \in Nat
  BY DEF HandlerRecord
<1>2. open \in SUBSET Nat /\ open # {}
  BY <1>1 DEF TracesOf
<1>3. \E i \in open : \A j \in open : i <= j
  <2>. HIDE DEF open
  <2>. QED  BY <1>2, LeastNumber
<1>. DEFINE k == CHOOSE i \in open : \A j \in open : i <= j
<1>4. k \in open
  BY <1>3
<1>5. NextTrace(r) = r.batch[k].trace
  BY DEF NextTrace
<1>. HIDE DEF k
<1>6. k \in 1 .. Len(r.batch) /\ r.batch[k] \in BatchSpans
  BY <1>1, <1>4
<1>. QED  BY <1>5, <1>6 DEF TracesOf, BatchSpans

LEMMA BucketsAreNumbers == \A t \in DOMAIN TsBucket : TsBucket[t] \in Nat
<1>1. \A t \in DOMAIN TsBucket : TsBucket[t] \in 0 .. 99
  BY TailSamplerAssumption, Zenon
<1>. QED  BY <1>1

LEMMA RatesAreNumbers == \A reason : RateOf(reason) \in Nat
BY DEF RateOf

\* A step of one handler is sound if its record is.
LEMMA OneHandler ==
    ASSUME TailSamplerAssumption, SamplerInv, NEW h \in TsHandlers, NEW r \in HandlerRecord, HandlerSound(r),
           tsHandler' = [tsHandler EXCEPT ![h] = r], UNCHANGED <<tsEngine, tsSampler, tsFile>>,
           \A a \in tsSeen' : SeenSound(a)
    PROVE  SamplerInv'
<1>1. EngineSound'
  BY DEF SamplerInv, EngineSound
<1>2. tsHandler' \in [TsHandlers -> HandlerRecord] /\ \A g \in TsHandlers : HandlerSound(tsHandler'[g])
  BY DEF SamplerInv
<1>. QED  BY <1>1, <1>2 DEF SamplerInv, SeenSound

LEMMA SamplerStart == SamplerInit => SamplerInv
<1>. SUFFICES ASSUME SamplerInit PROVE SamplerInv
  OBVIOUS
<1>1. EngineSound
  <2>1. tsFile \in [on : BOOLEAN, reason : Reasons \cup {"none"}, failed : BOOLEAN]
        /\ (tsFile.on => tsFile.reason = "default")
    <3>1. CASE tsFile = [on |-> FALSE, reason |-> "none", failed |-> FALSE]
      BY <3>1
    <3>2. CASE tsFile = [on |-> TRUE, reason |-> "default", failed |-> FALSE]
      <4>1. "default" \in Reasons
        BY DEF Reasons
      <4>. QED  BY <3>2, <4>1
    <3>. QED  BY <3>1, <3>2 DEF SamplerInit
  <2>. QED  BY <2>1 DEF SamplerInit, EngineSound, Reasons
<1>2. ASSUME NEW h \in TsHandlers PROVE tsHandler[h] \in HandlerRecord /\ HandlerSound(tsHandler[h])
  BY TailSamplerAssumption DEF SamplerInit, HandlerRecord, HandlerPcs, HandlerSound
<1>. QED  BY <1>1, <1>2 DEF SamplerInit, SamplerInv

LEMMA EngineSteps ==
    ASSUME SamplerInv, UNCHANGED <<tsHandler, tsSeen>>,
           \/ \E cpu, low, errors \in BOOLEAN : Evaluate(cpu, low, errors)
           \/ AuditThenApply
           \/ \E ok \in BOOLEAN : WriteRateFile(ok)
           \/ StopEngine
    PROVE  SamplerInv'
<1>1. EngineSound'
  <2>. USE DEF SamplerInv, EngineSound
  <2>1. ASSUME NEW cpu \in BOOLEAN, NEW low \in BOOLEAN, NEW errors \in BOOLEAN, Evaluate(cpu, low, errors)
        PROVE  EngineSound'
    <3>. DEFINE new == EvaluateRate(cpu, low, errors)
    <3>1. new \in Reasons
      BY DEF EvaluateRate, Reasons
    <3>2. tsEngine' = [tsEngine EXCEPT !.reason = new, !.ticks = @ + 1,
                                       !.pc = IF new = tsEngine.reason THEN "idle" ELSE "audit"]
          /\ UNCHANGED <<tsSampler, tsFile>> /\ tsEngine.pc = "idle"
      BY <2>1 DEF Evaluate
    <3>. HIDE DEF new
    <3>3. tsEngine.ticks + 1 \in Nat
      OBVIOUS
    <3>4. /\ tsEngine' \in [reason : Reasons, pc : {"idle", "audit", "file"}, ticks : Nat, stop : BOOLEAN]
          /\ tsEngine'.reason = new /\ tsEngine'.pc = IF new = tsEngine.reason THEN "idle" ELSE "audit"
      BY <3>1, <3>2, <3>3
    <3>. QED  BY <3>2, <3>4
  <2>2. ASSUME AuditThenApply PROVE EngineSound'
    BY <2>2 DEF AuditThenApply
  <2>3. ASSUME NEW ok \in BOOLEAN, WriteRateFile(ok) PROVE EngineSound'
    BY <2>3 DEF WriteRateFile
  <2>4. ASSUME StopEngine PROVE EngineSound'
    BY <2>4 DEF StopEngine
  <2>. QED  BY <2>1, <2>2, <2>3, <2>4
<1>. QED  BY <1>1 DEF SamplerInv, HandlerSound, SeenSound

LEMMA ReceiveKeeps ==
    ASSUME SamplerInv, NEW h \in TsHandlers, NEW batch \in TsBatches, Receive(h, batch)
    PROVE  SamplerInv'
<1>. DEFINE r == [tsHandler[h] EXCEPT !.pc = IF batch = <<>> THEN "ok" ELSE "decide", !.batch = batch]
<1>1. batch \in Seq(BatchSpans)
  BY TailSamplerAssumption DEF BatchSpans
<1>2. tsHandler[h] \in HandlerRecord /\ HandlerSound(tsHandler[h]) /\ tsHandler[h].pc = "idle"
      /\ tsHandler' = [tsHandler EXCEPT ![h] = r] /\ UNCHANGED <<tsEngine, tsSampler, tsFile, tsSeen>>
  BY DEF Receive, SamplerInv
<1>3. r \in HandlerRecord /\ r.pc = (IF batch = <<>> THEN "ok" ELSE "decide") /\ r.batch = batch /\ r.tries = 0
      /\ r.got = 0 /\ r.kept = {} /\ r.decided = {}
  BY <1>1, <1>2 DEF HandlerRecord, HandlerPcs, HandlerSound
<1>. HIDE DEF r
<1>4. batch # <<>> => TracesOf(batch) # {}
  BY <1>1 DEF TracesOf
<1>5. HandlerSound(r)
  BY <1>3, <1>4, TailSamplerAssumption DEF HandlerSound
<1>6. \A a \in tsSeen' : SeenSound(a)
  BY <1>2 DEF SamplerInv
<1>. QED  BY <1>2, <1>3, <1>5, <1>6, OneHandler, TailSamplerAssumption

LEMMA RefuseKeeps ==
    ASSUME SamplerInv, NEW h \in TsHandlers, RefuseBody(h)
    PROVE  SamplerInv'
<1>. DEFINE r == [tsHandler[h] EXCEPT !.pc = "refused"]
<1>2. tsHandler[h] \in HandlerRecord /\ HandlerSound(tsHandler[h]) /\ tsHandler[h].pc = "idle"
      /\ tsHandler' = [tsHandler EXCEPT ![h] = r] /\ UNCHANGED <<tsEngine, tsSampler, tsFile, tsSeen>>
  BY DEF RefuseBody, SamplerInv
<1>3. r \in HandlerRecord /\ r.pc = "refused" /\ r.tries = 0 /\ r.got = 0
  BY <1>2 DEF HandlerRecord, HandlerPcs, HandlerSound
<1>. HIDE DEF r
<1>5. HandlerSound(r)
  BY <1>3, TailSamplerAssumption DEF HandlerSound
<1>6. \A a \in tsSeen' : SeenSound(a)
  BY <1>2 DEF SamplerInv
<1>. QED  BY <1>2, <1>3, <1>5, <1>6, OneHandler, TailSamplerAssumption

LEMMA DecideKeeps ==
    ASSUME SamplerInv, NEW h \in TsHandlers, DecideTrace(h)
    PROVE  SamplerInv'
<1>. DEFINE r == tsHandler[h]
            t == NextTrace(r)
            rate == RateOf(tsSampler)
            must == MustKeep(r.batch, t)
            keep == must \/ ProbabilisticKeep(t, rate)
            kept == IF keep THEN r.kept \cup {t} ELSE r.kept
            last == TracesOf(r.batch) \subseteq r.decided \cup {t}
            pc == CASE ~last -> "decide" [] last /\ kept # {} -> "forward" [] OTHER -> "ok"
            n == [r EXCEPT !.kept = kept, !.decided = @ \cup {t}, !.pc = pc]
<1>1. r \in HandlerRecord /\ HandlerSound(r) /\ r.pc = "decide"
      /\ tsHandler' = [tsHandler EXCEPT ![h] = n]
      /\ tsSeen' = tsSeen \cup {[trace |-> t, must |-> must, rate |-> rate, keep |-> keep]}
      /\ UNCHANGED <<tsEngine, tsSampler, tsFile>>
  BY DEF DecideTrace, SamplerInv
<1>2. t \in DOMAIN TsBucket /\ r.tries = 0 /\ r.got = 0
  BY <1>1, NextTraceOfBatch DEF HandlerSound
<1>3. must \in BOOLEAN /\ keep \in BOOLEAN /\ (keep <=> must \/ TsBucket[t] < rate)
  BY DEF MustKeep, ProbabilisticKeep
<1>4. rate \in Nat
  BY RatesAreNumbers
<1>. HIDE DEF t, rate, must, keep
<1>5. kept \subseteq DOMAIN TsBucket
  BY <1>1, <1>2 DEF HandlerRecord
<1>6. pc \in {"decide", "forward", "ok"} /\ (pc = "decide" => ~last) /\ (pc = "forward" => kept # {})
      /\ (pc = "ok" => kept = {})
  OBVIOUS
<1>. HIDE DEF kept, last, pc
<1>7. n \in HandlerRecord /\ n.pc = pc /\ n.kept = kept /\ n.decided = r.decided \cup {t} /\ n.batch = r.batch
      /\ n.tries = 0 /\ n.got = 0
  BY <1>1, <1>2, <1>5, <1>6 DEF HandlerRecord, HandlerPcs
<1>. HIDE DEF n
<1>8. HandlerSound(n)
  BY <1>6, <1>7, TailSamplerAssumption DEF HandlerSound, last
<1>9. SeenSound([trace |-> t, must |-> must, rate |-> rate, keep |-> keep])
  BY <1>2, <1>3, <1>4 DEF SeenSound
<1>10. \A a \in tsSeen' : SeenSound(a)
  BY <1>1, <1>9 DEF SamplerInv
<1>. QED  BY <1>1, <1>7, <1>8, <1>10, OneHandler, TailSamplerAssumption

LEMMA ForwardKeeps ==
    ASSUME SamplerInv, NEW h \in TsHandlers, NEW o \in {"accepted", "lost", "transient", "rejected"},
           ForwardAttempt(h, o)
    PROVE  SamplerInv'
<1>. DEFINE r == tsHandler[h]
            got == r.got + IF o \in {"accepted", "lost"} THEN 1 ELSE 0
            again == o \in {"lost", "transient"} /\ r.tries < TsRetries
            pc == CASE again -> "forward" [] o = "accepted" -> "ok"
                    [] o = "rejected" -> "rejected" [] OTHER -> "exhausted"
            n == [r EXCEPT !.tries = @ + 1, !.got = got, !.pc = pc]
<1>1. r \in HandlerRecord /\ HandlerSound(r) /\ r.pc = "forward"
      /\ tsHandler' = [tsHandler EXCEPT ![h] = n] /\ UNCHANGED <<tsEngine, tsSampler, tsFile, tsSeen>>
  BY DEF ForwardAttempt, SamplerInv
<1>2. r.tries \in Nat /\ r.got \in Nat /\ r.tries <= TsRetries /\ r.got <= r.tries /\ r.kept # {}
  BY <1>1 DEF HandlerSound, HandlerRecord
<1>3. got \in Nat /\ got <= r.tries + 1 /\ (o = "accepted" => got >= 1)
  BY <1>2
<1>4. /\ pc \in {"forward", "ok", "rejected", "exhausted"}
      /\ pc = "forward" => r.tries < TsRetries
      /\ pc = "ok" => o = "accepted"
      /\ pc = "exhausted" => ~(r.tries < TsRetries)
  OBVIOUS
<1>. HIDE DEF got, again, pc
<1>5. n \in HandlerRecord /\ n.pc = pc /\ n.got = got /\ n.tries = r.tries + 1 /\ n.kept = r.kept
  <2>1. r.tries + 1 \in Nat /\ pc \in HandlerPcs /\ got \in Nat /\ r \in HandlerRecord
    BY <1>1, <1>2, <1>3, <1>4 DEF HandlerPcs
  <2>. QED  BY ONLY <2>1 DEF HandlerRecord, n
<1>. HIDE DEF n
<1>6. HandlerSound(n)
  BY <1>2, <1>3, <1>4, <1>5, TailSamplerAssumption DEF HandlerSound
<1>7. \A a \in tsSeen' : SeenSound(a)
  BY <1>1 DEF SamplerInv
<1>. QED  BY <1>1, <1>5, <1>6, <1>7, OneHandler, TailSamplerAssumption

LEMMA SamplerStep == SamplerInv /\ SamplerNext => SamplerInv'
<1>. SUFFICES ASSUME SamplerInv, SamplerNext PROVE SamplerInv'
  OBVIOUS
<1>1. CASE \E h \in TsHandlers :
             \/ \E batch \in TsBatches : Receive(h, batch)
             \/ RefuseBody(h)
             \/ DecideTrace(h)
             \/ \E o \in {"accepted", "lost", "transient", "rejected"} : ForwardAttempt(h, o)
  BY <1>1, ReceiveKeeps, RefuseKeeps, DecideKeeps, ForwardKeeps
<1>2. CASE \/ \E cpu, low, errors \in BOOLEAN : Evaluate(cpu, low, errors)
           \/ AuditThenApply
           \/ \E ok \in BOOLEAN : WriteRateFile(ok)
           \/ StopEngine
  <2>1. UNCHANGED <<tsHandler, tsSeen>>
    BY <1>2 DEF Evaluate, AuditThenApply, WriteRateFile, StopEngine
  <2>. QED  BY <1>2, <2>1, EngineSteps
<1>. QED  BY <1>1, <1>2 DEF SamplerNext
-----------------------------------------------------------------------------
\* One more report keeps the chain.
LEMMA ChainGrows ==
    ASSUME NEW log \in Seq(FbRates \X FbRates), NEW rate \in FbRates, NEW new \in FbRates, Chains(log, rate)
    PROVE  Append(log, <<rate, new>>) \in Seq(FbRates \X FbRates) /\ Chains(Append(log, <<rate, new>>), new)
<1>. DEFINE q == Append(log, <<rate, new>>)
<1>0. <<rate, new>> \in FbRates \X FbRates
  OBVIOUS
<1>1. q \in Seq(FbRates \X FbRates) /\ Len(q) = Len(log) + 1 /\ Len(log) \in Nat /\ q # <<>>
  BY <1>0
<1>2. q[Len(log) + 1] = <<rate, new>> /\ \A i \in 1 .. Len(log) : q[i] = log[i]
  OBVIOUS
<1>3. log = <<>> <=> Len(log) = 0
  OBVIOUS
<1>. HIDE DEF q
<1>4. ASSUME NEW i \in 1 .. Len(q) PROVE q[i][1] = IF i = 1 THEN 10 ELSE q[i - 1][2]
  <2>1. CASE i \in 1 .. Len(log)
    <3>1. i # 1 => i - 1 \in 1 .. Len(log)
      BY <1>1, <2>1
    <3>. QED  BY <1>2, <2>1, <3>1 DEF Chains
  <2>2. CASE i = Len(log) + 1
    <3>1. i # 1 => Len(log) \in 1 .. Len(log) /\ i - 1 = Len(log)
      BY <1>1, <2>2
    <3>. QED  BY <1>1, <1>2, <1>3, <2>2, <3>1 DEF Chains
  <2>. QED  BY <1>1, <2>1, <2>2
<1>5. new = q[Len(q)][2]
  BY <1>1, <1>2
<1>6. Chains(q, new)
  BY <1>1, <1>4, <1>5 DEF Chains
<1>. QED  BY <1>1, <1>6 DEF q

\* evaluate_rate() settles on a score's rate and reports the change in one step.
LEMMA SettledSound ==
    ASSUME FeedbackInv, NEW score
    PROVE  LET s == Settled(score) IN
           /\ s \in [now : Nat, score : Scores \cup {"none"}, at : Nat, rate : FbRates,
                     lock : Seq(FbCalls), log : Seq(FbRates \X FbRates)]
           /\ Chains(s.log, s.rate) /\ s.lock = fb.lock
<1>1. FbRate(score) \in FbRates
  BY DEF FbRate, FbRates
<1>2. fb.log \in Seq(FbRates \X FbRates) /\ fb.rate \in FbRates /\ Chains(fb.log, fb.rate)
  BY DEF FeedbackInv, FeedbackTyped
<1>3. Append(fb.log, <<fb.rate, FbRate(score)>>) \in Seq(FbRates \X FbRates)
      /\ Chains(Append(fb.log, <<fb.rate, FbRate(score)>>), FbRate(score))
  BY <1>1, <1>2, ChainGrows
<1>. DEFINE l == IF FbRate(score) = fb.rate THEN fb.log ELSE Append(fb.log, <<fb.rate, FbRate(score)>>)
<1>4. l \in Seq(FbRates \X FbRates) /\ Chains(l, FbRate(score))
  BY <1>2, <1>3
<1>5. Settled(score) = [fb EXCEPT !.rate = FbRate(score), !.log = l]
  BY DEF Settled
<1>. HIDE DEF l
<1>. QED  BY <1>1, <1>4, <1>5 DEF FeedbackInv, FeedbackTyped

LEMMA FeedbackStart == FeedbackInit => FeedbackInv
BY TailSamplerAssumption DEF FeedbackInit, FeedbackInv, FeedbackTyped, Chains, FbRates

LEMMA FbAskKeeps ==
    ASSUME FeedbackInv, NEW c \in FbCalls, FbAsk(c)
    PROVE  FeedbackInv'
<1>. DEFINE fresh == fb.score # "none" /\ fb.now < fb.at + FbTTL
<1>1. fbCall' = [fbCall EXCEPT ![c] = [pc |-> IF fresh THEN "done" ELSE "lock", now |-> fb.now]]
      /\ fb' = IF fresh THEN Settled(fb.score) ELSE [fb EXCEPT !.lock = Append(@, c)]
  BY DEF FbAsk
<1>. HIDE DEF fresh
<1>2. fbCall' \in [FbCalls -> [pc : {"idle", "lock", "done"}, now : Nat]]
  BY <1>1 DEF FeedbackInv, FeedbackTyped
<1>3. CASE fresh
  <2>1. fb' = Settled(fb.score) /\ fbCall'[c].pc = "done"
    BY <1>1, <1>3 DEF FeedbackInv, FeedbackTyped
  <2>2. /\ fb' \in [now : Nat, score : Scores \cup {"none"}, at : Nat, rate : FbRates,
                    lock : Seq(FbCalls), log : Seq(FbRates \X FbRates)]
        /\ Chains(fb'.log, fb'.rate) /\ fb'.lock = fb.lock
    BY <2>1, SettledSound
  <2>3. \A d \in FbCalls : fbCall'[d].pc = "lock" => fbCall[d].pc = "lock"
    BY <1>1, <2>1 DEF FeedbackInv, FeedbackTyped
  <2>. QED  BY <1>2, <2>2, <2>3 DEF FeedbackInv, FeedbackTyped
<1>4. CASE ~fresh
  <2>1. fb' = [fb EXCEPT !.lock = Append(@, c)]
    BY <1>1, <1>4
  <2>. DEFINE q == Append(fb.lock, c)
  <2>2. fb.lock \in Seq(FbCalls) /\ q \in Seq(FbCalls)
    BY DEF FeedbackInv, FeedbackTyped
  <2>3. fb' = [fb EXCEPT !.lock = q]
    BY <2>1
  <2>. HIDE DEF q
  <2>4. /\ fb' \in [now : Nat, score : Scores \cup {"none"}, at : Nat, rate : FbRates,
                    lock : Seq(FbCalls), log : Seq(FbRates \X FbRates)]
        /\ fb'.log = fb.log /\ fb'.rate = fb.rate /\ fb'.lock = Append(fb.lock, c)
        /\ fb.lock \in Seq(FbCalls)
    BY <2>2, <2>3 DEF FeedbackInv, FeedbackTyped, q
  <2>5. Len(fb'.lock) = Len(fb.lock) + 1 /\ Len(fb.lock) \in Nat /\ fb'.lock[Len(fb.lock) + 1] = c
        /\ \A i \in 1 .. Len(fb.lock) : fb'.lock[i] = fb.lock[i]
    BY <2>4
  <2>6. ASSUME NEW d \in FbCalls, fbCall'[d].pc = "lock"
        PROVE  \E i \in 1 .. Len(fb'.lock) : fb'.lock[i] = d
    <3>1. CASE d = c
      BY <2>5, <3>1
    <3>2. CASE d # c
      <4>1. fbCall[d].pc = "lock"
        BY <1>1, <2>6, <3>2 DEF FeedbackInv, FeedbackTyped
      <4>2. PICK i \in 1 .. Len(fb.lock) : fb.lock[i] = d
        BY <4>1 DEF FeedbackInv
      <4>. QED  BY <2>5, <4>2
    <3>. QED  BY <3>1, <3>2
  <2>. QED  BY <1>2, <2>4, <2>6 DEF FeedbackInv, FeedbackTyped
<1>. QED  BY <1>3, <1>4

LEMMA FbAnswerKeeps ==
    ASSUME FeedbackInv, NEW c \in FbCalls, NEW score \in Scores \cup {"none"}, FbAnswer(c, score)
    PROVE  FeedbackInv'
<1>. DEFINE known == IF fb.score = "none" THEN "bad" ELSE fb.score
            s == Settled(IF score = "none" THEN known ELSE score)
<1>1. /\ fbCall[c].pc = "lock" /\ Head(fb.lock) = c
      /\ fb' = [s EXCEPT !.lock = Tail(@), !.score = IF score = "none" THEN @ ELSE score,
                         !.at = IF score = "none" THEN @ ELSE fbCall[c].now]
      /\ fbCall' = [fbCall EXCEPT ![c].pc = "done"]
  BY DEF FbAnswer
<1>2. /\ s \in [now : Nat, score : Scores \cup {"none"}, at : Nat, rate : FbRates,
                lock : Seq(FbCalls), log : Seq(FbRates \X FbRates)]
      /\ Chains(s.log, s.rate) /\ s.lock = fb.lock
  BY SettledSound
<1>. HIDE DEF s
<1>3. fb.lock \in Seq(FbCalls) /\ fb.lock # <<>> /\ Len(fb.lock) \in Nat
  BY <1>1 DEF FeedbackInv, FeedbackTyped
<1>4. Tail(fb.lock) \in Seq(FbCalls) /\ Len(Tail(fb.lock)) = Len(fb.lock) - 1 /\ fb.lock[1] = c
      /\ \A i \in 1 .. Len(fb.lock) - 1 : Tail(fb.lock)[i] = fb.lock[i + 1]
  BY <1>1, <1>3
<1>5. fbCall[c].now \in Nat /\ fbCall' \in [FbCalls -> [pc : {"idle", "lock", "done"}, now : Nat]]
      /\ fbCall'[c].pc = "done" /\ \A d \in FbCalls \ {c} : fbCall'[d] = fbCall[d]
  BY <1>1 DEF FeedbackInv, FeedbackTyped
<1>6. /\ fb' \in [now : Nat, score : Scores \cup {"none"}, at : Nat, rate : FbRates,
                  lock : Seq(FbCalls), log : Seq(FbRates \X FbRates)]
      /\ fb'.log = s.log /\ fb'.rate = s.rate /\ fb'.lock = Tail(fb.lock)
  BY <1>1, <1>2, <1>4, <1>5
<1>7. ASSUME NEW d \in FbCalls, fbCall'[d].pc = "lock"
      PROVE  \E i \in 1 .. Len(fb'.lock) : fb'.lock[i] = d
  <2>1. d # c /\ fbCall[d].pc = "lock"
    BY <1>5, <1>7
  <2>2. PICK i \in 1 .. Len(fb.lock) : fb.lock[i] = d
    BY <2>1 DEF FeedbackInv
  <2>3. i # 1 /\ i - 1 \in 1 .. Len(fb.lock) - 1 /\ i = (i - 1) + 1
    BY <1>3, <1>4, <2>1, <2>2
  <2>4. Tail(fb.lock)[i - 1] = fb.lock[(i - 1) + 1]
    BY <1>4, <2>3
  <2>. QED  BY <1>4, <1>6, <2>2, <2>3, <2>4
<1>. QED  BY <1>2, <1>5, <1>6, <1>7 DEF FeedbackInv, FeedbackTyped

LEMMA FeedbackStep == FeedbackInv /\ FeedbackNext => FeedbackInv'
<1>. SUFFICES ASSUME FeedbackInv, FeedbackNext PROVE FeedbackInv'
  OBVIOUS
<1>1. CASE FbTick
  <2>1. fb' = [fb EXCEPT !.now = @ + 1] /\ UNCHANGED fbCall
    BY <1>1 DEF FbTick
  <2>. QED  BY <2>1 DEF FeedbackInv, FeedbackTyped, Chains
<1>. QED  BY <1>1, FbAskKeeps, FbAnswerKeeps DEF FeedbackNext

LEMMA SamplerFollows == SamplerInv /\ FeedbackInv => SamplerConsistent /\ TailTypeOK
<1>. SUFFICES ASSUME SamplerInv, FeedbackInv PROVE SamplerConsistent /\ TailTypeOK
  OBVIOUS
<1>1. RateApplied
  BY DEF SamplerInv, EngineSound, RateApplied
<1>2. VerdictsNested
  <2>1. ASSUME NEW a \in tsSeen, NEW b \in tsSeen,
               a.trace = b.trace, ~a.must, ~b.must, ~a.keep, b.rate <= a.rate
        PROVE  ~b.keep
    <3>1. SeenSound(a) /\ SeenSound(b)
      BY DEF SamplerInv
    <3>2. TsBucket[a.trace] \in Nat
      BY <3>1, BucketsAreNumbers DEF SeenSound
    <3>. QED  BY <2>1, <3>1, <3>2 DEF SeenSound
  <2>2. \A a \in tsSeen : a.must => a.keep
    BY DEF SamplerInv, SeenSound
  <2>. QED  BY <2>1, <2>2 DEF VerdictsNested
<1>3. ForwardsBounded
  BY DEF SamplerInv, HandlerSound, ForwardsBounded
<1>4. FeedbackChain
  BY DEF FeedbackInv, Chains, FeedbackChain
<1>5. TailTypeOK
  BY DEF SamplerInv, EngineSound, HandlerRecord, HandlerPcs, FeedbackInv, FeedbackTyped, FbRates, TailTypeOK
<1>. QED  BY <1>1, <1>2, <1>3, <1>4, <1>5 DEF SamplerConsistent

\* sampler_proxy.py, policy_engine.py, tail_sampler.py: for any handlers, batches,
\* buckets, retries and calls, the handlers decide at the engine's rate, verdicts are
\* nested over rates, attempts are bounded, and the reports form a chain.
THEOREM SamplerConsistency == TailSpec => [](SamplerConsistent /\ TailTypeOK)
<1>. DEFINE Inv == SamplerInv /\ FeedbackInv
            Both == \/ SamplerNext /\ UNCHANGED feedbackVars
                    \/ FeedbackNext /\ UNCHANGED samplerVars
<1>1. SamplerInit /\ FeedbackInit => Inv
  BY SamplerStart, FeedbackStart
<1>2. Inv /\ [Both]_<<samplerVars, feedbackVars>> => Inv'
  <2>1. SamplerInv /\ UNCHANGED samplerVars => SamplerInv'
    BY DEF samplerVars, SamplerInv, EngineSound, HandlerSound, SeenSound
  <2>2. FeedbackInv /\ UNCHANGED feedbackVars => FeedbackInv'
    BY DEF feedbackVars, FeedbackInv, FeedbackTyped, Chains
  <2>. QED  BY <2>1, <2>2, SamplerStep, FeedbackStep
<1>3. Inv => SamplerConsistent /\ TailTypeOK
  BY SamplerFollows
<1>. QED  BY <1>1, <1>2, <1>3, PTL DEF TailSpec
-----------------------------------------------------------------------------
(* The gauges of the SLOs and of the health checker.  While an SLO is        *)
(* measured, the gauges set so far are of the present cycle; all others are  *)
(* older, in the order the refresher sets them.                              *)

SloWins == 1 .. Len(SloWindows)

SloTyped ==
  /\ sloRun \in [pc : {"idle", "rolling", "window", "budget", "publish"}, slo : Slos, win : Nat,
                 counts : Readings, cycle : 0 .. SloRefreshes]
  /\ sloGauge \in [Slos -> [sli : Nat, burn : [SloWins -> [at : Nat, value : Readings]],
                            remaining : [at : Nat, value : SloStates]]]
  /\ sloState \in [Slos -> SloStates]
  /\ sloFlag \in [state : SloStates \cup {"none"}, at : 0 .. sloRun.cycle, stuck : BOOLEAN]
  /\ sloLog \in [Slos -> Seq(SloStates)]

\* The gauges of one SLO, in the order they are set in a cycle.
GaugeOrder(g) ==
  /\ g.sli <= sloRun.cycle /\ g.remaining.at <= g.sli
  /\ \A w \in SloWins : g.burn[w].at <= g.sli /\ g.remaining.at <= g.burn[w].at
  /\ \A v, w \in SloWins : v < w => g.burn[w].at <= g.burn[v].at
  /\ g.remaining.at = 0 => g.remaining.value = "ok"

\* Where the refresher is says which gauges of its SLO are of this cycle.
Measured ==
  LET g == sloGauge[sloRun.slo] IN
  /\ sloRun.pc # "idle" => sloRun.cycle > 0
  /\ sloRun.pc \in {"idle", "rolling"} => sloRun.win = 1
  /\ sloRun.pc \in {"window", "budget"} => g.sli = sloRun.cycle
  /\ sloRun.pc = "window" =>
       sloRun.win \in SloWins /\ \A w \in SloWins : w < sloRun.win => g.burn[w].at = sloRun.cycle
  /\ sloRun.pc = "budget" => \A w \in SloWins : g.burn[w].at = sloRun.cycle

\* The actions fired, each a change, the last one to the present state.
FiredSound(s) ==
  /\ \A i \in 1 .. Len(sloLog[s]) : sloLog[s][i] # IF i = 1 THEN "ok" ELSE sloLog[s][i - 1]
  /\ sloState[s] = IF sloLog[s] = <<>> THEN "ok" ELSE sloLog[s][Len(sloLog[s])]

FlagSound ==
  (\A s \in Slos : sloState[s] = "ok") /\ sloRun.pc # "publish" => sloFlag.state = "none" \/ sloFlag.stuck

SloInv ==
  /\ SloTyped /\ Measured /\ FlagSound
  /\ \A s \in Slos : GaugeOrder(sloGauge[s]) /\ sloGauge[s].remaining.value = sloState[s] /\ FiredSound(s)

LEMMA SloBasics ==
  /\ SloCount \in Nat /\ 1 \in Slos /\ Slos \subseteq Nat /\ Len(SloWindows) \in Nat
  /\ Readings \subseteq Nat \X Nat /\ <<0, 0>> \in Readings /\ SloRefreshes \in Nat
  /\ SloWindows # <<>> => 1 \in SloWins
BY SloAssumption DEF Slos, Readings, SloWins

LEMMA SloInitSound == SloInit => SloInv
<1>. SUFFICES ASSUME SloInit PROVE SloInv
  OBVIOUS
<1>1. SloTyped
  BY SloBasics DEF SloInit, SloTyped, SloWins, Unset, NoFlag, SloStates
<1>2. Measured /\ FlagSound
  BY SloBasics DEF SloInit, Measured, FlagSound, NoFlag
<1>3. \A s \in Slos : GaugeOrder(sloGauge[s]) /\ sloGauge[s].remaining.value = sloState[s] /\ FiredSound(s)
  BY SloBasics DEF SloInit, GaugeOrder, FiredSound, Unset, SloWins
<1>. QED  BY <1>1, <1>2, <1>3 DEF SloInv

\* After an SLO, whether it was measured or not, the refresher goes on with the next.
LEMMA NextSloSound ==
  ASSUME SloInv
  PROVE  LET r == NextSlo(sloRun) IN
         /\ r \in [pc : {"idle", "rolling"}, slo : Slos, win : {1}, counts : Readings, cycle : 0 .. SloRefreshes]
         /\ r.cycle = sloRun.cycle
<1>1. sloRun \in [pc : {"idle", "rolling", "window", "budget", "publish"}, slo : Slos, win : Nat,
                  counts : Readings, cycle : 0 .. SloRefreshes]
  BY DEF SloInv, SloTyped
<1>2. sloRun.slo \in 1 .. SloCount /\ (sloRun.slo < SloCount => sloRun.slo + 1 \in Slos)
  BY <1>1, SloBasics DEF Slos
<1>3. CASE sloRun.slo < SloCount
  BY <1>1, <1>2, <1>3, SloBasics DEF NextSlo
<1>4. CASE ~(sloRun.slo < SloCount)
  BY <1>1, <1>4, SloBasics DEF NextSlo
<1>. QED  BY <1>3, <1>4

LEMMA ClassifyTyped == ASSUME NEW s \in Slos, NEW c \in Readings PROVE Classify(s, c) \in SloStates
BY DEF Classify, SloStates

\* A step that leaves the gauges, the states and the log alone, and leaves the SLO.
LEMMA LeavesSlo ==
  ASSUME SloInv, sloRun.pc # "idle", sloRun' = NextSlo(sloRun), UNCHANGED <<sloGauge, sloState, sloLog>>,
         sloFlag' \in [state : SloStates \cup {"none"}, at : 0 .. sloRun.cycle, stuck : BOOLEAN], FlagSound'
  PROVE  SloInv'
<1>1. /\ sloRun' \in [pc : {"idle", "rolling"}, slo : Slos, win : {1}, counts : Readings, cycle : 0 .. SloRefreshes]
      /\ sloRun'.cycle = sloRun.cycle
  BY NextSloSound
<1>2. SloTyped'
  BY <1>1 DEF SloInv, SloTyped
<1>3. Measured'
  BY <1>1 DEF SloInv, Measured
<1>4. ASSUME NEW s \in Slos
      PROVE  (GaugeOrder(sloGauge[s]) /\ sloGauge[s].remaining.value = sloState[s] /\ FiredSound(s))'
  BY <1>1 DEF SloInv, GaugeOrder, FiredSound
<1>. QED  BY <1>2, <1>3, <1>4 DEF SloInv

LEMMA RefreshKeeps == SloInv /\ Refresh => SloInv'
<1>. SUFFICES ASSUME SloInv, Refresh PROVE SloInv'
  OBVIOUS
<1>. DEFINE c == sloRun.cycle + 1
<1>1. sloRun.cycle \in Nat /\ c \in 0 .. SloRefreshes /\ c > sloRun.cycle /\ c > 0
  BY SloBasics DEF SloInv, SloTyped, Refresh
<1>2. sloRun' = [sloRun EXCEPT !.pc = "rolling", !.cycle = c] /\ UNCHANGED <<sloGauge, sloState, sloFlag, sloLog>>
      /\ sloRun.pc = "idle"
  BY DEF Refresh
<1>. HIDE DEF c
<1>3. /\ sloRun' \in [pc : {"rolling"}, slo : Slos, win : Nat, counts : Readings, cycle : 0 .. SloRefreshes]
      /\ sloRun'.cycle = c /\ sloRun'.win = sloRun.win
  BY <1>1, <1>2 DEF SloInv, SloTyped
<1>4. SloTyped'
  BY <1>1, <1>2, <1>3 DEF SloInv, SloTyped
<1>5. Measured' /\ FlagSound'
  BY <1>1, <1>2, <1>3 DEF SloInv, Measured, FlagSound
<1>6. ASSUME NEW s \in Slos
      PROVE  (GaugeOrder(sloGauge[s]) /\ sloGauge[s].remaining.value = sloState[s] /\ FiredSound(s))'
  <2>1. sloGauge[s].sli \in Nat
    BY DEF SloInv, SloTyped
  <2>. QED  BY <1>1, <1>2, <1>3, <2>1 DEF SloInv, GaugeOrder, FiredSound
<1>. QED  BY <1>4, <1>5, <1>6 DEF SloInv

LEMMA FetchRollingKeeps == ASSUME SloInv, NEW c \in Readings, FetchRolling(c) PROVE SloInv'
<1>. DEFINE s == sloRun.slo
            n == sloRun.cycle
            pc == IF SloWindows = <<>> THEN "budget" ELSE "window"
<1>1. /\ sloGauge' = [sloGauge EXCEPT ![s].sli = n] /\ sloRun' = [sloRun EXCEPT !.pc = pc, !.counts = c]
      /\ UNCHANGED <<sloState, sloFlag, sloLog>> /\ sloRun.pc = "rolling"
  BY DEF FetchRolling
<1>2. s \in Slos /\ n \in Nat /\ pc \in {"budget", "window"}
  BY SloBasics DEF SloInv, SloTyped
<1>3. /\ sloRun' \in [pc : {"window", "budget"}, slo : Slos, win : Nat, counts : Readings, cycle : 0 .. SloRefreshes]
      /\ sloRun'.slo = s /\ sloRun'.cycle = n /\ sloRun'.win = sloRun.win /\ sloRun'.pc = pc
  BY <1>1, <1>2 DEF SloInv, SloTyped
<1>4. sloGauge' \in [Slos -> [sli : Nat, burn : [SloWins -> [at : Nat, value : Readings]],
                              remaining : [at : Nat, value : SloStates]]]
  BY <1>1, <1>2 DEF SloInv, SloTyped
<1>5. sloGauge'[s].sli = n /\ \A t \in Slos :
        /\ sloGauge'[t].burn = sloGauge[t].burn /\ sloGauge'[t].remaining = sloGauge[t].remaining
        /\ t # s => sloGauge'[t].sli = sloGauge[t].sli
  BY <1>1, <1>2 DEF SloInv, SloTyped
<1>6. SloTyped'
  BY <1>1, <1>3, <1>4 DEF SloInv, SloTyped
<1>7. n > 0 /\ sloRun.win = 1
  BY <1>1 DEF SloInv, Measured
<1>8. Measured'
  <2>1. CASE SloWindows = <<>>
    BY <1>3, <1>5, <1>7, <2>1 DEF Measured, SloWins
  <2>2. CASE SloWindows # <<>>
    <3>1. 1 \in SloWins /\ pc = "window" /\ \A w \in SloWins : w >= 1
      BY <2>2, SloBasics DEF SloWins
    <3>. QED  BY <1>3, <1>5, <1>7, <3>1 DEF Measured, SloWins
  <2>. QED  BY <2>1, <2>2
<1>9. FlagSound'
  BY <1>1, <1>3 DEF SloInv, FlagSound
<1>10. ASSUME NEW t \in Slos
       PROVE  (GaugeOrder(sloGauge[t]) /\ sloGauge[t].remaining.value = sloState[t] /\ FiredSound(t))'
  <2>1. sloGauge[t] \in [sli : Nat, burn : [SloWins -> [at : Nat, value : Readings]], remaining : [at : Nat, value : SloStates]]
    BY DEF SloInv, SloTyped
  <2>2. GaugeOrder(sloGauge[t])
    BY DEF SloInv
  <2>3. sloGauge'[t].sli >= sloGauge[t].sli /\ sloGauge'[t].sli \in Nat /\ sloGauge'[t].sli <= n
    BY <1>2, <1>5, <2>1, <2>2 DEF GaugeOrder
  <2>4. /\ sloGauge[t].sli \in Nat /\ sloGauge[t].remaining.at \in Nat
        /\ \A w \in SloWins : sloGauge[t].burn[w].at \in Nat
    BY <2>1
  <2>5. /\ sloGauge[t].remaining.at <= sloGauge'[t].sli
        /\ \A w \in SloWins : sloGauge[t].burn[w].at <= sloGauge'[t].sli
    BY <2>2, <2>3, <2>4 DEF GaugeOrder
  <2>6. GaugeOrder(sloGauge[t])'
    BY <1>3, <1>5, <2>2, <2>3, <2>5 DEF GaugeOrder
  <2>. QED  BY <1>1, <1>5, <2>6 DEF SloInv, FiredSound
<1>. QED  BY <1>6, <1>8, <1>9, <1>10 DEF SloInv

LEMMA FetchWindowKeeps == ASSUME SloInv, NEW c \in Readings, FetchWindow(c) PROVE SloInv'
<1>. DEFINE s == sloRun.slo
            n == sloRun.cycle
            k == sloRun.win
            more == k < Len(SloWindows)
<1>1. /\ sloGauge' = [sloGauge EXCEPT ![s].burn[k] = [at |-> n, value |-> c]]
      /\ sloRun' = IF more THEN [sloRun EXCEPT !.win = k + 1] ELSE [sloRun EXCEPT !.pc = "budget"]
      /\ UNCHANGED <<sloState, sloFlag, sloLog>> /\ sloRun.pc = "window"
  BY DEF FetchWindow
<1>2. /\ s \in Slos /\ n \in Nat /\ k \in SloWins /\ k \in Nat /\ k + 1 \in Nat /\ n > 0
      /\ sloGauge[s].sli = n /\ \A w \in SloWins : w < k => sloGauge[s].burn[w].at = n
  <2>1. s \in Slos /\ n \in Nat /\ k \in Nat
    BY SloBasics DEF SloInv, SloTyped
  <2>2. k \in SloWins /\ n > 0 /\ sloGauge[s].sli = n /\ \A w \in SloWins : w < k => sloGauge[s].burn[w].at = n
    BY <1>1 DEF SloInv, Measured
  <2>. QED  BY <2>1, <2>2
<1>3. /\ sloRun' \in [pc : {"window", "budget"}, slo : Slos, win : Nat, counts : Readings, cycle : 0 .. SloRefreshes]
      /\ sloRun'.slo = s /\ sloRun'.cycle = n
      /\ more => sloRun'.win = k + 1 /\ sloRun'.pc = "window"
      /\ ~more => sloRun'.pc = "budget"
  BY <1>1, <1>2 DEF SloInv, SloTyped
<1>4. /\ sloGauge' \in [Slos -> [sli : Nat, burn : [SloWins -> [at : Nat, value : Readings]],
                                 remaining : [at : Nat, value : SloStates]]]
      /\ sloGauge'[s].burn[k].at = n
      /\ \A w \in SloWins : w # k => sloGauge'[s].burn[w] = sloGauge[s].burn[w]
      /\ \A t \in Slos : sloGauge'[t].sli = sloGauge[t].sli /\ sloGauge'[t].remaining = sloGauge[t].remaining
      /\ \A t \in Slos : t # s => sloGauge'[t] = sloGauge[t]
  <2>. DEFINE e == [at |-> n, value |-> c]
              b == [sloGauge[s].burn EXCEPT ![k] = e]
  <2>1. /\ sloGauge \in [Slos -> [sli : Nat, burn : [SloWins -> [at : Nat, value : Readings]],
                                 remaining : [at : Nat, value : SloStates]]]
        /\ e \in [at : Nat, value : Readings] /\ e.at = n
    BY <1>2 DEF SloInv, SloTyped
  <2>2. sloGauge' = [sloGauge EXCEPT ![s] = [sloGauge[s] EXCEPT !.burn = b]]
    BY ONLY <1>1, <1>2, <2>1 DEF e
  <2>. HIDE DEF e
  <2>3. b \in [SloWins -> [at : Nat, value : Readings]] /\ b[k] = e /\ \A w \in SloWins : w # k => b[w] = sloGauge[s].burn[w]
    BY ONLY <1>2, <2>1
  <2>. HIDE DEF b
  <2>. QED  BY ONLY <1>2, <2>1, <2>2, <2>3
<1>5. SloTyped'
  BY <1>1, <1>3, <1>4 DEF SloInv, SloTyped
<1>6. \A w \in SloWins : w <= k => sloGauge'[s].burn[w].at = n
  BY <1>2, <1>4 DEF SloWins
<1>7. Measured'
  <2>1. CASE more
    <3>1. k + 1 \in SloWins /\ \A w \in SloWins : w < k + 1 => w <= k
      BY <1>2, <2>1, SloBasics DEF SloWins
    <3>. QED  BY <1>2, <1>3, <1>4, <1>6, <2>1, <3>1 DEF Measured
  <2>2. CASE ~more
    <3>1. \A w \in SloWins : w <= k
      BY <1>2, <2>2, SloBasics DEF SloWins
    <3>. QED  BY <1>2, <1>3, <1>4, <1>6, <2>2, <3>1 DEF Measured
  <2>. QED  BY <2>1, <2>2
<1>8. FlagSound'
  BY <1>1, <1>3 DEF SloInv, FlagSound
<1>9. ASSUME NEW t \in Slos
      PROVE  (GaugeOrder(sloGauge[t]) /\ sloGauge[t].remaining.value = sloState[t] /\ FiredSound(t))'
  <2>1. GaugeOrder(sloGauge[t])
    BY DEF SloInv
  <2>2. CASE t # s
    BY <1>1, <1>3, <1>4, <2>1, <2>2 DEF SloInv, GaugeOrder, FiredSound
  <2>3. CASE t = s
    <3>1. /\ sloGauge[s].remaining.at \in Nat
          /\ \A w \in SloWins : sloGauge[s].burn[w].at \in Nat /\ sloGauge'[s].burn[w].at \in Nat
      BY <1>2, <1>4 DEF SloInv, SloTyped
    <3>2. \A w \in SloWins : sloGauge'[s].burn[w].at <= n /\ sloGauge[s].remaining.at <= sloGauge'[s].burn[w].at
      BY <1>2, <1>4, <2>1, <2>3, <3>1 DEF GaugeOrder
    <3>3. ASSUME NEW v \in SloWins, NEW w \in SloWins, v < w
          PROVE  sloGauge'[s].burn[w].at <= sloGauge'[s].burn[v].at
      <4>1. CASE v <= k
        BY <1>6, <3>2, <3>3, <4>1
      <4>2. CASE ~(v <= k)
        BY <1>2, <1>4, <2>1, <2>3, <3>3, <4>2 DEF GaugeOrder, SloWins
      <4>. QED  BY <4>1, <4>2
    <3>4. GaugeOrder(sloGauge[t])'
      BY <1>2, <1>3, <1>4, <2>1, <2>3, <3>2, <3>3 DEF GaugeOrder
    <3>. QED  BY <1>1, <1>4, <3>4 DEF SloInv, FiredSound
  <2>. QED  BY <2>2, <2>3
<1>. QED  BY <1>5, <1>7, <1>8, <1>9 DEF SloInv

LEMMA FetchFailsKeeps == SloInv /\ FetchFails => SloInv'
<1>. SUFFICES ASSUME SloInv, FetchFails PROVE SloInv'
  OBVIOUS
<1>1. sloRun' = NextSlo(sloRun) /\ sloRun.pc \in {"rolling", "window"} /\ UNCHANGED <<sloGauge, sloState, sloFlag, sloLog>>
  BY DEF FetchFails
<1>2. FlagSound'
  BY <1>1 DEF SloInv, FlagSound
<1>. QED  BY <1>1, <1>2, LeavesSlo DEF SloInv, SloTyped

\* evaluate(): gauge and state change together; the log grows by a change.
LEMMA EvaluatesKeeps == SloInv /\ Evaluates => SloInv'
<1>. SUFFICES ASSUME SloInv, Evaluates PROVE SloInv'
  OBVIOUS
<1>. DEFINE s == sloRun.slo
            n == sloRun.cycle
            new == Classify(s, sloRun.counts)
            e == [at |-> n, value |-> new]
<1>1. /\ sloGauge' = [sloGauge EXCEPT ![s].remaining = e] /\ sloState' = [sloState EXCEPT ![s] = new]
      /\ sloLog' = IF new = sloState[s] THEN sloLog ELSE [sloLog EXCEPT ![s] = Append(@, new)]
      /\ sloRun' = IF new = sloState[s] THEN NextSlo(sloRun) ELSE [sloRun EXCEPT !.pc = "publish"]
      /\ UNCHANGED sloFlag /\ sloRun.pc = "budget"
  BY DEF Evaluates, RemainingSet
<1>2. /\ s \in Slos /\ n \in Nat /\ new \in SloStates /\ n > 0 /\ e \in [at : Nat, value : SloStates]
      /\ e.at = n /\ e.value = new
      /\ sloGauge[s].sli = n /\ \A w \in SloWins : sloGauge[s].burn[w].at = n
  BY <1>1, SloBasics, ClassifyTyped DEF SloInv, SloTyped, Measured
<1>. HIDE DEF new, e
<1>3. /\ sloRun' \in [pc : {"idle", "rolling", "publish"}, slo : Slos, win : Nat, counts : Readings, cycle : 0 .. SloRefreshes]
      /\ sloRun'.cycle = n
      /\ new = sloState[s] => sloRun'.pc \in {"idle", "rolling"} /\ sloRun'.win = 1
      /\ new # sloState[s] => sloRun'.pc = "publish"
  <2>1. CASE new = sloState[s]
    BY <1>1, <2>1, NextSloSound
  <2>2. CASE new # sloState[s]
    BY <1>1, <2>2 DEF SloInv, SloTyped
  <2>. QED  BY <2>1, <2>2
<1>4. /\ sloGauge' \in [Slos -> [sli : Nat, burn : [SloWins -> [at : Nat, value : Readings]],
                                 remaining : [at : Nat, value : SloStates]]]
      /\ sloGauge'[s].remaining = e
      /\ \A t \in Slos : sloGauge'[t].sli = sloGauge[t].sli /\ sloGauge'[t].burn = sloGauge[t].burn
      /\ \A t \in Slos : t # s => sloGauge'[t] = sloGauge[t]
  <2>1. sloGauge \in [Slos -> [sli : Nat, burn : [SloWins -> [at : Nat, value : Readings]],
                               remaining : [at : Nat, value : SloStates]]]
    BY DEF SloInv, SloTyped
  <2>2. sloGauge' = [sloGauge EXCEPT ![s].remaining = e]
    BY <1>1
  <2>. QED  BY ONLY <1>2, <2>1, <2>2
<1>5. /\ sloState' \in [Slos -> SloStates] /\ sloState'[s] = new
      /\ \A t \in Slos : t # s => sloState'[t] = sloState[t]
  BY <1>1, <1>2 DEF SloInv, SloTyped
<1>6. sloLog' \in [Slos -> Seq(SloStates)] /\ \A t \in Slos : FiredSound(t)'
  <2>1. CASE new = sloState[s]
    <3>1. sloLog' = sloLog /\ sloState' = sloState
      BY <1>1, <1>2, <2>1 DEF SloInv, SloTyped
    <3>. QED  BY <3>1 DEF SloInv, SloTyped, FiredSound
  <2>2. CASE new # sloState[s]
    <3>. DEFINE log == sloLog[s]
    <3>1. log \in Seq(SloStates) /\ Append(log, new) \in Seq(SloStates) /\ Len(Append(log, new)) = Len(log) + 1
          /\ Append(log, new)[Len(log) + 1] = new /\ Len(log) \in Nat
          /\ \A i \in 1 .. Len(log) : Append(log, new)[i] = log[i]
      BY <1>2 DEF SloInv, SloTyped
    <3>2. /\ sloLog' = [sloLog EXCEPT ![s] = Append(log, new)] /\ sloLog' \in [Slos -> Seq(SloStates)]
          /\ sloLog'[s] = Append(log, new) /\ \A t \in Slos : t # s => sloLog'[t] = sloLog[t]
      BY <1>1, <1>2, <2>2, <3>1 DEF SloInv, SloTyped
    <3>3. \A i \in 1 .. Len(log) : log[i] # IF i = 1 THEN "ok" ELSE log[i - 1]
      BY <1>2 DEF SloInv, FiredSound
    <3>4. sloState[s] = IF Len(log) = 0 THEN "ok" ELSE log[Len(log)]
      BY <1>2, <3>1 DEF SloInv, FiredSound
    <3>. HIDE DEF log
    <3>5. ASSUME NEW t \in Slos, t = s PROVE FiredSound(t)'
      <4>1. ASSUME NEW i \in 1 .. Len(log) + 1
            PROVE  Append(log, new)[i] # IF i = 1 THEN "ok" ELSE Append(log, new)[i - 1]
        <5>1. CASE i = Len(log) + 1
          BY <2>2, <3>1, <3>4, <5>1
        <5>2. CASE i # Len(log) + 1
          BY <3>1, <3>3, <5>2
        <5>. QED  BY <5>1, <5>2
      <4>2. Append(log, new) # <<>>
        BY <3>1
      <4>. QED  BY <1>5, <3>1, <3>2, <3>5, <4>1, <4>2 DEF FiredSound
    <3>6. ASSUME NEW t \in Slos, t # s PROVE FiredSound(t)'
      BY <1>5, <3>2, <3>6 DEF SloInv, FiredSound
    <3>. QED  BY <3>2, <3>5, <3>6
  <2>. QED  BY <2>1, <2>2
<1>7. SloTyped'
  BY <1>1, <1>3, <1>4, <1>5, <1>6 DEF SloInv, SloTyped
<1>8. Measured'
  BY <1>2, <1>3 DEF Measured
<1>9. FlagSound'
  <2>1. CASE new = sloState[s]
    <3>1. sloState' = sloState
      BY <1>1, <1>2, <2>1 DEF SloInv, SloTyped
    <3>. QED  BY <1>1, <3>1 DEF SloInv, FlagSound
  <2>2. CASE new # sloState[s]
    BY <1>3, <2>2 DEF FlagSound
  <2>. QED  BY <2>1, <2>2
<1>10. ASSUME NEW t \in Slos PROVE (GaugeOrder(sloGauge[t]) /\ sloGauge[t].remaining.value = sloState[t])'
  <2>1. GaugeOrder(sloGauge[t]) /\ sloGauge[t].remaining.value = sloState[t]
    BY DEF SloInv
  <2>2. CASE t # s
    BY <1>3, <1>4, <1>5, <2>1, <2>2 DEF GaugeOrder
  <2>3. CASE t = s
    <3>1. sloGauge'[t].remaining.at = n /\ sloGauge'[t].remaining.value = new /\ sloState'[t] = new
      BY <1>2, <1>4, <1>5, <2>3
    <3>2. sloGauge'[t].sli = n /\ sloGauge'[t].burn = sloGauge[t].burn /\ \A w \in SloWins : sloGauge[t].burn[w].at = n
      BY <1>2, <1>4, <2>3
    <3>. QED  BY <1>2, <1>3, <2>1, <3>1, <3>2 DEF GaugeOrder
  <2>. QED  BY <2>2, <2>3
<1>. QED  BY <1>6, <1>7, <1>8, <1>9, <1>10 DEF SloInv

LEMMA PublishesKeeps == ASSUME SloInv, NEW ok \in BOOLEAN, Publishes(ok) PROVE SloInv'
<1>. DEFINE s == sloRun.slo
<1>1. /\ sloFlag' = CASE ok /\ sloState[s] = "ok" -> NoFlag
                      [] ok /\ sloState[s] # "ok" ->
                           [state |-> sloState[s], at |-> sloRun.cycle, stuck |-> FALSE]
                      [] ~ok -> [sloFlag EXCEPT !.stuck = TRUE]
      /\ sloRun' = NextSlo(sloRun) /\ sloRun.pc = "publish" /\ UNCHANGED <<sloGauge, sloState, sloLog>>
  BY DEF Publishes
<1>2. s \in Slos /\ sloState[s] \in SloStates /\ sloRun.cycle \in 0 .. sloRun.cycle /\ 0 \in 0 .. sloRun.cycle
  <2>1. sloRun.cycle \in 0 .. SloRefreshes
    BY DEF SloInv, SloTyped
  <2>2. s \in Slos /\ sloState[s] \in SloStates
    BY DEF SloInv, SloTyped
  <2>. QED  BY <2>1, <2>2, SloBasics
<1>3. /\ sloFlag' \in [state : SloStates \cup {"none"}, at : 0 .. sloRun.cycle, stuck : BOOLEAN]
      /\ sloState[s] # "ok" \/ sloFlag'.state = "none" \/ sloFlag'.stuck
  <2>1. CASE ok /\ sloState[s] = "ok"
    BY <1>1, <1>2, <2>1 DEF NoFlag
  <2>2. CASE ok /\ sloState[s] # "ok"
    <3>1. sloFlag' = [state |-> sloState[s], at |-> sloRun.cycle, stuck |-> FALSE]
      BY <1>1, <2>2
    <3>. QED  BY <1>2, <2>2, <3>1
  <2>3. CASE ~ok
    <3>1. sloFlag' = [sloFlag EXCEPT !.stuck = TRUE]
      BY <1>1, <2>3
    <3>. QED  BY <1>2, <3>1 DEF SloInv, SloTyped
  <2>. QED  BY <2>1, <2>2, <2>3
<1>4. FlagSound'
  BY <1>1, <1>2, <1>3 DEF FlagSound
<1>. QED  BY <1>1, <1>3, <1>4, LeavesSlo

LEMMA FlagExpiresKeeps == SloInv /\ FlagExpires => SloInv'
<1>. SUFFICES ASSUME SloInv, FlagExpires PROVE SloInv'
  OBVIOUS
<1>1. sloFlag' = [NoFlag EXCEPT !.stuck = sloFlag.stuck] /\ UNCHANGED <<sloRun, sloGauge, sloState, sloLog>>
  BY DEF FlagExpires
<1>2. sloFlag' \in [state : SloStates \cup {"none"}, at : 0 .. sloRun.cycle, stuck : BOOLEAN] /\ sloFlag'.state = "none"
  <2>1. sloRun.cycle \in 0 .. SloRefreshes /\ sloFlag.stuck \in BOOLEAN
    BY DEF SloInv, SloTyped
  <2>2. 0 \in 0 .. sloRun.cycle
    BY <2>1, SloBasics
  <2>. QED  BY <1>1, <2>1, <2>2 DEF NoFlag
<1>. QED  BY <1>1, <1>2 DEF SloInv, SloTyped, Measured, FlagSound, GaugeOrder, FiredSound

LEMMA SloStepSound == SloInv /\ [SloNext]_sloVars => SloInv'
<1>. SUFFICES ASSUME SloInv, [SloNext]_sloVars PROVE SloInv'
  OBVIOUS
<1>1. CASE UNCHANGED sloVars
  BY <1>1 DEF sloVars, SloInv, SloTyped, Measured, FlagSound, GaugeOrder, FiredSound
<1>2. CASE SloNext
  BY <1>2, RefreshKeeps, FetchRollingKeeps, FetchWindowKeeps, FetchFailsKeeps, EvaluatesKeeps, PublishesKeeps,
     FlagExpiresKeeps DEF SloNext
<1>. QED  BY <1>1, <1>2

\* A window's lowest threshold is at most that of each of its pairs.
LEMMA LowestIsLow ==
  ASSUME NEW i \in 1 .. Len(SloPairs), NEW j \in {1, 2}
  PROVE  LET low == LowestThreshold(SloPairs[i][j]) IN low \in Nat /\ low <= SloPairs[i][3]
<1>. DEFINE w == SloPairs[i][j]
            ts == {SloPairs[k][3] : k \in {l \in 1 .. Len(SloPairs) : w \in {SloPairs[l][1], SloPairs[l][2]}}}
<1>1. ts \in SUBSET Nat /\ SloPairs[i][3] \in ts
  BY SloAssumption
<1>2. PICK t \in ts : \A u \in ts : t <= u
  <2>. HIDE DEF ts
  <2>. QED  BY <1>1, LeastNumber
<1>3. LowestThreshold(w) \in ts /\ \A u \in ts : LowestThreshold(w) <= u
  BY <1>2 DEF LowestThreshold
<1>. QED  BY <1>1, <1>3

LEMMA TargetAllows == ASSUME NEW s \in Slos PROVE 1000 - SloTarget[s] \in Nat
<1>1. SloTarget[s] \in 1 .. 999
  BY SloAssumption, Zenon
<1>. QED  BY <1>1

LEMMA AlertBurns ==
  ASSUME SloInv, NEW s \in Slos, AlertFired(s)
  PROVE  \E i \in 1 .. Len(SloPairs) : \A j \in {1, 2} : IsBurned(s, SloPairs[i][j])
<1>1. PICK i \in 1 .. Len(SloPairs) : \A j \in {1, 2} : Burns(s, SloPairs[i][j], SloPairs[i][3])
  BY DEF AlertFired
<1>2. ASSUME NEW j \in {1, 2} PROVE IsBurned(s, SloPairs[i][j])
  <2>. DEFINE w == SloPairs[i][j]
              c == sloGauge[s].burn[WindowAt(w)].value
              low == LowestThreshold(w)
              t == SloPairs[i][3]
              k == 1000 - SloTarget[s]
  <2>1. WindowAt(w) \in SloWins
    BY SloAssumption DEF WindowAt, SloWins
  <2>2. c \in Readings
    BY <2>1 DEF SloInv, SloTyped
  <2>3. c[1] \in Nat /\ c[2] \in Nat
    BY <2>2, SloBasics
  <2>4. low \in Nat /\ low <= t /\ t \in Nat
    BY LowestIsLow, SloAssumption
  <2>5. k \in Nat
    BY TargetAllows
  <2>6. c[2] > 0 /\ 10000 * c[1] > t * k * c[2]
    BY <1>1 DEF Burns
  <2>7. low * k * c[2] <= t * k * c[2]
    <3>. HIDE DEF c, low, t, k
    <3>1. low * k <= t * k /\ low * k \in Nat /\ t * k \in Nat
      BY <2>4, <2>5
    <3>. QED  BY <2>3, <3>1
  <2>8. low * k * c[2] \in Nat /\ t * k * c[2] \in Nat /\ 10000 * c[1] \in Nat
    <3>. HIDE DEF c, low, t, k
    <3>1. low * k \in Nat /\ t * k \in Nat
      BY <2>4, <2>5
    <3>. QED  BY <2>3, <3>1
  <2>9. 10000 * c[1] > low * k * c[2]
    <3>. HIDE DEF c, low, t, k
    <3>. QED  BY <2>6, <2>7, <2>8
  <2>. QED  BY <2>6, <2>9 DEF IsBurned, Burns
<1>. QED  BY <1>2

LEMMA SloFollows == SloInv => ActionsMatchState /\ GaugesInOrder /\ SloTypeOK
<1>. SUFFICES ASSUME SloInv PROVE ActionsMatchState /\ GaugesInOrder /\ SloTypeOK
  OBVIOUS
<1>1. SloTypeOK
  <2>1. sloFlag.state \in SloStates \cup {"none"} /\ sloFlag.at \in 0 .. sloRun.cycle
    BY DEF SloInv, SloTyped
  <2>. QED  BY <2>1 DEF SloInv, SloTyped, SloTypeOK
<1>2. ActionsMatchState
  <2>1. ASSUME NEW s \in Slos
        PROVE  LET log == <<"ok">> \o sloLog[s] IN
               /\ \A i \in 1 .. Len(log) - 1 : log[i] # log[i + 1]
               /\ log[Len(log)] = sloState[s]
    <3>. DEFINE l == sloLog[s]
                log == <<"ok">> \o l
    <3>1. l \in Seq(SloStates) /\ Len(l) \in Nat
      BY DEF SloInv, SloTyped
    <3>2. /\ \A i \in 1 .. Len(l) : l[i] # IF i = 1 THEN "ok" ELSE l[i - 1]
          /\ sloState[s] = IF Len(l) = 0 THEN "ok" ELSE l[Len(l)]
      BY <3>1 DEF SloInv, FiredSound
    <3>. HIDE DEF l
    <3>3. Len(log) = Len(l) + 1 /\ log[1] = "ok" /\ \A i \in 2 .. Len(l) + 1 : log[i] = l[i - 1]
      BY <3>1
    <3>. HIDE DEF log
    <3>4. ASSUME NEW i \in 1 .. Len(log) - 1 PROVE log[i] # log[i + 1]
      <4>1. i \in 1 .. Len(l) /\ i + 1 \in 2 .. Len(l) + 1 /\ log[i + 1] = l[i]
        BY <3>1, <3>3
      <4>2. log[i] = IF i = 1 THEN "ok" ELSE l[i - 1]
        BY <3>1, <3>3, <4>1
      <4>. QED  BY <3>2, <4>1, <4>2
    <3>5. log[Len(log)] = sloState[s]
      BY <3>1, <3>2, <3>3
    <3>. QED  BY <3>4, <3>5 DEF log, l
  <2>. QED  BY <2>1 DEF ActionsMatchState, SloInv, FlagSound
<1>3. GateBlocks <=> \E t \in Slos : sloState[t] = "hard"
  <2>1. ASSUME NEW t \in Slos, sloState[t] = "hard" PROVE sloGauge[t].remaining.at > 0 /\ sloGauge[t].remaining.value = "hard"
    <3>1. sloGauge[t].remaining.at \in Nat
      BY DEF SloInv, SloTyped
    <3>. QED  BY <2>1, <3>1 DEF SloInv, GaugeOrder
  <2>. QED  BY <2>1 DEF GateBlocks, SloInv
<1>4. ASSUME NEW s \in Slos
      PROVE  LET g == sloGauge[s]
                 at == <<g.sli>> \o [w \in 1 .. Len(SloWindows) |-> g.burn[w].at] \o <<g.remaining.at>>
             IN  \A i \in 1 .. Len(at) - 1 : at[i] >= at[i + 1]
  <2>. DEFINE g == sloGauge[s]
              n == Len(SloWindows)
              b == [w \in 1 .. n |-> g.burn[w].at]
              at == <<g.sli>> \o b \o <<g.remaining.at>>
  <2>1. g.sli \in Nat /\ g.remaining.at \in Nat /\ n \in Nat /\ \A w \in 1 .. n : g.burn[w].at \in Nat
    <3>1. g \in [sli : Nat, burn : [1 .. n -> [at : Nat, value : Readings]], remaining : [at : Nat, value : SloStates]]
      BY DEF SloInv, SloTyped, SloWins
    <3>. QED  BY <3>1, SloBasics
  <2>2. /\ g.remaining.at <= g.sli
        /\ \A w \in 1 .. n : b[w] <= g.sli /\ g.remaining.at <= b[w]
        /\ \A v, w \in 1 .. n : v < w => b[w] <= b[v]
    BY DEF SloInv, GaugeOrder, SloWins
  <2>3. b \in Seq(Nat) /\ Len(b) = n
    BY <2>1
  <2>. HIDE DEF b, g, n
  <2>4. /\ Len(at) = n + 2 /\ at[1] = g.sli /\ at[n + 2] = g.remaining.at
        /\ \A i \in 2 .. n + 1 : at[i] = b[i - 1]
    BY <2>1, <2>3
  <2>. HIDE DEF at
  <2>5. ASSUME NEW i \in 1 .. Len(at) - 1 PROVE at[i] >= at[i + 1]
    <3>0. \A w \in 1 .. n : b[w] \in Nat
      BY <2>1, <2>3
    <3>1. CASE n = 0
      BY <2>1, <2>2, <2>4, <3>1
    <3>2. CASE n > 0 /\ i = 1
      BY <2>1, <2>2, <2>4, <3>0, <3>2
    <3>3. CASE n > 0 /\ i = n + 1
      BY <2>1, <2>2, <2>4, <3>0, <3>3
    <3>4. CASE n > 0 /\ i \in 2 .. n
      <4>1. i - 1 \in 1 .. n /\ i \in 1 .. n /\ i - 1 < i /\ at[i] = b[i - 1] /\ at[i + 1] = b[i]
        BY <2>1, <2>4, <3>4
      <4>2. b[i] <= b[i - 1] /\ b[i] \in Nat /\ b[i - 1] \in Nat
        BY <2>2, <3>0, <4>1
      <4>. QED  BY <4>1, <4>2
    <3>. QED  BY <2>1, <2>4, <3>1, <3>2, <3>3, <3>4
  <2>. QED  BY <2>5 DEF at, b, g, n
<1>. QED  BY <1>1, <1>2, <1>3, <1>4, AlertBurns DEF GaugesInOrder, SloInv

\* A cycle's answers are published together, and under its number.
HealthInv ==
  /\ HealthTypeOK /\ GaugesOneCycle
  /\ hpCycle \in [n : Nat, published : Nat, pc : {"waits", "probes"}]
  /\ hpGauge \in [HpTargets -> [value : Answers \cup {"none"}, cycle : Nat]]
  /\ hpCycle.pc = "probes" => hpCycle.n > 0

LEMMA HealthStepSound == HealthInv /\ [HealthNext]_healthVars => HealthInv'
<1>. SUFFICES ASSUME HealthInv, [HealthNext]_healthVars PROVE HealthInv'
  OBVIOUS
<1>. USE DEF HealthInv
<1>1. CASE BeginCycle
  <2>1. hpCycle.n + 1 \in Nat /\ hpCycle.n + 1 > 0
    OBVIOUS
  <2>. QED  BY <1>1, <2>1 DEF BeginCycle, HealthTypeOK, GaugesOneCycle
<1>2. CASE \E d \in HpTargets, a \in Answers : Answer(d, a)
  BY <1>2 DEF Answer, HealthTypeOK, GaugesOneCycle
<1>3. CASE \E d \in HpTargets : Raise(d)
  BY <1>3 DEF Raise, HealthTypeOK, GaugesOneCycle
<1>4. CASE ApplyGauges
  <2>1. hpCycle'.published = hpCycle.n /\ hpCycle.n # 0 /\ "none" \notin Answers
    BY <1>4 DEF ApplyGauges, Answers
  <2>2. /\ hpGauge' = [d \in HpTargets |-> [value |-> hpProbe[d], cycle |-> hpCycle.n]]
        /\ \A d \in HpTargets : hpProbe[d] \in Answers
    BY <1>4 DEF ApplyGauges
  <2>3. GaugesOneCycle'
    BY <2>1, <2>2 DEF GaugesOneCycle
  <2>4. hpGauge' \in [HpTargets -> [value : Answers \cup {"none"}, cycle : Nat]]
    BY <2>2
  <2>. QED  BY <1>4, <2>3, <2>4 DEF ApplyGauges, HealthTypeOK
<1>5. CASE UNCHANGED healthVars
  BY <1>5 DEF healthVars, HealthTypeOK, GaugesOneCycle
<1>. QED  BY <1>1, <1>2, <1>3, <1>4, <1>5 DEF HealthNext

\* Refresher, error budget policy and health checker, for any SLOs, windows, pairs,
\* readings and dependencies, whatever query, publish or probe fails: one action per
\* change of class, no gauge newer than one measured before it, the deploy gate follows
\* the states, and the health gauges are all of one cycle (slo/error_budget.py,
\* slo/refresher.py, ha/health_checks.py).
THEOREM GaugesConsistency == SloSpec /\ HealthSpec => [](GaugesConsistent /\ SloTypeOK /\ HealthTypeOK)
<1>1. HealthInit => HealthInv
  BY DEF HealthInit, HealthInv, HealthTypeOK, GaugesOneCycle
<1>2. SloInv /\ HealthInv => GaugesConsistent /\ SloTypeOK /\ HealthTypeOK
  BY SloFollows DEF GaugesConsistent, HealthInv
<1>. QED  BY <1>1, <1>2, SloInitSound, SloStepSound, HealthStepSound, PTL DEF SloSpec, HealthSpec

-----------------------------------------------------------------------------
(* The schedule.  A loop that waits has computed the next due minute of every *)
(* job, so that no minute before the one it waits for is due; the minute it   *)
(* began to wait in, it had worked in.                                        *)

\* Division by a number that is not zero.
LEMMA DivMod ==
  ASSUME NEW a \in Nat, NEW m \in Nat \ {0}
  PROVE  a \div m \in Nat /\ a % m \in Nat /\ a % m < m /\ a = m * (a \div m) + (a % m)
<1>1. a % m \in 0 .. m - 1
  OBVIOUS
<1>2. a \div m \in Int
  OBVIOUS
<1>3. a = m * (a \div m) + (a % m)
  OBVIOUS
<1>4. a \div m >= 0
  OBVIOUS
<1>. QED BY <1>1, <1>2, <1>3, <1>4

LEMMA Times ==
  ASSUME NEW m \in Nat \ {0}, NEW d \in Nat \ {0}
  PROVE  m * d \in Nat /\ m * d >= m
<1>1. m * (d - 1) >= 0 /\ m * (d - 1) \in Int
  OBVIOUS
<1>2. m * d = m * (d - 1) + m
  OBVIOUS
<1>. QED BY <1>1, <1>2

LEMMA DivUnique ==
  ASSUME NEW m \in Nat \ {0}, NEW q \in Nat, NEW r \in Nat, NEW p \in Nat, NEW s \in Nat, r < m, s < m,
         m * q + r = m * p + s
  PROVE  q = p /\ r = s
<1>1. CASE q > p
  <2>1. q - p \in Nat \ {0}
    BY <1>1
  <2>2. m * (q - p) >= m
    BY <2>1, Times
  <2>3. m * (q - p) = m * q - m * p /\ m * q \in Nat /\ m * p \in Nat
    OBVIOUS
  <2>. QED  BY <2>2, <2>3
<1>2. CASE p > q
  <2>1. p - q \in Nat \ {0}
    BY <1>2
  <2>2. m * (p - q) >= m
    BY <2>1, Times
  <2>3. m * (p - q) = m * p - m * q /\ m * q \in Nat /\ m * p \in Nat
    OBVIOUS
  <2>. QED  BY <2>2, <2>3
<1>3. CASE p = q
  <2>1. m * q \in Nat
    OBVIOUS
  <2>. QED BY <1>3, <2>1
<1>. QED BY <1>1, <1>2, <1>3

LEMMA ModShift ==
  ASSUME NEW m \in Nat \ {0}, NEW q \in Nat, NEW k \in Nat
  PROVE  (m * q + k) \div m = q + k \div m /\ (m * q + k) % m = k % m
<1>. DEFINE a == m * q + k
<1>1. a \in Nat
  OBVIOUS
<1>2. a \div m \in Nat /\ a % m \in Nat /\ a % m < m /\ a = m * (a \div m) + (a % m)
  BY <1>1, DivMod
<1>3. k \div m \in Nat /\ k % m \in Nat /\ k % m < m /\ k = m * (k \div m) + (k % m)
  BY DivMod
<1>4. m * (q + k \div m) = m * q + m * (k \div m)
  BY <1>3
<1>5. a = m * (q + k \div m) + (k % m)
  <2>1. m * q \in Nat /\ m * (k \div m) \in Nat
    BY <1>3
  <2>. QED  BY <1>3, <1>4, <2>1
<1>. HIDE DEF a
<1>6. q + k \div m \in Nat
  BY <1>3
<1>7. a \div m = q + k \div m /\ a % m = k % m
  BY <1>2, <1>3, <1>5, <1>6, DivUnique
<1>. QED  BY <1>7 DEF a

LEMMA CronNumbers ==
  /\ {MigrationAttempts, MinutesPerHour, HoursPerDay, DaysPerMonth, DaysPerWeek, Period} \subseteq Nat \ {0}
  /\ {RetryMinutes, LongestRun} \subseteq Nat
  /\ JobList \in Seq(STRING) /\ Len(JobList) \in Nat \ {0} /\ DOMAIN JobList = 1 .. Len(JobList)
  /\ JobList[1] \in Jobs /\ Jobs # {} /\ \A i \in DOMAIN JobList : JobList[i] \in Jobs
<1>1. /\ {MigrationAttempts, MinutesPerHour, HoursPerDay, DaysPerMonth, DaysPerWeek, Period} \subseteq Nat \ {0}
      /\ {RetryMinutes, LongestRun} \subseteq Nat
  BY CronAssumption
<1>2. JobList \in Seq(STRING) /\ Len(JobList) \in Nat \ {0} /\ DOMAIN JobList = 1 .. Len(JobList)
  BY CronAssumption
<1>3. \A i \in DOMAIN JobList : JobList[i] \in Jobs
  BY DEF Jobs, Range
<1>4. 1 \in DOMAIN JobList
  BY <1>2
<1>. QED  BY <1>1, <1>2, <1>3, <1>4

\* The calendar repeats.
LEMMA PeriodOf ==
  ASSUME NEW d \in {DaysPerMonth, DaysPerWeek}
  PROVE  \E a \in Nat : Period = (MinutesPerHour * HoursPerDay) * (d * a)
<1>. DEFINE D == MinutesPerHour * HoursPerDay
            a == Period \div (D * d)
<1>1. D \in Nat \ {0} /\ d \in Nat \ {0} /\ Period \in Nat /\ Period % (D * d) = 0
  <2>1. MinutesPerHour * HoursPerDay >= MinutesPerHour /\ MinutesPerHour * HoursPerDay \in Nat
    BY CronNumbers, Times
  <2>. QED  BY <2>1, CronAssumption
<1>. HIDE DEF D
<1>2. D * d \in Nat \ {0}
  <2>1. D * d >= D /\ D * d \in Nat
    BY <1>1, Times
  <2>. QED  BY <1>1, <2>1
<1>3. a \in Nat /\ Period = (D * d) * a + (Period % (D * d))
  BY <1>1, <1>2, DivMod
<1>. HIDE DEF a
<1>4. (D * d) * a = D * (d * a) /\ (D * d) * a \in Nat
  BY <1>1, <1>3
<1>5. Period = D * (d * a)
  BY <1>1, <1>3, <1>4
<1>. QED  BY <1>3, <1>5 DEF D

LEMMA MatchesRepeats ==
  ASSUME NEW j \in Jobs, NEW k \in Nat
  PROVE  Matches(j, Period + k) <=> Matches(j, k)
<1>. DEFINE M == MinutesPerHour
            H == HoursPerDay
            D == M * H
            t == Period + k
<1>1. M \in Nat \ {0} /\ H \in Nat \ {0} /\ DaysPerMonth \in Nat \ {0} /\ DaysPerWeek \in Nat \ {0}
  BY CronNumbers
<1>2. D \in Nat \ {0}
  <2>1. D >= M /\ D \in Nat
    BY <1>1, Times
  <2>. QED  BY <1>1, <2>1
<1>3. PICK a \in Nat : Period = D * (DaysPerMonth * a)
  BY PeriodOf
<1>4. PICK b \in Nat : Period = D * (DaysPerWeek * b)
  BY PeriodOf
<1>5. DaysPerMonth * a \in Nat /\ DaysPerWeek * b \in Nat
  BY <1>1
<1>. DEFINE A == DaysPerMonth * a
            B == DaysPerWeek * b
<1>6. t % M = k % M /\ (t \div M) % H = (k \div M) % H
  <2>. DEFINE q == H * A
  <2>. HIDE DEF A, M, H
  <2>1. A \in Nat /\ Period = D * A
    BY <1>3, <1>5 DEF A
  <2>2. H * A \in Nat /\ D * A = M * (H * A)
    BY <1>1, <2>1
  <2>3. t = M * q + k /\ q \in Nat
    BY <2>1, <2>2
  <2>4. t \div M = q + (k \div M) /\ t % M = k % M
    <3>. HIDE DEF q, t
    <3>1. (M * q + k) \div M = q + (k \div M) /\ (M * q + k) % M = k % M
      BY <1>1, <2>3, ModShift
    <3>. QED  BY <2>3, <3>1
  <2>5. k \div M \in Nat
    BY <1>1, DivMod
  <2>6. (H * A + (k \div M)) % H = (k \div M) % H
    BY <1>1, <2>1, <2>5, ModShift
  <2>. QED  BY <2>4, <2>6
<1>7. k \div D \in Nat
  BY <1>2, DivMod
<1>8. (t \div D) % DaysPerMonth = (k \div D) % DaysPerMonth
  <2>. HIDE DEF D
  <2>1. t = D * A + k /\ A \in Nat
    BY <1>3, <1>5
  <2>2. t \div D = A + (k \div D)
    <3>. HIDE DEF A, t
    <3>1. (D * A + k) \div D = A + (k \div D)
      BY <1>2, <2>1, ModShift
    <3>. QED  BY <2>1, <3>1
  <2>. DEFINE e == k \div D
  <2>3. (DaysPerMonth * a + e) % DaysPerMonth = e % DaysPerMonth
    <3>. HIDE DEF e
    <3>1. e \in Nat
      BY <1>7 DEF e
    <3>. QED  BY <1>1, <3>1, ModShift
  <2>. QED  BY <2>2, <2>3
<1>9. (t \div D) % DaysPerWeek = (k \div D) % DaysPerWeek
  <2>. HIDE DEF D
  <2>1. t = D * B + k /\ B \in Nat
    BY <1>4, <1>5
  <2>2. t \div D = B + (k \div D)
    <3>. HIDE DEF B, t
    <3>1. (D * B + k) \div D = B + (k \div D)
      BY <1>2, <2>1, ModShift
    <3>. QED  BY <2>1, <3>1
  <2>. DEFINE e == k \div D
  <2>3. (DaysPerWeek * b + e) % DaysPerWeek = e % DaysPerWeek
    <3>. HIDE DEF e
    <3>1. e \in Nat
      BY <1>7 DEF e
    <3>. QED  BY <1>1, <3>1, ModShift
  <2>. QED  BY <2>2, <2>3
<1>. QED  BY <1>6, <1>8, <1>9 DEF Matches

LongestWait == Max({Period, LongestRun, RetryMinutes})

CronTyped ==
  /\ clock \in 0 .. Period - 1 /\ stop \in BOOLEAN
  /\ started \subseteq Jobs /\ missed \subseteq Jobs /\ crowded \subseteq Jobs
  /\ cron \in [pc : {"start", "pick", "sleep", "run", "retry", "down"}, job : Jobs,
               attempt : 1 .. MigrationAttempts, left : 0 .. LongestWait, boot : BOOLEAN]

\* Nothing is due before the loop wakes.
NothingBefore ==
  cron.pc = "sleep" =>
    /\ \A j \in Jobs : \A k \in Nat : 0 < k /\ k < cron.left => ~Matches(j, clock + k)
    /\ cron.left > 0 /\ started = {} => \A j \in Jobs : ~Matches(j, clock)

CronInv ==
  /\ CronTyped /\ NothingBefore /\ LoopSurvives
  /\ missed # {} => crowded # {}
  /\ cron.pc \in {"pick", "run", "retry"} => started # {}

LEMMA WaitsBounded ==
  /\ LongestWait \in Nat /\ {Period, LongestRun, RetryMinutes} \subseteq 0 .. LongestWait
  /\ 0 \in 0 .. LongestWait /\ 1 \in 1 .. MigrationAttempts /\ Period \in Nat
<1>. DEFINE S == {Period, LongestRun, RetryMinutes}
<1>1. S \subseteq Nat /\ Period \in Nat \ {0}
  BY CronNumbers
<1>2. \E x \in S : \A y \in S : x >= y
  BY <1>1
<1>3. LongestWait \in S /\ \A y \in S : LongestWait >= y
  <2>. HIDE DEF S
  <2>1. Max(S) \in S /\ \A y \in S : Max(S) >= y
    BY <1>2, Zenon DEF Max
  <2>. QED  BY <2>1 DEF LongestWait, S
<1>4. 1 \in 1 .. MigrationAttempts
  BY CronNumbers
<1>. QED  BY <1>1, <1>3, <1>4

LEMMA AtTyped ==
  ASSUME CronInv, NEW pc, NEW j \in Jobs, NEW a \in 1 .. MigrationAttempts, NEW n \in 0 .. LongestWait,
         pc \in {"start", "pick", "sleep", "run", "retry", "down"}
  PROVE  /\ At(pc, j, a, n) \in [pc : {"start", "pick", "sleep", "run", "retry", "down"}, job : Jobs,
                                 attempt : 1 .. MigrationAttempts, left : 0 .. LongestWait, boot : BOOLEAN]
         /\ At(pc, j, a, n).pc = pc /\ At(pc, j, a, n).left = n
BY DEF At, CronInv, CronTyped

\* The minute of the calendar after the present one.
LEMMA NextMinute ==
  ASSUME CronInv, NEW k \in Nat, NEW j \in Jobs
  PROVE  LET next == (clock + 1) % Period IN
         /\ next \in 0 .. Period - 1
         /\ Matches(j, next + k) <=> Matches(j, clock + 1 + k)
<1>1. clock \in Nat /\ clock <= Period - 1 /\ Period \in Nat \ {0}
  BY CronNumbers DEF CronInv, CronTyped
<1>2. CASE clock + 1 < Period
  <2>1. (clock + 1) % Period = clock + 1
    BY <1>1, <1>2
  <2>. QED  BY <1>1, <1>2, <2>1
<1>3. CASE clock + 1 = Period
  <2>1. (clock + 1) % Period = 0
    BY <1>1, <1>3
  <2>2. clock + 1 + k = Period + k /\ 0 + k = k
    BY <1>1, <1>3
  <2>. QED  BY <1>1, <2>1, <2>2, MatchesRepeats
<1>. QED  BY <1>1, <1>2, <1>3

LEMMA WaitForSound ==
  ASSUME CronInv, NEW j \in Jobs, j \notin NeverMatches
  PROVE  WaitFor(j) \in 1 .. Period /\ \A k \in Nat : 0 < k /\ k < WaitFor(j) => ~Matches(j, clock + k)
<1>1. Ahead(j) # {} /\ Ahead(j) \in SUBSET Nat
  BY DEF NeverMatches, Ahead
<1>2. WaitFor(j) \in Ahead(j) /\ \A e \in Ahead(j) : WaitFor(j) <= e
  BY <1>1, MinIsLeast DEF WaitFor
<1>3. WaitFor(j) \in 1 .. Period
  BY <1>2 DEF Ahead
<1>4. ASSUME NEW k \in Nat, 0 < k, k < WaitFor(j) PROVE ~Matches(j, clock + k)
  <2>1. k \in 1 .. Period
    BY <1>3, <1>4, CronNumbers
  <2>2. k \notin Ahead(j)
    BY <1>2, <1>3, <1>4
  <2>. QED  BY <2>1, <2>2 DEF Ahead
<1>. QED  BY <1>3, <1>4

\* The loop sleeps for as many minutes as nothing is due, and then one job is.
LEMMA SoonestSound ==
  ASSUME CronInv, NeverMatches = {}
  PROVE  /\ Soonest \in [pc : {"sleep"}, job : Jobs, attempt : 1 .. MigrationAttempts, left : 0 .. LongestWait, boot : BOOLEAN]
         /\ \A j \in Jobs : \A k \in Nat : 0 < k /\ k < Soonest.left => ~Matches(j, clock + k)
<1>. DEFINE W == {WaitFor(j) : j \in Jobs}
            first == Min(W)
            I == {i \in DOMAIN JobList : WaitFor(JobList[i]) = first}
            i0 == Min(I)
<1>1. \A j \in Jobs : WaitFor(j) \in 1 .. Period
  BY WaitForSound
<1>2. W \in SUBSET Nat /\ W # {}
  BY <1>1, CronNumbers
<1>3. first \in W /\ \A e \in W : first <= e
  <2>. HIDE DEF W
  <2>. QED  BY <1>2, MinIsLeast
<1>. HIDE DEF first
<1>4. PICK j0 \in Jobs : WaitFor(j0) = first
  BY <1>3
<1>5. first \in 1 .. Period /\ first \in 0 .. LongestWait
  <2>1. first \in 1 .. Period
    BY <1>1, <1>4
  <2>. QED  BY <2>1, WaitsBounded
<1>6. I \in SUBSET Nat /\ I # {}
  <2>1. I \in SUBSET Nat
    BY CronNumbers
  <2>2. PICK i \in DOMAIN JobList : JobList[i] = j0
    BY DEF Jobs, Range
  <2>. QED  BY <1>4, <2>1, <2>2
<1>7. i0 \in DOMAIN JobList
  <2>1. i0 \in I
    <3>. HIDE DEF I
    <3>. QED  BY <1>6, MinIsLeast
  <2>. QED  BY <2>1
<1>8. Soonest = At("sleep", JobList[i0], 1, first)
  BY DEF Soonest, first
<1>9. JobList[i0] \in Jobs
  BY <1>7, CronNumbers
<1>. HIDE DEF i0, I
<1>10. /\ Soonest \in [pc : {"sleep"}, job : Jobs, attempt : 1 .. MigrationAttempts, left : 0 .. LongestWait, boot : BOOLEAN]
       /\ Soonest.left = first
  BY <1>5, <1>8, <1>9, WaitsBounded DEF At, CronInv, CronTyped
<1>11. ASSUME NEW j \in Jobs, NEW k \in Nat, 0 < k, k < first PROVE ~Matches(j, clock + k)
  <2>1. first <= WaitFor(j) /\ WaitFor(j) \in 1 .. Period
    BY <1>1, <1>3
  <2>2. k < WaitFor(j)
    BY <1>5, <1>11, <2>1
  <2>. QED  BY <1>11, <2>2, WaitForSound
<1>. QED  BY <1>10, <1>11

LEMMA AfterSound ==
  ASSUME CronInv, NEW j \in Jobs
  PROVE  After(j) \in [pc : {"start", "pick"}, job : Jobs, attempt : 1 .. MigrationAttempts, left : 0 .. LongestWait, boot : BOOLEAN]
<1>. DEFINE later == {i \in DOMAIN JobList : \E k \in DOMAIN JobList : JobList[k] = j /\ k < i}
<1>1. cron.boot \in BOOLEAN
  BY DEF CronInv, CronTyped
<1>2. CASE cron.boot /\ later # {}
  <2>1. later \in SUBSET Nat
    BY CronNumbers
  <2>2. Min(later) \in later
    <3>. HIDE DEF later
    <3>. QED  BY <1>2, <2>1, MinIsLeast
  <2>3. JobList[Min(later)] \in Jobs
    BY <2>2, CronNumbers
  <2>4. After(j) = At("start", JobList[Min(later)], 1, 0)
    BY <1>2 DEF After
  <2>. HIDE DEF later
  <2>. QED  BY <1>1, <2>3, <2>4, WaitsBounded DEF At
<1>3. CASE ~(cron.boot /\ later # {})
  <2>1. After(j) = [At("pick", j, 1, 0) EXCEPT !.boot = FALSE]
    BY <1>3 DEF After
  <2>. QED  BY <1>1, <2>1, WaitsBounded DEF At
<1>. QED  BY <1>2, <1>3

LEMMA CronInitSound == CronInit => CronInv
<1>. SUFFICES ASSUME CronInit PROVE CronInv
  OBVIOUS
<1>1. CronTyped
  <2>1. 0 \in 0 .. Period - 1 /\ JobList[1] \in Jobs
    BY CronNumbers
  <2>2. PICK boot \in BOOLEAN : cron = [pc |-> IF boot THEN "start" ELSE "pick", job |-> JobList[1], attempt |-> 1,
                                        left |-> 0, boot |-> boot]
    BY DEF CronInit
  <2>3. cron \in [pc : {"start", "pick", "sleep", "run", "retry", "down"}, job : Jobs,
                  attempt : 1 .. MigrationAttempts, left : 0 .. LongestWait, boot : BOOLEAN]
    BY <2>1, <2>2, WaitsBounded
  <2>. QED  BY <2>1, <2>3 DEF CronInit, CronTyped
<1>2. NothingBefore /\ LoopSurvives
  BY DEF CronInit, NothingBefore, LoopSurvives
<1>. QED  BY <1>1, <1>2, CronNumbers DEF CronInit, CronInv

LEMMA CronTickKeeps == CronInv /\ CronTick => CronInv'
<1>. SUFFICES ASSUME CronInv, CronTick PROVE CronInv'
  OBVIOUS
<1>1. /\ cron.pc \in {"sleep", "run", "retry"} /\ cron.left > 0 /\ clock' = (clock + 1) % Period
      /\ cron' = [cron EXCEPT !.left = @ - 1] /\ missed' = {j \in Jobs : Matches(j, clock)} \ started
      /\ crowded' = started /\ started' = (IF cron.pc = "sleep" THEN {} ELSE {cron.job}) /\ UNCHANGED <<stop, fell>>
  BY DEF CronTick
<1>2. cron.left \in Nat /\ cron.left - 1 \in 0 .. LongestWait /\ clock \in Nat
  BY <1>1, WaitsBounded DEF CronInv, CronTyped
<1>3. /\ cron' \in [pc : {"sleep", "run", "retry"}, job : Jobs, attempt : 1 .. MigrationAttempts,
                    left : 0 .. LongestWait, boot : BOOLEAN]
      /\ cron'.pc = cron.pc /\ cron'.left = cron.left - 1
  BY <1>1, <1>2 DEF CronInv, CronTyped
<1>4. clock' \in 0 .. Period - 1 /\ \A j \in Jobs : \A k \in Nat : Matches(j, clock' + k) <=> Matches(j, clock + 1 + k)
  BY <1>1, NextMinute, CronNumbers
<1>5. CronTyped'
  BY <1>1, <1>3, <1>4 DEF CronInv, CronTyped
<1>6. NothingBefore'
  <2>. SUFFICES ASSUME cron.pc = "sleep"
                PROVE  /\ \A j \in Jobs : \A k \in Nat : 0 < k /\ k < cron.left - 1 => ~Matches(j, clock' + k)
                       /\ cron.left - 1 > 0 => \A j \in Jobs : ~Matches(j, clock')
    BY <1>3 DEF NothingBefore
  <2>1. \A j \in Jobs : \A k \in Nat : 0 < k /\ k < cron.left => ~Matches(j, clock + k)
    BY DEF CronInv, NothingBefore
  <2>2. ASSUME NEW j \in Jobs, NEW k \in Nat, k < cron.left - 1 PROVE ~Matches(j, clock' + k)
    <3>1. 1 + k \in Nat /\ 0 < 1 + k /\ 1 + k < cron.left /\ clock + 1 + k = clock + (1 + k)
      BY <1>2, <2>2
    <3>2. ~Matches(j, clock + (1 + k))
      BY <2>1, <3>1
    <3>. QED  BY <1>4, <3>1, <3>2
  <2>3. clock' + 0 = clock'
    <3>1. clock' \in Nat
      BY <1>4, CronNumbers
    <3>2. \A x \in Nat : x + 0 = x
      OBVIOUS
    <3>. QED  BY ONLY <3>1, <3>2
  <2>4. ASSUME NEW j \in Jobs, cron.left - 1 > 0 PROVE ~Matches(j, clock')
    <3>1. ~Matches(j, clock' + 0)
      BY <2>2, <2>4
    <3>. QED  BY <2>3, <3>1
  <2>. QED  BY <2>2, <2>4
<1>7. LoopSurvives'
  BY <1>1, <1>3 DEF LoopSurvives
<1>8. missed' # {} => crowded' # {}
  <2>1. CASE started = {}
    <3>1. cron.pc = "sleep"
      BY <1>1, <2>1 DEF CronInv
    <3>2. \A j \in Jobs : ~Matches(j, clock)
      BY <1>1, <2>1, <3>1 DEF CronInv, NothingBefore
    <3>. QED  BY <1>1, <3>2
  <2>. QED  BY <1>1, <2>1
<1>. QED  BY <1>1, <1>3, <1>5, <1>6, <1>7, <1>8 DEF CronInv

\* The steps that take no time.
LEMMA CronMoves ==
  ASSUME CronInv, UNCHANGED <<clock, missed, crowded>>, stop' \in BOOLEAN, started \subseteq started', started' \subseteq Jobs,
         cron' \in [pc : {"start", "pick", "sleep", "run", "retry", "down"}, job : Jobs,
                    attempt : 1 .. MigrationAttempts, left : 0 .. LongestWait, boot : BOOLEAN],
         cron'.pc = "sleep" => NothingBefore', cron'.pc = "down" => LoopSurvives',
         cron'.pc \in {"pick", "run", "retry"} => started' # {}
  PROVE  CronInv'
<1>1. CronTyped'
  BY DEF CronInv, CronTyped
<1>2. NothingBefore' /\ LoopSurvives'
  BY DEF NothingBefore, LoopSurvives
<1>. QED  BY <1>1, <1>2 DEF CronInv

LEMMA CronStepSound == CronInv /\ [CronNext]_cronVars => CronInv'
<1>. SUFFICES ASSUME CronInv, [CronNext]_cronVars PROVE CronInv'
  OBVIOUS
<1>. DEFINE Where == [pc : {"start", "pick", "sleep", "run", "retry", "down"}, job : Jobs,
                      attempt : 1 .. MigrationAttempts, left : 0 .. LongestWait, boot : BOOLEAN]
<1>0. /\ cron \in Where /\ cron.job \in Jobs /\ cron.attempt \in 1 .. MigrationAttempts
      /\ stop \in BOOLEAN /\ started \subseteq Jobs
  BY DEF CronInv, CronTyped
<1>1. CASE Starts
  <2>1. cron' \in Where /\ cron'.pc = "run"
    BY <1>0, <1>1, AtTyped, WaitsBounded DEF Starts
  <2>2. started' = started \cup {cron.job} /\ UNCHANGED <<clock, stop, missed, crowded, fell>>
    BY <1>1 DEF Starts
  <2>. QED  BY <1>0, <2>1, <2>2, CronMoves
<1>2. CASE Picks
  <2>0. UNCHANGED <<clock, stop, started, missed, crowded>> /\ started # {}
    BY <1>2 DEF Picks, CronInv
  <2>1. CASE stop \/ NeverMatches # {}
    <3>1. cron' = At("down", cron.job, 1, 0) /\ fell' = IF ~stop /\ NeverMatches # {} THEN "schedule" ELSE fell
      BY <1>2, <2>1 DEF Picks
    <3>2. cron' \in Where /\ cron'.pc = "down"
      BY <1>0, <3>1, AtTyped, WaitsBounded
    <3>3. NeverMatches' = NeverMatches
      BY <2>0 DEF NeverMatches, Ahead
    <3>4. LoopSurvives'
      BY <2>0, <2>1, <3>1, <3>3 DEF LoopSurvives
    <3>. QED  BY <1>0, <2>0, <3>2, <3>4, CronMoves
  <2>2. CASE ~(stop \/ NeverMatches # {})
    <3>1. cron' = Soonest
      BY <1>2, <2>2 DEF Picks
    <3>2. /\ cron' \in [pc : {"sleep"}, job : Jobs, attempt : 1 .. MigrationAttempts, left : 0 .. LongestWait, boot : BOOLEAN]
          /\ \A j \in Jobs : \A k \in Nat : 0 < k /\ k < cron'.left => ~Matches(j, clock + k)
      BY <2>2, <3>1, SoonestSound
    <3>3. NothingBefore'
      BY <2>0, <3>2 DEF NothingBefore
    <3>4. cron' \in Where /\ cron'.pc = "sleep"
      BY <3>2
    <3>. QED  BY <1>0, <2>0, <3>3, <3>4, CronMoves
  <2>. QED  BY <2>1, <2>2
<1>3. CASE Fires
  <2>1. cron' \in Where /\ cron'.pc = "start" /\ UNCHANGED <<clock, stop, started, missed, crowded, fell>>
    BY <1>0, <1>3, AtTyped, WaitsBounded DEF Fires
  <2>. QED  BY <1>0, <2>1, CronMoves
<1>4. CASE StopWakes
  <2>1. cron' \in Where /\ cron'.pc = "down" /\ UNCHANGED <<clock, stop, started, missed, crowded, fell>> /\ stop
    BY <1>0, <1>4, AtTyped, WaitsBounded DEF StopWakes
  <2>2. LoopSurvives'
    BY <2>1 DEF LoopSurvives
  <2>. QED  BY <1>0, <2>1, <2>2, CronMoves
<1>5. CASE Finishes
  <2>0. UNCHANGED <<clock, stop, started, missed, crowded>> /\ started # {}
    BY <1>5 DEF Finishes, CronInv
  <2>1. PICK failed \in BOOLEAN :
          IF failed /\ cron.job \in Retrying /\ cron.attempt < MigrationAttempts
          THEN cron' = At("retry", cron.job, cron.attempt + 1, RetryMinutes) /\ UNCHANGED fell
          ELSE IF Escapes(cron.job, failed)
          THEN cron' = At("down", cron.job, 1, 0) /\ fell' = cron.job
          ELSE cron' = After(cron.job) /\ UNCHANGED fell
    BY <1>5 DEF Finishes
  <2>2. CASE failed /\ cron.job \in Retrying /\ cron.attempt < MigrationAttempts
    <3>1. cron.attempt + 1 \in 1 .. MigrationAttempts /\ RetryMinutes \in 0 .. LongestWait
      BY <1>0, <2>2, CronNumbers, WaitsBounded
    <3>2. cron' \in Where /\ cron'.pc = "retry"
      BY <1>0, <2>1, <2>2, <3>1, AtTyped
    <3>. QED  BY <1>0, <2>0, <3>2, CronMoves
  <2>3. CASE ~(failed /\ cron.job \in Retrying /\ cron.attempt < MigrationAttempts) /\ Escapes(cron.job, failed)
    <3>1. cron' = At("down", cron.job, 1, 0) /\ fell' = cron.job
      BY <2>1, <2>3
    <3>2. cron' \in Where /\ cron'.pc = "down"
      BY <1>0, <3>1, AtTyped, WaitsBounded
    <3>3. LoopSurvives'
      BY <2>3, <3>1 DEF LoopSurvives, Escapes
    <3>. QED  BY <1>0, <2>0, <3>2, <3>3, CronMoves
  <2>4. CASE ~(failed /\ cron.job \in Retrying /\ cron.attempt < MigrationAttempts) /\ ~Escapes(cron.job, failed)
    <3>1. cron' = After(cron.job)
      BY <2>1, <2>4
    <3>2. cron' \in Where /\ cron'.pc \in {"start", "pick"}
      BY <1>0, <3>1, AfterSound
    <3>. QED  BY <1>0, <2>0, <3>2, CronMoves
  <2>. QED  BY <2>2, <2>3, <2>4
<1>6. CASE Retries
  <2>1. cron' \in Where /\ cron'.pc = "start" /\ UNCHANGED <<clock, stop, started, missed, crowded, fell>>
    BY <1>0, <1>6, AtTyped, WaitsBounded DEF Retries
  <2>. QED  BY <1>0, <2>1, CronMoves
<1>7. CASE StopSignal
  <2>1. stop' = TRUE /\ UNCHANGED <<clock, cron, started, missed, crowded, fell>>
    BY <1>7 DEF StopSignal
  <2>2. LoopSurvives' /\ NothingBefore' /\ CronTyped'
    BY <2>1 DEF LoopSurvives, CronInv, NothingBefore, CronTyped, Matches
  <2>. QED  BY <2>1, <2>2 DEF CronInv
<1>8. CASE UNCHANGED cronVars
  <2>1. NeverMatches' = NeverMatches
    BY <1>8 DEF cronVars, NeverMatches, Ahead
  <2>. QED  BY <1>8, <2>1 DEF cronVars, CronInv, CronTyped, NothingBefore, LoopSurvives
<1>. QED  BY <1>1, <1>2, <1>3, <1>4, <1>5, <1>6, <1>7, <1>8, CronTickKeeps DEF CronNext, CronLoop

\* The scheduler, for any table of jobs, calendar, run times and retries: a job misses a
\* due minute only because another one ran in it, and without a signal only a job that
\* nothing wraps, or whose cleanup raises, ends the loop (scheduler.py serve,
\* maintenance.py run_cron_job).
THEOREM ScheduleSafety == CronSpec => [](ScheduleSafe /\ CronTypeOK)
<1>1. CronInv => ScheduleSafe /\ CronTypeOK
  <2>. SUFFICES ASSUME CronInv PROVE ScheduleSafe /\ CronTypeOK
    OBVIOUS
  <2>1. CronTypeOK
    BY DEF CronInv, CronTyped, CronTypeOK, LongestWait
  <2>. QED  BY <2>1 DEF CronInv, ScheduleSafe, SlotMissExplained
<1>. QED  BY <1>1, CronInitSound, CronStepSound, PTL DEF CronSpec

-----------------------------------------------------------------------------
(* Drift.  The k-th smallest of a set of scores exists because one score has  *)
(* all others at or below it: one with the most at or below it.               *)

Below(f, v) == {i \in DOMAIN f : f[i] <= v}

LEMMA BelowFinite ==
  ASSUME NEW D, IsFiniteSet(D), NEW f \in [D -> Nat], NEW v \in Nat
  PROVE  /\ IsFiniteSet(Below(f, v)) /\ Cardinality(Below(f, v)) \in Nat /\ Below(f, v) \subseteq D
         /\ Cardinality(Below(f, v)) <= Cardinality(D) /\ Cardinality(D) \in Nat
<1>1. Below(f, v) \in SUBSET D
  BY DEF Below
<1>. QED  BY <1>1, FS_Subset, FS_CardinalityType

LEMMA LargestScore ==
  ASSUME NEW D, IsFiniteSet(D), D # {}, NEW f \in [D -> Nat]
  PROVE  \E m \in D : \A i \in D : f[i] <= f[m]
<1>. DEFINE c(i) == Cardinality(D) - Cardinality(Below(f, f[i]))
            C == {c(i) : i \in D}
<1>1. \A i \in D : c(i) \in Nat
  BY BelowFinite
<1>2. C \in SUBSET Nat /\ C # {}
  BY <1>1
<1>3. PICK least \in C : \A e \in C : least <= e
  <2>. HIDE DEF C
  <2>. QED  BY <1>2, LeastNumber
<1>4. PICK m \in D : \A i \in D : c(m) <= c(i)
  BY <1>3
<1>5. ASSUME NEW i \in D, ~(f[i] <= f[m]) PROVE FALSE
  <2>. DEFINE S == Below(f, f[m])
              T == Below(f, f[i])
  <2>1. f[i] \in Nat /\ f[m] \in Nat /\ f[m] < f[i]
    BY <1>5
  <2>2. S \cup {i} \in SUBSET T /\ i \notin S
    BY <1>5, <2>1 DEF Below
  <2>3. IsFiniteSet(S) /\ IsFiniteSet(T) /\ Cardinality(S) \in Nat /\ Cardinality(T) \in Nat /\ Cardinality(D) \in Nat
    BY <2>1, BelowFinite
  <2>. HIDE DEF S, T
  <2>4. Cardinality(S \cup {i}) = Cardinality(S) + 1
    BY <2>2, <2>3, FS_AddElement
  <2>5. Cardinality(S \cup {i}) <= Cardinality(T)
    BY <2>2, <2>3, FS_Subset
  <2>6. c(m) <= c(i)
    BY <1>4
  <2>. QED  BY <2>3, <2>4, <2>5, <2>6 DEF S, T
<1>. QED  BY <1>5

\* What Ranked means: at least k scores are at or below it, and it is the least such score.
LEMMA RankedSound ==
  ASSUME NEW D, IsFiniteSet(D), NEW f \in [D -> Nat], NEW k \in 1 .. Cardinality(D)
  PROVE  /\ \E i \in D : Ranked(f, k) = f[i]
         /\ Ranked(f, k) \in Nat /\ Cardinality(Below(f, Ranked(f, k))) >= k
         /\ \A i \in D : Cardinality(Below(f, f[i])) >= k => Ranked(f, k) <= f[i]
<1>. DEFINE V == {v \in Range(f) : Cardinality({i \in DOMAIN f : f[i] <= v}) >= k}
<1>0. Cardinality(D) \in Nat /\ D # {}
  BY FS_CardinalityType, FS_EmptySet
<1>1. V \in SUBSET Nat /\ \A v \in V : \E i \in D : v = f[i]
  BY DEF Range
<1>2. PICK m \in D : \A i \in D : f[i] <= f[m]
  BY <1>0, LargestScore
<1>3. {i \in DOMAIN f : f[i] <= f[m]} = D
  BY <1>2
<1>4. V # {}
  BY <1>0, <1>2, <1>3 DEF Range
<1>5. Ranked(f, k) = Min(V)
  BY DEF Ranked
<1>6. Min(V) \in V /\ \A v \in V : Min(V) <= v
  <2>. HIDE DEF V
  <2>. QED  BY <1>1, <1>4, MinIsLeast
<1>7. ASSUME NEW i \in D, Cardinality(Below(f, f[i])) >= k PROVE f[i] \in V
  BY <1>7 DEF Below, Range
<1>8. Cardinality(Below(f, Min(V))) >= k
  BY <1>6 DEF Below
<1>. HIDE DEF V
<1>. QED  BY <1>1, <1>5, <1>6, <1>7, <1>8

\* The percentile lies between 100 times the score of its rank, which is at least 99 %
\* of the way up, and 100 times some score.
LEMMA PercentileSound ==
  ASSUME NEW D, IsFiniteSet(D), D # {}, NEW f \in [D -> Nat]
  PROVE  LET low == (99 * (Cardinality(D) - 1)) \div 100
         IN  /\ Percentile99(f) \in Nat /\ low \in Nat /\ low + 1 \in 1 .. Cardinality(D)
             /\ 99 * (Cardinality(D) - 1) < 100 * low + 100
             /\ 100 * Ranked(f, low + 1) <= Percentile99(f)
             /\ \E i \in D : Percentile99(f) <= 100 * f[i]
<1>. DEFINE n == Cardinality(D)
            rank == 99 * (n - 1)
            low == rank \div 100
            rest == rank % 100
            a == Ranked(f, low + 1)
            b == Ranked(f, low + 2)
<1>1. n \in Nat /\ n > 0
  BY FS_CardinalityType, FS_EmptySet
<1>2. rank \in Nat
  BY <1>1
<1>3. low \in Nat /\ rest \in Nat /\ rest < 100 /\ rank = 100 * low + rest
  BY <1>2, DivMod
<1>4. DOMAIN f = D /\ Percentile99(f) = a * (100 - rest) + (IF rest = 0 THEN 0 ELSE b * rest)
  BY DEF Percentile99
<1>. HIDE DEF low, rest
<1>5. low + 1 \in 1 .. n /\ rank < 100 * low + 100
  BY <1>1, <1>2, <1>3
<1>6. rest # 0 => low + 2 \in 1 .. n
  BY <1>1, <1>2, <1>3
<1>7. a \in Nat /\ \E i \in D : a = f[i]
  BY <1>5, RankedSound
<1>8. CASE rest = 0
  <2>1. Percentile99(f) = a * 100
    BY <1>4, <1>7, <1>8
  <2>. QED  BY <1>3, <1>5, <1>7, <2>1 DEF low
<1>9. CASE rest # 0
  <2>1. PICK i \in D : b = f[i]
    BY <1>6, <1>9, RankedSound
  <2>2. b \in Nat /\ a <= b
    <3>1. b \in Nat /\ Cardinality(Below(f, b)) >= low + 2 /\ Cardinality(Below(f, b)) \in Nat
      BY <1>6, <1>9, RankedSound, BelowFinite
    <3>2. Cardinality(Below(f, f[i])) >= low + 1
      BY <1>3, <2>1, <3>1
    <3>. QED  BY <1>5, <2>1, <3>1, <3>2, RankedSound
  <2>. HIDE DEF a, b
  <2>3. Percentile99(f) = a * (100 - rest) + b * rest
    BY <1>4, <1>9
  <2>4. b - a \in Nat /\ 100 - rest \in Nat
    BY <1>3, <1>7, <2>2
  <2>5. (b - a) * rest \in Nat /\ (b - a) * (100 - rest) \in Nat
    BY <1>3, <2>4
  <2>6. /\ a * (100 - rest) + b * rest = 100 * a + (b - a) * rest
        /\ 100 * b = (a * (100 - rest) + b * rest) + (b - a) * (100 - rest)
    BY <1>3, <1>7, <2>2
  <2>7. Percentile99(f) \in Nat /\ 100 * a <= Percentile99(f) /\ Percentile99(f) <= 100 * b
    BY <1>7, <2>2, <2>3, <2>5, <2>6
  <2>. QED  BY <1>3, <1>5, <2>1, <2>7 DEF low, a
<1>. QED  BY <1>8, <1>9

\* So few scores lie above it.
LEMMA FewAbove ==
  ASSUME NEW D, IsFiniteSet(D), D # {}, NEW f \in [D -> Nat]
  PROVE  100 * Cardinality({i \in D : 100 * f[i] > Percentile99(f)}) < Cardinality(D) + 99
<1>. DEFINE n == Cardinality(D)
            low == (99 * (n - 1)) \div 100
            a == Ranked(f, low + 1)
            p == Percentile99(f)
            up == {i \in D : 100 * f[i] > p}
            S == Below(f, a)
<1>1. /\ p \in Nat /\ low \in Nat /\ low + 1 \in 1 .. n /\ 99 * (n - 1) < 100 * low + 100 /\ 100 * a <= p
  BY PercentileSound
<1>. HIDE DEF low, p
<1>2. a \in Nat /\ Cardinality(S) >= low + 1
  BY <1>1, RankedSound
<1>. HIDE DEF a
<1>3. S \subseteq D /\ up \subseteq D /\ up \cap S = {}
  BY <1>1, <1>2 DEF Below
<1>4. IsFiniteSet(S) /\ IsFiniteSet(up) /\ S \cup up \in SUBSET D /\ S \cap up = {}
  BY <1>3, FS_Subset
<1>. HIDE DEF S, up
<1>5. Cardinality(S \cup up) = Cardinality(S) + Cardinality(up) - Cardinality({}) /\ Cardinality({}) = 0
  BY <1>4, FS_Union, FS_EmptySet
<1>6. Cardinality(S \cup up) <= n /\ Cardinality(S) \in Nat /\ Cardinality(up) \in Nat /\ n \in Nat
  BY <1>4, FS_Subset, FS_CardinalityType
<1>7. 100 * Cardinality(up) < n + 99
  <2>. DEFINE x == Cardinality(up)
              y == Cardinality(S)
  <2>. HIDE DEF x, y, n
  <2>1. x \in Nat /\ y \in Nat /\ n \in Nat /\ x + y <= n /\ y >= low + 1 /\ low \in Nat /\ 99 * (n - 1) < 100 * low + 100
    BY <1>1, <1>2, <1>5, <1>6 DEF x, y, n
  <2>2. 100 * x < n + 99
    BY <2>1
  <2>. QED  BY <2>2 DEF x
<1>. QED  BY <1>7 DEF up, p

DriftEntry == [in : BOOLEAN, value : Nat, calibrated : BOOLEAN]
DriftScore == [agent : DfAgents \cup {"none"}, kl : DfScores, day : Nat, drift : BOOLEAN]
DriftRun == [pc : {"idle", "loads", "scores"}, agent : DfAgents \cup {"none"}, seen : Nat, threshold : Nat, gen : Int]
DriftCal == [pc : {"idle", "queries"}, todo : SUBSET DfAgents, done : SUBSET DfAgents,
             merged : [DfAgents -> DriftEntry], read : Int]

DriftTypes ==
  /\ dfFile \in [mtime : Nat, map : [DfAgents -> DriftEntry]]
  /\ dfCache \in [mtime : Int, map : [DfAgents -> DriftEntry], gen : Int]
  /\ dfDetector \in DriftRun /\ (dfDetector.pc # "idle" => dfDetector.agent \in DfAgents)
  /\ dfHistory \in Seq(DriftScore) /\ dfCal \in [DfCals -> DriftCal]
  /\ dfClock \in [day : Nat, runs : Nat, starts : Nat]

\* What is cached, and what a run applies, is of a version of the file no older than
\* the modification time it goes by.
DriftVersions ==
  /\ dfCache.gen >= dfCache.mtime
  /\ dfDetector.pc # "idle" => dfDetector.seen <= dfFile.mtime
  /\ ThresholdFresh

\* A calibration that read the file as it still is holds its entries, but for those it
\* calibrated.
DriftHolds(c) ==
  /\ c.read <= dfFile.mtime
  /\ c.pc = "queries" /\ c.read = dfFile.mtime =>
       \A a \in DfAgents \ c.done : dfFile.map[a].in => c.merged[a] = dfFile.map[a]

DriftInv == DriftTypes /\ DriftVersions /\ (\A k \in DfCals : DriftHolds(dfCal[k])) /\ ThresholdsKept

LEMMA DriftInit_Inv == DriftInit => DriftInv
<1>. SUFFICES ASSUME DriftInit PROVE DriftInv
  OBVIOUS
<1>1. NoEntry \in DriftEntry /\ NoEntries \in [DfAgents -> DriftEntry]
  BY DEF NoEntry, NoEntries, DriftEntry, DefaultThreshold
<1>2. NoRun \in DriftRun /\ NoCal \in DriftCal
  BY <1>1 DEF NoRun, NoCal, DriftRun, DriftCal, DefaultThreshold
<1>3. DriftTypes
  BY <1>1, <1>2, DriftAssumption DEF DriftInit, DriftTypes, NoRun
<1>4. \A k \in DfCals : DriftHolds(dfCal[k])
  BY DEF DriftInit, DriftHolds, NoCal
<1>. QED  BY <1>3, <1>4 DEF DriftInit, DriftInv, DriftVersions, ThresholdFresh, ThresholdsKept, NoRun

\* The percentile an agent is given is a number.
LEMMA CalibratedValue ==
  ASSUME DriftTypes, NEW a \in DfAgents, Enough(a)
  PROVE  Percentile99(KlOf(Samples(a))) \in Nat
<1>1. dfHistory \in Seq(DriftScore) /\ Len(dfHistory) \in Nat /\ DOMAIN dfHistory = 1 .. Len(dfHistory)
  BY DEF DriftTypes
<1>2. IsFiniteSet(DOMAIN dfHistory)
  BY <1>1, FS_Interval
<1>3. Samples(a) \subseteq DOMAIN dfHistory
  BY DEF Samples
<1>4. IsFiniteSet(Samples(a))
  BY <1>2, <1>3, FS_Subset
<1>5. Samples(a) # {}
  <2>1. DfMinSamples \in Nat /\ DfMinSamples > 0
    BY DriftAssumption
  <2>. QED  BY <2>1, FS_EmptySet DEF Enough
<1>6. KlOf(Samples(a)) \in [Samples(a) -> Nat]
  <2>1. ASSUME NEW i \in Samples(a) PROVE dfHistory[i].kl \in Nat
    <3>1. dfHistory[i] \in DriftScore
      BY <1>1, <1>3
    <3>. QED  BY <3>1, DriftAssumption DEF DriftScore
  <2>. QED  BY <2>1 DEF KlOf
<1>. HIDE DEF Samples, KlOf
<1>. QED  BY <1>4, <1>5, <1>6, PercentileSound

LEMMA DriftPercentile == DriftTypes => PercentileRight
<1>. SUFFICES ASSUME DriftTypes, dfHistory # <<>>
     PROVE  /\ 100 * Cardinality({i \in DOMAIN KlOf(DOMAIN dfHistory) :
                                    100 * KlOf(DOMAIN dfHistory)[i] > Percentile99(KlOf(DOMAIN dfHistory))})
                 < Len(dfHistory) + 99
            /\ \E i \in DOMAIN KlOf(DOMAIN dfHistory) :
                 Percentile99(KlOf(DOMAIN dfHistory)) <= 100 * KlOf(DOMAIN dfHistory)[i]
  BY DEF PercentileRight
<1>. DEFINE D == DOMAIN dfHistory
            f == KlOf(D)
<1>1. dfHistory \in Seq(DriftScore) /\ Len(dfHistory) \in Nat /\ D = 1 .. Len(dfHistory)
  BY DEF DriftTypes
<1>2. IsFiniteSet(D) /\ Cardinality(D) = Len(dfHistory)
  <2>1. Cardinality(1 .. Len(dfHistory)) = Len(dfHistory) /\ IsFiniteSet(1 .. Len(dfHistory))
    BY <1>1, FS_Interval
  <2>. QED  BY <1>1, <2>1
<1>3. D # {}
  BY <1>1
<1>4. f \in [D -> Nat] /\ DOMAIN f = D
  <2>1. ASSUME NEW i \in D PROVE dfHistory[i].kl \in Nat
    <3>1. dfHistory[i] \in DriftScore
      BY <1>1
    <3>. QED  BY <3>1, DriftAssumption DEF DriftScore
  <2>. QED  BY <2>1 DEF KlOf
<1>. HIDE DEF D, f
<1>5. 100 * Cardinality({i \in D : 100 * f[i] > Percentile99(f)}) < Cardinality(D) + 99
  BY <1>2, <1>3, <1>4, FewAbove
<1>6. \E i \in D : Percentile99(f) <= 100 * f[i]
  BY <1>2, <1>3, <1>4, PercentileSound
<1>. QED  BY <1>2, <1>4, <1>5, <1>6 DEF D, f

LEMMA DriftNext_Inv == DriftInv /\ [DriftNext]_driftVars => DriftInv'
<1>. SUFFICES ASSUME DriftInv, [DriftNext]_driftVars PROVE DriftInv'
  OBVIOUS
<1>. USE DEF DriftInv
<1>0. NoEntries \in [DfAgents -> DriftEntry] /\ NoRun \in DriftRun /\ NoCal \in DriftCal /\ NoCal.pc = "idle"
      /\ NoCal.read = 0 /\ NoRun.pc = "idle"
  <2>1. NoEntries \in [DfAgents -> DriftEntry]
    BY DEF NoEntry, NoEntries, DriftEntry, DefaultThreshold
  <2>. QED  BY <2>1 DEF NoRun, NoCal, DriftRun, DriftCal, DefaultThreshold
<1>a. /\ dfFile.mtime \in Nat /\ dfFile.map \in [DfAgents -> DriftEntry]
      /\ dfCache.mtime \in Int /\ dfCache.gen \in Int /\ dfCache.map \in [DfAgents -> DriftEntry]
      /\ dfDetector.seen \in Nat /\ dfDetector.gen \in Int
      /\ \A k \in DfCals : dfCal[k] \in DriftCal /\ dfCal[k].read \in Int /\ dfCal[k].merged \in [DfAgents -> DriftEntry]
  BY DEF DriftTypes, DriftRun, DriftCal
<1>b. \A a \in DfAgents : dfFile.map[a].value \in Nat /\ dfCache.map[a].value \in Nat
  BY <1>a DEF DriftEntry
<1>c. \A readable \in BOOLEAN : Loads(readable) \in [DfAgents -> DriftEntry]
  BY <1>0, <1>a DEF Loads
<1>d. dfHistory \in Seq(DriftScore) /\ DOMAIN dfHistory = 1 .. Len(dfHistory) /\ dfClock.day \in Nat
      /\ dfClock.runs \in Nat /\ dfClock.starts \in Nat
  BY DEF DriftTypes
<1>1. ASSUME NEW a \in DfAgents, DetectorStats(a) PROVE DriftInv'
  <2>1. UNCHANGED <<dfFile, dfCache, dfHistory, dfCal, dfSave>>
    BY <1>1 DEF DetectorStats
  <2>2. dfDetector'.pc \in {"loads", "scores"} /\ dfDetector'.seen = dfFile.mtime
        /\ dfDetector'.agent = a /\ dfDetector'.gen = dfCache.gen /\ dfDetector' \in DriftRun
    BY <1>1, <1>a, <1>b DEF DetectorStats, DriftRun, DefaultThreshold
  <2>3. dfDetector'.pc = "scores" => dfFile.mtime = dfCache.mtime
    BY <1>1 DEF DetectorStats, Stale
  <2>4. dfClock' \in [day : Nat, runs : Nat, starts : Nat]
    BY <1>1, <1>d DEF DetectorStats, DriftTypes
  <2>5. DriftTypes'
    BY <2>1, <2>2, <2>4 DEF DriftTypes
  <2>6. DriftVersions'
    BY <1>a, <2>1, <2>2, <2>3 DEF DriftVersions, ThresholdFresh
  <2>. QED  BY <2>1, <2>5, <2>6 DEF DriftHolds, ThresholdsKept
<1>2. ASSUME NEW readable \in BOOLEAN, DetectorLoads(readable) PROVE DriftInv'
  <2>1. UNCHANGED <<dfFile, dfHistory, dfCal, dfSave, dfClock>>
    BY <1>2 DEF DetectorLoads
  <2>2. dfDetector.agent \in DfAgents /\ dfDetector.pc = "loads"
    BY <1>2 DEF DetectorLoads, DriftTypes
  <2>3. Loads(readable)[dfDetector.agent].value \in Nat
    BY <1>c, <2>2 DEF DriftEntry
  <2>4. dfDetector' \in DriftRun /\ dfDetector'.agent = dfDetector.agent /\ dfDetector'.gen = dfFile.mtime
        /\ dfDetector'.seen = dfDetector.seen /\ dfDetector'.pc = "scores"
    <3>. DEFINE v == Loads(readable)[dfDetector.agent].value
    <3>1. dfDetector' = [dfDetector EXCEPT !.pc = "scores", !.threshold = v, !.gen = dfFile.mtime]
      BY <1>2 DEF DetectorLoads
    <3>2. dfDetector \in DriftRun /\ dfFile.mtime \in Int
      BY <1>a DEF DriftTypes
    <3>3. v \in Nat
      BY <2>3
    <3>. HIDE DEF v
    <3>. QED  BY ONLY <3>1, <3>2, <3>3 DEF DriftRun
  <2>5. dfCache' \in [mtime : Int, map : [DfAgents -> DriftEntry], gen : Int]
        /\ dfCache'.gen = dfFile.mtime /\ dfCache'.mtime = dfDetector.seen
    BY <1>2, <1>a, <1>c DEF DetectorLoads
  <2>6. DriftTypes'
    BY <2>1, <2>2, <2>4, <2>5 DEF DriftTypes
  <2>7. DriftVersions'
    BY <1>a, <2>1, <2>2, <2>4, <2>5 DEF DriftVersions, ThresholdFresh
  <2>. QED  BY <2>1, <2>6, <2>7 DEF DriftHolds, ThresholdsKept
<1>3. ASSUME DetectorSkips PROVE DriftInv'
  BY <1>0, <1>3 DEF DetectorSkips, DriftTypes, DriftVersions, ThresholdFresh, ThresholdsKept, DriftHolds
<1>4. ASSUME NEW kl \in DfScores, DetectorScores(kl) PROVE DriftInv'
  <2>. DEFINE entry == [agent |-> dfDetector.agent, kl |-> kl, day |-> dfClock.day,
                        drift |-> 100 * kl > dfDetector.threshold]
  <2>1. entry \in DriftScore
    BY <1>d DEF DriftScore, DriftTypes, DriftRun
  <2>2. dfHistory' = Append(dfHistory, entry) /\ dfDetector' = NoRun
        /\ UNCHANGED <<dfFile, dfCache, dfCal, dfSave, dfClock>>
    BY <1>4 DEF DetectorScores
  <2>. HIDE DEF entry
  <2>3. dfHistory' \in Seq(DriftScore)
    BY <1>d, <2>1, <2>2
  <2>. QED  BY <1>0, <2>2, <2>3 DEF DriftTypes, DriftVersions, ThresholdFresh, ThresholdsKept, DriftHolds
<1>5. ASSUME DriftDay PROVE DriftInv'
  BY <1>5, <1>d DEF DriftDay, DriftTypes, DriftVersions, ThresholdFresh, ThresholdsKept, DriftHolds
<1>6. ASSUME NEW k \in DfCals, NEW agents \in SUBSET DfAgents, NEW readable \in BOOLEAN,
             CalBegins(k, agents, readable)
      PROVE  DriftInv'
  <2>. DEFINE c == [pc |-> "queries", todo |-> agents, done |-> {}, merged |-> MergedStarts(Loads(readable)),
                    read |-> IF readable THEN dfFile.mtime ELSE -1]
  <2>1. c \in DriftCal
    BY <1>a, <1>c DEF DriftCal, MergedStarts
  <2>2. dfCal' = [dfCal EXCEPT ![k] = c] /\ UNCHANGED <<dfFile, dfCache, dfDetector, dfHistory, dfSave>>
    BY <1>6 DEF CalBegins
  <2>3. DriftHolds(c)
    BY <1>a DEF DriftHolds, MergedStarts, Loads
  <2>. HIDE DEF c
  <2>4. dfClock' \in [day : Nat, runs : Nat, starts : Nat]
    BY <1>6, <1>d DEF CalBegins, DriftTypes
  <2>5. dfCal' \in [DfCals -> DriftCal] /\ \A j \in DfCals : dfCal'[j] = IF j = k THEN c ELSE dfCal[j]
    BY <2>1, <2>2 DEF DriftTypes
  <2>6. \A j \in DfCals : DriftHolds(dfCal[j])'
    BY <2>2, <2>3, <2>5 DEF DriftHolds
  <2>. QED  BY <2>2, <2>4, <2>5, <2>6 DEF DriftTypes, DriftVersions, ThresholdFresh, ThresholdsKept
<1>7. ASSUME NEW k \in DfCals, NEW a \in DfAgents, CalAgent(k, a) \/ CalAgentSkips(k, a) PROVE DriftInv'
  <2>1. UNCHANGED <<dfFile, dfCache, dfDetector, dfHistory, dfSave, dfClock>>
    BY <1>7 DEF CalAgent, CalAgentSkips
  <2>2. PICK c \in DriftCal : dfCal' = [dfCal EXCEPT ![k] = c] /\ DriftHolds(c)
    <3>. DEFINE old == dfCal[k]
    <3>0. old \in DriftCal /\ DriftHolds(old) /\ old.merged[a] \in DriftEntry /\ old.pc = "queries"
      BY <1>7, <1>a DEF CalAgent, CalAgentSkips
    <3>1. CASE CalAgent(k, a)
      <4>. DEFINE entry == [in |-> TRUE, value |-> Percentile99(KlOf(Samples(a))), calibrated |-> TRUE]
                  c == [old EXCEPT !.todo = @ \ {a}, !.done = @ \cup {a}, !.merged[a] = entry]
      <4>1. entry \in DriftEntry
        BY <3>1, CalibratedValue DEF CalAgent, DriftEntry
      <4>2. dfCal' = [dfCal EXCEPT ![k] = c]
        <5>1. dfCal' = [dfCal EXCEPT ![k] = Calibrated(dfCal[k], a, Percentile99(KlOf(Samples(a))))]
          BY <3>1 DEF CalAgent
        <5>. QED  BY ONLY <5>1 DEF Calibrated
      <4>. HIDE DEF entry
      <4>3. c \in DriftCal /\ c.read = old.read /\ c.done = old.done \cup {a} /\ c.pc = old.pc
            /\ c.merged = [old.merged EXCEPT ![a] = entry]
        BY <3>0, <4>1 DEF DriftCal
      <4>4. \A b \in DfAgents \ c.done : b \in DfAgents \ old.done /\ c.merged[b] = old.merged[b]
        BY <3>0, <4>3 DEF DriftCal
      <4>. HIDE DEF c, old
      <4>5. DriftHolds(c)
        BY <3>0, <4>3, <4>4 DEF DriftHolds
      <4>. QED  BY <4>2, <4>3, <4>5
    <3>2. CASE CalAgentSkips(k, a)
      <4>. DEFINE entry == KeptEntry(old.merged[a])
                  c == [old EXCEPT !.todo = @ \ {a}, !.merged[a] = entry]
      <4>1. entry \in DriftEntry /\ (old.merged[a].in => entry = old.merged[a])
        BY <3>0 DEF KeptEntry, DriftEntry
      <4>2. dfCal' = [dfCal EXCEPT ![k] = c]
        <5>1. dfCal' = [dfCal EXCEPT ![k] = NotCalibrated(dfCal[k], a)]
          BY <3>2 DEF CalAgentSkips
        <5>. QED  BY ONLY <5>1 DEF NotCalibrated
      <4>. HIDE DEF entry
      <4>3. c \in DriftCal /\ c.read = old.read /\ c.done = old.done /\ c.pc = old.pc
            /\ c.merged = [old.merged EXCEPT ![a] = entry]
        BY <3>0, <4>1 DEF DriftCal
      <4>4. \A b \in DfAgents : c.merged[b] = old.merged[b] \/ (b = a /\ c.merged[b] = entry)
        BY <3>0, <4>3 DEF DriftCal
      <4>. HIDE DEF c, old
      <4>5. DriftHolds(c)
        BY <3>0, <4>1, <4>3, <4>4 DEF DriftHolds
      <4>. QED  BY <4>2, <4>3, <4>5
    <3>. QED  BY <1>7, <3>1, <3>2
  <2>3. dfCal' \in [DfCals -> DriftCal] /\ \A j \in DfCals : dfCal'[j] = IF j = k THEN c ELSE dfCal[j]
    BY <2>2 DEF DriftTypes
  <2>4. \A j \in DfCals : DriftHolds(dfCal[j])'
    BY <2>1, <2>2, <2>3 DEF DriftHolds
  <2>. QED  BY <2>1, <2>3, <2>4 DEF DriftTypes, DriftVersions, ThresholdFresh, ThresholdsKept
<1>8. ASSUME NEW k \in DfCals, CalSaves(k) PROVE DriftInv'
  <2>1. UNCHANGED <<dfCache, dfDetector, dfHistory, dfClock>> /\ dfFile' = [mtime |-> dfFile.mtime + 1, map |-> dfCal[k].merged]
        /\ dfCal' = [dfCal EXCEPT ![k] = NoCal]
    BY <1>8 DEF CalSaves
  <2>2. dfFile' \in [mtime : Nat, map : [DfAgents -> DriftEntry]] /\ dfFile'.mtime = dfFile.mtime + 1
    BY <1>a, <2>1
  <2>3. dfCal' \in [DfCals -> DriftCal] /\ \A j \in DfCals : dfCal'[j] = IF j = k THEN NoCal ELSE dfCal[j]
    BY <1>0, <2>1 DEF DriftTypes
  <2>4. DriftTypes'
    BY <2>1, <2>2, <2>3 DEF DriftTypes
  <2>5. DriftVersions'
    BY <1>a, <2>1, <2>2 DEF DriftVersions, ThresholdFresh
  <2>6. ASSUME NEW j \in DfCals PROVE DriftHolds(dfCal[j])'
    <3>1. dfCal'[j].read \in Int /\ dfCal'[j].read < dfFile'.mtime
      BY <1>0, <1>a, <2>2, <2>3 DEF DriftHolds
    <3>. QED  BY <1>a, <2>2, <3>1 DEF DriftHolds
  <2>7. ThresholdsKept'
    <3>1. dfSave'.changed = {a \in DfAgents \ dfCal[k].done : dfFile.map[a].in /\ dfCal[k].merged[a] # dfFile.map[a]}
          /\ (dfSave'.raced <=> dfCal[k].read # dfFile.mtime) /\ dfCal[k].pc = "queries"
      BY <1>8 DEF CalSaves
    <3>2. dfCal[k].read = dfFile.mtime => dfSave'.changed = {}
      BY <3>1 DEF DriftHolds
    <3>. QED  BY <3>1, <3>2 DEF ThresholdsKept
  <2>. QED  BY <2>4, <2>5, <2>6, <2>7
<1>9. ASSUME NEW k \in DfCals, CalEnds(k) PROVE DriftInv'
  <2>1. dfCal' = [dfCal EXCEPT ![k] = NoCal] /\ UNCHANGED <<dfFile, dfCache, dfDetector, dfHistory, dfSave, dfClock>>
    BY <1>9 DEF CalEnds
  <2>2. dfCal' \in [DfCals -> DriftCal] /\ \A j \in DfCals : dfCal'[j] = IF j = k THEN NoCal ELSE dfCal[j]
    BY <1>0, <2>1 DEF DriftTypes
  <2>3. \A j \in DfCals : DriftHolds(dfCal[j])'
    BY <1>0, <1>a, <2>1, <2>2 DEF DriftHolds
  <2>. QED  BY <2>1, <2>2, <2>3 DEF DriftTypes, DriftVersions, ThresholdFresh, ThresholdsKept
<1>10. CASE UNCHANGED driftVars
  BY <1>10 DEF driftVars, DriftTypes, DriftVersions, ThresholdFresh, ThresholdsKept, DriftHolds
<1>. QED  BY <1>1, <1>2, <1>3, <1>4, <1>5, <1>6, <1>7, <1>8, <1>9, <1>10 DEF DriftNext

\* Whatever the agents, the scores and the bounds: a run applies a threshold no older
\* than the file it looked at, a calibration that nothing came between loses nobody's
\* threshold, and the percentile of any history has fewer than (n + 99) / 100 scores
\* above it and one at or above it (ThresholdStore, calibrate_all, compute_p99).
THEOREM DriftSafety == DriftSpec => [](DriftSafe /\ DriftTypeOK)
<1>1. DriftInv => DriftSafe /\ DriftTypeOK
  <2>. SUFFICES ASSUME DriftInv PROVE DriftSafe /\ DriftTypeOK
    OBVIOUS
  <2>1. DriftSafe
    BY DriftPercentile DEF DriftSafe, DriftInv, DriftVersions
  <2>2. DriftTypeOK
    BY DEF DriftTypeOK, DriftInv, DriftTypes, DriftRun, DriftCal, DriftEntry
  <2>. QED  BY <2>1, <2>2
<1>. QED  BY DriftInit_Inv, DriftNext_Inv, <1>1, PTL DEF DriftSpec

-----------------------------------------------------------------------------
(* The compliance catalog.  That events are counted once is not inductive:   *)
(* what the jobs copy from the hot table must not exceed what was recorded,  *)
(* and a count is only cut off at its bound where nothing more can come.     *)
(* What the invariant says of one key is about seven numbers.                *)

\* The tier, and the counts in Postgres, in ClickHouse, cleaned, buffered, being
\* written, recorded and in doubt.
Balance(t, p, h, c, b, a, r, d) ==
  /\ p \in Nat /\ h \in Nat /\ c \in Nat /\ b \in Nat /\ a \in Nat /\ r \in Nat /\ d \in Nat
  /\ r <= MaxRecorded /\ d <= MaxDoubtful /\ c <= MaxRecorded + MaxDoubtful
  /\ b + a <= r
  /\ t = "warm_only" => h = 0
  /\ t = "dual" => h + b + a <= r
  /\ t = "warm_only" \/ (t = "dual" /\ c = 0) => p + c + b + a <= r + d /\ r <= p + c + b + a + d

InAir(k) == SumOver(InFlight(k), Flushers)
Balanced(k) == Balance(tier, pg[k].freq, hot[k].freq, cleaned[k], buffer[k], InAir(k), catRecorded[k], doubtful[k])

CatRows == [CatalogKeys -> [freq : Nat, seen : Int]]
CatCounts == [CatalogKeys -> Nat]
CatJobs == [pc : {"none", "sync", "clean", "purge"}, rows : SUBSET [key : CatalogKeys, seen : Int]]

CatShape ==
  /\ buffer \in CatCounts /\ catRecorded \in CatCounts /\ cleaned \in CatCounts /\ doubtful \in CatCounts
  /\ flight \in [Flushers -> CatCounts]
  /\ pg \in CatRows /\ hot \in CatRows
  /\ job \in CatJobs /\ tier \in Tiers /\ asyncHot \in BOOLEAN /\ today \in 0 .. MaxDay
  /\ \A k \in CatalogKeys : pg[k].seen <= today /\ hot[k].seen <= today
  /\ tier = "warm_only" => \A k \in CatalogKeys : hot[k] = NoRow

CatInv == CatShape /\ \A k \in CatalogKeys : Balanced(k)

LEMMA CatZero == Zero \in CatCounts /\ \A k \in CatalogKeys : Zero[k] = 0
BY DEF Zero, CatCounts

LEMMA CatCounted == \A k \in CatalogKeys : Counted(k) = pg[k].freq + cleaned[k] + buffer[k] + InAir(k)
BY DEF Counted, InAir, SumOver

\* One flusher's rows change: what is being written changes by as much.
LEMMA CatFlight ==
  ASSUME flight \in [Flushers -> CatCounts], NEW f \in Flushers, NEW rows \in CatCounts,
         flight' = [flight EXCEPT ![f] = rows], NEW k \in CatalogKeys
  PROVE  /\ InAir(k) \in Nat /\ InAir(k)' \in Nat
         /\ InAir(k)' + flight[f][k] = InAir(k) + rows[k]
         /\ flight[f][k] \in Nat /\ rows[k] \in Nat
<1>. DEFINE old == InFlight(k)
            new == InFlight(k)'
<1>1. /\ old = [g \in Flushers |-> flight[g][k]]
      /\ new = [g \in Flushers |-> IF g = f THEN rows[k] ELSE flight[g][k]]
  BY DEF InFlight
<1>2. \A g \in Flushers : flight[g][k] \in Nat
  BY DEF CatCounts
<1>3. rows[k] \in Nat
  BY DEF CatCounts
<1>. HIDE DEF old, new
<1>4. /\ \A g \in Flushers : old[g] \in Nat /\ new[g] \in Nat
      /\ \A g \in Flushers \ {f} : new[g] = old[g]
      /\ old[f] = flight[f][k] /\ new[f] = rows[k]
  BY <1>1, <1>2, <1>3
<1>5. SumOver(new, Flushers) + old[f] = SumOver(old, Flushers) + new[f]
  BY <1>4, CatalogAssumption, SumUpdate
<1>6. SumOver(new, Flushers) \in Nat /\ SumOver(old, Flushers) \in Nat
  BY <1>4, CatalogAssumption, SumStep
<1>7. InAir(k) = SumOver(old, Flushers) /\ InAir(k)' = SumOver(new, Flushers)
  BY DEF InAir, old, new
<1>. QED  BY <1>2, <1>3, <1>4, <1>5, <1>6, <1>7

LEMMA CatalogInitially == CatalogInit => CatInv
<1>. SUFFICES ASSUME CatalogInit
              PROVE  CatInv
  OBVIOUS
<1>1. NoRow \in [freq : Nat, seen : Int] /\ NoRow.freq = 0 /\ NoRow.seen = -1 /\ NoJob \in CatJobs
  BY DEF NoRow, NoJob, CatJobs
<1>2. CatShape
  BY <1>1, CatZero, CatalogAssumption DEF CatalogInit, CatShape, CatRows
<1>3. ASSUME NEW k \in CatalogKeys PROVE Balanced(k)
  <2>1. \A f \in Flushers : InFlight(k)[f] = 0
    BY CatZero DEF CatalogInit, InFlight
  <2>2. InAir(k) = 0
    <3>1. SumOver(InFlight(k), Flushers) = SumOver(InFlight(k), {})
      BY <2>1, CatalogAssumption, SumSupport
    <3>2. SumOver(InFlight(k), {}) = 0
      BY SumStep, FS_EmptySet
    <3>. QED  BY <3>1, <3>2 DEF InAir
  <2>3. pg[k].freq = 0 /\ hot[k].freq = 0 /\ cleaned[k] = 0 /\ buffer[k] = 0 /\ catRecorded[k] = 0 /\ doubtful[k] = 0
    BY <1>1, CatZero DEF CatalogInit
  <2>. QED  BY <2>2, <2>3, CatalogAssumption DEF Balanced, Balance
<1>. QED  BY <1>2, <1>3 DEF CatInv

\* The numbers of a key, as CatInv has them.
LEMMA CatKey ==
  ASSUME CatInv, NEW k \in CatalogKeys
  PROVE  /\ Balanced(k)
         /\ pg[k] \in [freq : Nat, seen : Int] /\ hot[k] \in [freq : Nat, seen : Int]
         /\ pg[k].seen <= today /\ hot[k].seen <= today /\ today \in Nat
         /\ \A f \in Flushers : flight[f][k] \in Nat
         /\ tier \in Tiers /\ (tier = "warm_only" => hot[k] = NoRow)
<1>1. \A f \in Flushers : flight[f][k] \in Nat
  BY DEF CatInv, CatShape, CatCounts
<1>. QED  BY <1>1, CatalogAssumption DEF CatInv, CatShape, CatRows

LEMMA CatRecordStep ==
  ASSUME CatInv, NEW x \in CatalogKeys, CatalogRecord(x)
  PROVE  CatInv'
<1>1. /\ catRecorded[x] < MaxRecorded
      /\ buffer' = [buffer EXCEPT ![x] = @ + 1] /\ catRecorded' = [catRecorded EXCEPT ![x] = @ + 1]
      /\ UNCHANGED <<flight, pg, hot, tier, asyncHot, job, today, cleaned, doubtful>>
  BY DEF CatalogRecord
<1>2. CatShape'
  BY <1>1 DEF CatInv, CatShape, CatCounts
<1>3. ASSUME NEW k \in CatalogKeys PROVE Balanced(k)'
  <2>1. InAir(k)' = InAir(k)
    BY <1>1 DEF InAir, InFlight
  <2>2. /\ buffer'[k] = IF k = x THEN buffer[k] + 1 ELSE buffer[k]
        /\ catRecorded'[k] = IF k = x THEN catRecorded[k] + 1 ELSE catRecorded[k]
    BY <1>1 DEF CatInv, CatShape, CatCounts
  <2>3. Balanced(k)
    BY CatKey
  <2>. QED  BY <1>1, <2>1, <2>2, <2>3, CatalogAssumption DEF Balanced, Balance
<1>. QED  BY <1>2, <1>3 DEF CatInv

LEMMA CatFlushBegins ==
  ASSUME CatInv, NEW f \in Flushers, FlushBegins(f)
  PROVE  CatInv'
<1>1. /\ flight[f] = Zero /\ flight' = [flight EXCEPT ![f] = buffer] /\ buffer' = Zero
      /\ UNCHANGED <<pg, hot, tier, asyncHot, job, today, catRecorded, cleaned, doubtful>>
  BY DEF FlushBegins
<1>2. CatShape'
  BY <1>1, CatZero DEF CatInv, CatShape
<1>3. ASSUME NEW k \in CatalogKeys PROVE Balanced(k)'
  <2>1. InAir(k)' + flight[f][k] = InAir(k) + buffer[k] /\ InAir(k) \in Nat /\ InAir(k)' \in Nat
    BY <1>1, CatFlight DEF CatInv, CatShape
  <2>2. flight[f][k] = 0 /\ buffer'[k] = 0
    BY <1>1, CatZero
  <2>3. Balanced(k)
    BY CatKey
  <2>. QED  BY <1>1, <2>1, <2>2, <2>3 DEF Balanced, Balance
<1>. QED  BY <1>2, <1>3 DEF CatInv

\* What the writer of a tier may do.
LEMMA CatOutcomes ==
  ASSUME tier \in Tiers, NEW o \in Outcomes
  PROVE  /\ o.pg \in BOOLEAN /\ o.hot \in BOOLEAN /\ o.raised \in BOOLEAN
         /\ tier = "warm_only" => ~o.hot
         /\ tier = "dual" => ~o.raised
<1>1. CASE tier = "warm_only"
  <2>1. Outcomes = {[pg |-> TRUE, hot |-> FALSE, raised |-> FALSE], [pg |-> TRUE, hot |-> FALSE, raised |-> TRUE],
                    [pg |-> FALSE, hot |-> FALSE, raised |-> TRUE]}
    BY <1>1 DEF Outcomes
  <2>2. o.hot = FALSE /\ (o.pg = TRUE \/ o.pg = FALSE) /\ (o.raised = TRUE \/ o.raised = FALSE)
    BY <2>1
  <2>. QED  BY <1>1, <2>2
<1>2. CASE tier = "hot_only"
  <2>1. Outcomes = {[pg |-> FALSE, hot |-> h, raised |-> ~(h /\ asyncHot)] : h \in BOOLEAN}
    BY <1>2 DEF Outcomes
  <2>2. PICK h \in BOOLEAN : o = [pg |-> FALSE, hot |-> h, raised |-> ~(h /\ asyncHot)]
    BY <2>1
  <2>3. o.pg = FALSE /\ o.hot = h /\ o.raised = ~(h /\ asyncHot)
    BY <2>2
  <2>. QED  BY <1>2, <2>3
<1>3. CASE tier = "dual"
  <2>1. Outcomes = [pg : BOOLEAN, hot : BOOLEAN, raised : {FALSE}]
    BY <1>3 DEF Outcomes
  <2>. QED  BY <1>3, <2>1
<1>4. CASE tier = "null"
  <2>1. Outcomes = {[pg |-> FALSE, hot |-> FALSE, raised |-> FALSE]}
    BY <1>4 DEF Outcomes
  <2>2. o.pg = FALSE /\ o.hot = FALSE /\ o.raised = FALSE
    BY <2>1
  <2>. QED  BY <1>4, <2>2
<1>. QED  BY <1>1, <1>2, <1>3, <1>4 DEF Tiers

\* The rows of a flusher land, are put back or are lost: what a flush that ends and
\* one that is cancelled have in common.  n is the number of events of a key.
LEMMA CatLands ==
  ASSUME CatInv, NEW f \in Flushers, NEW o \in Outcomes, NEW put \in BOOLEAN, NEW doubt \in BOOLEAN,
         Landed(flight[f], o), flight' = [flight EXCEPT ![f] = Zero],
         buffer' = IF put THEN Restored(f) ELSE buffer,
         doubtful' = IF doubt THEN Plus(doubtful, flight[f]) ELSE doubtful,
         \A k \in CatalogKeys : doubtful'[k] <= MaxDoubtful,
         put => o.raised, ~doubt => (o.pg <=> ~put),
         UNCHANGED <<tier, asyncHot, job, today, catRecorded, cleaned>>
  PROVE  CatInv'
<1>t. /\ flight[f] \in CatCounts /\ buffer \in CatCounts /\ doubtful \in CatCounts
      /\ today \in Int /\ tier \in Tiers
  BY CatalogAssumption DEF CatInv, CatShape
<1>o. /\ o.pg \in BOOLEAN /\ o.hot \in BOOLEAN /\ o.raised \in BOOLEAN
      /\ tier = "warm_only" => ~o.hot
      /\ tier = "dual" => ~o.raised
  BY <1>t, CatOutcomes
<1>1. buffer' \in CatCounts /\ doubtful' \in CatCounts
      /\ \A k \in CatalogKeys : /\ buffer'[k] = IF put THEN buffer[k] + flight[f][k] ELSE buffer[k]
                                /\ doubtful'[k] = IF doubt THEN doubtful[k] + flight[f][k] ELSE doubtful[k]
  BY <1>t DEF Restored, Plus, CatCounts
<1>2. /\ pg' \in CatRows
      /\ \A k \in CatalogKeys : /\ pg'[k].freq = IF o.pg THEN pg[k].freq + flight[f][k] ELSE pg[k].freq
                                /\ pg'[k].seen \in {pg[k].seen, today}
  <2>1. \A k \in CatalogKeys : pg[k] \in [freq : Nat, seen : Int] /\ flight[f][k] \in Nat
    BY CatKey
  <2>2. pg \in CatRows
    BY DEF CatInv, CatShape
  <2>3. PgUpsert(flight[f]) \in CatRows
    BY <1>t, <2>1 DEF PgUpsert, CatRows
  <2>4. ASSUME NEW k \in CatalogKeys
        PROVE  PgUpsert(flight[f])[k].freq = pg[k].freq + flight[f][k] /\ PgUpsert(flight[f])[k].seen \in {pg[k].seen, today}
    BY <2>1 DEF PgUpsert
  <2>. QED  BY <1>o, <2>2, <2>3, <2>4 DEF Landed
<1>3. /\ hot' \in CatRows
      /\ \A k \in CatalogKeys : /\ hot'[k].freq \in {hot[k].freq} \cup (IF o.hot THEN {flight[f][k]} ELSE {})
                                /\ hot'[k].seen \in {hot[k].seen, today}
                                /\ ~o.hot => hot'[k] = hot[k]
                                /\ o.hot /\ flight[f][k] # 0 => hot'[k].freq = flight[f][k]
  <2>1. \A k \in CatalogKeys : hot[k] \in [freq : Nat, seen : Int] /\ flight[f][k] \in Nat
    BY CatKey
  <2>2. hot \in CatRows
    BY DEF CatInv, CatShape
  <2>3. HotUpsert(flight[f]) \in CatRows
    BY <1>t, <2>1 DEF HotUpsert, CatRows
  <2>4. ASSUME NEW k \in CatalogKeys
        PROVE  /\ HotUpsert(flight[f])[k].freq \in {hot[k].freq, flight[f][k]}
               /\ HotUpsert(flight[f])[k].seen \in {hot[k].seen, today}
               /\ flight[f][k] # 0 => HotUpsert(flight[f])[k].freq = flight[f][k]
    BY <2>1 DEF HotUpsert
  <2>. QED  BY <1>o, <2>2, <2>3, <2>4 DEF Landed
<1>4. flight' \in [Flushers -> CatCounts]
  BY CatZero DEF CatInv, CatShape
<1>5. CatShape'
  <2>1. \A k \in CatalogKeys : pg'[k].seen <= today /\ hot'[k].seen <= today
    BY <1>2, <1>3, <1>t, CatKey
  <2>2. tier = "warm_only" => \A k \in CatalogKeys : hot'[k] = NoRow
    BY <1>3, <1>o, CatKey
  <2>. QED  BY <1>1, <1>2, <1>3, <1>4, <2>1, <2>2 DEF CatInv, CatShape
<1>6. ASSUME NEW k \in CatalogKeys PROVE Balanced(k)'
  <2>. DEFINE n == flight[f][k]
  <2>1. InAir(k)' + n = InAir(k) + Zero[k] /\ InAir(k) \in Nat /\ InAir(k)' \in Nat /\ n \in Nat
    BY CatZero, CatFlight DEF CatInv, CatShape
  <2>2. Zero[k] = 0
    BY CatZero
  <2>3. Balanced(k) /\ hot[k].freq \in Nat /\ pg[k].freq \in Nat
    BY CatKey
  <2>4. doubtful'[k] <= MaxDoubtful /\ doubtful'[k] = IF doubt THEN doubtful[k] + n ELSE doubtful[k]
    BY <1>1
  <2>5. buffer'[k] = IF put THEN buffer[k] + n ELSE buffer[k]
    BY <1>1
  <2>6. pg'[k].freq = IF o.pg THEN pg[k].freq + n ELSE pg[k].freq
    BY <1>2
  <2>7. hot'[k].freq \in {hot[k].freq, n} /\ (o.hot /\ n # 0 => hot'[k].freq = n) /\ (~o.hot => hot'[k].freq = hot[k].freq)
    BY <1>3, <1>o
  <2>8. tier = "warm_only" => hot'[k].freq = 0
    BY <1>5 DEF CatShape, NoRow
  <2>. HIDE DEF n
  <2>9. tier = "dual" => ~put
    BY <1>o
  <2>10. tier' = tier /\ cleaned'[k] = cleaned[k] /\ catRecorded'[k] = catRecorded[k]
    OBVIOUS
  <2>11. InAir(k)' = InAir(k) - n
    BY <2>1, <2>2
  <2>12. buffer'[k] + InAir(k)' <= catRecorded[k] /\ buffer'[k] \in Nat /\ doubtful'[k] \in Nat
         /\ pg'[k].freq \in Nat /\ hot'[k].freq \in Nat
    BY <2>1, <2>3, <2>4, <2>5, <2>6, <2>7, <2>11, <1>o DEF Balanced, Balance
  <2>13. tier = "dual" => hot'[k].freq + buffer'[k] + InAir(k)' <= catRecorded[k]
    BY <2>1, <2>3, <2>5, <2>7, <2>9, <2>11 DEF Balanced, Balance
  <2>14. tier = "warm_only" \/ (tier = "dual" /\ cleaned[k] = 0)
           => /\ pg'[k].freq + cleaned[k] + buffer'[k] + InAir(k)' <= catRecorded[k] + doubtful'[k]
              /\ catRecorded[k] <= pg'[k].freq + cleaned[k] + buffer'[k] + InAir(k)' + doubtful'[k]
    <3>1. /\ pg[k].freq \in Nat /\ cleaned[k] \in Nat /\ buffer[k] \in Nat /\ catRecorded[k] \in Nat /\ doubtful[k] \in Nat
      BY <2>3 DEF Balanced, Balance
    <3>2. CASE doubt
      BY <3>1, <3>2, <2>1, <2>3, <2>4, <2>5, <2>6, <2>11, <1>o DEF Balanced, Balance
    <3>3. CASE ~doubt
      BY <3>1, <3>3, <2>1, <2>3, <2>4, <2>5, <2>6, <2>11, <1>o DEF Balanced, Balance
    <3>. QED  BY <3>2, <3>3
  <2>. QED  BY <2>1, <2>3, <2>4, <2>8, <2>10, <2>12, <2>13, <2>14 DEF Balanced, Balance
<1>. QED  BY <1>5, <1>6 DEF CatInv

LEMMA CatFlushEnds ==
  ASSUME CatInv, NEW f \in Flushers, FlushEnds(f)
  PROVE  CatInv'
<1>1. PICK o \in Outcomes :
        /\ Landed(flight[f], o)
        /\ buffer' = IF o.raised THEN Restored(f) ELSE buffer
        /\ doubtful' = IF (o.raised /\ o.pg) \/ (~o.raised /\ ~o.pg) THEN Plus(doubtful, flight[f]) ELSE doubtful
  BY DEF FlushEnds
<1>2. /\ \A k \in CatalogKeys : doubtful'[k] <= MaxDoubtful
      /\ flight' = [flight EXCEPT ![f] = Zero]
      /\ UNCHANGED <<tier, asyncHot, job, today, catRecorded, cleaned>>
  BY DEF FlushEnds
<1>3. o.raised \in BOOLEAN /\ o.pg \in BOOLEAN
  BY CatOutcomes DEF CatInv, CatShape
<1>. DEFINE put == o.raised
            doubt == (o.raised /\ o.pg) \/ (~o.raised /\ ~o.pg)
<1>4. put \in BOOLEAN /\ doubt \in BOOLEAN /\ (put => o.raised) /\ (~doubt => (o.pg <=> ~put))
  BY <1>3
<1>5. /\ buffer' = IF put THEN Restored(f) ELSE buffer
      /\ doubtful' = IF doubt THEN Plus(doubtful, flight[f]) ELSE doubtful
  BY <1>1
<1>. HIDE DEF put, doubt
<1>. QED  BY <1>1, <1>2, <1>4, <1>5, CatLands

LEMMA CatCloseCancels ==
  ASSUME CatInv, CloseCancels
  PROVE  CatInv'
<1>. DEFINE f == "worker"
<1>0. f \in Flushers
  BY CatalogAssumption
<1>1. PICK o \in Outcomes : Landed(flight[f], o)
  BY DEF CloseCancels
<1>2. /\ doubtful' = Plus(doubtful, flight[f])
      /\ \A k \in CatalogKeys : doubtful'[k] <= MaxDoubtful
      /\ flight' = [flight EXCEPT ![f] = Zero]
      /\ UNCHANGED <<buffer, tier, asyncHot, job, today, catRecorded, cleaned>>
  BY DEF CloseCancels
<1>3. /\ buffer' = IF FALSE THEN Restored(f) ELSE buffer
      /\ doubtful' = IF TRUE THEN Plus(doubtful, flight[f]) ELSE doubtful
  BY <1>2
<1>. HIDE DEF f
<1>. QED  BY <1>0, <1>1, <1>2, <1>3, CatLands

\* GREATEST of both tables: what the hot table has was recorded.
LEMMA CatSyncs ==
  ASSUME CatInv, NEW rows \in SUBSET InHot, pg' = SyncFromHot(rows) \/ pg' = pg,
         job' \in CatJobs, UNCHANGED <<buffer, flight, hot, tier, asyncHot, today, catRecorded, cleaned, doubtful>>
  PROVE  CatInv'
<1>1. ASSUME NEW k \in CatalogKeys
      PROVE  /\ SyncFromHot(rows)[k] \in [freq : Nat, seen : Int]
             /\ SyncFromHot(rows)[k].seen <= today
             /\ SyncFromHot(rows)[k].freq \in {pg[k].freq, hot[k].freq}
             /\ SyncFromHot(rows)[k].freq >= pg[k].freq
             /\ tier = "warm_only" => SyncFromHot(rows)[k] = pg[k]
  <2>1. SyncFromHot(rows)[k] = IF k \in rows THEN Later(pg[k], hot[k]) ELSE pg[k]
    BY DEF SyncFromHot
  <2>2. k \in rows => hot[k] # NoRow
    BY DEF InHot
  <2>. QED  BY <2>1, <2>2, CatKey DEF Later
<1>2. pg' \in CatRows /\ \A k \in CatalogKeys :
        /\ pg'[k].seen <= today /\ pg'[k].freq \in {pg[k].freq, hot[k].freq} /\ pg'[k].freq >= pg[k].freq
        /\ tier = "warm_only" => pg'[k] = pg[k]
  <2>1. SyncFromHot(rows) \in CatRows
    BY <1>1 DEF SyncFromHot, CatRows
  <2>2. pg \in CatRows
    BY DEF CatInv, CatShape
  <2>3. \A k \in CatalogKeys : pg[k].freq \in Nat
    BY CatKey
  <2>. QED  BY <1>1, <2>1, <2>2, <2>3, CatKey
<1>3. CatShape'
  BY <1>2 DEF CatInv, CatShape
<1>4. ASSUME NEW k \in CatalogKeys PROVE Balanced(k)'
  <2>1. InAir(k)' = InAir(k)
    BY DEF InAir, InFlight
  <2>2. Balanced(k)
    BY CatKey
  <2>. QED  BY <1>2, <2>1, <2>2 DEF Balanced, Balance
<1>. QED  BY <1>3, <1>4 DEF CatInv

LEMMA CatCleans ==
  ASSUME CatInv, AggregateCleans
  PROVE  CatInv'
<1>. DEFINE stale == {r.key : r \in {r \in job.rows : r.seen < today - WarmDays}}
            cap == MaxRecorded + MaxDoubtful
<1>1. /\ job' = NoJob
      /\ pg' = [k \in CatalogKeys |-> IF k \in stale THEN NoRow ELSE pg[k]]
      /\ cleaned' = [k \in CatalogKeys |-> IF k \in stale THEN Min({cleaned[k] + pg[k].freq, cap}) ELSE cleaned[k]]
      /\ UNCHANGED <<buffer, flight, hot, tier, asyncHot, today, catRecorded, doubtful>>
  BY DEF AggregateCleans
<1>. HIDE DEF stale
<1>2. NoRow \in [freq : Nat, seen : Int] /\ NoRow.freq = 0 /\ NoRow.seen = -1 /\ NoJob \in CatJobs
  BY DEF NoRow, NoJob, CatJobs
<1>3. ASSUME NEW k \in CatalogKeys
      PROVE  /\ Min({cleaned[k] + pg[k].freq, cap}) \in Nat
             /\ Min({cleaned[k] + pg[k].freq, cap}) = IF cleaned[k] + pg[k].freq <= cap THEN cleaned[k] + pg[k].freq ELSE cap
  <2>. DEFINE D == {cleaned[k] + pg[k].freq, cap}
  <2>1. cleaned[k] + pg[k].freq \in Nat /\ cap \in Nat
    BY CatKey, CatalogAssumption DEF Balanced, Balance
  <2>2. D \in SUBSET Nat /\ D # {}
    BY <2>1
  <2>3. Min(D) \in D /\ \A e \in D : Min(D) <= e
    <3>. HIDE DEF D
    <3>. QED  BY <2>2, MinIsLeast
  <2>. HIDE DEF cap
  <2>. QED  BY <2>1, <2>3
<1>4. CatShape'
  <2>1. pg' \in CatRows /\ \A k \in CatalogKeys : pg'[k].seen <= today
    BY <1>1, <1>2, CatKey DEF CatRows
  <2>2. cleaned' \in CatCounts
    BY <1>1, <1>3 DEF CatInv, CatShape, CatCounts
  <2>. QED  BY <1>1, <1>2, <2>1, <2>2 DEF CatInv, CatShape
<1>5. ASSUME NEW k \in CatalogKeys PROVE Balanced(k)'
  <2>1. InAir(k)' = InAir(k)
    BY <1>1 DEF InAir, InFlight
  <2>2. Balanced(k)
    BY CatKey
  <2>3. CASE k \notin stale
    <3>1. pg'[k] = pg[k] /\ cleaned'[k] = cleaned[k]
      BY <1>1, <2>3
    <3>. QED  BY <1>1, <2>1, <2>2, <3>1 DEF Balanced
  <2>4. CASE k \in stale
    <3>1. /\ pg'[k].freq = 0
          /\ cleaned'[k] = IF cleaned[k] + pg[k].freq <= cap THEN cleaned[k] + pg[k].freq ELSE cap
      BY <1>1, <1>2, <1>3, <2>4
    <3>2. MaxRecorded \in Nat /\ MaxDoubtful \in Nat
      BY CatalogAssumption
    <3>3. \/ cleaned'[k] = cleaned[k] + pg[k].freq
          \/ cleaned'[k] = cap /\ ~(tier = "warm_only" \/ (tier = "dual" /\ cleaned[k] = 0))
      BY <2>2, <3>1, <3>2 DEF Balanced, Balance
    <3>4. tier = "dual" /\ cleaned'[k] = 0 => cleaned[k] = 0
      BY <2>2, <3>1, <3>2 DEF Balanced, Balance
    <3>5. cleaned'[k] \in Nat /\ cleaned'[k] <= cap
      BY <1>3, <2>2, <3>1, <3>2 DEF Balanced, Balance
    <3>6. tier = "warm_only" \/ (tier = "dual" /\ cleaned'[k] = 0) => cleaned'[k] = cleaned[k] + pg[k].freq
      BY <3>3, <3>4
    <3>. QED  BY <1>1, <2>1, <2>2, <3>1, <3>4, <3>5, <3>6 DEF Balanced, Balance
  <2>. QED  BY <2>3, <2>4
<1>. QED  BY <1>4, <1>5 DEF CatInv

LEMMA CatalogStep == CatInv /\ [CatalogNext]_catalogVars => CatInv'
<1>. SUFFICES ASSUME CatInv, [CatalogNext]_catalogVars
              PROVE  CatInv'
  OBVIOUS
<1>1. NoJob \in CatJobs /\ [NoJob EXCEPT !.pc = "purge"] \in CatJobs /\ [job EXCEPT !.pc = "clean"] \in CatJobs
  BY DEF NoJob, CatJobs, CatInv, CatShape
<1>2. CASE AggregateReads
  <2>1. {[key |-> k, seen |-> pg[k].seen] : k \in {k \in CatalogKeys : pg[k] # NoRow}}
          \in SUBSET [key : CatalogKeys, seen : Int]
    BY DEF CatInv, CatShape, CatRows
  <2>2. job' \in CatJobs
    BY <1>2, <2>1 DEF AggregateReads, CatJobs
  <2>3. pg' = pg /\ UNCHANGED <<buffer, flight, hot, tier, asyncHot, today, catRecorded, cleaned, doubtful>>
    BY <1>2 DEF AggregateReads
  <2>. QED  BY <2>2, <2>3, CatSyncs
<1>3. CASE AggregateSyncs
  <2>1. /\ pg' = SyncFromHot(InHot) \/ pg' = pg
        /\ job' \in CatJobs /\ UNCHANGED <<buffer, flight, hot, tier, asyncHot, today, catRecorded, cleaned, doubtful>>
    BY <1>1, <1>3 DEF AggregateSyncs
  <2>. QED  BY <2>1, CatSyncs
<1>4. CASE MigrateShips
  <2>. DEFINE young == {k \in InHot : hot[k].seen >= today - HotDays}
  <2>1. /\ pg' = SyncFromHot(young) /\ young \in SUBSET InHot
        /\ job' \in CatJobs /\ UNCHANGED <<buffer, flight, hot, tier, asyncHot, today, catRecorded, cleaned, doubtful>>
    BY <1>1, <1>4 DEF MigrateShips
  <2>. HIDE DEF young
  <2>. QED  BY <2>1, CatSyncs
<1>5. CASE JobDies
  <2>1. pg' = pg /\ job' \in CatJobs /\ UNCHANGED <<buffer, flight, hot, tier, asyncHot, today, catRecorded, cleaned, doubtful>>
    BY <1>1, <1>5 DEF JobDies
  <2>. QED  BY <2>1, CatSyncs
<1>6. CASE UNCHANGED catalogVars
  <2>1. pg' = pg /\ job' \in CatJobs /\ UNCHANGED <<buffer, flight, hot, tier, asyncHot, today, catRecorded, cleaned, doubtful>>
    BY <1>6 DEF catalogVars, CatInv, CatShape
  <2>. QED  BY <2>1, CatSyncs
<1>7. CASE MigratePurges
  <2>1. /\ job' = NoJob /\ UNCHANGED <<buffer, flight, pg, tier, asyncHot, today, catRecorded, cleaned, doubtful>>
        /\ hot' = [k \in CatalogKeys |-> IF hot[k].seen < today - HotDays THEN NoRow ELSE hot[k]]
    BY <1>7 DEF MigratePurges
  <2>2. NoRow \in [freq : Nat, seen : Int] /\ NoRow.freq = 0 /\ NoRow.seen = -1
    BY DEF NoRow
  <2>3. hot' \in CatRows /\ \A k \in CatalogKeys : hot'[k] = hot[k] \/ hot'[k] = NoRow
    BY <2>1, <2>2 DEF CatInv, CatShape, CatRows
  <2>4. CatShape'
    <3>1. \A k \in CatalogKeys : hot'[k].seen <= today
      BY <2>2, <2>3, CatKey
    <3>2. tier = "warm_only" => \A k \in CatalogKeys : hot'[k] = NoRow
      BY <2>3, CatKey
    <3>. QED  BY <1>1, <2>1, <2>3, <3>1, <3>2 DEF CatInv, CatShape
  <2>5. ASSUME NEW k \in CatalogKeys PROVE Balanced(k)'
    <3>1. InAir(k)' = InAir(k)
      BY <2>1 DEF InAir, InFlight
    <3>2. Balanced(k) /\ hot'[k].freq \in {hot[k].freq, 0}
      BY <2>2, <2>3, CatKey
    <3>. QED  BY <2>1, <3>1, <3>2 DEF Balanced, Balance
  <2>. QED  BY <2>4, <2>5 DEF CatInv
<1>8. CASE CatalogDay
  <2>1. /\ today' \in 0 .. MaxDay /\ today' >= today /\ today \in Int /\ today' \in Int
        /\ UNCHANGED <<buffer, flight, pg, hot, tier, asyncHot, job, catRecorded, cleaned, doubtful>>
    BY <1>8, CatalogAssumption DEF CatalogDay, CatInv, CatShape
  <2>2. \A k \in CatalogKeys : pg[k].seen <= today' /\ hot[k].seen <= today'
    BY <2>1, CatKey
  <2>3. CatShape'
    BY <2>1, <2>2 DEF CatInv, CatShape
  <2>4. \A k \in CatalogKeys : Balanced(k)'
    BY <2>1 DEF CatInv, Balanced, InAir, InFlight
  <2>. QED  BY <2>3, <2>4 DEF CatInv
<1>. QED  BY <1>2, <1>3, <1>4, <1>5, <1>6, <1>7, <1>8, CatRecordStep, CatFlushBegins, CatFlushEnds,
           CatCloseCancels, CatCleans DEF CatalogNext

LEMMA CatInvTyped == CatInv => CatalogTypeOK
<1>. SUFFICES ASSUME CatInv
              PROVE  CatalogTypeOK
  OBVIOUS
<1>1. ASSUME NEW k \in CatalogKeys
      PROVE  buffer[k] \in 0 .. 2 * MaxRecorded /\ catRecorded[k] \in 0 .. 2 * MaxRecorded
  BY CatKey, CatalogAssumption DEF Balanced, Balance
<1>2. buffer \in [CatalogKeys -> 0 .. 2 * MaxRecorded] /\ catRecorded \in [CatalogKeys -> 0 .. 2 * MaxRecorded]
  BY <1>1 DEF CatInv, CatShape, CatCounts
<1>3. job.pc \in {"none", "sync", "clean", "purge"}
  BY DEF CatInv, CatShape, CatJobs
<1>. QED  BY <1>2, <1>3 DEF CatInv, CatShape, CatalogTypeOK

\* compliance/catalog.py, aggregate.py and migrate_hot_to_warm.py: for any number of
\* keys and of tasks that flush at once, however recording, failing and cancelled
\* writes and the two jobs overlap: the warm table counts every masking event once,
\* but for the events of writes that were in doubt.
THEOREM CatalogCountsOnce == CatalogSpec => [](CatalogConserved /\ CatalogTypeOK)
<1>1. CatInv => CatalogConserved
  <2>. SUFFICES ASSUME CatInv, NEW k \in CatalogKeys, tier = "warm_only" \/ (tier = "dual" /\ cleaned[k] = 0)
               PROVE  Counted(k) <= catRecorded[k] + doubtful[k] /\ catRecorded[k] <= Counted(k) + doubtful[k]
    BY DEF CatalogConserved
  <2>. QED  BY CatKey, CatCounted DEF Balanced, Balance
<1>. QED  BY <1>1, CatInvTyped, CatalogInitially, CatalogStep, PTL DEF CatalogSpec
-----------------------------------------------------------------------------
(* The weekly migration to cold.  A trace may leave the warm table only when  *)
(* its object is written, and an object may be wiped only by a day that still *)
(* has rows; the invariant says why the two never meet unless a day got rows  *)
(* late or was read in chunks.                                                *)

MigPcs == {"idle", "read", "collect", "purge", "failed"}
MigRecord == [pc : MigPcs, days : SUBSET Days, day : Days \cup {0}, after : Nat,
              errors : Nat, ids : SUBSET Traces]

ColdTyped ==
  /\ warm \subseteq arrived /\ arrived \subseteq Traces /\ cold \in [Days -> SUBSET Traces]
  /\ aged \subseteq Days /\ late \cup big \subseteq Days
  /\ mig \in MigRecord /\ mig.pc # "failed"

\* A table has a last row, and days age in their order.
TablesSound ==
  /\ \E b \in Nat : \A t \in warm : t <= b
  /\ \A d \in aged, e \in Days : e < d => e \in aged

RowsOf(w, d) == {t \in w : Day[t] = d}
Emptied(w, ex, d) == RowsOf(w, d) = {} \/ d \in ex

\* A run knows only days past the cutoff; the days it passed over had no rows,
\* and, while nothing failed, those behind it have none any more.
OnItsWay(m, w, ex, ag) ==
  /\ m.days \subseteq ag /\ m.day \in m.days
  /\ \A d \in Days \ m.days, e \in m.days : d < e => Emptied(w, ex, d)
  /\ m.errors = 0 => \A d \in Days : d < m.day => Emptied(w, ex, d)

\* What the run has archived and collected of its day, by where it stands.
InItsDay(m, w, c, ex) ==
  /\ m.ids \subseteq RowsOf(w, m.day)
  /\ m.pc = "read" => m.day \in ex \/ \A t \in RowsOf(w, m.day) : t <= m.after => t \in c[m.day]
  /\ m.pc \in {"collect", "purge"} =>
       m.errors = 0 /\ (m.day \in ex \/ RowsOf(w, m.day) \subseteq c[m.day])
  /\ m.pc = "collect" => m.day \in ex \/ \A t \in RowsOf(w, m.day) : t <= m.after => t \in m.ids
  /\ m.pc = "purge" => m.day \in ex \/ RowsOf(w, m.day) \subseteq m.ids

RunSound(m, w, c, ex, ag) ==
  m.pc # "idle" => OnItsWay(m, w, ex, ag) /\ InItsDay(m, w, c, ex)

\* A purged trace has its object, or an excuse; and each day whose wipe reaches
\* that object is past the cutoff and has no rows left, or is an excuse itself.
PurgedSound(t, w, c, ex, ag) ==
  /\ t \in c[Day[t]] \/ \E d \in Days : Covers(d, Day[t]) /\ d \in ex
  /\ \A d \in Days : Covers(d, Day[t]) => d \in ag /\ Emptied(w, ex, d)

ColdInv ==
  /\ ColdTyped /\ TablesSound
  /\ RunSound(mig, warm, cold, late \cup big, aged)
  /\ \A t \in arrived \ warm : PurgedSound(t, warm, cold, late \cup big, aged)

\* get_traces_for_partition(): a chunk is the head of what is left of the day,
\* and empty only when nothing is.
LEMMA ChunkSound ==
    ASSUME ColdAssumption, warm \subseteq Traces, NEW d, NEW after \in Nat
    PROVE  /\ Chunk(d, after) \subseteq {t \in RowsOf(warm, d) : t > after}
           /\ \A t \in Chunk(d, after), u \in RowsOf(warm, d) :
                u > after /\ u <= t => u \in Chunk(d, after)
           /\ (\E t \in RowsOf(warm, d) : t > after) => Chunk(d, after) # {}
<1>. DEFINE rest == {t \in RowsOf(warm, d) : t > after}
<1>. DEFINE upto(t) == {u \in rest : u <= t}
<1>1. Chunk(d, after) = {t \in rest : Cardinality(upto(t)) <= MaxRows}
  BY DEF Chunk, Partition, RowsOf
<1>2. rest \subseteq Nat
  BY DEF RowsOf, ColdAssumption
<1>3. ASSUME NEW t \in rest PROVE IsFiniteSet(upto(t)) /\ Cardinality(upto(t)) \in Nat
  <2>1. upto(t) \subseteq 0 .. t /\ t \in Int /\ 0 \in Int
    BY <1>2
  <2>2. IsFiniteSet(0 .. t)
    BY <2>1, FS_Interval
  <2>. QED  BY <2>1, <2>2, FS_Subset, FS_CardinalityType
<1>4. ASSUME NEW t \in rest, NEW u \in rest, u <= t
      PROVE  Cardinality(upto(u)) <= Cardinality(upto(t))
  <2>1. upto(u) \subseteq upto(t)
    BY <1>2, <1>4
  <2>. QED  BY <1>3, <2>1, FS_Subset
<1>5. ASSUME NEW t \in Chunk(d, after), NEW u \in RowsOf(warm, d), u > after, u <= t
      PROVE  u \in Chunk(d, after)
  <2>1. t \in rest /\ u \in rest /\ Cardinality(upto(t)) <= MaxRows
    BY <1>1, <1>5
  <2>2. Cardinality(upto(u)) <= Cardinality(upto(t))
    BY <1>4, <1>5, <2>1
  <2>3. Cardinality(upto(u)) <= MaxRows
    BY <1>3, <2>1, <2>2 DEF ColdAssumption
  <2>. QED  BY <1>1, <2>1, <2>3
<1>6. ASSUME rest # {} PROVE Chunk(d, after) # {}
  <2>. DEFINE m == Min(rest)
  <2>1. m \in rest /\ \A e \in rest : m <= e
    BY <1>2, <1>6, MinIsLeast
  <2>. HIDE DEF m
  <2>2. upto(m) = {m}
    BY <1>2, <2>1
  <2>3. Cardinality(upto(m)) = 1
    BY <2>2, FS_Singleton
  <2>4. Cardinality(upto(m)) <= MaxRows
    BY <2>3 DEF ColdAssumption
  <2>. QED  BY <1>1, <2>1, <2>4
<1>. QED  BY <1>1, <1>5, <1>6

\* The next partition: a run that leaves its day behind, emptied or with an error
\* counted, is sound at the next one.
LEMMA NextDaySound ==
    ASSUME ColdAssumption, NEW m \in MigRecord, NEW w \in SUBSET Traces, NEW c, NEW ex, NEW ag,
           OnItsWay(m, w, ex, ag), m.errors = 0 => Emptied(w, ex, m.day)
    PROVE  /\ NextDay(m) \in MigRecord /\ NextDay(m).pc # "failed"
           /\ RunSound(NextDay(m), w, c, ex, ag)
<1>. DEFINE left == {d \in m.days : d > m.day}
            n == NextDay(m)
<1>1. Days \subseteq Nat \ {0}
  BY DEF Days, ColdAssumption
<1>2. CASE left = {}
  <2>1. n = NotRunningCold
    BY <1>2 DEF NextDay
  <2>. QED  BY <2>1 DEF NotRunningCold, MigRecord, MigPcs, RunSound
<1>3. CASE left # {}
  <2>. DEFINE k == Min(left)
  <2>1. left \subseteq Nat
    BY <1>1 DEF MigRecord
  <2>2. k \in left /\ \A e \in left : k <= e
    BY <1>3, <2>1, MinIsLeast
  <2>3. n = [m EXCEPT !.pc = "read", !.day = k, !.after = 0, !.ids = {}]
    BY <1>3 DEF NextDay
  <2>. HIDE DEF k, n
  <2>4. /\ n \in MigRecord /\ n.pc = "read" /\ n.day = k /\ n.after = 0 /\ n.ids = {}
        /\ n.days = m.days /\ n.errors = m.errors
    BY <2>2, <2>3 DEF MigRecord, MigPcs
  <2>5. m.day \in Nat /\ k \in Nat /\ m.day < k /\ m.day \in m.days /\ k \in m.days
        /\ m.days \subseteq Days
    BY <1>1, <2>2 DEF OnItsWay, MigRecord
  <2>6. ASSUME m.errors = 0, NEW d \in Days, d < k PROVE Emptied(w, ex, d)
    <3>1. CASE d = m.day
      BY <2>6, <3>1
    <3>2. CASE d < m.day
      BY <2>6, <3>2 DEF OnItsWay
    <3>3. CASE d > m.day
      <4>1. d \notin m.days
        BY <1>1, <2>2, <2>5, <2>6, <3>3
      <4>. QED  BY <2>5, <2>6, <4>1 DEF OnItsWay
    <3>. QED  BY <1>1, <2>5, <3>1, <3>2, <3>3
  <2>7. OnItsWay(n, w, ex, ag)
    BY <2>4, <2>5, <2>6 DEF OnItsWay
  <2>8. \A t \in RowsOf(w, k) : t <= 0 => t \in c[k]
    BY DEF RowsOf, ColdAssumption
  <2>9. InItsDay(n, w, c, ex)
    BY <2>4, <2>8 DEF InItsDay
  <2>. QED  BY <2>4, <2>7, <2>9 DEF RunSound, n
<1>. QED  BY <1>2, <1>3

LEMMA ColdStart == ColdAssumption /\ ColdInit => ColdInv
BY DEF ColdInit, ColdInv, ColdTyped, TablesSound, RunSound, NotRunningCold, MigRecord, MigPcs

\* A row arrives: its day is an excuse if it is past the cutoff, and nothing else
\* depends on it.
LEMMA ArrivesKeeps ==
    ASSUME ColdAssumption, ColdInv, NEW t \in Traces, Arrives(t)
    PROVE  ColdInv'
<1>. DEFINE ex == late \cup big
            d0 == Day[t]
<1>1. /\ warm' = warm \cup {t} /\ arrived' = arrived \cup {t} /\ t \notin arrived
      /\ cold' = cold /\ aged' = aged /\ mig' = mig
      /\ d0 \in Days /\ t \in Nat
      /\ ex \subseteq ex' /\ (d0 \in aged => d0 \in ex') /\ ex' \subseteq Days
  BY DEF Arrives, Days, ColdAssumption, ColdInv, ColdTyped
<1>. DEFINE ex2 == ex'
<1>2. ex2 = ex' /\ ex2 = late' \cup big'
  OBVIOUS
<1>. HIDE DEF ex, ex2
<1>3. \A d \in Days : d # d0 \/ d \in aged => (Emptied(warm, ex, d) => Emptied(warm', ex2, d))
  BY <1>1, <1>2 DEF Emptied, RowsOf
<1>4. ColdTyped'
  BY <1>1, <1>2 DEF ColdInv, ColdTyped, ex
<1>5. TablesSound'
  <2>1. PICK b \in Nat : \A u \in warm : u <= b
    BY DEF ColdInv, TablesSound
  <2>2. warm \subseteq Nat
    BY DEF ColdInv, ColdTyped, ColdAssumption
  <2>3. b + t \in Nat /\ \A u \in warm' : u <= b + t
    BY <1>1, <2>1, <2>2
  <2>. QED  BY <1>1, <2>3 DEF ColdInv, TablesSound
<1>6. ASSUME mig.pc # "idle" PROVE OnItsWay(mig, warm', ex2, aged) /\ InItsDay(mig, warm', cold, ex2)
  <2>1. OnItsWay(mig, warm, ex, aged) /\ InItsDay(mig, warm, cold, ex)
    BY <1>6 DEF ColdInv, RunSound, ex
  <2>2. mig.days \subseteq aged /\ mig.day \in aged /\ mig.day \in Days
        /\ \A d \in aged, e \in Days : e < d => e \in aged
    BY <2>1 DEF OnItsWay, ColdInv, TablesSound, ColdTyped
  <2>3. OnItsWay(mig, warm', ex2, aged)
    <3>1. \A d \in Days : d < mig.day => d \in aged
      BY <2>2
    <3>2. \A d \in Days, e \in mig.days : d < e => d \in aged
      BY <2>2
    <3>. QED  BY <1>3, <2>1, <3>1, <3>2 DEF OnItsWay
  <2>4. RowsOf(warm, mig.day) \subseteq RowsOf(warm', mig.day)
        /\ (mig.day \in ex2 \/ RowsOf(warm', mig.day) = RowsOf(warm, mig.day))
        /\ (mig.day \in ex => mig.day \in ex2)
    BY <1>1, <1>2, <2>2 DEF RowsOf
  <2>5. InItsDay(mig, warm', cold, ex2)
    BY <2>1, <2>4 DEF InItsDay
  <2>. QED  BY <2>3, <2>5
<1>7. ASSUME NEW u \in arrived' \ warm' PROVE PurgedSound(u, warm', cold, ex2, aged)
  <2>1. PurgedSound(u, warm, cold, ex, aged)
    BY <1>1, <1>7 DEF ColdInv, ex
  <2>. QED  BY <1>1, <1>2, <1>3, <2>1 DEF PurgedSound
<1>. QED  BY <1>1, <1>2, <1>4, <1>5, <1>6, <1>7 DEF ColdInv, RunSound

\* The next day is past the cutoff.
LEMMA DayAgesKeeps ==
    ASSUME ColdAssumption, ColdInv, DayAges
    PROVE  ColdInv'
<1>. DEFINE k == Min(Days \ aged)
<1>1. Days \subseteq Nat
  BY DEF Days, ColdAssumption
<1>2. Days \ aged # {}
  BY DEF DayAges, ColdInv, ColdTyped
<1>3. k \in Days \ aged /\ \A e \in Days \ aged : k <= e
  BY <1>1, <1>2, MinIsLeast
<1>4. aged' = aged \cup {k} /\ UNCHANGED <<warm, cold, mig, arrived, late, big>>
  BY DEF DayAges
<1>. HIDE DEF k
<1>5. \A e \in Days : e < k => e \in aged
  BY <1>1, <1>3
<1>6. ColdTyped' /\ TablesSound'
  BY <1>3, <1>4, <1>5 DEF ColdInv, ColdTyped, TablesSound
<1>. QED
  BY <1>4, <1>6 DEF ColdInv, RunSound, OnItsWay, InItsDay, PurgedSound

\* list_trace_partitions(): what the run does not list has no rows.
LEMMA ListsKeeps ==
    ASSUME ColdAssumption, ColdInv, Lists
    PROVE  ColdInv'
<1>. DEFINE days == {d \in aged : Partition(d) # {}}
            k == Min(days)
<1>1. Days \subseteq Nat /\ aged \subseteq Days
  BY DEF Days, ColdAssumption, ColdInv, ColdTyped
<1>2. /\ days # {} /\ mig' = [NotRunningCold EXCEPT !.pc = "read", !.days = days, !.day = Min(days)]
      /\ UNCHANGED <<warm, cold, aged, arrived, late, big>>
  BY DEF Lists
<1>3. k \in days /\ \A e \in days : k <= e
  BY <1>1, <1>2, MinIsLeast
<1>4. \A d \in aged \ days : RowsOf(warm, d) = {}
  BY DEF Partition, RowsOf
<1>5. days \subseteq aged
  OBVIOUS
<1>. HIDE DEF k, days
<1>6. mig' = [pc |-> "read", days |-> days, day |-> k, after |-> 0, errors |-> 0, ids |-> {}]
  BY <1>2 DEF NotRunningCold, k
<1>7. ColdTyped' /\ TablesSound'
  <2>1. mig' \in MigRecord /\ mig'.pc = "read"
    BY <1>1, <1>3, <1>5, <1>6 DEF MigRecord, MigPcs
  <2>. QED  BY <1>2, <2>1 DEF ColdInv, ColdTyped, TablesSound
<1>8. \A d \in Days \ days, e \in days : d < e => RowsOf(warm, d) = {}
  BY <1>4, <1>5 DEF ColdInv, TablesSound
<1>9. \A d \in Days : d < k => d \notin days
  BY <1>1, <1>3, <1>5
<1>10. OnItsWay(mig', warm, late \cup big, aged)
  BY <1>3, <1>5, <1>6, <1>8, <1>9 DEF OnItsWay, Emptied
<1>11. \A t \in RowsOf(warm, k) : ~(t <= 0)
  BY DEF RowsOf, ColdInv, ColdTyped, ColdAssumption
<1>12. InItsDay(mig', warm, cold, late \cup big)
  BY <1>6, <1>11 DEF InItsDay
<1>. QED
  BY <1>2, <1>7, <1>10, <1>12 DEF ColdInv, RunSound

\* delete_prefix(): whatever becomes of the objects a day's wipe reaches, no purged
\* trace is among them without an excuse, for the day still has rows.
LEMMA WipeExcused ==
    ASSUME ColdInv, NEW d \in Days, RowsOf(warm, d) # {}, NEW c, NEW ex,
           late \cup big \subseteq ex, \A e \in Days : ~Covers(d, e) => c[e] = cold[e],
           NEW t \in arrived \ warm
    PROVE  PurgedSound(t, warm, c, ex, aged)
<1>1. PurgedSound(t, warm, cold, late \cup big, aged)
  BY DEF ColdInv
<1>2. Day[t] \in Days
  BY DEF ColdInv, ColdTyped, Days
<1>3. CASE Covers(d, Day[t])
  <2>1. d \in ex
    BY <1>1, <1>3 DEF PurgedSound, Emptied
  <2>. QED  BY <1>1, <1>3, <2>1 DEF PurgedSound, Emptied
<1>4. CASE ~Covers(d, Day[t])
  BY <1>1, <1>2, <1>4 DEF PurgedSound, Emptied
<1>. QED  BY <1>3, <1>4

\* A run that has read its day to the end, or failed, goes on soundly.
LEMMA PartitionReadSound ==
    ASSUME ColdAssumption, NEW m \in MigRecord, NEW w \in SUBSET Traces, NEW c, NEW ex, NEW ag,
           OnItsWay(m, w, ex, ag), m.ids \subseteq RowsOf(w, m.day),
           m.errors = 0 => m.day \in ex \/ RowsOf(w, m.day) \subseteq c[m.day]
    PROVE  /\ PartitionRead(m) \in MigRecord /\ PartitionRead(m).pc # "failed"
           /\ RunSound(PartitionRead(m), w, c, ex, ag)
<1>1. CASE m.errors = 0
  <2>. DEFINE n == [m EXCEPT !.pc = "collect", !.after = 0]
  <2>1. PartitionRead(m) = n
    BY <1>1 DEF PartitionRead, MayPurge
  <2>2. /\ n \in MigRecord /\ n.pc = "collect" /\ n.after = 0 /\ n.days = m.days
        /\ n.day = m.day /\ n.errors = m.errors /\ n.ids = m.ids
    BY DEF MigRecord, MigPcs
  <2>. HIDE DEF n
  <2>3. \A t \in RowsOf(w, m.day) : ~(t <= 0)
    <3>1. \A t \in w : t \in Nat \ {0}
      BY DEF ColdAssumption
    <3>. QED  BY <3>1 DEF RowsOf
  <2>4. OnItsWay(n, w, ex, ag)
    BY <2>2 DEF OnItsWay
  <2>5. InItsDay(n, w, c, ex)
    BY <1>1, <2>2, <2>3 DEF InItsDay
  <2>. QED  BY <2>1, <2>2, <2>4, <2>5 DEF RunSound
<1>2. CASE m.errors # 0
  BY <1>2, NextDaySound DEF PartitionRead, MayPurge
<1>. QED  BY <1>1, <1>2

\* What holds of a run that is not idle.
LEMMA Running ==
    ASSUME ColdAssumption, ColdInv, mig.pc # "idle"
    PROVE  /\ mig \in MigRecord /\ warm \in SUBSET Traces
           /\ mig.day \in Days /\ mig.after \in Nat /\ mig.errors \in Nat
           /\ OnItsWay(mig, warm, late \cup big, aged) /\ InItsDay(mig, warm, cold, late \cup big)
<1>1. mig \in MigRecord /\ warm \in SUBSET Traces /\ OnItsWay(mig, warm, late \cup big, aged)
      /\ InItsDay(mig, warm, cold, late \cup big)
  BY DEF ColdInv, ColdTyped, RunSound
<1>2. mig.day \in Days
  BY <1>1 DEF OnItsWay, MigRecord
<1>. QED  BY <1>1, <1>2 DEF MigRecord

\* A chunk of the day's rows ends at its greatest id.
LEMMA ChunkEnds ==
    ASSUME ColdAssumption, ColdInv, NEW d, NEW after \in Nat, Chunk(d, after) # {}
    PROVE  /\ Max(Chunk(d, after)) \in Chunk(d, after) /\ Max(Chunk(d, after)) \in Nat
           /\ Max(Chunk(d, after)) > after
           /\ \A t \in Chunk(d, after) : t <= Max(Chunk(d, after))
<1>1. warm \subseteq Traces /\ warm \subseteq Nat
  BY DEF ColdInv, ColdTyped, ColdAssumption
<1>2. Chunk(d, after) \subseteq {t \in warm : t > after}
  BY <1>1, ChunkSound DEF RowsOf
<1>3. PICK b \in Nat : \A t \in warm : t <= b
  BY DEF ColdInv, TablesSound
<1>4. Chunk(d, after) \subseteq Nat /\ \A t \in Chunk(d, after) : t <= b
  BY <1>1, <1>2, <1>3
<1>5. /\ Max(Chunk(d, after)) \in Chunk(d, after)
      /\ \A t \in Chunk(d, after) : t <= Max(Chunk(d, after))
  BY <1>3, <1>4, MaxIsGreatest
<1>. QED  BY <1>1, <1>2, <1>4, <1>5

\* One turn of the chunk loop.
LEMMA MigratesKeeps ==
    ASSUME ColdAssumption, ColdInv, Migrates
    PROVE  ColdInv'
<1>. DEFINE d == mig.day
            rows == Chunk(mig.day, mig.after)
            ex == late \cup big
            wiped == [e \in Days |-> IF Covers(d, e) THEN {} ELSE cold[e]]
<1>1. mig.pc = "read" /\ UNCHANGED <<warm, aged, arrived, late>>
  BY DEF Migrates
<1>2. /\ mig \in MigRecord /\ warm \in SUBSET Traces /\ d \in Days /\ mig.after \in Nat /\ mig.errors \in Nat
      /\ OnItsWay(mig, warm, ex, aged) /\ InItsDay(mig, warm, cold, ex)
  BY <1>1, Running
<1>3. TablesSound'
  BY <1>1 DEF ColdInv, TablesSound
<1>4. CASE rows = {}
  <2>1. mig' = PartitionRead(mig) /\ UNCHANGED <<cold, big>>
    BY <1>4 DEF Migrates
  <2>2. \A t \in RowsOf(warm, d) : ~(t > mig.after)
    BY <1>2, <1>4, ChunkSound
  <2>3. RowsOf(warm, d) \subseteq Nat
    BY <1>2 DEF RowsOf, ColdAssumption
  <2>4. \A t \in RowsOf(warm, d) : t <= mig.after
    BY <1>2, <2>2, <2>3
  <2>5. d \in ex \/ RowsOf(warm, d) \subseteq cold[d]
    BY <1>1, <1>2, <2>4 DEF InItsDay
  <2>6. mig.ids \subseteq RowsOf(warm, d)
    BY <1>2 DEF InItsDay
  <2>7. mig' \in MigRecord /\ mig'.pc # "failed" /\ RunSound(mig', warm, cold, ex, aged)
    BY <1>2, <2>1, <2>5, <2>6, PartitionReadSound
  <2>8. ColdTyped'
    BY <1>1, <2>1, <2>7 DEF ColdInv, ColdTyped
  <2>. QED  BY <1>1, <1>3, <2>1, <2>7, <2>8 DEF ColdInv
<1>5. CASE rows # {}
  <2>. DEFINE ex2 == late' \cup big'
  <2>1. /\ big' = IF mig.after > 0 THEN big \cup {d} ELSE big
        /\ \/ cold' = [wiped EXCEPT ![d] = rows] /\ mig' = [mig EXCEPT !.after = Max(rows)]
           \/ /\ cold' \in {cold, wiped}
              /\ mig' = PartitionRead([mig EXCEPT !.errors = @ + 1, !.pc = "failed"])
    BY <1>5 DEF Migrates
  <2>2. rows \subseteq RowsOf(warm, d) /\ rows \subseteq Traces
    BY <1>2, ChunkSound DEF RowsOf
  <2>3. /\ Max(rows) \in rows /\ Max(rows) \in Nat /\ Max(rows) > mig.after
        /\ \A t \in rows : t <= Max(rows)
    BY <1>2, <1>5, ChunkEnds
  <2>4. \A u \in RowsOf(warm, d) : u > mig.after /\ u <= Max(rows) => u \in rows
    BY <1>2, <2>3, ChunkSound
  <2>5. RowsOf(warm, d) # {} /\ ex \subseteq ex2 /\ ex2 \subseteq Days /\ (mig.after > 0 => d \in ex2)
    BY <1>1, <1>2, <1>5, <2>1, <2>2 DEF ColdInv, ColdTyped
  <2>. HIDE DEF rows, wiped, ex2, ex
  <2>6. Covers(d, d)
    BY DEF Covers
  <2>7. cold' \in [Days -> SUBSET Traces] /\ \A e \in Days : ~Covers(d, e) => cold'[e] = cold[e]
    <3>1. cold \in [Days -> SUBSET Traces] /\ wiped \in [Days -> SUBSET Traces]
          /\ \A e \in Days : ~Covers(d, e) => wiped[e] = cold[e]
      BY DEF wiped, ColdInv, ColdTyped
    <3>. QED  BY <1>2, <2>1, <2>2, <2>6, <3>1
  <2>8. \A t \in arrived \ warm : PurgedSound(t, warm, cold', ex2, aged)
    BY <1>2, <2>5, <2>7, WipeExcused DEF ex
  <2>9. OnItsWay(mig, warm, ex2, aged)
    BY <1>2, <2>5 DEF OnItsWay, Emptied
  <2>10. mig' \in MigRecord /\ mig'.pc # "failed" /\ RunSound(mig', warm, cold', ex2, aged)
    <3>1. CASE cold' = [wiped EXCEPT ![d] = rows] /\ mig' = [mig EXCEPT !.after = Max(rows)]
      <4>1. /\ mig' \in MigRecord /\ mig'.pc = "read" /\ mig'.after = Max(rows) /\ mig'.days = mig.days
            /\ mig'.day = d /\ mig'.errors = mig.errors /\ mig'.ids = mig.ids
        BY <1>1, <1>2, <2>3, <3>1 DEF MigRecord
      <4>2. cold'[d] = rows
        BY <1>2, <3>1 DEF wiped
      <4>3. d \in ex2 \/ \A t \in RowsOf(warm, d) : t <= Max(rows) => t \in cold'[d]
        <5>1. CASE mig.after > 0
          BY <2>5, <5>1
        <5>2. CASE mig.after = 0
          <6>1. \A t \in RowsOf(warm, d) : t > 0
            BY <1>2 DEF RowsOf, ColdAssumption
          <6>. QED  BY <2>4, <4>2, <5>2, <6>1
        <5>. QED  BY <1>2, <5>1, <5>2
      <4>4. OnItsWay(mig', warm, ex2, aged)
        BY <2>9, <4>1 DEF OnItsWay
      <4>5. InItsDay(mig', warm, cold', ex2)
        BY <1>2, <4>1, <4>3 DEF InItsDay
      <4>. QED  BY <4>1, <4>4, <4>5 DEF RunSound
    <3>2. CASE mig' = PartitionRead([mig EXCEPT !.errors = @ + 1, !.pc = "failed"])
      <4>. DEFINE m == [mig EXCEPT !.errors = @ + 1, !.pc = "failed"]
      <4>1. /\ m \in MigRecord /\ m.errors = mig.errors + 1 /\ m.errors # 0 /\ m.days = mig.days
            /\ m.day = d /\ m.ids = mig.ids
        <5>1. mig.errors + 1 \in Nat /\ mig.errors + 1 # 0 /\ "failed" \in MigPcs
          BY <1>2 DEF MigPcs
        <5>. QED  BY ONLY <1>2, <5>1 DEF MigRecord
      <4>2. mig' = PartitionRead(m)
        BY <3>2
      <4>. HIDE DEF m
      <4>3. OnItsWay(m, warm, ex2, aged)
        BY <2>9, <4>1 DEF OnItsWay
      <4>4. m.ids \subseteq RowsOf(warm, m.day)
        BY <1>2, <4>1 DEF InItsDay
      <4>. QED  BY <1>2, <4>1, <4>2, <4>3, <4>4, PartitionReadSound
    <3>. QED  BY <2>1, <3>1, <3>2
  <2>11. ColdTyped'
    BY <1>1, <2>5, <2>7, <2>10 DEF ColdInv, ColdTyped, ex2
  <2>. QED  BY <1>1, <1>3, <2>8, <2>10, <2>11 DEF ColdInv, ex2
<1>. QED  BY <1>4, <1>5

\* The second walk: what the run has passed it has collected.
LEMMA CollectsKeeps ==
    ASSUME ColdAssumption, ColdInv, Collects
    PROVE  ColdInv'
<1>. DEFINE d == mig.day
            rows == Chunk(mig.day, mig.after)
            ex == late \cup big
<1>1. mig.pc = "collect" /\ UNCHANGED <<warm, cold, aged, arrived, late, big>>
  BY DEF Collects
<1>2. /\ mig \in MigRecord /\ warm \in SUBSET Traces /\ d \in Days /\ mig.after \in Nat /\ mig.errors \in Nat
      /\ OnItsWay(mig, warm, ex, aged) /\ InItsDay(mig, warm, cold, ex)
  BY <1>1, Running
<1>3. mig' = IF rows # {} THEN [mig EXCEPT !.ids = @ \cup rows, !.after = Max(rows)]
             ELSE IF mig.ids # {} THEN [mig EXCEPT !.pc = "purge"] ELSE NextDay(mig)
  BY DEF Collects
<1>4. RowsOf(warm, d) \subseteq Nat
  BY <1>2 DEF RowsOf, ColdAssumption
<1>5. rows \subseteq RowsOf(warm, d) /\ rows \subseteq Traces
  BY <1>2, ChunkSound DEF RowsOf
<1>6. mig' \in MigRecord /\ mig'.pc # "failed" /\ RunSound(mig', warm, cold, ex, aged)
  <2>1. CASE rows # {}
    <3>1. /\ Max(rows) \in rows /\ Max(rows) \in Nat /\ Max(rows) > mig.after
          /\ \A t \in rows : t <= Max(rows)
      BY <1>2, <2>1, ChunkEnds
    <3>2. \A u \in RowsOf(warm, d) : u > mig.after /\ u <= Max(rows) => u \in rows
      BY <1>2, <3>1, ChunkSound
    <3>. HIDE DEF rows
    <3>3. /\ mig' \in MigRecord /\ mig'.pc = "collect" /\ mig'.after = Max(rows) /\ mig'.days = mig.days
          /\ mig'.day = d /\ mig'.errors = mig.errors /\ mig'.ids = mig.ids \cup rows
      BY <1>1, <1>2, <1>3, <1>5, <2>1, <3>1 DEF MigRecord
    <3>4. \A t \in RowsOf(warm, d) : t <= Max(rows) => t <= mig.after \/ t \in rows
      BY <1>2, <1>4, <3>2
    <3>5. InItsDay(mig', warm, cold, ex)
      BY <1>1, <1>2, <1>5, <3>3, <3>4 DEF InItsDay
    <3>6. OnItsWay(mig', warm, ex, aged)
      BY <1>2, <3>3 DEF OnItsWay
    <3>. QED  BY <3>3, <3>5, <3>6 DEF RunSound
  <2>2. CASE rows = {}
    <3>1. \A t \in RowsOf(warm, d) : t <= mig.after
      <4>1. \A t \in RowsOf(warm, d) : ~(t > mig.after)
        BY <1>2, <2>2, ChunkSound
      <4>. QED  BY <1>2, <1>4, <4>1
    <3>. HIDE DEF rows
    <3>2. d \in ex \/ RowsOf(warm, d) \subseteq mig.ids
      BY <1>1, <1>2, <3>1 DEF InItsDay
    <3>3. CASE mig.ids # {}
      <4>1. /\ mig' \in MigRecord /\ mig'.pc = "purge" /\ mig'.days = mig.days
            /\ mig'.day = d /\ mig'.errors = mig.errors /\ mig'.ids = mig.ids
        BY <1>2, <1>3, <2>2, <3>3 DEF MigRecord, MigPcs
      <4>2. InItsDay(mig', warm, cold, ex)
        BY <1>1, <1>2, <3>2, <4>1 DEF InItsDay
      <4>3. OnItsWay(mig', warm, ex, aged)
        BY <1>2, <4>1 DEF OnItsWay
      <4>. QED  BY <4>1, <4>2, <4>3 DEF RunSound
    <3>4. CASE mig.ids = {}
      <4>1. mig' = NextDay(mig) /\ Emptied(warm, ex, d)
        BY <1>3, <2>2, <3>2, <3>4 DEF Emptied
      <4>. QED  BY <1>2, <4>1, NextDaySound
    <3>. QED  BY <3>3, <3>4
  <2>. QED  BY <2>1, <2>2
<1>7. ColdTyped'
  BY <1>1, <1>6 DEF ColdInv, ColdTyped
<1>. QED  BY <1>1, <1>6, <1>7 DEF ColdInv, TablesSound

\* delete_traces(): what goes has its object, and the day is done with; or the
\* statement failed, and nothing more is purged in this run.
LEMMA PurgesKeeps ==
    ASSUME ColdAssumption, ColdInv, Purges
    PROVE  ColdInv'
<1>. DEFINE d == mig.day
            ex == late \cup big
<1>1. mig.pc = "purge" /\ UNCHANGED <<cold, aged, arrived, late, big>>
  BY DEF Purges
<1>2. /\ mig \in MigRecord /\ warm \in SUBSET Traces /\ d \in Days /\ mig.after \in Nat /\ mig.errors \in Nat
      /\ OnItsWay(mig, warm, ex, aged) /\ InItsDay(mig, warm, cold, ex)
  BY <1>1, Running
<1>3. CASE warm' = warm \ mig.ids /\ mig' = NextDay(mig)
  <2>1. \A e \in Days : Emptied(warm, ex, e) => Emptied(warm', ex, e)
    BY <1>3 DEF Emptied, RowsOf
  <2>2. /\ mig.errors = 0 /\ mig.ids \subseteq RowsOf(warm, d)
        /\ d \in ex \/ RowsOf(warm, d) \subseteq cold[d]
        /\ d \in ex \/ RowsOf(warm, d) \subseteq mig.ids
    BY <1>1, <1>2 DEF InItsDay
  <2>3. Emptied(warm', ex, d)
    BY <1>3, <2>2 DEF Emptied, RowsOf
  <2>4. OnItsWay(mig, warm', ex, aged)
    BY <1>2, <2>1 DEF OnItsWay
  <2>5. warm' \in SUBSET Traces
    BY <1>2, <1>3
  <2>6. mig' \in MigRecord /\ mig'.pc # "failed" /\ RunSound(mig', warm', cold, ex, aged)
    BY <1>2, <1>3, <2>3, <2>4, <2>5, NextDaySound
  <2>7. ColdTyped' /\ TablesSound'
    BY <1>1, <1>3, <2>6 DEF ColdInv, ColdTyped, TablesSound
  <2>8. ASSUME NEW t \in arrived \ warm' PROVE PurgedSound(t, warm', cold, ex, aged)
    <3>1. CASE t \notin warm
      <4>1. PurgedSound(t, warm, cold, ex, aged)
        BY <2>8, <3>1 DEF ColdInv
      <4>. QED  BY <2>1, <4>1 DEF PurgedSound
    <3>2. CASE t \in mig.ids
      <4>1. Day[t] = d /\ Covers(d, d) /\ (d \in ex \/ t \in cold[d])
        BY <2>2, <3>2 DEF RowsOf, Covers
      <4>2. Days \subseteq Nat \ {0}
        BY DEF Days, ColdAssumption
      <4>3. ASSUME NEW e \in Days, Covers(e, d) PROVE e \in aged /\ Emptied(warm', ex, e)
        <5>1. e = d \/ e < d
          BY <1>2, <4>2, <4>3 DEF Covers
        <5>2. d \in aged
          BY <1>2 DEF OnItsWay
        <5>3. e \in aged
          BY <1>2, <5>1, <5>2 DEF ColdInv, TablesSound
        <5>4. Emptied(warm', ex, e)
          BY <1>2, <2>1, <2>2, <2>3, <5>1 DEF OnItsWay
        <5>. QED  BY <5>3, <5>4
      <4>. QED  BY <1>2, <4>1, <4>3 DEF PurgedSound
    <3>. QED  BY <1>3, <2>8, <3>1, <3>2
  <2>. QED  BY <1>1, <2>6, <2>7, <2>8 DEF ColdInv
<1>4. CASE mig' = NextDay([mig EXCEPT !.errors = @ + 1]) /\ UNCHANGED warm
  <2>. DEFINE m == [mig EXCEPT !.errors = @ + 1]
  <2>1. m \in MigRecord /\ m.errors # 0 /\ m.days = mig.days /\ m.day = d
    BY <1>2 DEF MigRecord
  <2>2. mig' = NextDay(m)
    BY <1>4
  <2>. HIDE DEF m
  <2>3. OnItsWay(m, warm, ex, aged)
    BY <1>2, <2>1 DEF OnItsWay
  <2>4. mig' \in MigRecord /\ mig'.pc # "failed" /\ RunSound(mig', warm, cold, ex, aged)
    BY <1>2, <2>1, <2>2, <2>3, NextDaySound
  <2>5. ColdTyped'
    BY <1>1, <1>4, <2>4 DEF ColdInv, ColdTyped
  <2>. QED  BY <1>1, <1>4, <2>4, <2>5 DEF ColdInv, TablesSound
<1>. QED  BY <1>3, <1>4 DEF Purges

\* A run that dies leaves the tables as they are, or the prefix of its day wiped.
LEMMA RunDiesKeeps ==
    ASSUME ColdAssumption, ColdInv, RunDies
    PROVE  ColdInv'
<1>1. mig.pc # "idle" /\ mig' = NotRunningCold /\ UNCHANGED <<warm, aged, arrived, late, big>>
  BY DEF RunDies
<1>2. mig.day \in Days /\ mig.after \in Nat /\ warm \subseteq Traces
  BY <1>1, Running
<1>3. mig' \in MigRecord /\ mig'.pc = "idle"
  BY <1>1 DEF NotRunningCold, MigRecord, MigPcs
<1>4. cold' \in [Days -> SUBSET Traces]
      /\ \A t \in arrived \ warm : PurgedSound(t, warm, cold', late \cup big, aged)
  <2>1. CASE UNCHANGED cold
    BY <2>1 DEF ColdInv, ColdTyped
  <2>2. CASE /\ Chunk(mig.day, mig.after) # {}
             /\ cold' = [e \in Days |-> IF Covers(mig.day, e) THEN {} ELSE cold[e]]
    <3>1. RowsOf(warm, mig.day) # {}
      BY <1>2, <2>2, ChunkSound
    <3>2. \A e \in Days : ~Covers(mig.day, e) => cold'[e] = cold[e]
      BY <2>2
    <3>3. cold' \in [Days -> SUBSET Traces]
      BY <2>2 DEF ColdInv, ColdTyped
    <3>. QED  BY <1>2, <3>1, <3>2, <3>3, WipeExcused
  <2>. QED  BY <2>1, <2>2 DEF RunDies
<1>5. ColdTyped' /\ TablesSound'
  BY <1>1, <1>3, <1>4 DEF ColdInv, ColdTyped, TablesSound
<1>. QED  BY <1>1, <1>3, <1>4, <1>5 DEF ColdInv, RunSound

LEMMA ColdStep == ColdInv /\ [ColdNext]_coldVars => ColdInv'
<1>1. SUFFICES ASSUME ColdInv, ColdNext \/ UNCHANGED coldVars PROVE ColdInv'
  OBVIOUS
<1>2. CASE ColdNext
  BY <1>1, <1>2, ColdAssumption, ArrivesKeeps, DayAgesKeeps, ListsKeeps, MigratesKeeps, CollectsKeeps,
     PurgesKeeps, RunDiesKeeps DEF ColdNext
<1>3. CASE UNCHANGED coldVars
  BY <1>1, <1>3 DEF coldVars, ColdInv, ColdTyped, TablesSound
<1>. QED  BY <1>1, <1>2, <1>3

\* migrate_traces_to_cold(), for any traces, days and chunk size: failed uploads,
\* failed deletes, a run that dies between wipe and upload, and the order of the
\* partitions lose no trace; only rows that arrive late and days read in chunks do.
THEOREM ColdLossesExplained == ColdSpec => []ColdLossExplained
<1>1. ColdInit => ColdInv
  BY ColdAssumption, ColdStart
<1>2. ColdInv => ColdLossExplained
  BY DEF ColdInv, PurgedSound, ColdLossExplained, InATier
<1>. QED  BY <1>1, <1>2, ColdStep, PTL DEF ColdSpec

\* A run counts at most one error for each day it has left behind.
Behind(m) == {d \in m.days : d < m.day}
ErrorsWithin(m) == m.errors <= Cardinality(Behind(m))

LEMMA BehindFinite ==
    ASSUME NEW m \in MigRecord
    PROVE  /\ IsFiniteSet(Days) /\ IsFiniteSet(Behind(m)) /\ Cardinality(Behind(m)) \in Nat
           /\ Cardinality(Behind(m)) <= Cardinality(Days)
<1>1. IsFiniteSet(Traces)
  BY ColdAssumption DEF ColdAssumption
<1>2. IsFiniteSet(Days)
  <2>1. Day \in [Traces -> Days] /\ \A d \in Days : \E t \in Traces : Day[t] = d
    BY ColdAssumption DEF ColdAssumption, Days
  <2>2. Day \in Surjection(Traces, Days)
    BY <2>1 DEF Surjection
  <2>. QED  BY <1>1, <2>2, FS_Surjection
<1>3. Behind(m) \subseteq Days
  BY DEF Behind, MigRecord
<1>. QED  BY <1>2, <1>3, FS_Subset, FS_CardinalityType

LEMMA NextDayCounts ==
    ASSUME NEW m \in MigRecord, m.day \in m.days, m.errors <= Cardinality(Behind(m)) + 1
    PROVE  ErrorsWithin(NextDay(m))
<1>. DEFINE left == {d \in m.days : d > m.day}
            n == NextDay(m)
<1>1. Days \subseteq Nat
  BY ColdAssumption DEF Days, ColdAssumption
<1>2. CASE left = {}
  <2>1. n = NotRunningCold
    BY <1>2 DEF NextDay
  <2>2. n.errors = 0 /\ Behind(n) = {}
    BY <2>1 DEF NotRunningCold, Behind
  <2>3. Cardinality(Behind(n)) = 0
    BY <2>2, FS_EmptySet
  <2>. HIDE DEF n
  <2>4. n.errors <= Cardinality(Behind(n))
    BY <2>2, <2>3
  <2>. QED  BY <2>4 DEF ErrorsWithin, n
<1>3. CASE left # {}
  <2>. DEFINE k == Min(left)
  <2>1. left \subseteq Nat
    BY <1>1 DEF MigRecord
  <2>2. k \in left
    BY <1>3, <2>1, MinIsLeast
  <2>3. n = [m EXCEPT !.pc = "read", !.day = k, !.after = 0, !.ids = {}]
    BY <1>3 DEF NextDay
  <2>. HIDE DEF k, n
  <2>4. n \in MigRecord /\ n.day = k /\ n.days = m.days /\ n.errors = m.errors
    BY <2>2, <2>3 DEF MigRecord, MigPcs
  <2>5. Behind(m) \cup {m.day} \subseteq Behind(n) /\ m.day \notin Behind(m)
    <3>1. m.days \subseteq Nat /\ m.day \in Nat /\ k \in Nat /\ m.day < k
      BY <1>1, <2>2 DEF MigRecord
    <3>2. \A d \in m.days : d \in Behind(m) => d \in Behind(n)
      BY <2>4, <3>1 DEF Behind
    <3>3. m.day \in Behind(n) /\ m.day \notin Behind(m)
      BY <2>4, <3>1 DEF Behind
    <3>. QED  BY <3>2, <3>3 DEF Behind
  <2>6. Cardinality(Behind(m) \cup {m.day}) = Cardinality(Behind(m)) + 1
    BY <2>5, BehindFinite, FS_AddElement
  <2>7. Cardinality(Behind(m) \cup {m.day}) <= Cardinality(Behind(n))
    BY <2>4, <2>5, BehindFinite, FS_Subset
  <2>8. m.errors \in Nat /\ Cardinality(Behind(m)) \in Nat /\ Cardinality(Behind(n)) \in Nat
    BY <2>4, BehindFinite DEF MigRecord
  <2>9. n.errors <= Cardinality(Behind(n))
    BY <2>4, <2>6, <2>7, <2>8
  <2>. QED  BY <2>9 DEF ErrorsWithin, n
<1>. QED  BY <1>2, <1>3

LEMMA ErrorsStayCounted == ColdInv /\ ErrorsWithin(mig) /\ [ColdNext]_coldVars => ErrorsWithin(mig')
<1>. SUFFICES ASSUME ColdInv, ErrorsWithin(mig), [ColdNext]_coldVars PROVE ErrorsWithin(mig')
  OBVIOUS
<1>. DEFINE counted == [mig EXCEPT !.errors = @ + 1]
            failed == [mig EXCEPT !.errors = @ + 1, !.pc = "failed"]
<1>1. mig \in MigRecord /\ mig.errors \in Nat /\ Cardinality(Behind(mig)) \in Nat
  BY BehindFinite DEF ColdInv, ColdTyped, MigRecord
<1>2. mig.pc # "idle" => mig.day \in mig.days
  BY DEF ColdInv, RunSound, OnItsWay
<1>3. ErrorsWithin(NotRunningCold)
  BY FS_EmptySet DEF ErrorsWithin, Behind, NotRunningCold
<1>4. ASSUME mig'.errors = mig.errors, mig'.days = mig.days, mig'.day = mig.day PROVE ErrorsWithin(mig')
  BY <1>4 DEF ErrorsWithin, Behind
<1>5. mig.pc # "idle" => ErrorsWithin(NextDay(mig))
  BY <1>1, <1>2, NextDayCounts DEF ErrorsWithin
<1>6. mig.pc # "idle" => ErrorsWithin(NextDay(counted))
  <2>1. counted \in MigRecord /\ counted.days = mig.days /\ counted.day = mig.day /\ counted.errors = mig.errors + 1
    BY <1>1 DEF MigRecord
  <2>. HIDE DEF counted
  <2>2. Behind(counted) = Behind(mig)
    BY <2>1 DEF Behind
  <2>3. counted.errors <= Cardinality(Behind(counted)) + 1
    BY <1>1, <2>1, <2>2 DEF ErrorsWithin
  <2>. QED  BY <1>2, <2>1, <2>3, NextDayCounts
<1>7. mig.pc # "idle" => ErrorsWithin(PartitionRead(failed))
  <2>1. /\ failed \in MigRecord /\ failed.days = mig.days /\ failed.day = mig.day
        /\ failed.errors = mig.errors + 1
    <3>1. mig.errors + 1 \in Nat /\ "failed" \in MigPcs
      BY <1>1 DEF MigPcs
    <3>. QED  BY ONLY <1>1, <3>1 DEF MigRecord
  <2>. HIDE DEF failed
  <2>2. Behind(failed) = Behind(mig)
    BY <2>1 DEF Behind
  <2>3. failed.errors <= Cardinality(Behind(failed)) + 1 /\ failed.errors # 0
    BY <1>1, <2>1, <2>2 DEF ErrorsWithin
  <2>4. PartitionRead(failed) = NextDay(failed)
    BY <2>3 DEF PartitionRead, MayPurge
  <2>. QED  BY <1>2, <2>1, <2>3, <2>4, NextDayCounts
<1>8. CASE Lists
  <2>1. PICK days : mig' = [NotRunningCold EXCEPT !.pc = "read", !.days = days, !.day = Min(days)]
    BY <1>8 DEF Lists
  <2>2. mig'.errors = 0
    BY <2>1 DEF NotRunningCold
  <2>3. mig' \in MigRecord
    BY ColdStep DEF ColdInv, ColdTyped
  <2>. QED  BY <2>2, <2>3, BehindFinite DEF ErrorsWithin
<1>9. CASE Migrates
  <2>1. mig.pc = "read"
    BY <1>9 DEF Migrates
  <2>2. CASE mig' = PartitionRead(mig)
    <3>1. CASE mig' = [mig EXCEPT !.pc = "collect", !.after = 0]
      BY <1>1, <1>4, <3>1 DEF MigRecord
    <3>. QED  BY <1>5, <2>1, <2>2, <3>1 DEF PartitionRead
  <2>3. CASE \E a : mig' = [mig EXCEPT !.after = a]
    BY <1>1, <1>4, <2>3 DEF MigRecord
  <2>4. CASE mig' = PartitionRead(failed)
    BY <1>7, <2>1, <2>4
  <2>. QED  BY <1>9, <2>2, <2>3, <2>4 DEF Migrates
<1>10. CASE Collects
  <2>1. mig.pc = "collect"
    BY <1>10 DEF Collects
  <2>2. CASE mig' = NextDay(mig)
    BY <1>5, <2>1, <2>2
  <2>3. CASE (\E r, a : mig' = [mig EXCEPT !.ids = @ \cup r, !.after = a]) \/ mig' = [mig EXCEPT !.pc = "purge"]
    BY <1>1, <1>4, <2>3 DEF MigRecord
  <2>. QED  BY <1>10, <2>2, <2>3 DEF Collects
<1>11. CASE Purges
  BY <1>5, <1>6, <1>11 DEF Purges
<1>12. CASE RunDies
  BY <1>3, <1>12 DEF RunDies
<1>13. CASE UNCHANGED mig
  BY <1>13
<1>. QED  BY <1>8, <1>9, <1>10, <1>11, <1>12, <1>13 DEF ColdNext, Arrives, DayAges, coldVars

\* The tables keep their types, and a run counts no more errors than there are days: a
\* partition that failed is left, and so is one that could not be deleted.
THEOREM ColdTypesKept == ColdSpec => []ColdTypeOK
<1>. DEFINE Typed == ColdInv /\ ErrorsWithin(mig)
<1>1. ColdInit => Typed
  <2>1. ColdInit => ErrorsWithin(mig)
    BY FS_EmptySet DEF ColdInit, ErrorsWithin, Behind, NotRunningCold
  <2>. QED  BY <2>1, ColdAssumption, ColdStart
<1>2. Typed /\ [ColdNext]_coldVars => Typed'
  BY ColdStep, ErrorsStayCounted
<1>3. Typed => ColdTypeOK
  <2>. SUFFICES ASSUME Typed PROVE ColdTypeOK
    OBVIOUS
  <2>1. mig \in MigRecord
    BY DEF ColdInv, ColdTyped
  <2>2. mig.errors \in 0 .. Cardinality(Days)
    <3>1. Cardinality(Days) \in Nat /\ Cardinality(Behind(mig)) \in Nat
          /\ Cardinality(Behind(mig)) <= Cardinality(Days)
      BY <2>1, BehindFinite, FS_CardinalityType
    <3>. QED  BY <2>1, <3>1 DEF ErrorsWithin, MigRecord
  <2>. QED  BY <2>1, <2>2 DEF ColdInv, ColdTyped, ColdTypeOK, MigRecord, MigPcs
<1>. QED  BY <1>1, <1>2, <1>3, PTL DEF ColdSpec
-----------------------------------------------------------------------------
(* Cold-tier queries.  What a poll saw of a query that has ended stays true, *)
(* since Athena neither scans nor changes state any more.                    *)

AtPcs == AtOutcomes \cup {"builds", "starts", "polls", "acts", "stops_guard", "stops_timeout", "fetches"}
AtEnded == {"SUCCEEDED", "FAILED", "CANCELLED"}

AthenaTyped ==
  /\ atCall \in [pc : AtPcs, req : AtRequests, seen : Nat, state : AtLive \cup AtEnded \cup {"none"}, late : BOOLEAN,
                 page : Nat, rows : AtPages, stopFailed : BOOLEAN, counted : Nat]
  /\ atQuery \in [state : AtLive \cup AtEnded \cup {"none"}, scanned : 0 .. ScanMost, pages : AtAnswers]
  /\ atCall.seen <= atQuery.scanned

\* The first n pages, the header taken off.
Fetched(rows, n, pages) ==
  Len(rows) = n /\ \A i \in 1 .. n : rows[i] = IF i = 1 THEN Tail(pages[1]) ELSE pages[i]

AthenaInv ==
  /\ AthenaTyped
  /\ atCall.pc \in {"builds", "starts", "unsafe"} => atQuery.state = "none"
  /\ atCall.pc \in {"polls", "acts"} => atQuery.state # "none"
  /\ atCall.pc = "acts" => atCall.state # "none"
  /\ atCall.pc = "acts" /\ atCall.state \in AtEnded => atQuery.state = atCall.state /\ atCall.seen = atQuery.scanned
  /\ atCall.pc \in {"guard", "timeout"} => atCall.stopFailed \/ atQuery.state \notin AtLive
  /\ atCall.pc = "failed" => atQuery.state \in AtEnded
  /\ atCall.pc \in {"fetches", "rows"} =>
       /\ atQuery.state = "SUCCEEDED" /\ atCall.seen = atQuery.scanned /\ atQuery.scanned <= MaxScan
       /\ Fetched(atCall.rows, atCall.page, atQuery.pages)
  /\ atCall.pc = "fetches" => atCall.page < Len(atQuery.pages)
  /\ atCall.pc = "rows" => atCall.page = Len(atQuery.pages) /\ atCall.counted = atQuery.scanned
  /\ atCall.pc \in {"builds", "starts", "polls", "acts"} => atCall.page = 0 /\ atCall.rows = <<>>

LEMMA PagesSound ==
  ASSUME NEW pages \in AtAnswers
  PROVE  /\ pages \in AtPages /\ Len(pages) \in Nat \ {0} /\ Head(pages[1]) = Header
         /\ pages[1] \in Seq(STRING) /\ Tail(pages[1]) \in Seq(STRING) /\ pages[1] # <<>>
<1>1. pages \in Seq(Seq(STRING)) /\ pages # <<>> /\ pages[1] # <<>> /\ Head(pages[1]) = Header
  BY AthenaAssumption DEF AtPages
<1>2. Len(pages) \in Nat \ {0} /\ pages[1] \in Seq(STRING)
  BY <1>1
<1>3. Tail(pages[1]) \in Seq(STRING)
  <2>1. \A q \in Seq(STRING) : q # <<>> => Tail(q) \in Seq(STRING)
    OBVIOUS
  <2>. QED  BY <1>1, <1>2, <2>1
<1>. QED  BY <1>1, <1>2, <1>3 DEF AtPages

LEMMA AthenaInitSound == AthenaInit => AthenaInv
<1>. SUFFICES ASSUME AthenaInit PROVE AthenaInv
  OBVIOUS
<1>1. PICK r \in AtRequests :
        atCall = [pc |-> "builds", req |-> r, seen |-> 0, state |-> "none", late |-> FALSE,
                  page |-> 0, rows |-> <<>>, stopFailed |-> FALSE, counted |-> 0]
  BY DEF AthenaInit
<1>2. PICK pages \in AtAnswers : atQuery = [state |-> "none", scanned |-> 0, pages |-> pages]
  BY DEF AthenaInit
<1>3. <<>> \in AtPages /\ 0 \in 0 .. ScanMost /\ "builds" \in AtPcs
  BY AthenaAssumption DEF AtPages, AtPcs
<1>4. AthenaTyped
  BY <1>1, <1>2, <1>3 DEF AthenaTyped
<1>. QED  BY <1>1, <1>2, <1>4 DEF AthenaInv

\* A step of the client that changes pc, and nothing else that the invariant speaks of.
LEMMA AthenaFinally ==
  ASSUME AthenaInv, NEW o \in AtPcs
  PROVE  /\ Finally(o) \in [pc : AtPcs, req : AtRequests, seen : Nat, state : AtLive \cup AtEnded \cup {"none"},
                            late : BOOLEAN, page : Nat, rows : AtPages, stopFailed : BOOLEAN, counted : Nat]
         /\ Finally(o).pc = o /\ Finally(o).counted = atCall.seen /\ Finally(o).seen = atCall.seen
         /\ Finally(o).stopFailed = atCall.stopFailed /\ Finally(o).rows = atCall.rows
BY DEF AthenaInv, AthenaTyped, Finally

LEMMA CancelledSound ==
  ASSUME AthenaInv
  PROVE  /\ Cancelled(atQuery) \in [state : AtLive \cup AtEnded \cup {"none"}, scanned : 0 .. ScanMost, pages : AtAnswers]
         /\ Cancelled(atQuery).state \notin AtLive
         /\ Cancelled(atQuery).scanned = atQuery.scanned
BY DEF AthenaInv, AthenaTyped, Cancelled, AtLive, AtEnded

LEMMA AthenaRunsKeeps == AthenaInv /\ AthenaRuns => AthenaInv'
<1>. SUFFICES ASSUME AthenaInv, AthenaRuns PROVE AthenaInv'
  OBVIOUS
<1>0. atCall' = atCall /\ atQuery.state \in AtLive
  BY DEF AthenaRuns, AtLive
<1>1. /\ atQuery' \in [state : AtLive \cup AtEnded, scanned : 0 .. ScanMost, pages : AtAnswers]
      /\ atCall.seen <= atQuery'.scanned
  <2>. DEFINE T == [state : AtLive \cup AtEnded, scanned : 0 .. ScanMost, pages : AtAnswers]
  <2>1. atQuery \in T /\ atCall.seen \in Nat /\ atCall.seen <= atQuery.scanned /\ atQuery.scanned \in 0 .. ScanMost
    BY <1>0 DEF AthenaInv, AthenaTyped
  <2>2. CASE \/ atQuery.state = "QUEUED" /\ atQuery' = [atQuery EXCEPT !.state = "RUNNING"]
             \/ atQuery.state = "RUNNING" /\ \E s \in {"SUCCEEDED", "FAILED"} : atQuery' = [atQuery EXCEPT !.state = s]
             \/ atQuery.state \in AtLive /\ atQuery' = Cancelled(atQuery)
    BY <2>1, <2>2 DEF Cancelled, AtLive, AtEnded
  <2>3. CASE atQuery.state = "RUNNING" /\ atQuery.scanned < ScanMost /\ atQuery' = [atQuery EXCEPT !.scanned = @ + 1]
    <3>. DEFINE n == atQuery.scanned + 1
    <3>1. n \in 0 .. ScanMost /\ atCall.seen <= n
      BY <2>1, <2>3, AthenaAssumption
    <3>2. atQuery' = [atQuery EXCEPT !.scanned = n]
      BY <2>3
    <3>. HIDE DEF n
    <3>. QED  BY <2>1, <3>1, <3>2
  <2>. QED  BY <2>2, <2>3 DEF AthenaRuns
<1>2. AthenaTyped'
  BY <1>0, <1>1 DEF AthenaInv, AthenaTyped
<1>3. \/ atCall.pc \in {"polls", "acts", "stops_guard", "stops_timeout", "error", "cancelled"}
      \/ atCall.pc \in {"guard", "timeout"} /\ atCall.stopFailed
  BY <1>0 DEF AthenaInv, AthenaTyped, AtPcs, AtOutcomes, AtLive, AtEnded
<1>4. ~(atCall.pc = "acts" /\ atCall.state \in AtEnded)
  BY <1>0 DEF AthenaInv, AtLive, AtEnded
<1>. QED  BY <1>0, <1>1, <1>2, <1>3, <1>4 DEF AthenaInv, AtLive, AtEnded

LEMMA FetchPageKeeps == AthenaInv /\ FetchPage => AthenaInv'
<1>. SUFFICES ASSUME AthenaInv, FetchPage PROVE AthenaInv'
  OBVIOUS
<1>. DEFINE n == atCall.page + 1
            pages == atQuery.pages
            last == n = Len(pages)
            page == DataRows(pages[n])
            rows == Append(atCall.rows, page)
<1>1. /\ atCall.pc = "fetches" /\ UNCHANGED atQuery
      /\ last => atCall' = [Finally("rows") EXCEPT !.page = n, !.rows = rows]
      /\ ~last => atCall' = [atCall EXCEPT !.page = n, !.rows = rows]
  <2>1. Finally("rows").rows = atCall.rows
    BY AthenaFinally DEF AtPcs, AtOutcomes
  <2>2. /\ atCall.pc = "fetches" /\ UNCHANGED atQuery
        /\ atCall' = [(IF last THEN Finally("rows") ELSE atCall) EXCEPT !.page = n, !.rows = Append(@, page)]
    BY DEF FetchPage
  <2>. HIDE DEF last, n, page
  <2>3. CASE last
    <3>1. atCall' = [Finally("rows") EXCEPT !.page = n, !.rows = Append(@, page)]
      BY <2>2, <2>3
    <3>. QED  BY <2>1, <2>2, <2>3, <3>1
  <2>4. CASE ~last
    BY <2>2, <2>4
  <2>. QED  BY <2>3, <2>4
<1>2. /\ atCall.page \in Nat /\ n \in Nat /\ atCall.rows \in AtPages /\ pages \in AtAnswers
      /\ atCall.page < Len(pages) /\ Fetched(atCall.rows, atCall.page, pages)
  BY <1>1 DEF AthenaInv, AthenaTyped
<1>3. n \in 1 .. Len(pages) /\ pages[n] \in Seq(STRING) /\ Len(pages) \in Nat
  BY <1>2, PagesSound DEF AtPages
<1>4. page = (IF n = 1 THEN Tail(pages[1]) ELSE pages[n]) /\ page \in Seq(STRING)
  <2>1. CASE n = 1
    BY <1>2, <2>1, PagesSound DEF DataRows
  <2>2. CASE n # 1
    BY <1>2, <1>3, <2>2 DEF DataRows
  <2>. QED  BY <2>1, <2>2
<1>. HIDE DEF page
<1>5. rows \in AtPages /\ Fetched(rows, n, pages)
  <2>1. atCall.rows \in Seq(Seq(STRING)) /\ Len(atCall.rows) = atCall.page
    BY <1>2 DEF AtPages, Fetched
  <2>2. /\ rows \in Seq(Seq(STRING)) /\ Len(rows) = n /\ rows[n] = page
        /\ \A i \in 1 .. atCall.page : rows[i] = atCall.rows[i]
    BY <1>2, <1>4, <2>1
  <2>3. ASSUME NEW i \in 1 .. n PROVE rows[i] = IF i = 1 THEN Tail(pages[1]) ELSE pages[i]
    <3>1. CASE i = n
      BY <1>4, <2>2, <3>1
    <3>2. CASE i # n
      <4>1. i \in 1 .. atCall.page
        BY <1>2, <3>2
      <4>. QED  BY <1>2, <2>2, <4>1 DEF Fetched
    <3>. QED  BY <3>1, <3>2
  <2>. QED  BY <2>2, <2>3 DEF AtPages, Fetched
<1>. HIDE DEF rows
<1>6. /\ atQuery.state = "SUCCEEDED" /\ atCall.seen = atQuery.scanned /\ atQuery.scanned <= MaxScan
  BY <1>1 DEF AthenaInv
<1>7. CASE last
  <2>1. atCall' = [Finally("rows") EXCEPT !.page = n, !.rows = rows]
    BY <1>1, <1>7
  <2>2. "rows" \in AtPcs
    BY DEF AtPcs, AtOutcomes
  <2>3. /\ atCall' \in [pc : {"rows"}, req : AtRequests, seen : Nat, state : AtLive \cup AtEnded \cup {"none"},
                        late : BOOLEAN, page : Nat, rows : AtPages, stopFailed : BOOLEAN, counted : Nat]
        /\ atCall'.page = n /\ atCall'.rows = rows /\ atCall'.seen = atCall.seen /\ atCall'.counted = atCall.seen
    <3>. DEFINE f == Finally("rows")
    <3>1. /\ f \in [pc : AtPcs, req : AtRequests, seen : Nat, state : AtLive \cup AtEnded \cup {"none"},
                     late : BOOLEAN, page : Nat, rows : AtPages, stopFailed : BOOLEAN, counted : Nat]
          /\ f.pc = "rows" /\ f.seen = atCall.seen /\ f.counted = atCall.seen
      BY <2>2, AthenaFinally
    <3>. HIDE DEF f, n
    <3>2. atCall' = [f EXCEPT !.page = n, !.rows = rows]
      BY <2>1 DEF f
    <3>. QED  BY ONLY <1>2, <1>5, <3>1, <3>2
  <2>4. AthenaTyped'
    BY <1>1, <2>2, <2>3 DEF AthenaInv, AthenaTyped
  <2>. QED  BY <1>1, <1>5, <1>6, <1>7, <2>3, <2>4 DEF AthenaInv
<1>8. CASE ~last
  <2>1. atCall' = [atCall EXCEPT !.page = n, !.rows = rows]
    BY <1>1, <1>8
  <2>2. "fetches" \in AtPcs
    BY DEF AtPcs
  <2>3. /\ atCall' \in [pc : {"fetches"}, req : AtRequests, seen : Nat, state : AtLive \cup AtEnded \cup {"none"},
                        late : BOOLEAN, page : Nat, rows : AtPages, stopFailed : BOOLEAN, counted : Nat]
        /\ atCall'.page = n /\ atCall'.rows = rows /\ atCall'.seen = atCall.seen
    BY <1>1, <1>2, <1>5, <2>1 DEF AthenaInv, AthenaTyped
  <2>4. AthenaTyped'
    BY <1>1, <2>2, <2>3 DEF AthenaInv, AthenaTyped
  <2>5. n < Len(pages)
    BY <1>3, <1>8
  <2>. QED  BY <1>1, <1>5, <1>6, <2>3, <2>4, <2>5 DEF AthenaInv
<1>. QED  BY <1>7, <1>8

LEMMA AthenaStepSound == AthenaInv /\ [AthenaNext]_athenaVars => AthenaInv'
<1>. SUFFICES ASSUME AthenaInv, [AthenaNext]_athenaVars PROVE AthenaInv'
  OBVIOUS
<1>. DEFINE C == [pc : AtPcs, req : AtRequests, seen : Nat, state : AtLive \cup AtEnded \cup {"none"}, late : BOOLEAN,
                  page : Nat, rows : AtPages, stopFailed : BOOLEAN, counted : Nat]
            Q == [state : AtLive \cup AtEnded \cup {"none"}, scanned : 0 .. ScanMost, pages : AtAnswers]
<1>0. atCall \in C /\ atQuery \in Q /\ atCall.seen <= atQuery.scanned /\ AtOutcomes \subseteq AtPcs
      /\ {"builds", "starts", "polls", "acts", "stops_guard", "stops_timeout", "fetches"} \subseteq AtPcs
  BY DEF AthenaInv, AthenaTyped, AtPcs
<1>1. CASE BuildSql
  <2>1. /\ atCall' \in C /\ atCall'.pc \in {"unsafe", "starts"} /\ atCall'.seen = atCall.seen /\ UNCHANGED atQuery
        /\ atCall'.page = atCall.page /\ atCall'.rows = atCall.rows /\ atQuery.state = "none" /\ atCall.pc = "builds"
    BY <1>0, <1>1 DEF BuildSql, AtOutcomes, AthenaInv
  <2>. QED  BY <1>0, <2>1 DEF AthenaInv, AthenaTyped
<1>2. CASE StartQuery
  <2>1. PICK o \in {"polls", "error", "cancelled"} :
          /\ atCall' = [atCall EXCEPT !.pc = o]
          /\ atQuery' = IF o = "error" THEN atQuery ELSE [atQuery EXCEPT !.state = "QUEUED"]
    BY <1>2 DEF StartQuery
  <2>2. /\ atCall' \in C /\ atCall'.pc = o /\ atCall'.seen = atCall.seen
        /\ atCall'.page = atCall.page /\ atCall'.rows = atCall.rows /\ atCall.pc = "starts"
    BY <1>0, <1>2, <2>1 DEF StartQuery, AtOutcomes
  <2>3. atQuery' \in Q /\ atQuery'.scanned = atQuery.scanned /\ (o = "polls" => atQuery'.state # "none")
    BY <1>0, <2>1 DEF AtLive
  <2>. QED  BY <1>0, <2>2, <2>3 DEF AthenaInv, AthenaTyped
<1>3. CASE DeadlinePasses
  <2>1. atCall' = [atCall EXCEPT !.late = TRUE] /\ UNCHANGED atQuery
    BY <1>3 DEF DeadlinePasses
  <2>2. /\ atCall' \in C /\ atCall'.pc = atCall.pc /\ atCall'.seen = atCall.seen /\ atCall'.state = atCall.state
        /\ atCall'.page = atCall.page /\ atCall'.rows = atCall.rows /\ atCall'.stopFailed = atCall.stopFailed
        /\ atCall'.counted = atCall.counted
    BY <1>0, <2>1
  <2>. QED  BY <1>0, <2>1, <2>2 DEF AthenaInv, AthenaTyped
<1>4. CASE Poll
  <2>. DEFINE m == IF atQuery.scanned > atCall.seen THEN atQuery.scanned ELSE atCall.seen
  <2>1. atCall' = [atCall EXCEPT !.pc = "acts", !.state = atQuery.state, !.seen = m] /\ UNCHANGED atQuery /\ atCall.pc = "polls"
    BY <1>4 DEF Poll
  <2>2. m = atQuery.scanned /\ m \in Nat
    BY <1>0
  <2>. HIDE DEF m
  <2>3. /\ atCall' \in C /\ atCall'.pc = "acts" /\ atCall'.seen = m /\ atCall'.state = atQuery.state
        /\ atCall'.page = atCall.page /\ atCall'.rows = atCall.rows
    BY <1>0, <2>1, <2>2
  <2>4. AthenaTyped'
    BY <1>0, <2>1, <2>2, <2>3 DEF AthenaTyped
  <2>. QED  BY <2>1, <2>2, <2>3, <2>4 DEF AthenaInv
<1>5. CASE Acts
  <2>. DEFINE v == Verdict(atCall)
  <2>0. atCall.pc = "acts" /\ UNCHANGED atQuery /\ atCall' = IF v = "failed" THEN Finally("failed") ELSE [atCall EXCEPT !.pc = v]
    BY <1>5 DEF Acts
  <2>1. /\ v \in {"stops_guard", "stops_timeout", "polls", "fetches", "failed"}
        /\ v = "fetches" => atCall.state = "SUCCEEDED" /\ atCall.seen <= MaxScan
        /\ v = "failed" => atCall.state \in {"FAILED", "CANCELLED"}
    <3>1. atCall.state \in AtLive \cup AtEnded /\ atCall.seen \in Nat
      BY <1>0, <2>0 DEF AthenaInv
    <3>2. CASE atCall.seen > MaxScan
      <4>1. v = "stops_guard"
        BY <3>1, <3>2, AthenaAssumption DEF Verdict
      <4>. QED  BY <4>1
    <3>3. CASE ~(atCall.seen > MaxScan)
      <4>1. atCall.seen <= MaxScan
        BY <3>1, <3>3, AthenaAssumption
      <4>. QED  BY <3>1, <3>3, <4>1 DEF Verdict, AtLive, AtEnded
    <3>. QED  BY <3>2, <3>3
  <2>. HIDE DEF v
  <2>2. CASE v = "failed"
    <3>1. atCall' = Finally("failed")
      BY <2>0, <2>2
    <3>2. "failed" \in AtPcs /\ atQuery.state \in AtEnded
      BY <2>0, <2>1, <2>2 DEF AthenaInv, AtPcs, AtOutcomes, AtEnded
    <3>3. atCall' \in C /\ atCall'.pc = "failed" /\ atCall'.seen = atCall.seen
      BY <3>1, <3>2, AthenaFinally
    <3>. QED  BY <1>0, <2>0, <3>2, <3>3 DEF AthenaInv, AthenaTyped
  <2>3. CASE v # "failed"
    <3>1. /\ atCall' \in C /\ atCall'.pc = v /\ atCall'.seen = atCall.seen
          /\ atCall'.page = atCall.page /\ atCall'.rows = atCall.rows
      BY <1>0, <2>0, <2>1, <2>3
    <3>2. CASE v = "fetches"
      <4>1. atQuery.state = "SUCCEEDED" /\ atCall.seen = atQuery.scanned /\ atCall.page = 0 /\ atCall.rows = <<>>
        BY <2>0, <2>1, <3>2 DEF AthenaInv, AtEnded
      <4>2. Len(atQuery.pages) > 0 /\ Fetched(atCall.rows, atCall.page, atQuery.pages)
        BY <1>0, <4>1, PagesSound DEF Fetched
      <4>. QED  BY <1>0, <2>0, <2>1, <3>1, <3>2, <4>1, <4>2 DEF AthenaInv, AthenaTyped
    <3>3. CASE v # "fetches"
      BY <1>0, <2>0, <2>1, <2>3, <3>1, <3>3 DEF AthenaInv, AthenaTyped
    <3>. QED  BY <3>2, <3>3
  <2>. QED  BY <2>2, <2>3
<1>6. CASE StopQuery
  <2>. DEFINE o == IF atCall.pc = "stops_guard" THEN "guard" ELSE "timeout"
  <2>1. PICK failed \in BOOLEAN :
          /\ atCall' = [Finally(o) EXCEPT !.stopFailed = failed]
          /\ atQuery' = IF failed THEN atQuery ELSE Cancelled(atQuery)
    BY <1>6 DEF StopQuery
  <2>2. o \in {"guard", "timeout"} /\ o \in AtPcs
    BY DEF AtPcs, AtOutcomes
  <2>. HIDE DEF o
  <2>3. atCall' \in C /\ atCall'.pc = o /\ atCall'.stopFailed = failed /\ atCall'.seen = atCall.seen
    BY <2>1, <2>2, AthenaFinally
  <2>4. atQuery' \in Q /\ atQuery'.scanned = atQuery.scanned /\ (failed \/ atQuery'.state \notin AtLive)
    BY <1>0, <2>1, CancelledSound
  <2>. QED  BY <1>0, <2>2, <2>3, <2>4 DEF AthenaInv, AthenaTyped
<1>7. CASE CallRaises \/ CallerCancelled
  <2>1. PICK o \in {"error", "cancelled"} : atCall' = Finally(o) /\ (atQuery' = atQuery \/ atQuery' = Cancelled(atQuery))
    BY <1>7 DEF CallRaises, CallerCancelled
  <2>2. o \in AtPcs
    BY DEF AtPcs, AtOutcomes
  <2>3. atCall' \in C /\ atCall'.pc = o /\ atCall'.seen = atCall.seen
    BY <2>1, <2>2, AthenaFinally
  <2>4. atQuery' \in Q /\ atQuery'.scanned = atQuery.scanned
    BY <1>0, <2>1, CancelledSound
  <2>. QED  BY <1>0, <2>3, <2>4 DEF AthenaInv, AthenaTyped
<1>8. CASE UNCHANGED athenaVars
  BY <1>8 DEF athenaVars, AthenaInv, AthenaTyped
<1>. QED  BY <1>1, <1>2, <1>3, <1>4, <1>5, <1>6, <1>7, <1>8, AthenaRunsKeeps, FetchPageKeeps DEF AthenaNext

\* A cold-tier query, for any guard, result and moment at which Athena ends, is stopped, a
\* call raises or the caller is cancelled: neither the guard nor the timeout leaves it
\* running, and rows are returned complete, without the header, within the guard and with
\* the bytes billed counted (storage/athena_client.py).
THEOREM ColdQuerySafety == AthenaSpec => [](ColdQuerySafe /\ AthenaTypeOK)
<1>1. AthenaInv => ColdQuerySafe /\ AthenaTypeOK
  <2>. SUFFICES ASSUME AthenaInv PROVE ColdQuerySafe /\ AthenaTypeOK
    OBVIOUS
  <2>1. NoQueryLeftRunning
    BY DEF AthenaInv, NoQueryLeftRunning, AtOutcomes, AtLive, AtEnded
  <2>2. RowsComplete
    <3>. SUFFICES ASSUME atCall.pc = "rows" PROVE RowsComplete
      BY DEF RowsComplete
    <3>. DEFINE pages == atQuery.pages
                data == [pages EXCEPT ![1] = Tail(@)]
    <3>1. /\ atQuery.scanned <= MaxScan /\ atCall.counted = atQuery.scanned /\ atCall.rows \in Seq(Seq(STRING))
          /\ Len(atCall.rows) = Len(pages) /\ pages \in AtAnswers
          /\ \A i \in 1 .. Len(pages) : atCall.rows[i] = IF i = 1 THEN Tail(pages[1]) ELSE pages[i]
      BY DEF AthenaInv, AthenaTyped, Fetched, AtPages
    <3>2. pages \in Seq(Seq(STRING)) /\ Len(pages) \in Nat \ {0} /\ Head(pages[1]) = Header /\ Tail(pages[1]) \in Seq(STRING)
      BY <3>1, PagesSound DEF AtPages
    <3>. HIDE DEF pages
    <3>3. /\ data \in Seq(Seq(STRING)) /\ Len(data) = Len(pages)
          /\ \A i \in 1 .. Len(pages) : data[i] = IF i = 1 THEN Tail(pages[1]) ELSE pages[i]
      BY <3>2
    <3>. HIDE DEF data
    <3>4. atCall.rows = data
      BY <3>1, <3>3
    <3>. QED  BY <3>1, <3>2, <3>4 DEF RowsComplete, data, pages
  <2>3. AthenaTypeOK
    <3>1. atCall.seen \in 0 .. atQuery.scanned
      BY DEF AthenaInv, AthenaTyped
    <3>. QED  BY <3>1 DEF AthenaInv, AthenaTyped, AthenaTypeOK, AtPcs, AtEnded
  <2>. QED  BY <2>1, <2>2, <2>3 DEF ColdQuerySafe
<1>. QED  BY <1>1, AthenaInitSound, AthenaStepSound, PTL DEF AthenaSpec
-----------------------------------------------------------------------------
(* The embedding queue.  An embedding is in one place: the queue, the worker's *)
(* hands or ClickHouse; so what one insert adds to the table is as much as it  *)
(* adds to the count.  Splitting the error-rate window splits its errors.      *)

\* A sequence cut after its n-th element.
LEMMA SplitAt ==
  ASSUME NEW S, NEW s \in Seq(S), NEW n \in 0 .. Len(s)
  PROVE  /\ SubSeq(s, 1, n) \in Seq(S) /\ Len(SubSeq(s, 1, n)) = n
         /\ \A i \in 1 .. n : SubSeq(s, 1, n)[i] = s[i]
         /\ SubSeq(s, n + 1, Len(s)) \in Seq(S) /\ Len(SubSeq(s, n + 1, Len(s))) = Len(s) - n
         /\ \A i \in 1 .. Len(s) - n : SubSeq(s, n + 1, Len(s))[i] = s[i + n]
<1>1. Len(s) \in Nat /\ n \in Nat /\ n <= Len(s) /\ \A i \in 1 .. Len(s) : s[i] \in S
  OBVIOUS
<1>. DEFINE a == SubSeq(s, 1, n)
            b == SubSeq(s, n + 1, Len(s))
<1>2. a \in Seq(S) /\ Len(a) = (IF 1 <= n THEN n - 1 + 1 ELSE 0) /\ \A i \in 1 .. n - 1 + 1 : a[i] = s[1 + i - 1]
  BY <1>1, SubSeqProperties
<1>3. /\ b \in Seq(S) /\ Len(b) = IF n + 1 <= Len(s) THEN Len(s) - (n + 1) + 1 ELSE 0
      /\ \A i \in 1 .. Len(s) - (n + 1) + 1 : b[i] = s[n + 1 + i - 1]
  <2>1. \A i \in n + 1 .. Len(s) : s[i] \in S
    BY <1>1
  <2>. QED  BY <1>1, <2>1, SubSeqProperties
<1>. HIDE DEF a, b
<1>4. Len(a) = n /\ Len(b) = Len(s) - n
  BY <1>1, <1>2, <1>3
<1>5. \A i \in 1 .. n : a[i] = s[i]
  <2>1. \A i \in 1 .. n : i \in 1 .. n - 1 + 1 /\ 1 + i - 1 = i
    BY <1>1
  <2>. QED  BY <1>2, <2>1
<1>6. \A i \in 1 .. Len(s) - n : b[i] = s[i + n]
  <2>1. \A i \in 1 .. Len(s) - n : i \in 1 .. Len(s) - (n + 1) + 1 /\ n + 1 + i - 1 = i + n
    BY <1>1
  <2>. QED  BY <1>3, <2>1
<1>. QED  BY <1>2, <1>3, <1>4, <1>5, <1>6 DEF a, b

EsEntry == [at : Nat, error : BOOLEAN]

LEMMA ErrorsCounted ==
  ASSUME NEW w \in Seq(EsEntry)
  PROVE  /\ IsFiniteSet({i \in DOMAIN w : w[i].error}) /\ ErrorsIn(w) \in Nat /\ ErrorsIn(w) <= Len(w)
<1>0. Len(w) \in Nat
  OBVIOUS
<1>1. IsFiniteSet(1 .. Len(w)) /\ Cardinality(1 .. Len(w)) = Len(w)
  BY <1>0, FS_Interval
<1>2. {i \in DOMAIN w : w[i].error} \in SUBSET (1 .. Len(w))
  OBVIOUS
<1>3. IsFiniteSet({i \in DOMAIN w : w[i].error})
  BY <1>1, <1>2, FS_Subset
<1>4. Cardinality({i \in DOMAIN w : w[i].error}) <= Cardinality(1 .. Len(w))
  BY <1>1, <1>2, FS_Subset
<1>. QED  BY <1>1, <1>3, <1>4, FS_CardinalityType DEF ErrorsIn

LEMMA ErrorsAppended ==
  ASSUME NEW w \in Seq(EsEntry), NEW e \in EsEntry
  PROVE  ErrorsIn(Append(w, e)) = ErrorsIn(w) + (IF e.error THEN 1 ELSE 0)
<1>. DEFINE S == {i \in DOMAIN w : w[i].error}
            T == {i \in DOMAIN Append(w, e) : Append(w, e)[i].error}
            n == Len(w) + 1
<1>1. IsFiniteSet(S) /\ Cardinality(S) \in Nat
  BY ErrorsCounted, FS_CardinalityType
<1>2. n \notin S
  OBVIOUS
<1>3. T = IF e.error THEN S \cup {n} ELSE S
  <2>1. DOMAIN Append(w, e) = 1 .. n /\ DOMAIN w = 1 .. Len(w) /\ Len(w) \in Nat
    OBVIOUS
  <2>2. \A i \in 1 .. n : Append(w, e)[i] = IF i = n THEN e ELSE w[i]
    OBVIOUS
  <2>. QED  BY <2>1, <2>2
<1>4. ErrorsIn(w) = Cardinality(S) /\ ErrorsIn(Append(w, e)) = Cardinality(T)
  BY DEF ErrorsIn
<1>. HIDE DEF S, T, n
<1>5. Cardinality(S \cup {n}) = Cardinality(S) + 1
  BY <1>1, <1>2, FS_AddElement
<1>. QED  BY <1>1, <1>3, <1>4, <1>5

LEMMA ErrorsSplit ==
  ASSUME NEW w \in Seq(EsEntry), NEW n \in 0 .. Len(w)
  PROVE  /\ SubSeq(w, 1, n) \in Seq(EsEntry) /\ SubSeq(w, n + 1, Len(w)) \in Seq(EsEntry)
         /\ Len(SubSeq(w, n + 1, Len(w))) = Len(w) - n
         /\ ErrorsIn(w) = ErrorsIn(SubSeq(w, 1, n)) + ErrorsIn(SubSeq(w, n + 1, Len(w)))
<1>. DEFINE a == SubSeq(w, 1, n)
            b == SubSeq(w, n + 1, Len(w))
            W == {i \in DOMAIN w : w[i].error}
            A == {i \in DOMAIN a : a[i].error}
            B == {i \in DOMAIN b : b[i].error}
            C == {i \in n + 1 .. Len(w) : w[i].error}
            g == [i \in B |-> i + n]
<1>0. Len(w) \in Nat /\ n \in Nat /\ DOMAIN w = 1 .. Len(w)
  OBVIOUS
<1>1. a \in Seq(EsEntry) /\ Len(a) = n /\ \A i \in 1 .. n : a[i] = w[i]
  BY SplitAt
<1>2. b \in Seq(EsEntry) /\ Len(b) = Len(w) - n /\ \A i \in 1 .. Len(w) - n : b[i] = w[i + n]
  BY SplitAt
<1>d. DOMAIN a = 1 .. n /\ DOMAIN b = 1 .. Len(w) - n
  BY <1>1, <1>2
<1>. HIDE DEF a, b
<1>3. W = A \cup C /\ A \cap C = {}
  BY <1>0, <1>1, <1>d
<1>4. IsFiniteSet(W) /\ IsFiniteSet(A) /\ IsFiniteSet(B) /\ IsFiniteSet(C)
  <2>1. IsFiniteSet(W) /\ IsFiniteSet(A) /\ IsFiniteSet(B)
    BY <1>1, <1>2, ErrorsCounted
  <2>2. C \in SUBSET W
    BY <1>3
  <2>. HIDE DEF C, W
  <2>3. IsFiniteSet(C)
    BY <2>1, <2>2, FS_Subset
  <2>. QED  BY <2>1, <2>3
<1>5. g \in Bijection(B, C)
  <2>1. \A i \in B : i \in Int /\ g[i] = i + n /\ i + n \in C
    BY <1>0, <1>2, <1>d
  <2>2. ASSUME NEW j \in C PROVE j - n \in B /\ g[j - n] = j
    <3>1. j - n \in 1 .. Len(w) - n /\ (j - n) + n = j
      BY <1>0
    <3>2. j - n \in B
      BY <1>2, <1>d, <3>1
    <3>. QED  BY <3>1, <3>2
  <2>3. g \in [B -> C]
    BY <2>1
  <2>5. \A i, j \in B : g[i] = g[j] => i = j
    BY <1>0, <2>1
  <2>4. \A t \in C : \E s \in B : g[s] = t
    BY <2>2
  <2>. HIDE DEF g, B, C
  <2>6. DOMAIN g = B
    BY <2>3
  <2>. QED  BY <2>3, <2>4, <2>5, <2>6 DEF Bijection, Injection, Surjection, IsInjective
<1>6. Cardinality(C) = Cardinality(B)
  <2>1. ExistsBijection(B, C)
    BY <1>5 DEF ExistsBijection
  <2>. HIDE DEF B, C
  <2>. QED  BY <1>4, <2>1, FS_Bijection
<1>7. Cardinality(W) = Cardinality(A) + Cardinality(C)
  <2>. HIDE DEF W, A, C
  <2>1. Cardinality(A \cup C) = Cardinality(A) + Cardinality(C) - Cardinality({})
    BY <1>3, <1>4, FS_Union
  <2>2. Cardinality(A) \in Nat /\ Cardinality(C) \in Nat /\ Cardinality({}) = 0
    BY <1>4, FS_CardinalityType, FS_EmptySet
  <2>. QED  BY <1>3, <2>1, <2>2
<1>8. ErrorsIn(w) = Cardinality(W) /\ ErrorsIn(a) = Cardinality(A) /\ ErrorsIn(b) = Cardinality(B)
  BY DEF ErrorsIn
<1>. QED  BY <1>1, <1>2, <1>6, <1>7, <1>8 DEF a, b

RateType == [window : Seq(EsEntry), errors : Nat, tracked : Nat, now : Nat]

\* One more span: the counts stay those of the window.
LEMMA ErrorRateKept ==
  ASSUME NEW r \in RateType, NEW error \in BOOLEAN, r.tracked = Len(r.window), r.errors = ErrorsIn(r.window)
  PROVE  LET q == ErrorRateOf(r, error)
         IN  q \in RateType /\ q.tracked = Len(q.window) /\ q.errors = ErrorsIn(q.window)
<1>. DEFINE e == [at |-> r.now, error |-> error]
            w == Append(r.window, e)
            n == Expired(w, r.now)
            kept == SubSeq(w, n + 1, Len(w))
            gone == SubSeq(w, 1, n)
            tracked == r.tracked + 1 - n
            errors == r.errors + (IF error THEN 1 ELSE 0) - ErrorsIn(gone)
            chosen == IF tracked = Len(kept) THEN errors ELSE ErrorsIn(kept)
<1>1. r.window \in Seq(EsEntry) /\ e \in EsEntry /\ r.now \in Nat /\ e.error = error
  BY DEF RateType, EsEntry
<1>2. w \in Seq(EsEntry) /\ Len(w) = Len(r.window) + 1 /\ Len(r.window) \in Nat
  BY <1>1
<1>3. n \in 0 .. Len(w)
  <2>. DEFINE D == {i \in 0 .. Len(w) : i = Len(w) \/ w[i + 1].at + EsWindow >= r.now}
  <2>1. D \in SUBSET Nat /\ Len(w) \in D
    BY <1>2
  <2>2. n = Min(D)
    BY DEF Expired
  <2>3. Min(D) \in D
    <3>. HIDE DEF D
    <3>. QED  BY <2>1, MinIsLeast
  <2>4. Min(D) \in 0 .. Len(w)
    BY <2>3
  <2>. HIDE DEF D, n
  <2>. QED  BY <2>2, <2>4
<1>4. ErrorsIn(w) = r.errors + (IF error THEN 1 ELSE 0)
  BY <1>1, ErrorsAppended
<1>. HIDE DEF n, w, e
<1>5. /\ gone \in Seq(EsEntry) /\ kept \in Seq(EsEntry) /\ Len(kept) = Len(w) - n
      /\ ErrorsIn(w) = ErrorsIn(gone) + ErrorsIn(kept)
  BY <1>2, <1>3, ErrorsSplit
<1>. HIDE DEF gone, kept
<1>6. /\ ErrorsIn(gone) \in Nat /\ ErrorsIn(kept) \in Nat /\ ErrorsIn(kept) <= Len(kept) /\ Len(kept) \in Nat
  <2>1. Len(kept) \in Nat
    BY <1>5
  <2>2. ErrorsIn(gone) \in Nat
    BY <1>5, ErrorsCounted
  <2>3. ErrorsIn(kept) \in Nat /\ ErrorsIn(kept) <= Len(kept)
    BY <1>5, ErrorsCounted
  <2>. QED  BY <2>1, <2>2, <2>3
<1>7. chosen = ErrorsIn(kept)
  <2>1. r.errors + (IF error THEN 1 ELSE 0) = ErrorsIn(gone) + ErrorsIn(kept)
    BY <1>4, <1>5
  <2>2. errors = ErrorsIn(kept)
    <3>1. r.errors \in Nat
      BY DEF RateType
    <3>. QED  BY <1>6, <2>1, <3>1
  <2>. QED  BY <2>2
<1>. DEFINE x == ErrorsIn(kept)
            least == Min({x, Len(kept)})
<1>8. least = x
  <2>1. {x, Len(kept)} \in SUBSET Nat
    BY <1>6
  <2>2. Min({x, Len(kept)}) \in {x, Len(kept)} /\ \A y \in {x, Len(kept)} : Min({x, Len(kept)}) <= y
    <3>. HIDE DEF x
    <3>. QED  BY <2>1, MinIsLeast
  <2>. QED  BY <1>6, <2>2
<1>9. Max({0, x}) = x
  <2>. HIDE DEF x
  <2>1. x \in Nat
    BY <1>6 DEF x
  <2>. QED  BY <2>1 DEF Max
<1>10. ErrorRateOf(r, error) = [window |-> kept, tracked |-> Len(kept), now |-> r.now, errors |-> Max({0, Min({chosen, Len(kept)})})]
  BY DEF ErrorRateOf, kept, gone, n, w, e
<1>. HIDE DEF chosen
<1>11. ErrorRateOf(r, error) = [window |-> kept, tracked |-> Len(kept), now |-> r.now, errors |-> x]
  BY <1>7, <1>8, <1>9, <1>10
<1>. QED  BY <1>1, <1>5, <1>6, <1>11 DEF RateType

OnceEach(s) == \A i, j \in 1 .. Len(s) : s[i] = s[j] => i = j

LEMMA OnceEachCounted ==
  ASSUME NEW s \in Seq(EsIds), OnceEach(s)
  PROVE  IsFiniteSet(ToSet(s)) /\ Cardinality(ToSet(s)) = Len(s) /\ ToSet(s) \subseteq EsIds
<1>1. Len(s) \in Nat /\ DOMAIN s = 1 .. Len(s)
  OBVIOUS
<1>2. s \in [1 .. Len(s) -> ToSet(s)] /\ ToSet(s) \subseteq EsIds /\ \A t \in ToSet(s) : \E i \in 1 .. Len(s) : s[i] = t
  BY <1>1 DEF ToSet
<1>3. s \in Bijection(1 .. Len(s), ToSet(s))
  BY <1>1, <1>2 DEF Bijection, Injection, Surjection, IsInjective, OnceEach
<1>4. ExistsBijection(1 .. Len(s), ToSet(s))
  BY <1>3 DEF ExistsBijection
<1>5. IsFiniteSet(1 .. Len(s)) /\ Cardinality(1 .. Len(s)) = Len(s)
  BY <1>1, FS_Interval
<1>. QED  BY <1>2, <1>4, <1>5, FS_Bijection

LEMMA OnceEachAppended ==
  ASSUME NEW s \in Seq(EsIds), OnceEach(s), NEW x \in EsIds, x \notin ToSet(s)
  PROVE  /\ Append(s, x) \in Seq(EsIds) /\ Len(Append(s, x)) = Len(s) + 1
         /\ OnceEach(Append(s, x)) /\ ToSet(Append(s, x)) = ToSet(s) \cup {x}
<1>. DEFINE q == Append(s, x)
<1>1. q \in Seq(EsIds) /\ Len(q) = Len(s) + 1 /\ Len(s) \in Nat
  OBVIOUS
<1>2. \A i \in 1 .. Len(q) : q[i] = IF i = Len(s) + 1 THEN x ELSE s[i]
  BY <1>1
<1>3. DOMAIN q = 1 .. Len(q) /\ DOMAIN s = 1 .. Len(s)
  BY <1>1
<1>. HIDE DEF q
<1>4. OnceEach(q)
  BY <1>1, <1>2, <1>3 DEF OnceEach, ToSet
<1>5. ToSet(q) = ToSet(s) \cup {x}
  <2>1. ToSet(q) \subseteq ToSet(s) \cup {x}
    BY <1>1, <1>2, <1>3 DEF ToSet
  <2>2. x \in ToSet(q)
    <3>1. Len(s) + 1 \in 1 .. Len(q) /\ q[Len(s) + 1] = x
      BY <1>1, <1>2
    <3>. QED  BY <1>3, <3>1 DEF ToSet
  <2>3. ToSet(s) \subseteq ToSet(q)
    <3>1. \A i \in 1 .. Len(s) : i \in 1 .. Len(q) /\ q[i] = s[i]
      BY <1>1, <1>2
    <3>. QED  BY <1>3, <3>1 DEF ToSet
  <2>. QED  BY <2>1, <2>2, <2>3
<1>. QED  BY <1>1, <1>4, <1>5 DEF q

LEMMA OnceEachSplit ==
  ASSUME NEW s \in Seq(EsIds), OnceEach(s), NEW n \in 0 .. Len(s)
  PROVE  LET a == SubSeq(s, 1, n)
             b == SubSeq(s, n + 1, Len(s))
         IN  /\ a \in Seq(EsIds) /\ b \in Seq(EsIds) /\ Len(a) = n /\ Len(b) = Len(s) - n
             /\ OnceEach(a) /\ OnceEach(b)
             /\ ToSet(a) \cap ToSet(b) = {} /\ ToSet(a) \cup ToSet(b) \subseteq ToSet(s)
<1>. DEFINE a == SubSeq(s, 1, n)
            b == SubSeq(s, n + 1, Len(s))
<1>1. /\ a \in Seq(EsIds) /\ Len(a) = n /\ \A i \in 1 .. n : a[i] = s[i]
      /\ b \in Seq(EsIds) /\ Len(b) = Len(s) - n /\ \A i \in 1 .. Len(s) - n : b[i] = s[i + n]
  BY SplitAt
<1>2. Len(s) \in Nat /\ n \in Nat /\ DOMAIN s = 1 .. Len(s) /\ DOMAIN a = 1 .. n /\ DOMAIN b = 1 .. Len(s) - n
  BY <1>1
<1>. HIDE DEF a, b
<1>3. OnceEach(a)
  BY <1>1, <1>2 DEF OnceEach
<1>4. OnceEach(b)
  <2>1. \A i \in 1 .. Len(s) - n : i + n \in 1 .. Len(s)
    BY <1>2
  <2>. QED  BY <1>1, <1>2, <2>1 DEF OnceEach
<1>5. ToSet(a) \cup ToSet(b) \subseteq ToSet(s)
  <2>1. \A i \in 1 .. Len(s) - n : i + n \in 1 .. Len(s) /\ b[i] = s[i + n]
    BY <1>1, <1>2
  <2>2. \A i \in 1 .. n : i \in 1 .. Len(s) /\ a[i] = s[i]
    BY <1>1, <1>2
  <2>3. ToSet(a) \subseteq ToSet(s)
    BY <1>2, <2>2 DEF ToSet
  <2>4. ToSet(b) \subseteq ToSet(s)
    BY <1>2, <2>1 DEF ToSet
  <2>. QED  BY <2>3, <2>4
<1>6. ToSet(a) \cap ToSet(b) = {}
  <2>1. ASSUME NEW i \in 1 .. n, NEW j \in 1 .. Len(s) - n PROVE a[i] # b[j]
    <3>1. i \in 1 .. Len(s) /\ j + n \in 1 .. Len(s) /\ i # j + n /\ a[i] = s[i] /\ b[j] = s[j + n]
      BY <1>1, <1>2
    <3>. QED  BY <3>1 DEF OnceEach
  <2>. QED  BY <1>2, <2>1 DEF ToSet
<1>. QED  BY <1>1, <1>3, <1>4, <1>5, <1>6 DEF a, b

EsTaken == {s \in EsIds : esSpan[s] = "taken"}
WorkerPcs == {"waits", "inserts", "falls", "ended"}

EmbeddingTyped ==
  /\ esSpan \in [EsIds -> {"new", "plain", "vector", "zeros", "taken", "done"}]
  /\ esQueue \in Seq(EsIds) /\ Len(esQueue) <= EsQueueMax
  /\ esWorker \in [pc : WorkerPcs, batch : Seq(EsIds)] /\ Len(esWorker.batch) <= EsBatchMax
  /\ esTables \in [clickhouse : SUBSET EsIds, redis : SUBSET EsIds]
  /\ esCount \in [stored : Nat, failed : Nat, fallback : Nat, cut : Nat]
  /\ esShut \in [pc : {"up", "waits", "over", "cut"}, queued : SUBSET EsIds]
  /\ esRate \in RateType

\* Where an embedding is: nowhere twice, and only once it was taken from its span.
EmbeddingPlaces ==
  /\ OnceEach(esQueue) /\ OnceEach(esWorker.batch) /\ ToSet(esQueue) \cap ToSet(esWorker.batch) = {}
  /\ ToSet(esQueue) \cap esTables.clickhouse = {}
  /\ esWorker.pc = "inserts" => ToSet(esWorker.batch) \cap esTables.clickhouse = {}
  /\ ToSet(esQueue) \cup ToSet(esWorker.batch) \cup esTables.clickhouse \cup esShut.queued \subseteq EsTaken

InHand(pc) == IF esWorker.pc = pc THEN Len(esWorker.batch) ELSE 0

EmbeddingCounts ==
  /\ Cardinality(EsTaken) = Len(esQueue) + InHand("inserts") + esCount.stored + esCount.failed + esCount.cut
  /\ esCount.stored <= Cardinality(esTables.clickhouse)
  /\ esCount.fallback + InHand("falls") <= esCount.failed
  /\ esShut.pc # "cut" => esCount.cut = 0

\* A worker that was not cut ended with nothing in the queue; what was enqueued
\* since was not there when shutdown began.
EmbeddingShutdown ==
  /\ esWorker.pc = "ended" => esShut.pc # "up" /\ (esShut.pc # "cut" => esShut.queued \cap ToSet(esQueue) = {})
  /\ esShut.pc \in {"over", "cut"} => esWorker.pc = "ended"

EmbeddingInv == EmbeddingTyped /\ EmbeddingPlaces /\ EmbeddingCounts /\ EmbeddingShutdown /\ ErrorRateExact

LEMMA EmbeddingNumbers ==
  /\ EsSpans \in Nat /\ EsQueueMax \in Nat /\ EsBatchMax \in Nat /\ EsBatchMax > 0
  /\ IsFiniteSet(EsIds) /\ \A S \in SUBSET EsIds : IsFiniteSet(S) /\ Cardinality(S) \in Nat
<1>1. EsSpans \in Nat /\ EsQueueMax \in Nat /\ EsBatchMax \in Nat /\ EsBatchMax > 0
  BY EmbeddingAssumption
<1>2. IsFiniteSet(EsIds)
  BY <1>1, FS_Interval DEF EsIds
<1>3. ASSUME NEW S \in SUBSET EsIds PROVE IsFiniteSet(S) /\ Cardinality(S) \in Nat
  BY <1>2, FS_Subset, FS_CardinalityType
<1>. QED  BY <1>1, <1>2, <1>3

\* One more that fails; and what was in hand fails.
LEMMA CountsAdd ==
  ASSUME NEW q \in Nat, NEW h \in Nat, NEW s \in Nat, NEW f \in Nat, NEW c \in Nat, NEW d \in Nat
  PROVE  (q + h + s + f + c) + d = q + h + s + (f + d) + c /\ q + h + s + f + c = q + 0 + s + (f + h) + c
  OBVIOUS

LEMMA NothingTaken == <<>> \in Seq(EsIds) /\ Len(<<>>) = 0 /\ OnceEach(<<>>) /\ ToSet(<<>>) = {}
  BY DEF OnceEach, ToSet

LEMMA EmbeddingStarts == EmbeddingInit => EmbeddingInv
<1>. SUFFICES ASSUME EmbeddingInit PROVE EmbeddingInv
  OBVIOUS
<1>1. EmbeddingTyped
  BY EmbeddingNumbers DEF EmbeddingInit, EmbeddingTyped, RateType, WorkerPcs
<1>2. EsTaken = {}
  BY DEF EmbeddingInit, EsTaken
<1>3. EmbeddingPlaces
  BY NothingTaken DEF EmbeddingInit, EmbeddingPlaces
<1>4. EmbeddingCounts
  BY <1>2, NothingTaken, FS_EmptySet DEF EmbeddingInit, EmbeddingCounts, InHand
<1>5. ErrorRateExact
  <2>1. esRate.window = <<>> /\ esRate.errors = 0 /\ esRate.tracked = 0
    BY DEF EmbeddingInit
  <2>2. {i \in DOMAIN esRate.window : esRate.window[i].error} = {}
    BY <2>1
  <2>. QED  BY <2>1, <2>2, FS_EmptySet DEF ErrorRateExact, ErrorsIn
<1>. QED  BY <1>1, <1>3, <1>4, <1>5 DEF EmbeddingInv, EmbeddingInit, EmbeddingShutdown

LEMMA EmbeddingStep == EmbeddingInv /\ [EmbeddingNext]_embeddingVars => EmbeddingInv'
<1>. SUFFICES ASSUME EmbeddingInv, [EmbeddingNext]_embeddingVars PROVE EmbeddingInv'
  OBVIOUS
<1>. USE DEF EmbeddingInv
<1>. DEFINE held == esWorker.batch
<1>a. /\ esQueue \in Seq(EsIds) /\ Len(esQueue) \in Nat /\ held \in Seq(EsIds) /\ Len(held) \in Nat
      /\ esTables.clickhouse \in SUBSET EsIds /\ Cardinality(esTables.clickhouse) \in Nat
      /\ IsFiniteSet(esTables.clickhouse) /\ IsFiniteSet(EsTaken) /\ Cardinality(EsTaken) \in Nat
      /\ esCount.stored \in Nat /\ esCount.failed \in Nat /\ esCount.fallback \in Nat /\ esCount.cut \in Nat
  <2>1. /\ esQueue \in Seq(EsIds) /\ Len(esQueue) \in Nat /\ held \in Seq(EsIds) /\ Len(held) \in Nat
    BY DEF EmbeddingTyped
  <2>2. esTables.clickhouse \in SUBSET EsIds /\ EsTaken \in SUBSET EsIds
    BY DEF EmbeddingTyped, EsTaken
  <2>3. esCount.stored \in Nat /\ esCount.failed \in Nat /\ esCount.fallback \in Nat /\ esCount.cut \in Nat
    BY DEF EmbeddingTyped
  <2>. QED  BY <2>1, <2>2, <2>3, EmbeddingNumbers
<1>b. IsFiniteSet(ToSet(held)) /\ Cardinality(ToSet(held)) = Len(held) /\ ToSet(held) \subseteq EsIds
  BY <1>a, OnceEachCounted DEF EmbeddingPlaces
<1>c. /\ Len(WorkerGoesOn.batch) = 0 /\ WorkerGoesOn.batch = <<>> /\ WorkerGoesOn.pc \in {"waits", "ended"}
      /\ WorkerGoesOn \in [pc : WorkerPcs, batch : Seq(EsIds)]
      /\ WorkerGoesOn.pc = "ended" => esShut.pc # "up" /\ esQueue = <<>>
  BY NothingTaken DEF WorkerGoesOn, WorkerPcs
<1>d. Len(WorkerGoesOn.batch) <= EsBatchMax
  BY <1>c, EmbeddingNumbers
<1>e. InHand("inserts") \in Nat /\ InHand("falls") \in Nat
  BY <1>a DEF InHand
<1>1. ASSUME NEW s \in EsIds, EvaluateSimilarity(s) PROVE EmbeddingInv'
  <2>1. PICK v \in {"plain", "vector", "zeros"} : esSpan' = [esSpan EXCEPT ![s] = v]
    BY <1>1 DEF EvaluateSimilarity
  <2>2. esSpan[s] = "new" /\ UNCHANGED <<esQueue, esWorker, esTables, esCount, esShut, esRate>>
    BY <1>1 DEF EvaluateSimilarity
  <2>3. EsTaken' = EsTaken
    BY <2>1, <2>2 DEF EsTaken, EmbeddingTyped
  <2>4. EmbeddingTyped'
    BY <2>1, <2>2 DEF EmbeddingTyped
  <2>. QED  BY <2>2, <2>3, <2>4 DEF EmbeddingPlaces, EmbeddingCounts, InHand, EmbeddingShutdown, ErrorRateExact
<1>2. ASSUME NEW s \in EsIds, NEW error \in BOOLEAN, EnqueueSpan(s, error) PROVE EmbeddingInv'
  <2>. DEFINE carries == esSpan[s] # "plain"
              full == Len(esQueue) >= EsQueueMax
  <2>1. /\ esSpan[s] \in {"plain", "vector", "zeros"} /\ UNCHANGED <<esWorker, esTables, esShut>>
        /\ esQueue' = (IF carries /\ ~full THEN Append(esQueue, s) ELSE esQueue)
        /\ esCount' = (IF carries /\ full THEN EmbeddingRefused(esCount) ELSE esCount)
        /\ esSpan' = [esSpan EXCEPT ![s] = IF carries THEN "taken" ELSE "done"]
        /\ esRate' = ErrorRateOf(esRate, error)
    BY <1>2 DEF EnqueueSpan
  <2>2. s \notin EsTaken
    BY <2>1 DEF EsTaken
  <2>3. EsTaken' = IF carries THEN EsTaken \cup {s} ELSE EsTaken
    BY <2>1 DEF EsTaken, EmbeddingTyped
  <2>4. esSpan' \in [EsIds -> {"new", "plain", "vector", "zeros", "taken", "done"}]
    BY <2>1 DEF EmbeddingTyped
  <2>5. esRate' \in RateType /\ ErrorRateExact'
    <3>1. esRate \in RateType /\ esRate.tracked = Len(esRate.window) /\ esRate.errors = ErrorsIn(esRate.window)
      BY DEF EmbeddingTyped, ErrorRateExact
    <3>2. LET q == ErrorRateOf(esRate, error)
          IN  q \in RateType /\ q.tracked = Len(q.window) /\ q.errors = ErrorsIn(q.window)
      BY <3>1, ErrorRateKept
    <3>. QED  BY <2>1, <3>2 DEF ErrorRateExact
  <2>6. Cardinality(EsTaken \cup {s}) = Cardinality(EsTaken) + 1
    BY <1>a, <2>2, FS_AddElement
  <2>7. CASE carries /\ ~full
    <3>1. s \notin ToSet(esQueue)
      BY <2>2 DEF EmbeddingPlaces
    <3>2. /\ esQueue' \in Seq(EsIds) /\ Len(esQueue') = Len(esQueue) + 1
          /\ OnceEach(esQueue') /\ ToSet(esQueue') = ToSet(esQueue) \cup {s}
      BY <1>a, <2>1, <2>7, <3>1, OnceEachAppended DEF EmbeddingPlaces
    <3>3. EmbeddingTyped'
      BY <1>a, <2>1, <2>4, <2>5, <2>7, <3>2, EmbeddingNumbers DEF EmbeddingTyped
    <3>4. EmbeddingPlaces'
      BY <2>1, <2>2, <2>3, <2>7, <3>2 DEF EmbeddingPlaces
    <3>5. EmbeddingCounts'
      <4>1. InHand("inserts")' = InHand("inserts") /\ InHand("falls")' = InHand("falls")
        BY <2>1 DEF InHand
      <4>2. Cardinality(EsTaken') = Cardinality(EsTaken) + 1 /\ esCount' = esCount
        BY <2>1, <2>3, <2>6, <2>7
      <4>. HIDE DEF carries, full
      <4>3. EmbeddingCounts /\ UNCHANGED <<esTables, esShut>>
        BY <2>1
      <4>4. Cardinality(EsTaken)' = (Len(esQueue) + InHand("inserts") + esCount.stored + esCount.failed + esCount.cut)'
        <5>. DEFINE others == esCount.stored + esCount.failed + esCount.cut
        <5>1. Cardinality(EsTaken) = Len(esQueue) + InHand("inserts") + others
          BY ONLY <1>a, <1>e, <4>3 DEF EmbeddingCounts
        <5>2. others \in Int /\ others' = others /\ InHand("inserts") \in Int /\ Len(esQueue) \in Int
          BY ONLY <1>a, <1>e, <4>2
        <5>. HIDE DEF others
        <5>3. Cardinality(EsTaken)' = Len(esQueue)' + InHand("inserts")' + others'
          BY ONLY <3>2, <4>1, <4>2, <5>1, <5>2
        <5>. QED  BY ONLY <1>a, <1>e, <3>2, <4>1, <4>2, <5>2, <5>3 DEF others
      <4>5. (esCount.stored <= Cardinality(esTables.clickhouse))'
        BY ONLY <1>a, <1>e, <3>2, <4>1, <4>2, <4>3 DEF EmbeddingCounts
      <4>6. (esCount.fallback + InHand("falls") <= esCount.failed)'
        BY ONLY <1>a, <1>e, <3>2, <4>1, <4>2, <4>3 DEF EmbeddingCounts
      <4>7. (esShut.pc # "cut" => esCount.cut = 0)'
        BY ONLY <1>a, <1>e, <3>2, <4>1, <4>2, <4>3 DEF EmbeddingCounts
      <4>. QED  BY ONLY <4>4, <4>5, <4>6, <4>7 DEF EmbeddingCounts
    <3>6. EmbeddingShutdown'
      BY <2>1, <2>2, <3>2 DEF EmbeddingShutdown, EmbeddingPlaces
    <3>. QED  BY <2>5, <3>3, <3>4, <3>5, <3>6
  <2>8. CASE ~(carries /\ ~full)
    <3>1. esQueue' = esQueue
      BY <2>1, <2>8
    <3>2. /\ esCount' \in [stored : Nat, failed : Nat, fallback : Nat, cut : Nat]
          /\ esCount'.stored = esCount.stored /\ esCount'.fallback = esCount.fallback /\ esCount'.cut = esCount.cut
          /\ esCount'.failed = IF carries THEN esCount.failed + 1 ELSE esCount.failed
      BY <1>a, <2>1, <2>8 DEF EmbeddingRefused, EmbeddingTyped
    <3>3. EmbeddingTyped'
      BY <2>1, <2>4, <2>5, <3>1, <3>2 DEF EmbeddingTyped
    <3>4. EmbeddingPlaces'
      BY <2>1, <2>3, <3>1 DEF EmbeddingPlaces
    <3>5. EmbeddingCounts'
      <4>1. InHand("inserts")' = InHand("inserts") /\ InHand("falls")' = InHand("falls")
        BY <2>1 DEF InHand
      <4>2. Cardinality(EsTaken') = IF carries THEN Cardinality(EsTaken) + 1 ELSE Cardinality(EsTaken)
        BY <2>3, <2>6
      <4>. HIDE DEF carries, full
      <4>3. EmbeddingCounts /\ UNCHANGED <<esTables, esShut>>
        BY <2>1
      <4>. DEFINE more == IF carries THEN 1 ELSE 0
      <4>8. more \in Nat /\ Cardinality(EsTaken)' = Cardinality(EsTaken) + more /\ esCount'.failed = esCount.failed + more
        BY <1>a, <3>2, <4>2
      <4>. HIDE DEF more
      <4>9. /\ esQueue' = esQueue /\ esCount'.stored = esCount.stored /\ esCount'.fallback = esCount.fallback
            /\ esCount'.cut = esCount.cut
        BY <3>1, <3>2
      <4>4. Cardinality(EsTaken)' = (Len(esQueue) + InHand("inserts") + esCount.stored + esCount.failed + esCount.cut)'
        <5>1. Cardinality(EsTaken) = Len(esQueue) + InHand("inserts") + esCount.stored + esCount.failed + esCount.cut
          BY DEF EmbeddingCounts
        <5>2. Cardinality(EsTaken) + more
                = Len(esQueue) + InHand("inserts") + esCount.stored + (esCount.failed + more) + esCount.cut
          BY ONLY <1>a, <1>e, <4>8, <5>1, CountsAdd
        <5>. QED  BY ONLY <4>1, <4>8, <4>9, <5>2
      <4>5. (esCount.stored <= Cardinality(esTables.clickhouse))'
        BY ONLY <1>a, <1>e, <3>1, <3>2, <4>1, <4>2, <4>3 DEF EmbeddingCounts
      <4>6. (esCount.fallback + InHand("falls") <= esCount.failed)'
        BY ONLY <1>a, <1>e, <4>1, <4>3, <4>8, <4>9 DEF EmbeddingCounts
      <4>7. (esShut.pc # "cut" => esCount.cut = 0)'
        BY ONLY <1>a, <1>e, <3>1, <3>2, <4>1, <4>2, <4>3 DEF EmbeddingCounts
      <4>. QED  BY ONLY <4>4, <4>5, <4>6, <4>7 DEF EmbeddingCounts
    <3>6. EmbeddingShutdown'
      BY <2>1, <3>1 DEF EmbeddingShutdown
    <3>. QED  BY <2>5, <3>3, <3>4, <3>5, <3>6
  <2>. QED  BY <2>7, <2>8
<1>3. ASSUME EmbeddingTick PROVE EmbeddingInv'
  <2>1. UNCHANGED <<esSpan, esQueue, esWorker, esTables, esCount, esShut>> /\ esRate' = [esRate EXCEPT !.now = @ + 1]
    BY <1>3 DEF EmbeddingTick
  <2>2. esRate' \in RateType /\ esRate'.window = esRate.window /\ esRate'.errors = esRate.errors
        /\ esRate'.tracked = esRate.tracked
    <3>1. esRate \in RateType /\ esRate' = [esRate EXCEPT !.now = @ + 1]
      BY <2>1 DEF EmbeddingTyped
    <3>. QED  BY ONLY <3>1 DEF RateType
  <2>. QED  BY <2>1, <2>2 DEF EmbeddingTyped, EmbeddingPlaces, EmbeddingCounts, InHand, EmbeddingShutdown, ErrorRateExact, EsTaken
<1>4. ASSUME WorkerTakes PROVE EmbeddingInv'
  <2>. DEFINE n == IF Len(esQueue) < EsBatchMax THEN Len(esQueue) ELSE EsBatchMax
              a == SubSeq(esQueue, 1, n)
              b == SubSeq(esQueue, n + 1, Len(esQueue))
  <2>1. /\ esWorker.pc = "waits" /\ esWorker' = [pc |-> "inserts", batch |-> a] /\ esQueue' = b
        /\ UNCHANGED <<esSpan, esTables, esCount, esShut, esRate>>
    BY <1>4 DEF WorkerTakes
  <2>2. n \in 0 .. Len(esQueue) /\ n <= EsBatchMax
    BY <1>a, EmbeddingNumbers
  <2>. HIDE DEF n
  <2>3. /\ a \in Seq(EsIds) /\ b \in Seq(EsIds) /\ Len(a) = n /\ Len(b) = Len(esQueue) - n
        /\ OnceEach(a) /\ OnceEach(b) /\ ToSet(a) \cap ToSet(b) = {} /\ ToSet(a) \cup ToSet(b) \subseteq ToSet(esQueue)
    BY <1>a, <2>2, OnceEachSplit DEF EmbeddingPlaces
  <2>. HIDE DEF a, b
  <2>4. EmbeddingTyped'
    BY <1>a, <2>1, <2>2, <2>3, EmbeddingNumbers DEF EmbeddingTyped, WorkerPcs
  <2>5. EmbeddingPlaces'
    BY <2>1, <2>3 DEF EmbeddingPlaces, EsTaken
  <2>6. EmbeddingCounts'
    <3>1. InHand("inserts") = 0 /\ InHand("inserts")' = n /\ InHand("falls") = 0 /\ InHand("falls")' = 0
      BY <2>1, <2>3 DEF InHand
    <3>2. EsTaken' = EsTaken
      BY <2>1 DEF EsTaken
    <3>3. EmbeddingCounts /\ UNCHANGED <<esTables, esCount, esShut>> /\ Len(esQueue') = Len(esQueue) - n /\ n \in Nat
      BY <2>1, <2>2, <2>3
    <3>4. Cardinality(EsTaken)' = (Len(esQueue) + InHand("inserts") + esCount.stored + esCount.failed + esCount.cut)'
      BY ONLY <1>a, <3>1, <3>2, <3>3 DEF EmbeddingCounts
    <3>5. (esCount.stored <= Cardinality(esTables.clickhouse))'
      BY ONLY <1>a, <3>1, <3>2, <3>3 DEF EmbeddingCounts
    <3>6. (esCount.fallback + InHand("falls") <= esCount.failed)'
      BY ONLY <1>a, <3>1, <3>2, <3>3 DEF EmbeddingCounts
    <3>7. (esShut.pc # "cut" => esCount.cut = 0)'
      BY ONLY <1>a, <3>1, <3>2, <3>3 DEF EmbeddingCounts
    <3>. QED  BY ONLY <3>4, <3>5, <3>6, <3>7 DEF EmbeddingCounts
  <2>7. EmbeddingShutdown'
    BY <2>1 DEF EmbeddingShutdown
  <2>. QED  BY <2>1, <2>4, <2>5, <2>6, <2>7 DEF ErrorRateExact
<1>5. ASSUME InsertStores PROVE EmbeddingInv'
  <2>1. /\ esWorker.pc = "inserts" /\ esWorker' = WorkerGoesOn
        /\ esTables' = [esTables EXCEPT !.clickhouse = @ \cup ToSet(held)]
        /\ esCount' = [esCount EXCEPT !.stored = @ + Len(held)]
        /\ UNCHANGED <<esSpan, esQueue, esShut, esRate>>
    BY <1>5 DEF InsertStores
  <2>2. esTables' \in [clickhouse : SUBSET EsIds, redis : SUBSET EsIds]
        /\ esTables'.clickhouse = esTables.clickhouse \cup ToSet(held)
    BY <1>b, <2>1 DEF EmbeddingTyped
  <2>3. /\ esCount' \in [stored : Nat, failed : Nat, fallback : Nat, cut : Nat]
        /\ esCount'.stored = esCount.stored + Len(held) /\ esCount'.fallback = esCount.fallback
        /\ esCount'.cut = esCount.cut /\ esCount'.failed = esCount.failed
    <3>1. /\ esCount \in [stored : Nat, failed : Nat, fallback : Nat, cut : Nat]
          /\ esCount' = [esCount EXCEPT !.stored = @ + Len(held)] /\ Len(held) \in Nat
      BY <1>a, <2>1 DEF EmbeddingTyped
    <3>. QED  BY ONLY <3>1
  <2>4. Cardinality(esTables'.clickhouse) = Cardinality(esTables.clickhouse) + Len(held)
    <3>1. ToSet(held) \cap esTables.clickhouse = {}
      BY <2>1 DEF EmbeddingPlaces
    <3>2. Cardinality(esTables.clickhouse \cup ToSet(held))
            = Cardinality(esTables.clickhouse) + Cardinality(ToSet(held)) - Cardinality({})
      BY <1>a, <1>b, <3>1, FS_Union
    <3>. QED  BY <1>a, <1>b, <2>2, <3>2, FS_EmptySet
  <2>5. EmbeddingTyped'
    <3>1. esWorker' \in [pc : WorkerPcs, batch : Seq(EsIds)] /\ Len(esWorker'.batch) <= EsBatchMax
      BY <1>c, <1>d, <2>1
    <3>2. EmbeddingTyped /\ UNCHANGED <<esSpan, esQueue, esShut, esRate>>
      BY <2>1
    <3>. QED  BY ONLY <3>1, <3>2, <2>2, <2>3 DEF EmbeddingTyped
  <2>6. EmbeddingPlaces'
    BY <1>c, <2>1, <2>2, NothingTaken DEF EmbeddingPlaces, EsTaken
  <2>7. EmbeddingCounts'
    <3>1. InHand("inserts")' = 0 /\ InHand("falls")' = 0 /\ InHand("inserts") = Len(held) /\ InHand("falls") = 0
      BY <1>c, <2>1 DEF InHand
    <3>2. EsTaken' = EsTaken
      BY <2>1 DEF EsTaken
    <3>3. EmbeddingCounts /\ UNCHANGED <<esQueue, esShut>>
      BY <2>1
    <3>. HIDE DEF held
    <3>. QED  BY ONLY <1>a, <2>3, <2>4, <3>1, <3>2, <3>3 DEF EmbeddingCounts
  <2>8. EmbeddingShutdown'
    BY <1>c, <2>1, NothingTaken DEF EmbeddingShutdown
  <2>. QED  BY <2>1, <2>5, <2>6, <2>7, <2>8 DEF ErrorRateExact
<1>6. ASSUME NEW applied \in BOOLEAN, InsertFails(applied) PROVE EmbeddingInv'
  <2>1. /\ esWorker.pc = "inserts" /\ esWorker' = [esWorker EXCEPT !.pc = "falls"]
        /\ esTables' = (IF applied THEN [esTables EXCEPT !.clickhouse = @ \cup ToSet(held)] ELSE esTables)
        /\ esCount' = [esCount EXCEPT !.failed = @ + Len(held)]
        /\ UNCHANGED <<esSpan, esQueue, esShut, esRate>>
    BY <1>6 DEF InsertFails
  <2>2. esTables' \in [clickhouse : SUBSET EsIds, redis : SUBSET EsIds]
        /\ esTables'.clickhouse \in {esTables.clickhouse \cup ToSet(held), esTables.clickhouse}
    BY <1>b, <2>1 DEF EmbeddingTyped
  <2>3. /\ esCount' \in [stored : Nat, failed : Nat, fallback : Nat, cut : Nat]
        /\ esCount'.stored = esCount.stored /\ esCount'.fallback = esCount.fallback
        /\ esCount'.cut = esCount.cut /\ esCount'.failed = esCount.failed + Len(held)
    <3>1. /\ esCount \in [stored : Nat, failed : Nat, fallback : Nat, cut : Nat]
          /\ esCount' = [esCount EXCEPT !.failed = @ + Len(held)] /\ Len(held) \in Nat
      BY <1>a, <2>1 DEF EmbeddingTyped
    <3>. QED  BY ONLY <3>1
  <2>4. esWorker' \in [pc : WorkerPcs, batch : Seq(EsIds)] /\ esWorker'.pc = "falls" /\ esWorker'.batch = held
    BY <2>1 DEF EmbeddingTyped, WorkerPcs
  <2>5. Cardinality(esTables'.clickhouse) \in Nat /\ Cardinality(esTables'.clickhouse) >= Cardinality(esTables.clickhouse)
    <3>1. esTables'.clickhouse \in SUBSET EsIds /\ esTables.clickhouse \in SUBSET esTables'.clickhouse
      BY <2>2
    <3>2. IsFiniteSet(esTables'.clickhouse) /\ Cardinality(esTables'.clickhouse) \in Nat
      BY <3>1, EmbeddingNumbers
    <3>3. Cardinality(esTables.clickhouse) <= Cardinality(esTables'.clickhouse)
      BY <3>1, <3>2, FS_Subset
    <3>. QED  BY <1>a, <3>2, <3>3
  <2>6. EmbeddingTyped'
    BY <2>1, <2>2, <2>3, <2>4 DEF EmbeddingTyped
  <2>7. EmbeddingPlaces'
    BY <2>1, <2>2, <2>4 DEF EmbeddingPlaces, EsTaken
  <2>8. EmbeddingCounts'
    <3>1. InHand("inserts")' = 0 /\ InHand("falls")' = Len(held) /\ InHand("inserts") = Len(held) /\ InHand("falls") = 0
      BY <2>1, <2>4 DEF InHand
    <3>2. EsTaken' = EsTaken
      BY <2>1 DEF EsTaken
    <3>3. EmbeddingCounts /\ UNCHANGED <<esQueue, esShut>>
      BY <2>1
    <3>. HIDE DEF held
    <3>8. /\ esQueue' = esQueue /\ esCount'.stored = esCount.stored /\ esCount'.failed = esCount.failed + Len(held)
          /\ esCount'.cut = esCount.cut
      BY <2>3, <3>3
    <3>4. Cardinality(EsTaken)' = (Len(esQueue) + InHand("inserts") + esCount.stored + esCount.failed + esCount.cut)'
      <4>1. Cardinality(EsTaken) = Len(esQueue) + Len(held) + esCount.stored + esCount.failed + esCount.cut
        BY <3>1 DEF EmbeddingCounts
      <4>2. Cardinality(EsTaken) = Len(esQueue) + 0 + esCount.stored + (esCount.failed + Len(held)) + esCount.cut
        BY ONLY <1>a, <4>1, CountsAdd
      <4>. QED  BY ONLY <3>1, <3>2, <3>8, <4>2
    <3>5. (esCount.stored <= Cardinality(esTables.clickhouse))'
      BY ONLY <1>a, <2>3, <2>5, <3>1, <3>2, <3>3 DEF EmbeddingCounts
    <3>6. (esCount.fallback + InHand("falls") <= esCount.failed)'
      BY ONLY <1>a, <2>3, <2>5, <3>1, <3>2, <3>3 DEF EmbeddingCounts
    <3>7. (esShut.pc # "cut" => esCount.cut = 0)'
      BY ONLY <1>a, <2>3, <2>5, <3>1, <3>2, <3>3 DEF EmbeddingCounts
    <3>. QED  BY ONLY <3>4, <3>5, <3>6, <3>7 DEF EmbeddingCounts
  <2>9. EmbeddingShutdown'
    BY <2>1, <2>4 DEF EmbeddingShutdown
  <2>. QED  BY <2>1, <2>6, <2>7, <2>8, <2>9 DEF ErrorRateExact
<1>7. ASSUME NEW stored \in BOOLEAN, RedisFallback(stored) PROVE EmbeddingInv'
  <2>1. /\ esWorker.pc = "falls" /\ esWorker' = WorkerGoesOn
        /\ esTables' = (IF stored THEN [esTables EXCEPT !.redis = @ \cup ToSet(held)] ELSE esTables)
        /\ esCount' = [esCount EXCEPT !.fallback = @ + Len(held)]
        /\ UNCHANGED <<esSpan, esQueue, esShut, esRate>>
    BY <1>7 DEF RedisFallback
  <2>2. esTables' \in [clickhouse : SUBSET EsIds, redis : SUBSET EsIds] /\ esTables'.clickhouse = esTables.clickhouse
    BY <1>b, <2>1 DEF EmbeddingTyped
  <2>3. /\ esCount' \in [stored : Nat, failed : Nat, fallback : Nat, cut : Nat]
        /\ esCount'.stored = esCount.stored /\ esCount'.fallback = esCount.fallback + Len(held)
        /\ esCount'.cut = esCount.cut /\ esCount'.failed = esCount.failed
    <3>1. /\ esCount \in [stored : Nat, failed : Nat, fallback : Nat, cut : Nat]
          /\ esCount' = [esCount EXCEPT !.fallback = @ + Len(held)] /\ Len(held) \in Nat
      BY <1>a, <2>1 DEF EmbeddingTyped
    <3>. QED  BY ONLY <3>1
  <2>4. EmbeddingTyped'
    <3>1. esWorker' \in [pc : WorkerPcs, batch : Seq(EsIds)] /\ Len(esWorker'.batch) <= EsBatchMax
      BY <1>c, <1>d, <2>1
    <3>2. EmbeddingTyped /\ UNCHANGED <<esSpan, esQueue, esShut, esRate>>
      BY <2>1
    <3>. QED  BY ONLY <3>1, <3>2, <2>2, <2>3 DEF EmbeddingTyped
  <2>5. EmbeddingPlaces'
    BY <1>c, <2>1, <2>2, NothingTaken DEF EmbeddingPlaces, EsTaken
  <2>6. EmbeddingCounts'
    <3>1. InHand("inserts") = 0 /\ InHand("inserts")' = 0 /\ InHand("falls") = Len(held) /\ InHand("falls")' = 0
      BY <1>c, <2>1 DEF InHand
    <3>2. EsTaken' = EsTaken
      BY <2>1 DEF EsTaken
    <3>3. EmbeddingCounts /\ UNCHANGED <<esQueue, esShut>>
      BY <2>1
    <3>. HIDE DEF held
    <3>4. Cardinality(EsTaken)' = (Len(esQueue) + InHand("inserts") + esCount.stored + esCount.failed + esCount.cut)'
      BY ONLY <1>a, <2>2, <2>3, <3>1, <3>2, <3>3 DEF EmbeddingCounts
    <3>5. (esCount.stored <= Cardinality(esTables.clickhouse))'
      BY ONLY <1>a, <2>2, <2>3, <3>1, <3>2, <3>3 DEF EmbeddingCounts
    <3>6. (esCount.fallback + InHand("falls") <= esCount.failed)'
      BY ONLY <1>a, <2>2, <2>3, <3>1, <3>2, <3>3 DEF EmbeddingCounts
    <3>7. (esShut.pc # "cut" => esCount.cut = 0)'
      BY ONLY <1>a, <2>2, <2>3, <3>1, <3>2, <3>3 DEF EmbeddingCounts
    <3>. QED  BY ONLY <3>4, <3>5, <3>6, <3>7 DEF EmbeddingCounts
  <2>7. EmbeddingShutdown'
    BY <1>c, <2>1, NothingTaken DEF EmbeddingShutdown
  <2>. QED  BY <2>1, <2>4, <2>5, <2>6, <2>7 DEF ErrorRateExact
<1>8. ASSUME WorkerIdles PROVE EmbeddingInv'
  <2>1. /\ esWorker.pc = "waits" /\ esWorker' = WorkerGoesOn
        /\ UNCHANGED <<esSpan, esQueue, esTables, esCount, esShut, esRate>>
    BY <1>8 DEF WorkerIdles
  <2>2. EmbeddingTyped'
    BY <1>c, <2>1, EmbeddingNumbers DEF EmbeddingTyped
  <2>3. EmbeddingPlaces'
    BY <1>c, <2>1, NothingTaken DEF EmbeddingPlaces, EsTaken
  <2>4. EmbeddingCounts'
    BY <1>a, <1>c, <2>1 DEF EmbeddingCounts, InHand, EsTaken
  <2>5. EmbeddingShutdown'
    BY <1>c, <2>1, NothingTaken DEF EmbeddingShutdown
  <2>. QED  BY <2>1, <2>2, <2>3, <2>4, <2>5 DEF ErrorRateExact
<1>9. ASSUME EmbeddingShutdownBegins PROVE EmbeddingInv'
  <2>1. /\ esShut.pc = "up" /\ esShut' = [pc |-> "waits", queued |-> ToSet(esQueue)]
        /\ UNCHANGED <<esSpan, esQueue, esWorker, esTables, esCount, esRate>>
    BY <1>9 DEF EmbeddingShutdownBegins, ShutdownSignalled
  <2>2. ToSet(esQueue) \subseteq EsIds
    BY <1>a, OnceEachCounted DEF EmbeddingPlaces
  <2>3. EmbeddingTyped'
    BY <2>1, <2>2 DEF EmbeddingTyped
  <2>4. EmbeddingPlaces' /\ EmbeddingCounts' /\ EmbeddingShutdown'
    BY <2>1 DEF EmbeddingPlaces, EmbeddingCounts, InHand, EsTaken, EmbeddingShutdown
  <2>. QED  BY <2>1, <2>3, <2>4 DEF ErrorRateExact
<1>10. ASSUME ShutdownReturns PROVE EmbeddingInv'
  <2>1. /\ esShut.pc = "waits" /\ esWorker.pc = "ended" /\ esShut' = [esShut EXCEPT !.pc = "over"]
        /\ UNCHANGED <<esSpan, esQueue, esWorker, esTables, esCount, esRate>>
    BY <1>10 DEF ShutdownReturns
  <2>2. esShut' \in [pc : {"up", "waits", "over", "cut"}, queued : SUBSET EsIds]
        /\ esShut'.pc = "over" /\ esShut'.queued = esShut.queued
    BY <2>1 DEF EmbeddingTyped
  <2>3. EmbeddingTyped'
    BY <2>1, <2>2 DEF EmbeddingTyped
  <2>4. EmbeddingPlaces' /\ EmbeddingCounts' /\ EmbeddingShutdown'
    BY <2>1, <2>2 DEF EmbeddingPlaces, EmbeddingCounts, InHand, EsTaken, EmbeddingShutdown
  <2>. QED  BY <2>1, <2>3, <2>4 DEF ErrorRateExact
<1>11. ASSUME NEW applied \in BOOLEAN, ShutdownCuts(applied) PROVE EmbeddingInv'
  <2>1. /\ esShut.pc = "waits" /\ esWorker' = [pc |-> "ended", batch |-> <<>>] /\ esWorker.pc # "ended"
        /\ esShut' = [esShut EXCEPT !.pc = "cut"]
        /\ esCount' = [esCount EXCEPT !.cut = InHand("inserts")]
        /\ UNCHANGED <<esSpan, esQueue, esRate>>
    BY <1>11 DEF ShutdownCuts, InHand
  <2>2. \/ esTables' = esTables
        \/ esTables' = [esTables EXCEPT !.redis = @ \cup ToSet(held)]
        \/ esWorker.pc = "inserts" /\ esTables' = [esTables EXCEPT !.clickhouse = @ \cup ToSet(held)]
    BY <1>11 DEF ShutdownCuts
  <2>3. esTables' \in [clickhouse : SUBSET EsIds, redis : SUBSET EsIds]
        /\ esTables'.clickhouse \in {esTables.clickhouse \cup ToSet(held), esTables.clickhouse}
    BY <1>b, <2>2 DEF EmbeddingTyped
  <2>4. Cardinality(esTables'.clickhouse) \in Nat /\ Cardinality(esTables'.clickhouse) >= Cardinality(esTables.clickhouse)
    <3>1. esTables'.clickhouse \in SUBSET EsIds /\ esTables.clickhouse \in SUBSET esTables'.clickhouse
      BY <2>3
    <3>2. IsFiniteSet(esTables'.clickhouse) /\ Cardinality(esTables'.clickhouse) \in Nat
      BY <3>1, EmbeddingNumbers
    <3>3. Cardinality(esTables.clickhouse) <= Cardinality(esTables'.clickhouse)
      BY <3>1, <3>2, FS_Subset
    <3>. QED  BY <1>a, <3>2, <3>3
  <2>5. InHand("inserts") \in Nat
    BY <1>a DEF InHand
  <2>6. /\ esCount' \in [stored : Nat, failed : Nat, fallback : Nat, cut : Nat]
        /\ esCount'.stored = esCount.stored /\ esCount'.fallback = esCount.fallback
        /\ esCount'.cut = InHand("inserts") /\ esCount'.failed = esCount.failed
    <3>1. /\ esCount \in [stored : Nat, failed : Nat, fallback : Nat, cut : Nat]
          /\ esCount' = [esCount EXCEPT !.cut = InHand("inserts")]
      BY <2>1 DEF EmbeddingTyped
    <3>. QED  BY ONLY <2>5, <3>1
  <2>7. esShut' \in [pc : {"up", "waits", "over", "cut"}, queued : SUBSET EsIds]
        /\ esShut'.pc = "cut" /\ esShut'.queued = esShut.queued
    BY <2>1 DEF EmbeddingTyped
  <2>8. EmbeddingTyped'
    <3>1. esWorker' \in [pc : WorkerPcs, batch : Seq(EsIds)] /\ Len(esWorker'.batch) <= EsBatchMax
      BY <2>1, NothingTaken, EmbeddingNumbers DEF WorkerPcs
    <3>2. EmbeddingTyped /\ UNCHANGED <<esSpan, esQueue, esRate>>
      BY <2>1
    <3>. QED  BY ONLY <3>1, <3>2, <2>3, <2>6, <2>7 DEF EmbeddingTyped
  <2>9. EmbeddingPlaces'
    BY <2>1, <2>3, <2>7, NothingTaken DEF EmbeddingPlaces, EsTaken
  <2>10. EmbeddingCounts'
    <3>1. InHand("inserts")' = 0 /\ InHand("falls")' = 0 /\ InHand("falls") \in Nat
      BY <1>a, <2>1 DEF InHand
    <3>2. esCount.cut = 0
      BY <2>1 DEF EmbeddingCounts
    <3>3. EsTaken' = EsTaken
      BY <2>1 DEF EsTaken
    <3>4. EmbeddingCounts /\ esQueue' = esQueue
      BY <2>1
    <3>5. Cardinality(EsTaken)' = (Len(esQueue) + InHand("inserts") + esCount.stored + esCount.failed + esCount.cut)'
      BY ONLY <1>a, <2>4, <2>5, <2>6, <2>7, <3>1, <3>2, <3>3, <3>4 DEF EmbeddingCounts
    <3>6. (esCount.stored <= Cardinality(esTables.clickhouse))'
      BY ONLY <1>a, <2>4, <2>5, <2>6, <2>7, <3>1, <3>2, <3>3, <3>4 DEF EmbeddingCounts
    <3>7. (esCount.fallback + InHand("falls") <= esCount.failed)'
      BY ONLY <1>a, <2>4, <2>5, <2>6, <2>7, <3>1, <3>2, <3>3, <3>4 DEF EmbeddingCounts
    <3>8. (esShut.pc # "cut" => esCount.cut = 0)'
      BY ONLY <1>a, <2>4, <2>5, <2>6, <2>7, <3>1, <3>2, <3>3, <3>4 DEF EmbeddingCounts
    <3>. QED  BY ONLY <3>5, <3>6, <3>7, <3>8 DEF EmbeddingCounts
  <2>11. EmbeddingShutdown'
    BY <2>1, <2>7 DEF EmbeddingShutdown
  <2>. QED  BY <2>1, <2>8, <2>9, <2>10, <2>11 DEF ErrorRateExact
<1>12. ASSUME RedisExpires PROVE EmbeddingInv'
  <2>1. esTables' = [esTables EXCEPT !.redis = {}] /\ UNCHANGED <<esSpan, esQueue, esWorker, esCount, esShut, esRate>>
    BY <1>12 DEF RedisExpires
  <2>2. esTables' \in [clickhouse : SUBSET EsIds, redis : SUBSET EsIds] /\ esTables'.clickhouse = esTables.clickhouse
    BY <2>1 DEF EmbeddingTyped
  <2>. QED  BY <2>1, <2>2 DEF EmbeddingTyped, EmbeddingPlaces, EmbeddingCounts, InHand, EmbeddingShutdown, ErrorRateExact, EsTaken
<1>13. CASE UNCHANGED embeddingVars
  BY <1>13 DEF embeddingVars, EmbeddingTyped, EmbeddingPlaces, EmbeddingCounts, InHand, EmbeddingShutdown, ErrorRateExact, EsTaken
<1>. QED
  BY <1>1, <1>2, <1>3, <1>4, <1>5, <1>6, <1>7, <1>8, <1>9, <1>10, <1>11, <1>12, <1>13 DEF EmbeddingNext

\* Whatever the number of spans and the sizes of queue and batch: every embedding that
\* left its span waits, is being inserted, or is counted; none is counted as stored
\* that is not in ClickHouse; a shutdown in time leaves nothing of what was queued;
\* and the running error counts are those of the window (_enqueue,
\* _flush_embedding_batch, shutdown, _update_error_rate).
THEOREM EmbeddingsSafety == EmbeddingSpec => [](EmbeddingsSafe /\ EmbeddingTypeOK)
<1>1. EmbeddingInv => EmbeddingsSafe /\ EmbeddingTypeOK
  <2>. SUFFICES ASSUME EmbeddingInv PROVE EmbeddingsSafe /\ EmbeddingTypeOK
    OBVIOUS
  <2>1. EmbeddingTypeOK
    BY DEF EmbeddingInv, EmbeddingTyped, EmbeddingTypeOK, WorkerPcs
  <2>2. esCount.fallback \in Nat /\ esCount.failed \in Nat /\ InHand("falls") \in Nat
    BY DEF EmbeddingInv, EmbeddingTyped, InHand
  <2>3. esCount.fallback <= esCount.failed
    BY <2>2 DEF EmbeddingInv, EmbeddingCounts
  <2>4. esShut.pc = "over" => esShut.queued \cap ToSet(esQueue) = {}
    BY DEF EmbeddingInv, EmbeddingShutdown
  <2>5. EmbeddingsAccounted
    BY <2>3, <2>4 DEF EmbeddingsAccounted, EmbeddingInv, EmbeddingCounts, InHand, EsTaken
  <2>. QED  BY <2>1, <2>5 DEF EmbeddingsSafe, EmbeddingInv
<1>. QED  BY EmbeddingStarts, EmbeddingStep, <1>1, PTL DEF EmbeddingSpec
-----------------------------------------------------------------------------
(* The runs' specification.  A behaviour of it is one of the parts, and the  *)
(* others stand still: it is a behaviour of each part's own specification.   *)

\* A step of the parts together: one of each part, or nothing for it.
LEMMA OneMoves ==
  [Next]_<<allVars, part>> =>
    /\ [CronNext]_cronVars /\ [ColdNext]_coldVars /\ [CatalogNext]_catalogVars /\ [SloNext]_sloVars
    /\ [LangfuseNext]_langfuseVars /\ [HealthNext]_healthVars /\ [AthenaNext]_athenaVars
    /\ [AccessNext]_accessVars /\ [EmbeddingNext]_embeddingVars /\ [DriftNext]_driftVars
    /\ [ \/ SamplerNext /\ UNCHANGED feedbackVars
         \/ FeedbackNext /\ UNCHANGED samplerVars ]_<<samplerVars, feedbackVars>>
BY DEF Next, Others, allVars

\* Every behaviour the runs of MCOperations explore is one of each component.
LEMMA OperationsCompose ==
  Spec => /\ CronSpec /\ ColdSpec /\ CatalogSpec /\ SloSpec /\ LangfuseSpec /\ HealthSpec
          /\ AthenaSpec /\ AccessSpec /\ EmbeddingSpec /\ DriftSpec /\ TailSpec
<1>1. Init => /\ CronInit /\ ColdInit /\ CatalogInit /\ SloInit /\ LangfuseInit /\ HealthInit
              /\ AthenaInit /\ AccessInit /\ EmbeddingInit /\ DriftInit /\ SamplerInit /\ FeedbackInit
  BY DEF Init
<1>. QED  BY <1>1, OneMoves, PTL
          DEF Spec, CronSpec, ColdSpec, CatalogSpec, SloSpec, LangfuseSpec, HealthSpec, AthenaSpec, AccessSpec,
              EmbeddingSpec, DriftSpec, TailSpec

\* The variables of all parts keep their types in the runs' specification; among them:
\* a migration counts no more errors than there are days, a run of the schedule is in
\* its bounds, and what the sampler, the policy and the gauges hold is what they publish.
THEOREM OperationsTyped == Spec => []OperationsTypeOK
<1>1. /\ CronTypeOK /\ ColdTypeOK /\ CatalogTypeOK /\ SloTypeOK /\ TailTypeOK /\ LangfuseTypeOK /\ HealthTypeOK
      /\ AthenaTypeOK /\ AccessTypeOK /\ EmbeddingTypeOK /\ DriftTypeOK
      => OperationsTypeOK
  BY DEF OperationsTypeOK
<1>. QED  BY <1>1, OperationsCompose, ScheduleSafety, ColdTypesKept, CatalogCountsOnce, GaugesConsistency,
             SamplerConsistency, LangfuseTyped, ColdQuerySafety, AccessTyped, EmbeddingsSafety, DriftSafety, PTL
=============================================================================
