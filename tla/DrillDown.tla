------------------------------ MODULE DrillDown ------------------------------
(***************************************************************************)
(* Drill-down into one archived trace (storage/drill_down.py behind the    *)
(* endpoints of trace_viewer/ui.py) and the invalidation of its cache by   *)
(* late annotations.  A request passes the role and MFA gates, the rate    *)
(* limit, the cache and the tiers hot, warm, cold, and stores its answer   *)
(* in Redis in two calls: the value, then the index of the trace's values. *)
(* An annotation changes the trace, lists the index, deletes the values    *)
(* listed, and deletes the index.  Every Redis call is a step of its own.  *)
(***************************************************************************)
EXTENDS Naturals, FiniteSets, Sequences

CONSTANTS
  DdRequests,   \* request slots, each used once
  DdQueries,    \* what may be asked: [op, user, fields, mfa, tenant]
  RoleOf,       \* AGENT_OBS_RBAC_ROLES: the role of each user ("none": not listed)
  Annotators,   \* late annotations of the trace
  DdRateLimit,  \* drill-down requests of a user in a minute
  DdFlips       \* bound: outages of Redis

ASSUME DrillAssumption == DdQueries # {} /\ {DdRateLimit, DdFlips} \subseteq Nat

VARIABLES
  ddClient,  \* the Redis client the service was built with: "sync" or "async"
  ddTrace,   \* version of the trace, and the tier that holds it
  ddRedis,   \* Redis answers; outages so far
  ddRate,    \* requests counted for each user in this minute
  ddCache,   \* entries: value (version) and a stamp, by query
  ddIndex,   \* idx:trace:<trace>
  ddReq,     \* the requests
  ddInv,     \* the annotations
  ddPast     \* history: stamps, indexed entries, entries an index lost

drillVars == <<ddClient, ddTrace, ddRedis, ddRate, ddCache, ddIndex, ddReq, ddInv, ddPast>>

NoValue == [ver |-> 0, stamp |-> 0]
Users == {q.user : q \in DdQueries}
Owner == "t1"    \* the tenant of the trace
FirstQuery == CHOOSE q \in DdQueries : TRUE

DrillInit ==
  /\ ddClient \in {"sync", "async"}
  /\ ddTrace = [ver |-> 1, tier |-> "hot"]
  /\ ddRedis = [up |-> TRUE, flips |-> 0]
  /\ ddRate = [u \in Users |-> 0]
  /\ ddCache = [q \in DdQueries |-> NoValue] /\ ddIndex = {}
  /\ ddReq = [r \in DdRequests |-> [pc |-> "idle", q |-> FirstQuery, ver |-> 0, audit |-> <<>>]]
  /\ ddInv = [a \in Annotators |-> [pc |-> "idle", listed |-> {}, due |-> {}, clean |-> FALSE]]
  /\ ddPast = [stamp |-> 0, indexed |-> {}, orphans |-> {}]

\* An asyncio client called in a thread returns a coroutine nobody awaits: the
\* command is not sent.
RedisWorks == ddRedis.up /\ ddClient = "sync"

Permissions == [admin |-> {"trace:read", "compressed:expand", "pii:recover", "audit:read"},
                sre |-> {"trace:read", "compressed:expand", "audit:read"},
                developer |-> {"trace:read", "compressed:expand"},
                auditor |-> {"trace:read", "audit:read"},
                dpo |-> {"trace:read", "pii:recover"},
                none |-> {}]
CheckPermission(user, p) == p \in Permissions[RoleOf[user]]

\* The gates of the two endpoints, in their order: expanding a compressed node
\* needs its own permission and, for PII, MFA alone.
Gate(q) ==
  CASE ~CheckPermission(q.user, "trace:read") -> "rbac_denied"
    [] q.op = "expand" /\ ~CheckPermission(q.user, "compressed:expand") -> "rbac_denied"
    [] q.op = "drill" /\ q.fields = "pii" /\ ~CheckPermission(q.user, "pii:recover") -> "rbac_denied"
    [] q.fields = "pii" /\ q.mfa = "missing" -> "mfa_missing"
    [] q.fields = "pii" /\ q.mfa = "invalid" -> "mfa_invalid"
    [] OTHER -> "open"

\* A request ends with an answer (its audit event says allow) or an error (deny).
Ends(r, events) == [ddReq[r] EXCEPT !.pc = "done", !.audit = @ \o events]
Set(r, v) == ddReq' = [ddReq EXCEPT ![r] = v]

RequestArrives(r, q) ==
  LET arrived == [ddReq[r] EXCEPT !.q = q] IN
  /\ ddReq[r].pc = "idle"
  /\ Set(r, IF Gate(q) = "open" THEN [arrived EXCEPT !.pc = IF q.op = "drill" THEN "rate" ELSE "expand"]
            ELSE [arrived EXCEPT !.pc = "done", !.audit = <<"deny">>])
  /\ UNCHANGED <<ddClient, ddTrace, ddRedis, ddRate, ddCache, ddIndex, ddInv, ddPast>>

\* The expansion reads the hot tier alone, with no tenant: the node's subtree, or
\* 404 (no such node, trace moved on, ClickHouse down).
Expands(r) ==
  /\ ddReq[r].pc = "expand"
  /\ \/ ddTrace.tier = "hot" /\ Set(r, [Ends(r, <<"allow">>) EXCEPT !.ver = ddTrace.ver])
     \/ Set(r, Ends(r, <<"deny">>))
  /\ UNCHANGED <<ddClient, ddTrace, ddRedis, ddRate, ddCache, ddIndex, ddInv, ddPast>>

\* The limit is counted before the cache is asked; Redis failing lets it pass.
RateChecked(r) ==
  LET u == ddReq[r].q.user
      n == ddRate[u] + 1 IN
  /\ ddReq[r].pc = "rate"
  /\ ddRate' = IF RedisWorks THEN [ddRate EXCEPT ![u] = n] ELSE ddRate
  /\ Set(r, IF RedisWorks /\ n > DdRateLimit THEN Ends(r, <<"deny">>)
            ELSE [ddReq[r] EXCEPT !.pc = "get"])
  /\ UNCHANGED <<ddClient, ddTrace, ddRedis, ddCache, ddIndex, ddInv, ddPast>>

CacheGet(r) ==
  LET entry == ddCache[ddReq[r].q] IN
  /\ ddReq[r].pc = "get"
  /\ Set(r, IF RedisWorks /\ entry # NoValue
            THEN [Ends(r, <<"allow">>) EXCEPT !.ver = entry.ver]
            ELSE [ddReq[r] EXCEPT !.pc = "hot"])
  /\ UNCHANGED <<ddClient, ddTrace, ddRedis, ddRate, ddCache, ddIndex, ddInv, ddPast>>

(***************************************************************************)
(* One tier answers for the tenant the request names (any, if it names     *)
(* none), or has nothing, or fails: then the next tier is asked.           *)
(***************************************************************************)
Holds(tier, q) == ddTrace.tier = tier /\ q.tenant \in {"", Owner}

TierRecovers(r, tier, next) ==
  /\ ddReq[r].pc = tier
  /\ \/ /\ Holds(tier, ddReq[r].q)
        /\ Set(r, [ddReq[r] EXCEPT !.pc = "value", !.ver = ddTrace.ver])
     \/ Set(r, [ddReq[r] EXCEPT !.pc = next])
  /\ UNCHANGED <<ddClient, ddTrace, ddRedis, ddRate, ddCache, ddIndex, ddInv, ddPast>>

\* Athena, when it is configured, is asked for the trace alone and no tenant is
\* compared; the direct Parquet read awaits a list and always fails.  A trace that
\* exists in the hot tier for someone else is reported as a cross-tenant access.
ColdRecovers(r, athena) ==
  /\ ddReq[r].pc = "cold"
  /\ \/ athena /\ ddTrace.tier = "cold" /\ Set(r, [ddReq[r] EXCEPT !.pc = "value", !.ver = ddTrace.ver])
     \/ /\ ~athena \/ ddTrace.tier # "cold"
        /\ Set(r, Ends(r, IF ddReq[r].q.tenant # "" /\ ddTrace.tier = "hot"
                          THEN <<"cross_tenant", "deny">> ELSE <<"deny">>))
  /\ UNCHANGED <<ddClient, ddTrace, ddRedis, ddRate, ddCache, ddIndex, ddInv, ddPast>>

\* SETEX of the value; an error ends _cache_set(), not the request.
ValueSet(r) ==
  LET s == ddPast.stamp + 1 IN
  /\ ddReq[r].pc = "value"
  /\ IF RedisWorks
     THEN /\ ddCache' = [ddCache EXCEPT ![ddReq[r].q] = [ver |-> ddReq[r].ver, stamp |-> s]]
          /\ ddPast' = [ddPast EXCEPT !.stamp = s]
          /\ Set(r, [ddReq[r] EXCEPT !.pc = "index"])
     ELSE Set(r, Ends(r, <<"allow">>)) /\ UNCHANGED <<ddCache, ddPast>>
  /\ UNCHANGED <<ddClient, ddTrace, ddRedis, ddRate, ddIndex, ddInv>>

\* A plausible slip: the value goes only into the index of its user.
IndexSetUser(r) ==
  /\ ddReq[r].pc = "index"
  /\ ddPast' = [ddPast EXCEPT !.indexed = @ \cup {ddCache[ddReq[r].q].stamp}]
  /\ Set(r, Ends(r, <<"allow">>))
  /\ UNCHANGED <<ddClient, ddTrace, ddRedis, ddRate, ddCache, ddIndex, ddInv>>

\* SADD to the index of the trace (and of the user), each with the cache's TTL.
IndexSet(r) ==
  LET q == ddReq[r].q IN
  /\ ddReq[r].pc = "index"
  /\ IF ddRedis.up
     THEN /\ ddIndex' = ddIndex \cup {q}
          /\ ddPast' = [ddPast EXCEPT !.indexed = @ \cup ({ddCache[q].stamp} \ {0})]
     ELSE UNCHANGED <<ddIndex, ddPast>>
  /\ Set(r, Ends(r, <<"allow">>))
  /\ UNCHANGED <<ddClient, ddTrace, ddRedis, ddRate, ddCache, ddInv>>

\* A late annotation is written: the trace has changed.  (due: the indexed entries
\* of this moment.)
Annotates(a) ==
  LET due == {ddCache[q].stamp : q \in DdQueries} \cap ddPast.indexed IN
  /\ ddInv[a].pc = "idle"
  /\ ddTrace' = [ddTrace EXCEPT !.ver = @ + 1]
  /\ ddInv' = [ddInv EXCEPT ![a] = [pc |-> "list", listed |-> {}, due |-> due, clean |-> TRUE]]
  /\ UNCHANGED <<ddClient, ddRedis, ddRate, ddCache, ddIndex, ddReq, ddPast>>

\* SMEMBERS, DEL of the values, DEL of the index: a failing call ends the rest.
Invalidates(a) ==
  LET inv == ddInv[a]
      to(pc) == ddInv' = [ddInv EXCEPT ![a].pc = pc] IN
  /\ inv.pc \in {"list", "delete", "drop"}
  /\ \/ /\ ~ddRedis.up
        /\ ddInv' = [ddInv EXCEPT ![a].pc = "done", ![a].clean = FALSE]
        /\ UNCHANGED <<ddCache, ddIndex, ddPast>>
     \/ /\ ddRedis.up /\ inv.pc = "list"
        /\ ddInv' = [ddInv EXCEPT ![a].pc = "delete", ![a].listed = ddIndex]
        /\ UNCHANGED <<ddCache, ddIndex, ddPast>>
     \/ /\ ddRedis.up /\ inv.pc = "delete" /\ to("drop")
        /\ ddCache' = [q \in DdQueries |-> IF q \in inv.listed THEN NoValue ELSE ddCache[q]]
        /\ UNCHANGED <<ddIndex, ddPast>>
     \/ /\ ddRedis.up /\ inv.pc = "drop" /\ to("done")
        /\ ddIndex' = {}
        /\ ddPast' = [ddPast EXCEPT !.orphans = @ \cup ({ddCache[q].stamp : q \in ddIndex} \ inv.due)]
        /\ UNCHANGED ddCache
  /\ UNCHANGED <<ddClient, ddTrace, ddRedis, ddRate, ddReq>>

\* A value lives for the cache's TTL; the index was given its TTL after the value,
\* so it goes last.
EntryExpires ==
  /\ \/ \E q \in DdQueries : /\ ddCache[q] # NoValue
                             /\ ddCache' = [ddCache EXCEPT ![q] = NoValue] /\ UNCHANGED ddIndex
     \/ /\ ddIndex # {} /\ \A q \in ddIndex : ddCache[q] = NoValue
        /\ ddIndex' = {} /\ UNCHANGED ddCache
  /\ UNCHANGED <<ddClient, ddTrace, ddRedis, ddRate, ddReq, ddInv, ddPast>>

\* The retention jobs move the trace to the next tier.
TierMoves ==
  /\ ddTrace.tier \in {"hot", "warm"}
  /\ ddTrace' = [ddTrace EXCEPT !.tier = IF @ = "hot" THEN "warm" ELSE "cold"]
  /\ UNCHANGED <<ddClient, ddRedis, ddRate, ddCache, ddIndex, ddReq, ddInv, ddPast>>

DdRedisFlips ==
  /\ ddRedis.flips < DdFlips
  /\ ddRedis' = [up |-> ~ddRedis.up, flips |-> ddRedis.flips + 1]
  /\ UNCHANGED <<ddClient, ddTrace, ddRate, ddCache, ddIndex, ddReq, ddInv, ddPast>>

DrillNext ==
  \/ \E r \in DdRequests :
       \/ \E q \in DdQueries : RequestArrives(r, q)
       \/ Expands(r) \/ RateChecked(r) \/ CacheGet(r)
       \/ TierRecovers(r, "hot", "warm") \/ TierRecovers(r, "warm", "cold")
       \/ \E athena \in BOOLEAN : ColdRecovers(r, athena)
       \/ ValueSet(r) \/ IndexSet(r)
  \/ \E a \in Annotators : Annotates(a) \/ Invalidates(a)
  \/ EntryExpires \/ TierMoves \/ DdRedisFlips

DrillSpec == DrillInit /\ [][DrillNext]_drillVars

DrillTypeOK ==
  /\ ddTrace.ver \in Nat /\ ddTrace.tier \in {"hot", "warm", "cold"}
  /\ ddRate \in [Users -> Nat] /\ ddIndex \subseteq DdQueries
  /\ \A r \in DdRequests : ddReq[r].q \in DdQueries
       /\ ddReq[r].pc \in {"idle", "expand", "rate", "get", "hot", "warm", "cold", "value", "index", "done"}
  /\ \A a \in Annotators : ddInv[a].listed \subseteq DdQueries

\* An entry that was stored and indexed before a late annotation does not survive
\* the annotation's invalidation, if Redis answered throughout: the exception is
\* an entry another invalidation dropped from the index without having listed it,
\* which stays, stale, until its TTL.
InvalidationComplete ==
  \A a \in Annotators : ddInv[a].pc = "done" /\ ddInv[a].clean =>
    {ddCache[q].stamp : q \in DdQueries} \cap ddInv[a].due \subseteq ddPast.orphans

\* Every request that has ended left one allow or deny event, an allow event means
\* an answer, and nothing is answered that the gates refuse.
RequestsAudited ==
  \A r \in DdRequests : ddReq[r].pc = "done" =>
    /\ Cardinality({i \in 1 .. Len(ddReq[r].audit) : ddReq[r].audit[i] \in {"allow", "deny"}}) = 1
    /\ ddReq[r].audit = <<"allow">> => ddReq[r].ver > 0 /\ Gate(ddReq[r].q) = "open"

\* Drill-down: an entry stored and indexed before a late annotation does not survive
\* its invalidation, unless another invalidation dropped it unlisted; and every request
\* that has ended left one allow or deny event (storage/drill_down.py, trace_viewer/ui.py).
DrillDownSafe == InvalidationComplete /\ RequestsAudited
=============================================================================
