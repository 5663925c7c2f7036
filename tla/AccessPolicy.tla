---------------------------- MODULE AccessPolicy ----------------------------
(***************************************************************************)
(* Role-based access (rbac/roles.py) and its policy engine                 *)
(* (rbac/policy_engine.py): the role of a user comes from a store that     *)
(* load() refreshes from Postgres, the decision from OPA, and a Redis      *)
(* cache keeps decisions by user, action and resource.  Checks and loads   *)
(* interleave at their awaits; every failure denies.                       *)
(***************************************************************************)
EXTENDS Naturals

CONSTANTS
  ApUsers,      \* user logins
  ApRows,       \* roles a row of user_roles may name, unknown ones included
  ApRequests,   \* requests: user, action, mfa, and the tenants of user and resource
  ApChecks,     \* concurrent calls of check()
  ApTTL,        \* OPA_CACHE_TTL, in ticks
  ApTicks,      \* bound: ticks
  ApLoads,      \* bound: loads of the role store
  ApGrants      \* bound: changes of a row of user_roles

ASSUME AccessAssumption == ApTTL \in Nat \ {0} /\ {ApTicks, ApLoads, ApGrants} \subseteq Nat

VARIABLES
  apTable,   \* user_roles in Postgres: user -> role or none
  apStore,   \* the store's mapping, and whether the last load succeeded
  apLoad,    \* the load under way: pc and the rows it fetched
  apCheck,   \* per call of check(): pc, request, the role it read, its verdict, why,
              \* and the cache entry it took it from
  apCache,   \* decision cache: key -> verdict, time left and age, and the call that stored it
  apBudget   \* what is left of ticks, loads and grants

accessVars == <<apTable, apStore, apLoad, apCheck, apCache, apBudget>>

ALL_PERMISSIONS ==
  {"trace:read", "trace:write", "span:write", "metrics:write", "pii:recover", "policy:write", "config:write",
   "deploy:gate", "audit:read", "slo:read", "slo:write", "compliance:export", "compressed:expand"}
ROLES ==
  [admin     |-> {"trace:read", "pii:recover", "policy:write", "config:write", "deploy:gate", "audit:read",
                  "slo:write", "compressed:expand"},
   sre       |-> {"trace:read", "pii:recover", "config:write", "deploy:gate", "audit:read", "slo:read",
                  "compressed:expand"},
   developer |-> {"trace:read", "audit:read", "slo:read", "compressed:expand"},
   dpo       |-> {"trace:read", "audit:read", "compliance:export"},
   auditor   |-> {"audit:read", "compliance:export"},
   agent     |-> {"trace:write", "span:write", "metrics:write"}]

\* validate_roles(), which the import runs on ROLES.
ValidRoles(roles) ==
  /\ DOMAIN roles = {"admin", "sre", "developer", "dpo", "auditor", "agent"}
  /\ \A r \in DOMAIN roles : roles[r] # {} /\ roles[r] \subseteq ALL_PERMISSIONS
  /\ \A r, s \in DOMAIN roles : roles[r] = roles[s] => r = s
  /\ roles["agent"] \subseteq {"trace:write", "span:write", "metrics:write"}
ASSUME RolesAssumption == ValidRoles(ROLES)

\* observability.rego: the tenants match, the role holds the action, and an
\* action of the MFA list needs the challenge passed.
OpaAllows(role, q) ==
  /\ role \in DOMAIN ROLES /\ q.action \in ROLES[role]
  /\ q.own
  /\ q.action \in {"pii:recover", "audit:read:raw"} => q.mfa

\* RBAC.check(): the role alone.
RbacAllows(role, q) == role \in DOMAIN ROLES /\ q.action \in ROLES[role]

\* _cache_key(): neither the role, nor the tenant, nor MFA is part of it.
CacheKey(q) == <<q.user, q.action, q.resource>>
ApKeys == {CacheKey(q) : q \in ApRequests}

AnyRequest == CHOOSE q \in ApRequests : TRUE
Miss == [verdict |-> "none", left |-> 0, age |-> 0, role |-> "none", req |-> AnyRequest]
Fresh == [pc |-> "free", req |-> AnyRequest, role |-> "none", verdict |-> "none", why |-> "none", from |-> Miss]

\* get_role(): a role the model does not know is none.
GetRole(store, u) == IF store.map[u] \in DOMAIN ROLES THEN store.map[u] ELSE "none"

Nobody == [u \in ApUsers |-> "none"]

AccessInit ==
  /\ apTable \in [ApUsers -> ApRows]
  /\ apStore = [map |-> Nobody, loaded |-> FALSE]
  /\ apLoad = [pc |-> "idle", rows |-> Nobody]
  /\ apCheck = [c \in ApChecks |-> Fresh]
  /\ apCache = [k \in ApKeys |-> Miss]
  /\ apBudget = [ticks |-> ApTicks, loads |-> ApLoads, grants |-> ApGrants]

\* external: somebody edits user_roles.
GrantRole(u, role) ==
  /\ apBudget.grants > 0 /\ apTable[u] # role
  /\ apTable' = [apTable EXCEPT ![u] = role]
  /\ apBudget' = [apBudget EXCEPT !.grants = @ - 1]
  /\ UNCHANGED <<apStore, apLoad, apCheck, apCache>>

\* load(): connect and SELECT, then close the connection.
LoadFetches ==
  /\ apLoad.pc = "idle" /\ apBudget.loads > 0
  /\ apLoad' = [pc |-> "fetched", rows |-> apTable]
  /\ apBudget' = [apBudget EXCEPT !.loads = @ - 1]
  /\ UNCHANGED <<apTable, apStore, apCheck, apCache>>

\* asyncpg, the connection or the query fails: the store is emptied.
LoadFails ==
  /\ apLoad.pc = "idle" /\ apBudget.loads > 0
  /\ apStore' = [map |-> Nobody, loaded |-> FALSE]
  /\ apBudget' = [apBudget EXCEPT !.loads = @ - 1]
  /\ UNCHANGED <<apTable, apLoad, apCheck, apCache>>

\* The rows with a known role become the store.
LoadStores ==
  /\ apLoad.pc = "fetched"
  /\ apStore' = [map |-> [u \in ApUsers |-> IF apLoad.rows[u] \in DOMAIN ROLES THEN apLoad.rows[u] ELSE "none"],
                 loaded |-> TRUE]
  /\ apLoad' = [pc |-> "idle", rows |-> Nobody]
  /\ UNCHANGED <<apTable, apCheck, apCache, apBudget>>

\* check(): no user, action or role: denied without the cache and without OPA.
RoleRead(c, role) == IF role = "none" THEN "done" ELSE "cache"

CheckBegins(c, q) ==
  /\ apCheck[c].pc \in {"free", "done"}
  /\ LET role == GetRole(apStore, q.user)
         pc == RoleRead(c, role) IN
     apCheck' = [apCheck EXCEPT ![c] =
       [pc |-> pc, req |-> q, role |-> role, verdict |-> IF pc = "done" THEN "deny" ELSE "none",
        why |-> IF pc = "done" THEN "role" ELSE "none", from |-> Miss]]
  /\ UNCHANGED <<apTable, apStore, apLoad, apCache, apBudget>>

\* _cache_get(): a verdict ends the call; a miss, an error or no client goes on to OPA.
CacheHit(c) ==
  /\ apCheck[c].pc = "cache" /\ apCache[CacheKey(apCheck[c].req)].verdict # "none"
  /\ apCheck' = [apCheck EXCEPT ![c].pc = "done", ![c].why = "cache",
                                ![c].verdict = apCache[CacheKey(apCheck[c].req)].verdict,
                                ![c].from = apCache[CacheKey(apCheck[c].req)]]
  /\ UNCHANGED <<apTable, apStore, apLoad, apCache, apBudget>>
CacheMiss(c) ==
  /\ apCheck[c].pc = "cache"
  /\ apCheck' = [apCheck EXCEPT ![c].pc = "opa"]
  /\ UNCHANGED <<apTable, apStore, apLoad, apCache, apBudget>>

\* A plausible slip: an outage of OPA lets the request through.
OpaVerdictOpen(c, down) == IF down \/ OpaAllows(apCheck[c].role, apCheck[c].req) THEN "allow" ELSE "deny"

\* _query_opa(): only an explicit true allows; an error, a timeout or a shape denies.
OpaVerdict(c, down) == IF ~down /\ OpaAllows(apCheck[c].role, apCheck[c].req) THEN "allow" ELSE "deny"

QueryOpa(c, down) ==
  /\ apCheck[c].pc = "opa"
  /\ apCheck' = [apCheck EXCEPT ![c].pc = "stores", ![c].verdict = OpaVerdict(c, down),
                                ![c].why = IF down THEN "outage" ELSE "opa"]
  /\ UNCHANGED <<apTable, apStore, apLoad, apCache, apBudget>>

Entry(c) ==
  [verdict |-> apCheck[c].verdict, left |-> ApTTL, age |-> 0, role |-> apCheck[c].role, req |-> apCheck[c].req]

\* _cache_set(): denials of an outage are kept like any other; an error is ignored.
CacheSet(c, stored) ==
  /\ apCheck[c].pc = "stores"
  /\ apCheck' = [apCheck EXCEPT ![c].pc = "done"]
  /\ apCache' = IF stored THEN [apCache EXCEPT ![CacheKey(apCheck[c].req)] = Entry(c)] ELSE apCache
  /\ UNCHANGED <<apTable, apStore, apLoad, apBudget>>

\* external: Redis lets entries expire.
AccessTick ==
  /\ apBudget.ticks > 0
  /\ apBudget' = [apBudget EXCEPT !.ticks = @ - 1]
  /\ apCache' = [k \in ApKeys |-> IF apCache[k].left <= 1 THEN Miss ELSE [apCache[k] EXCEPT !.left = @ - 1, !.age = @ + 1]]
  /\ UNCHANGED <<apTable, apStore, apLoad, apCheck>>

AccessNext ==
  \/ \E u \in ApUsers, role \in ApRows : GrantRole(u, role)
  \/ LoadFetches \/ LoadFails \/ LoadStores
  \/ \E c \in ApChecks, q \in ApRequests : CheckBegins(c, q)
  \/ \E c \in ApChecks : CacheHit(c) \/ CacheMiss(c)
  \/ \E c \in ApChecks, b \in BOOLEAN : QueryOpa(c, b) \/ CacheSet(c, b)
  \/ AccessTick

AccessSpec == AccessInit /\ [][AccessNext]_accessVars

-----------------------------------------------------------------------------
AccessTypeOK ==
  /\ apTable \in [ApUsers -> ApRows] /\ apStore.map \in [ApUsers -> DOMAIN ROLES \cup {"none"}]
  /\ \A c \in ApChecks : apCheck[c].pc \in {"free", "cache", "opa", "stores", "done"}
  /\ \A k \in ApKeys : apCache[k].left \in 0 .. ApTTL

\* A call is allowed only if its user had a role when it began and OPA allowed
\* that role's request, or the request of an earlier call with the same user,
\* action and resource whose verdict was stored less than the TTL ago.  An
\* outage of OPA allows nothing, and no grant survives a failed load
\* (check, _query_opa, _cache_set, PostgresRoleStore.load).
AllowsJustified ==
  /\ \A c \in ApChecks : apCheck[c].verdict = "allow" =>
       /\ apCheck[c].role # "none"
       /\ \/ apCheck[c].why = "opa" /\ OpaAllows(apCheck[c].role, apCheck[c].req)
             /\ RbacAllows(apCheck[c].role, apCheck[c].req)
          \/ /\ apCheck[c].why = "cache" /\ apCheck[c].from.age < ApTTL
             /\ OpaAllows(apCheck[c].from.role, apCheck[c].from.req)
             /\ CacheKey(apCheck[c].from.req) = CacheKey(apCheck[c].req)
  /\ ~apStore.loaded => apStore.map = Nobody

=============================================================================
