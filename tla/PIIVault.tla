------------------------------ MODULE PIIVault ------------------------------
(***************************************************************************)
(* The vault behind PII masking: agent_obs/guardrail/vault_client.py, and  *)
(* the expiry job cleanup_vault_expired of agent_obs/storage/maintenance.py*)
(*                                                                         *)
(* VaultClient lives on one asyncio loop and hvac is synchronous, so       *)
(* store() and the read of recover() are single steps; recover() suspends  *)
(* at each Redis command of the MFA rate limit and at the audit write.     *)
(* The client is the JWT one: a connection is bound to the role it logged  *)
(* in with, and a role reaches the secrets of its own tenant only          *)
(* (infra/vault/policies/per-tenant.hcl).                                  *)
(***************************************************************************)
EXTENDS Integers, FiniteSets, FiniteSetsExt

CONSTANTS
  Callers,      \* tasks that call recover()
  Tenants,      \* tenants with a role and a transit key of their own
  NoTenant,     \* tenant_id = "": the legacy flat path and role "default"
  N,            \* length of VAULT_ADDRS
  MaxAttempts,  \* MFAConfig.max_attempts
  TTL,          \* ttl_seconds of a secret
  MaxEvents,    \* max_events of the expiry job
  RedisMayFail, \* whether a Redis command may raise
  MaxKeys,      \* bound: secrets ever stored
  MaxTime,      \* bound: the clock
  MaxCount      \* bound: the rate-limit counter as the model tells it apart

ASSUME VaultAssumption ==
  /\ N \in Nat \ {0} /\ TTL \in Nat /\ MaxEvents \in Nat
  /\ MaxAttempts \in Nat \ {0} /\ MaxCount \in Nat /\ MaxCount > MaxAttempts
  /\ NoTenant \notin Tenants /\ IsFiniteSet(Callers)
  /\ MaxKeys \in Nat /\ MaxTime \in Nat

VARIABLES
  now,       \* time.time()
  up,        \* external: the addresses that answer
  vault,     \* VaultClient's connections and the secrets they reach
  attempts,  \* external: rate_limit:vault:<login>, its count and whether it expires
             \* (`lost' remembers that an EXPIRE for it was never executed)
  call,      \* per caller: where its recover() stands, and its arguments
  audit,     \* external: audit_events_hot, as far as vault events go
  returned,  \* history: what recover() handed out, and to whom
  failures   \* history: wrong tokens of counted attempts since the counter last vanished

vaultVars == <<now, up, vault, attempts, call, audit, returned, failures>>

Addrs == 0 .. N - 1
Keys == 1 .. MaxKeys
NoClient == [role |-> "none"]
Roles == Tenants \cup {NoTenant}
Unused == [tenant |-> NoTenant, born |-> 0, state |-> "unused"]
NoAttempts == [count |-> 0, expires |-> FALSE, lost |-> FALSE]

VaultInit ==
  /\ now = 0 /\ up = Addrs
  /\ vault = [active |-> 0, dead |-> {}, clients |-> [a \in Addrs |-> NoClient],
              current |-> NoTenant, secrets |-> [k \in Keys |-> Unused]]
  /\ attempts = NoAttempts
  /\ call = [c \in Callers |-> [pc |-> "idle"]]
  /\ audit = {} /\ returned = {} /\ failures = 0

-----------------------------------------------------------------------------
(* Connections.  Each operator takes and returns the record `vault'.        *)

\* The next address: in ring order from the active one, those that are not
\* cooling down first, never one already tried.
SelectAddr(v, tried) ==
  LET ring(o) == (v.active + o) % N
      left == {o \in Addrs : ring(o) \notin tried}
      warm == {o \in left : ring(o) \notin v.dead}
  IN  IF warm # {} THEN ring(Min(warm)) ELSE IF left # {} THEN ring(Min(left)) ELSE v.active

\* Role of a new login: the tenant of the last store() that named one.
ConnectRole(v) == v.current

\* A client is made once per address and kept until an error drops it.
ClientFor(v, a) ==
  [v EXCEPT !.active = a,
            !.clients[a] = IF @ = NoClient THEN [role |-> ConnectRole(v)] ELSE @]

\* The address failed: cooldown, and its client is dropped.  A login that
\* fails raises before the active index moves.
Failed(v, a) ==
  [v EXCEPT !.active = IF v.clients[a] = NoClient THEN @ ELSE a,
            !.dead = @ \cup {a}, !.clients[a] = NoClient]

\* _with_failover: every address at most once.  `ok' is FALSE when all failed.
WithFailover(v) ==
  LET Loop[n \in 0 .. N] ==
        IF n = 0 THEN [v |-> v, tried |-> {}, ok |-> FALSE]
        ELSE LET p == Loop[n - 1]  a == SelectAddr(p.v, p.tried)
             IN  IF p.ok THEN p
                 ELSE [v |-> IF a \in up THEN ClientFor(p.v, a) ELSE Failed(p.v, a),
                       tried |-> p.tried \cup {a}, ok |-> a \in up]
  IN  Loop[N]

\* External: a role reaches the secrets of its own tenant.
Permits(v, t) == v.clients[v.active] = [role |-> t]

-----------------------------------------------------------------------------
(* store(): None on any failure, so the guardrail never sees an exception.  *)

FreeKey(v) == {k \in Keys : v.secrets[k] = Unused}

\* Mutant of Store: created_at is the time at which the secret expires.
StoreExpiry(v, t) ==
  LET f == WithFailover(IF t = NoTenant THEN v ELSE [v EXCEPT !.current = t])
      done == f.ok /\ Permits(f.v, t) /\ FreeKey(v) # {}
      k == Min(FreeKey(v))
  IN  [key |-> IF done THEN k ELSE 0,
       v |-> IF done THEN [f.v EXCEPT !.secrets[k] = [tenant |-> t, born |-> now + TTL, state |-> "live"]]
             ELSE f.v]

\* `key' is 0 when store() returned None.
Store(v, t) ==
  LET f == WithFailover(IF t = NoTenant THEN v ELSE [v EXCEPT !.current = t])
      done == f.ok /\ Permits(f.v, t) /\ FreeKey(v) # {}   \* bound: a full model vault refuses
      k == Min(FreeKey(v))
  IN  [key |-> IF done THEN k ELSE 0,
       v |-> IF done THEN [f.v EXCEPT !.secrets[k] = [tenant |-> t, born |-> now, state |-> "live"]]
             ELSE f.v]

\* store() or one element of store_batch(), called by anyone.
StoreOne(t) ==
  /\ vault' = Store(vault, t).v
  /\ UNCHANGED <<now, up, attempts, call, audit, returned, failures>>

-----------------------------------------------------------------------------
(* recover().                                                               *)

\* The tenant a key names.  Legacy keys have a random second segment, which
\* the code takes for a tenant: one that equals no caller's.
KeyTenant(k) == vault.secrets[k].tenant

At(c, pc) == call[c].pc = pc
Goto(c, pc) == call' = [call EXCEPT ![c].pc = pc]
Fails(c) == call' = [call EXCEPT ![c] = [pc |-> "idle"]]

\* Mutant of RateLimited: the task that created the counter forgets EXPIRE.
RateLimitedNoExpire(n) == IF n > MaxAttempts THEN "idle" ELSE "verify"

\* What the count means to the task that raised it.
RateLimited(n) == IF n = 1 THEN "expire" ELSE IF n > MaxAttempts THEN "idle" ELSE "verify"

\* A call with a reason, a login and a token.  The rate limit is first:
\* INCR, and EXPIRE only for the task that saw 1.
CheckRateLimit(c, key, t, good) ==
  /\ At(c, "idle")
  /\ LET n == Min({attempts.count + 1, MaxCount})
     IN  \/ /\ attempts' = [attempts EXCEPT !.count = n]
            /\ call' = [call EXCEPT ![c] =
                 [pc |-> RateLimited(n),
                  key |-> key, tenant |-> t, good |-> good, counted |-> TRUE]]
         \/ /\ RedisMayFail        \* the check fails open
            /\ call' = [call EXCEPT ![c] =
                 [pc |-> "verify", key |-> key, tenant |-> t, good |-> good, counted |-> FALSE]]
            /\ UNCHANGED attempts
  /\ UNCHANGED <<now, up, vault, audit, returned, failures>>

\* EXPIRE of a key that another task deleted in between does nothing.  A
\* Redis error is logged and forgotten.
SetsExpiry ==
  \/ attempts' = [attempts EXCEPT !.expires = attempts.count > 0]
  \/ RedisMayFail /\ attempts' = [attempts EXCEPT !.lost = attempts.count > 0]

FirstExpire(c) ==
  /\ At(c, "expire") /\ Goto(c, "verify")
  /\ SetsExpiry
  /\ UNCHANGED <<now, up, vault, audit, returned, failures>>

\* totp.verify: a wrong token is counted once more before the error.
VerifyMFA(c) ==
  /\ At(c, "verify")
  /\ call' = [call EXCEPT ![c] =
                IF @.good THEN [pc |-> "reset", key |-> @.key, tenant |-> @.tenant] ELSE [pc |-> "count"]]
  /\ failures' = IF call[c].counted /\ ~call[c].good THEN Min({failures + 1, MaxCount}) ELSE failures
  /\ UNCHANGED <<now, up, vault, attempts, audit, returned>>

RecordFailedAttempt(c) ==
  /\ At(c, "count")
  /\ \/ /\ attempts' = [attempts EXCEPT !.count = Min({@ + 1, MaxCount})]
        /\ Goto(c, "expire2")
     \/ RedisMayFail /\ UNCHANGED attempts /\ Fails(c)
  /\ UNCHANGED <<now, up, vault, audit, returned, failures>>

FailedAttemptExpires(c) ==
  /\ At(c, "expire2") /\ Fails(c)
  /\ SetsExpiry
  /\ UNCHANGED <<now, up, vault, audit, returned, failures>>

ResetRateLimit(c) ==
  /\ At(c, "reset") /\ Goto(c, "read")
  /\ \/ attempts' = NoAttempts /\ failures' = 0
     \/ RedisMayFail /\ UNCHANGED <<attempts, failures>>
  /\ UNCHANGED <<now, up, vault, audit, returned>>

\* The rule of recover(): a secret is good up to and including its last second.
Expired(k) == now > vault.secrets[k].born + TTL

\* The cross-tenant guard: a caller that names a tenant, not the key's.
Foreign(c) == call[c].tenant # NoTenant /\ KeyTenant(call[c].key) # call[c].tenant

\* Tenant guard, read, TTL check and decryption: no await in between.
Read(c) ==
  LET k == call[c].key  f == WithFailover(vault)
  IN  /\ At(c, "read")
      /\ IF Foreign(c) THEN Goto(c, "deny") /\ UNCHANGED vault
         ELSE /\ vault' = f.v
              /\ IF /\ f.ok /\ vault.secrets[k].state = "live"
                    /\ Permits(f.v, KeyTenant(k)) /\ ~Expired(k)
                 THEN Goto(c, "audit") ELSE Fails(c)
      /\ UNCHANGED <<now, up, attempts, audit, returned, failures>>

\* RecoveryAuditEvent.for_vault_recovery: its decision is always "allow".
RecoveryEvent(c) == [action |-> "vault.recover", key |-> call[c].key, tenant |-> call[c].tenant]

\* A refused caller is audited if the store takes the event, and refused anyway.
Deny(c) ==
  /\ At(c, "deny") /\ Fails(c)
  /\ audit' \in {audit, audit \cup {RecoveryEvent(c)}}
  /\ UNCHANGED <<now, up, vault, attempts, returned, failures>>

\* The value is handed out only if the audit write succeeded.
AuditAndReturn(c) ==
  /\ At(c, "audit") /\ Fails(c)
  /\ \/ /\ audit' = audit \cup {RecoveryEvent(c)}
        /\ returned' = returned \cup
             {[key |-> call[c].key, tenant |-> call[c].tenant]}
     \/ UNCHANGED <<audit, returned>>
  /\ UNCHANGED <<now, up, vault, attempts, failures>>

-----------------------------------------------------------------------------
(* cleanup_vault_expired(): one pass.  LIST is ordered and the scan stops    *)
(* after MaxEvents entries, expired or not.                                 *)

Listed == {k \in Keys : vault.secrets[k].state = "live"}
Scanned == {k \in Listed : Cardinality({j \in Listed : j <= k}) <= MaxEvents}

\* The rule of the job: expires_at <= now.
Lapsed(k) == vault.secrets[k].born + TTL <= now

\* LeaseExpiryAuditEvent.for_expired_lease
ExpiryEvent(k) == [action |-> "vault.lease_expired", key |-> k]

\* Nothing is deleted unless the batch of audit events was written; each
\* delete may fail by itself.
Cleanup ==
  LET found == {k \in Scanned : Lapsed(k)}
  IN  /\ found # {}
      /\ \E gone \in SUBSET found :
           /\ audit' = audit \cup {ExpiryEvent(k) : k \in found}
           /\ vault' = [vault EXCEPT !.secrets =
                          [k \in Keys |-> IF k \in gone THEN [@[k] EXCEPT !.state = "gone"] ELSE @[k]]]
      /\ UNCHANGED <<now, up, attempts, call, returned, failures>>

-----------------------------------------------------------------------------
(* The surroundings.                                                        *)

\* TTL of the Redis key.
RateLimitExpires ==
  /\ attempts.expires
  /\ attempts' = NoAttempts /\ failures' = 0
  /\ UNCHANGED <<now, up, vault, call, audit, returned>>

AddrsChange ==
  /\ up' \in SUBSET Addrs /\ up' # up
  /\ UNCHANGED <<now, vault, attempts, call, audit, returned, failures>>

CooldownEnds(a) ==
  /\ a \in vault.dead
  /\ vault' = [vault EXCEPT !.dead = @ \ {a}]
  /\ UNCHANGED <<now, up, attempts, call, audit, returned, failures>>

Tick ==
  /\ now < MaxTime /\ now' = now + 1
  /\ UNCHANGED <<up, vault, attempts, call, audit, returned, failures>>

\* The task is cancelled, or its process killed, at one of the awaits.
Cancelled(c) ==
  /\ ~At(c, "idle") /\ Fails(c)
  /\ attempts' = [attempts EXCEPT !.lost = @ \/ (call[c].pc \in {"expire", "expire2"} /\ attempts.count > 0)]
  /\ UNCHANGED <<now, up, vault, audit, returned, failures>>

Recover(c) ==
  \/ \E k \in Listed, t \in Roles, good \in BOOLEAN : CheckRateLimit(c, k, t, good)
  \/ FirstExpire(c) \/ VerifyMFA(c) \/ RecordFailedAttempt(c)
  \/ FailedAttemptExpires(c) \/ ResetRateLimit(c)
  \/ Read(c) \/ Deny(c) \/ AuditAndReturn(c) \/ Cancelled(c)

\* Engineers recover while secrets are stored and expire.
VaultNext ==
  \/ \E c \in Callers : Recover(c)
  \/ \E t \in Roles : StoreOne(t)
  \/ Cleanup \/ RateLimitExpires \/ Tick

\* The addresses behind the client.
AddrsNext == AddrsChange \/ \E a \in Addrs : CooldownEnds(a)

-----------------------------------------------------------------------------
(* Properties.                                                              *)

VaultTypeOK ==
  /\ now \in 0 .. MaxTime /\ up \subseteq Addrs
  /\ vault.active \in Addrs /\ vault.dead \subseteq Addrs /\ vault.current \in Roles
  /\ vault.clients \in [Addrs -> [role : Roles] \cup {NoClient}]
  /\ vault.secrets \in [Keys -> [tenant : Roles, born : 0 .. MaxTime,
                                  state : {"unused", "live", "gone"}]]
  /\ attempts \in [count : 0 .. MaxCount, expires : BOOLEAN, lost : BOOLEAN]

\* A login is never locked out for good by tasks that overlap: a rate-limit
\* counter without expiry has a task about to set it, unless the EXPIRE that
\* should have followed its INCR was lost (_check_rate_limit and
\* _record_failed_attempt issue the two as separate commands).
LockoutExplained ==
  attempts.count > 0 /\ ~attempts.expires /\ ~attempts.lost =>
    \E c \in Callers : call[c].pc \in {"expire", "expire2"}

\* However attempts overlap, wrong tokens that the counter admitted do not
\* exceed max_attempts by more than the attempts that were in flight when a
\* success or the cooldown removed the counter.
GuessesBounded == failures <= MaxAttempts + Cardinality(Callers)

\* recover() hands a value out only with its audit event on record, and never
\* to a caller that names another tenant than the key does.
RecoveriesAccounted ==
  \A r \in returned :
    /\ [action |-> "vault.recover", key |-> r.key, tenant |-> r.tenant] \in audit
    /\ r.tenant = NoTenant \/ r.tenant = vault.secrets[r.key].tenant

\* The expiry job deletes what it has put on record, and nothing young.
DeletionsAccounted ==
  \A k \in Keys : vault.secrets[k].state = "gone" => ExpiryEvent(k) \in audit /\ vault.secrets[k].born + TTL <= now

\* Refuted: "i.e. exactly the rule recover() enforces" (maintenance.py, on
\* _kv_entry_expiry).  In the last second of a secret the job deletes what
\* recover() would still return.
CleanupSparesRecoverable ==
  [][\A k \in Keys : /\ vault.secrets[k].state = "live" /\ vault'.secrets[k].state = "gone"
                    => Expired(k)]_vaultVars

\* Refuted: "if every address fails" is not the only way a store fails; a
\* client keeps the role of the tenant it was made for.
RoleFitsTenant == \A a \in Addrs : vault.clients[a] \in {NoClient, [role |-> vault.current]}

\* The vault.  No login is locked out for good by attempts that overlap, and the wrong
\* tokens admitted exceed max_attempts by at most the attempts in flight, although INCR
\* and EXPIRE are two commands; recover() returns a value only with its audit event on
\* record and never across tenants; and the expiry job deletes only what it has put on
\* record and nothing young (guardrail/vault_client.py _check_rate_limit, recover;
\* storage/maintenance.py cleanup_vault).
VaultSafe == LockoutExplained /\ GuessesBounded /\ RecoveriesAccounted /\ DeletionsAccounted
=============================================================================
