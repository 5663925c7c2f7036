-------------------------- MODULE RequestPathProofs --------------------------
(***************************************************************************)
(* Proofs about what a request passes on its way: the vault and the        *)
(* guarded call (PIIVault, GuardedCall), the shared proxy and its decision *)
(* recorder (SharedProxy), and the sums its cost ends up in                *)
(* (CostAttribution).  Each part has its own specification and its own     *)
(* inductive invariant; the header of the part says why the property is    *)
(* not inductive as it stands.                                             *)
(***************************************************************************)
EXTENDS GuardedCall, MCSharedCost, FiniteFacts

\* Min of two numbers, the way the model writes a bound.
LEMMA MinOfTwo ==
    ASSUME NEW a \in Nat, NEW b \in Nat
    PROVE  Min({a, b}) = IF a <= b THEN a ELSE b
<1>1. Min({a, b}) \in {a, b} /\ \A e \in {a, b} : Min({a, b}) <= e
  BY MinIsLeast
<1>. QED  BY <1>1
-----------------------------------------------------------------------------
(* The vault's connections.  _with_failover moves the active address, drops *)
(* and makes clients and starts cooldowns; the secrets it leaves alone.     *)

Connections(secrets) ==
  [active : Addrs, dead : SUBSET Addrs,
   clients : [Addrs -> [role : Roles] \cup {NoClient}],
   current : Roles, secrets : {secrets}]

\* The address that is tried next is one of VAULT_ADDRS.
LEMMA SelectAddrType ==
    ASSUME NEW v, v.active \in Addrs, NEW tried
    PROVE  SelectAddr(v, tried) \in Addrs
<1>. DEFINE ring(o) == (v.active + o) % N
            left == {o \in Addrs : ring(o) \notin tried}
            fresh == {o \in left : ring(o) \notin v.dead}
<1>1. \A o \in Addrs : ring(o) \in Addrs
  BY VaultAssumption DEF Addrs
<1>2. ASSUME NEW D, D \subseteq Addrs, D # {}
      PROVE  Min(D) \in Addrs
  <2>1. D \subseteq Nat
    BY <1>2, VaultAssumption DEF Addrs
  <2>. QED  BY <1>2, <2>1, MinIsLeast
<1>3. fresh \subseteq Addrs /\ left \subseteq Addrs
  OBVIOUS
<1>. HIDE DEF ring, left, fresh
<1>4. (IF fresh # {} THEN ring(Min(fresh)) ELSE IF left # {} THEN ring(Min(left)) ELSE v.active)
        \in Addrs
  BY <1>1, <1>2, <1>3
<1>. QED  BY <1>4 DEF SelectAddr, ring, left, fresh

\* One more round of the loop of _with_failover, from what the last one left.
Round(p) ==
  LET a == SelectAddr(p.v, p.tried)
  IN  IF p.ok THEN p
      ELSE [v |-> IF a \in up THEN ClientFor(p.v, a) ELSE Failed(p.v, a),
            tried |-> p.tried \cup {a}, ok |-> a \in up]

\* Before the first round.
NoRound(v) == [v |-> v, tried |-> {}, ok |-> FALSE]

\* f runs the loop of _with_failover for k rounds.
Rounds(f, k, v) == f = [n \in 0 .. k |-> IF n = 0 THEN NoRound(v) ELSE Round(f[n - 1])]

\* A loop of k - 1 rounds goes on for one more.
LEMMA OneMoreRound ==
    ASSUME NEW v, NEW k \in Nat \ {0}, NEW g, Rounds(g, k - 1, v)
    PROVE  \E f : Rounds(f, k, v)
<1>. DEFINE f == [n \in 0 .. k |-> IF n = k THEN Round(g[k - 1]) ELSE g[n]]
            h == [n \in 0 .. k |-> IF n = 0 THEN NoRound(v) ELSE Round(f[n - 1])]
<1>1. ASSUME NEW n \in 0 .. k
      PROVE  f[n] = h[n]
  <2>1. CASE n = 0
    <3>1. g[0] = NoRound(v)
      BY DEF Rounds
    <3>. QED  BY <2>1, <3>1
  <2>2. CASE n = k
    <3>1. f[n] = Round(g[k - 1]) /\ f[n - 1] = g[k - 1]
      BY <2>2
    <3>. QED  BY <2>2, <3>1
  <2>3. CASE n # 0 /\ n # k
    <3>1. n \in 0 .. k - 1 /\ n - 1 \in 0 .. k /\ n - 1 # k
      BY <2>3
    <3>2. g[n] = Round(g[n - 1])
      BY <2>3, <3>1 DEF Rounds
    <3>3. f[n] = g[n] /\ f[n - 1] = g[n - 1] /\ h[n] = Round(f[n - 1])
      BY <2>3, <3>1
    <3>. QED  BY <3>2, <3>3
  <2>. QED  BY <2>1, <2>2, <2>3
<1>2. f = h
  <2>. HIDE DEF Rounds
  <2>. QED  BY <1>1
<1>3. Rounds(f, k, v)
  BY <1>2 DEF Rounds
<1>. QED  BY <1>3

\* What the recursion of the loop defines has to be shown to exist: there is a
\* loop of no rounds, and of one round more than any.
LEMMA LoopExists ==
    ASSUME NEW v, NEW k \in Nat
    PROVE  \E f : Rounds(f, k, v)
<1>. DEFINE Bad == {j \in Nat : ~ \E f : Rounds(f, j, v)}
<1>1. 0 \notin Bad
  <2>1. Rounds([n \in 0 .. 0 |-> NoRound(v)], 0, v)
    BY DEF Rounds
  <2>. QED  BY <2>1
<1>2. ASSUME NEW j \in Bad, \A e \in Bad : j <= e
      PROVE  FALSE
  <2>1. j \in Nat \ {0}
    BY <1>1
  <2>2. j - 1 \in Nat /\ j - 1 \notin Bad
    <3>. HIDE DEF Bad
    <3>. QED  BY <1>2, <2>1
  <2>3. PICK g : Rounds(g, j - 1, v)
    BY <2>2
  <2>. QED  BY <2>1, <2>3, OneMoreRound
<1>3. Bad = {}
  <2>. HIDE DEF Bad
  <2>1. Bad \subseteq Nat
    BY DEF Bad
  <2>. QED  BY <1>2, <2>1, MinIsLeast
<1>. QED  BY <1>3

\* _with_failover is N rounds of the loop.
LEMMA FailoverLoop ==
    ASSUME NEW v
    PROVE  \E f : Rounds(f, N, v) /\ WithFailover(v) = f[N]
<1>1. \E f : Rounds(f, N, v)
  BY LoopExists, VaultAssumption
<1>. DEFINE loop == CHOOSE f : Rounds(f, N, v)
<1>2. Rounds(loop, N, v)
  BY <1>1, Zenon
<1>3. WithFailover(v) = loop[N]
  BY DEF WithFailover, Rounds, Round, NoRound
<1>. QED  BY <1>2, <1>3

\* Whatever the addresses do, _with_failover leaves connections behind that are
\* connections, and the secrets as they were.
LEMMA FailoverKeeps ==
    ASSUME NEW secrets, NEW v \in Connections(secrets)
    PROVE  WithFailover(v).v \in Connections(secrets)
<1>1. NoRound(v).v \in Connections(secrets)
  BY DEF NoRound
<1>2. ASSUME NEW p, p.v \in Connections(secrets)
      PROVE  Round(p).v \in Connections(secrets)
  <2>. DEFINE a == SelectAddr(p.v, p.tried)
  <2>1. a \in Addrs
    BY <1>2, SelectAddrType DEF Connections
  <2>2. ClientFor(p.v, a) \in Connections(secrets)
    BY <1>2, <2>1 DEF ClientFor, ConnectRole, Connections
  <2>3. Failed(p.v, a) \in Connections(secrets)
    BY <1>2, <2>1 DEF Failed, Connections
  <2>. HIDE DEF a
  <2>4. p.ok \/ Round(p).v = (IF a \in up THEN ClientFor(p.v, a) ELSE Failed(p.v, a))
    BY DEF Round, a
  <2>5. p.ok => Round(p) = p
    BY DEF Round
  <2>. QED  BY <1>2, <2>2, <2>3, <2>4, <2>5
<1>3. PICK f : Rounds(f, N, v) /\ WithFailover(v) = f[N]
  BY FailoverLoop
<1>. DEFINE Bad == {n \in 0 .. N : f[n].v \notin Connections(secrets)}
<1>4. 0 \notin Bad
  BY <1>1, <1>3, VaultAssumption DEF Rounds
<1>5. ASSUME NEW n \in Bad, \A e \in Bad : n <= e
      PROVE  FALSE
  <2>1. n \in 0 .. N /\ n # 0 /\ n - 1 \in 0 .. N
    BY <1>4, VaultAssumption
  <2>2. f[n] = Round(f[n - 1])
    BY <1>3, <2>1 DEF Rounds
  <2>3. f[n - 1].v \in Connections(secrets)
    BY <1>5, <2>1
  <2>. QED  BY <1>2, <2>2, <2>3
<1>6. Bad = {}
  <2>1. Bad \subseteq Nat
    OBVIOUS
  <2>. HIDE DEF Bad
  <2>. QED  BY <1>5, <2>1, MinIsLeast
<1>. QED  BY <1>3, <1>6, VaultAssumption
-----------------------------------------------------------------------------
(* The vault.  None of the parts of VaultSafe is inductive: the guesses      *)
(* need a count of the attempts in flight, and what is handed out or deleted *)
(* needs that a stored secret keeps its tenant and its age.                  *)

Secret == [tenant : Roles, born : 0 .. MaxTime, state : {"unused", "live", "gone"}]
VaultShape == [active : Addrs, dead : SUBSET Addrs,
               clients : [Addrs -> [role : Roles] \cup {NoClient}],
               current : Roles, secrets : [Keys -> Secret]]

\* What a task knows at each point of recover().
CallShape ==
  [pc : {"idle", "count", "expire2"}]
    \cup [pc : {"idle", "expire", "verify"}, key : Keys, tenant : Roles,
          good : BOOLEAN, counted : BOOLEAN]
    \cup [pc : {"reset", "read", "deny", "audit"}, key : Keys, tenant : Roles]

VaultShapes ==
  /\ now \in 0 .. MaxTime /\ up \subseteq Addrs
  /\ vault \in VaultShape
  /\ attempts \in [count : 0 .. MaxCount, expires : BOOLEAN, lost : BOOLEAN]
  /\ call \in [Callers -> CallShape]
  /\ failures \in 0 .. MaxCount

\* The tasks whose attempt was counted and admitted, and not yet verified.
Guessing == {c \in Callers : call[c].pc \in {"expire", "verify"} /\ call[c].counted}

\* Wrong tokens so far, and those that may still turn out wrong.
GuessesCounted ==
  failures + Cardinality(Guessing)
    <= (IF attempts.count <= MaxAttempts THEN attempts.count ELSE MaxAttempts) + Cardinality(Callers)

\* A caller past the tenant guard may have the secret, which is one.
Entitled(key, t) ==
  /\ vault.secrets[key].state # "unused"
  /\ t = NoTenant \/ t = vault.secrets[key].tenant

RecoveriesEntitled ==
  /\ \A c \in Callers : call[c].pc = "audit" => Entitled(call[c].key, call[c].tenant)
  /\ \A r \in returned :
       /\ r.key \in Keys /\ Entitled(r.key, r.tenant)
       /\ [action |-> "vault.recover", key |-> r.key, tenant |-> r.tenant] \in audit

VaultInv ==
  VaultShapes /\ LockoutExplained /\ GuessesCounted /\ RecoveriesEntitled /\ DeletionsAccounted

\* What a vault may become: a secret once stored keeps its tenant and age.
Keeps(v, w) ==
  \A k \in Keys : /\ v.secrets[k].state # "unused" => w.secrets[k] = v.secrets[k]
                  /\ w.secrets[k].state = "gone" => w.secrets[k] = v.secrets[k]

\* The key that store() picks is a free one.
LEMMA FreeKeyIsFree ==
    ASSUME NEW v, FreeKey(v) # {}
    PROVE  Min(FreeKey(v)) \in Keys /\ v.secrets[Min(FreeKey(v))] = Unused
<1>1. FreeKey(v) \subseteq Nat
  BY VaultAssumption DEF FreeKey, Keys
<1>2. Min(FreeKey(v)) \in FreeKey(v)
  BY <1>1, MinIsLeast
<1>. QED  BY <1>2 DEF FreeKey

\* store() leaves a vault, and every secret that it holds.
LEMMA StoreKeeps ==
    ASSUME NEW v \in VaultShape, NEW t \in Roles, now \in 0 .. MaxTime
    PROVE  Store(v, t).v \in VaultShape /\ Keeps(v, Store(v, t).v)
<1>. DEFINE u == IF t = NoTenant THEN v ELSE [v EXCEPT !.current = t]
            f == WithFailover(u)
            done == f.ok /\ Permits(f.v, t) /\ FreeKey(v) # {}
            k == Min(FreeKey(v))
            w == IF done THEN [f.v EXCEPT !.secrets[k] = [tenant |-> t, born |-> now, state |-> "live"]]
                 ELSE f.v
<1>1. u \in Connections(v.secrets)
  BY DEF Connections, VaultShape, Roles
<1>2. f.v \in Connections(v.secrets)
  <2>. HIDE DEF u
  <2>. QED  BY <1>1, FailoverKeeps
<1>3. Store(v, t).v = w
  BY Zenon DEF Store
<1>4. done => k \in Keys /\ v.secrets[k] = Unused
  BY FreeKeyIsFree
<1>. HIDE DEF u, f, done, k
<1>5. w \in VaultShape
  BY <1>2, <1>4 DEF Connections, VaultShape, Secret
<1>6. Keeps(v, w)
  BY <1>2, <1>4 DEF Connections, Keeps, Unused, VaultShape
<1>. QED  BY <1>3, <1>5, <1>6

\* The steps of recover() keep the shape of what a task knows, and the rest of
\* the vault's state with it.
LEMMA RecoverShapes ==
    ASSUME VaultShapes, NEW c \in Callers, Recover(c)
    PROVE  VaultShapes'
<1>. USE VaultAssumption DEF VaultShapes
<1>1. ASSUME NEW k \in Listed, NEW t \in Roles, NEW good \in BOOLEAN, CheckRateLimit(c, k, t, good)
      PROVE  VaultShapes'
  <2>. DEFINE n == Min({attempts.count + 1, MaxCount})
  <2>1. n \in 0 .. MaxCount
    BY MinOfTwo
  <2>2. RateLimited(n) \in {"idle", "expire", "verify"}
    BY DEF RateLimited
  <2>3. k \in Keys
    BY DEF Listed
  <2>. HIDE DEF n
  <2>4. CASE /\ attempts' = [attempts EXCEPT !.count = n]
             /\ call' = [call EXCEPT ![c] = [pc |-> RateLimited(n), key |-> k, tenant |-> t,
                                             good |-> good, counted |-> TRUE]]
    BY <1>1, <2>1, <2>2, <2>3, <2>4 DEF CheckRateLimit, CallShape
  <2>5. CASE /\ call' = [call EXCEPT ![c] = [pc |-> "verify", key |-> k, tenant |-> t,
                                             good |-> good, counted |-> FALSE]]
             /\ UNCHANGED attempts
    BY <1>1, <2>3, <2>5 DEF CheckRateLimit, CallShape
  <2>. QED  BY <1>1, <2>4, <2>5 DEF CheckRateLimit, n
<1>2. CASE FirstExpire(c) \/ FailedAttemptExpires(c)
  <2>1. attempts' \in [count : 0 .. MaxCount, expires : BOOLEAN, lost : BOOLEAN]
    <3>. DEFINE counted == attempts.count > 0
    <3>1. \/ attempts' = [attempts EXCEPT !.expires = counted]
          \/ attempts' = [attempts EXCEPT !.lost = counted]
      BY <1>2 DEF FirstExpire, FailedAttemptExpires, SetsExpiry
    <3>2. counted \in BOOLEAN
      OBVIOUS
    <3>. HIDE DEF counted
    <3>. QED  BY <3>1, <3>2
  <2>2. call' \in [Callers -> CallShape]
    BY <1>2 DEF FirstExpire, FailedAttemptExpires, At, Goto, Fails, CallShape
  <2>. QED  BY <1>2, <2>1, <2>2 DEF FirstExpire, FailedAttemptExpires
<1>3. CASE VerifyMFA(c)
  <2>1. failures' \in 0 .. MaxCount
    <3>1. Min({failures + 1, MaxCount}) \in 0 .. MaxCount
      BY MinOfTwo
    <3>. QED  BY <1>3, <3>1 DEF VerifyMFA
  <2>2. call' \in [Callers -> CallShape]
    BY <1>3 DEF VerifyMFA, At, CallShape
  <2>. QED  BY <1>3, <2>1, <2>2 DEF VerifyMFA
<1>4. CASE RecordFailedAttempt(c)
  <2>1. attempts' \in [count : 0 .. MaxCount, expires : BOOLEAN, lost : BOOLEAN]
    <3>1. Min({attempts.count + 1, MaxCount}) \in 0 .. MaxCount
      BY MinOfTwo
    <3>. QED  BY <1>4, <3>1 DEF RecordFailedAttempt
  <2>2. call' \in [Callers -> CallShape]
    BY <1>4 DEF RecordFailedAttempt, At, Goto, Fails, CallShape
  <2>. QED  BY <1>4, <2>1, <2>2 DEF RecordFailedAttempt
<1>5. CASE ResetRateLimit(c)
  <2>1. /\ attempts' \in [count : 0 .. MaxCount, expires : BOOLEAN, lost : BOOLEAN]
        /\ failures' \in 0 .. MaxCount
    <3>1. NoAttempts \in [count : 0 .. MaxCount, expires : BOOLEAN, lost : BOOLEAN]
      BY DEF NoAttempts
    <3>2. 0 \in 0 .. MaxCount
      OBVIOUS
    <3>. QED  BY <1>5, <3>1, <3>2 DEF ResetRateLimit
  <2>2. call' \in [Callers -> CallShape]
    BY <1>5 DEF ResetRateLimit, At, Goto, CallShape
  <2>. QED  BY <1>5, <2>1, <2>2 DEF ResetRateLimit
<1>6. CASE Read(c)
  <2>1. vault' \in VaultShape
    <3>1. vault \in Connections(vault.secrets)
      BY DEF VaultShape, Connections
    <3>2. WithFailover(vault).v \in Connections(vault.secrets)
      BY <3>1, FailoverKeeps
    <3>3. WithFailover(vault).v \in VaultShape
      BY <3>2 DEF VaultShape, Connections
    <3>. QED  BY <1>6, <3>3 DEF Read
  <2>2. call' \in [Callers -> CallShape]
    BY <1>6 DEF Read, At, Goto, Fails, CallShape
  <2>. QED  BY <1>6, <2>1, <2>2 DEF Read
<1>7. CASE Deny(c) \/ AuditAndReturn(c)
  BY <1>7 DEF Deny, AuditAndReturn, At, Fails, CallShape
<1>8. CASE Cancelled(c)
  BY <1>8 DEF Cancelled, Fails, CallShape
<1>. QED  BY <1>1, <1>2, <1>3, <1>4, <1>5, <1>6, <1>7, <1>8 DEF Recover

\* Cleanup marks secrets as gone and leaves the rest of them.
LEMMA CleanupMarks ==
    ASSUME VaultShapes, Cleanup
    PROVE  /\ vault' \in VaultShape
           /\ \A k \in Keys :
                \/ vault'.secrets[k] = vault.secrets[k]
                \/ /\ vault'.secrets[k] = [vault.secrets[k] EXCEPT !.state = "gone"]
                   /\ k \in Scanned /\ Lapsed(k) /\ ExpiryEvent(k) \in audit'
<1>. DEFINE found == {k \in Scanned : Lapsed(k)}
<1>1. PICK gone \in SUBSET found :
        /\ audit' = audit \cup {ExpiryEvent(k) : k \in found}
        /\ vault' = [vault EXCEPT !.secrets =
                       [k \in Keys |-> IF k \in gone THEN [@[k] EXCEPT !.state = "gone"] ELSE @[k]]]
  BY Zenon DEF Cleanup
<1>2. \A k \in Keys : vault'.secrets[k] = IF k \in gone THEN [vault.secrets[k] EXCEPT !.state = "gone"]
                                          ELSE vault.secrets[k]
  BY <1>1 DEF VaultShapes, VaultShape
<1>3. \A k \in gone : k \in Scanned /\ Lapsed(k) /\ ExpiryEvent(k) \in audit'
  BY <1>1
<1>4. vault' \in VaultShape
  <2>. DEFINE secrets == [k \in Keys |-> IF k \in gone THEN [vault.secrets[k] EXCEPT !.state = "gone"]
                                         ELSE vault.secrets[k]]
  <2>1. secrets \in [Keys -> Secret]
    BY DEF VaultShapes, VaultShape, Secret
  <2>2. vault' = [vault EXCEPT !.secrets = secrets]
    BY <1>1
  <2>. HIDE DEF secrets, found
  <2>. QED  BY <2>1, <2>2 DEF VaultShapes, VaultShape
<1>. QED  BY <1>2, <1>3, <1>4

\* The rest of what happens to the vault keeps the shapes as well.
LEMMA VaultShapesStep ==
    ASSUME VaultShapes, VaultNext \/ AddrsNext
    PROVE  VaultShapes'
<1>. USE VaultAssumption DEF VaultShapes
<1>1. ASSUME NEW t \in Roles, StoreOne(t)
      PROVE  VaultShapes'
  BY <1>1, StoreKeeps DEF StoreOne
<1>2. CASE Cleanup
  BY <1>2, CleanupMarks DEF Cleanup
<1>3. CASE RateLimitExpires
  <2>1. NoAttempts \in [count : 0 .. MaxCount, expires : BOOLEAN, lost : BOOLEAN]
        /\ 0 \in 0 .. MaxCount
    BY DEF NoAttempts
  <2>. QED  BY <1>3, <2>1 DEF RateLimitExpires
<1>4. CASE Tick
  BY <1>4 DEF Tick
<1>5. CASE AddrsChange
  BY <1>5 DEF AddrsChange
<1>6. ASSUME NEW a \in Addrs, CooldownEnds(a)
      PROVE  VaultShapes'
  BY <1>6 DEF CooldownEnds, VaultShape
<1>. QED  BY <1>1, <1>2, <1>3, <1>4, <1>5, <1>6, RecoverShapes DEF VaultNext, AddrsNext

\* INCR and EXPIRE are two commands: the task that must still issue the second
\* is at "expire" or "expire2", or the command was lost.
LEMMA LockoutStep ==
    ASSUME VaultShapes, LockoutExplained, VaultNext \/ AddrsNext
    PROVE  LockoutExplained'
<1>. USE VaultAssumption DEF VaultShapes
<1>1. ASSUME NEW c \in Callers, NEW k \in Listed, NEW t \in Roles, NEW good \in BOOLEAN,
             CheckRateLimit(c, k, t, good)
      PROVE  LockoutExplained'
  <2>. DEFINE n == Min({attempts.count + 1, MaxCount})
  <2>1. n = IF attempts.count + 1 <= MaxCount THEN attempts.count + 1 ELSE MaxCount
    BY MinOfTwo
  <2>2. call[c].pc = "idle"
    BY <1>1 DEF CheckRateLimit, At
  <2>. HIDE DEF n
  <2>3. CASE /\ attempts' = [attempts EXCEPT !.count = n]
             /\ call' = [call EXCEPT ![c] = [pc |-> RateLimited(n), key |-> k, tenant |-> t,
                                             good |-> good, counted |-> TRUE]]
    <3>1. CASE n = 1
      <4>1. call'[c].pc = "expire"
        BY <2>3, <3>1 DEF RateLimited
      <4>. QED  BY <4>1 DEF LockoutExplained
    <3>2. CASE n # 1
      <4>1. attempts.count > 0 /\ attempts'.expires = attempts.expires /\ attempts'.lost = attempts.lost
        BY <2>1, <2>3, <3>2
      <4>2. \A d \in Callers : d # c => call'[d] = call[d]
        BY <2>3
      <4>. QED  BY <2>2, <4>1, <4>2 DEF LockoutExplained
    <3>. QED  BY <3>1, <3>2
  <2>4. CASE /\ call' = [call EXCEPT ![c] = [pc |-> "verify", key |-> k, tenant |-> t,
                                             good |-> good, counted |-> FALSE]]
             /\ UNCHANGED attempts
    <3>1. \A d \in Callers : d # c => call'[d] = call[d]
      BY <2>4
    <3>. QED  BY <2>2, <2>4, <3>1 DEF LockoutExplained
  <2>. QED  BY <1>1, <2>3, <2>4 DEF CheckRateLimit, n
<1>2. ASSUME SetsExpiry
      PROVE  LockoutExplained'
  <2>1. CASE attempts' = [attempts EXCEPT !.expires = attempts.count > 0]
    BY <2>1 DEF LockoutExplained
  <2>2. CASE attempts' = [attempts EXCEPT !.lost = attempts.count > 0]
    BY <2>2 DEF LockoutExplained
  <2>. QED  BY <1>2, <2>1, <2>2 DEF SetsExpiry
<1>3. ASSUME NEW c \in Callers, RecordFailedAttempt(c)
      PROVE  LockoutExplained'
  <2>1. CASE call' = [call EXCEPT ![c].pc = "expire2"]
    <3>1. call'[c].pc = "expire2"
      BY <2>1 DEF CallShape
    <3>. QED  BY <3>1 DEF LockoutExplained
  <2>2. CASE UNCHANGED attempts /\ Fails(c) /\ call[c].pc = "count"
    <3>1. \A d \in Callers : d # c => call'[d] = call[d]
      BY <2>2 DEF Fails
    <3>. QED  BY <2>2, <3>1 DEF LockoutExplained
  <2>. QED  BY <1>3, <2>1, <2>2 DEF RecordFailedAttempt, At, Goto
<1>4. ASSUME attempts' = NoAttempts
      PROVE  LockoutExplained'
  BY <1>4 DEF LockoutExplained, NoAttempts
<1>5. ASSUME NEW c \in Callers, call[c].pc \notin {"expire", "expire2"}, UNCHANGED attempts,
             \A d \in Callers : d # c => call'[d] = call[d]
      PROVE  LockoutExplained'
  BY <1>5 DEF LockoutExplained
<1>6. ASSUME NEW c \in Callers, Cancelled(c)
      PROVE  LockoutExplained'
  <2>1. \A d \in Callers : d # c => call'[d] = call[d]
    BY <1>6 DEF Cancelled, Fails
  <2>2. CASE call[c].pc \in {"expire", "expire2"} /\ attempts.count > 0
    <3>1. attempts' = [attempts EXCEPT !.lost = TRUE]
      BY <1>6, <2>2 DEF Cancelled
    <3>. QED  BY <3>1 DEF LockoutExplained
  <2>3. CASE ~(call[c].pc \in {"expire", "expire2"} /\ attempts.count > 0)
    <3>1. attempts'.count = attempts.count /\ attempts'.expires = attempts.expires
          /\ (attempts.lost => attempts'.lost)
      BY <1>6, <2>3 DEF Cancelled
    <3>. QED  BY <2>1, <2>3, <3>1 DEF LockoutExplained
  <2>. QED  BY <2>2, <2>3
<1>7. ASSUME NEW c \in Callers,
             VerifyMFA(c) \/ Read(c) \/ Deny(c) \/ AuditAndReturn(c)
      PROVE  LockoutExplained'
  <2>1. /\ call[c].pc \notin {"expire", "expire2"} /\ UNCHANGED attempts
        /\ \A d \in Callers : d # c => call'[d] = call[d]
    BY <1>7 DEF VerifyMFA, Read, Deny, AuditAndReturn, At, Goto, Fails
  <2>. QED  BY <2>1, <1>5
<1>8. ASSUME NEW c \in Callers, ResetRateLimit(c)
      PROVE  LockoutExplained'
  <2>1. CASE UNCHANGED attempts
    <3>1. /\ call[c].pc \notin {"expire", "expire2"}
          /\ \A d \in Callers : d # c => call'[d] = call[d]
      BY <1>8 DEF ResetRateLimit, At, Goto
    <3>. QED  BY <2>1, <3>1, <1>5
  <2>. QED  BY <1>4, <1>8, <2>1 DEF ResetRateLimit
<1>9. ASSUME NEW c \in Callers, Recover(c)
      PROVE  LockoutExplained'
  <2>1. FirstExpire(c) \/ FailedAttemptExpires(c) => SetsExpiry
    BY DEF FirstExpire, FailedAttemptExpires
  <2>. QED  BY <1>1, <1>2, <1>3, <1>6, <1>7, <1>8, <1>9, <2>1 DEF Recover
<1>10. ASSUME UNCHANGED <<attempts, call>>
       PROVE  LockoutExplained'
  BY <1>10 DEF LockoutExplained
<1>11. CASE RateLimitExpires
  BY <1>4, <1>11 DEF RateLimitExpires
<1>12. CASE \/ \E t \in Roles : StoreOne(t)
            \/ Cleanup \/ Tick \/ AddrsChange \/ \E a \in Addrs : CooldownEnds(a)
  BY <1>10, <1>12 DEF StoreOne, Cleanup, Tick, AddrsChange, CooldownEnds
<1>. QED  BY <1>9, <1>11, <1>12 DEF VaultNext, AddrsNext

\* The attempts in flight are no more than the callers.
LEMMA GuessingCount ==
  /\ IsFiniteSet(Guessing) /\ Cardinality(Guessing) \in Nat
  /\ Cardinality(Callers) \in Nat /\ Cardinality(Guessing) <= Cardinality(Callers)
  BY VaultAssumption, FS_Subset, FS_CardinalityType DEF Guessing

\* No attempt joins those in flight, and the counter does not go down.
LEMMA NoNewGuess ==
    ASSUME VaultShapes, VaultShapes', GuessesCounted, Guessing' \subseteq Guessing,
           failures' = failures, attempts.count <= attempts'.count
    PROVE  GuessesCounted'
<1>1. /\ Cardinality(Guessing') \in Nat /\ Cardinality(Guessing') <= Cardinality(Guessing)
      /\ Cardinality(Guessing) \in Nat /\ Cardinality(Callers) \in Nat
  BY GuessingCount, FS_Subset, FS_CardinalityType
<1>2. /\ failures \in Nat /\ attempts.count \in Nat /\ attempts'.count \in Nat
      /\ MaxAttempts \in Nat
  BY VaultAssumption DEF VaultShapes
<1>. HIDE DEF Guessing
<1>. QED  BY <1>1, <1>2, VaultAssumption DEF GuessesCounted

\* The counter is gone: only the attempts in flight may still turn out wrong.
LEMMA GuessesForgotten ==
    ASSUME VaultShapes', attempts' = NoAttempts, failures' = 0
    PROVE  GuessesCounted'
<1>1. IsFiniteSet(Guessing') /\ Guessing' \subseteq Callers
  BY VaultAssumption, FS_Subset DEF Guessing
<1>2. /\ Cardinality(Guessing') \in Nat /\ Cardinality(Callers) \in Nat
      /\ Cardinality(Guessing') <= Cardinality(Callers)
  BY <1>1, VaultAssumption, FS_Subset, FS_CardinalityType
<1>3. attempts'.count = 0
  BY DEF NoAttempts
<1>. HIDE DEF Guessing
<1>. QED  BY <1>2, <1>3, VaultAssumption DEF GuessesCounted

\* An attempt is admitted only as the counter rises to max_attempts at most,
\* and turns out wrong at most once.
LEMMA GuessesStep ==
    ASSUME VaultShapes, VaultShapes', GuessesCounted, VaultNext \/ AddrsNext
    PROVE  GuessesCounted'
<1>s. /\ failures \in Nat /\ attempts.count \in 0 .. MaxCount
      /\ MaxAttempts \in Nat \ {0} /\ MaxCount \in Nat /\ MaxCount > MaxAttempts
      /\ call \in [Callers -> CallShape]
      /\ attempts \in [count : 0 .. MaxCount, expires : BOOLEAN, lost : BOOLEAN]
  BY VaultAssumption DEF VaultShapes
<1>1. ASSUME NEW c \in Callers, NEW k \in Listed, NEW t \in Roles, NEW good \in BOOLEAN,
             CheckRateLimit(c, k, t, good)
      PROVE  GuessesCounted'
  <2>. DEFINE n == Min({attempts.count + 1, MaxCount})
  <2>1. n = IF attempts.count + 1 <= MaxCount THEN attempts.count + 1 ELSE MaxCount
    BY <1>s, MinOfTwo
  <2>2. call[c].pc = "idle" /\ failures' = failures
    BY <1>1 DEF CheckRateLimit, At
  <2>3. c \notin Guessing
    BY <2>2 DEF Guessing
  <2>. HIDE DEF n
  <2>4. CASE /\ attempts' = [attempts EXCEPT !.count = n]
             /\ call' = [call EXCEPT ![c] = [pc |-> RateLimited(n), key |-> k, tenant |-> t,
                                             good |-> good, counted |-> TRUE]]
    <3>0. attempts'.count = n
      BY <1>s, <2>4
    <3>1. CASE n <= MaxAttempts
      <4>1. Guessing' = Guessing \cup {c}
        BY <1>s, <2>1, <2>4, <3>1 DEF Guessing, RateLimited
      <4>2. Cardinality(Guessing') = Cardinality(Guessing) + 1
        BY <2>3, <4>1, GuessingCount, FS_AddElement
      <4>3. n = attempts.count + 1
        BY <1>s, <2>1, <3>1
      <4>. HIDE DEF Guessing
      <4>. QED  BY <1>s, <2>2, <3>0, <3>1, <4>2, <4>3, GuessingCount DEF GuessesCounted
    <3>2. CASE n > MaxAttempts
      <4>1. Guessing' \subseteq Guessing
        BY <1>s, <2>1, <2>4, <3>2 DEF Guessing, RateLimited
      <4>2. attempts.count <= n
        BY <1>s, <2>1
      <4>. QED  BY <2>2, <3>0, <4>1, <4>2, NoNewGuess
    <3>. QED  BY <1>s, <2>1, <3>1, <3>2
  <2>5. CASE /\ call' = [call EXCEPT ![c] = [pc |-> "verify", key |-> k, tenant |-> t,
                                             good |-> good, counted |-> FALSE]]
             /\ UNCHANGED attempts
    <3>1. Guessing' \subseteq Guessing
      BY <1>s, <2>5 DEF Guessing
    <3>. QED  BY <1>s, <2>2, <2>5, <3>1, NoNewGuess
  <2>. QED  BY <1>1, <2>4, <2>5 DEF CheckRateLimit, n
<1>2. ASSUME NEW c \in Callers, VerifyMFA(c)
      PROVE  GuessesCounted'
  <2>1. /\ call[c].pc = "verify" /\ UNCHANGED attempts
        /\ call'[c].pc \notin {"expire", "verify"}
        /\ \A d \in Callers : d # c => call'[d] = call[d]
    BY <1>s, <1>2 DEF VerifyMFA, At
  <2>2. Min({failures + 1, MaxCount}) \in Nat /\ Min({failures + 1, MaxCount}) <= failures + 1
    BY <1>s, MinOfTwo
  <2>3. CASE call[c].counted
    <3>1. Guessing' = Guessing \ {c} /\ c \in Guessing
      BY <2>1, <2>3 DEF Guessing
    <3>2. Cardinality(Guessing') = Cardinality(Guessing) - 1
      BY <3>1, GuessingCount, FS_RemoveElement
    <3>3. failures' \in Nat /\ failures' <= failures + 1
      BY <1>s, <1>2, <2>2 DEF VerifyMFA
    <3>. HIDE DEF Guessing
    <3>. QED  BY <1>s, <2>1, <3>2, <3>3, GuessingCount DEF GuessesCounted
  <2>4. CASE ~call[c].counted
    <3>1. Guessing' \subseteq Guessing
      BY <2>1, <2>4 DEF Guessing
    <3>2. failures' = failures
      BY <1>2, <2>4 DEF VerifyMFA
    <3>. QED  BY <1>s, <2>1, <3>1, <3>2, NoNewGuess
  <2>. QED  BY <2>3, <2>4
<1>3. ASSUME NEW c \in Callers, FirstExpire(c) \/ FailedAttemptExpires(c)
      PROVE  GuessesCounted'
  <2>1. /\ \A d \in Callers : d # c => call'[d] = call[d]
        /\ call'[c].pc \in {"expire", "verify"} => /\ call[c].pc = "expire"
                                                   /\ call'[c].counted = call[c].counted
    BY <1>s, <1>3 DEF FirstExpire, FailedAttemptExpires, At, Goto, Fails, CallShape
  <2>2. Guessing' \subseteq Guessing
    BY <2>1 DEF Guessing
  <2>3. attempts'.count = attempts.count
    BY <1>s, <1>3 DEF FirstExpire, FailedAttemptExpires, SetsExpiry
  <2>4. failures' = failures
    BY <1>3 DEF FirstExpire, FailedAttemptExpires
  <2>. QED  BY <1>s, <2>2, <2>3, <2>4, NoNewGuess
<1>4. ASSUME NEW c \in Callers, UNCHANGED failures, attempts.count <= attempts'.count,
             call'[c].pc \notin {"expire", "verify"},
             \A d \in Callers : d # c => call'[d] = call[d]
      PROVE  GuessesCounted'
  <2>1. Guessing' \subseteq Guessing
    BY <1>4 DEF Guessing
  <2>. QED  BY <1>4, <2>1, NoNewGuess
<1>5. ASSUME NEW c \in Callers, RecordFailedAttempt(c)
      PROVE  GuessesCounted'
  <2>1. Min({attempts.count + 1, MaxCount}) >= attempts.count
    BY <1>s, MinOfTwo
  <2>2. attempts.count <= attempts'.count
    BY <1>s, <1>5, <2>1 DEF RecordFailedAttempt
  <2>3. /\ UNCHANGED failures /\ call'[c].pc \notin {"expire", "verify"}
        /\ \A d \in Callers : d # c => call'[d] = call[d]
    BY <1>s, <1>5 DEF RecordFailedAttempt, At, Goto, Fails, CallShape
  <2>. QED  BY <2>2, <2>3, <1>4
<1>6. ASSUME NEW c \in Callers, Read(c) \/ Deny(c) \/ AuditAndReturn(c) \/ Cancelled(c)
      PROVE  GuessesCounted'
  <2>1. attempts'.count = attempts.count
    BY <1>s, <1>6 DEF Read, Deny, AuditAndReturn, Cancelled
  <2>2. /\ UNCHANGED failures /\ call'[c].pc \notin {"expire", "verify"}
        /\ \A d \in Callers : d # c => call'[d] = call[d]
    BY <1>s, <1>6 DEF Read, Deny, AuditAndReturn, Cancelled, At, Goto, Fails, CallShape
  <2>. QED  BY <1>s, <2>1, <2>2, <1>4
<1>7. ASSUME NEW c \in Callers, ResetRateLimit(c)
      PROVE  GuessesCounted'
  <2>1. CASE UNCHANGED <<attempts, failures>>
    <3>1. /\ call'[c].pc \notin {"expire", "verify"}
          /\ \A d \in Callers : d # c => call'[d] = call[d]
      BY <1>s, <1>7 DEF ResetRateLimit, At, Goto, CallShape
    <3>. QED  BY <1>s, <2>1, <3>1, <1>4
  <2>. QED  BY <1>7, <2>1, GuessesForgotten DEF ResetRateLimit
<1>8. ASSUME UNCHANGED <<attempts, call, failures>>
      PROVE  GuessesCounted'
  <2>1. Guessing' \subseteq Guessing
    BY <1>8 DEF Guessing
  <2>. QED  BY <1>s, <1>8, <2>1, NoNewGuess
<1>9. ASSUME NEW c \in Callers, Recover(c)
      PROVE  GuessesCounted'
  BY <1>1, <1>2, <1>3, <1>5, <1>6, <1>7, <1>9 DEF Recover
<1>10. CASE RateLimitExpires
  BY <1>10, GuessesForgotten DEF RateLimitExpires
<1>11. CASE \/ \E t \in Roles : StoreOne(t)
            \/ Cleanup \/ Tick \/ AddrsChange \/ \E a \in Addrs : CooldownEnds(a)
  BY <1>8, <1>11 DEF StoreOne, Cleanup, Tick, AddrsChange, CooldownEnds
<1>. QED  BY <1>9, <1>10, <1>11 DEF VaultNext, AddrsNext

\* A secret once stored stays one, with its tenant.
Lasting ==
  \A k \in Keys : vault.secrets[k].state # "unused" =>
    /\ vault'.secrets[k].state # "unused"
    /\ vault'.secrets[k].tenant = vault.secrets[k].tenant

\* Who was entitled stays entitled, and the record only grows.
LEMMA EntitledLasts ==
    ASSUME VaultShapes, RecoveriesEntitled, Lasting,
           UNCHANGED returned, audit \subseteq audit',
           \A c \in Callers : call'[c].pc = "audit" =>
              call'[c] = call[c] \/ (call'[c].key \in Keys /\ Entitled(call'[c].key, call'[c].tenant))
    PROVE  RecoveriesEntitled'
<1>2. ASSUME NEW k \in Keys, NEW t, Entitled(k, t)
      PROVE  /\ vault'.secrets[k].state # "unused"
             /\ t = NoTenant \/ t = vault'.secrets[k].tenant
  BY <1>2 DEF Entitled, Lasting
<1>3. \A c \in Callers : call[c].pc = "audit" => call[c].key \in Keys
  BY DEF VaultShapes, CallShape
<1>4. ASSUME NEW c \in Callers, call'[c].pc = "audit"
      PROVE  /\ vault'.secrets[call'[c].key].state # "unused"
             /\ \/ call'[c].tenant = NoTenant
                \/ call'[c].tenant = vault'.secrets[call'[c].key].tenant
  <2>1. call'[c].key \in Keys /\ Entitled(call'[c].key, call'[c].tenant)
    BY <1>3, <1>4 DEF RecoveriesEntitled
  <2>. QED  BY <1>2, <2>1
<1>5. ASSUME NEW r \in returned
      PROVE  /\ r.key \in Keys
             /\ vault'.secrets[r.key].state # "unused"
             /\ r.tenant = NoTenant \/ r.tenant = vault'.secrets[r.key].tenant
             /\ [action |-> "vault.recover", key |-> r.key, tenant |-> r.tenant] \in audit'
  <2>1. /\ r.key \in Keys /\ Entitled(r.key, r.tenant)
        /\ [action |-> "vault.recover", key |-> r.key, tenant |-> r.tenant] \in audit
    BY DEF RecoveriesEntitled
  <2>. QED  BY <1>2, <2>1
<1>. QED  BY <1>4, <1>5 DEF RecoveriesEntitled, Entitled

\* recover() goes on to its audit event only from a live secret and past the
\* tenant guard, and returns only what it has put on record.
LEMMA RecoverEntitled ==
    ASSUME VaultShapes, RecoveriesEntitled, NEW c \in Callers, Recover(c)
    PROVE  RecoveriesEntitled' /\ UNCHANGED now /\ vault'.secrets = vault.secrets /\ audit \subseteq audit'
<1>. USE DEF VaultShapes
<1>0. ASSUME vault'.secrets = vault.secrets
      PROVE  Lasting
  BY <1>0 DEF Lasting
<1>1. ASSUME \/ \E k \in Listed, t \in Roles, good \in BOOLEAN : CheckRateLimit(c, k, t, good)
             \/ FirstExpire(c) \/ VerifyMFA(c) \/ RecordFailedAttempt(c)
             \/ FailedAttemptExpires(c) \/ ResetRateLimit(c) \/ Deny(c) \/ Cancelled(c)
      PROVE  RecoveriesEntitled' /\ UNCHANGED now /\ vault'.secrets = vault.secrets /\ audit \subseteq audit'
  <2>1. UNCHANGED <<vault, returned, now>> /\ audit \subseteq audit'
    BY <1>1 DEF CheckRateLimit, FirstExpire, VerifyMFA, RecordFailedAttempt, FailedAttemptExpires,
                ResetRateLimit, Deny, Cancelled
  <2>2. /\ \A d \in Callers : d # c => call'[d] = call[d]
        /\ call'[c].pc # "audit"
    <3>1. ASSUME NEW k \in Listed, NEW t \in Roles, NEW good \in BOOLEAN, CheckRateLimit(c, k, t, good)
          PROVE  /\ \A d \in Callers : d # c => call'[d] = call[d]
                 /\ call'[c].pc # "audit"
      BY <3>1 DEF CheckRateLimit, RateLimited
    <3>2. ASSUME FirstExpire(c) \/ FailedAttemptExpires(c) \/ RecordFailedAttempt(c)
                   \/ ResetRateLimit(c)
          PROVE  /\ \A d \in Callers : d # c => call'[d] = call[d]
                 /\ call'[c].pc # "audit"
      BY <3>2 DEF FirstExpire, FailedAttemptExpires, RecordFailedAttempt, ResetRateLimit,
                  Goto, Fails, CallShape
    <3>3. ASSUME VerifyMFA(c) \/ Deny(c) \/ Cancelled(c)
          PROVE  /\ \A d \in Callers : d # c => call'[d] = call[d]
                 /\ call'[c].pc # "audit"
      BY <3>3 DEF VerifyMFA, Deny, Cancelled, Fails
    <3>. QED  BY <1>1, <3>1, <3>2, <3>3
  <2>. QED  BY <1>0, <2>1, <2>2, EntitledLasts
<1>2. CASE Read(c)
  <2>. DEFINE k == call[c].key  f == WithFailover(vault)
  <2>1. UNCHANGED <<returned, now, audit>>
    BY <1>2 DEF Read
  <2>2. vault'.secrets = vault.secrets
    <3>1. vault \in Connections(vault.secrets)
      BY DEF VaultShape, Connections
    <3>2. WithFailover(vault).v.secrets = vault.secrets
      BY <3>1, FailoverKeeps DEF Connections
    <3>. QED  BY <1>2, <3>2 DEF Read
  <2>3. \A d \in Callers : d # c => call'[d] = call[d]
    BY <1>2 DEF Read, Goto, Fails
  <2>4. call'[c].pc = "audit" =>
          /\ call'[c].key = k /\ call'[c].tenant = call[c].tenant
          /\ vault.secrets[k].state = "live" /\ ~Foreign(c)
    BY <1>2 DEF Read, At, Goto, Fails, CallShape
  <2>5. k \in Keys
    BY <1>2 DEF Read, At, CallShape
  <2>6. call'[c].pc = "audit" => call'[c].key \in Keys /\ Entitled(call'[c].key, call'[c].tenant)
    BY <2>4, <2>5 DEF Foreign, KeyTenant, Entitled
  <2>. QED  BY <1>0, <2>1, <2>2, <2>3, <2>6, EntitledLasts
<1>3. CASE AuditAndReturn(c)
  <2>1. UNCHANGED <<vault, now>> /\ audit \subseteq audit'
    BY <1>3 DEF AuditAndReturn
  <2>2. /\ \A d \in Callers : d # c => call'[d] = call[d]
        /\ call'[c].pc # "audit" /\ call[c].pc = "audit"
    BY <1>3 DEF AuditAndReturn, Fails, At
  <2>3. CASE UNCHANGED <<audit, returned>>
    BY <1>0, <2>1, <2>2, <2>3, EntitledLasts
  <2>4. CASE /\ audit' = audit \cup {RecoveryEvent(c)}
             /\ returned' = returned \cup {[key |-> call[c].key, tenant |-> call[c].tenant]}
    <3>1. call[c].key \in Keys /\ Entitled(call[c].key, call[c].tenant)
      BY <2>2 DEF CallShape, RecoveriesEntitled
    <3>2. [action |-> "vault.recover", key |-> call[c].key, tenant |-> call[c].tenant] \in audit'
      BY <2>4 DEF RecoveryEvent
    <3>. QED  BY <2>1, <2>2, <2>4, <3>1, <3>2 DEF RecoveriesEntitled, Entitled
  <2>. QED  BY <1>3, <2>1, <2>3, <2>4 DEF AuditAndReturn
<1>. QED  BY <1>1, <1>2, <1>3 DEF Recover

\* A vault that only gained secrets.
LEMMA StoredRecords ==
    ASSUME VaultShapes, RecoveriesEntitled, DeletionsAccounted, Keeps(vault, vault'),
           UNCHANGED <<call, audit, returned, now>>
    PROVE  RecoveriesEntitled' /\ DeletionsAccounted'
<1>1. Lasting
  BY DEF Keeps, Lasting
<1>2. RecoveriesEntitled'
  BY <1>1, EntitledLasts
<1>3. DeletionsAccounted'
  BY DEF Keeps, DeletionsAccounted, ExpiryEvent
<1>. QED  BY <1>2, <1>3

\* The expiry job writes its events before it deletes, and deletes what has
\* lapsed; a store does not reuse the key of a secret.
LEMMA RecordsStep ==
    ASSUME VaultShapes, RecoveriesEntitled, DeletionsAccounted, VaultNext \/ AddrsNext
    PROVE  RecoveriesEntitled' /\ DeletionsAccounted'
<1>. USE DEF VaultShapes
<1>n. now \in Nat /\ TTL \in Nat /\ (\A k \in Keys : vault.secrets[k].born \in Nat)
  BY VaultAssumption DEF VaultShape, Secret
<1>1. ASSUME NEW c \in Callers, Recover(c)
      PROVE  RecoveriesEntitled' /\ DeletionsAccounted'
  BY <1>1, RecoverEntitled DEF DeletionsAccounted, ExpiryEvent
<1>3. ASSUME NEW t \in Roles, StoreOne(t)
      PROVE  RecoveriesEntitled' /\ DeletionsAccounted'
  BY <1>3, StoreKeeps, StoredRecords DEF StoreOne
<1>4. CASE Cleanup
  <2>1. UNCHANGED <<call, returned, now>> /\ audit \subseteq audit'
    BY <1>4 DEF Cleanup
  <2>2. \A k \in Keys :
          \/ vault'.secrets[k] = vault.secrets[k]
          \/ /\ vault'.secrets[k] = [vault.secrets[k] EXCEPT !.state = "gone"]
             /\ k \in Scanned /\ Lapsed(k) /\ ExpiryEvent(k) \in audit'
    BY <1>4, CleanupMarks
  <2>3. \A k \in Keys : vault.secrets[k] \in Secret
    BY DEF VaultShape
  <2>4. Lasting
    <3>1. ASSUME NEW k \in Keys, vault.secrets[k].state # "unused"
          PROVE  /\ vault'.secrets[k].state # "unused"
                 /\ vault'.secrets[k].tenant = vault.secrets[k].tenant
      <4>1. CASE vault'.secrets[k] = vault.secrets[k]
        BY <3>1, <4>1
      <4>2. CASE vault'.secrets[k] = [vault.secrets[k] EXCEPT !.state = "gone"]
        BY <2>3, <4>2 DEF Secret
      <4>. QED  BY <2>2, <4>1, <4>2
    <3>. QED  BY <3>1 DEF Lasting
  <2>5. RecoveriesEntitled'
    BY <2>1, <2>4, EntitledLasts
  <2>6. DeletionsAccounted'
    BY <2>1, <2>2, <2>3 DEF DeletionsAccounted, Lapsed, Secret, ExpiryEvent
  <2>. QED  BY <2>5, <2>6
<1>5. CASE RateLimitExpires \/ AddrsChange
  BY <1>5, StoredRecords DEF RateLimitExpires, AddrsChange, Keeps
<1>6. CASE Tick
  <2>1. now' = now + 1 /\ UNCHANGED <<vault, call, audit, returned>>
    BY <1>6 DEF Tick
  <2>2. RecoveriesEntitled'
    BY <2>1 DEF RecoveriesEntitled, Entitled
  <2>3. DeletionsAccounted'
    BY <1>n, <2>1 DEF DeletionsAccounted, ExpiryEvent
  <2>. QED  BY <2>2, <2>3
<1>7. ASSUME NEW a \in Addrs, CooldownEnds(a)
      PROVE  RecoveriesEntitled' /\ DeletionsAccounted'
  BY <1>7, StoredRecords DEF CooldownEnds, Keeps, VaultShape
<1>. QED  BY <1>1, <1>3, <1>4, <1>5, <1>6, <1>7 DEF VaultNext, AddrsNext

\* Recoveries, stores, expiry and failing addresses keep the vault's invariant.
LEMMA VaultStep ==
    ASSUME VaultInv, VaultNext \/ AddrsNext
    PROVE  VaultInv'
<1>1. VaultShapes'
  BY VaultShapesStep DEF VaultInv
<1>. QED  BY <1>1, LockoutStep, GuessesStep, RecordsStep DEF VaultInv

\* So does a guarded call, which only stores.
LEMMA VaultFilled ==
    ASSUME VaultInv, vault' \in VaultShape, Keeps(vault, vault'),
           UNCHANGED <<now, up, attempts, call, audit, returned, failures>>
    PROVE  VaultInv'
<1>1. VaultShapes'
  BY DEF VaultInv, VaultShapes
<1>2. LockoutExplained'
  BY DEF VaultInv, LockoutExplained
<1>3. GuessesCounted'
  BY DEF VaultInv, GuessesCounted, Guessing
<1>. QED  BY <1>1, <1>2, <1>3, StoredRecords DEF VaultInv

\* The empty vault, with nobody recovering from it.
LEMMA VaultInitially == VaultInit => VaultInv
<1>. SUFFICES ASSUME VaultInit PROVE VaultInv
  OBVIOUS
<1>. USE VaultAssumption
<1>1. vault \in VaultShape
  BY DEF VaultInit, VaultShape, Secret, Unused, Roles, Addrs
<1>2. VaultShapes
  BY <1>1 DEF VaultInit, VaultShapes, NoAttempts, CallShape
<1>3. LockoutExplained
  BY DEF VaultInit, LockoutExplained, NoAttempts
<1>4. GuessesCounted
  <2>1. failures = 0 /\ attempts.count = 0
    BY DEF VaultInit, NoAttempts
  <2>. HIDE DEF Guessing
  <2>. QED  BY <2>1, GuessingCount DEF GuessesCounted
<1>5. RecoveriesEntitled
  BY DEF VaultInit, RecoveriesEntitled
<1>6. DeletionsAccounted
  BY DEF VaultInit, DeletionsAccounted, Unused
<1>. QED  BY <1>2, <1>3, <1>4, <1>5, <1>6 DEF VaultInv

\* What the invariant says of the vault is what is promised of it.
LEMMA VaultInvIsSafe == VaultInv => VaultSafe /\ VaultTypeOK
<1>. SUFFICES ASSUME VaultInv PROVE VaultSafe /\ VaultTypeOK
  OBVIOUS
<1>1. VaultTypeOK
  BY DEF VaultInv, VaultShapes, VaultShape, Secret, VaultTypeOK
<1>2. GuessesBounded
  <2>1. /\ failures \in Nat /\ attempts.count \in Nat /\ MaxAttempts \in Nat
        /\ GuessesCounted
    BY VaultAssumption DEF VaultInv, VaultShapes
  <2>. HIDE DEF Guessing
  <2>. QED  BY <2>1, GuessingCount DEF GuessesCounted, GuessesBounded
<1>3. RecoveriesAccounted
  BY DEF VaultInv, RecoveriesEntitled, Entitled, RecoveriesAccounted
<1>. QED  BY <1>1, <1>2, <1>3 DEF VaultInv, VaultSafe
-----------------------------------------------------------------------------
(* The guarded call.  What is exported is clean because every text went     *)
(* through Mask on one of three ways (a check at exit, a cached verdict, a  *)
(* summary) or was replaced; a text that was sent passed the classifier     *)
(* once, and a model that failed to load stays failed.                      *)

\* A text without an entity, or what stands for one that is not there.
Clean == {NoText, Digest, Redacted} \cup {text \in Texts : ~Detects(text)}

GuardCallShape ==
  [pc : {"idle", "done"}]
    \cup [pc : {"body", "exit"}, kind : {"llm", "tool"}, text : Inputs, output : Outputs,
          keep : BOOLEAN, tenant : Roles, cached : Inputs \cup {NoText},
          verdict : {"none", "clean", "flag", "block"}]

GuardShapes ==
  /\ gcall \in [Calls -> GuardCallShape]
  /\ model \in {"unloaded", "loaded", "failed"} /\ sent \subseteq Inputs
  /\ \A s \in exported : s.input \in Clean /\ s.output \in Clean

GuardInv == GuardShapes /\ InjectionNotSent

\* A vault that keeps what a vault that keeps another's secrets holds.
LEMMA KeepsTransitive ==
    ASSUME NEW u, NEW v, NEW w, Keeps(u, v), Keeps(v, w)
    PROVE  Keeps(u, w)
BY DEF Keeps

\* A masked text has no entity.
LEMMA MaskIsClean == \A text \in Texts : Mask(text) \in Clean
BY DEF Mask, Detects, Texts, Pii, Scores, Clean

\* What is attached to a span is a text, or stands for one.
LEMMA AttachedIsText ==
    ASSUME NEW g \in GuardCallShape, g.pc = "exit"
    PROVE  /\ Attached(g).input \in Texts \cup {NoText, Digest}
           /\ Attached(g).output \in Texts \cup {NoText, Digest}
<1>1. g.text \in Texts \cup {NoText} /\ g.output \in Texts \cup {NoText}
  BY GuardAssumption DEF GuardCallShape
<1>2. \A text \in Texts : Summary(text) \in Texts
  BY DEF Summary, Texts, Pii
<1>. QED  BY <1>1, <1>2 DEF Attached, LLMContent

\* check_input leaves a vault that keeps its secrets.
LEMMA CheckKeeps ==
    ASSUME NEW v \in VaultShape, NEW text, NEW tenant \in Roles, NEW m, now \in 0 .. MaxTime
    PROVE  CheckInput(v, text, tenant, m).v \in VaultShape
           /\ Keeps(v, CheckInput(v, text, tenant, m).v)
<1>1. Keeps(v, v)
  BY DEF Keeps
<1>. QED  BY <1>1, StoreKeeps DEF CheckInput

\* _apply_guardrail hands on a clean text, whichever way it took.
LEMMA AppliedIsClean ==
    ASSUME NEW v \in VaultShape, NEW text \in Texts \cup {NoText, Digest}, NEW cached,
           NEW tenant \in Roles, NEW m, NEW works \in BOOLEAN, now \in 0 .. MaxTime
    PROVE  /\ Applied(v, text, cached, tenant, m, works).text \in Clean
           /\ Applied(v, text, cached, tenant, m, works).v \in VaultShape
           /\ Keeps(v, Applied(v, text, cached, tenant, m, works).v)
<1>1. Keeps(v, v)
  BY DEF Keeps
<1>2. CASE text \in {NoText, Digest} \/ text = cached
  BY <1>1, <1>2, MaskIsClean DEF Applied, Clean
<1>3. CASE ~(text \in {NoText, Digest} \/ text = cached) /\ works
  <2>1. CheckInput(v, text, tenant, m).masked = Mask(text)
    BY DEF CheckInput
  <2>3. /\ Applied(v, text, cached, tenant, m, works).text = Mask(text)
        /\ Applied(v, text, cached, tenant, m, works).v = CheckInput(v, text, tenant, m).v
    BY <1>3, <2>1 DEF Applied
  <2>4. Mask(text) \in Clean
    BY <1>3, MaskIsClean
  <2>5. /\ CheckInput(v, text, tenant, m).v \in VaultShape
        /\ Keeps(v, CheckInput(v, text, tenant, m).v)
    BY CheckKeeps
  <2>. QED  BY <2>3, <2>4, <2>5
<1>4. CASE ~(text \in {NoText, Digest} \/ text = cached) /\ ~works
  BY <1>1, <1>4 DEF Applied, Clean
<1>. QED  BY <1>2, <1>3, <1>4

\* A model that failed to load stays failed.
LEMMA FailedStays ==
    ASSUME NEW m \in LoadedModels, model \in {"unloaded", "loaded", "failed"}
    PROVE  m \in {"loaded", "failed"} /\ (model = "failed" => m = "failed")
BY DEF LoadedModels

\* Before the body: what is sent passed the check, or the model is missing.
LEMMA GuardCallStep ==
    ASSUME VaultShapes, GuardInv, NEW c \in Calls, NEW kind \in {"llm", "tool"},
           NEW text \in Inputs, NEW output \in Outputs, NEW keep \in BOOLEAN, NEW t \in Roles,
           GuardCall(c, kind, text, output, keep, t)
    PROVE  GuardInv' /\ vault' \in VaultShape /\ Keeps(vault, vault')
<1>. DEFINE g == [pc |-> "body", kind |-> kind, text |-> text, output |-> output, keep |-> keep,
                  tenant |-> t, cached |-> NoText, verdict |-> "none"]
<1>0. Keeps(vault, vault) /\ vault \in VaultShape /\ now \in 0 .. MaxTime
  BY DEF Keeps, VaultShapes
<1>1. UNCHANGED exported
  BY DEF GuardCall
<1>2. CASE text = NoText /\ gcall' = [gcall EXCEPT ![c] = g] /\ sent' = sent \cup {text}
           /\ UNCHANGED <<vault, model>>
  <2>1. GuardShapes'
    BY <1>1, <1>2 DEF GuardInv, GuardShapes, GuardCallShape
  <2>2. InjectionNotSent'
    BY <1>2 DEF GuardInv, InjectionNotSent
  <2>. QED  BY <1>0, <1>2, <2>1, <2>2 DEF GuardInv
<1>3. ASSUME NEW m \in LoadedModels,
             LET r == CheckInput(vault, text, t, m)
             IN  /\ gcall' = [gcall EXCEPT ![c] =
                       [g EXCEPT !.pc = IF r.verdict = "block" THEN "exit" ELSE "body",
                                 !.cached = text, !.verdict = r.verdict]]
                 /\ sent' = IF r.verdict = "block" THEN sent ELSE sent \cup {text}
                 /\ vault' = r.v /\ model' = m
      PROVE  GuardInv' /\ vault' \in VaultShape /\ Keeps(vault, vault')
  <2>1. /\ m \in {"loaded", "failed"} /\ (model = "failed" => m = "failed")
    BY FailedStays DEF GuardInv, GuardShapes
  <2>2. CheckInput(vault, text, t, m).verdict = Verdict(Score(text, m))
    BY DEF CheckInput
  <2>3. vault' \in VaultShape /\ Keeps(vault, vault')
    BY <1>0, <1>3, CheckKeeps
  <2>4. Verdict(Score(text, m)) \in {"clean", "flag", "block"}
    BY DEF Verdict
  <2>5. gcall' \in [Calls -> GuardCallShape]
    BY <1>3, <2>2, <2>4 DEF GuardInv, GuardShapes, GuardCallShape
  <2>6. sent' \subseteq Inputs /\ model' = m
    BY <1>3 DEF GuardInv, GuardShapes
  <2>7. text.score = "injection" /\ m # "failed" => Verdict(Score(text, m)) = "block"
    BY DEF Verdict, Score
  <2>8. InjectionNotSent'
    BY <1>3, <2>1, <2>2, <2>7 DEF GuardInv, InjectionNotSent
  <2>. QED  BY <1>1, <2>1, <2>3, <2>5, <2>6, <2>8 DEF GuardInv, GuardShapes
<1>4. CASE gcall' = [gcall EXCEPT ![c] = [g EXCEPT !.pc = "exit"]] /\ UNCHANGED <<sent, vault, model>>
  <2>1. GuardShapes'
    BY <1>1, <1>4 DEF GuardInv, GuardShapes, GuardCallShape
  <2>2. InjectionNotSent'
    BY <1>4 DEF GuardInv, InjectionNotSent
  <2>. QED  BY <1>0, <1>4, <2>1, <2>2 DEF GuardInv
<1>. QED  BY <1>2, <1>3, <1>4, Zenon DEF GuardCall

\* After the body: both attributes go through _apply_guardrail, one after the
\* other, and the second one sees the vault the first one left.
LEMMA ExitStep ==
    ASSUME VaultShapes, GuardInv, NEW c \in Calls, Exit(c)
    PROVE  GuardInv' /\ vault' \in VaultShape /\ Keeps(vault, vault')
<1>. DEFINE g == gcall[c]  a == Attached(g)
<1>0. vault \in VaultShape /\ now \in 0 .. MaxTime
  BY DEF VaultShapes
<1>1. g \in GuardCallShape /\ g.pc = "exit"
  BY DEF Exit, GuardInv, GuardShapes
<1>2. /\ a.input \in Texts \cup {NoText, Digest} /\ a.output \in Texts \cup {NoText, Digest}
      /\ g.tenant \in Roles
  BY <1>1, AttachedIsText DEF GuardCallShape
<1>. HIDE DEF a
<1>3. PICK m \in LoadedModels, worksIn \in BOOLEAN, worksOut \in BOOLEAN :
        LET i == Applied(vault, a.input, g.cached, g.tenant, m, worksIn)
            o == Applied(i.v, a.output, NoText, g.tenant, m, worksOut)
            checks == \E t \in {a.input, a.output} \ {NoText, Digest, g.cached} : TRUE
        IN  /\ exported' = exported \cup {[input |-> i.text, output |-> o.text]}
            /\ vault' = o.v
            /\ model' = IF checks THEN m ELSE model
  BY Zenon DEF Exit, a
<1>. DEFINE i == Applied(vault, a.input, g.cached, g.tenant, m, worksIn)
            o == Applied(i.v, a.output, NoText, g.tenant, m, worksOut)
<1>4. exported' = exported \cup {[input |-> i.text, output |-> o.text]} /\ vault' = o.v
  BY <1>3
<1>5. model' \in {m, model}
  BY <1>3
<1>6. i.text \in Clean /\ i.v \in VaultShape /\ Keeps(vault, i.v)
  BY <1>0, <1>2, AppliedIsClean
<1>. HIDE DEF i
<1>7. o.text \in Clean /\ o.v \in VaultShape /\ Keeps(i.v, o.v)
  BY <1>0, <1>2, <1>6, AppliedIsClean
<1>. HIDE DEF o
<1>8. Keeps(vault, vault') /\ vault' \in VaultShape
  BY <1>4, <1>6, <1>7, KeepsTransitive
<1>9. m \in {"loaded", "failed"} /\ (model = "failed" => m = "failed")
  BY FailedStays DEF GuardInv, GuardShapes
<1>10. gcall' = [gcall EXCEPT ![c] = [pc |-> "done"]] /\ UNCHANGED sent
  BY DEF Exit
<1>. HIDE DEF g
<1>11. gcall' \in [Calls -> GuardCallShape]
  BY <1>10 DEF GuardInv, GuardShapes, GuardCallShape
<1>12. \A s \in exported' : s.input \in Clean /\ s.output \in Clean
  BY <1>4, <1>6, <1>7 DEF GuardInv, GuardShapes
<1>13. GuardShapes'
  BY <1>5, <1>9, <1>10, <1>11, <1>12 DEF GuardInv, GuardShapes
<1>14. InjectionNotSent'
  BY <1>5, <1>9, <1>10 DEF GuardInv, InjectionNotSent
<1>. QED  BY <1>8, <1>13, <1>14 DEF GuardInv

\* A call keeps the vault's invariant and its own.
LEMMA GuardNextStep ==
    ASSUME VaultInv, GuardInv, GuardNext
    PROVE  VaultInv' /\ GuardInv'
<1>1. ASSUME NEW c \in Calls, NEW output \in Outputs, BodyEnds(c, output)
      PROVE  GuardInv' /\ vault' \in VaultShape /\ Keeps(vault, vault')
  <2>. DEFINE out == IF gcall[c].kind = "tool" THEN output ELSE gcall[c].output
              h == [gcall[c] EXCEPT !.pc = "exit", !.output = out]
  <2>0. gcall[c].pc = "body" /\ gcall[c] \in GuardCallShape
    BY <1>1 DEF BodyEnds, GuardInv, GuardShapes
  <2>h. h \in GuardCallShape
    <3>1. out \in Outputs
      BY <2>0 DEF GuardCallShape
    <3>. HIDE DEF out
    <3>. QED  BY <2>0, <3>1 DEF GuardCallShape
  <2>1. gcall' \in [Calls -> GuardCallShape]
    <3>1. gcall' = [gcall EXCEPT ![c] = h]
      BY <1>1 DEF BodyEnds, GuardInv, GuardShapes
    <3>. HIDE DEF h
    <3>. QED  BY <2>h, <3>1 DEF GuardInv, GuardShapes
  <2>2. UNCHANGED <<vault, model, sent, exported>>
    BY <1>1 DEF BodyEnds
  <2>3. GuardInv'
    BY <2>1, <2>2 DEF GuardInv, GuardShapes, InjectionNotSent
  <2>. QED  BY <2>2, <2>3 DEF VaultInv, VaultShapes, Keeps
<1>2. VaultShapes
  BY DEF VaultInv
<1>3. GuardInv' /\ vault' \in VaultShape /\ Keeps(vault, vault')
  BY <1>1, <1>2, GuardCallStep, ExitStep DEF GuardNext
<1>4. UNCHANGED <<now, up, attempts, call, audit, returned, failures>>
  BY DEF GuardNext
<1>. QED  BY <1>3, <1>4, VaultFilled

\* The invariant of the guarded calls and of the vault they fill.
THEOREM GuardInductive == GuardSpec => [](VaultInv /\ GuardInv)
<1>1. VaultInit /\ GuardInit => VaultInv /\ GuardInv
  <2>1. GuardInit => GuardInv
    BY DEF GuardInit, GuardInv, GuardShapes, GuardCallShape, InjectionNotSent
  <2>. QED  BY <2>1, VaultInitially
<1>2. /\ VaultInv /\ GuardInv
      /\ [\/ GuardNext
          \/ (VaultNext \/ AddrsNext) /\ UNCHANGED guardVars]_<<vaultVars, guardVars>>
      => (VaultInv /\ GuardInv)'
  <2>1. ASSUME VaultInv, GuardInv, (VaultNext \/ AddrsNext) /\ UNCHANGED guardVars
        PROVE  (VaultInv /\ GuardInv)'
    BY <2>1, VaultStep DEF GuardInv, GuardShapes, InjectionNotSent, guardVars
  <2>2. ASSUME VaultInv, GuardInv, UNCHANGED <<vaultVars, guardVars>>
        PROVE  (VaultInv /\ GuardInv)'
    <3>1. vault' \in VaultShape /\ Keeps(vault, vault')
      BY <2>2 DEF VaultInv, VaultShapes, Keeps, vaultVars
    <3>. QED  BY <2>2, <3>1, VaultFilled DEF GuardInv, GuardShapes, InjectionNotSent, guardVars, vaultVars
  <2>. QED  BY <2>1, <2>2, GuardNextStep
<1>. QED  BY <1>1, <1>2, PTL DEF GuardSpec

\* guardrail/vault_client.py, storage/maintenance.py: for any number of
\* engineers who recover at once, of addresses and of secrets, with failing
\* Redis commands, cancelled tasks and guarded calls in between: no login is
\* locked out but by a lost EXPIRE, the wrong tokens admitted exceed
\* max_attempts by at most the attempts in flight, and secrets are handed out
\* and deleted only on record.
THEOREM VaultSafety == GuardSpec => []VaultSafe
BY GuardInductive, VaultInvIsSafe, PTL

\* observability.py, _enqueue: whatever text a call is given or returns,
\* however it was sampled, cached, checked or redacted, no exported span holds
\* a text in which the detectors would find an entity.
THEOREM NothingDetectableExported == GuardSpec => []NoEntityExported
<1>1. GuardInv => NoEntityExported
  BY DEF GuardInv, GuardShapes, Clean, NoEntityExported
<1>. QED  BY <1>1, GuardInductive, PTL

\* injection classifier: a request that would be blocked is sent only by a
\* process whose model failed to load, and such a process never loads it.
THEOREM InjectionStopped == GuardSpec => []InjectionNotSent
<1>1. GuardInv => InjectionNotSent
  BY DEF GuardInv
<1>. QED  BY <1>1, GuardInductive, PTL

\* The variables of both keep their types.
THEOREM GuardrailTyped == GuardSpec => []GuardrailTypeOK
<1>1. GuardInv => GuardTypeOK
  BY DEF GuardInv, GuardShapes, GuardCallShape, GuardTypeOK, Clean
<1>. QED  BY <1>1, VaultInvIsSafe, GuardInductive, PTL DEF GuardrailTypeOK
-----------------------------------------------------------------------------
(* The shared proxy's verdict.  That a block stands is not inductive: it     *)
(* needs that process() asks for the answer only after the scan is over, and *)
(* that a verdict is dropped only once the enrichment is past recovery.      *)

RequestShape ==
  [pc : {"idle", "scan", "enrich", "decide", "ended"}, id : RequestIds \cup {NotRunning},
   scan : {"new", "posted", "done", "cancelled"},
   verdict : {"none", FailOpen, "clean", "flag", "block"},
   scanned : {"none", "clean", "flag", "block"},
   enrich : {"new", "running", "done", "raised", "cancelled"},
   answer : {"none", "forward", "flag", "block", "error", "cancelled"}]

BreakerShape == [state : {"closed", "open", "half-open"}, failures : 0 .. Threshold]

\* Where a request stands, what it knows of its tasks and what it answered.
RequestSound(q) ==
  /\ q.pc = "idle" => q.scan = "new" /\ q.enrich = "new"
  /\ q.pc # "idle" => q.id \in RequestIds
  /\ q.pc \in {"enrich", "decide", "ended"} => q.scan \in {"done", "cancelled"}
  /\ q.pc = "decide" => Done(q.enrich)
  /\ q.pc = "ended" => Done(q.enrich) \/ q.answer = "cancelled"
  /\ q.scanned # "none" =>
       /\ q.scan = "done"
       /\ q.verdict = q.scanned \/ q.enrich \in {"raised", "cancelled"}
  /\ q.answer \in {"forward", "flag"} => q.pc = "ended" /\ q.verdict # "block"
  /\ q.answer # "none" => q.pc = "ended"

RequestsSound ==
  /\ req \in [Requests -> RequestShape]
  /\ secBreaker \in BreakerShape /\ obsBreaker \in BreakerShape
  /\ spansMade \in BOOLEAN
  /\ \A r \in Requests : RequestSound(req[r])

\* What the breakers do to their values.
LEMMA BreakerValues ==
    ASSUME NEW b \in BreakerShape, NEW rested \in BOOLEAN
    PROVE  Allow(b, rested) \in BreakerShape /\ Success(b) \in BreakerShape /\ Failure(b) \in BreakerShape
<1>. DEFINE n == IF b.failures < Threshold THEN b.failures + 1 ELSE b.failures
<1>1. n \in 0 .. Threshold
  BY SharedAssumption DEF BreakerShape
<1>2. Allow(b, rested) \in BreakerShape /\ Success(b) \in BreakerShape
  BY SharedAssumption DEF BreakerShape, Allow, Success, Closed
<1>3. Failure(b) = [state |-> IF b.state = "half-open" \/ (b.state = "closed" /\ n >= Threshold)
                              THEN "open" ELSE b.state, failures |-> n]
  BY DEF Failure
<1>. HIDE DEF n
<1>4. Failure(b) \in BreakerShape
  BY <1>1, <1>3 DEF BreakerShape
<1>. QED  BY <1>2, <1>4

\* One request moves on: what it becomes is sound, the others stand still.
LEMMA OneRequestMoves ==
    ASSUME RequestsSound, NEW r \in Requests, NEW q \in RequestShape, RequestSound(q),
           req' = [req EXCEPT ![r] = q],
           secBreaker' \in BreakerShape, obsBreaker' \in BreakerShape, UNCHANGED spansMade
    PROVE  RequestsSound'
BY DEF RequestsSound, RequestSound, Done

\* A handler that fails open leaves a request decided or ended.
LEMMA FailsOpenSound ==
    ASSUME NEW q \in RequestShape, RequestSound(q), q.pc = "enrich" \/ (q.pc = "scan" /\ q.scan = "cancelled"),
           Done(q.enrich), q.enrich \in {"raised", "cancelled"} \/ q.scanned = "none"
    PROVE  FailsOpen(q) \in RequestShape /\ RequestSound(FailsOpen(q))
<1>. USE DEF RequestShape, RequestSound, Done, FailOpen
<1>1. CASE spansMade
  BY <1>1 DEF FailsOpen
<1>2. CASE ~spansMade
  BY <1>2 DEF FailsOpen
<1>. QED  BY <1>1, <1>2

\* The scan and the enrichment, and process() between them.
LEMMA RequestStep ==
    ASSUME RequestsSound, NEW r \in Requests,
           \/ ScanFails(r) \/ \E id \in RequestIds : ProcessStarts(r, id)
           \/ \E rested \in BOOLEAN : ScanStarts(r, rested) \/ EnrichStarts(r, rested)
           \/ \E verdict \in {"clean", "flag", "block"} : ScanAnswers(r, verdict)
           \/ \E ok \in BOOLEAN : EnrichEnds(r, ok)
           \/ ScanAwaited(r) \/ ScanTimesOut(r) \/ EnrichAwaited(r) \/ EnrichTimesOut(r)
           \/ \E policy \in {"none", "allowed", "denied", "raises"} : Decide(r, policy)
    PROVE  RequestsSound'
<1>. DEFINE q == req[r]
<1>q. q \in RequestShape /\ RequestSound(q)
  BY DEF RequestsSound
<1>r. req \in [Requests -> RequestShape]
  BY DEF RequestsSound
<1>b. /\ secBreaker \in BreakerShape /\ obsBreaker \in BreakerShape
  BY DEF RequestsSound
<1>m. Minimal \in {"done", "raised"}
  BY DEF Minimal
<1>1. ASSUME NEW id \in RequestIds, ProcessStarts(r, id)
      PROVE  RequestsSound'
  <2>. DEFINE p == [q EXCEPT !.pc = "scan", !.id = id]
  <2>1. req' = [req EXCEPT ![r] = p]
    BY <1>1, <1>r DEF ProcessStarts, RequestShape
  <2>2. p \in RequestShape /\ RequestSound(p)
    BY <1>1, <1>q DEF ProcessStarts, RequestShape, RequestSound
  <2>3. UNCHANGED <<secBreaker, obsBreaker, spansMade>>
    BY <1>1 DEF ProcessStarts
  <2>. HIDE DEF p
  <2>. QED  BY <1>b, <2>1, <2>2, <2>3, OneRequestMoves
<1>2. ASSUME NEW rested \in BOOLEAN, ScanStarts(r, rested)
      PROVE  RequestsSound'
  <2>. DEFINE posts == Allows(secBreaker, rested) /\ Allows(Allow(secBreaker, rested), rested)
              p == [q EXCEPT !.scan = IF posts THEN "posted" ELSE "done",
                             !.verdict = IF posts THEN "none" ELSE FailOpen]
  <2>1. /\ req' = [req EXCEPT ![r] = p]
        /\ q.pc # "idle" /\ q.scan = "new"
        /\ secBreaker' = Allow(secBreaker, rested) /\ UNCHANGED <<obsBreaker, spansMade>>
    <3>. HIDE DEF posts
    <3>1. /\ req' = [req EXCEPT ![r].scan = IF posts THEN "posted" ELSE "done",
                                ![r].verdict = IF posts THEN "none" ELSE FailOpen]
          /\ q.pc # "idle" /\ q.scan = "new"
          /\ secBreaker' = Allow(secBreaker, rested) /\ UNCHANGED <<obsBreaker, spansMade>>
      BY <1>2, Zenon DEF ScanStarts, posts
    <3>. QED  BY <1>r, <3>1 DEF RequestShape
  <2>2. p \in RequestShape /\ RequestSound(p)
    <3>. HIDE DEF posts
    <3>. QED  BY <1>q, <2>1 DEF RequestShape, RequestSound, FailOpen
  <2>. HIDE DEF p
  <2>. QED  BY <1>b, <2>1, <2>2, BreakerValues, OneRequestMoves
<1>3. ASSUME NEW verdict \in {"clean", "flag", "block"}, ScanAnswers(r, verdict)
      PROVE  RequestsSound'
  <2>. DEFINE p == [q EXCEPT !.scan = "done", !.verdict = verdict, !.scanned = verdict]
  <2>1. /\ req' = [req EXCEPT ![r] = p] /\ q.scan = "posted"
        /\ secBreaker' = Success(secBreaker) /\ UNCHANGED <<obsBreaker, spansMade>>
    BY <1>3, <1>r DEF ScanAnswers, RequestShape
  <2>2. p \in RequestShape /\ RequestSound(p)
    BY <1>q, <2>1 DEF RequestShape, RequestSound
  <2>. HIDE DEF p
  <2>. QED  BY <1>b, <2>1, <2>2, BreakerValues, OneRequestMoves
<1>4. CASE ScanFails(r)
  <2>. DEFINE p == [q EXCEPT !.scan = "done", !.verdict = FailOpen]
  <2>1. /\ req' = [req EXCEPT ![r] = p] /\ q.scan = "posted"
        /\ secBreaker' = Failure(secBreaker) /\ UNCHANGED <<obsBreaker, spansMade>>
    BY <1>4, <1>r DEF ScanFails, RequestShape
  <2>2. p \in RequestShape /\ RequestSound(p)
    BY <1>q, <2>1 DEF RequestShape, RequestSound, FailOpen
  <2>. HIDE DEF p
  <2>. QED  BY <1>b, <2>1, <2>2, BreakerValues, OneRequestMoves
<1>5. ASSUME NEW rested \in BOOLEAN, EnrichStarts(r, rested)
      PROVE  RequestsSound'
  <2>. DEFINE p == [q EXCEPT !.enrich = IF Allows(obsBreaker, rested) THEN "running" ELSE Minimal]
  <2>1. /\ req' = [req EXCEPT ![r] = p] /\ q.pc # "idle" /\ q.enrich = "new"
        /\ obsBreaker' = Allow(obsBreaker, rested) /\ UNCHANGED <<secBreaker, spansMade>>
    BY <1>5, <1>r DEF EnrichStarts, RequestShape
  <2>2. p \in RequestShape /\ RequestSound(p)
    BY <1>q, <1>m, <2>1 DEF RequestShape, RequestSound, Done
  <2>. HIDE DEF p
  <2>. QED  BY <1>b, <2>1, <2>2, BreakerValues, OneRequestMoves
<1>6. ASSUME NEW ok \in BOOLEAN, EnrichEnds(r, ok)
      PROVE  RequestsSound'
  <2>. DEFINE p == [q EXCEPT !.enrich = IF ok THEN "done" ELSE Minimal]
  <2>1. /\ req' = [req EXCEPT ![r] = p] /\ q.enrich = "running"
        /\ UNCHANGED <<secBreaker, obsBreaker, spansMade>>
    BY <1>6, <1>r DEF EnrichEnds, RequestShape
  <2>2. p \in RequestShape /\ RequestSound(p)
    BY <1>q, <1>m, <2>1 DEF RequestShape, RequestSound, Done
  <2>. HIDE DEF p
  <2>. QED  BY <1>b, <2>1, <2>2, OneRequestMoves
<1>7. CASE ScanAwaited(r)
  <2>. DEFINE p == [q EXCEPT !.pc = "enrich"]
  <2>1. /\ req' = [req EXCEPT ![r] = p] /\ q.pc = "scan" /\ q.scan = "done"
        /\ UNCHANGED <<secBreaker, obsBreaker, spansMade>>
    BY <1>7, <1>r DEF ScanAwaited, RequestShape
  <2>2. p \in RequestShape /\ RequestSound(p)
    BY <1>q, <2>1 DEF RequestShape, RequestSound, Done
  <2>. HIDE DEF p
  <2>. QED  BY <1>b, <2>1, <2>2, OneRequestMoves
<1>8. CASE ScanTimesOut(r)
  <2>. DEFINE c == [q EXCEPT !.scan = "cancelled"]
              p == HandleTimeout(c)
  <2>1. /\ req' = [req EXCEPT ![r] = p] /\ q.pc = "scan" /\ ~Done(q.scan)
        /\ UNCHANGED <<secBreaker, obsBreaker, spansMade>>
    BY <1>8 DEF ScanTimesOut
  <2>2. c \in RequestShape /\ RequestSound(c) /\ c.pc = "scan" /\ c.scan = "cancelled" /\ c.scanned = "none"
    BY <1>q, <2>1 DEF RequestShape, RequestSound, Done
  <2>. HIDE DEF c
  <2>3. p \in RequestShape /\ RequestSound(p)
    <3>1. CASE Done(c.enrich)
      BY <2>2, <3>1, FailsOpenSound DEF HandleTimeout
    <3>2. CASE ~Done(c.enrich)
      BY <2>2, <3>2 DEF HandleTimeout, RequestShape, RequestSound, Done
    <3>. QED  BY <3>1, <3>2
  <2>. HIDE DEF p
  <2>. QED  BY <1>b, <2>1, <2>3, OneRequestMoves
<1>9. CASE EnrichAwaited(r)
  <2>0. q.pc = "enrich" /\ Done(q.enrich) /\ UNCHANGED spansMade
    BY <1>9 DEF EnrichAwaited
  <2>1. CASE q.enrich = "done"
    <3>. DEFINE p == [q EXCEPT !.pc = "decide"]
    <3>1. /\ req' = [req EXCEPT ![r] = p]
          /\ secBreaker' = Success(secBreaker) /\ obsBreaker' = Success(obsBreaker)
      BY <1>9, <1>r, <2>1 DEF EnrichAwaited, RequestShape
    <3>2. p \in RequestShape /\ RequestSound(p)
      BY <1>q, <2>0 DEF RequestShape, RequestSound, Done
    <3>. HIDE DEF p
    <3>. QED  BY <1>b, <2>0, <3>1, <3>2, BreakerValues, OneRequestMoves
  <2>2. CASE q.enrich # "done"
    <3>1. /\ req' = [req EXCEPT ![r] = FailsOpen(q)]
          /\ UNCHANGED <<secBreaker, obsBreaker>>
      BY <1>9, <2>2 DEF EnrichAwaited
    <3>2. q.enrich \in {"raised", "cancelled"}
      BY <2>0, <2>2 DEF Done
    <3>. HIDE DEF q
    <3>3. FailsOpen(q) \in RequestShape /\ RequestSound(FailsOpen(q))
      BY <1>q, <2>0, <3>2, FailsOpenSound, Zenon
    <3>. QED  BY <1>b, <2>0, <3>1, <3>3, OneRequestMoves
  <2>. QED  BY <2>1, <2>2
<1>10. CASE EnrichTimesOut(r)
  <2>. DEFINE c == [q EXCEPT !.enrich = "cancelled"]
  <2>1. /\ req' = [req EXCEPT ![r] = HandleTimeout(c)] /\ q.pc = "enrich" /\ ~Done(q.enrich)
        /\ UNCHANGED <<secBreaker, obsBreaker, spansMade>>
    BY <1>10 DEF EnrichTimesOut
  <2>2. c \in RequestShape /\ RequestSound(c) /\ c.pc = "enrich" /\ c.enrich = "cancelled"
    BY <1>q, <2>1 DEF RequestShape, RequestSound, Done
  <2>. HIDE DEF c
  <2>3. Done(c.enrich) /\ c.enrich \in {"raised", "cancelled"}
    BY <2>2 DEF Done
  <2>4. HandleTimeout(c) = FailsOpen(c)
    BY <2>3 DEF HandleTimeout
  <2>5. HandleTimeout(c) \in RequestShape /\ RequestSound(HandleTimeout(c))
    BY <2>2, <2>3, <2>4, FailsOpenSound, Zenon
  <2>. QED  BY <1>b, <2>1, <2>5, OneRequestMoves
<1>11. ASSUME NEW policy \in {"none", "allowed", "denied", "raises"}, Decide(r, policy)
       PROVE  RequestsSound'
  <2>. DEFINE p == [q EXCEPT !.pc = "ended", !.answer = Action(q.verdict, policy)]
  <2>1. /\ req' = [req EXCEPT ![r] = p] /\ q.pc = "decide"
        /\ UNCHANGED <<secBreaker, obsBreaker, spansMade>>
    BY <1>11 DEF Decide, Ends
  <2>2. /\ Action(q.verdict, policy) \in {"forward", "flag", "block"}
        /\ q.verdict = "block" => Action(q.verdict, policy) = "block"
    BY DEF Action
  <2>3. p \in RequestShape /\ RequestSound(p)
    BY <1>q, <2>1, <2>2 DEF RequestShape, RequestSound, Done
  <2>. HIDE DEF p
  <2>. QED  BY <1>b, <2>1, <2>3, OneRequestMoves
<1>. QED  BY <1>1, <1>2, <1>3, <1>4, <1>5, <1>6, <1>7, <1>8, <1>9, <1>10, <1>11

\* The recorder and the others that share the breakers leave the requests alone.
LEMMA OthersStep ==
    ASSUME RequestsSound,
           OthersReport \/ RecorderStarts \/ LoopFlushes \/ LoopWrites \/ RecorderStops \/ StopWrites
    PROVE  RequestsSound'
<1>1. UNCHANGED <<req, spansMade>> /\ secBreaker' \in BreakerShape /\ obsBreaker' \in BreakerShape
  <2>1. CASE OthersReport
    BY <2>1, BreakerValues DEF OthersReport, RequestsSound
  <2>2. CASE RecorderStarts \/ LoopFlushes \/ LoopWrites \/ RecorderStops \/ StopWrites
    BY <2>2 DEF RecorderStarts, LoopFlushes, LoopWrites, RecorderStops, StopWrites, RequestsSound
  <2>. QED  BY <2>1, <2>2
<1>. QED  BY <1>1 DEF RequestsSound

LEMMA SharedStep == RequestsSound /\ [SharedNext]_sharedVars => RequestsSound'
<1>1. ASSUME RequestsSound, UNCHANGED sharedVars
      PROVE  RequestsSound'
  BY <1>1 DEF RequestsSound, sharedVars
<1>2. ASSUME RequestsSound, SharedNext
      PROVE  RequestsSound'
  <2>1. CASE OthersReport \/ RecorderStarts \/ LoopFlushes \/ LoopWrites \/ RecorderStops \/ StopWrites
    BY <1>2, <2>1, OthersStep
  <2>2. ASSUME NEW r \in Requests,
           \/ ScanFails(r) \/ \E id \in RequestIds : ProcessStarts(r, id)
           \/ \E rested \in BOOLEAN : ScanStarts(r, rested) \/ EnrichStarts(r, rested)
           \/ \E verdict \in {"clean", "flag", "block"} : ScanAnswers(r, verdict)
           \/ \E ok \in BOOLEAN : EnrichEnds(r, ok)
           \/ ScanAwaited(r) \/ ScanTimesOut(r) \/ EnrichAwaited(r) \/ EnrichTimesOut(r)
           \/ \E policy \in {"none", "allowed", "denied", "raises"} : Decide(r, policy)
        PROVE  RequestsSound'
    BY <1>2, <2>2, RequestStep
  <2>. QED  BY <1>2, <2>1, <2>2, Zenon DEF SharedNext
<1>. QED  BY <1>1, <1>2

LEMMA SharedInitially == SharedInit => RequestsSound
<1>1. Closed \in BreakerShape
  BY SharedAssumption DEF Closed, BreakerShape
<1>. QED  BY <1>1 DEF SharedInit, RequestsSound, RequestShape, RequestSound

\* proxy/shared_pipeline.py, process and _handle_timeout: for any number of
\* concurrent requests, and whatever the breakers, the policy engine and the two
\* timeouts do: what the scan blocked is let through only beside a failed or
\* late enrichment, and a task outlives its request only if that request was
\* cancelled.
THEOREM BlocksStand == SharedSpec => []VerdictsStand
<1>1. RequestsSound => VerdictsStand
  <2>. SUFFICES ASSUME RequestsSound, NEW r \in Requests
               PROVE  /\ req[r].scanned = "block" /\ req[r].answer \in {"forward", "flag"} =>
                           req[r].enrich \in {"cancelled", "raised"}
                      /\ req[r].pc = "ended" /\ ~(Done(req[r].scan) /\ Done(req[r].enrich)) =>
                           req[r].answer = "cancelled"
    BY DEF VerdictsStand, BlockStands, TasksReaped
  <2>. QED  BY DEF RequestsSound, RequestSound, Done
<1>. QED  BY <1>1, SharedInitially, SharedStep, PTL DEF SharedSpec
-----------------------------------------------------------------------------
(* The decision recorder.  That an id is on record once is not inductive for *)
(* the concatenation it speaks of: a batch moves from the queue through the  *)
(* loop or stop() into the sink, so the four must each hold an id once and   *)
(* no two of them the same.                                                  *)

Distinct(s) == \A i, j \in DOMAIN s : s[i] = s[j] => i = j
Apart(s, t) == Elements(s) \cap Elements(t) = {}

\* What the queue, the batches of the loop and of stop(), and the sink hold.
Kept(q, b, c, w, lost, seen) ==
  /\ {q, b, c, w} \subseteq Seq(RequestIds)
  /\ Distinct(q) /\ Distinct(b) /\ Distinct(c) /\ Distinct(w)
  /\ Apart(q, b) /\ Apart(q, c) /\ Apart(q, w) /\ Apart(b, c) /\ Apart(b, w) /\ Apart(c, w)
  /\ (Elements(q) \cup Elements(b) \cup Elements(c) \cup Elements(w)) \cap lost = {}
  /\ Elements(q) \cup Elements(b) \cup Elements(c) \cup Elements(w) \cup lost = seen

Batch(b) == IF b = NotRunning THEN <<>> ELSE b

RecorderShape ==
  [queue : Seq(RequestIds), seen : SUBSET RequestIds, loop : Seq(RequestIds) \cup {NotRunning},
   stop : Seq(RequestIds) \cup {NotRunning}, lost : SUBSET RequestIds]

RecorderSound ==
  /\ recorder \in RecorderShape
  /\ Len(recorder.queue) <= QueueMax
  /\ Kept(recorder.queue, Batch(recorder.loop), Batch(recorder.stop), written,
          recorder.lost, recorder.seen)

LEMMA NothingElements == Elements(<<>>) = {} /\ Distinct(<<>>)
BY DEF Elements, Distinct

\* Two sequences without repetition, apart, make one without repetition.
LEMMA ConcatDistinct ==
    ASSUME NEW s \in Seq(RequestIds), NEW t \in Seq(RequestIds), Distinct(s), Distinct(t), Apart(s, t)
    PROVE  /\ s \o t \in Seq(RequestIds) /\ Distinct(s \o t)
           /\ Elements(s \o t) = Elements(s) \cup Elements(t)
<1>. DEFINE st == s \o t
            m == Len(s)
            k == Len(t)
<1>1. st \in Seq(RequestIds) /\ Len(st) = m + k /\ m \in Nat /\ k \in Nat
  OBVIOUS
<1>2. \A i \in 1 .. m : st[i] = s[i]
  OBVIOUS
<1>3. \A i \in 1 .. k : st[m + i] = t[i]
  OBVIOUS
<1>4. \A i \in m + 1 .. m + k : st[i] = t[i - m] /\ i - m \in 1 .. k
  <2>. SUFFICES ASSUME NEW i \in m + 1 .. m + k
               PROVE  st[i] = t[i - m] /\ i - m \in 1 .. k
    OBVIOUS
  <2>. HIDE DEF st
  <2>1. i - m \in 1 .. k /\ m + (i - m) = i
    BY <1>1
  <2>. QED  BY <1>3, <2>1
<1>5. DOMAIN s = 1 .. m /\ DOMAIN t = 1 .. k /\ DOMAIN st = 1 .. m + k
  BY <1>1
<1>. HIDE DEF st, m, k
<1>6. Elements(st) = Elements(s) \cup Elements(t)
  <2>1. Elements(st) \subseteq Elements(s) \cup Elements(t)
    <3>. SUFFICES ASSUME NEW i \in 1 .. m + k
                 PROVE  st[i] \in Elements(s) \cup Elements(t)
      BY <1>5 DEF Elements
    <3>1. CASE i \in 1 .. m
      BY <1>2, <1>5, <3>1 DEF Elements
    <3>2. CASE i \in m + 1 .. m + k
      BY <1>4, <1>5, <3>2 DEF Elements
    <3>. QED  BY <1>1, <3>1, <3>2
  <2>2. Elements(s) \subseteq Elements(st)
    BY <1>1, <1>2, <1>5 DEF Elements
  <2>3. Elements(t) \subseteq Elements(st)
    <3>. SUFFICES ASSUME NEW i \in 1 .. k
                 PROVE  t[i] \in Elements(st)
      BY <1>5 DEF Elements
    <3>1. m + i \in 1 .. m + k
      BY <1>1
    <3>. QED  BY <1>3, <1>5, <3>1 DEF Elements
  <2>. QED  BY <2>1, <2>2, <2>3
<1>7. Distinct(st)
  <2>. SUFFICES ASSUME NEW i \in 1 .. m + k, NEW j \in 1 .. m + k, st[i] = st[j]
               PROVE  i = j
    BY <1>5 DEF Distinct
  <2>1. CASE i \in 1 .. m /\ j \in 1 .. m
    BY <1>2, <1>5, <2>1 DEF Distinct
  <2>2. CASE i \in m + 1 .. m + k /\ j \in m + 1 .. m + k
    <3>1. i - m = j - m
      BY <1>4, <1>5, <2>2 DEF Distinct
    <3>. QED  BY <1>1, <3>1
  <2>3. \A a \in 1 .. m, c \in m + 1 .. m + k : st[a] # st[c]
    BY <1>2, <1>4, <1>5 DEF Apart, Elements
  <2>. QED  BY <1>1, <2>1, <2>2, <2>3
<1>. QED  BY <1>1, <1>6, <1>7 DEF st

\* A batch that is written up to its nth event: what reached the sink and what
\* did not are apart, and together are the batch.
LEMMA SplitDistinct ==
    ASSUME NEW s \in Seq(RequestIds), Distinct(s), NEW n \in 0 .. Len(s)
    PROVE  LET head == SubSeq(s, 1, n)
               tail == {s[i] : i \in n + 1 .. Len(s)}
           IN  /\ head \in Seq(RequestIds) /\ Distinct(head)
               /\ Elements(head) \cup tail = Elements(s) /\ Elements(head) \cap tail = {}
<1>. DEFINE head == SubSeq(s, 1, n)
            tail == {s[i] : i \in n + 1 .. Len(s)}
<1>1. head \in Seq(RequestIds) /\ Len(head) = n
  OBVIOUS
<1>2. DOMAIN head = 1 .. n /\ \A i \in 1 .. n : head[i] = s[i]
  OBVIOUS
<1>3. DOMAIN s = 1 .. Len(s) /\ Len(s) \in Nat
  OBVIOUS
<1>. HIDE DEF head
<1>4. Elements(head) = {s[i] : i \in 1 .. n}
  BY <1>2 DEF Elements
<1>5. Distinct(head)
  BY <1>2, <1>3 DEF Distinct
<1>6. Elements(head) \cup tail = Elements(s) /\ Elements(head) \cap tail = {}
  <2>. DEFINE m == Len(s)
  <2>1. n \in 0 .. m /\ m \in Nat /\ DOMAIN s = 1 .. m /\ tail = {s[i] : i \in n + 1 .. m}
    BY <1>3
  <2>. HIDE DEF m, tail
  <2>2. Elements(head) \cup tail = Elements(s)
    <3>1. Elements(s) = {s[i] : i \in 1 .. m}
      BY <2>1 DEF Elements
    <3>2. 1 .. m = (1 .. n) \cup (n + 1 .. m)
      BY <2>1
    <3>3. {s[i] : i \in (1 .. n) \cup (n + 1 .. m)} = {s[i] : i \in 1 .. n} \cup {s[i] : i \in n + 1 .. m}
      OBVIOUS
    <3>. QED  BY <1>4, <2>1, <3>1, <3>2, <3>3
  <2>3. \A i \in 1 .. n, j \in n + 1 .. m : s[i] # s[j]
    BY <2>1 DEF Distinct
  <2>4. Elements(head) \cap tail = {}
    BY <1>4, <2>1, <2>3
  <2>. QED  BY <2>2, <2>4
<1>. QED  BY <1>1, <1>5, <1>6 DEF head

\* An id more at the end of a queue that does not hold it.
LEMMA AppendDistinct ==
    ASSUME NEW s \in Seq(RequestIds), Distinct(s), NEW id \in RequestIds, id \notin Elements(s)
    PROVE  /\ Append(s, id) \in Seq(RequestIds) /\ Distinct(Append(s, id))
           /\ Elements(Append(s, id)) = Elements(s) \cup {id}
<1>. DEFINE t == Append(s, id)
<1>1. /\ t \in Seq(RequestIds) /\ DOMAIN t = 1 .. Len(s) + 1 /\ DOMAIN s = 1 .. Len(s) /\ Len(s) \in Nat
      /\ t[Len(s) + 1] = id
  OBVIOUS
<1>2. \A i \in 1 .. Len(s) : t[i] = s[i]
  OBVIOUS
<1>. HIDE DEF t
<1>3. Distinct(t) /\ Elements(t) = Elements(s) \cup {id}
  BY <1>1, <1>2 DEF Distinct, Elements
<1>. QED  BY <1>1, <1>3 DEF t

\* A sequence without repetition has as many elements as places.
LEMMA DistinctCard ==
    ASSUME NEW s \in Seq(RequestIds), Distinct(s)
    PROVE  Cardinality(Elements(s)) = Len(s)
<1>1. s \in Bijection(1 .. Len(s), Elements(s))
  BY DEF Bijection, Injection, Surjection, IsInjective, Distinct, Elements
<1>2. IsFiniteSet(1 .. Len(s)) /\ Cardinality(1 .. Len(s)) = Len(s)
  <2>. DEFINE m == Len(s)
  <2>1. m \in Int /\ m >= 0 /\ 1 \in Int
    OBVIOUS
  <2>. HIDE DEF m
  <2>2. IsFiniteSet(1 .. m) /\ Cardinality(1 .. m) = IF 1 > m THEN 0 ELSE m - 1 + 1
    BY <2>1, FS_Interval, Zenon
  <2>3. (IF 1 > m THEN 0 ELSE m - 1 + 1) = m
    BY <2>1
  <2>. QED  BY <2>2, <2>3 DEF m
<1>3. ExistsBijection(1 .. Len(s), Elements(s))
  BY <1>1 DEF ExistsBijection
<1>. QED  BY <1>2, <1>3, FS_Bijection

\* The loop and stop() are alike to the bookkeeping.
LEMMA KeptSwapped ==
    ASSUME NEW q, NEW b, NEW c, NEW w, NEW lost, NEW seen, Kept(q, b, c, w, lost, seen)
    PROVE  Kept(q, c, b, w, lost, seen)
BY DEF Kept, Apart

\* With nothing in it, a batch can take over the queue.
LEMMA KeptHandedOver ==
    ASSUME NEW q, NEW c, NEW w, NEW lost, NEW seen, Kept(q, <<>>, c, w, lost, seen)
    PROVE  Kept(<<>>, q, c, w, lost, seen)
BY NothingElements DEF Kept, Apart

\* A batch is written up to its nth event, the rest is lost.
LEMMA KeptWritten ==
    ASSUME NEW q, NEW b, NEW c, NEW w, NEW lost, NEW seen, Kept(q, b, c, w, lost, seen),
           NEW n \in 0 .. Len(b)
    PROVE  Kept(q, <<>>, c, w \o SubSeq(b, 1, n), lost \cup {b[i] : i \in n + 1 .. Len(b)}, seen)
<1>. DEFINE head == SubSeq(b, 1, n)
            tail == {b[i] : i \in n + 1 .. Len(b)}
<1>1. /\ head \in Seq(RequestIds) /\ Distinct(head)
      /\ Elements(head) \cup tail = Elements(b) /\ Elements(head) \cap tail = {}
  BY SplitDistinct DEF Kept
<1>. HIDE DEF head, tail
<1>2. Apart(w, head) /\ w \in Seq(RequestIds) /\ Distinct(w)
  BY <1>1 DEF Kept, Apart
<1>3. /\ w \o head \in Seq(RequestIds) /\ Distinct(w \o head)
      /\ Elements(w \o head) = Elements(w) \cup Elements(head)
  BY <1>1, <1>2, ConcatDistinct
<1>. DEFINE w2 == w \o head
<1>. HIDE DEF w2
<1>4. Kept(q, <<>>, c, w2, lost \cup tail, seen)
  <2>1. w2 \in Seq(RequestIds) /\ Distinct(w2) /\ Elements(w2) = Elements(w) \cup Elements(head)
    BY <1>3 DEF w2
  <2>2. <<>> \in Seq(RequestIds)
    OBVIOUS
  <2>. QED  BY <1>1, <2>1, <2>2, NothingElements DEF Kept, Apart
<1>. QED  BY <1>4 DEF w2, head, tail

\* record() of an id the recorder has not seen.
LEMMA KeptRecorded ==
    ASSUME NEW q, NEW b, NEW c, NEW w, NEW lost, NEW seen, Kept(q, b, c, w, lost, seen),
           NEW id \in RequestIds, id \notin seen
    PROVE  Kept(Append(q, id), b, c, w, lost, seen \cup {id})
<1>. DEFINE q2 == Append(q, id)
<1>1. q \in Seq(RequestIds) /\ Distinct(q) /\ id \notin Elements(q)
  BY DEF Kept
<1>2. q2 \in Seq(RequestIds) /\ Distinct(q2) /\ Elements(q2) = Elements(q) \cup {id}
  BY <1>1, AppendDistinct
<1>. HIDE DEF q2
<1>3. Kept(q2, b, c, w, lost, seen \cup {id})
  BY <1>2 DEF Kept, Apart
<1>. QED  BY <1>3 DEF q2

\* What the sink and the batches hold together.
LEMMA KeptIsOnce ==
    ASSUME NEW q, NEW b, NEW c, NEW w, NEW lost, NEW seen, Kept(q, b, c, w, lost, seen)
    PROVE  /\ Elements(q \o b \o c \o w) \cup lost = seen
           /\ Elements(q \o b \o c \o w) \cap lost = {}
           /\ Cardinality(Elements(q \o b \o c \o w)) = Len(q \o b \o c \o w)
<1>. DEFINE qb == q \o b
            qbc == qb \o c
            one == qbc \o w
<1>1. qb \in Seq(RequestIds) /\ Distinct(qb) /\ Elements(qb) = Elements(q) \cup Elements(b)
  BY ConcatDistinct DEF Kept
<1>. HIDE DEF qb
<1>2. Apart(qb, c) /\ c \in Seq(RequestIds) /\ Distinct(c)
  BY <1>1 DEF Kept, Apart
<1>3. qbc \in Seq(RequestIds) /\ Distinct(qbc) /\ Elements(qbc) = Elements(qb) \cup Elements(c)
  BY <1>1, <1>2, ConcatDistinct
<1>. HIDE DEF qbc
<1>4. Apart(qbc, w) /\ w \in Seq(RequestIds) /\ Distinct(w)
  BY <1>1, <1>3 DEF Kept, Apart
<1>5. one \in Seq(RequestIds) /\ Distinct(one) /\ Elements(one) = Elements(qbc) \cup Elements(w)
  BY <1>3, <1>4, ConcatDistinct
<1>. HIDE DEF one
<1>6. Cardinality(Elements(one)) = Len(one)
  BY <1>5, DistinctCard
<1>7. Elements(one) \cup lost = seen /\ Elements(one) \cap lost = {}
  BY <1>1, <1>3, <1>5 DEF Kept
<1>. QED  BY <1>6, <1>7 DEF one, qbc, qb

LEMMA RecorderIsOnce == RecorderSound => RecordedOnce
<1>. SUFFICES ASSUME RecorderSound
              PROVE  RecordedOnce
  OBVIOUS
<1>. DEFINE all == [s \in {"queue", "loop", "stop"} |-> IF recorder[s] = NotRunning THEN <<>> ELSE recorder[s]]
<1>1. recorder.queue # NotRunning
  BY SharedAssumption DEF RecorderSound, RecorderShape
<1>2. all["queue"] = recorder.queue /\ all["loop"] = Batch(recorder.loop) /\ all["stop"] = Batch(recorder.stop)
  BY <1>1 DEF Batch
<1>. HIDE DEF all
<1>. DEFINE one == all["queue"] \o all["loop"] \o all["stop"] \o written
<1>3. /\ Elements(one) \cup recorder.lost = recorder.seen /\ Elements(one) \cap recorder.lost = {}
      /\ Cardinality(Elements(one)) = Len(one)
  <2>. DEFINE q == all["queue"]
              b == all["loop"]
              c == all["stop"]
              lost == recorder.lost
              seen == recorder.seen
  <2>1. Kept(q, b, c, written, lost, seen)
    BY <1>2 DEF RecorderSound
  <2>. HIDE DEF q, b, c, lost, seen
  <2>2. /\ Elements(q \o b \o c \o written) \cup lost = seen
        /\ Elements(q \o b \o c \o written) \cap lost = {}
        /\ Cardinality(Elements(q \o b \o c \o written)) = Len(q \o b \o c \o written)
    BY <2>1, KeptIsOnce
  <2>. QED  BY <2>2, Zenon DEF q, b, c, lost, seen
<1>. HIDE DEF one
<1>4. QED
  BY <1>3 DEF RecordedOnce, one, all

\* Every step of the recorder, and decide(), keep the books.
LEMMA RecorderStep == RequestsSound /\ RecorderSound /\ [SharedNext]_sharedVars => RecorderSound'
<1>. SUFFICES ASSUME RequestsSound, RecorderSound, [SharedNext]_sharedVars
              PROVE  RecorderSound'
  OBVIOUS
<1>. DEFINE q == recorder.queue
            b == Batch(recorder.loop)
            c == Batch(recorder.stop)
            lost == recorder.lost
            seen == recorder.seen
<1>k. recorder \in RecorderShape /\ Kept(q, b, c, written, lost, seen)
  BY DEF RecorderSound
<1>n. <<>> \in Seq(RequestIds) /\ Batch(<<>>) = <<>> /\ Batch(NotRunning) = <<>> /\ Len(<<>>) <= QueueMax
  BY SharedAssumption DEF Batch
<1>t. q \in Seq(RequestIds) /\ Batch(q) = q /\ lost \subseteq RequestIds /\ seen \subseteq RequestIds
  BY <1>k, SharedAssumption DEF RecorderShape, Batch
<1>l. recorder.loop # NotRunning => b = recorder.loop
  BY DEF Batch
<1>s. recorder.stop # NotRunning => c = recorder.stop
  BY DEF Batch
<1>w. \A batch \in Seq(RequestIds) : {batch[i] : i \in 1 .. Len(batch)} \subseteq RequestIds
  OBVIOUS
<1>1. ASSUME NEW r \in Requests, NEW policy \in {"none", "allowed", "denied", "raises"}, Decide(r, policy)
      PROVE  RecorderSound'
  <2>. DEFINE id == req[r].id
  <2>1. id \in RequestIds
    BY <1>1 DEF Decide, RequestsSound, RequestSound
  <2>2. recorder' = Recorded(recorder, id) /\ written' = written
    BY <1>1 DEF Decide
  <2>. HIDE DEF id
  <2>3. CASE id \in seen \/ Len(q) >= QueueMax
    <3>1. recorder' = recorder
      BY <2>2, <2>3 DEF Recorded
    <3>. QED  BY <2>2, <3>1 DEF RecorderSound
  <2>4. CASE ~(id \in seen \/ Len(q) >= QueueMax)
    <3>1. recorder' = [recorder EXCEPT !.queue = Append(@, id), !.seen = @ \cup {id}]
      BY <2>2, <2>4 DEF Recorded
    <3>2. Append(q, id) \in Seq(RequestIds) /\ seen \cup {id} \subseteq RequestIds
      BY <1>t, <2>1
    <3>3. Kept(Append(q, id), b, c, written, lost, seen \cup {id})
      BY <1>k, <2>1, <2>4, KeptRecorded
    <3>4. recorder' \in RecorderShape
      BY <1>k, <3>1, <3>2 DEF RecorderShape
    <3>5. /\ recorder'.queue = Append(q, id) /\ recorder'.seen = seen \cup {id}
          /\ recorder'.loop = recorder.loop /\ recorder'.stop = recorder.stop /\ recorder'.lost = lost
      BY <1>k, <3>1 DEF RecorderShape
    <3>6. Len(Append(q, id)) <= QueueMax
      BY <1>t, <2>1, <2>4, SharedAssumption
    <3>. QED  BY <2>2, <3>3, <3>4, <3>5, <3>6 DEF RecorderSound
  <2>. QED  BY <2>3, <2>4
<1>2. CASE UNCHANGED <<recorder, written>>
  BY <1>2 DEF RecorderSound
<1>3. CASE RecorderStarts
  <2>1. /\ recorder.loop = NotRunning /\ recorder' = [recorder EXCEPT !.loop = <<>>]
        /\ written' = written
    BY <1>3 DEF RecorderStarts
  <2>2. recorder' \in RecorderShape
    BY <1>k, <1>n, <2>1 DEF RecorderShape
  <2>3. /\ recorder'.queue = q /\ recorder'.seen = seen /\ Batch(recorder'.loop) = b
        /\ recorder'.stop = recorder.stop /\ recorder'.lost = lost
    BY <1>k, <1>n, <2>1 DEF RecorderShape
  <2>. QED  BY <1>k, <2>1, <2>2, <2>3 DEF RecorderSound
<1>4. CASE LoopFlushes
  <2>1. /\ recorder.loop = <<>> /\ recorder' = [recorder EXCEPT !.loop = recorder.queue, !.queue = <<>>]
        /\ written' = written
    BY <1>4 DEF LoopFlushes
  <2>2. recorder' \in RecorderShape
    BY <1>k, <1>n, <2>1 DEF RecorderShape
  <2>3. /\ recorder'.queue = <<>> /\ recorder'.seen = seen /\ Batch(recorder'.loop) = q
        /\ recorder'.stop = recorder.stop /\ recorder'.lost = lost
    BY <1>k, <1>n, <1>t, <2>1 DEF RecorderShape
  <2>4. Kept(<<>>, q, c, written, lost, seen)
    BY <1>k, <1>n, <2>1, KeptHandedOver
  <2>. QED  BY <1>n, <2>1, <2>2, <2>3, <2>4 DEF RecorderSound
<1>5. CASE LoopWrites
  <2>1. PICK n \in 0 .. Len(recorder.loop) :
          Writes(recorder.loop, n, [recorder EXCEPT !.loop = <<>>])
    BY <1>5 DEF LoopWrites
  <2>2. b = recorder.loop /\ n \in 0 .. Len(b)
    BY <1>5, <1>l DEF LoopWrites
  <2>. DEFINE more == lost \cup {b[i] : i \in n + 1 .. Len(b)}
  <2>3. /\ written' = written \o SubSeq(b, 1, n)
        /\ recorder' = [recorder EXCEPT !.loop = <<>>, !.lost = more]
    BY <1>k, <2>1, <2>2 DEF Writes, RecorderShape
  <2>4. Kept(q, <<>>, c, written', more, seen)
    BY <1>k, <2>2, <2>3, KeptWritten
  <2>. HIDE DEF more
  <2>5. more \subseteq RequestIds
    BY <1>t, <2>4 DEF Kept
  <2>6. recorder' \in RecorderShape
    BY <1>k, <1>n, <2>3, <2>5 DEF RecorderShape
  <2>7. /\ recorder'.queue = q /\ recorder'.seen = seen /\ Batch(recorder'.loop) = <<>>
        /\ recorder'.stop = recorder.stop /\ recorder'.lost = more
    BY <1>k, <1>n, <2>3 DEF RecorderShape
  <2>. QED  BY <2>4, <2>6, <2>7 DEF RecorderSound
<1>6. CASE RecorderStops
  <2>1. PICK n \in 0 .. Len(recorder.loop) :
          Writes(recorder.loop, n,
                 [recorder EXCEPT !.loop = NotRunning, !.stop = recorder.queue, !.queue = <<>>])
    BY <1>6 DEF RecorderStops
  <2>2. b = recorder.loop /\ n \in 0 .. Len(b) /\ c = <<>>
    BY <1>6, <1>l, <1>n, <2>1 DEF RecorderStops
  <2>. DEFINE more == lost \cup {b[i] : i \in n + 1 .. Len(b)}
  <2>3. /\ written' = written \o SubSeq(b, 1, n)
        /\ recorder' = [recorder EXCEPT !.loop = NotRunning, !.stop = recorder.queue,
                                        !.queue = <<>>, !.lost = more]
    BY <1>k, <2>1, <2>2 DEF Writes, RecorderShape
  <2>4. Kept(q, <<>>, <<>>, written', more, seen)
    BY <1>k, <2>2, <2>3, KeptWritten
  <2>. HIDE DEF more
  <2>5. Kept(<<>>, <<>>, q, written', more, seen)
    BY <2>4, KeptHandedOver, KeptSwapped
  <2>6. more \subseteq RequestIds
    BY <1>t, <2>4 DEF Kept
  <2>7. recorder' \in RecorderShape
    BY <1>k, <1>n, <2>3, <2>6 DEF RecorderShape
  <2>8. /\ recorder'.queue = <<>> /\ recorder'.seen = seen /\ Batch(recorder'.loop) = <<>>
        /\ Batch(recorder'.stop) = q /\ recorder'.lost = more
    BY <1>k, <1>n, <1>t, <2>3 DEF RecorderShape
  <2>. QED  BY <1>n, <2>5, <2>7, <2>8 DEF RecorderSound
<1>7. CASE StopWrites
  <2>1. PICK n \in 0 .. Len(recorder.stop) :
          Writes(recorder.stop, n, [recorder EXCEPT !.stop = NotRunning])
    BY <1>7 DEF StopWrites
  <2>2. c = recorder.stop /\ n \in 0 .. Len(c)
    BY <1>7, <1>s DEF StopWrites
  <2>. DEFINE more == lost \cup {c[i] : i \in n + 1 .. Len(c)}
  <2>3. /\ written' = written \o SubSeq(c, 1, n)
        /\ recorder' = [recorder EXCEPT !.stop = NotRunning, !.lost = more]
    BY <1>k, <2>1, <2>2 DEF Writes, RecorderShape
  <2>4. Kept(q, <<>>, b, written', more, seen)
    BY <1>k, <2>2, <2>3, KeptSwapped, KeptWritten
  <2>. HIDE DEF more
  <2>5. Kept(q, b, <<>>, written', more, seen)
    BY <2>4, KeptSwapped
  <2>6. more \subseteq RequestIds
    BY <1>t, <2>4 DEF Kept
  <2>7. recorder' \in RecorderShape
    BY <1>k, <2>3, <2>6 DEF RecorderShape
  <2>8. /\ recorder'.queue = q /\ recorder'.seen = seen /\ recorder'.loop = recorder.loop
        /\ Batch(recorder'.stop) = <<>> /\ recorder'.lost = more
    BY <1>k, <1>n, <2>3 DEF RecorderShape
  <2>. QED  BY <2>5, <2>7, <2>8 DEF RecorderSound
<1>8. \/ \E r \in Requests, policy \in {"none", "allowed", "denied", "raises"} : Decide(r, policy)
      \/ UNCHANGED <<recorder, written>>
      \/ RecorderStarts \/ LoopFlushes \/ LoopWrites \/ RecorderStops \/ StopWrites
  BY DEF SharedNext, sharedVars, ScanFails, ProcessStarts, ScanStarts, EnrichStarts, ScanAnswers,
         EnrichEnds, ScanAwaited, ScanTimesOut, EnrichAwaited, EnrichTimesOut, OthersReport
<1>. QED  BY <1>1, <1>2, <1>3, <1>4, <1>5, <1>6, <1>7, <1>8

LEMMA RecorderInitially == SharedInit => RecorderSound
<1>. SUFFICES ASSUME SharedInit
              PROVE  RecorderSound
  OBVIOUS
<1>1. Batch(NotRunning) = <<>> /\ <<>> \in Seq(RequestIds) /\ Len(<<>>) <= QueueMax
  BY SharedAssumption DEF Batch
<1>2. Kept(<<>>, <<>>, <<>>, <<>>, {}, {})
  BY <1>1, NothingElements DEF Kept, Apart
<1>. QED  BY <1>1, <1>2 DEF SharedInit, RecorderSound, RecorderShape

\* proxy/decision_recorder.py, record, flush and stop: for any queue size and any
\* number of requests that repeat ids, a decision that was taken is in the queue,
\* in exactly one batch, written or lost, and never two of these, however the
\* flush loop and stop() overlap and however often the sink fails in between.
THEOREM DecisionsOnRecordOnce == SharedSpec => []RecordedOnce
BY RecorderInitially, SharedInitially, SharedStep, RecorderStep, RecorderIsOnce, PTL DEF SharedSpec

\* What the invariants of requests and recorder say includes the types.
LEMMA SharedSoundTyped == RequestsSound /\ RecorderSound => SharedTypeOK
<1>. SUFFICES ASSUME RequestsSound, RecorderSound
              PROVE  SharedTypeOK
  OBVIOUS
<1>1. /\ {secBreaker.state, obsBreaker.state} \subseteq {"closed", "open", "half-open"}
      /\ {secBreaker.failures, obsBreaker.failures} \subseteq 0 .. Threshold
  BY DEF RequestsSound, BreakerShape
<1>. QED  BY <1>1 DEF RequestsSound, RequestShape, RecorderSound, SharedTypeOK

\* The variables keep their types: the breakers' counters stay within the
\* threshold and the recorder's queue within its size.
THEOREM SharedTyped == SharedSpec => []SharedTypeOK
BY RecorderInitially, SharedInitially, SharedStep, RecorderStep, SharedSoundTyped, PTL DEF SharedSpec
-----------------------------------------------------------------------------
(* Cost.  That nobody is charged more than was spent is not inductive: what  *)
(* a process reconciles comes from ClickHouse and what Postgres has from     *)
(* snapshots, so both must be within what is due, and so must the spans      *)
(* still under way.  Of ClickHouse this holds for today only: a span that    *)
(* began before midnight is filed under the day before, where nothing reads  *)
(* it any more.  It is stated row by row and summed up at the end.           *)

\* What is due under a name: what its own calls cost, and under the two names of
\* requests without the header what all of those cost.
Own(k) == IF k[1] \in Headers \ {NoHeader} THEN spent[k] ELSE 0
Nameless(k) == IF k[1] \in {"unknown", "proxy"} THEN Unnamed(k[2]) ELSE 0
Due == [k \in CostKeys |-> Own(k) + Nameless(k)]

\* Sums that charge no row more than is due.
Within(f) == f \in [CostKeys -> Nat] /\ \A k \in CostKeys : f[k] <= Due[k]

CostInv ==
    /\ CostTypeOK
    /\ Within(warm)
    /\ \A p \in Proxies : Within(spend[p]) /\ Within(snap[p])
    /\ \A k \in CostKeys : k[2] >= day => hot[k] + pending[k] <= Due[k]

LEMMA CostKey ==
    ASSUME NEW k \in CostKeys
    PROVE  /\ k[1] \in Agents /\ k[2] \in Days /\ k = <<k[1], k[2]>>
           /\ k[1] \in Headers => k \in Headers \X Days
BY DEF CostKeys

LEMMA AgentKeys ==
    ASSUME NEW h \in Headers, NEW d \in Days
    PROVE  <<MemoryAgent(h), d>> \in CostKeys /\ <<SpanAgent(h), d>> \in CostKeys
BY DEF CostKeys, Agents

\* What is due is a number, if what was spent is one.
LEMMA DueTyped ==
    ASSUME spent \in [Headers \X Days -> Nat]
    PROVE  /\ Due \in [CostKeys -> Nat]
           /\ \A k \in CostKeys : Own(k) \in Nat /\ Nameless(k) \in Nat /\ Due[k] = Own(k) + Nameless(k)
           /\ \A d \in Days : Unnamed(d) \in Nat
<1>1. \A d \in Days : Unnamed(d) \in Nat
  BY DEF Unnamed
<1>2. \A k \in CostKeys : Own(k) \in Nat /\ Nameless(k) \in Nat
  BY <1>1, CostKey DEF Own, Nameless
<1>. QED  BY <1>1, <1>2 DEF Due

\* GREATEST and max() keep sums sums, lose nothing and add nothing.
LEMMA LargerOf ==
    ASSUME NEW f \in [CostKeys -> Nat], NEW g \in [CostKeys -> Nat]
    PROVE  /\ Larger(f, g) \in [CostKeys -> Nat]
           /\ \A k \in CostKeys : /\ Larger(f, g)[k] \in {f[k], g[k]}
                                  /\ Larger(f, g)[k] >= f[k] /\ Larger(f, g)[k] >= g[k]
BY DEF Larger

LEMMA TodayOf ==
    ASSUME NEW f \in [CostKeys -> Nat]
    PROVE  /\ Today(f) \in [CostKeys -> Nat]
           /\ \A k \in CostKeys : Today(f)[k] = (IF k[2] = day THEN f[k] ELSE 0) /\ Today(f)[k] <= f[k]
BY DEF Today

LEMMA ZeroSums == Zero \in [CostKeys -> Nat] /\ \A k \in CostKeys : Zero[k] = 0
BY DEF Zero

LEMMA CostInitially == CostInit => CostInv
<1>. SUFFICES ASSUME CostInit
              PROVE  CostInv
  OBVIOUS
<1>1. CostTypeOK
  BY CostAssumption, ZeroSums DEF CostInit, CostTypeOK, Days
<1>2. Due \in [CostKeys -> Nat]
  BY <1>1, DueTyped DEF CostTypeOK
<1>3. Within(Zero)
  BY <1>2, ZeroSums DEF Within
<1>4. \A k \in CostKeys : hot[k] + pending[k] <= Due[k]
  BY <1>2, ZeroSums DEF CostInit
<1>. QED  BY <1>1, <1>3, <1>4 DEF CostInv, CostInit

\* record(): more is due under the name memory has, and under the one the span has.
LEMMA DueGrows ==
    ASSUME CostTypeOK, NEW h \in Headers, spent' = [spent EXCEPT ![<<h, day>>] = @ + 1]
    PROVE  /\ spent' \in [Headers \X Days -> Nat]
           /\ Due \in [CostKeys -> Nat] /\ Due' \in [CostKeys -> Nat]
           /\ \A k \in CostKeys : Due[k] <= Due'[k]
           /\ \A k \in CostKeys : k \in {<<MemoryAgent(h), day>>, <<SpanAgent(h), day>>} => Due[k] + 1 <= Due'[k]
<1>. DEFINE hk == <<h, day>>
<1>1. spent \in [Headers \X Days -> Nat] /\ day \in Days /\ hk \in Headers \X Days
  BY DEF CostTypeOK
<1>2. /\ spent' \in [Headers \X Days -> Nat]
      /\ \A k \in Headers \X Days : spent'[k] = IF k = hk THEN spent[k] + 1 ELSE spent[k]
  <2>. HIDE DEF hk
  <2>. QED  BY <1>1 DEF hk
<1>3. /\ Due \in [CostKeys -> Nat]
      /\ \A k \in CostKeys : Own(k) \in Nat /\ Nameless(k) \in Nat /\ Due[k] = Own(k) + Nameless(k)
      /\ \A d \in Days : Unnamed(d) \in Nat
  BY <1>1, DueTyped
<1>4. (/\ Due \in [CostKeys -> Nat]
       /\ \A k \in CostKeys : Own(k) \in Nat /\ Nameless(k) \in Nat /\ Due[k] = Own(k) + Nameless(k)
       /\ \A d \in Days : Unnamed(d) \in Nat)'
  <2>1. (\A k \in CostKeys : k[1] \in Headers => k \in Headers \X Days) /\ (\A k \in CostKeys : k[2] \in Days)
    BY CostKey
  <2>2. \A d \in Days : Unnamed(d)' \in Nat
    BY <1>2 DEF Unnamed
  <2>3. \A k \in CostKeys : Own(k)' \in Nat /\ Nameless(k)' \in Nat
    BY <1>2, <2>1, <2>2 DEF Own, Nameless
  <2>4. Due' = [k \in CostKeys |-> Own(k)' + Nameless(k)']
    BY DEF Due
  <2>. QED  BY <2>2, <2>3, <2>4
<1>5. \A d \in Days : Unnamed(d)' = IF h = NoHeader /\ d = day THEN Unnamed(d) + 1 ELSE Unnamed(d)
  <2>1. ASSUME NEW d \in Days, NoHeader \in Headers
        PROVE  <<NoHeader, d>> \in Headers \X Days /\ (<<NoHeader, d>> = hk <=> h = NoHeader /\ d = day)
    BY <2>1
  <2>. HIDE DEF hk
  <2>. QED  BY <1>2, <2>1 DEF Unnamed
<1>6. \A k \in CostKeys : Own(k)' = IF h # NoHeader /\ k = hk THEN Own(k) + 1 ELSE Own(k)
  <2>1. ASSUME NEW k \in CostKeys
        PROVE  Own(k)' = IF h # NoHeader /\ k = hk THEN Own(k) + 1 ELSE Own(k)
    <3>1. k = hk => k[1] = h
      OBVIOUS
    <3>2. k[1] \in Headers => k \in Headers \X Days
      BY CostKey
    <3>. HIDE DEF hk
    <3>. QED  BY <1>2, <3>1, <3>2 DEF Own
  <2>. QED  BY <2>1
<1>7. ASSUME NEW k \in CostKeys
      PROVE  /\ Due[k] <= Due'[k]
             /\ k \in {<<MemoryAgent(h), day>>, <<SpanAgent(h), day>>} => Due[k] + 1 <= Due'[k]
  <2>0. k[2] \in Days
    BY CostKey
  <2>1. Own(k)' >= Own(k) /\ Nameless(k)' >= Nameless(k)
    BY <1>3, <1>5, <1>6, <2>0 DEF Nameless
  <2>2. CASE h # NoHeader
    <3>1. k \in {<<MemoryAgent(h), day>>, <<SpanAgent(h), day>>} => k = hk
      BY <2>2 DEF MemoryAgent, SpanAgent
    <3>. HIDE DEF hk
    <3>. QED  BY <1>3, <1>4, <1>6, <2>1, <2>2, <3>1
  <2>3. CASE h = NoHeader
    <3>1. k \in {<<MemoryAgent(h), day>>, <<SpanAgent(h), day>>} => k[1] \in {"unknown", "proxy"} /\ k[2] = day
      BY <2>3 DEF MemoryAgent, SpanAgent
    <3>2. k \in {<<MemoryAgent(h), day>>, <<SpanAgent(h), day>>} => Nameless(k)' = Nameless(k) + 1
      BY <1>1, <1>5, <2>3, <3>1 DEF Nameless
    <3>. QED  BY <1>3, <1>4, <2>1, <3>2
  <2>. QED  BY <2>2, <2>3
<1>. QED  BY <1>2, <1>3, <1>4, <1>7

\* record(): memory, the span and what is due grow by the same unit.
LEMMA RecordStep ==
    ASSUME CostInv, NEW p \in Proxies, NEW h \in Headers, Record(p, h)
    PROVE  CostInv'
<1>. DEFINE mk == <<MemoryAgent(h), day>>
<1>t. CostTypeOK
  BY DEF CostInv
<1>d. day \in Days /\ day \in Int
  BY <1>t, CostAssumption DEF CostTypeOK, Days
<1>1. PICK d0 \in {day - 1, day} \intersect Days :
        pending' = [pending EXCEPT ![<<SpanAgent(h), d0>>] = @ + 1]
  BY DEF Record
<1>2. /\ spend' = [spend EXCEPT ![p][mk] = @ + 1]
      /\ spent' = [spent EXCEPT ![<<h, day>>] = @ + 1]
      /\ UNCHANGED <<day, snap, worker, hot, warm>>
  BY DEF Record
<1>. DEFINE sk == <<SpanAgent(h), d0>>
<1>3. mk \in CostKeys /\ sk \in CostKeys
  BY <1>d, <1>1, AgentKeys
<1>. DEFINE mine == [spend[p] EXCEPT ![mk] = @ + 1]
<1>4. spend' = [spend EXCEPT ![p] = mine]
  BY <1>2, <1>t DEF CostTypeOK
<1>5. spend[p] \in [CostKeys -> Nat]
  BY <1>t DEF CostTypeOK
<1>6. mine \in [CostKeys -> Nat] /\ \A k \in CostKeys : mine[k] = IF k = mk THEN spend[p][k] + 1 ELSE spend[p][k]
  <2>. HIDE DEF mk
  <2>. QED  BY <1>3, <1>5
<1>7. pending' \in [CostKeys -> Nat] /\ \A k \in CostKeys : pending'[k] = IF k = sk THEN pending[k] + 1 ELSE pending[k]
  <2>1. pending' = [pending EXCEPT ![sk] = @ + 1]
    BY <1>1
  <2>. HIDE DEF sk
  <2>. QED  BY <1>3, <1>t, <2>1 DEF CostTypeOK
<1>8. /\ spent' \in [Headers \X Days -> Nat]
      /\ Due \in [CostKeys -> Nat] /\ Due' \in [CostKeys -> Nat]
      /\ \A k \in CostKeys : Due[k] <= Due'[k]
      /\ \A k \in CostKeys : k \in {mk, <<SpanAgent(h), day>>} => Due[k] + 1 <= Due'[k]
  BY <1>2, <1>t, DueGrows
<1>9. CostTypeOK'
  <2>. HIDE DEF mine
  <2>. QED  BY <1>2, <1>4, <1>6, <1>7, <1>8, <1>t DEF CostTypeOK
<1>10. ASSUME NEW f \in [CostKeys -> Nat], \A k \in CostKeys : f[k] <= Due[k]
       PROVE  Within(f)'
  BY <1>8, <1>10 DEF Within
<1>11. \A k \in CostKeys : mine[k] <= Due'[k]
  <2>1. \A k \in CostKeys : spend[p][k] <= Due[k]
    BY DEF CostInv, Within
  <2>. HIDE DEF mine, mk
  <2>. QED  BY <1>5, <1>6, <1>8, <2>1
<1>12. ASSUME NEW k \in CostKeys, k[2] >= day
       PROVE  hot[k] + pending'[k] <= Due'[k]
  <2>1. k[2] \in Nat
    BY CostKey, CostAssumption DEF Days
  <2>2. k = sk => k = <<SpanAgent(h), day>>
    <3>1. k = sk => k[2] = d0
      OBVIOUS
    <3>2. d0 >= day => d0 = day
      BY <1>d, <1>1
    <3>. QED  BY <1>12, <3>1, <3>2
  <2>3. hot[k] + pending[k] <= Due[k] /\ hot[k] \in Nat /\ pending[k] \in Nat
    BY <1>t, <1>12 DEF CostInv, CostTypeOK
  <2>. HIDE DEF sk, mk
  <2>. QED  BY <1>7, <1>8, <2>2, <2>3
<1>13. Within(warm)' /\ \A q \in Proxies : Within(spend[q])' /\ Within(snap[q])'
  <2>1. Within(warm)'
    BY <1>2, <1>10 DEF CostInv, Within
  <2>2. ASSUME NEW q \in Proxies PROVE Within(snap[q])'
    BY <1>2, <1>10 DEF CostInv, Within
  <2>3. ASSUME NEW q \in Proxies PROVE Within(spend[q])'
    <3>1. CASE q = p
      <4>1. spend'[q] = mine
        BY <1>4, <1>t, <3>1 DEF CostTypeOK
      <4>. HIDE DEF mine
      <4>. QED  BY <1>6, <1>11, <4>1 DEF Within
    <3>2. CASE q # p
      <4>1. spend'[q] = spend[q]
        BY <1>4, <1>t, <3>2 DEF CostTypeOK
      <4>. QED  BY <1>10, <4>1 DEF CostInv, Within
    <3>. QED  BY <3>1, <3>2
  <2>. QED  BY <2>1, <2>2, <2>3
<1>. QED  BY <1>2, <1>9, <1>12, <1>13 DEF CostInv

\* A span reaches ClickHouse, or does not.
LEMMA SpanStep ==
    ASSUME CostInv, NEW k \in CostKeys, Export(k) \/ Lose(k)
    PROVE  CostInv'
<1>t. CostTypeOK
  BY DEF CostInv
<1>1. /\ pending[k] > 0 /\ pending' = [pending EXCEPT ![k] = @ - 1]
      /\ hot' = hot \/ hot' = [hot EXCEPT ![k] = @ + 1]
      /\ UNCHANGED <<day, spend, snap, worker, warm, spent>>
  BY DEF Export, Lose
<1>2. /\ pending' \in [CostKeys -> Nat] /\ hot' \in [CostKeys -> Nat]
      /\ \A r \in CostKeys : hot'[r] + pending'[r] <= hot[r] + pending[r]
  BY <1>1, <1>t DEF CostTypeOK
<1>3. CostTypeOK'
  BY <1>1, <1>2, <1>t DEF CostTypeOK
<1>4. Due' = Due /\ Due \in [CostKeys -> Nat]
  BY <1>1, <1>t, DueTyped DEF CostTypeOK, Due, Own, Nameless, Unnamed
<1>5. \A f : Within(f) => f \in [CostKeys -> Nat] /\ \A r \in CostKeys : f[r] <= Due'[r]
  BY <1>4 DEF Within
<1>6. Within(warm)' /\ \A p \in Proxies : Within(spend[p])' /\ Within(snap[p])'
  BY <1>1, <1>5 DEF CostInv, Within
<1>7. \A r \in CostKeys : r[2] >= day => hot'[r] + pending'[r] <= Due'[r]
  <2>1. \A r \in CostKeys : r[2] >= day => hot[r] + pending[r] <= Due[r]
    BY DEF CostInv
  <2>2. \A r \in CostKeys : hot'[r] \in Nat /\ pending'[r] \in Nat /\ hot[r] \in Nat /\ pending[r] \in Nat
    BY <1>2, <1>t DEF CostTypeOK
  <2>. QED  BY <1>2, <1>4, <2>1, <2>2
<1>. QED  BY <1>1, <1>3, <1>6, <1>7 DEF CostInv

\* A process moves on: what it holds and what it wrote is within what is due.
LEMMA ProcessMoves ==
    ASSUME CostInv, NEW p \in Proxies, NEW f, NEW g, NEW w, Within(f), Within(g), Within(w),
           spend' = [spend EXCEPT ![p] = f], snap' = [snap EXCEPT ![p] = g], warm' = w,
           NEW to \in {"wait", "write", "final", "finalWrite", "stopped"},
           worker' = [worker EXCEPT ![p] = to], UNCHANGED <<day, pending, hot, spent>>
    PROVE  CostInv'
<1>1. CostTypeOK'
  BY DEF CostInv, CostTypeOK, Within
<1>2. Due' = Due
  BY DEF Due, Own, Nameless, Unnamed
<1>3. \A q \in Proxies : /\ spend'[q] = IF q = p THEN f ELSE spend[q]
                         /\ snap'[q] = IF q = p THEN g ELSE snap[q]
  BY DEF CostInv, CostTypeOK
<1>4. \A q \in Proxies : Within(spend[q]) /\ Within(snap[q])
  BY DEF CostInv
<1>5. \A e : Within(e) => e \in [CostKeys -> Nat] /\ \A k \in CostKeys : e[k] <= Due'[k]
  BY <1>2 DEF Within
<1>6. Within(warm)' /\ \A q \in Proxies : Within(spend[q])' /\ Within(snap[q])'
  <2>1. Within(warm)'
    BY <1>5 DEF Within
  <2>2. ASSUME NEW q \in Proxies
        PROVE  /\ spend'[q] \in [CostKeys -> Nat] /\ \A k \in CostKeys : spend'[q][k] <= Due'[k]
               /\ snap'[q] \in [CostKeys -> Nat] /\ \A k \in CostKeys : snap'[q][k] <= Due'[k]
    BY <1>3, <1>4, <1>5
  <2>. QED  BY <2>1, <2>2 DEF Within
<1>. QED  BY <1>1, <1>2, <1>6 DEF CostInv

\* What CostInv says of the sums, and what reconciling, snapshots and GREATEST
\* make of them.
LEMMA SumsWithin ==
    ASSUME CostInv, NEW p \in Proxies
    PROVE  /\ Within(spend[p]) /\ Within(snap[p]) /\ Within(warm) /\ Within(Zero)
           /\ Within(Reconcile(p)) /\ Within(Upsert(p))
           /\ \A f : Within(f) => Within(Today(f))
<1>t. CostTypeOK /\ hot \in [CostKeys -> Nat] /\ pending \in [CostKeys -> Nat] /\ Due \in [CostKeys -> Nat]
  BY DueTyped DEF CostInv, CostTypeOK
<1>1. Within(spend[p]) /\ Within(snap[p]) /\ Within(warm)
  BY DEF CostInv
<1>2. Within(Zero)
  BY <1>t, ZeroSums DEF Within
<1>3. ASSUME NEW f, Within(f)
      PROVE  Within(Today(f))
  <2>1. f \in [CostKeys -> Nat] /\ \A k \in CostKeys : f[k] <= Due[k]
    BY <1>3 DEF Within
  <2>2. Today(f) \in [CostKeys -> Nat] /\ \A k \in CostKeys : Today(f)[k] <= f[k]
    BY <2>1, TodayOf
  <2>. QED  BY <1>t, <2>1, <2>2 DEF Within
<1>4. Within(Today(hot))
  <2>1. ASSUME NEW k \in CostKeys
        PROVE  Today(hot)[k] <= Due[k]
    <3>1. k[2] \in Nat
      BY CostKey, CostAssumption DEF Days
    <3>2. k[2] = day => hot[k] + pending[k] <= Due[k]
      BY <3>1 DEF CostInv
    <3>3. Today(hot)[k] = IF k[2] = day THEN hot[k] ELSE 0
      BY <1>t, TodayOf
    <3>. QED  BY <1>t, <3>2, <3>3
  <2>. QED  BY <1>t, <2>1, TodayOf DEF Within
<1>5. ASSUME NEW f, NEW g, Within(f), Within(g)
      PROVE  Within(Larger(f, g))
  <2>1. f \in [CostKeys -> Nat] /\ g \in [CostKeys -> Nat]
    BY <1>5 DEF Within
  <2>2. \A k \in CostKeys : Larger(f, g)[k] <= Due[k]
    BY <1>5, <2>1, LargerOf DEF Within
  <2>. QED  BY <2>1, <2>2, LargerOf DEF Within
<1>6. Within(Reconcile(p)) /\ Within(Upsert(p))
  BY <1>1, <1>4, <1>5 DEF Reconcile, Upsert
<1>. QED  BY <1>1, <1>2, <1>3, <1>6

\* flush_once up to the upsert.
LEMMA SnapshotStep ==
    ASSUME CostInv, NEW p \in Proxies, NEW from,
           NEW to \in {"wait", "write", "final", "finalWrite", "stopped"}, Snapshot(p, from, to)
    PROVE  CostInv'
<1>t. spend \in [Proxies -> [CostKeys -> Nat]]
  BY DEF CostInv, CostTypeOK
<1>0. worker' = [worker EXCEPT ![p] = to] /\ UNCHANGED <<day, pending, hot, warm, spent>>
  BY DEF Snapshot
<1>1. spend = [spend EXCEPT ![p] = spend[p]]
  BY <1>t
<1>2. CASE spend[p] = Zero
  <2>1. snap' = [snap EXCEPT ![p] = Zero] /\ spend' = [spend EXCEPT ![p] = spend[p]]
    BY <1>1, <1>2 DEF Snapshot
  <2>. QED  BY <1>0, <2>1, SumsWithin, ProcessMoves
<1>3. CASE spend[p] # Zero /\ spend' = [spend EXCEPT ![p] = Reconcile(p)]
  <2>1. spend'[p] = Reconcile(p)
    BY <1>3, <1>t
  <2>2. snap' = [snap EXCEPT ![p] = Today(Reconcile(p))]
    BY <1>3, <2>1 DEF Snapshot
  <2>3. Within(Reconcile(p)) /\ Within(Today(Reconcile(p))) /\ Within(warm)
    BY SumsWithin
  <2>. QED  BY <1>0, <1>3, <2>2, <2>3, ProcessMoves
<1>4. CASE spend[p] # Zero /\ spend' = spend
  <2>1. snap' = [snap EXCEPT ![p] = Today(spend[p])]
    BY <1>4 DEF Snapshot
  <2>2. Within(spend[p]) /\ Within(Today(spend[p])) /\ Within(warm)
    BY SumsWithin
  <2>. QED  BY <1>0, <1>1, <1>4, <2>1, <2>2, ProcessMoves
<1>. QED  BY <1>2, <1>3, <1>4 DEF Snapshot

\* The upsert, stop(), and a process that takes the place of another.
LEMMA WriteStep ==
    ASSUME CostInv, NEW p \in Proxies,
           FlushWrites(p) \/ FinalWrites(p) \/ Stop(p) \/ Restart(p)
    PROVE  CostInv'
<1>t. spend = [spend EXCEPT ![p] = spend[p]]
  BY DEF CostInv, CostTypeOK
<1>1. PICK to \in {"wait", "final", "stopped"} : worker' = [worker EXCEPT ![p] = to]
  BY DEF FlushWrites, FinalWrites, Write, Stop, Restart
<1>2. snap' = [snap EXCEPT ![p] = Zero] /\ UNCHANGED <<day, pending, hot, spent>>
  BY DEF FlushWrites, FinalWrites, Write, Stop, Restart
<1>3. /\ spend' = [spend EXCEPT ![p] = spend[p]] \/ spend' = [spend EXCEPT ![p] = Zero]
      /\ warm' = warm \/ warm' = Upsert(p)
  BY <1>t DEF FlushWrites, FinalWrites, Write, Stop, Restart
<1>4. Within(spend[p]) /\ Within(Zero) /\ Within(warm) /\ Within(Upsert(p))
  BY SumsWithin
<1>5. PICK f \in {spend[p], Zero}, w \in {warm, Upsert(p)} : spend' = [spend EXCEPT ![p] = f] /\ warm' = w
  BY <1>3
<1>6. Within(f) /\ Within(w)
  BY <1>4
<1>. QED  BY <1>1, <1>2, <1>4, <1>5, <1>6, ProcessMoves

LEMMA CostStep == CostInv /\ [CostNext]_costVars => CostInv'
<1>. SUFFICES ASSUME CostInv, [CostNext]_costVars
              PROVE  CostInv'
  OBVIOUS
<1>1. CASE Midnight
  <2>1. day' = day + 1 /\ day < MaxDay /\ UNCHANGED <<spend, snap, worker, pending, hot, warm, spent>>
    BY <1>1 DEF Midnight
  <2>2. day \in Nat /\ day' \in Days /\ \A d \in Days : d \in Nat /\ (d >= day' => d >= day)
    BY <2>1, CostAssumption DEF CostInv, CostTypeOK, Days
  <2>3. CostTypeOK'
    BY <2>1, <2>2 DEF CostInv, CostTypeOK
  <2>4. Due' = Due
    BY <2>1 DEF Due, Own, Nameless, Unnamed
  <2>5. \A f : Within(f) => f \in [CostKeys -> Nat] /\ \A k \in CostKeys : f[k] <= Due'[k]
    BY <2>4 DEF Within
  <2>6. Within(warm)' /\ \A p \in Proxies : Within(spend[p])' /\ Within(snap[p])'
    BY <2>1, <2>5 DEF CostInv, Within
  <2>7. \A k \in CostKeys : k[2] >= day' => hot'[k] + pending'[k] <= Due'[k]
    <3>1. \A k \in CostKeys : k[2] \in Days
      BY CostKey
    <3>. QED  BY <2>1, <2>2, <2>4, <3>1 DEF CostInv
  <2>. QED  BY <2>3, <2>6, <2>7 DEF CostInv
<1>2. CASE UNCHANGED costVars
  <2>1. Due' = Due
    BY <1>2 DEF Due, Own, Nameless, Unnamed, costVars
  <2>. QED  BY <1>2, <2>1 DEF CostInv, CostTypeOK, Within, costVars
<1>3. ASSUME NEW p \in Proxies, FlushBegins(p) \/ FinalBegins(p)
      PROVE  CostInv'
  BY <1>3, SnapshotStep DEF FlushBegins, FinalBegins
<1>. QED  BY <1>1, <1>2, <1>3, RecordStep, SpanStep, WriteStep DEF CostNext

\* The variables of the cost accounting keep their types: no sum is negative.
THEOREM CostTyped == CostSpec => []CostTypeOK
<1>1. CostInv => CostTypeOK
  BY DEF CostInv
<1>. QED  BY <1>1, CostInitially, CostStep, PTL DEF CostSpec

LEMMA CostKeysFinite == IsFiniteSet(CostKeys)
<1>1. IsFiniteSet((Headers \cup {"unknown"}) \cup {"proxy"})
  BY CostAssumption, FS_AddElement
<1>2. IsFiniteSet(Agents)
  <2>1. Agents \subseteq (Headers \cup {"unknown"}) \cup {"proxy"}
    BY DEF Agents, MemoryAgent, SpanAgent
  <2>. QED  BY <1>1, <2>1, FS_Subset
<1>3. IsFiniteSet(Days)
  BY CostAssumption, FS_Interval DEF Days
<1>. QED  BY <1>2, <1>3, FS_Product DEF CostKeys

\* What the agents that name themselves spent on a day, and what the others did.
Self(d) == [h \in Headers |-> IF h = NoHeader THEN 0 ELSE spent[<<h, d>>]]

LEMMA SpentBySelf ==
    ASSUME CostTypeOK, NEW d \in Days
    PROVE  /\ SumOver(Self(d), Headers) \in Nat /\ Unnamed(d) \in Nat
           /\ SpentOn(d) = SumOver(Self(d), Headers) + Unnamed(d)
<1>. DEFINE row == [h \in Headers |-> spent[<<h, d>>]]
<1>1. \A h \in Headers : row[h] \in Nat /\ Self(d)[h] = IF h = NoHeader THEN 0 ELSE row[h]
  BY DEF CostTypeOK, Self
<1>2. SpentOn(d) = SumOver(row, Headers)
  BY DEF SpentOn, Total, SumOver
<1>3. Unnamed(d) = IF NoHeader \in Headers THEN row[NoHeader] ELSE 0
  BY DEF Unnamed
<1>. HIDE DEF row
<1>4. SumOver(Self(d), Headers) \in Nat /\ SumOver(row, Headers) \in Nat
  BY <1>1, CostAssumption, SumStep
<1>5. CASE NoHeader \in Headers
  <2>1. SumOver(Self(d), Headers) + row[NoHeader] = SumOver(row, Headers) + Self(d)[NoHeader]
    BY <1>1, <1>5, CostAssumption, SumUpdate
  <2>. QED  BY <1>1, <1>2, <1>3, <1>4, <1>5, <2>1
<1>6. CASE NoHeader \notin Headers
  <2>1. SumOver(row, Headers) = SumOver(Self(d), Headers)
    BY <1>1, <1>6, CostAssumption, SumSame
  <2>. QED  BY <1>1, <1>2, <1>3, <1>4, <1>6, <2>1
<1>. QED  BY <1>5, <1>6

\* Sums within what is due: those of one day are at most what was spent on it, and
\* the unnamed part once more.  A row of an agent that names itself is summed with
\* its own header, the two rows of those that do not are summed apart.
LEMMA DayWithin ==
    ASSUME CostTypeOK, NEW d \in Days, NEW f, Within(f)
    PROVE  Total([k \in CostKeys |-> IF k[2] = d THEN f[k] ELSE 0]) <= SpentOn(d) + Unnamed(d)
<1>. DEFINE rows == [k \in CostKeys |-> IF k[2] = d THEN f[k] ELSE 0]
            own == [k \in CostKeys |-> IF k[2] = d THEN Own(k) ELSE 0]
            As(n) == [k \in CostKeys |-> IF k = <<n, d>> THEN Unnamed(d) ELSE 0]
            two == [k \in CostKeys |-> As("unknown")[k] + As("proxy")[k]]
            all == [k \in CostKeys |-> own[k] + two[k]]
<1>t. spent \in [Headers \X Days -> Nat] /\ IsFiniteSet(CostKeys) /\ IsFiniteSet(Headers)
  BY CostKeysFinite, CostAssumption DEF CostTypeOK
<1>u. Unnamed(d) \in Nat /\ SumOver(Self(d), Headers) \in Nat
      /\ SpentOn(d) = SumOver(Self(d), Headers) + Unnamed(d)
  BY SpentBySelf
<1>1. ASSUME NEW k \in CostKeys
      PROVE  /\ rows[k] \in Nat /\ own[k] \in Nat /\ As("unknown")[k] \in Nat /\ As("proxy")[k] \in Nat
             /\ two[k] \in Nat /\ all[k] \in Nat
             /\ rows[k] <= all[k]
  <2>1. f[k] \in Nat /\ Own(k) \in Nat /\ Nameless(k) \in Nat /\ f[k] <= Own(k) + Nameless(k)
    BY <1>t, DueTyped DEF Within
  <2>2. own[k] \in Nat /\ As("unknown")[k] \in Nat /\ As("proxy")[k] \in Nat /\ rows[k] \in Nat
    BY <1>u, <2>1
  <2>3. k[2] = d => Nameless(k) = two[k]
    <3>1. k = <<k[1], k[2]>>
      BY CostKey
    <3>2. k[2] = d => \A n : k = <<n, d>> <=> k[1] = n
      BY <3>1
    <3>3. "unknown" # "proxy"
      OBVIOUS
    <3>4. k[2] = d => two[k] = (IF k[1] = "unknown" THEN Unnamed(d) ELSE 0) + (IF k[1] = "proxy" THEN Unnamed(d) ELSE 0)
      BY <3>2
    <3>. QED  BY <1>u, <3>3, <3>4 DEF Nameless
  <2>4. two[k] \in Nat /\ all[k] = own[k] + two[k]
    BY <2>2
  <2>. QED  BY <2>1, <2>2, <2>3, <2>4
<1>2. Total(rows) = SumOver(rows, CostKeys)
  BY DEF Total, SumOver
<1>3. SumOver(rows, CostKeys) <= SumOver(all, CostKeys)
  <2>. HIDE DEF rows, all
  <2>. QED  BY <1>1, <1>t, SumMonotone
<1>4. SumOver(all, CostKeys) = SumOver(own, CostKeys) + SumOver(two, CostKeys)
  <2>1. \A k \in CostKeys : all[k] = own[k] + two[k]
    OBVIOUS
  <2>. HIDE DEF all, own, two
  <2>. QED  BY <1>1, <1>t, <2>1, SumAdds
<1>5. SumOver(two, CostKeys) = SumOver(As("unknown"), CostKeys) + SumOver(As("proxy"), CostKeys)
  <2>1. \A k \in CostKeys : two[k] = As("unknown")[k] + As("proxy")[k]
    OBVIOUS
  <2>. HIDE DEF As, two
  <2>. QED  BY <1>1, <1>t, <2>1, SumAdds
<1>6. ASSUME NEW n PROVE SumOver(As(n), CostKeys) \in Nat /\ SumOver(As(n), CostKeys) <= Unnamed(d)
  <2>1. /\ \A k \in CostKeys : As(n)[k] \in Nat
        /\ \A k \in CostKeys \ {<<n, d>>} : As(n)[k] = 0
        /\ <<n, d>> \in CostKeys => As(n)[<<n, d>>] = Unnamed(d)
    BY <1>u
  <2>. HIDE DEF As
  <2>2. SumOver(As(n), CostKeys) = IF <<n, d>> \in CostKeys THEN As(n)[<<n, d>>] ELSE 0
    BY <1>t, <2>1, SumSingle
  <2>. QED  BY <1>u, <2>1, <2>2
<1>7. SumOver(own, CostKeys) <= SumOver(Self(d), Headers)
  <2>. DEFINE A == {k \in CostKeys : k[2] = d /\ k[1] \in Headers}
              name == [k \in A |-> k[1]]
  <2>1. A \in SUBSET CostKeys /\ \A k \in CostKeys \ A : own[k] = 0
    BY DEF Own
  <2>2. IsFiniteSet(A)
    BY <1>t, <2>1, FS_Subset
  <2>3. SumOver(own, CostKeys) = SumOver(own, A)
    <3>. HIDE DEF own, A
    <3>. QED  BY <1>1, <1>t, <2>1, SumSupport
  <2>4. name \in [A -> Headers]
    OBVIOUS
  <2>5. \A k, j \in A : name[k] = name[j] => k = j
    BY CostKey
  <2>6. \A h \in Headers : Self(d)[h] \in Nat
    BY <1>t DEF Self
  <2>7. ASSUME NEW k \in A PROVE own[k] <= Self(d)[name[k]]
    <3>1. k = <<k[1], d>> /\ k[1] \in Headers /\ name[k] = k[1] /\ own[k] = Own(k)
      BY CostKey
    <3>2. spent[k] \in Nat
      BY <1>t, <3>1
    <3>. QED  BY <3>1, <3>2 DEF Own, Self
  <2>8. SumOver(own, A) <= SumOver(Self(d), Headers)
    <3>1. \A k \in A : own[k] \in Nat
      BY <1>1, <2>1
    <3>. HIDE DEF own, A, name
    <3>. QED  BY <1>t, <2>2, <2>4, <2>5, <2>6, <2>7, <3>1, SumInjected
  <2>. QED  BY <2>3, <2>8
<1>8. SumOver(own, CostKeys) \in Nat /\ SumOver(rows, CostKeys) \in Nat
  <2>. HIDE DEF own, rows
  <2>. QED  BY <1>1, <1>t, SumStep
<1>9. /\ SumOver(As("unknown"), CostKeys) \in Nat /\ SumOver(As("unknown"), CostKeys) <= Unnamed(d)
      /\ SumOver(As("proxy"), CostKeys) \in Nat /\ SumOver(As("proxy"), CostKeys) <= Unnamed(d)
  BY <1>6
<1>10. Total(rows) <= SpentOn(d) + Unnamed(d)
  <2>. HIDE DEF rows, own, As, two, all
  <2>. QED  BY <1>u, <1>2, <1>3, <1>4, <1>5, <1>7, <1>8, <1>9
<1>. QED  BY <1>10

\* cost/attribution.py, record, flush_once, stop and spend_today: for any number of
\* proxy processes, agents and days, with restarts, failing stores, late spans and
\* midnight anywhere in between, the budget gate and the daily rollup charge a tenant
\* at most what it spent on the day and the unnamed part once more, and no agent that
\* names itself more than it spent.
THEOREM TenantChargedOnce == CostSpec => []ChargesBounded
<1>1. CostInv => ChargesBounded
  <2>. SUFFICES ASSUME CostInv
               PROVE  ChargesBounded
    OBVIOUS
  <2>t. CostTypeOK /\ day \in Days
    BY DEF CostInv, CostTypeOK
  <2>1. ChargeBounded
    <3>. SUFFICES ASSUME NEW p \in Proxies
                 PROVE  SpendToday(p) <= SpentOn(day) + Unnamed(day)
      BY DEF ChargeBounded
    <3>1. Within(spend[p])
      BY DEF CostInv
    <3>. QED  BY <2>t, <3>1, DayWithin DEF SpendToday, Today
  <2>2. RollupBounded
    <3>1. Within(warm)
      BY DEF CostInv
    <3>. QED  BY <2>t, <3>1, DayWithin DEF RollupBounded
  <2>3. AgentChargedOnce
    <3>. SUFFICES ASSUME NEW p \in Proxies, NEW h \in Headers \ {NoHeader, "unknown", "proxy"}, NEW d \in Days
                 PROVE  warm[<<h, d>>] <= spent[<<h, d>>] /\ spend[p][<<h, d>>] <= spent[<<h, d>>]
      BY DEF AgentChargedOnce
    <3>. DEFINE k == <<h, d>>
    <3>1. k \in CostKeys
      <4>1. <<MemoryAgent(h), d>> \in CostKeys
        BY AgentKeys
      <4>. QED  BY <4>1 DEF MemoryAgent
    <3>2. Due[k] = spent[k]
      <4>1. spent[k] \in Nat
        BY <2>t DEF CostTypeOK
      <4>. QED  BY <3>1, <4>1 DEF Due, Own, Nameless
    <3>3. warm[k] <= Due[k] /\ spend[p][k] <= Due[k]
      BY <3>1 DEF CostInv, Within
    <3>. QED  BY <3>2, <3>3
  <2>. QED  BY <2>1, <2>2, <2>3 DEF ChargesBounded
<1>. QED  BY <1>1, CostInitially, CostStep, PTL DEF CostSpec

\* storage/warm.py, upsert_tenant_cost_daily: no step takes a row of the daily
\* rollup back, in whatever order the snapshots of the processes arrive.
THEOREM RollupGrows == CostSpec => RollupNeverDecreases
<1>1. CostInv /\ [CostNext]_costVars => [\A k \in CostKeys : warm'[k] >= warm[k]]_costVars
  <2>. SUFFICES ASSUME CostInv, CostNext, NEW k \in CostKeys
               PROVE  warm'[k] >= warm[k]
    OBVIOUS
  <2>1. warm \in [CostKeys -> Nat] /\ warm[k] \in Nat
    BY DEF CostInv, CostTypeOK
  <2>2. \A p \in Proxies : Upsert(p)[k] >= warm[k]
    BY <2>1, LargerOf DEF CostInv, CostTypeOK, Upsert
  <2>3. warm' = warm \/ \E p \in Proxies : warm' = Upsert(p)
    BY DEF CostNext, Record, FlushBegins, FinalBegins, Snapshot, FlushWrites, FinalWrites, Write,
           Stop, Restart, Export, Lose, Midnight
  <2>. QED  BY <2>1, <2>2, <2>3
<1>. QED  BY <1>1, CostInitially, CostStep, PTL DEF CostSpec, RollupNeverDecreases

-----------------------------------------------------------------------------
\* Both parts of MCSharedCost keep their types, whichever runs: each step is one of
\* the part that runs, and the other part stands still.
THEOREM SharedCostTyped == Spec => []SharedCostTypeOK
<1>. DEFINE Inv == /\ part \in {"shared", "cost"}
                   /\ part = "shared" => RequestsSound /\ RecorderSound
                   /\ part = "cost" => CostInv
<1>1. Init => Inv
  BY RecorderInitially, SharedInitially, CostInitially DEF Init
<1>2. Inv /\ [Next]_<<sharedVars, costVars, part>> => Inv'
  <2>. SUFFICES ASSUME Inv, [Next]_<<sharedVars, costVars, part>>
               PROVE  Inv'
    OBVIOUS
  <2>1. part' = part /\ (part = "shared" => [SharedNext]_sharedVars) /\ (part = "cost" => [CostNext]_costVars)
    BY DEF Next
  <2>. QED  BY <2>1, SharedStep, RecorderStep, CostStep
<1>3. Inv => SharedCostTypeOK
  BY SharedSoundTyped DEF CostInv, SharedCostTypeOK
<1>. QED  BY <1>1, <1>2, <1>3, PTL DEF Spec
=============================================================================
