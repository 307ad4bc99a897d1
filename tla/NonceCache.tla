----------------------------- MODULE NonceCache -----------------------------
(***************************************************************************)
(* createNonceCache of the SDK (packages/sdk/src/security/nonce-cache): the *)
(* nonce store of a proxy without durable objects, and of the middleware's  *)
(* default.  A map of maps in the memory of one process, purged on use; it  *)
(* reads its own clock, and a call runs to completion without waiting.      *)
(* A restart forgets everything: the promise is for one process lifetime.   *)
(***************************************************************************)
EXTENDS Integers

CONSTANTS Agents, Nonces,
          Ttl,       \* options.ttlMs
          MaxNow     \* bound: the clock's horizon

ASSUME CacheAssumption == Ttl \in Nat \ {0} /\ MaxNow \in Nat

VARIABLES now,
          agents,    \* the keys of seenByAgent
          expiresAt  \* record.expiresAt of an agent's nonce; 0: no record

vars == <<now, agents, expiresAt>>

Keys == Agents \X Nonces

\* Slip: a record is purged one unit of time too early.
PurgedEarly == [k \in Keys |-> IF expiresAt[k] <= now + 1 THEN 0 ELSE expiresAt[k]]

\* purgeExpiredAt: the records that are left, and the agents that have any.
Purged == [k \in Keys |-> IF expiresAt[k] <= now THEN 0 ELSE expiresAt[k]]

AgentsLeft == {a \in agents : \E n \in Nonces : Purged[<<a, n>>] # 0}

TryAcceptNonce(a, n) ==
    /\ agents' = AgentsLeft \cup {a}
    /\ expiresAt' = IF Purged[<<a, n>>] # 0 THEN Purged
                    ELSE [Purged EXCEPT ![<<a, n>>] = now + Ttl]
    /\ UNCHANGED now

PurgeExpired ==
    /\ agents' = AgentsLeft
    /\ expiresAt' = Purged
    /\ UNCHANGED now

Tick ==
    /\ now < MaxNow
    /\ now' = now + 1
    /\ UNCHANGED <<agents, expiresAt>>

Init ==
    /\ now = 0
    /\ agents = {}
    /\ expiresAt = [k \in Keys |-> 0]

Next ==
    \/ \E a \in Agents, n \in Nonces : TryAcceptNonce(a, n)
    \/ PurgeExpired
    \/ Tick

Spec == Init /\ [][Next]_vars

-----------------------------------------------------------------------------
(* Properties *)

Until == [k \in Keys |-> IF expiresAt[k] > now THEN expiresAt[k] ELSE 0]

Guard == INSTANCE ReplayGuard WITH until <- Until

\* The cache implements the promise of a nonce store: within the lifetime of an
\* accepted nonce no call accepts it again, and no purge on behalf of another
\* nonce or agent forgets it.
CacheImplementsGuard == Guard!Spec

\* The outer map holds exactly the agents that have a record: purging leaves no
\* empty inner map behind, and no record outlives its agent's entry.
MapsAreTight ==
    \A a \in Agents : a \in agents <=> \E n \in Nonces : expiresAt[<<a, n>>] # 0
=============================================================================
