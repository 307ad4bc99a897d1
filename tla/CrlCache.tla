------------------------------ MODULE CrlCache ------------------------------
(***************************************************************************)
(* createCrlCache of the SDK (packages/sdk/src/crl/cache), as the proxy's   *)
(* auth middleware uses it: isRevoked(jti) first refreshes the cached       *)
(* revocation list if its age asks for it, then answers from the cache.     *)
(*                                                                         *)
(* Calls overlap: a call that fetches waits for the registry, and others    *)
(* start, fetch and answer meanwhile.  GET /v1/crl of the registry signs    *)
(* its list with an expiry and lets HTTP caches hold it, so that a fetch    *)
(* may return a list that was read long before it began.  Nothing is        *)
(* assumed of those caches: what bounds a list's age is the proxy's check   *)
(* of its expiry.  Proxy and registry read one clock.                       *)
(***************************************************************************)
EXTENDS Integers, FiniteSets

CONSTANTS Jtis,             \* token ids that may be revoked
          Calls,            \* concurrent isRevoked calls
          RefreshInterval,  \* options.refreshIntervalMs
          MaxAge,           \* options.maxAgeMs
          FailClosed,       \* options.staleBehavior = "fail-closed"
          CrlTtl,           \* CRL_TTL_SECONDS: the lifetime of a signed list
          SignLag,          \* bound: time from the read of the rows to the stamp
          MaxNow            \* bound: the clock's horizon

ASSUME CrlAssumption ==
    /\ RefreshInterval \in Nat \ {0}
    /\ MaxAge \in Nat \ {0}
    /\ FailClosed \in BOOLEAN
    /\ CrlTtl \in Nat \ {0}
    /\ SignLag \in Nat
    /\ MaxNow \in Nat

VARIABLES
    now,
    revokedAt,      \* the registry's table: when each token was listed, or Never
    claims,         \* the jtis of the cached list
    lastSuccess,    \* lastSuccessfulRefreshAtMs; NoTime: nothing is cached yet
    lastAttempt,    \* lastRefreshAttemptAtMs
    call,           \* the isRevoked calls under way
    answer          \* history: the last answer about each token

vars == <<now, revokedAt, claims, lastSuccess, lastAttempt, call, answer>>
cache == <<claims, lastSuccess, lastAttempt>>

NoTime == -1
Never == -1

Revoked == {j \in Jtis : revokedAt[j] # Never}

Idle == [phase |-> "idle", start |-> 0, jti |-> "none", list |-> {}, iat |-> 0]

\* isStale(n): the cache is empty or its list is older than MaxAge.
IsStale(success, n) == success = NoTime \/ n - success > MaxAge

ShouldRefresh(n) ==
    IsStale(lastSuccess, n) \/ n - lastSuccess >= RefreshInterval

CanAttemptRefresh(n) == lastAttempt = NoTime \/ n - lastAttempt >= RefreshInterval

Answer(j, start, verdict) ==
    answer' = [answer EXCEPT ![j] = [start |-> start, revoked |-> verdict]]

\* isRevoked up to the wait: the call marks its attempt and fetches.
StartFetch(p, j) ==
    /\ call[p] = Idle
    /\ ShouldRefresh(now)
    /\ IsStale(lastSuccess, now) \/ CanAttemptRefresh(now)
    /\ lastAttempt' = now
    /\ call' = [call EXCEPT ![p] = [phase |-> "fetch", start |-> now, jti |-> j, list |-> {}, iat |-> 0]]
    /\ UNCHANGED <<now, revokedAt, claims, lastSuccess, answer>>

\* isRevoked that needs no refresh, or may not attempt one yet: it answers at
\* once (a list that is not stale is there).
AnswerFromCache(p, j) ==
    /\ call[p] = Idle
    /\ ~IsStale(lastSuccess, now)
    /\ ~(ShouldRefresh(now) /\ CanAttemptRefresh(now))
    /\ Answer(j, now, j \in claims)
    /\ UNCHANGED <<now, revokedAt, cache, call>>

\* The lists that a read of the table at time r can have returned: what was
\* listed at r itself may have come before the read or after it.
ListsAt(r) ==
    {l \in SUBSET Revoked :
        \A j \in Revoked : (revokedAt[j] < r => j \in l) /\ (j \in l => revokedAt[j] <= r)}

\* The answer of GET /v1/crl to the fetch of call p: rows read at r and stamped
\* iat after the signer was resolved, for this request or for an earlier one of
\* anybody whose answer an HTTP cache kept.  An empty table is answered with 404.
RegistryReads(p) ==
    /\ call[p].phase = "fetch"
    /\ \E r \in 0 .. now, iat \in 0 .. now :
          /\ r <= iat /\ iat <= r + SignLag
          /\ \E l \in ListsAt(r) \ {{}} :
                call' = [call EXCEPT ![p] = [@ EXCEPT !.phase = "reply", !.list = l, !.iat = iat]]
    /\ UNCHANGED <<now, revokedAt, cache, answer>>

\* exp of buildCrlClaims.  Both sides of jwtVerify's comparison are rounded down
\* to seconds, which may only refuse a list somewhat earlier.
Expiry(iat) == iat + CrlTtl

\* Slip: a stale list is good enough as long as there is one.
FinishLenient(p, c, success) ==
    /\ call' = [call EXCEPT ![p] = Idle]
    /\ \/ success = NoTime /\ UNCHANGED answer
       \/ success # NoTime /\ Answer(call[p].jti, call[p].start, call[p].jti \in c)

\* The end of refreshIfStale and isRevoked, with the cache left as `c': a list
\* that was stale at the call's start makes a fail-closed call throw; without a
\* list a fail-open call answers "not revoked".
Finish(p, c, success) ==
    /\ call' = [call EXCEPT ![p] = Idle]
    /\ \/ /\ IsStale(success, call[p].start) /\ FailClosed
          /\ UNCHANGED answer
       \/ /\ ~(IsStale(success, call[p].start) /\ FailClosed)
          /\ Answer(call[p].jti, call[p].start, call[p].jti \in c)

\* Slip: the signature of the list is checked and its expiry is not.
FetchSucceedsExpired(p) ==
    /\ call[p].phase = "reply"
    /\ claims' = call[p].list
    /\ lastSuccess' = call[p].start
    /\ Finish(p, claims', lastSuccess')
    /\ UNCHANGED <<now, revokedAt, lastAttempt>>

\* fetchLatest returns once verifyCRL has found the list not expired; its result
\* is stored under the time at which the call started.
FetchSucceeds(p) ==
    /\ call[p].phase = "reply"
    /\ now < Expiry(call[p].iat)
    /\ claims' = call[p].list
    /\ lastSuccess' = call[p].start
    /\ Finish(p, claims', lastSuccess')
    /\ UNCHANGED <<now, revokedAt, lastAttempt>>

\* No answer, a 404, a list that is expired, not signed or not readable.
FetchFails(p) ==
    /\ call[p].phase \in {"fetch", "reply"}
    /\ Finish(p, claims, lastSuccess)
    /\ UNCHANGED <<now, revokedAt, cache>>

\* A revocation or a reissue lists a token (onConflictDoNothing: once).
Revoke(j) ==
    /\ revokedAt[j] = Never
    /\ revokedAt' = [revokedAt EXCEPT ![j] = now]
    /\ UNCHANGED <<now, cache, call, answer>>

Tick ==
    /\ now < MaxNow
    /\ now' = now + 1
    /\ UNCHANGED <<revokedAt, cache, call, answer>>

Init ==
    /\ now = 0
    /\ revokedAt = [j \in Jtis |-> Never]
    /\ claims = {}
    /\ lastSuccess = NoTime
    /\ lastAttempt = NoTime
    /\ call = [p \in Calls |-> Idle]
    /\ answer = [j \in Jtis |-> [start |-> NoTime, revoked |-> FALSE]]

Next ==
    \/ \E p \in Calls :
          \/ \E j \in Jtis : StartFetch(p, j) \/ AnswerFromCache(p, j)
          \/ RegistryReads(p) \/ FetchSucceeds(p) \/ FetchFails(p)
    \/ \E j \in Jtis : Revoke(j)
    \/ Tick

Spec == Init /\ [][Next]_vars

-----------------------------------------------------------------------------
(* Properties *)

CallState == [phase : {"idle", "fetch", "reply"}, start : Nat,
              jti : Jtis \cup {"none"}, list : SUBSET Jtis, iat : Nat]

TypeOK ==
    /\ now \in Nat
    /\ revokedAt \in [Jtis -> Nat \cup {Never}]
    /\ claims \subseteq Jtis
    /\ lastSuccess \in Nat \cup {NoTime}
    /\ lastAttempt \in Nat \cup {NoTime}
    /\ call \in [Calls -> CallState]
    /\ answer \in [Jtis -> [start : Nat \cup {NoTime}, revoked : BOOLEAN]]

\* How much a list that is stored may be behind the moment it is stored under:
\* HTTP caches may have held it until it was about to expire.
ListLag == CrlTtl + SignLag

\* The timestamp of the cache never claims too much: the list in it names every
\* token listed ListLag before lastSuccessfulRefreshAtMs, also after a slow fetch
\* has overwritten the result of a later one, and whatever HTTP caches serve.
NoRevocationMissed ==
    \A j \in Jtis : revokedAt[j] # Never /\ revokedAt[j] + ListLag <= lastSuccess => j \in claims

\* In fail-closed mode a call answers "not revoked" only for a token that had
\* been listed for less than MaxAge and ListLag together when the call started,
\* whatever fetches fail or overlap and whatever HTTP caches serve them.
FreshAnswers ==
    FailClosed => \A j \in Jtis :
        \/ answer[j].start = NoTime \/ answer[j].revoked
        \/ revokedAt[j] = Never \/ revokedAt[j] + MaxAge + ListLag > answer[j].start
=============================================================================
