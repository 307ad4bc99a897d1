--------------------------- MODULE CrlCacheProofs ---------------------------
(***************************************************************************)
(* The list in the revocation cache is behind the time it is stored under   *)
(* by less than ListLag, and fail-closed answers are behind by less than    *)
(* MaxAge more: for any number of tokens and overlapping calls, any         *)
(* intervals, and HTTP caches that hold lists for as long as they like.     *)
(***************************************************************************)
EXTENDS CrlCache, TLAPS

\* No clock reading that is kept lies in the future.
ClocksBehind ==
    /\ lastSuccess <= now
    /\ \A p \in Calls : call[p].start <= now /\ call[p].iat <= now
    /\ \A j \in Jtis : revokedAt[j] <= now /\ answer[j].start <= now

\* A list on its way to a call names every token that was listed more than
\* SignLag before its stamp: those were there when the rows were read.
RepliesComplete ==
    \A p \in Calls : call[p].phase = "reply" =>
        \A j \in Jtis : revokedAt[j] # Never /\ revokedAt[j] + SignLag < call[p].iat
                            => j \in call[p].list

\* A call that fetches is about a token.
CallsHaveJti == \A p \in Calls : call[p].phase # "idle" => call[p].jti \in Jtis

Inv == TypeOK /\ CallsHaveJti /\ ClocksBehind /\ RepliesComplete /\ NoRevocationMissed /\ FreshAnswers

\* The initial cache satisfies the invariant.
LEMMA InitInv == Init => Inv
BY CrlAssumption DEF Init, Inv, TypeOK, CallsHaveJti, ClocksBehind, RepliesComplete, NoRevocationMissed,
   FreshAnswers, CallState, Idle, NoTime, Never

\* Answering is safe: a call that started at n and finds a list of time
\* `success' in the cache, not stale at n, answers "not revoked" only for a
\* token listed less than MaxAge and ListLag before n.
LEMMA AnswerFresh ==
    ASSUME Inv, NEW n \in Nat, n <= now, NEW j \in Jtis, NEW c \in SUBSET Jtis,
           NEW success \in Nat \cup {NoTime},
           FailClosed => ~IsStale(success, n),
           \A i \in Jtis : revokedAt[i] # Never /\ revokedAt[i] + ListLag <= success => i \in c,
           Answer(j, n, j \in c),
           revokedAt' = revokedAt
    PROVE  /\ FreshAnswers'
           /\ answer' \in [Jtis -> [start : Nat \cup {NoTime}, revoked : BOOLEAN]]
           /\ \A i \in Jtis : answer'[i].start <= now
<1> USE CrlAssumption DEF Inv, TypeOK
<1>1. answer' = [answer EXCEPT ![j] = [start |-> n, revoked |-> j \in c]]
  BY DEF Answer
<1>2. answer' \in [Jtis -> [start : Nat \cup {NoTime}, revoked : BOOLEAN]]
  <2>1. (j \in c) \in BOOLEAN
    OBVIOUS
  <2>2. [start |-> n, revoked |-> j \in c]
            \in [start : Nat \cup {NoTime}, revoked : BOOLEAN]
    BY <2>1, Zenon
  <2> QED
    BY <1>1, <2>2, Zenon
<1>3. answer'[j].start = n /\ answer'[j].revoked = (j \in c)
  BY <1>1
<1>4. \A i \in Jtis \ {j} : answer'[i] = answer[i]
  BY <1>1
<1>5. FailClosed => (j \in c \/ revokedAt[j] = Never \/ revokedAt[j] + MaxAge + ListLag > n)
  BY DEF IsStale, Never, NoTime, ListLag
<1>6. FreshAnswers'
  BY <1>3, <1>4, <1>5 DEF FreshAnswers
<1>7. \A i \in Jtis : answer'[i].start <= now
  BY <1>3, <1>4 DEF ClocksBehind
<1> QED
  BY <1>2, <1>6, <1>7

\* Starting a call that fetches, or answering one from the cache.
LEMMA StartInv ==
    ASSUME Inv, NEW p \in Calls, NEW j \in Jtis,
           StartFetch(p, j) \/ AnswerFromCache(p, j)
    PROVE  Inv'
<1> USE CrlAssumption DEF Inv, TypeOK
<1>1. CASE StartFetch(p, j)
  <2> DEFINE c == [phase |-> "fetch", start |-> now, jti |-> j, list |-> {}, iat |-> 0]
  <2>1. call' = [call EXCEPT ![p] = c] /\ lastAttempt' = now
    BY <1>1 DEF StartFetch, Idle
  <2>2. UNCHANGED <<now, revokedAt, claims, lastSuccess, answer>>
    BY <1>1 DEF StartFetch
  <2>3. c \in CallState /\ c.phase = "fetch" /\ c.start = now /\ c.jti = j /\ c.iat = 0
    BY DEF CallState
  <2> HIDE DEF c
  <2>4. TypeOK'
    BY <2>1, <2>2, <2>3
  <2>5. CallsHaveJti' /\ ClocksBehind' /\ RepliesComplete'
    BY <2>1, <2>2, <2>3 DEF CallsHaveJti, ClocksBehind, RepliesComplete
  <2>6. NoRevocationMissed' /\ FreshAnswers'
    BY <2>2 DEF NoRevocationMissed, FreshAnswers
  <2> QED
    BY <2>4, <2>5, <2>6
<1>2. CASE AnswerFromCache(p, j)
  <2>1. Answer(j, now, j \in claims) /\ ~IsStale(lastSuccess, now)
    BY <1>2 DEF AnswerFromCache
  <2>2. UNCHANGED <<now, revokedAt, claims, lastSuccess, lastAttempt, call>>
    BY <1>2 DEF AnswerFromCache, cache
  <2>3. \A i \in Jtis : revokedAt[i] # Never /\ revokedAt[i] + ListLag <= lastSuccess => i \in claims
    BY DEF NoRevocationMissed
  <2>4. /\ FreshAnswers'
        /\ answer' \in [Jtis -> [start : Nat \cup {NoTime}, revoked : BOOLEAN]]
        /\ \A i \in Jtis : answer'[i].start <= now
    BY <2>1, <2>2, <2>3, AnswerFresh
  <2> QED
    BY <2>2, <2>4 DEF CallsHaveJti, ClocksBehind, RepliesComplete, NoRevocationMissed
<1> QED
  BY <1>1, <1>2

\* The end of a call that fetched keeps the answers fresh, whether it throws or
\* answers from the list it leaves in the cache.
LEMMA FinishFresh ==
    ASSUME Inv, NEW p \in Calls, call[p].phase \in {"fetch", "reply"},
           call[p].jti \in Jtis, NEW c \in SUBSET Jtis, NEW success \in Nat \cup {NoTime},
           \A i \in Jtis : revokedAt[i] # Never /\ revokedAt[i] + ListLag <= success => i \in c,
           Finish(p, c, success), revokedAt' = revokedAt
    PROVE  /\ FreshAnswers'
           /\ answer' \in [Jtis -> [start : Nat \cup {NoTime}, revoked : BOOLEAN]]
           /\ \A i \in Jtis : answer'[i].start <= now
<1>1. CASE UNCHANGED answer
  BY <1>1 DEF Inv, TypeOK, FreshAnswers, ClocksBehind
<1>2. CASE /\ ~(IsStale(success, call[p].start) /\ FailClosed)
           /\ Answer(call[p].jti, call[p].start, call[p].jti \in c)
  <2>1. call[p].start \in Nat /\ call[p].start <= now
    BY DEF Inv, TypeOK, CallState, ClocksBehind
  <2> QED
    BY <1>2, <2>1, AnswerFresh
<1> QED
  BY <1>1, <1>2 DEF Finish

\* Every step keeps the invariant.
LEMMA NextInv ==
    ASSUME Inv, [Next]_vars
    PROVE  Inv'
<1> USE CrlAssumption DEF Inv, TypeOK
<1>1. ASSUME NEW p \in Calls, NEW j \in Jtis, StartFetch(p, j) \/ AnswerFromCache(p, j)
      PROVE Inv'
  BY <1>1, StartInv
<1>2. ASSUME NEW p \in Calls, RegistryReads(p) PROVE Inv'
  <2>1. PICK r \in 0 .. now, iat \in 0 .. now, l \in SUBSET Revoked :
          /\ iat <= r + SignLag /\ l \in ListsAt(r)
          /\ call' = [call EXCEPT ![p] = [@ EXCEPT !.phase = "reply", !.list = l, !.iat = iat]]
    BY <1>2 DEF RegistryReads, ListsAt
  <2>2. UNCHANGED <<now, revokedAt, claims, lastSuccess, lastAttempt, answer>>
    BY <1>2 DEF RegistryReads, cache
  <2>3. /\ call[p] \in CallState /\ call[p].phase = "fetch"
        /\ l \in SUBSET Jtis /\ r \in Nat /\ iat \in Nat /\ iat <= now
        /\ \A j \in Jtis : revokedAt[j] # Never /\ revokedAt[j] < r => j \in l
    <3>1. call[p] \in CallState /\ call[p].phase = "fetch" /\ r \in Nat /\ iat \in Nat /\ iat <= now
      BY <1>2, <2>1 DEF RegistryReads
    <3>2. l \in SUBSET Jtis
      BY <2>1 DEF Revoked
    <3>3. \A j \in Jtis : revokedAt[j] # Never /\ revokedAt[j] < r => j \in l
      BY <2>1 DEF ListsAt, Revoked
    <3> QED
      BY <3>1, <3>2, <3>3
  <2>4. [call[p] EXCEPT !.phase = "reply", !.list = l, !.iat = iat] \in CallState
    BY <2>3 DEF CallState
  <2>5. TypeOK'
    BY <2>1, <2>2, <2>4
  <2>6. RepliesComplete'
    <3>1. \A j \in Jtis : revokedAt[j] # Never /\ revokedAt[j] + SignLag < iat => j \in l
      BY <2>1, <2>3
    <3>2. call'[p].list = l /\ call'[p].iat = iat /\ \A q \in Calls \ {p} : call'[q] = call[q]
      BY <2>1, <2>3 DEF CallState
    <3> QED
      BY <2>2, <3>1, <3>2 DEF RepliesComplete
  <2>7. CallsHaveJti' /\ ClocksBehind'
    BY <2>1, <2>2, <2>3 DEF CallsHaveJti, ClocksBehind, CallState
  <2>8. NoRevocationMissed' /\ FreshAnswers'
    BY <2>2 DEF NoRevocationMissed, FreshAnswers
  <2> QED
    BY <2>5, <2>6, <2>7, <2>8
<1>3. ASSUME NEW p \in Calls, FetchSucceeds(p) PROVE Inv'
  <2>1. /\ call[p].phase = "reply" /\ now < call[p].iat + CrlTtl
        /\ claims' = call[p].list /\ lastSuccess' = call[p].start
        /\ Finish(p, call[p].list, call[p].start)
        /\ UNCHANGED <<now, revokedAt, lastAttempt>>
    BY <1>3 DEF FetchSucceeds, Expiry
  <2>2. call[p].list \in SUBSET Jtis /\ call[p].start \in Nat /\ call[p].jti \in Jtis
        /\ call[p].iat \in Nat /\ call[p].start <= now
    BY <2>1 DEF CallState, CallsHaveJti, ClocksBehind
  <2>3. \A i \in Jtis : revokedAt[i] # Never /\ revokedAt[i] + ListLag <= call[p].start
                            => i \in call[p].list
    BY <2>1, <2>2 DEF RepliesComplete, ListLag
  <2>4. /\ FreshAnswers'
        /\ answer' \in [Jtis -> [start : Nat \cup {NoTime}, revoked : BOOLEAN]]
        /\ \A i \in Jtis : answer'[i].start <= now
    BY <2>1, <2>2, <2>3, FinishFresh
  <2>5. call' = [call EXCEPT ![p] = Idle]
    BY <2>1 DEF Finish
  <2>6. NoRevocationMissed'
    BY <2>1, <2>3 DEF NoRevocationMissed
  <2>7. TypeOK'
    BY <2>1, <2>2, <2>4, <2>5 DEF CallState, Idle
  <2>8. CallsHaveJti' /\ ClocksBehind' /\ RepliesComplete'
    BY <2>1, <2>2, <2>4, <2>5 DEF CallsHaveJti, ClocksBehind, RepliesComplete, Idle
  <2> QED
    BY <2>4, <2>6, <2>7, <2>8
<1>4. ASSUME NEW p \in Calls, FetchFails(p) PROVE Inv'
  <2>1. /\ call[p].phase \in {"fetch", "reply"}
        /\ Finish(p, claims, lastSuccess)
        /\ UNCHANGED <<now, revokedAt, claims, lastSuccess, lastAttempt>>
    BY <1>4 DEF FetchFails, cache
  <2>2. call[p].jti \in Jtis
    BY <2>1 DEF CallsHaveJti
  <2>3. \A i \in Jtis : revokedAt[i] # Never /\ revokedAt[i] + ListLag <= lastSuccess => i \in claims
    BY DEF NoRevocationMissed
  <2>4. /\ FreshAnswers'
        /\ answer' \in [Jtis -> [start : Nat \cup {NoTime}, revoked : BOOLEAN]]
        /\ \A i \in Jtis : answer'[i].start <= now
    BY <2>1, <2>2, <2>3, FinishFresh
  <2>5. call' = [call EXCEPT ![p] = Idle]
    BY <2>1 DEF Finish
  <2>6. TypeOK'
    BY <2>1, <2>4, <2>5 DEF CallState, Idle
  <2>7. CallsHaveJti' /\ ClocksBehind' /\ RepliesComplete' /\ NoRevocationMissed'
    BY <2>1, <2>4, <2>5 DEF CallsHaveJti, ClocksBehind, RepliesComplete, NoRevocationMissed, Idle
  <2> QED
    BY <2>4, <2>6, <2>7
<1>5. ASSUME NEW j \in Jtis, Revoke(j) PROVE Inv'
  <2>1. revokedAt[j] = Never /\ revokedAt' = [revokedAt EXCEPT ![j] = now]
    BY <1>5 DEF Revoke
  <2>2. UNCHANGED <<now, claims, lastSuccess, lastAttempt, call, answer>>
    BY <1>5 DEF Revoke, cache
  <2>3. TypeOK' /\ CallsHaveJti' /\ ClocksBehind' /\ NoRevocationMissed'
    BY <2>1, <2>2 DEF CallsHaveJti, ClocksBehind, NoRevocationMissed, ListLag
  <2>4. RepliesComplete'
    BY <2>1, <2>2 DEF RepliesComplete, ClocksBehind, CallState
  <2>5. FreshAnswers'
    BY <2>1, <2>2 DEF FreshAnswers, ClocksBehind, NoTime, ListLag
  <2> QED
    BY <2>3, <2>4, <2>5
<1>6. CASE Tick
  BY <1>6 DEF Tick, cache, CallsHaveJti, ClocksBehind, RepliesComplete, NoRevocationMissed, FreshAnswers,
     CallState, NoTime, Never
<1>7. CASE UNCHANGED vars
  BY <1>7 DEF vars, CallsHaveJti, ClocksBehind, RepliesComplete, NoRevocationMissed, FreshAnswers
<1> QED
  BY <1>1, <1>2, <1>3, <1>4, <1>5, <1>6, <1>7 DEF Next

\* Every variable keeps its type in every behaviour.
THEOREM CrlTypeCorrect == Spec => []TypeOK
<1>1. Spec => []Inv
  BY InitInv, NextInv, PTL DEF Spec
<1> QED
  BY <1>1, PTL DEF Inv

\* The cached list names every token listed ListLag before the time that
\* refreshIfStale stores it under, however fetches overlap and whatever lists
\* HTTP caches between the proxy and the registry serve.
THEOREM NeverMissesRevocation == Spec => []NoRevocationMissed
<1>1. Spec => []Inv
  BY InitInv, NextInv, PTL DEF Spec
<1> QED
  BY <1>1, PTL DEF Inv

\* In fail-closed mode isRevoked clears no token that had been listed for
\* maxAgeMs and ListLag together when the call started.
THEOREM FailClosedIsFresh == Spec => []FreshAnswers
<1>1. Spec => []Inv
  BY InitInv, NextInv, PTL DEF Spec
<1> QED
  BY <1>1, PTL DEF Inv
=============================================================================
