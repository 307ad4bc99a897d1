---------------------------- MODULE NonceReplay ----------------------------
(***************************************************************************)
(* The NonceReplayGuard durable object (apps/proxy/src/nonce-replay-guard): *)
(* one record per accepted (agentDid, nonce), swept by an alarm.            *)
(*                                                                         *)
(* Many proxy workers share the object.  A worker reads ITS clock, verifies *)
(* the signature, and only then calls the object with that reading, so      *)
(* calls arrive in any order and arbitrarily late.  The object compares     *)
(* against the reading it was sent; the alarm against the object's clock.   *)
(* A call is one storage transaction, hence one step.                       *)
(***************************************************************************)
EXTENDS Integers, FiniteSetsExt

CONSTANTS Keys,      \* (agentDid, nonce) pairs
          Ttl,       \* nonceTtlMs: maxTimestampSkewSeconds * 1000
          MaxNow     \* bound: the clock's horizon

ASSUME NonceAssumption == Ttl \in Nat \ {0} /\ MaxNow \in Nat

VARIABLES now,       \* nowUtcMs()
          record,    \* durable: the record of a nonce, or NoRecord
          alarm,     \* durable: the alarm's time, or NoTime
          calls      \* try-accept calls under way: the nonce and the caller's nowMs

vars == <<now, record, alarm, calls>>

NoTime == -1
NoRecord == [seenAt |-> 0, expiresAt |-> 0]

\* A NonceReplayTryAcceptRequest.  The ttlMs is the same in every call.
Call == [key : Keys, nowMs : Nat]

\* A worker reads its clock and will call the object.  The same signed request
\* may be sent, or delivered, any number of times.
Submit(k) ==
    /\ calls' = calls \cup {[key |-> k, nowMs |-> now]}
    /\ UNCHANGED <<now, record, alarm>>

\* The transaction finds a record that has not expired: the nonce is a replay.
TryAcceptReplay(c) ==
    /\ c \in calls
    /\ record[c.key] # NoRecord /\ record[c.key].expiresAt > c.nowMs
    /\ calls' = calls \ {c}
    /\ UNCHANGED <<now, record, alarm>>

\* Slip: an alarm that is set is never moved.
TryAcceptKeepsAlarm(c) ==
    /\ c \in calls
    /\ record[c.key] = NoRecord \/ record[c.key].expiresAt <= c.nowMs
    /\ record' = [record EXCEPT ![c.key] = [seenAt |-> c.nowMs, expiresAt |-> c.nowMs + Ttl]]
    /\ alarm' = IF alarm = NoTime THEN c.nowMs + Ttl ELSE alarm
    /\ calls' = calls \ {c}
    /\ UNCHANGED now

\* Slip: a record that is about to expire counts as expired.
TryAcceptEarly(c) ==
    LET expiresAt == c.nowMs + Ttl IN
    /\ c \in calls
    /\ record[c.key] = NoRecord \/ record[c.key].expiresAt <= c.nowMs + 1
    /\ record' = [record EXCEPT ![c.key] = [seenAt |-> c.nowMs, expiresAt |-> expiresAt]]
    /\ alarm' = IF alarm = NoTime \/ expiresAt < alarm THEN expiresAt ELSE alarm
    /\ calls' = calls \ {c}
    /\ UNCHANGED now

\* The transaction accepts the nonce, and moves the alarm forward if needed.
TryAccept(c) ==
    LET expiresAt == c.nowMs + Ttl IN
    /\ c \in calls
    /\ record[c.key] = NoRecord \/ record[c.key].expiresAt <= c.nowMs
    /\ record' = [record EXCEPT ![c.key] = [seenAt |-> c.nowMs, expiresAt |-> expiresAt]]
    /\ alarm' = IF alarm = NoTime \/ expiresAt < alarm THEN expiresAt ELSE alarm
    /\ calls' = calls \ {c}
    /\ UNCHANGED now

Expired == {k \in Keys : record[k].expiresAt <= now}

\* Slip: the sweep sets its alarm again without deleting what it found.
AlarmKeeps ==
    LET stored == {record[k].expiresAt : k \in {x \in Keys : record[x] # NoRecord}} IN
    /\ alarm # NoTime /\ alarm <= now
    /\ alarm' = IF stored = {} THEN NoTime ELSE Min(stored)
    /\ UNCHANGED <<now, record, calls>>

\* alarm(): the expired records go, the alarm is set for the next one.
Alarm ==
    LET left == {record[k].expiresAt : k \in Keys \ Expired} IN
    /\ alarm # NoTime /\ alarm <= now
    /\ record' = [k \in Keys |-> IF k \in Expired THEN NoRecord ELSE record[k]]
    /\ alarm' = IF left = {} THEN NoTime ELSE Min(left)
    /\ UNCHANGED <<now, calls>>

Tick ==
    /\ now < MaxNow
    /\ now' = now + 1
    /\ UNCHANGED <<record, alarm, calls>>

Init ==
    /\ now = 0
    /\ record = [k \in Keys |-> NoRecord]
    /\ alarm = NoTime
    /\ calls = {}

Next ==
    \/ \E k \in Keys : Submit(k)
    \/ \E c \in calls : TryAcceptReplay(c) \/ TryAccept(c)
    \/ Alarm
    \/ Tick

Spec == Init /\ [][Next]_vars

\* The runtime delivers a due alarm and time passes.  Alarm and Tick are never
\* disabled by another step, except a Tick by the horizon.
FairSpec == Spec /\ WF_vars(Alarm) /\ WF_vars(Tick)

-----------------------------------------------------------------------------
(* Properties *)

TypeOK ==
    /\ now \in Nat
    /\ record \in [Keys -> [seenAt : Nat, expiresAt : Nat]]
    /\ alarm \in Nat \cup {NoTime}
    /\ calls \subseteq Call

\* The lifetime a nonce has left: what the object will enforce from now on.
Until == [k \in Keys |-> IF record[k].expiresAt > now THEN record[k].expiresAt ELSE 0]

Guard == INSTANCE ReplayGuard WITH until <- Until

\* The object implements the promise: no nonce is accepted while an earlier
\* acceptance of it lasts, whatever clock readings the calls carry and however
\* late they arrive, and neither a call nor the alarm forgets one too early.
ImplementsGuard == Guard!Spec

\* Every record has an alarm that is not later than its expiry: try-accept moves
\* the alarm only forward, and the sweep re-arms it for what it leaves.
SweepArmed ==
    \A k \in Keys : record[k] # NoRecord =>
        alarm # NoTime /\ alarm <= record[k].expiresAt

\* Storage does not grow for ever: an expired record is swept, or its nonce is
\* accepted anew.  (Records that expire beyond the horizon are left out.)
ExpiredAreSwept ==
    \A k \in Keys, t \in 1 .. MaxNow :
        record[k].expiresAt = t ~> record[k].expiresAt # t
=============================================================================
