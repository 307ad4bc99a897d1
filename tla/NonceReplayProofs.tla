------------------------- MODULE NonceReplayProofs -------------------------
(***************************************************************************)
(* The NonceReplayGuard object keeps its sweep armed and implements the     *)
(* promise of a nonce store, for every set of nonces and every lifetime.    *)
(***************************************************************************)
EXTENDS NonceReplay, WellFoundedInduction, TLAPS

\* Min picks the least element of a nonempty set of natural numbers, which is
\* what the code's schedulers compute with Math.min or a running minimum.
LEMMA MinOfNaturals ==
    ASSUME NEW S \in SUBSET Nat, S # {}
    PROVE  /\ Min(S) \in S
           /\ \A u \in S : Min(S) <= u
<1> DEFINE R == {ss \in Nat \X Nat : ss[1] < ss[2]}
<1>1. IsWellFoundedOn(R, Nat)
  BY NatLessThanWellFounded, Zenon DEF OpToRel
<1>2. PICK t \in S : \A u \in S : ~ (<<u, t>> \in R)
  <2> HIDE DEF R
  <2> QED BY <1>1, WFMin
<1>3. \A u \in S : ~ (u < t)
  BY <1>2
<1>4. \A u \in S : t <= u
  BY <1>3
<1> QED
  BY <1>4 DEF Min

\* The inductive invariant: no call carries a clock reading from the future, and
\* the alarm covers every record.
Inv == TypeOK /\ SweepArmed /\ \A c \in calls : c.nowMs <= now

\* The initial state satisfies the invariant: there are no records.
LEMMA InitInv == Init => Inv
BY DEF Init, Inv, TypeOK, SweepArmed, NoRecord, Call

\* Sweeping keeps the invariant: what is left expires no earlier than the alarm
\* that alarm() sets.
LEMMA AlarmInv ==
    ASSUME Inv, Alarm
    PROVE  Inv'
<1> DEFINE left == {record[k].expiresAt : k \in Keys \ Expired}
<1> USE NonceAssumption DEF Inv, TypeOK
<1>1. left \in SUBSET Nat
  OBVIOUS
<1>2. left # {} => Min(left) \in left /\ \A u \in left : Min(left) <= u
  BY <1>1, MinOfNaturals
<1>3. alarm' = IF left = {} THEN NoTime ELSE Min(left)
  BY DEF Alarm
<1>4. record' = [k \in Keys |-> IF k \in Expired THEN NoRecord ELSE record[k]]
  BY DEF Alarm
<1>5. calls' = calls /\ now' = now
  BY DEF Alarm
<1> HIDE DEF left
<1>6. TypeOK'
  BY <1>1, <1>2, <1>3, <1>4, <1>5 DEF NoRecord
<1>7. SweepArmed'
  <2> SUFFICES ASSUME NEW k \in Keys, record'[k] # NoRecord
               PROVE  alarm' # NoTime /\ alarm' <= record'[k].expiresAt
    BY DEF SweepArmed
  <2>1. k \in Keys \ Expired /\ record'[k] = record[k]
    BY <1>4
  <2>2. record[k].expiresAt \in left
    BY <2>1 DEF left
  <2> QED
    BY <1>1, <1>2, <1>3, <2>1, <2>2 DEF NoTime
<1> QED
  BY <1>5, <1>6, <1>7

\* Every other step keeps the invariant: try-accept only moves the alarm forward.
LEMMA NextInv ==
    ASSUME Inv, [Next]_vars
    PROVE  Inv'
<1> USE NonceAssumption DEF Inv, TypeOK
<1>1. CASE \E k \in Keys : Submit(k)
  BY <1>1 DEF Submit, SweepArmed, Call
<1>2. ASSUME NEW c \in calls, TryAcceptReplay(c) PROVE Inv'
  BY <1>2 DEF TryAcceptReplay, SweepArmed
<1>3. ASSUME NEW c \in calls, TryAccept(c) PROVE Inv'
  <2>1. c \in Call /\ c.key \in Keys /\ c.nowMs + Ttl \in Nat
    BY DEF Call
  <2>2. record' = [record EXCEPT ![c.key] = [seenAt |-> c.nowMs, expiresAt |-> c.nowMs + Ttl]]
    BY <1>3 DEF TryAccept
  <2>3. alarm' = IF alarm = NoTime \/ c.nowMs + Ttl < alarm THEN c.nowMs + Ttl ELSE alarm
    BY <1>3 DEF TryAccept
  <2>4. calls' = calls \ {c} /\ now' = now
    BY <1>3 DEF TryAccept
  <2>5. TypeOK'
    BY <2>1, <2>2, <2>3, <2>4 DEF Call
  <2>6. SweepArmed'
    BY <2>1, <2>2, <2>3 DEF SweepArmed, NoTime
  <2> QED
    BY <2>4, <2>5, <2>6
<1>4. CASE Alarm
  BY <1>4, AlarmInv
<1>5. CASE Tick
  BY <1>5 DEF Tick, SweepArmed, Call
<1>6. CASE UNCHANGED vars
  BY <1>6 DEF vars, SweepArmed
<1> QED
  BY <1>1, <1>2, <1>3, <1>4, <1>5, <1>6 DEF Next

\* Every variable keeps its type in every behaviour.
THEOREM NonceTypeCorrect == Spec => []TypeOK
<1>1. Spec => []Inv
  BY InitInv, NextInv, PTL DEF Spec
<1> QED
  BY <1>1, PTL DEF Inv

\* handleTryAccept and alarm() never leave a record without an alarm that comes
\* in time to sweep it.
THEOREM SweepAlwaysArmed == Spec => []SweepArmed
<1>1. Spec => []Inv
  BY InitInv, NextInv, PTL DEF Spec
<1> QED
  BY <1>1, PTL DEF Inv

\* A step of the object is a step of the promise, or changes nothing it sees.
LEMMA StepRefines ==
    ASSUME Inv, [Next]_vars
    PROVE  [Guard!Next]_(Guard!vars)
<1> USE NonceAssumption DEF Inv, TypeOK
<1>1. CASE \E k \in Keys : Submit(k)
  BY <1>1 DEF Submit, Until, Guard!vars
<1>2. ASSUME NEW c \in calls, TryAcceptReplay(c) PROVE UNCHANGED Guard!vars
  BY <1>2 DEF TryAcceptReplay, Until, Guard!vars
<1>3. ASSUME NEW c \in calls, TryAccept(c) PROVE Guard!Next
  <2> DEFINE t == c.nowMs + Ttl
  <2>1. c.key \in Keys /\ c.nowMs \in Nat /\ c.nowMs <= now
    BY DEF Call
  <2>2. Until[c.key] = 0
    BY <1>3, <2>1 DEF TryAccept, Until, NoRecord
  <2>3. t \in 1 .. (now + Ttl)
    BY <2>1
  <2>4. Until' = [Until EXCEPT ![c.key] = IF t > now THEN t ELSE 0]
    BY <1>3, <2>1 DEF TryAccept, Until
  <2>5. now' = now
    BY <1>3 DEF TryAccept
  <2> HIDE DEF t
  <2>6. Guard!Accept(c.key)
    BY <2>2, <2>3, <2>4, <2>5 DEF Guard!Accept
  <2> QED
    BY <2>1, <2>6 DEF Guard!Next
<1>4. CASE Alarm
  <2>1. record' = [k \in Keys |-> IF k \in Expired THEN NoRecord ELSE record[k]] /\ now' = now
    BY <1>4 DEF Alarm
  <2>2. \A k \in Keys : Until'[k] = Until[k]
    BY <2>1 DEF Until, Expired, NoRecord
  <2> QED
    BY <2>1, <2>2 DEF Until, Guard!vars
<1>5. CASE Tick
  <2>1. now' = now + 1 /\ record' = record
    BY <1>5 DEF Tick
  <2>2. Until' = [k \in Keys |-> IF Until[k] > now' THEN Until[k] ELSE 0]
    BY <2>1 DEF Until
  <2> QED
    BY <2>1, <2>2 DEF Guard!Next, Guard!Tick
<1>6. CASE UNCHANGED vars
  BY <1>6 DEF vars, Until, Guard!vars
<1> QED
  BY <1>1, <1>2, <1>3, <1>4, <1>5, <1>6 DEF Next

\* The durable object implements the nonce store's promise: for any number of
\* workers, nonces and late calls, an accepted nonce is not accepted again while
\* its lifetime lasts, and is not forgotten before.
THEOREM Refinement == Spec => ImplementsGuard
<1>1. Init => Guard!Init
  BY DEF Init, Guard!Init, Until, NoRecord
<1>2. Spec => []Inv
  BY InitInv, NextInv, PTL DEF Spec
<1> QED
  BY <1>1, <1>2, StepRefines, PTL DEF Spec, ImplementsGuard, Guard!Spec
=============================================================================
