-------------------------- MODULE TrustStateProofs --------------------------
(***************************************************************************)
(* The trust state keeps its cleanup armed, its revocation markers for      *)
(* their whole lifetime, and its two views of trust in agreement, for every *)
(* set of agents, tickets and concurrent confirm calls.                     *)
(***************************************************************************)
EXTENDS TrustState, WellFoundedInduction, TLAPS

\* Min picks the least element of a nonempty set of natural numbers, which is
\* what the code's schedulers compute with Math.min or a running minimum.
LEMMA MinOfNaturals ==
    ASSUME NEW S \in SUBSET Nat, S # {}
    PROVE  /\ Min(S) \in S
           /\ \A u \in S : Min(S) <= u
<1> DEFINE R == {ss \in Nat \X Nat : ss[1] < ss[2]}
<1>1. IsWellFoundedOn(R, Nat)
  BY NatLessThanWellFounded, Zenon DEF OpToRel
<1>2. PICK t \in S : \A u \in S : ~ (<<u, t>> \in R)
  <2> HIDE DEF R
  <2> QED BY <1>1, WFMin
<1>3. \A u \in S : ~ (u < t)
  BY <1>2
<1>4. \A u \in S : t <= u
  BY <1>3
<1> QED
  BY <1>4 DEF Min

\* The copies a waiting confirm will save are as consistent as what is stored.
CopiesConsistent ==
    \A p \in Confirms, k \in Kids :
        call[p].tickets[k] = NoTicket \/ call[p].confirmed[k] = NoTicket

\* The stored marker is the one that was set last, as long as it lives.  Without
\* this the passing of time could end a marker early.
MarkersExact == \A a \in Agents : marked[a] > now => revoked[a] = marked[a]

Inv ==
    /\ TypeOK
    /\ CleanupArmed
    /\ MarkersExact
    /\ PeersMatchPairs
    /\ PendingOrConfirmed
    /\ CopiesConsistent

-----------------------------------------------------------------------------
(* Lemmas about the operators *)

\* scheduleNextCodeCleanup sets an alarm that is not later than any expiry in the
\* maps it is given.
LEMMA NextCleanupFacts ==
    ASSUME NEW t \in TicketMap, NEW c \in TicketMap, NEW r \in [Agents -> Nat]
    PROVE  /\ NextCleanup(t, c, r) \in Nat \cup {NoTime}
           /\ \A u \in Expiries(t, c, r) :
                NextCleanup(t, c, r) # NoTime /\ NextCleanup(t, c, r) <= u
<1> DEFINE times == Expiries(t, c, r)
<1>1. times \in SUBSET Nat
  BY DEF Expiries, TicketMap, Ticket, NoTicket
<1>2. CASE times = {}
  BY <1>2 DEF NextCleanup
<1>3. CASE times # {}
  <2>1. Min(times) \in times /\ \A u \in times : Min(times) <= u
    BY <1>1, <1>3, MinOfNaturals
  <2>2. NextCleanup(t, c, r) = Min(times)
    BY <1>3 DEF NextCleanup
  <2> HIDE DEF times
  <2> QED
    BY <1>1, <2>1, <2>2 DEF NoTime, times
<1> QED
  BY <1>2, <1>3

\* Removing an entry from a map of tickets leaves a map of tickets.
LEMMA WithoutType ==
    ASSUME NEW m \in TicketMap, NEW k \in Kids
    PROVE  /\ Without(m, k) \in TicketMap
           /\ \A x \in Kids : Without(m, k)[x] = IF x = k THEN NoTicket ELSE m[x]
BY DEF Without, TicketMap

\* So does removing the expired ones.
LEMMA UnexpiredType ==
    ASSUME NEW m \in TicketMap, NEW n \in Nat
    PROVE  /\ Unexpired(m, n) \in TicketMap
           /\ \A x \in Kids : Unexpired(m, n)[x] \in {m[x], NoTicket}
BY DEF Unexpired, TicketMap

\* A save of the tickets arms the cleanup for everything that is then stored.
LEMMA SaveExpirableFacts ==
    ASSUME Inv, NEW t \in TicketMap, NEW c \in TicketMap, SaveExpirable(t, c),
           UNCHANGED revoked
    PROVE  /\ tickets' \in TicketMap /\ confirmed' \in TicketMap
           /\ alarm' \in Nat \cup {NoTime}
           /\ CleanupArmed'
<1>1. revoked \in [Agents -> Nat]
  BY DEF Inv, TypeOK
<1>2. tickets' = t /\ confirmed' = c /\ alarm' = NextCleanup(t, c, revoked)
  BY DEF SaveExpirable
<1> QED
  BY <1>1, <1>2, NextCleanupFacts DEF CleanupArmed

\* So does a save of the revocation markers.
LEMMA SaveRevokedFacts ==
    ASSUME Inv, NEW r \in [Agents -> Nat], SaveRevoked(r), UNCHANGED <<tickets, confirmed>>
    PROVE  /\ revoked' = r
           /\ alarm' \in Nat \cup {NoTime}
           /\ CleanupArmed'
<1>1. tickets \in TicketMap /\ confirmed \in TicketMap
  BY DEF Inv, TypeOK
<1>2. revoked' = r /\ alarm' = NextCleanup(tickets, confirmed, r)
  BY DEF SaveRevoked
<1> QED
  BY <1>1, <1>2, NextCleanupFacts DEF CleanupArmed

\* Adding a pair adds both directions of the peer index, and nothing else.
LEMMA AddPairFacts ==
    ASSUME Inv, NEW a \in Agents, NEW b \in Agents, AddPair(a, b)
    PROVE  /\ pairs' \subseteq SUBSET Agents
           /\ peers' \in [Agents -> SUBSET Agents]
           /\ PeersMatchPairs'
<1> USE DEF Inv, TypeOK
<1>1. pairs' = pairs \cup {{a, b}}
  BY DEF AddPair
<1>2. \A x \in Agents :
        peers'[x] = peers[x] \cup (IF x = a THEN {b} ELSE {}) \cup (IF x = b THEN {a} ELSE {})
  BY DEF AddPair
<1>3. peers' \in [Agents -> SUBSET Agents]
  BY DEF AddPair
<1>4. pairs' \subseteq SUBSET Agents
  BY <1>1
<1>5. PeersMatchPairs'
  <2> SUFFICES ASSUME NEW x \in Agents, NEW y \in Agents
               PROVE  y \in peers'[x] <=> {x, y} \in pairs'
    BY DEF PeersMatchPairs
  <2>1. y \in peers[x] <=> {x, y} \in pairs
    BY DEF PeersMatchPairs
  <2>2. {x, y} = {a, b} <=> (x = a /\ y = b) \/ (x = b /\ y = a)
    OBVIOUS
  <2>3. y \in peers'[x] <=> y \in peers[x] \/ (x = a /\ y = b) \/ (x = b /\ y = a)
    BY <1>2
  <2>4. {x, y} \in pairs' <=> {x, y} \in pairs \/ {x, y} = {a, b}
    BY <1>1
  <2> QED
    BY <2>1, <2>2, <2>3, <2>4
<1> QED
  BY <1>3, <1>4, <1>5

-----------------------------------------------------------------------------
(* The invariant *)

\* The empty trust state satisfies the invariant.
LEMMA InitInv == Init => Inv
BY TrustAssumption DEF Init, Inv, TypeOK, CleanupArmed, MarkersExact, PeersMatchPairs,
   PendingOrConfirmed, CopiesConsistent, Expiries, TicketMap, NoCall, NoTime

\* The operations on tickets.
LEMMA CreateTicketInv ==
    ASSUME Inv, NEW k \in Kids, NEW a \in Agents, NEW allow \in Agents \cup {Anyone},
           NEW n \in Nat, NEW ttl \in Ttls, CreateTicket(k, a, allow, n, ttl)
    PROVE  Inv'
<1> USE TrustAssumption DEF Inv, TypeOK
<1> DEFINE e == WholeSecond(n + ttl)
           t == [tickets EXCEPT ![k] = [initiator |-> a, allow |-> allow,
                                        expiresAt |-> e, responder |-> Anyone]]
           c == Without(confirmed, k)
<1>1. e \in Nat
  BY DEF WholeSecond
<1>2. t \in TicketMap
  <2> HIDE DEF e
  <2> QED BY <1>1 DEF TicketMap, Ticket
<1>3. c \in TicketMap /\ \A x \in Kids : c[x] = IF x = k THEN NoTicket ELSE confirmed[x]
  BY WithoutType
<1>4. SaveExpirable(t, c)
  BY DEF CreateTicket
<1>5. UNCHANGED <<now, pairs, peers, revoked, call, marked, accepted>>
        /\ issued' = issued \cup {k}
  BY DEF CreateTicket
<1>6. \A x \in Kids : x # k => t[x] = tickets[x]
  BY DEF TicketMap
<1>7. tickets' = t /\ confirmed' = c
  BY <1>4 DEF SaveExpirable
<1> HIDE DEF t, c
<1>8. TypeOK' /\ CleanupArmed'
  BY <1>2, <1>3, <1>4, <1>5, SaveExpirableFacts
<1>9. PendingOrConfirmed'
  BY <1>3, <1>6, <1>7 DEF PendingOrConfirmed
<1> QED
  BY <1>5, <1>8, <1>9 DEF MarkersExact, PeersMatchPairs, CopiesConsistent

\* A confirm that goes on after its signature check, whatever the outcome.
LEMMA ConfirmInv ==
    ASSUME Inv, NEW p \in Confirms,
           ConfirmRefused(p) \/ ConfirmExpired(p) \/ ConfirmAccepted(p)
    PROVE  Inv'
<1> USE TrustAssumption DEF Inv, TypeOK
<1> DEFINE c == call[p]
           t == c.tickets[c.kid]
<1>1. /\ c \in ConfirmCall
      /\ call' = [call EXCEPT ![p] = NoCall]
      /\ UNCHANGED <<now, revoked, issued, marked>>
  BY DEF ConfirmRefused, ConfirmExpired, ConfirmAccepted
<1>2. /\ c.kid \in Kids /\ c.responder \in Agents /\ c.nowMs \in Nat
      /\ c.tickets \in TicketMap /\ c.confirmed \in TicketMap
  BY <1>1 DEF ConfirmCall
<1>3. \A x \in Kids : c.tickets[x] = NoTicket \/ c.confirmed[x] = NoTicket
  BY DEF CopiesConsistent
<1>4. call' \in [Confirms -> ConfirmCall \cup {NoCall}]
  BY <1>1
<1>5. CopiesConsistent'
  BY <1>1 DEF CopiesConsistent, NoCall
<1>6. MarkersExact'
  BY <1>1 DEF MarkersExact
<1>7. CASE ConfirmRefused(p)
  BY <1>1, <1>4, <1>5, <1>6, <1>7
     DEF ConfirmRefused, CleanupArmed, PeersMatchPairs, PendingOrConfirmed
<1>8. CASE ConfirmExpired(p)
  <2> DEFINE tt == Without(c.tickets, c.kid)
             cc == Without(c.confirmed, c.kid)
  <2>1. SaveExpirable(tt, cc) /\ UNCHANGED <<pairs, peers, accepted>>
    BY <1>8 DEF ConfirmExpired
  <2>2. /\ tt \in TicketMap /\ cc \in TicketMap
        /\ \A x \in Kids : /\ tt[x] = IF x = c.kid THEN NoTicket ELSE c.tickets[x]
                           /\ cc[x] = IF x = c.kid THEN NoTicket ELSE c.confirmed[x]
    <3> HIDE DEF c
    <3>1. /\ tt \in TicketMap
          /\ \A x \in Kids : tt[x] = IF x = c.kid THEN NoTicket ELSE c.tickets[x]
      BY <1>2, WithoutType
    <3>2. /\ cc \in TicketMap
          /\ \A x \in Kids : cc[x] = IF x = c.kid THEN NoTicket ELSE c.confirmed[x]
      BY <1>2, WithoutType
    <3> HIDE DEF tt, cc
    <3> QED BY <3>1, <3>2
  <2>3. tickets' = tt /\ confirmed' = cc
    BY <2>1 DEF SaveExpirable
  <2> HIDE DEF tt, cc
  <2>4. TypeOK' /\ CleanupArmed'
    BY <1>1, <1>4, <2>1, <2>2, SaveExpirableFacts
  <2>5. PendingOrConfirmed'
    BY <1>3, <2>2, <2>3 DEF PendingOrConfirmed
  <2> QED
    BY <1>5, <1>6, <2>1, <2>4, <2>5 DEF PeersMatchPairs
<1>9. CASE ConfirmAccepted(p)
  <2> DEFINE tt == Without(c.tickets, c.kid)
             cc == [c.confirmed EXCEPT ![c.kid] = [t EXCEPT !.responder = c.responder]]
  <2>1. /\ SaveExpirable(tt, cc) /\ AddPair(t.initiator, c.responder)
        /\ t.expiresAt > c.nowMs
        /\ accepted' = [accepted EXCEPT ![c.kid] = @ \cup {c.responder}]
    BY <1>9 DEF ConfirmAccepted
  <2>2. t \in Ticket
    <3> HIDE DEF c
    <3> QED BY <1>2, <2>1 DEF TicketMap, NoTicket
  <2>3. [t EXCEPT !.responder = c.responder] \in Ticket /\ t.initiator \in Agents
    <3> HIDE DEF c, t
    <3> QED BY <1>2, <2>2 DEF Ticket
  <2>4. /\ tt \in TicketMap
        /\ \A x \in Kids : tt[x] = IF x = c.kid THEN NoTicket ELSE c.tickets[x]
    <3> HIDE DEF c
    <3> QED BY <1>2, WithoutType
  <2>5. cc \in TicketMap /\ \A x \in Kids : x # c.kid => cc[x] = c.confirmed[x]
    <3> HIDE DEF c, t
    <3> QED BY <1>2, <2>3 DEF TicketMap
  <2>6. tickets' = tt /\ confirmed' = cc
    BY <2>1 DEF SaveExpirable
  <2> HIDE DEF tt, cc, t, c
  <2>7. /\ tickets' \in TicketMap /\ confirmed' \in TicketMap
        /\ alarm' \in Nat \cup {NoTime} /\ CleanupArmed'
    BY <1>1, <2>1, <2>4, <2>5, SaveExpirableFacts
  <2>8. /\ pairs' \subseteq SUBSET Agents /\ peers' \in [Agents -> SUBSET Agents]
        /\ PeersMatchPairs'
    BY <1>2, <2>1, <2>3, AddPairFacts
  <2>9. accepted' \in [Kids -> SUBSET Agents]
    BY <1>2, <2>1
  <2>10. PendingOrConfirmed'
    BY <1>3, <2>4, <2>5, <2>6 DEF PendingOrConfirmed
  <2>11. TypeOK'
    BY <1>1, <1>4, <2>7, <2>8, <2>9
  <2> QED
    BY <1>5, <1>6, <2>7, <2>8, <2>10, <2>11
<1> QED
  BY <1>7, <1>8, <1>9

\* A status query that removes an expired ticket.
LEMMA StatusInv ==
    ASSUME Inv, NEW k \in Kids, NEW n \in Nat, StatusExpired(k, n)
    PROVE  Inv'
<1> USE TrustAssumption DEF Inv, TypeOK
<1>1. UNCHANGED <<now, pairs, peers, revoked, call, issued, marked, accepted>>
  BY DEF StatusExpired
<1>2. ASSUME NEW t \in TicketMap, NEW c \in TicketMap, SaveExpirable(t, c),
             \A x \in Kids : /\ t[x] \in {tickets[x], NoTicket}
                             /\ c[x] \in {confirmed[x], NoTicket}
      PROVE  TypeOK' /\ CleanupArmed' /\ PendingOrConfirmed'
  <2>1. TypeOK' /\ CleanupArmed'
    BY <1>1, <1>2, SaveExpirableFacts
  <2>2. PendingOrConfirmed'
    BY <1>2 DEF SaveExpirable, PendingOrConfirmed
  <2> QED
    BY <2>1, <2>2
<1>3. ASSUME SaveExpirable(Without(tickets, k), confirmed)
      PROVE  TypeOK' /\ CleanupArmed' /\ PendingOrConfirmed'
  <2> DEFINE t == Without(tickets, k)
  <2>1. t \in TicketMap /\ \A x \in Kids : t[x] \in {tickets[x], NoTicket}
    BY WithoutType
  <2> HIDE DEF t
  <2>2. SaveExpirable(t, confirmed)
    BY <1>3 DEF t
  <2> QED
    BY <1>2, <2>1, <2>2
<1>4. ASSUME SaveExpirable(tickets, Without(confirmed, k))
      PROVE  TypeOK' /\ CleanupArmed' /\ PendingOrConfirmed'
  <2> DEFINE c == Without(confirmed, k)
  <2>1. c \in TicketMap /\ \A x \in Kids : c[x] \in {confirmed[x], NoTicket}
    BY WithoutType
  <2> HIDE DEF c
  <2>2. SaveExpirable(tickets, c)
    BY <1>4 DEF c
  <2> QED
    BY <1>2, <2>1, <2>2
<1>5. TypeOK' /\ CleanupArmed' /\ PendingOrConfirmed'
  BY <1>3, <1>4 DEF StatusExpired
<1> QED
  BY <1>1, <1>5 DEF MarkersExact, PeersMatchPairs, CopiesConsistent

\* The operations on revocation markers, and the alarm.
LEMMA MarkerInv ==
    ASSUME Inv, (\E a \in Agents : MarkAgentRevoked(a)) \/ IsAgentRevoked \/ Alarm
    PROVE  Inv'
<1> USE TrustAssumption DEF Inv, TypeOK
<1>1. /\ UnexpiredMarkers(now) \in [Agents -> Nat]
      /\ \A x \in Agents : revoked[x] > now => UnexpiredMarkers(now)[x] = revoked[x]
  BY DEF UnexpiredMarkers
<1>2. ASSUME NEW a \in Agents, MarkAgentRevoked(a) PROVE Inv'
  <2> DEFINE r == [UnexpiredMarkers(now) EXCEPT ![a] = now + MarkerTtl]
  <2>1. r \in [Agents -> Nat]
    BY <1>1
  <2>2. SaveRevoked(r) /\ marked' = [marked EXCEPT ![a] = now + MarkerTtl]
    BY <1>2 DEF MarkAgentRevoked
  <2>3. UNCHANGED <<now, tickets, confirmed, pairs, peers, call, issued, accepted>>
    BY <1>2 DEF MarkAgentRevoked
  <2>4. MarkersExact'
    BY <1>1, <2>2, <2>3 DEF MarkersExact, SaveRevoked
  <2> HIDE DEF r
  <2>5. TypeOK' /\ CleanupArmed'
    BY <2>1, <2>2, <2>3, SaveRevokedFacts
  <2> QED
    BY <2>3, <2>4, <2>5 DEF PeersMatchPairs, PendingOrConfirmed, CopiesConsistent
<1>3. CASE IsAgentRevoked
  <2>1. /\ SaveRevoked(UnexpiredMarkers(now))
        /\ UNCHANGED <<now, tickets, confirmed, pairs, peers, call, issued, marked, accepted>>
    BY <1>3 DEF IsAgentRevoked
  <2>2. MarkersExact'
    BY <1>1, <2>1 DEF MarkersExact, SaveRevoked
  <2>3. TypeOK' /\ CleanupArmed'
    BY <1>1, <2>1, SaveRevokedFacts
  <2> QED
    BY <2>1, <2>2, <2>3 DEF PeersMatchPairs, PendingOrConfirmed, CopiesConsistent
<1>4. CASE Alarm
  <2>1. /\ tickets' = Unexpired(tickets, now) /\ confirmed' = Unexpired(confirmed, now)
        /\ revoked' = UnexpiredMarkers(now)
        /\ alarm' = NextCleanup(tickets', confirmed', revoked')
        /\ UNCHANGED <<now, pairs, peers, call, issued, marked, accepted>>
    BY <1>4 DEF Alarm
  <2>2. /\ tickets' \in TicketMap /\ confirmed' \in TicketMap
        /\ \A x \in Kids : /\ tickets'[x] \in {tickets[x], NoTicket}
                           /\ confirmed'[x] \in {confirmed[x], NoTicket}
    BY <2>1, UnexpiredType
  <2>3. alarm' \in Nat \cup {NoTime} /\ CleanupArmed'
    BY <1>1, <2>1, <2>2, NextCleanupFacts DEF CleanupArmed
  <2>4. MarkersExact'
    BY <1>1, <2>1 DEF MarkersExact
  <2>5. PendingOrConfirmed'
    BY <2>2 DEF PendingOrConfirmed
  <2> QED
    BY <1>1, <2>1, <2>2, <2>3, <2>4, <2>5 DEF PeersMatchPairs, CopiesConsistent
<1> QED
  BY <1>2, <1>3, <1>4

\* Every step keeps the invariant.
LEMMA NextInv ==
    ASSUME Inv, [Next]_vars
    PROVE  Inv'
<1> USE TrustAssumption DEF Inv, TypeOK
<1>1. ASSUME NEW k \in Kids, NEW a \in Agents, NEW allow \in Agents \cup {Anyone},
             NEW n \in Readings, NEW ttl \in Ttls, CreateTicket(k, a, allow, n, ttl)
      PROVE  Inv'
  BY <1>1, CreateTicketInv DEF Readings
<1>2. ASSUME NEW p \in Confirms, NEW k \in Kids, NEW b \in Agents, NEW n \in Readings,
             ConfirmStart(p, k, b, n)
      PROVE  Inv'
  <2>1. n \in Nat
    BY DEF Readings
  <2>2. [kid |-> k, responder |-> b, nowMs |-> n, tickets |-> tickets, confirmed |-> confirmed]
            \in ConfirmCall
    BY <2>1 DEF ConfirmCall
  <2>3. call' \in [Confirms -> ConfirmCall \cup {NoCall}]
    BY <1>2, <2>2 DEF ConfirmStart
  <2>4. CopiesConsistent'
    BY <1>2 DEF ConfirmStart, CopiesConsistent, PendingOrConfirmed
  <2> QED
    BY <1>2, <2>3, <2>4 DEF ConfirmStart, CleanupArmed, MarkersExact, PeersMatchPairs,
       PendingOrConfirmed
<1>3. ASSUME NEW p \in Confirms, ConfirmRefused(p) \/ ConfirmExpired(p) \/ ConfirmAccepted(p)
      PROVE  Inv'
  BY <1>3, ConfirmInv
<1>4. ASSUME NEW k \in Kids, NEW n \in Readings, StatusExpired(k, n) PROVE Inv'
  BY <1>4, StatusInv DEF Readings
<1>5. ASSUME NEW a \in Agents, NEW b \in Agents, UpsertPair(a, b) PROVE Inv'
  BY <1>5, AddPairFacts DEF UpsertPair, CleanupArmed, MarkersExact, PendingOrConfirmed,
     CopiesConsistent
<1>6. CASE (\E a \in Agents : MarkAgentRevoked(a)) \/ IsAgentRevoked \/ Alarm
  BY <1>6, MarkerInv
<1>7. CASE Crash
  BY <1>7 DEF Crash, CleanupArmed, MarkersExact, PeersMatchPairs, PendingOrConfirmed,
     CopiesConsistent, NoCall
<1>8. CASE Tick
  BY <1>8 DEF Tick, CleanupArmed, MarkersExact, PeersMatchPairs, PendingOrConfirmed,
     CopiesConsistent
<1>9. CASE UNCHANGED vars
  BY <1>9 DEF vars, CleanupArmed, MarkersExact, PeersMatchPairs, PendingOrConfirmed,
     CopiesConsistent
<1> QED
  BY <1>1, <1>2, <1>3, <1>4, <1>5, <1>6, <1>7, <1>8, <1>9 DEF Next

\* The invariant holds in every reachable state.
LEMMA Invariance == Spec => []Inv
BY InitInv, NextInv, PTL DEF Spec

\* Every variable keeps its type in every behaviour.
THEOREM TrustTypeCorrect == Spec => []TypeOK
BY Invariance, PTL DEF Inv

\* No operation, and no confirm that saves what it loaded long ago, leaves a
\* ticket or marker behind that no alarm will sweep.
THEOREM CleanupAlwaysArmed == Spec => []CleanupArmed
BY Invariance, PTL DEF Inv

\* A revocation marker holds for its whole lifetime.
THEOREM RevokedStaysRevoked == Spec => []RevocationHolds
<1>1. Inv => RevocationHolds
  BY DEF Inv, TypeOK, MarkersExact, RevocationHolds
<1> QED
  BY <1>1, Invariance, PTL

\* The pair keys and the peer index agree in every reachable state.
THEOREM TrustViewsAgree == Spec => []PeersMatchPairs
BY Invariance, PTL DEF Inv

\* No ticket is pending and confirmed at once.
THEOREM NeverPendingAndConfirmed == Spec => []PendingOrConfirmed
BY Invariance, PTL DEF Inv

\* The keys a handler writes one after the other, from copies it loaded earlier,
\* never contradict each other.
THEOREM StoresNeverDisagree == Spec => []StoresAgree
BY TrustViewsAgree, NeverPendingAndConfirmed, PTL DEF StoresAgree
=============================================================================
