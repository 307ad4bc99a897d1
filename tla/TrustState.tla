----------------------------- MODULE TrustState -----------------------------
(***************************************************************************)
(* The ProxyTrustState durable object (apps/proxy/src/proxy-trust-state):   *)
(* pairing tickets, the pairs they establish, and markers of revoked        *)
(* agents, with one alarm that sweeps what has expired.                     *)
(*                                                                         *)
(* Four storage keys (tickets, confirmed tickets, revoked agents, and pairs *)
(* with their peer index) are each loaded and saved whole.  A handler that  *)
(* waits only for storage is atomic.  handleConfirmPairingTicket also waits *)
(* for the signature check, and other requests get in there: it goes on     *)
(* with the tickets it loaded before, and the pairs it loads after.         *)
(* The pairing routes send their own reading of the clock (nowMs), which    *)
(* may be up to MaxLag behind when the object acts on it.                   *)
(***************************************************************************)
EXTENDS Integers, FiniteSetsExt

CONSTANTS
    Agents,       \* agent DIDs
    Anyone,       \* allowResponderAgentDid is undefined
    Kids,         \* ticket ids: every /pair/start makes a new one
    Confirms,     \* confirm calls that may wait for their signature check
    Ttls,         \* ticket lifetimes a caller may ask for (ttlSeconds * 1000)
    Second,       \* the clock's units per second
    MarkerTtl,    \* REVOKED_AGENT_MARKER_TTL_MS
    MaxLag,       \* bound: how late a call may act on its clock reading
    MaxNow        \* bound: the clock's horizon

ASSUME TrustAssumption ==
    /\ Anyone \notin Agents
    /\ IsFiniteSet(Agents) /\ IsFiniteSet(Kids)
    /\ Second \in Nat \ {0}
    /\ Ttls \subseteq {t \in Nat : t >= Second}
    /\ MarkerTtl \in Nat \ {0}
    /\ MaxLag \in Nat /\ MaxNow \in Nat

VARIABLES
    now,
    tickets,     \* durable: pairingTickets, NoTicket where there is no entry
    confirmed,   \* durable: confirmedPairingTickets
    pairs,       \* durable: the pair keys, as sets of agents
    peers,       \* durable: the agent peer index
    revoked,     \* durable: expiresAtMs of an agent's revocation marker; 0: none
    alarm,       \* durable: the alarm's time, or NoTime
    call,        \* memory: the confirm calls that wait
    issued,      \* the kids generateUlid has returned
    marked,      \* history: until when an agent was marked as revoked
    accepted     \* history: the responders told that their confirm succeeded

vars == <<now, tickets, confirmed, pairs, peers, revoked, alarm, call,
          issued, marked, accepted>>

NoTime == -1

\* A stored ticket; `responder' is set once it is confirmed.
NoTicket == [initiator |-> Anyone, allow |-> Anyone, expiresAt |-> 0, responder |-> Anyone]

Ticket == [initiator : Agents, allow : Agents \cup {Anyone},
           expiresAt : Nat, responder : Agents \cup {Anyone}]

TicketMap == [Kids -> Ticket \cup {NoTicket}]

\* A confirm call that waits: its request, and the maps it loaded.
ConfirmCall == [kid : Kids, responder : Agents, nowMs : Nat,
                tickets : TicketMap, confirmed : TicketMap]

NoCall == [kid |-> "none", responder |-> Anyone, nowMs |-> 0,
           tickets |-> [k \in Kids |-> NoTicket],
           confirmed |-> [k \in Kids |-> NoTicket]]

-----------------------------------------------------------------------------
(* Storage *)

\* normalizeExpiryToWholeSecond
WholeSecond(t) == (t \div Second) * Second

\* A caller's clock reading, as the object finds it.
Readings == {n \in 0 .. now : n + MaxLag >= now}

Without(map, k) == [map EXCEPT ![k] = NoTicket]

Unexpired(map, n) == [k \in Kids |-> IF map[k].expiresAt <= n THEN NoTicket ELSE map[k]]

\* Slip: a marker is pruned one unit of time too early.
UnexpiredMarkersEarly(n) == [a \in Agents |-> IF revoked[a] <= n + 1 THEN 0 ELSE revoked[a]]

\* pruneExpiredRevokedAgents
UnexpiredMarkers(n) == [a \in Agents |-> IF revoked[a] <= n THEN 0 ELSE revoked[a]]

\* scheduleNextCodeCleanup: the alarm for what the three maps hold.
Expiries(t, c, r) ==
    {t[k].expiresAt : k \in {x \in Kids : t[x] # NoTicket}}
        \cup {c[k].expiresAt : k \in {x \in Kids : c[x] # NoTicket}}
        \cup {r[a] : a \in {x \in Agents : r[x] # 0}}

NextCleanup(t, c, r) ==
    LET times == Expiries(t, c, r) IN
    IF times = {} THEN NoTime ELSE Min(times)

\* Slip: the markers are forgotten when the alarm is set for the tickets.
SaveExpirableAlone(t, c) ==
    /\ tickets' = t
    /\ confirmed' = c
    /\ alarm' = NextCleanup(t, c, [a \in Agents |-> 0])

\* saveExpirableStateAndSchedule, with the markers as they are stored.
SaveExpirable(t, c) ==
    /\ tickets' = t
    /\ confirmed' = c
    /\ alarm' = NextCleanup(t, c, revoked)

\* saveRevokedAgentsAndSchedule, with the tickets as they are stored.
SaveRevoked(r) ==
    /\ revoked' = r
    /\ alarm' = NextCleanup(tickets, confirmed, r)

\* Slip: only one direction of the peer index is added.
AddPairOneWay(a, b) ==
    /\ pairs' = pairs \cup {{a, b}}
    /\ peers' = [peers EXCEPT ![a] = @ \cup {b}]

\* The pair and both directions of the peer index.
AddPair(a, b) ==
    /\ pairs' = pairs \cup {{a, b}}
    /\ peers' = [x \in Agents |->
            peers[x] \cup (IF x = a THEN {b} ELSE {}) \cup (IF x = b THEN {a} ELSE {})]

-----------------------------------------------------------------------------
(* Pairing tickets *)

\* handleCreatePairingTicket, for a ticket /pair/start has just signed.  The
\* expiry is cut to a whole second, and still lies in the caller's future.
CreateTicket(k, a, allow, n, ttl) ==
    LET expiresAt == WholeSecond(n + ttl) IN
    /\ k \notin issued
    /\ expiresAt > n
    /\ SaveExpirable(
          [tickets EXCEPT ![k] = [initiator |-> a, allow |-> allow,
                                  expiresAt |-> expiresAt, responder |-> Anyone]],
          Without(confirmed, k))
    /\ issued' = issued \cup {k}
    /\ UNCHANGED <<now, pairs, peers, revoked, call, marked, accepted>>

\* handleConfirmPairingTicket up to the signature check.  A ticket that was
\* confirmed (409) or is not stored (404) ends the call here.
ConfirmStart(p, k, b, n) ==
    /\ call[p] = NoCall
    /\ confirmed[k] = NoTicket
    /\ tickets[k] # NoTicket
    /\ call' = [call EXCEPT ![p] = [kid |-> k, responder |-> b, nowMs |-> n,
                                    tickets |-> tickets, confirmed |-> confirmed]]
    /\ UNCHANGED <<now, tickets, confirmed, pairs, peers, revoked, alarm,
                   issued, marked, accepted>>

\* The check fails, or the ticket names another responder: nothing is stored.
ConfirmRefused(p) ==
    LET c == call[p] IN
    /\ c # NoCall
    /\ call' = [call EXCEPT ![p] = NoCall]
    /\ UNCHANGED <<now, tickets, confirmed, pairs, peers, revoked, alarm,
                   issued, marked, accepted>>

\* The ticket had expired when the call was made: it is removed.
ConfirmExpired(p) ==
    LET c == call[p] IN
    /\ c # NoCall
    /\ c.tickets[c.kid].expiresAt <= c.nowMs
    /\ SaveExpirable(Without(c.tickets, c.kid), Without(c.confirmed, c.kid))
    /\ call' = [call EXCEPT ![p] = NoCall]
    /\ UNCHANGED <<now, pairs, peers, revoked, issued, marked, accepted>>

\* Slip: the pending entry of a confirmed ticket is left.
ConfirmAcceptedKeepsTicket(p) ==
    LET c == call[p]
        t == c.tickets[c.kid]
    IN  /\ c # NoCall
        /\ t.expiresAt > c.nowMs
        /\ t.allow \in {Anyone, c.responder}
        /\ AddPair(t.initiator, c.responder)
        /\ SaveExpirable(c.tickets, [c.confirmed EXCEPT ![c.kid] =
                                        [t EXCEPT !.responder = c.responder]])
        /\ accepted' = [accepted EXCEPT ![c.kid] = @ \cup {c.responder}]
        /\ call' = [call EXCEPT ![p] = NoCall]
        /\ UNCHANGED <<now, revoked, issued, marked>>

ConfirmAccepted(p) ==
    LET c == call[p]
        t == c.tickets[c.kid]
    IN  /\ c # NoCall
        /\ t.expiresAt > c.nowMs
        /\ t.allow \in {Anyone, c.responder}
        /\ AddPair(t.initiator, c.responder)
        /\ SaveExpirable(Without(c.tickets, c.kid),
                         [c.confirmed EXCEPT ![c.kid] =
                              [t EXCEPT !.responder = c.responder]])
        /\ accepted' = [accepted EXCEPT ![c.kid] = @ \cup {c.responder}]
        /\ call' = [call EXCEPT ![p] = NoCall]
        /\ UNCHANGED <<now, revoked, issued, marked>>

\* handleGetPairingTicketStatus of a ticket whose time is over: the entry goes.
\* (For any other ticket it changes nothing.)
StatusExpired(k, n) ==
    /\ \/ /\ tickets[k] # NoTicket /\ tickets[k].expiresAt <= n
          /\ SaveExpirable(Without(tickets, k), confirmed)
       \/ /\ tickets[k] = NoTicket
          /\ confirmed[k] # NoTicket /\ confirmed[k].expiresAt <= n
          /\ SaveExpirable(tickets, Without(confirmed, k))
    /\ UNCHANGED <<now, pairs, peers, revoked, call, issued, marked, accepted>>

-----------------------------------------------------------------------------
(* Pairs and revoked agents *)

UpsertPair(a, b) ==
    /\ AddPair(a, b)
    /\ UNCHANGED <<now, tickets, confirmed, revoked, alarm, call, issued, marked, accepted>>

MarkAgentRevoked(a) ==
    /\ SaveRevoked([UnexpiredMarkers(now) EXCEPT ![a] = now + MarkerTtl])
    /\ marked' = [marked EXCEPT ![a] = now + MarkerTtl]
    /\ UNCHANGED <<now, tickets, confirmed, pairs, peers, call, issued, accepted>>

\* handleIsAgentRevoked saves when it pruned a marker.
IsAgentRevoked ==
    /\ UnexpiredMarkers(now) # revoked
    /\ SaveRevoked(UnexpiredMarkers(now))
    /\ UNCHANGED <<now, tickets, confirmed, pairs, peers, call, issued, marked, accepted>>

\* runAlarmCleanup
Alarm ==
    /\ alarm # NoTime /\ alarm <= now
    /\ tickets' = Unexpired(tickets, now)
    /\ confirmed' = Unexpired(confirmed, now)
    /\ revoked' = UnexpiredMarkers(now)
    /\ alarm' = NextCleanup(tickets', confirmed', revoked')
    /\ UNCHANGED <<now, pairs, peers, call, issued, marked, accepted>>

-----------------------------------------------------------------------------
(* The environment *)

\* The object is destroyed: the calls that waited never go on.
Crash ==
    /\ call' = [p \in Confirms |-> NoCall]
    /\ UNCHANGED <<now, tickets, confirmed, pairs, peers, revoked, alarm,
                   issued, marked, accepted>>

Tick ==
    /\ now < MaxNow
    /\ now' = now + 1
    /\ UNCHANGED <<tickets, confirmed, pairs, peers, revoked, alarm, call,
                   issued, marked, accepted>>

Init ==
    /\ now = 0
    /\ tickets = [k \in Kids |-> NoTicket]
    /\ confirmed = [k \in Kids |-> NoTicket]
    /\ pairs = {}
    /\ peers = [a \in Agents |-> {}]
    /\ revoked = [a \in Agents |-> 0]
    /\ alarm = NoTime
    /\ call = [p \in Confirms |-> NoCall]
    /\ issued = {}
    /\ marked = [a \in Agents |-> 0]
    /\ accepted = [k \in Kids |-> {}]

Next ==
    \/ \E k \in Kids, a \in Agents, allow \in Agents \cup {Anyone},
          n \in Readings, ttl \in Ttls : CreateTicket(k, a, allow, n, ttl)
    \/ \E p \in Confirms :
          \/ \E k \in Kids, b \in Agents, n \in Readings : ConfirmStart(p, k, b, n)
          \/ ConfirmRefused(p) \/ ConfirmExpired(p) \/ ConfirmAccepted(p)
    \/ \E k \in Kids, n \in Readings : StatusExpired(k, n)
    \/ \E a, b \in Agents : UpsertPair(a, b)
    \/ \E a \in Agents : MarkAgentRevoked(a)
    \/ IsAgentRevoked \/ Alarm \/ Crash \/ Tick

Spec == Init /\ [][Next]_vars

-----------------------------------------------------------------------------
(* Properties *)

TypeOK ==
    /\ now \in Nat
    /\ tickets \in TicketMap
    /\ confirmed \in TicketMap
    /\ pairs \subseteq SUBSET Agents
    /\ peers \in [Agents -> SUBSET Agents]
    /\ revoked \in [Agents -> Nat]
    /\ alarm \in Nat \cup {NoTime}
    /\ call \in [Confirms -> ConfirmCall \cup {NoCall}]
    /\ issued \subseteq Kids
    /\ marked \in [Agents -> Nat]
    /\ accepted \in [Kids -> SUBSET Agents]

\* Whatever is stored with an expiry is swept in time: the alarm is set, and not
\* later than the earliest of them, also when a confirm that waited has saved
\* tickets it loaded long before.
CleanupArmed ==
    \A t \in Expiries(tickets, confirmed, revoked) : alarm # NoTime /\ alarm <= t

\* An agent that was marked as revoked is reported as revoked until the marker's
\* lifetime is over: no sweep, check, ticket save or later marker ends it early.
RevocationHolds == \A a \in Agents : marked[a] > now => revoked[a] > now

\* The two views of trust agree: agents are peers exactly if their pair is
\* allowed, so a known agent has someone it may talk to.
PeersMatchPairs == \A a, b \in Agents : b \in peers[a] <=> {a, b} \in pairs

\* No ticket is stored as pending and as confirmed at once, although the two
\* maps are separate keys, and saved from copies of different ages: a status
\* query would answer "pending" for a ticket whose pair exists.
PendingOrConfirmed ==
    \A k \in Kids : tickets[k] = NoTicket \/ confirmed[k] = NoTicket

\* What is kept under separate keys never contradicts itself, whatever handlers
\* save their copies in whatever order: PeersMatchPairs and PendingOrConfirmed.
StoresAgree == PeersMatchPairs /\ PendingOrConfirmed

\* A ticket pairs its initiator with one responder: once it has been confirmed,
\* no other confirm of it succeeds.
ConfirmedOnce == \A k \in Kids : Cardinality(accepted[k]) <= 1
=============================================================================
