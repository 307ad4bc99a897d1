----------------------------- MODULE ProxyTrust -----------------------------
(***************************************************************************)
(* createInMemoryProxyTrustStore (apps/proxy/src/proxy-trust-store.ts): the *)
(* trust store of a proxy on Node, in the memory of the process that also   *)
(* holds the nonce cache.  It keeps no alarm: most calls sweep what has     *)
(* expired by their own reading of the clock.  Every call runs without      *)
(* waiting, but a confirm waits for the signature check between the ticket  *)
(* it read and the maps it changes.                                         *)
(***************************************************************************)
EXTENDS NonceCache, FiniteSets

CONSTANTS
    Kids,         \* ticket ids: every /pair/start makes a new one
    Anyone,       \* allowResponderAgentDid is undefined
    Second,       \* the clock's units per second
    MarkerTtl     \* REVOKED_AGENT_MARKER_TTL_MS

ASSUME ProxyTrustAssumption ==
    /\ Anyone \notin Agents
    /\ Second \in Nat \ {0}
    /\ MarkerTtl \in Nat \ {0}

VARIABLES
    tickets,      \* pairingTickets, NoTicket where there is no entry
    confirmed,    \* confirmedPairingTickets
    pairs,        \* pairKeys, as sets of agents; agentPeers changes with it
    markers,      \* revokedAgents: expiresAtMs; 0: none
    issued,       \* history: the tickets made so far, as they were stored
    accepted      \* history: the responders whose confirm of a ticket succeeded

trustVars == <<tickets, confirmed, pairs, markers, issued, accepted>>

NoTicket == [initiator |-> Anyone, allow |-> Anyone, expiresAt |-> 0, responder |-> Anyone]

\* A lookup that spares no entry from the sweep.
NoKid == "none"

WholeSecond(t) == (t \div Second) * Second

\* cleanup(nowMs, skipTicketKid)
Kept(map, n, skip) ==
    [k \in Kids |-> IF k # skip /\ map[k].expiresAt <= n THEN NoTicket ELSE map[k]]

KeptMarkers(n) == [a \in Agents |-> IF markers[a] <= n THEN 0 ELSE markers[a]]

\* The sweep, with the maps changed after it.
Cleanup(n, skip, Pending(_), Confirmed(_), Revoked(_)) ==
    /\ tickets' = Pending(Kept(tickets, n, skip))
    /\ confirmed' = Confirmed(Kept(confirmed, n, skip))
    /\ markers' = Revoked(KeptMarkers(n))

Same(map) == map

\* createPairingTicket, for a ticket just signed under a new id.
CreatePairingTicket(k, a, allow, n, ttl) ==
    LET t == [initiator |-> a, allow |-> allow,
              expiresAt |-> WholeSecond(n + ttl), responder |-> Anyone]
        Put(map) == [map EXCEPT ![k] = t]
        Drop(map) == [map EXCEPT ![k] = NoTicket]
    IN  /\ issued[k] = NoTicket
        /\ Cleanup(n, NoKid, Put, Drop, Same)
        /\ issued' = [issued EXCEPT ![k] = t]
        /\ UNCHANGED <<pairs, accepted>>

\* resolveConfirmablePairingTicket up to the signature check: the sweep spares
\* the ticket, and the call goes on only with one that is pending.
LookUpPending(k, n) ==
    /\ Cleanup(n, k, Same, Same, Same)
    /\ UNCHANGED <<pairs, issued, accepted>>

Confirmable(k) == confirmed[k] = NoTicket /\ tickets[k] # NoTicket

\* The rest of it when the ticket t had expired: the entry is removed.
DropExpiredTicket(k) ==
    /\ tickets' = [tickets EXCEPT ![k] = NoTicket]
    /\ UNCHANGED <<confirmed, pairs, markers, issued, accepted>>

\* Slip: the maps are written back as they were read before the check.
ConfirmTicketStale(k, t, b, seen) ==
    /\ pairs' = pairs \cup {{t.initiator, b}}
    /\ tickets' = [seen.tickets EXCEPT ![k] = NoTicket]
    /\ confirmed' = [seen.confirmed EXCEPT ![k] = [t EXCEPT !.responder = b]]
    /\ accepted' = [accepted EXCEPT ![k] = @ \cup {b}]
    /\ UNCHANGED <<markers, issued>>

\* confirmPairingTicket after the check: the pair, and the ticket's new place,
\* in the maps as they are now (`seen' are the maps the call read from).
ConfirmTicket(k, t, b, seen) ==
    /\ pairs' = pairs \cup {{t.initiator, b}}
    /\ tickets' = [tickets EXCEPT ![k] = NoTicket]
    /\ confirmed' = [confirmed EXCEPT ![k] = [t EXCEPT !.responder = b]]
    /\ accepted' = [accepted EXCEPT ![k] = @ \cup {b}]
    /\ UNCHANGED <<markers, issued>>

\* getPairingTicketStatus: the sweep, and the ticket itself if it has expired.
GetPairingTicketStatus(k, n) ==
    LET DropPending(map) == IF map[k].expiresAt <= n THEN [map EXCEPT ![k] = NoTicket]
                            ELSE map
        DropConfirmed(map) == IF tickets[k] = NoTicket THEN DropPending(map) ELSE map
    IN  /\ Cleanup(n, k, DropPending, DropConfirmed, Same)
        /\ UNCHANGED <<pairs, issued, accepted>>

MarkAgentRevoked(a) ==
    LET Mark(map) == [map EXCEPT ![a] = now + MarkerTtl]
    IN  /\ Cleanup(now, NoKid, Same, Same, Mark)
        /\ UNCHANGED <<pairs, issued, accepted>>

\* isAgentRevoked: the answer, and the sweep before it.
IsAgentRevoked(a) == markers[a] > now

SweepForCheck ==
    /\ Cleanup(now, NoKid, Same, Same, Same)
    /\ UNCHANGED <<pairs, issued, accepted>>

IsAgentKnown(a) == \E p \in pairs : a \in p

IsPairAllowed(a, b) == a = b \/ {a, b} \in pairs

UpsertPair(a, b) ==
    /\ pairs' = pairs \cup {{a, b}}
    /\ UNCHANGED <<tickets, confirmed, markers, issued, accepted>>

TrustInit ==
    /\ tickets = [k \in Kids |-> NoTicket]
    /\ confirmed = [k \in Kids |-> NoTicket]
    /\ pairs = {}
    /\ markers = [a \in Agents |-> 0]
    /\ issued = [k \in Kids |-> NoTicket]
    /\ accepted = [k \in Kids |-> {}]

-----------------------------------------------------------------------------
(* Properties *)

\* A ticket that was confirmed is reported as confirmed until it expires, with
\* a responder whose confirm succeeded: calls that overlap with a confirm's
\* signature check neither bring its pending entry back nor lose the other.
ConfirmedStands ==
    \A k \in Kids : accepted[k] # {} /\ issued[k].expiresAt > now =>
        tickets[k] = NoTicket /\ confirmed[k].responder \in accepted[k]
=============================================================================
