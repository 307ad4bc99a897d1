------------------------------- MODULE MCProxy ------------------------------
(***************************************************************************)
(* Small instances, one kind of trouble at a time (the "scene"): copies of *)
(* one request, and a second one, that overlap in the middleware over a    *)
(* long time; the routes of a worker with its queue, with keys rotated and *)
(* agents revoked; and the pairing routes of a proxy on Node, where the    *)
(* requests overlap in their routes.                                       *)
(***************************************************************************)
EXTENDS Proxy

CONSTANTS
    Scenes,                  \* the scenes that are played
    a1, a2, n1, n2, n3, n4, n5, k1, k2, t1, t2

VARIABLE scene

mcVars == <<scene, proxyVars>>

Sent(path, a, n, ts, key, to) ==
    [path |-> path, agent |-> a, nonce |-> n, ts |-> ts, key |-> key, to |-> to, group |-> FALSE]

\* What the clients of each scene send.
Clients ==
    [copies |-> {Sent("hook", a1, n1, 0, k1, a2), Sent("hook", a1, n2, 0, k1, a2)},
     routes |-> {Sent("hook", a1, n1, 0, k2, a2), Sent("receipt", a2, n2, 0, k1, a1),
                 Sent("confirm", a2, n1, 0, k1, a1), Sent("connect", a1, n2, 0, k1, a1),
                 Sent("start", a1, n3, 0, k1, Anyone)},
     queue |-> {},
     tickets |-> {Sent("start", a1, n1, 0, k1, a2), Sent("start", a1, n2, 0, k1, Anyone),
                  Sent("confirm", a2, n3, 0, k1, a1), Sent("confirm", a2, n4, 0, k1, a1),
                  Sent("status", a1, n5, 0, k1, a1)}]

SignedRequests == UNION {Clients[c] : c \in DOMAIN Clients}

Limits ==
    [copies |-> [now |-> 5, arrivals |-> 3, inAuth |-> 2, events |-> 0, faults |-> 0],
     routes |-> [now |-> 0, arrivals |-> 2, inAuth |-> 1, events |-> 1, faults |-> 1],
     queue |-> [now |-> 1, arrivals |-> 0, inAuth |-> 0, events |-> 2, faults |-> 2],
     tickets |-> [now |-> 2, arrivals |-> 5, inAuth |-> 1, events |-> 0, faults |-> 0]]

MCEvents ==
    {[type |-> "revoked", about |-> a1, to |-> a1], [type |-> "joined", about |-> a2, to |-> a1],
     [type |-> "accepted", about |-> a2, to |-> a1], [type |-> "receipt", about |-> a2, to |-> a1]}

\* Requests that have not reached their routes.
AuthStages == {"fetch", "fetched", "token", "nonce", "revoked", "crl", "known", "session"}

MCInit ==
    /\ ProxyInit
    /\ scene \in Scenes
    /\ published = {k1}
    /\ backend = IF scene = "tickets" THEN "memory" ELSE "durable"

\* A step that reads and changes nothing but its own request is taken at once.
LocalStages == {"crl", "relay", "connect", "lookup", "start"} \cup
    CASE scene = "copies" -> {"revoked", "known", "hook"}
      [] scene = "tickets" -> AuthStages
      [] OTHER -> {}

LocalFirst == \A s \in Slots : slot[s].stage \in LocalStages => slot'[s] # slot[s]

\* Slots are alike: a request takes the first one that is free.
FirstSlot == \A s \in Slots : slot[s] = Free /\ slot'[s] # Free =>
                 \A t \in Slots : slot[t] = Free => s <= t

\* The second request to start or to confirm comes after the first.
InOrder(n) ==
    \A r \in Clients["tickets"] :
        <<r.nonce, n>> \in {<<n1, n2>>, <<n3, n4>>} => taken[r].times > 0

\* The bounds of a scene.  In the pairing scene every request is sent once, and
\* the middleware lets it through without a pause.
Within ==
    /\ now' <= Limits[scene].now
    /\ now' # now => \A s \in Slots : slot[s].stage \notin AuthStages \ {"nonce"}
    /\ arrivals' <= Limits[scene].arrivals
    /\ Cardinality({s \in Slots : slot'[s].stage \in AuthStages}) <= Limits[scene].inAuth
    /\ \A s \in Slots : slot'[s] # Free => slot'[s].request \in Clients[scene]
    /\ announced' \subseteq MCEvents /\ Cardinality(announced') <= Limits[scene].events
    /\ faults' <= Limits[scene].faults
    /\ scene # "routes" => published' = published
    /\ pairs' \subseteq {{a1, a2}}
    /\ scene # "tickets" /\ arrivals' > 0 => pairs' = {{a1, a2}}
    /\ scene = "tickets" =>
          /\ pairs' # pairs => confirmed' # confirmed
          /\ \A s \in Slots :
                /\ slot[s].stage \in AuthStages => slot'[s] # Free
                /\ slot'[s].stage = "nonce" => taken[slot'[s].request].times = 0
                /\ slot'[s].stage = "fetch" \/ slot'[s].stage = "token" =>
                      InOrder(slot'[s].request.nonce)

MCNext == ProxyNext /\ UNCHANGED scene /\ Within /\ LocalFirst /\ FirstSlot

MCSpec == MCInit /\ [][MCNext]_mcVars /\ WF_mcVars(ConsumerNext /\ UNCHANGED scene)
=============================================================================
