---------------------------- MODULE RelaySession ----------------------------
(***************************************************************************)
(* The AgentRelaySession durable object of the proxy: one agent's relay    *)
(* mailbox (apps/proxy/src/agent-relay-session).                            *)
(*                                                                         *)
(* The object keeps ONE durable value, the queue state (deliveries waiting  *)
(* for the agent's connector, and delivery receipts), and one durable       *)
(* alarm.  Everything else (pending acknowledgements, the socket tracker)   *)
(* is memory.  The runtime's input gate makes a handler atomic between its  *)
(* storage calls; the one place where other events get in is               *)
(*        await sendDeliverFrame(...)                                       *)
(* which waits for the connector's deliver_ack, a timeout, or the loss of   *)
(* the socket.  A handler that reaches that await is a coroutine: it holds  *)
(* a private copy of the queue state it loaded, the clock value it read,    *)
(* and saves that copy when it is resumed.  Three handlers can wait there:  *)
(* deliverToConnector, alarm and drainQueueOnReconnect.                     *)
(*                                                                         *)
(* A coroutine in phase "run" has been resumed (or has not yet waited) and  *)
(* its steps come before any further event, so every event requires Quiet.  *)
(***************************************************************************)
EXTENDS Integers, FiniteSetsExt

CONSTANTS
    Inbound,             \* request ids of messages for this agent (deliver RPC)
    Outbound,            \* request ids this agent sent (receipt RPC); may overlap
    GroupRequests,       \* the requests that carry a groupId
    Routes,              \* (senderAgentDid, recipientAgentDid) pairs
    Sockets,             \* web sockets the connector may open
    Procs,               \* coroutine slots: at most MaxInFlight wait, one runs
    MaxInFlight,         \* deliveryPolicy.maxInFlightDeliveries
    QueueMax,            \* deliveryPolicy.queueMaxMessagesPerAgent
    QueueTtl,            \* deliveryPolicy.queueTtlMs
    RetryInitial,        \* deliveryPolicy.retryInitialMs
    RetryMax,            \* deliveryPolicy.retryMaxMs
    RetryMaxAttempts,    \* deliveryPolicy.retryMaxAttempts
    JitterPercent,       \* deliveryPolicy.retryJitterRatio, in percent
    HeartbeatInterval,   \* RELAY_HEARTBEAT_INTERVAL_MS
    HeartbeatAckTimeout, \* RELAY_HEARTBEAT_ACK_TIMEOUT_MS
    MaxDeliveries,       \* bound: delivery ids generated
    SubmitUntil,         \* bound: no deliver or receipt RPC arrives after this time
    MaxNow               \* bound: the clock's horizon

\* The configuration schema (apps/proxy/src/config/schema.ts) admits only
\* positive integers here, and a ratio between 0 and 1.
ASSUME PolicyAssumption ==
    /\ MaxInFlight \in Nat \ {0}
    /\ QueueMax \in Nat \ {0}
    /\ QueueTtl \in Nat \ {0}
    /\ RetryInitial \in Nat \ {0}
    /\ RetryMax \in Nat \ {0}
    /\ RetryInitial <= RetryMax
    /\ RetryMaxAttempts \in Nat \ {0}
    /\ JitterPercent \in 0..100
    /\ HeartbeatInterval \in Nat \ {0}
    /\ HeartbeatAckTimeout \in Nat \ {0}

ASSUME BoundAssumption ==
    /\ GroupRequests \subseteq Inbound
    /\ IsFiniteSet(Procs)
    /\ MaxDeliveries \in Nat
    /\ SubmitUntil \in Nat
    /\ MaxNow \in Nat

VARIABLES
    now,          \* the wall clock read by nowUtcMs()
    store,        \* durable: the stored RelayQueueState
    alarm,        \* durable: the alarm's time, or NoTime
    sock,         \* the sockets state.getWebSockets() lists, and their state
    lastAck,      \* memory: socketTracker.socketLastAckAtMs
    pendingClose, \* memory: socketTracker.socketsPendingClose
    proc,         \* memory: the coroutines
    nextId,       \* the next delivery id generateUlid returns
    told,         \* history: what the caller of a delivery was answered
    fate          \* history: why a queued delivery left the queue

vars == <<now, store, alarm, sock, lastAck, pendingClose, proc, nextId, told, fate>>
durable == <<store, alarm>>
tracker == <<sock, lastAck, pendingClose>>
history == <<told, fate>>

NoTime == -1

NoReceipt == [state |-> "absent"]

None == "none"

Requests == Inbound \cup Outbound

-----------------------------------------------------------------------------
(* Data *)

Ids == 1 .. MaxDeliveries

\* QueuedRelayDelivery; `group' says whether the entry carries the groupId.
Delivery == [id : Ids, req : Requests, route : Routes, group : BOOLEAN,
             createdAt : Nat, attempts : Nat, expiresAt : Nat, nextAttempt : Nat]

TerminalStates == {"delivered_to_webhook", "dead_lettered"}

\* RelayDeliveryReceipt.  Id 0 is the fresh id of a receipt that
\* recordDeliveryReceipt creates for a request without one: it names no delivery.
Receipt == [state : {"queued", "delivered"} \cup TerminalStates,
            id : Ids \cup {0}, route : Routes, expiresAt : Nat]

\* RelayQueueState
QueueState == [deliveries : SUBSET Delivery,
               receipts : [Requests -> Receipt \cup {NoReceipt}]]

EmptyQueue == [deliveries |-> {}, receipts |-> [r \in Requests |-> NoReceipt]]

-----------------------------------------------------------------------------
(* Operations on a queue state *)

\* deleteQueuedReceipt: the receipt goes only if it is this delivery's and
\* still says "queued".
DeleteQueuedReceipt(receipts, r, id) ==
    [x \in Requests |->
        IF /\ x = r
           /\ receipts[x] # NoReceipt
           /\ receipts[x].id = id
           /\ receipts[x].state = "queued"
        THEN NoReceipt ELSE receipts[x]]

UpsertReceipt(q, r, receipt) ==
    [q EXCEPT !.receipts = [@ EXCEPT ![r] = receipt]]

\* Slip: the receipt of a dropped delivery is left behind.
DropDeliveryOnly(q, d) == [q EXCEPT !.deliveries = @ \ {d}]

\* A delivery leaves the queue unaccepted, with its queued receipt.
DropDelivery(q, d) ==
    [deliveries |-> q.deliveries \ {d},
     receipts |-> DeleteQueuedReceipt(q.receipts, d.req, d.id)]

ReplaceDelivery(q, old, new) ==
    [q EXCEPT !.deliveries = (@ \ {old}) \cup {new}]

\* pruneExpiredQueueState: expired deliveries with their queued receipts, then
\* expired receipts.
PruneExpired(q, n) ==
    LET live == {d \in q.deliveries : d.expiresAt > n}
        orphaned(r) == /\ q.receipts[r].state = "queued"
                       /\ \E d \in q.deliveries \ live :
                             d.req = r /\ d.id = q.receipts[r].id
    IN  [deliveries |-> live,
         receipts |-> [r \in Requests |->
            IF /\ q.receipts[r] # NoReceipt
               /\ orphaned(r) \/ q.receipts[r].expiresAt <= n
            THEN NoReceipt ELSE q.receipts[r]]]

\* computeRetryDelayMs: exponential, capped, and drawn within the jitter span.
RetryDelays(priorAttempts) ==
    LET exponent == IF priorAttempts > 1 THEN priorAttempts - 1 ELSE 0
        uncapped == RetryInitial * 2 ^ exponent
        base     == IF uncapped < RetryMax THEN uncapped ELSE RetryMax
        span     == (base * JitterPercent + 99) \div 100
    IN  {d \in 1 .. RetryMax :
            \/ JitterPercent = 0 /\ d = base
            \/ JitterPercent > 0 /\ base - span <= d /\ d < base + span}

DelayDraws(D) ==
    {f \in [D -> 1 .. RetryMax] : \A d \in D : f[d] \in RetryDelays(d.attempts)}

\* The entries of D that are due at n are postponed by the delay drawn for each.
Postpone(D, n, delay) ==
    {IF d.nextAttempt <= n THEN [d EXCEPT !.nextAttempt = n + delay[d]] ELSE d :
        d \in D}

Due(D, n) == {d \in D : d.nextAttempt <= n}

\* The order of queueState.deliveries.sort: earliest attempt, then oldest.
Before(d, e) ==
    \/ d.nextAttempt < e.nextAttempt
    \/ d.nextAttempt = e.nextAttempt /\ d.createdAt <= e.createdAt

\* scheduleNextRelayAlarm with findNextQueueWakeMs.
WakeTimes(q, n, hasActiveSockets) ==
    {IF d.nextAttempt > n + 1 THEN d.nextAttempt ELSE n + 1 : d \in q.deliveries}
        \cup (IF hasActiveSockets THEN {n + HeartbeatInterval} ELSE {})

\* Slip: the queue is forgotten when no socket is active.
NextAlarmHeartbeatOnly(q, n, hasActiveSockets) ==
    IF hasActiveSockets THEN Min(WakeTimes(q, n, TRUE)) ELSE NoTime

NextAlarm(q, n, hasActiveSockets) ==
    LET times == WakeTimes(q, n, hasActiveSockets)
    IN  IF times = {} THEN NoTime ELSE Min(times)

-----------------------------------------------------------------------------
(* Socket tracker *)

Listed == {s \in Sockets : sock[s] # "none"}

\* Sockets getActiveSockets(n) finds past their heartbeat deadline, and closes.
Stale(n) == {s \in Listed \ pendingClose :
                lastAck[s] # NoTime /\ n - lastAck[s] > HeartbeatAckTimeout}

Active(n) == (Listed \ pendingClose) \ Stale(n)

\* The tracker and the sockets after pruneSocketTracking, closeSocket of the
\* sockets in `close' and touchSocketAck of those in `touched'; a listed socket
\* without a time (its object was hibernated) is given the time n.
TrackerAfter(n, close, touched) ==
    /\ pendingClose' = (pendingClose \cap Listed) \cup close
    /\ sock' = [s \in Sockets |-> IF s \in close THEN "closing" ELSE sock[s]]
    /\ lastAck' = [s \in Sockets |->
            IF s \notin Listed \/ s \in pendingClose \cup close THEN NoTime
            ELSE IF s \in touched \/ lastAck[s] = NoTime THEN n
            ELSE lastAck[s]]

\* getActiveSockets(n) and nothing else.
Sweep(n) == TrackerAfter(n, Stale(n), {})

-----------------------------------------------------------------------------
(* Coroutines *)

Idle == [kind |-> "idle", phase |-> "idle", outcome |-> None, n |-> 0,
         q |-> EmptyQueue, todo |-> {}, cur |-> {}, sock |-> None,
         mutated |-> FALSE, id |-> 0, req |-> None, route |-> None,
         attempts |-> 0, group |-> FALSE]

Quiet == \A p \in Procs : proc[p].phase # "run"

Waiting == {p \in Procs : proc[p].phase = "await"}

\* deliveryTransport.getPendingCount()
PendingCount == Cardinality(Waiting)

\* The outcomes of sendDeliverFrame at the moment of the call: the frame is on
\* an open socket and the coroutine waits, or the call throws (the frame is
\* larger than maxFrameBytes, or the socket is no longer open).
SendDeliverFrame(p, s, next, group) ==
    \/ /\ sock[s] = "open"
       /\ proc' = [proc EXCEPT ![p] = [next EXCEPT !.phase = "await",
                                            !.sock = s, !.group = group]]
    \/ proc' = [proc EXCEPT ![p] = [next EXCEPT !.outcome = "error"]]

\* saveQueueState, then scheduleNextAlarm with the coroutine's own clock value.
SaveAndSchedule(q, n) ==
    /\ store' = q
    /\ alarm' = NextAlarm(q, n, Active(n) # {})
    /\ Sweep(n)

-----------------------------------------------------------------------------
(* The start of a handler *)

\* Slip: the window check is off by one.
DeliverWideWindow(p, r, route) ==
    LET q     == PruneExpired(store, now)
        known == q.receipts[r] # NoReceipt /\ q.receipts[r].route = route
        start == [Idle EXCEPT !.kind = "deliver", !.phase = "run", !.n = now,
                              !.q = q, !.id = nextId, !.req = r, !.route = route]
    IN  /\ Quiet
        /\ now <= SubmitUntil /\ nextId <= MaxDeliveries
        /\ proc[p] = Idle /\ ~known
        /\ store' = q
        /\ Sweep(now)
        /\ nextId' = nextId + 1
        /\ PendingCount <= MaxInFlight
        /\ \E s \in Active(now) :
              SendDeliverFrame(p, s, [start EXCEPT !.attempts = 1], FALSE)
        /\ UNCHANGED <<now, alarm, history>>

\* Slip: an earlier receipt of the request is not looked up.
DeliverAgain(p, r, route) ==
    LET q == PruneExpired(store, now) IN
    /\ Quiet
    /\ now <= SubmitUntil /\ nextId <= MaxDeliveries
    /\ proc[p] = Idle
    /\ store' = q
    /\ Sweep(now)
    /\ nextId' = nextId + 1
    /\ proc' = [proc EXCEPT ![p] = [Idle EXCEPT !.kind = "deliver", !.phase = "run",
                    !.n = now, !.q = q, !.id = nextId, !.req = r, !.route = route,
                    !.outcome = "refused"]]
    /\ UNCHANGED <<now, alarm, history>>

\* deliverToConnector up to its first wait: the receipt of an earlier call
\* answers this one; else the frame is sent when a socket is active and the
\* window is open; else (outcome "refused" after no attempt) it is queued.
Deliver(p, r, route) ==
    LET q     == PruneExpired(store, now)
        known == q.receipts[r] # NoReceipt /\ q.receipts[r].route = route
        start == [Idle EXCEPT !.kind = "deliver", !.phase = "run", !.n = now,
                              !.q = q, !.id = nextId, !.req = r, !.route = route]
    IN  /\ Quiet
        /\ now <= SubmitUntil
        /\ proc[p] = Idle
        /\ store' = q
        /\ Sweep(now)
        /\ \/ known /\ UNCHANGED <<proc, nextId>>
           \/ /\ ~known
              /\ nextId <= MaxDeliveries
              /\ nextId' = nextId + 1
              /\ \/ /\ Active(now) # {} /\ PendingCount < MaxInFlight
                    /\ \E s \in Active(now) :
                          SendDeliverFrame(p, s, [start EXCEPT !.attempts = 1],
                                           r \in GroupRequests)
                 \/ /\ Active(now) = {} \/ PendingCount >= MaxInFlight
                    /\ proc' = [proc EXCEPT ![p] = [start EXCEPT !.outcome = "refused"]]
        /\ UNCHANGED <<now, alarm, history>>

\* processQueueDeliveries before its loop, as coroutine `start' enters it with
\* the loaded queue q and the active sockets `act': without a socket the due
\* entries are postponed and the loop is skipped.
EnterLoop(p, start, q, act, mutated) ==
    \/ /\ q.deliveries = {} \/ act # {}
       /\ \E s \in (IF act = {} THEN {None} ELSE act) :
             proc' = [proc EXCEPT ![p] = [start EXCEPT !.q = q, !.todo = q.deliveries,
                                               !.sock = s, !.mutated = mutated]]
    \/ /\ q.deliveries # {} /\ act = {}
       /\ \E delay \in DelayDraws(q.deliveries) :
             proc' = [proc EXCEPT ![p] = [start EXCEPT
                        !.q = [q EXCEPT !.deliveries = Postpone(@, start.n, delay)],
                        !.mutated = mutated \/ Due(q.deliveries, start.n) # {}]]

LoopStart(kind) == [Idle EXCEPT !.kind = kind, !.phase = "run", !.n = now]

\* alarm: heartbeats go out first, and a socket that cannot take one is closed.
Alarm(p) ==
    LET q     == PruneExpired(store, now)
        dead  == {s \in Active(now) : sock[s] # "open"}
    IN  /\ Quiet
        /\ proc[p] = Idle
        /\ alarm # NoTime /\ alarm <= now
        /\ \A o \in Procs : proc[o].kind # "alarm"
        /\ alarm' = NoTime
        /\ store' = q
        /\ TrackerAfter(now, Stale(now) \cup dead, {})
        /\ EnterLoop(p, LoopStart("alarm"), q, Active(now) \ dead, FALSE)
        /\ UNCHANGED <<now, nextId, history>>

\* Slip: the sockets that are still active are not superseded.
ConnectBeside(p, s) ==
    LET loaded == PruneExpired(store, now) IN
    /\ Quiet
    /\ proc[p] = Idle
    /\ sock[s] = "none" /\ \A o \in Procs : proc[o].sock # s
    /\ store' = loaded
    /\ pendingClose' = pendingClose \cap Listed
    /\ sock' = [sock EXCEPT ![s] = "open"]
    /\ lastAck' = [lastAck EXCEPT ![s] = now]
    /\ EnterLoop(p, LoopStart("drain"), loaded, {s}, FALSE)
    /\ UNCHANGED <<now, alarm, nextId, history>>

\* handleConnect: the active sockets are superseded, the new one is accepted,
\* and drainQueueOnReconnect starts with every entry made due.  (The receipts
\* drained beside it are frames only.)
Connect(p, s) ==
    LET loaded == PruneExpired(store, now)
        q == [loaded EXCEPT !.deliveries =
                {IF d.nextAttempt > now THEN [d EXCEPT !.nextAttempt = now] ELSE d : d \in @}]
        close == Stale(now) \cup Active(now)
    IN  /\ Quiet
        /\ proc[p] = Idle
        /\ sock[s] = "none" /\ \A o \in Procs : proc[o].sock # s
        /\ store' = loaded
        /\ pendingClose' = (pendingClose \cap Listed) \cup close
        /\ sock' = [x \in Sockets |-> IF x = s THEN "open"
                                      ELSE IF x \in close THEN "closing" ELSE sock[x]]
        /\ lastAck' = [x \in Sockets |-> IF x = s THEN now ELSE NoTime]
        /\ EnterLoop(p, LoopStart("drain"), q, {s}, q # loaded)
        /\ UNCHANGED <<now, alarm, nextId, history>>

\* recordDeliveryReceipt: a receipt of another sender or recipient is left alone.
RecordReceipt(r, route, status) ==
    LET q   == PruneExpired(store, now)
        rec == q.receipts[r]
        id  == IF rec = NoReceipt THEN 0 ELSE rec.id
        foreign == rec # NoReceipt /\ rec.route # route
    IN  /\ Quiet
        /\ now <= SubmitUntil
        /\ \/ /\ foreign
              /\ store' = q
              /\ UNCHANGED <<alarm, tracker>>
           \/ /\ ~foreign
              /\ SaveAndSchedule(
                    UpsertReceipt(q, r, [state |-> status, id |-> id, route |-> route,
                                         expiresAt |-> now + QueueTtl]), now)
        /\ UNCHANGED <<now, proc, nextId, history>>

\* getDeliveryReceipt only loads, but a load saves what it pruned.
GetReceipt ==
    /\ Quiet
    /\ store' = PruneExpired(store, now)
    /\ UNCHANGED <<now, alarm, tracker, proc, nextId, history>>

-----------------------------------------------------------------------------
(* The loop of processQueueDeliveries, for the alarm and the drain *)

InLoop(p, outcome) == /\ proc[p].kind \in {"alarm", "drain"}
                      /\ proc[p].phase = "run"
                      /\ proc[p].outcome = outcome

\* The entry at queueState.deliveries[index]: todo holds the rest of the array.
NextEntry(p) == {d \in proc[p].todo : \A e \in proc[p].todo : Before(d, e)}

WindowFull == PendingCount >= MaxInFlight

MustDrop(d, n) == d.expiresAt <= n \/ d.attempts >= RetryMaxAttempts

\* An entry past its expiry or its attempts is dropped; one that is not due is
\* passed over.
LoopSkip(p, d) ==
    LET c == proc[p] IN
    /\ InLoop(p, None) /\ d \in NextEntry(p) /\ ~WindowFull
    /\ MustDrop(d, c.n) \/ d.nextAttempt > c.n
    /\ proc' = [proc EXCEPT ![p] = [c EXCEPT
                    !.todo = @ \ {d},
                    !.q = IF MustDrop(d, c.n) THEN DropDelivery(@, d) ELSE @,
                    !.mutated = @ \/ MustDrop(d, c.n)]]
    /\ UNCHANGED <<now, durable, tracker, nextId, history>>

LoopSend(p, d) ==
    LET c == proc[p] IN
    /\ InLoop(p, None) /\ d \in NextEntry(p) /\ ~WindowFull
    /\ ~MustDrop(d, c.n) /\ d.nextAttempt <= c.n
    /\ SendDeliverFrame(p, c.sock,
            [c EXCEPT !.todo = @ \ {d}, !.cur = {d}, !.req = d.req], d.group)
    /\ UNCHANGED <<now, durable, tracker, nextId, history>>

\* The loop has dealt with the entry in flight and goes on with queue q.
Continue(c, q, todo) ==
    [c EXCEPT !.q = q, !.todo = todo, !.mutated = TRUE, !.outcome = None, !.cur = {}]

\* The frame was accepted: the entry leaves the queue and its receipt says so.
LoopAccepted(p, d) ==
    LET c == proc[p] IN
    /\ InLoop(p, "accepted") /\ d \in c.cur
    /\ proc' = [proc EXCEPT ![p] = Continue(c,
            UpsertReceipt([c.q EXCEPT !.deliveries = @ \ {d}], d.req,
                    [state |-> "delivered", id |-> d.id, route |-> d.route,
                     expiresAt |-> c.n + QueueTtl]),
            c.todo)]
    /\ fate' = [fate EXCEPT ![d.id] = "delivered"]
    /\ UNCHANGED <<now, durable, tracker, nextId, told>>

\* The last attempt failed: the entry is dropped and the loop goes on.
LoopExhausted(p, d) ==
    LET c == proc[p] IN
    /\ InLoop(p, "refused") \/ InLoop(p, "error")
    /\ d \in c.cur
    /\ d.attempts + 1 >= RetryMaxAttempts
    /\ proc' = [proc EXCEPT ![p] = Continue(c, DropDelivery(c.q, d), c.todo)]
    /\ fate' = [fate EXCEPT ![d.id] = "exhausted"]
    /\ UNCHANGED <<now, durable, tracker, nextId, told>>

\* Slip: one attempt too many is stored.
LoopRetryOnceMore(p, d) ==
    LET c == proc[p] IN
    /\ InLoop(p, "refused") \/ InLoop(p, "error")
    /\ d \in c.cur
    /\ d.attempts + 1 <= RetryMaxAttempts
    /\ \E wait \in RetryDelays(d.attempts + 1) :
         proc' = [proc EXCEPT ![p] = Continue(c,
            ReplaceDelivery(c.q, d, [d EXCEPT !.attempts = @ + 1,
                                              !.nextAttempt = c.n + wait]), c.todo)]
    /\ UNCHANGED <<now, durable, tracker, nextId, history>>

\* An earlier attempt failed: the entry is rescheduled.  After a refusal the
\* loop goes on; after an error the due entries that remain are postponed and
\* the loop is left.
LoopRetry(p, d) ==
    LET c == proc[p] IN
    /\ InLoop(p, "refused") \/ InLoop(p, "error")
    /\ d \in c.cur
    /\ d.attempts + 1 < RetryMaxAttempts
    /\ \E wait \in RetryDelays(d.attempts + 1) :
         LET retried == [d EXCEPT !.attempts = @ + 1, !.nextAttempt = c.n + wait]
             q == ReplaceDelivery(c.q, d, retried)
         IN  \/ /\ c.outcome = "refused"
                /\ proc' = [proc EXCEPT ![p] = Continue(c, q, c.todo)]
             \/ /\ c.outcome = "error"
                /\ \E delay \in DelayDraws(c.todo) :
                     proc' = [proc EXCEPT ![p] = Continue(c,
                        [q EXCEPT !.deliveries =
                                (@ \ c.todo) \cup Postpone(c.todo, c.n, delay)], {})]
    /\ UNCHANGED <<now, durable, tracker, nextId, history>>

\* Slip: the next alarm is scheduled only when something was saved.
LoopEndUnarmed(p) ==
    LET c == proc[p] IN
    /\ InLoop(p, None)
    /\ c.todo = {} \/ WindowFull
    /\ IF c.mutated THEN store' = c.q /\ alarm' = NextAlarm(c.q, c.n, Active(c.n) # {})
                    ELSE UNCHANGED durable
    /\ Sweep(c.n)
    /\ proc' = [proc EXCEPT ![p] = Idle]
    /\ UNCHANGED <<now, nextId, history>>

\* The loop ends (or its window check breaks it): alarm and
\* drainQueueOnReconnect save what changed and schedule the next alarm.
LoopEnd(p) ==
    LET c == proc[p] IN
    /\ InLoop(p, None)
    /\ c.todo = {} \/ WindowFull
    /\ store' = IF c.mutated THEN c.q ELSE store
    /\ alarm' = NextAlarm(c.q, c.n, Active(c.n) # {})
    /\ Sweep(c.n)
    /\ proc' = [proc EXCEPT ![p] = Idle]
    /\ UNCHANGED <<now, nextId, history>>

-----------------------------------------------------------------------------
(* The rest of deliverToConnector *)

Resumed(p) == proc[p].kind = "deliver" /\ proc[p].phase = "run"

Answer(p, outcome) ==
    /\ told' = [told EXCEPT ![proc[p].id] =
                    [outcome |-> outcome,
                     expiresAt |-> IF outcome = "queued" THEN proc[p].n + QueueTtl ELSE 0]]
    /\ proc' = [proc EXCEPT ![p] = Idle]

ReceiptFor(p, state) ==
    [state |-> state, id |-> proc[p].id, route |-> proc[p].route,
     expiresAt |-> proc[p].n + QueueTtl]

DeliverAccepted(p) ==
    LET c == proc[p] IN
    /\ Resumed(p) /\ c.outcome = "accepted"
    /\ SaveAndSchedule(UpsertReceipt(c.q, c.req, ReceiptFor(p, "delivered")), c.n)
    /\ Answer(p, "delivered")
    /\ UNCHANGED <<now, nextId, fate>>

\* The call throws: no attempt is left, or the queue is full.
DeliverRejected(p) ==
    LET c == proc[p] IN
    /\ Resumed(p) /\ c.outcome # "accepted"
    /\ \/ c.attempts >= RetryMaxAttempts
       \/ Cardinality(c.q.deliveries) >= QueueMax
    /\ Answer(p, "failed")
    /\ UNCHANGED <<now, durable, tracker, nextId, fate>>

\* The queued entry: it has no groupId, whatever the request carried.
QueuedEntry(p, wait) ==
    LET c == proc[p] IN
    [id |-> c.id, req |-> c.req, route |-> c.route, group |-> FALSE,
     createdAt |-> c.n, attempts |-> c.attempts,
     expiresAt |-> c.n + QueueTtl, nextAttempt |-> c.n + wait]

\* Slip: the length of the queue is not checked.
DeliverQueuedUnbounded(p) ==
    LET c == proc[p] IN
    /\ Resumed(p) /\ c.outcome # "accepted"
    /\ c.attempts < RetryMaxAttempts
    /\ \E wait \in RetryDelays(c.attempts) :
         SaveAndSchedule(
            UpsertReceipt([c.q EXCEPT !.deliveries = @ \cup {QueuedEntry(p, wait)}],
                          c.req, ReceiptFor(p, "queued")), c.n)
    /\ Answer(p, "queued")
    /\ UNCHANGED <<now, nextId, fate>>

DeliverQueued(p) ==
    LET c == proc[p] IN
    /\ Resumed(p) /\ c.outcome # "accepted"
    /\ c.attempts < RetryMaxAttempts
    /\ Cardinality(c.q.deliveries) < QueueMax
    /\ \E wait \in RetryDelays(c.attempts) :
         SaveAndSchedule(
            UpsertReceipt([c.q EXCEPT !.deliveries = @ \cup {QueuedEntry(p, wait)}],
                          c.req, ReceiptFor(p, "queued")), c.n)
    /\ Answer(p, "queued")
    /\ UNCHANGED <<now, nextId, fate>>

-----------------------------------------------------------------------------
(* Events that resume a waiting coroutine, and the other socket events *)

\* scheduleFromStorage, which ends every socket handler, after the handler
\* closed the sockets in `close' and touched those in `touched'.
ScheduleFromStorage(close, touched) ==
    LET stale == Stale(now) \ (close \cup touched)
        q     == PruneExpired(store, now)
        act   == (Listed \ pendingClose) \ (close \cup stale)
    IN  /\ TrackerAfter(now, close \cup stale, touched)
        /\ store' = q
        /\ alarm' = NextAlarm(q, now, act # {})

Resume(p, outcome) == [proc[p] EXCEPT !.phase = "run", !.outcome = outcome,
                                      !.sock = IF proc[p].kind = "deliver" THEN None ELSE @,
                                      !.group = FALSE]

\* A deliver_ack for a frame in flight, on any socket still listed.
DeliverAck(p, s, accepted) ==
    /\ Quiet
    /\ p \in Waiting /\ s \in Listed
    /\ proc' = [proc EXCEPT ![p] = Resume(p, IF accepted THEN "accepted" ELSE "refused")]
    /\ ScheduleFromStorage({}, {s})
    /\ UNCHANGED <<now, nextId, history>>

\* Slip: the timer dies with the socket the frame went out on.
AckTimeoutWhileOpen(p) ==
    /\ Quiet
    /\ p \in Waiting /\ sock[proc[p].sock] = "open"
    /\ proc' = [proc EXCEPT ![p] = Resume(p, "error")]
    /\ UNCHANGED <<now, durable, tracker, nextId, history>>

\* The acknowledgement timer of a frame in flight fires.
AckTimeout(p) ==
    /\ Quiet
    /\ p \in Waiting
    /\ proc' = [proc EXCEPT ![p] = Resume(p, "error")]
    /\ UNCHANGED <<now, durable, tracker, nextId, history>>

\* Any other frame: a heartbeat, a heartbeat_ack, an enqueue or a late
\* deliver_ack counts as a sign of life; one that does not parse does not.
SocketMessage(s, signOfLife) ==
    /\ Quiet
    /\ s \in Listed
    /\ ScheduleFromStorage({}, IF signOfLife THEN {s} ELSE {})
    /\ UNCHANGED <<now, proc, nextId, history>>

\* A frame larger than maxFrameBytes closes its socket.
OversizedMessage(s) ==
    /\ Quiet
    /\ s \in Listed
    /\ ScheduleFromStorage({s}, {})
    /\ UNCHANGED <<now, proc, nextId, history>>

\* webSocketClose and webSocketError (never graceful).  The runtime may or may
\* not still list the socket while the handler runs.
SocketClosed(s, graceful, stillListed) ==
    LET rest == Listed \ (IF stillListed THEN {} ELSE {s})
        q    == PruneExpired(store, now)
        stale == Stale(now) \ {s}
        act  == (rest \ (pendingClose \ {s})) \ stale
    IN  /\ Quiet
        /\ s \in Listed
        /\ sock' = [x \in Sockets |-> IF x = s THEN "none"
                                      ELSE IF x \in stale THEN "closing" ELSE sock[x]]
        /\ pendingClose' = ((pendingClose \cap Listed) \cup stale) \ {s}
        /\ lastAck' = [x \in Sockets |->
                IF x \notin act \ {s} THEN NoTime
                ELSE IF lastAck[x] = NoTime THEN now ELSE lastAck[x]]
        /\ proc' = IF ~graceful /\ rest = {}
                   THEN [p \in Procs |-> IF p \in Waiting THEN Resume(p, "error")
                                         ELSE proc[p]]
                   ELSE proc
        /\ store' = q
        /\ alarm' = NextAlarm(q, now, act # {})
        /\ UNCHANGED <<now, nextId, history>>

-----------------------------------------------------------------------------
(* The environment *)

\* The object is destroyed (deploy, exception, host failure): memory and
\* sockets are gone.  An alarm whose handler did not return is run again.
Crash ==
    /\ proc' = [p \in Procs |-> Idle]
    /\ sock' = [s \in Sockets |-> "none"]
    /\ lastAck' = [s \in Sockets |-> NoTime]
    /\ pendingClose' = {}
    /\ alarm' = IF \E p \in Procs : proc[p].kind = "alarm" THEN now ELSE alarm
    /\ UNCHANGED <<now, store, nextId, history>>

\* An object with no handler under way is evicted from memory: accepted sockets
\* stay, the tracker's maps do not.
Hibernate ==
    /\ \A p \in Procs : proc[p] = Idle
    /\ lastAck' = [s \in Sockets |-> NoTime]
    /\ pendingClose' = {}
    /\ UNCHANGED <<now, durable, sock, proc, nextId, history>>

Tick ==
    /\ Quiet
    /\ now < MaxNow
    /\ now' = now + 1
    /\ UNCHANGED <<durable, tracker, proc, nextId, history>>

-----------------------------------------------------------------------------
(* The specification *)

Init ==
    /\ now = 0
    /\ store = EmptyQueue
    /\ alarm = NoTime
    /\ sock = [s \in Sockets |-> "none"]
    /\ lastAck = [s \in Sockets |-> NoTime]
    /\ pendingClose = {}
    /\ proc = [p \in Procs |-> Idle]
    /\ nextId = 1
    /\ told = [i \in Ids |-> [outcome |-> "none", expiresAt |-> 0]]
    /\ fate = [i \in Ids |-> "none"]

\* A resumed coroutine's next step.
Run(p) ==
    \/ \E d \in proc[p].todo : LoopSkip(p, d) \/ LoopSend(p, d)
    \/ \E d \in proc[p].cur :
          LoopAccepted(p, d) \/ LoopExhausted(p, d) \/ LoopRetry(p, d)
    \/ LoopEnd(p)
    \/ DeliverAccepted(p) \/ DeliverRejected(p) \/ DeliverQueued(p)

Next ==
    \/ \E p \in Procs : Run(p) \/ AckTimeout(p) \/ Alarm(p)
    \/ \E p \in Procs, r \in Inbound, route \in Routes : Deliver(p, r, route)
    \/ \E p \in Procs, s \in Sockets : Connect(p, s)
    \/ \E p \in Procs, s \in Sockets, accepted \in BOOLEAN : DeliverAck(p, s, accepted)
    \/ \E r \in Outbound, route \in Routes, status \in TerminalStates :
          RecordReceipt(r, route, status)
    \/ GetReceipt
    \/ \E s \in Sockets, signOfLife \in BOOLEAN : SocketMessage(s, signOfLife)
    \/ \E s \in Sockets : OversizedMessage(s)
    \/ \E s \in Sockets, graceful, stillListed \in BOOLEAN :
          SocketClosed(s, graceful, stillListed)
    \/ Crash \/ Hibernate \/ Tick

Spec == Init /\ [][Next]_vars

\* A resumed coroutine runs, an acknowledgement timer fires, a due alarm fires
\* and time passes: all guaranteed by the runtime.  The last three are strong,
\* because Quiet disables them for the moment another coroutine runs; real time
\* and real timers do not stop then.  No connector is assumed to connect,
\* acknowledge or stay, and crashes may recur for ever.
Fairness ==
    /\ \A p \in Procs : WF_vars(Run(p)) /\ SF_vars(AckTimeout(p))
    /\ SF_vars(\E p \in Procs : Alarm(p))
    /\ SF_vars(Tick)

FairSpec == Spec /\ Fairness

-----------------------------------------------------------------------------
(* Properties *)

Coroutine == [kind : {"idle", "deliver", "alarm", "drain"},
              phase : {"idle", "run", "await"},
              outcome : {None, "accepted", "refused", "error"}, n : Nat,
              q : QueueState, todo : SUBSET Delivery, cur : SUBSET Delivery,
              sock : Sockets \cup {None}, mutated : BOOLEAN, id : Ids \cup {0},
              req : Requests \cup {None}, route : Routes \cup {None},
              attempts : Nat, group : BOOLEAN]

\* Every variable keeps the shape its TypeScript type declares.
TypeOK ==
    /\ now \in Nat
    /\ store \in QueueState
    /\ alarm \in Nat \cup {NoTime}
    /\ sock \in [Sockets -> {"none", "open", "closing"}]
    /\ lastAck \in [Sockets -> Nat \cup {NoTime}]
    /\ pendingClose \subseteq Sockets
    /\ proc \in [Procs -> Coroutine]
    /\ nextId \in 1 .. (MaxDeliveries + 1)
    /\ told \in [Ids -> [outcome : {"none", "queued", "delivered", "failed"},
                         expiresAt : Nat]]
    /\ fate \in [Ids -> {"none", "delivered", "exhausted"}]

\* The stored queue never exceeds queueMaxMessagesPerAgent, although handlers
\* check the length on a copy and save it after other handlers saved theirs.
QueueBound == Cardinality(store.deliveries) <= QueueMax

\* No stored delivery has used up its attempts: the last failed attempt removes
\* the entry instead of storing it once more.
AttemptsLeft == \A d \in store.deliveries : d.attempts < RetryMaxAttempts

\* At most maxInFlightDeliveries frames wait for an acknowledgement.
WindowBound == PendingCount <= MaxInFlight

\* No socket but the newest is used: all open sockets the tracker considers
\* active are one (a hibernated object forgets what it was closing, but those
\* are no longer open).
OneOpenSocket ==
    \A s, t \in Sockets : sock[s] = "open" /\ sock[t] = "open" => s = t

\* Overlapping handlers keep the limits of the mailbox: the length of the queue,
\* the attempts of an entry, the window of unanswered frames and the one socket
\* of an agent.
LimitsKept == QueueBound /\ AttemptsLeft /\ WindowBound /\ OneOpenSocket

\* While deliveries are stored an alarm is set that is not later than any of
\* them needs, or the alarm handler is at work and will set it when it ends:
\* no handler, load, save, crash or hibernation strands the queue.
WakeUpArmed ==
    \/ \E p \in Procs : proc[p].kind = "alarm"
    \/ \A d \in store.deliveries :
          /\ alarm # NoTime
          /\ alarm <= (IF d.nextAttempt > now + 1 THEN d.nextAttempt ELSE now + 1)

\* A stored receipt that says "queued" is the receipt of a delivery that is
\* stored: a sender who reads it is never told of an entry that no longer exists.
QueuedReceiptBacked ==
    \A r \in Requests :
        store.receipts[r].state = "queued" =>
            \E d \in store.deliveries : d.req = r /\ d.id = store.receipts[r].id

\* A request id that always comes with the same sender and recipient has at most
\* one entry in the queue: deliver calls that repeat it, one after the other or
\* overlapping (each then saves its own copy of the queue), never queue it twice.
OneEntryPerRequest ==
    \A d, e \in store.deliveries : d.req = e.req => d = e

StoredIds == {d.id : d \in store.deliveries}

\* Every stored delivery leaves the queue: delivered, out of attempts, or expired.
QueueDrains == \A i \in Ids : i \in StoredIds ~> i \notin StoredIds

\* Every call returns: no handler waits for an acknowledgement for ever.
HandlersReturn == \A p \in Procs : proc[p] # Idle ~> proc[p] = Idle

HeldIds == StoredIds \cup UNION {{d.id : d \in proc[p].q.deliveries} : p \in Procs}

\* A delivery whose sender was answered "queued" stays in the queue until it is
\* delivered, exhausts its attempts or expires.
QueuedIsDurable ==
    \A i \in Ids : told[i].outcome = "queued" =>
        \/ i \in HeldIds
        \/ fate[i] \in {"delivered", "exhausted"}
        \/ told[i].expiresAt <= now

\* A frame for a group message carries its groupId.
GroupIdPreserved ==
    \A p \in Waiting : proc[p].group = (proc[p].req \in GroupRequests)

=============================================================================
