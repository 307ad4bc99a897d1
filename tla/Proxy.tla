------------------------------- MODULE Proxy --------------------------------
(***************************************************************************)
(* The proxy as a whole: the routes behind the middleware (ProxyAuth), the *)
(* queues they publish to, and the worker's queue consumer.  The trust     *)
(* store is the ProxyTrustState object on a worker ("durable"; its tickets *)
(* are TrustState's business) and the store in memory on Node ("memory"),  *)
(* which has no queues and no relay sessions.  What a relay session does   *)
(* with a delivery is RelaySession's business.                             *)
(***************************************************************************)
EXTENDS ProxyAuth

CONSTANTS
    Ttls,           \* ticket lifetimes a caller may ask for
    BatchSize,      \* max_batch_size of a queue
    MaxRetries,     \* the queue's max_retries
    MaxFaults       \* bound: deliveries that fail

ASSUME QueueAssumption ==
    /\ Ttls \subseteq {t \in Nat : t >= Second}
    /\ BatchSize \in Nat \ {0}
    /\ MaxRetries \in Nat /\ MaxFaults \in Nat

VARIABLES
    backend,        \* "durable" or "memory"
    queue,          \* events published and not acknowledged
    tries,          \* event -> deliveries that failed
    batch,          \* events the consumer has still to handle
    verdict,        \* events of the batch it has handled -> "ack" or "retry"
    faults,         \* deliveries that failed so far
    announced,      \* history: every event ever published
    effected,       \* history: events whose call reached its durable object
    rejected        \* history: events the consumer gave up as unprocessable

queueVars == <<queue, tries, batch, verdict, faults, announced, effected, rejected>>
proxyVars == <<vars, trustVars, authVars, backend, queueVars>>

\* agent.auth.revoked from the registry, pair.accepted, group.member.joined, and
\* delivery_receipt: who it is about, and whose relay session it goes to.
Events == [type : {"revoked", "accepted", "joined", "receipt"}, about : Agents, to : Agents]

\* The queue takes an event.  (Bound: each is published once.)
Publish(e) ==
    /\ e \notin announced
    /\ queue' = queue \cup {e}
    /\ announced' = announced \cup {e}
    /\ UNCHANGED <<tries, batch, verdict, faults, effected, rejected>>

-----------------------------------------------------------------------------
(* Routes.  A path is also the stage of a request that its handler starts with. *)

\* createDurableProxyTrustStore: every call goes to the ProxyTrustState object.
OnWorker == backend = "durable"

\* The registry knows sender and recipient as members of the request's group.
GroupTrusted(r) == r.group

\* createAgentHookHandler up to its permission: both members of the group (as
\* the registry says), or the pair trusted; 403, and 503 when it cannot tell.
HookAuthorize(s) ==
    LET r == Request(s) IN
    /\ At(s, "hook")
    /\ \/ (GroupTrusted(r) \/ IsPairAllowed(r.agent, r.to)) /\ Goto(s, "relay")
       \/ Answer(s)
    /\ UNCHANGED <<vars, trustVars, keysCache, addressBucket, agentBucket, published,
                   arrivals, taken, passed, marked, backend, queueVars>>

\* deliverToRelaySession (202, 507 when the mailbox is full, 502), the forwarded
\* connect request, and the lookup of a receipt change nothing here; without
\* relay sessions each is a 503.
RelayCall(s) ==
    /\ slot[s].stage \in {"relay", "connect", "lookup"}
    /\ Answer(s)
    /\ UNCHANGED <<vars, trustVars, keysCache, addressBucket, agentBucket, published,
                   arrivals, taken, passed, marked, backend, queueVars>>

\* createRelayDeliveryReceiptPostHandler, for the caller as recipient, and
\* createRelayDeliveryReceiptGetHandler: the pair must be trusted.
ReceiptAuthorize(s) ==
    LET r == Request(s) IN
    /\ At(s, "receipt")
    /\ \/ IsPairAllowed(r.to, r.agent) /\ \E next \in {"publish", "lookup"} : Goto(s, next)
       \/ Answer(s)
    /\ UNCHANGED <<vars, trustVars, keysCache, addressBucket, agentBucket, published,
                   arrivals, taken, passed, marked, backend, queueVars>>

\* The receipt is sent to the queue (202), or that fails (502).
PublishReceipt(s) ==
    LET r == Request(s) IN
    /\ At(s, "publish")
    /\ \/ OnWorker /\ Publish([type |-> "receipt", about |-> r.agent, to |-> r.to])
       \/ UNCHANGED queueVars
    /\ Answer(s)
    /\ UNCHANGED <<vars, trustVars, keysCache, addressBucket, agentBucket, published,
                   arrivals, taken, passed, marked, backend>>

\* assertCallerOwnsInitiatorAgent: not the owner, or an agent that is not active
\* (403), or no answer from the registry (503).
OwnershipRefused(s) == Answer(s)

\* createPairStartHandler: the registry confirms that the caller owns the agent,
\* the clock is read, and the ticket is signed.
PairStart(s) ==
    /\ At(s, "start")
    /\ \/ slot' = [slot EXCEPT ![s] = [@ EXCEPT !.stage = "ticket", !.readAt = now]]
       \/ OwnershipRefused(s)
    /\ UNCHANGED <<vars, trustVars, keysCache, addressBucket, agentBucket, published,
                   arrivals, taken, passed, marked, backend, queueVars>>

StoreTicket(s, k, ttl) ==
    /\ At(s, "ticket")
    /\ \/ /\ backend = "memory"
          /\ CreatePairingTicket(k, Request(s).agent, Request(s).to, slot[s].readAt, ttl)
       \/ OnWorker /\ UNCHANGED trustVars
    /\ Answer(s)
    /\ UNCHANGED <<vars, keysCache, addressBucket, agentBucket, published, arrivals,
                   taken, passed, marked, backend, queueVars>>

\* createPairConfirmHandler up to the store's signature check (409, 404).
ConfirmRead(s, k) ==
    /\ At(s, "confirm")
    /\ backend = "memory"
    /\ LookUpPending(k, now)
    /\ IF Confirmable(k)
       THEN slot' = [slot EXCEPT ![s] = [stage |-> "verify", request |-> Request(s),
                        kid |-> k, ticket |-> tickets[k], readAt |-> now,
                        promised |-> slot[s].promised,
                        seen |-> [tickets |-> tickets', confirmed |-> confirmed']]]
       ELSE Answer(s)
    /\ UNCHANGED <<vars, keysCache, addressBucket, agentBucket, published, arrivals,
                   taken, passed, marked, backend, queueVars>>

\* The signature is bad or the responder another (400, 403), the ticket had
\* expired (410), or it is confirmed (201).
ConfirmWrite(s) ==
    LET w == slot[s]
        b == w.request.agent
    IN  /\ At(s, "verify")
        /\ \/ UNCHANGED trustVars
           \/ w.ticket.expiresAt <= w.readAt /\ DropExpiredTicket(w.kid)
           \/ /\ w.ticket.expiresAt > w.readAt
              /\ w.ticket.allow \in {Anyone, b}
              /\ ConfirmTicket(w.kid, w.ticket, b, w.seen)
        /\ Answer(s)
        /\ UNCHANGED <<vars, keysCache, addressBucket, agentBucket, published, arrivals,
                       taken, passed, marked, backend, queueVars>>

\* The same on a worker: the trust state confirms a ticket of some initiator.
ConfirmDurable(s, a) ==
    /\ At(s, "confirm")
    /\ OnWorker
    /\ \/ /\ UpsertPair(a, Request(s).agent)
          /\ slot' = [slot EXCEPT ![s] = [@ EXCEPT !.stage = "announce", !.request.to = a]]
       \/ Answer(s) /\ UNCHANGED trustVars
    /\ UNCHANGED <<vars, keysCache, addressBucket, agentBucket, published, arrivals,
                   taken, passed, marked, backend, queueVars>>

\* publishPairAcceptedEvent: the caller gets its 201 also if this fails.
PublishAccepted(s) ==
    LET r == Request(s) IN
    /\ At(s, "announce")
    /\ \/ Publish([type |-> "accepted", about |-> r.agent, to |-> r.to])
       \/ UNCHANGED queueVars
    /\ Answer(s)
    /\ UNCHANGED <<vars, trustVars, keysCache, addressBucket, agentBucket, published,
                   arrivals, taken, passed, marked, backend>>

\* createPairStatusHandler
PairStatus(s, k) ==
    /\ At(s, "status")
    /\ IF backend = "memory" THEN GetPairingTicketStatus(k, now) ELSE UNCHANGED trustVars
    /\ Answer(s)
    /\ UNCHANGED <<vars, keysCache, addressBucket, agentBucket, published, arrivals,
                   taken, passed, marked, backend, queueVars>>

-----------------------------------------------------------------------------
(* The queue consumer: worker.queue *)

\* The queue hands a batch to the consumer.
TakeBatch ==
    /\ batch = {} /\ verdict = <<>>
    /\ \E b \in SUBSET queue \ {{}} : Cardinality(b) <= BatchSize /\ batch' = b
    /\ UNCHANGED <<vars, trustVars, authVars, backend, queue, tries, verdict, faults,
                   announced, effected, rejected>>

Settle(e, action) ==
    /\ batch' = batch \ {e}
    /\ verdict' = [x \in DOMAIN verdict \cup {e} |-> IF x = e THEN action ELSE verdict[x]]

\* What the event asks its durable object for.
Effect(e) ==
    /\ effected' = effected \cup {e}
    /\ IF e.type = "revoked"
       THEN MarkAgentRevoked(e.about) /\ marked' = [marked EXCEPT ![e.about] = now + MarkerTtl]
       ELSE UNCHANGED <<trustVars, marked>>

Handle(e) ==
    /\ e \in batch
    /\ Effect(e)
    /\ Settle(e, "ack")
    /\ UNCHANGED <<vars, slot, keysCache, addressBucket, agentBucket, published, arrivals,
                   taken, passed, backend, queue, tries, faults, announced, rejected>>

\* Slip: an unavailable durable object is treated as a refusal.
ResolveQueueFailureActionEager(status) == "ack"

\* resolveQueueFailureAction: 5xx, 429 and failed transports are retried.
ResolveQueueFailureAction(status) == IF status = "transient" THEN "retry" ELSE "ack"

\* The event cannot be parsed, or its object refuses it with another 4xx.
HandleRefused(e) ==
    /\ e \in batch
    /\ Settle(e, ResolveQueueFailureAction("refused"))
    /\ rejected' = rejected \cup {e}
    /\ UNCHANGED <<vars, trustVars, authVars, backend, queue, tries, faults, announced, effected>>

\* The call fails, before or after it has taken effect.
HandleFails(e) ==
    /\ e \in batch
    /\ faults < MaxFaults
    /\ faults' = faults + 1
    /\ Settle(e, ResolveQueueFailureAction("transient"))
    /\ \/ Effect(e)
       \/ UNCHANGED <<trustVars, marked, effected>>
    /\ UNCHANGED <<vars, slot, keysCache, addressBucket, agentBucket, published, arrivals,
                   taken, passed, backend, queue, tries, announced, rejected>>

\* The batch ends with these deliveries acknowledged and those failed: an event
\* that failed too often goes to the dead letter queue, which nobody reads.
Close(acked, failed) ==
    /\ tries' = [e \in Events |-> IF e \in failed THEN tries[e] + 1 ELSE tries[e]]
    /\ queue' = queue \ (acked \cup {e \in failed : tries[e] >= MaxRetries})
    /\ batch' = {} /\ verdict' = <<>>

EndBatch ==
    LET retried == {e \in DOMAIN verdict : verdict[e] = "retry"} IN
    /\ batch = {} /\ verdict # <<>>
    /\ Close(DOMAIN verdict \ retried, retried)
    /\ UNCHANGED <<vars, trustVars, authVars, backend, faults, announced, effected, rejected>>

\* The worker is stopped in a batch: no verdict counts, the queue delivers again.
ConsumerStops ==
    /\ batch # {} \/ verdict # <<>>
    /\ faults < MaxFaults
    /\ faults' = faults + 1
    /\ Close({}, batch \cup DOMAIN verdict)
    /\ UNCHANGED <<vars, trustVars, authVars, backend, announced, effected, rejected>>

-----------------------------------------------------------------------------
(* The environment *)

\* The registry publishes the revocation of an agent, or a member that joined.
RegistryPublishes(e) ==
    /\ OnWorker
    /\ e.type \in {"revoked", "joined"}
    /\ e \notin announced
    /\ Publish(e)
    /\ UNCHANGED <<vars, trustVars, authVars, backend>>

\* A pair is stored directly (upsertPair).
PairUp(a, b) ==
    /\ UpsertPair(a, b)
    /\ UNCHANGED <<vars, authVars, backend, queueVars>>

TimePasses ==
    /\ InTime
    /\ Tick
    /\ UNCHANGED <<trustVars, authVars, backend, queueVars>>

ProxyInit ==
    /\ Init /\ TrustInit /\ AuthInit
    /\ backend \in {"durable", "memory"}
    /\ queue = {} /\ batch = {} /\ verdict = <<>> /\ faults = 0
    /\ tries = [e \in Events |-> 0]
    /\ announced = {} /\ effected = {} /\ rejected = {}

ConsumerNext ==
    \/ TakeBatch \/ EndBatch \/ ConsumerStops
    \/ \E e \in batch : Handle(e) \/ HandleRefused(e) \/ HandleFails(e)

ProxyNext ==
    \/ AuthNext /\ UNCHANGED <<backend, queueVars>>
    \/ \E s \in Slots :
          \/ HookAuthorize(s) \/ RelayCall(s) \/ ReceiptAuthorize(s) \/ PublishReceipt(s)
          \/ PairStart(s) \/ \E k \in Kids, ttl \in Ttls : StoreTicket(s, k, ttl)
          \/ \E k \in Kids : ConfirmRead(s, k) \/ PairStatus(s, k)
          \/ ConfirmWrite(s) \/ \E a \in Agents : ConfirmDurable(s, a)
          \/ PublishAccepted(s)
    \/ ConsumerNext
    \/ \E e \in Events : RegistryPublishes(e)
    \/ \E a, b \in Agents : PairUp(a, b)
    \/ TimePasses

\* The queue delivers what it holds, and a consumer that is not stopped goes on.
ConsumerFairness == WF_proxyVars(ConsumerNext)

ProxySpec == ProxyInit /\ [][ProxyNext]_proxyVars /\ ConsumerFairness

-----------------------------------------------------------------------------
(* Properties *)

\* The event took effect, was refused, or failed more often than the queue retries.
Settled(e) == e \in effected \cup rejected \/ tries[e] > MaxRetries

\* The backlog of published events is worked off again and again: although
\* answers are lost and the consumer is stopped in the middle of a batch, no
\* event is acknowledged unhandled and none is forgotten.
EventsTakeEffect == []<>(\A e \in announced : Settled(e))
=============================================================================
