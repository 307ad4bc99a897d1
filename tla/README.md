# Clawdentity: a TLA+ model of the proxy, the registry and the connectors

Clawdentity gives agents an identity and lets them exchange messages. A local
*connector* keeps a web socket to a *proxy*; the proxy checks who is calling,
decides whether two agents trust each other, and relays messages through one
mailbox per agent; a *registry* issues identities, sessions and revocations.

This directory models the parts that keep state across an `await`, a statement, a
crash or a lost message: what may go wrong there is a matter of interleaving, and
tests hardly reach it. TLC checks every model on a small instance; TLAPS proves the
safety invariants of every run, and the two refinements of the nonce stores, for every value
of the constants.

Paths below are relative to the repository root.

## 1. Inventory

| Component | State it keeps | Operations | What makes it correct |
|---|---|---|---|
| **Relay session**, `apps/proxy/src/agent-relay-session` (Durable Object, one per agent) | durable: queued deliveries with their receipts (one storage value), one alarm; memory: acknowledgements awaited, socket tracker; the sockets | deliver RPC, record/get receipt RPC, connect (supersede, drain), alarm (heartbeat, sweep, retry), deliver_ack, heartbeats, enqueue frames, close/error, ack timeout | queue and in-flight limits; no stored delivery without a wake-up; every delivery leaves the queue; receipts agree with the queue; one socket; a message answered "queued" is not lost |
| **Nonce replay guard**, `apps/proxy/src/nonce-replay-guard.ts` (Durable Object) | one record per accepted nonce, one alarm | try-accept, alarm sweep | no nonce accepted twice in its lifetime; records are swept |
| **Nonce cache**, `packages/sdk/src/security/nonce-cache.ts` | nested maps in memory | tryAcceptNonce, purgeExpired | the same promise, no leak |
| **CRL cache**, `packages/sdk/src/crl/cache.ts` | cached list, two timestamps | isRevoked, refreshIfStale | never claims to be fresher than it is; fail-closed answers are of bounded age |
| **Trust state**, `apps/proxy/src/proxy-trust-state` (Durable Object) | tickets, confirmed tickets, pairs, peer index, revocation markers, one alarm | create/confirm/status of tickets, upsert pair, mark/is revoked, alarm | views of trust agree; markers last; everything with an expiry is swept |
| **In-memory trust store**, `apps/proxy/src/proxy-trust-store.ts` | the same maps in one process, swept by the calls | the same | a stored confirmation stands |
| **Auth middleware**, `apps/proxy/src/auth-middleware`, `packages/sdk/src/http/verify.ts`, and the rate limiters | key cache, nonce cache, counters per address and agent | a chain of checks, each with a wait | a signed request is admitted once; rates are bounded; the revoked are kept out |
| **Routes and queue consumer**, `apps/proxy/src/{agent-hook,relay-delivery-receipt,pairing}-route.ts`, `worker.ts`, `queue-consumer` | the queue's backlog | hook, receipt, pairing routes; batches with ack and retry | every published event takes effect or is given up |
| **Registry**, `apps/registry/src` | SQL tables: humans, API keys, services, invites, starter passes, challenges, agents, sessions, revocations, groups, members, join tokens | HTTP routes, each a sequence of statements with a manual undo | single use, limits, rotation, revocation |
| **Connector (Rust)**, `crates/clawdentity-core/src/{connector,runtime,db}`, `crates/clawdentity-cli/src/commands/connector` | SQLite: outbound queue, inbound pending and dead letters; memory: two bounded channels, in-flight map, client state, notifications; a receipt file | POST /v1/outbound, flush loop, relay client, inbound loop, retry loop, outbox worker, shutdown | a message is sent at most once; what was acknowledged is kept; rejections and receipts are reported and true; everything ends; the client reconnects |
| **Connector package (TypeScript)**, `packages/connector` | socket and timers, queue file, SQLite inbox, receipt file, session tokens in memory and in a file | connect, disconnect, reconnect, heartbeats, enqueue, replay passes with lanes, receipt flush, token refresh, stop, restart | the link is watched; the queue file and the inbox lose nothing; no pass blocks the next; the agent is not locked out of its session |
| Identity, keys, tokens, CLI, landing site | none that changes concurrently | cryptography, formatting, I/O | not modelled |

How they interact: the connector's socket ends in its agent's relay session; the
hook route of the proxy calls the *recipient's* session to deliver, the receipt
route publishes a receipt that the queue consumer records in the *sender's* session. The auth middleware runs in front
of both and calls the nonce store, the CRL cache, the trust store and the registry. The pairing
routes call the trust store; registry events (agent revoked, member joined) reach the proxy
through a queue.

The hard behaviours: handlers of a Durable Object that wait for something other than storage and
then save what they loaded before; one alarm shared by everything that must
happen later; destruction and hibernation of the object; calls that carry an
earlier clock reading; overlapping fetches; a database without interactive
transactions, where a request is interrupted between any two statements and undoes
by hand; a queue that delivers again; tokio tasks that wait for each other
over bounded channels; files rewritten from what was read before an `await`; rows moved
between tables without a transaction. `PROJECT.json` lists each
of them at its line under `hazards`.

## 2. The modules

Operators whose comment begins with "Slip:" are plausible mistakes in the
definition that follows them. No specification uses them; they show that a property
notices the mistake (`mutants` in `PROJECT.json`). `map` names the source lines of
every definition. `Proxy` extends `ProxyAuth`, which extends `ProxyTrust`, which extends
`NonceCache`; `Registry` extends `RegistryGroups`, `RegistryAgents`, `RegistryAccounts`
and `RegistryRequests` in this order; `ConnectorRuntime` extends `ConnectorClient`,
`ConnectorInbox` and `ConnectorAuth`. `MC...` modules hold the instances for TLC.

### RelaySession

State: `store` is the one stored queue value, `alarm` the durable alarm, `sock`,
`lastAck`, `pendingClose` the socket tracker, `proc` the handlers in progress.
`told` and `fate` are history.

The runtime's input gate makes a handler atomic while it waits for storage, and the
class is SQLite-backed (`apps/proxy/wrangler.jsonc`), so the writes of one turn commit
together. The one other wait is `await sendDeliverFrame`, in the deliver RPC, the
alarm and the drain after a reconnect. A handler there is a coroutine that holds
the queue it loaded (`q`), its clock reading (`n`) and where its loop stands (`todo`, `cur`);
it saves that copy later. A resumed coroutine runs before any further event (`Quiet`),
because its continuation is a microtask; a storage read is served from the object's
cache and does not let another event in between.

Actions: `Deliver`, `RecordReceipt`, `GetReceipt`, `Connect`, `Alarm`, the loop steps
(`LoopSkip`, `LoopSend`, `LoopAccepted`, `LoopExhausted`, `LoopRetry`, `LoopEnd`), the ends of
a deliver call (`DeliverAccepted`, `DeliverRejected`, `DeliverQueued`), the socket events
(`DeliverAck`, `AckTimeout`, `SocketMessage`, `OversizedMessage`, `SocketClosed`) and the
environment (`Crash`, `Hibernate`, `Tick`). Hibernation clears the tracker; a crash also
clears handlers and sockets, and the runtime repeats an alarm whose handler was
interrupted. A socket may or may not still be listed while its close is handled.

Abstracted: payloads; the contents of receipt push frames; heartbeat ids
(an acknowledgement belongs to its socket); an enqueue frame is a sign of life
(its forwarding is another object's deliver RPC); the acknowledgement timer may fire
at any time after the send; ties between entries of equal time are broken arbitrarily.

### ReplayGuard, NonceReplay, NonceCache

`ReplayGuard` is the abstract promise of a nonce store: an accepted nonce is refused
until its lifetime ends. `NonceReplay` is the durable object: each call is one
storage transaction and carries the caller's clock reading, so calls arrive late and
in any order, while the alarm uses the object's clock. `NonceCache` is the SDK's
in-process cache, for one process lifetime. Both are shown to implement the promise,
with the lifetime a record has left as the refinement mapping. The promise is relative
to the record's lifetime; ProxyAuth composes it with the timestamp window of a request.

### CrlCache

Overlapping `isRevoked` calls, each of which may fetch. A fetch asks the registry's
`GET /v1/crl`, which reads the revocations, waits for its signing key, stamps the list with
`iat` and `exp = iat + CRL_TTL_SECONDS` and lets HTTP caches keep the answer
(`health.ts:97-142`). `RegistryReads` is the answer that reaches the proxy: read at any
moment up to now, for this request or an earlier one, and held by caches for any time.
Nothing is assumed of the caches; what bounds the age of a list is that `verifyCRL` refuses one whose
`exp` has passed (`FetchSucceeds`). With no revocations the route answers 404 and the
fetch fails, so a fail-closed proxy without a list answers nothing until the first revocation.
`SignLag` bounds the wait between the read and the stamp. Proxy and registry share one
clock; `exp` in whole seconds only refuses a list earlier.

The cache stamps a list with the start of its fetch. So it may lack what was revoked less
than `ListLag = CrlTtl + SignLag` before that (`NoRevocationMissed`), and an answer
of a fail-closed cache may miss what was revoked less than `MaxAge + ListLag` before the call
(`FreshAnswers`): with the defaults 390 s and 900 s + 390 s, plus the wait for the
key. A slow fetch may bring back an older list than the cached one; the bound covers it. The end of
a refresh and the read that follows it are one step, as no I/O lies between them.
`initialClaims` is not used by the proxy and left out.

### TrustState

`handleConfirmPairingTicket` waits for the signature check between loading and saving
the ticket maps; `ConfirmStart` and `ConfirmRefused`/`ConfirmExpired`/`ConfirmAccepted`
are the two halves. All other handlers wait for storage only. Callers' clock readings
lag by at most `MaxLag`. A ticket is identified by its `kid`. Recovery from malformed stored
values is left out.

### ProxyTrust, ProxyAuth, Proxy

`ProxyTrust` is the in-memory trust store: every call also sweeps what has expired
(`Cleanup`), except the ticket it is about. Its confirm has the same wait as the
durable one, but changes the maps in place after it.

`ProxyAuth` is what a request passes before its route: the limit per address, the
middleware and the limit per agent. A request is in a slot, at the `stage` it waits for:
`fetch` (registry keys), `token`, `nonce`, `revoked`, `crl`, `known`, `session`. The
timestamp is compared when the proof is verified and the nonce taken after a wait; a
waiting request holds its clock reading for at most `MaxLag`. The CRL's answer
and the session validation are choices, as CrlCache and RegistryAgents treat them.
A token signed with a key that the registry has withdrawn is accepted as long as the
cache lasts. Signatures are right; a wrong one is an early answer. Two histories serve the
properties: `taken`, when and how often a signed request's nonce was taken, and `passed`, the
times at which an agent's requests passed the rate limit, in order. `RateKept` says of any
`2 * MaxPerAgent` requests in that order that they span a whole window.

`Proxy` adds the routes (`HookAuthorize`, `RelayCall`, `ReceiptAuthorize`, `PublishReceipt`,
`PairStart`, `StoreTicket`, `ConfirmRead`, `ConfirmWrite`, `ConfirmDurable`, `PublishAccepted`,
`PairStatus`) and the queue consumer (`TakeBatch`, `Handle`, `HandleRefused`, `HandleFails`,
`EndBatch`, `ConsumerStops`). `backend` tells the two deployments apart: on a worker the
trust store is the durable object, whose tickets are TrustState's business, and there are
queues; on Node it is the store in memory. The queue delivers an event again until it is
acknowledged or has failed more than `MaxRetries` times.

### RegistryRequests, RegistryAccounts, RegistryAgents, RegistryGroups, Registry

The registry runs on D1, which has no interactive transactions: `begin` fails, the
handlers notice (`isUnsupportedLocalTransactionError`) and run their statements one by
one, undoing what they can when a later one finds nothing to change. So a request
is a sequence of statements (`req[r].pc`) with what its first reads returned (`on`,
`seen`, `has`), and other requests run between any two. Each statement is one action,
the reads before the first write are one. A worker may stop for good before
any statement (`WorkerStops`); an answer is what the caller gets, so only codes and
tokens of answered requests can be presented later. Guards of an UPDATE ... WHERE are
conjuncts of its action; a lost race leads to the undo step. Rows expire at any time
after they were made (`TimePasses`). Identifiers are random in the code and named after the request that
makes them here. Foreign keys matter where a row cannot be deleted (`DeleteHuman`).

`RegistryAccounts`: bootstrap, invites, starter passes, API keys, internal services.
`RegistryAgents`: challenges, registration, revocation, reissue, refresh, validation,
logout. `RegistryGroups`: groups, join tokens, joining, removal, deletion, and who may.
Left out: metadata endpoints, resolution of profiles, and the registry's own rate
limit, which is the proxy's algorithm.

### ConnectorRelay

All tasks of one connector process: `task` holds the POST /v1/outbound handlers and
the flush loop, `client` the relay client, `inb` the inbound loop, `outCh` and `inCh`
the two channels of 256 frames. `queue`, `later`, `attempts`, `dead` are the SQLite
tables. A step ends where a task awaits or releases the database mutex; taking a row
and what follows up to the next wait is one step because it concerns no other task.

Actions: `Post`, `Insert`, `InsertFails`, `Rollback`, `Abandon` (a request's handler is dropped
with its client); `LoopTick`, `Offer`, `DeadLetter`, `DeadLetterFails`, `Send`, `SendFails`,
`StoreFails`, `FlushEnds`, `LoopStops`, `BecomesDue`; `Connect`, `LinkDies`, `SessionSends`,
`SessionReads`, `SessionPushes`, `SessionEnds`, `ClientStops`; `Receive`, `HookEnds`, `SendAck`,
`InboundStops`; `Shutdown`, `Exit`, `Crash`. Expiry and due times are choices; of the
heartbeat the model keeps that it exposes a dead connection in the session's select.
The webhook and the inbound store are one step (`HookEnds`) here; ConnectorDelivery
opens it.

### ConnectorDelivery

The inbound half of the Rust connector. `inbound` and `retry` are the two loops, at the
call they wait for; `worker` handles the receipt outbox's `commands` one at a time.
`pending`, `deadLetters` and `outbox` survive a crash, everything else does not. Inbound loop: `ReceiveDeliver`,
`PostWebhook`, `Persist`, `SendDeliverAck`. Retry loop: `Tick`, `ListDue`, `RetryPost`, `RecordSuccess`,
`ScheduleRetry`, `DeadLetterPending`, each on the row it listed, which others may have changed.
Worker: `EnqueueReceipt`, `FlushLoad`, `PostReceipt`, `FlushSave`. Both loops forward notifications (`TakeDue`,
`Forward`, `Requeue`). Requests: `ReplayDeadLetter`, `PurgeDeadLetter`. A call of the store or of the
file system may fail (`MaxFaults`), and a move between the tables that fails has done a prefix of
its statements (`MovePending`). A stored payload always parses, since the connector serialised
it itself; the branch for one that does not (`delivery.rs:353`) is left out. A post that fails may have reached its destination. Due times and ages are choices.

### ConnectorClient, ConnectorInbox, ConnectorAuth, ConnectorRuntime

The TypeScript connector; one thread, so an action is what happens between two awaits.
`ConnectorClient` is the socket with its timers, the dials under way and the queue of
frames with its file: saves are chained, each writes what the queue is when it begins,
and a crash during a write leaves the old or the new file. Frames are numbers in the order
of `enqueueOutbound`. `connect()` is called once, as the runtime does.
`ConnectorInbox` is the SQLite inbox, whose writes are transactions, the replay passes
with one lane per conversation, and the receipt file under its lock. `current` is the
pass `replayInFlight` stands for; `ReplayFails` is a lane's error, which ends the pass
while other lanes go on. `lossy` notes that a file or a database could not be read, which
the code takes for empty.
`ConnectorAuth` is the session's tokens: `token` is the refresh token the registry will take,
`currentAuth` the one in memory, `authFile` the one in `registry-auth.json`. A call (`calls`) reads the
file, puts what it read into memory, performs its request, and when that is refused reads the file again,
exchanges the token in memory, sets the memory and writes the file; a wait lies between any two of
these. Each kind of call has one refresh in flight. `authFaults` notes a lost answer, a failed or missed
write, and a write that came after a newer one of another kind.
`ConnectorRuntime` composes them: messages arrive over the open socket, `stop()` disconnects the
client and closes the inbox, a crash ends both.

## 3. The runs

| Run | Specification, bounds | Properties | Shows |
|---|---|---|---|
| `relay_session` | two scenes: 3 handlers, 2 requests, one id used by two senders; and 1 request repeated and receipted over 2 sockets; window 2, queue 1, 2 attempts; 624k states | LimitsKept, WakeUpArmed, QueuedReceiptBacked | the limits hold and no delivery is stranded although handlers save stale copies |
| `relay_liveness` | fair, horizon beyond every expiry; 70k | OneEntryPerRequest, QueueDrains, HandlersReturn | timers alone empty the queue and end every call |
| `relay_queued_lost` | violation | QueuedIsDurable | finding 1 |
| `nonce_guard` | 2 nonces, lifetime 2, fair; 88k | SweepArmed, ImplementsGuard, ExpiredAreSwept | late, reordered, repeated calls |
| `crl_cache` | 2 overlapping calls, 2 tokens, fail-closed, lists that HTTP caches held; 3.2M | NoRevocationMissed, FreshAnswers | staleness is bounded by the age limit and the life of a list |
| `trust_state` | 2 agents, 1 ticket, 2 confirms, lag 1; 528k | CleanupArmed, RevocationHolds, StoresAgree | one alarm serves three maps; two keys stay in agreement |
| `proxy` | four scenes, fair: copies of a request in the middleware; routes with rotated keys and revocation; the event queue; pairing on Node; 188k | AdmissionBounded, RevokedKeptOut, ConfirmedStands, CacheImplementsGuard, EventsTakeEffect | replay, rate, revocation and redelivery together |
| `registry` | four scenes of 3 requests, one worker stop: accounts, registration, agents, groups; 507k | LimitsKept, BootstrapStands, SupersededListed, EventsBacked, NoAccessAfterRevoke | guarded statements and manual undo suffice for these |
| `connector_relay` | 1 handler and the flush loop, channels of 1, fair; 31k | OneCopy, RejectionsKnown, HandlersAnswered, ShutdownEnds | at most one copy; everything ends unless the channels block each other |
| `connector_stuck` | violation, fair | Reconnects | finding 2 |
| `connector_inbound` | two scenes, fair: 2 messages, 2 notifications, 3 attempts, one fault, crash or request; 270k | AckedKept, ReceiptsMatch, NotesInOnePlace, PendingResolved, InboundReturns | nothing acknowledged is lost although no move is a transaction |
| `connector_ts` | four scenes: 3 sockets and 2 frames; 2 messages in 2 lanes and 2 passes; stop and restart; overlapping refreshes; 705k | LinkWatched, QueueKept, AckedKept, OneLanePerMessage, ReceiptsMatch, NothingStuck, AuthKept | callbacks, file writes, passes and refreshes in any order |

Further configurations, for `tlc` by hand: `NonceCache.cfg` (module `MCNonceCache`: `MapsAreTight`, the cache alone);
`RelaySession_group_lost.cfg` (`MCRelaySession`), `TrustState_once.cfg` (`MCTrustState`) and
`Registry_crl.cfg` (`MCRegistry`), each of which ends with the counterexample described in section 4.

**Scenes.** Where components share a process but hardly any state, a behaviour plays
one *scene*: it restricts which inputs occur and from which states, so that each hard case
has its own bounds and all of them fit one run. A scene removes steps, it adds none, except for
`RestartConnected` of `connector_ts`, which stands for a restart followed by the steps that
connect again. In `proxy`, `LocalFirst` takes steps that touch only their own
request at once, which loses no state that the properties speak of.

**Why the bounds are enough.** Two units of clock suffice for an entry to be queued,
come due, be retried, exhaust its two attempts and expire; one more handler
than the window (`MaxInFlight`) lets a third call meet a full window; `QueueMax = 1` makes
a full queue common. Two requests are the least in which one handler's stale copy hides another's
entry. Two CRL calls let the first fetch end after the second; two tokens let a
list name one and lack the other; a list lives for two units of clock, so that it can
outlive the cache's age limit of one. One frame is
enough for the connector's handler and its loop to compete for it (a second handler takes the liveness check out of reach), and a request
of two recipients whose second row is refused exercises the rollback; channels of
one element fill at once, and a channel of 256 fills the same way. A race in the
registry needs two requests on one row and a third that looks at the outcome; a group of two
members and a token of one use are full after one join. In the proxy two copies of one
request overlap while a third follows after the nonce has expired; `Skew` is one second of two
clock units, so that rounding to seconds matters. Two pending messages in two lanes, and two
passes, are the least in which a failing lane ends a pass that another lane belongs to; that scene leaves
repeated webhook calls and unreadable files to the scene of stops and restarts.
`MaxDeliveries`, `SubmitUntil`, `MaxNow`, `MaxFrames`, `MaxDelivers`, `MaxBatch`, `MaxLag`, `MaxArrivals`, `MaxFaults`,
`MaxStops`, `SignLag`, `MaxCrashes`, `MaxRestarts`, `MaxReplays`, `MaxInputs`, `MaxBeats` and `MaxTroubles` are the bounds that
are not parameters of the program. `OneEntryPerRequest` is about request ids that
keep their sender and recipient; with two routes per id the code keeps an entry for
each, so `relay_liveness` has one route. Symmetry is used for interchangeable handlers, requests, messages,
sockets, agents and tokens, and in no run with a liveness property.

**Fairness.**
*RelaySession*: a resumed coroutine runs; the acknowledgement timer, a due alarm and
the clock are strongly fair, since a running coroutine disables them only
momentarily. No connector is assumed to connect or answer, and crashes may recur.
New calls stop at `SubmitUntil`, and `SubmitUntil + QueueTtl < MaxNow`: every entry has expired
before the horizon, so that it cuts off nothing that should happen.
*NonceReplay*: a due alarm fires, time passes.
*Proxy*: the queue keeps calling its consumer (`ConsumerNext`); nothing is assumed of requests.
*ConnectorRelay*: a task runs until it waits; a wait for room in a tokio channel is
served in turn, and `select!` picks among ready branches at random, hence the strong fairness; the
webhook call has a timeout; the heartbeat exposes a dead link; the relay can be
reached eventually. Nothing is assumed of failures, crashes, shutdown,
requests, or frames from the relay.
*ConnectorDelivery*: each of the two loops and the worker runs on, and a row becomes due; their
calls have timeouts. Whether the webhook ever answers with success is open. Nothing is assumed of
`SendDeliverAck`, since `send_frame` may wait for ever (finding 2); `InboundReturns` therefore says that
the loop returns or comes to that wait.

Deadlock is checked in every run but `proxy`, `registry`, `connector_inbound` and `connector_ts`,
whose inputs are bounded: when all requests are answered and all messages
resolved there is nothing left to do.

## 4. Findings

1. **A queued delivery is lost** (`relay_queued_lost`). `deliverToConnector`, the alarm and the drain
   load the queue, wait for an acknowledgement and save what they loaded
   (`core.ts:308`). A delivery that another call queued meanwhile, and whose sender was
   answered "queued", is erased. The same window can erase a recorded receipt, and the corresponding
   one in the trust state a ticket issued meanwhile.
2. **The connector blocks itself** (`connector_stuck`). The session awaits room in the inbound channel
   outside its `select!` (`client.rs:476`); the inbound loop awaits room in the
   outbound channel for its acknowledgement (`delivery.rs:781`). If both are full
   nobody reads either, the dead socket is never noticed, and shutdown does not end.
   PROTOCOL.md:687 requires a reconnect. `HandlersAnswered` and `ShutdownEnds` name this
   state (`CircularWait`) as their only exception.
3. **A queued group message loses its group** (`RelaySession_group_lost.cfg`, `GroupIdPreserved`).
   The queued entry is built without `groupId` (`core.ts:281`), which the retry then sends. PROTOCOL.md:490
   says that the group id is preserved on every delivery frame.
4. **A ticket is confirmed twice** (`TrustState_once.cfg`, `ConfirmedOnce`). Two confirms that overlap at
   the signature check (`handlers.ts:195`) both succeed, with different responders. A test expects 409
   for the second (`proxy-trust-state.test.ts:493`). The in-memory trust store has
   the same wait.
5. **A revoked agent's token is not listed** (`Registry_crl.cfg`, `RevokedIsListed`). A revocation reads
   the agent's token before a reissue replaces it, and lists the old one (`agents.ts:539`, `566`).
   PROTOCOL.md:800 says that the token is added to the list. The agent itself is refused
   by the registry, and the proxy hears of it through the event.

Met while modelling, and visible in the models as what a property leaves out:

- *Registry.* The undo of a registration reopens a challenge that another request has used
  (`agents.ts:465`). The limit on a human's agents is counted before the insert (`agents.ts:380`). A
  revocation that stops half way is not completed by a retry, which returns early (`agents.ts:535`), and
  one that read the agent before its session was made leaves the session open. An expired refresh token
  closes the session without looking whether it has been rotated (`agent-auth.ts:159`); tokens
  rotated by a request that then stops are lost. A starter pass can be issued again after it
  was redeemed (`onboarding.ts:191`), and then makes a second human. A bootstrap that stops after its
  first statement leaves an administrator without a key. The undo of a join removes a membership
  that another request has reported (`groups.ts:357`). Of two overlapping rotations of a service
  secret one answers with a secret that is already dead (`internal-services.ts:234`).
- *Proxy.* A nonce lives for the skew, while a timestamp is accepted for the skew to both sides
  (PROTOCOL.md:331): a request whose timestamp lies in the future can be repeated after its nonce has
  expired, so `AcceptedOnce` speaks of those that come late enough. The worker keeps nonces per isolate.
  A fixed window lets nearly twice the limit pass. A slow fetch may put older keys into the
  cache. The store in memory hears of no revocation. PROTOCOL.md:839 gives the window of a revocation as
"up to 5 minutes"; a list may be 390 s old when it is fetched, and is used for 15 minutes
while refreshes fail. A ticket or a confirmation that a waiting confirm's older copy removes or brings back
is removed or brought back in both maps alike, which `StoresAgree` allows.
- *Rust connector.* A delivered message may also get a dead-lettered receipt, which `ReceiptsMatch` allows; a replayed dead letter
  keeps its attempts; a failure between two statements leaves a message in both tables. Notifications
  in memory are lost in a crash. Receipts in a group whose members are not paired are refused
  and tried again for ever (`relay-delivery-receipt-route.ts:140`).
- *TypeScript connector.* The order within a conversation is not kept after a failed item
  (`replay.ts:257`). A crash between the record of a delivery and its receipt loses the
  receipt. A file that cannot be read is taken for empty and overwritten.
  A client that connects again while its first dial waits makes two sockets (`client.ts:323`). Refreshes
  of two kinds may write the auth file in the wrong order, which `AuthKept` exempts.

Accepted by design and therefore not stated as a property: a row taken from
the outbound queue is lost if the process stops before it is sent (`OneCopy` shows the
other side, that it is never sent twice), the capacity check of the outbound queue is
not atomic with the inserts, and a rejection of a frame that a request handler sent
is dropped with a warning.

## 5. The proofs

The theorems hold for every value of the constants that satisfies the named
assumptions: `PolicyAssumption` and `BoundAssumption` (limits are positive, what the
configuration schema enforces; finitely many handlers), `NonceAssumption`, `CrlAssumption`,
`TrustAssumption`, `ConnectorAssumption`, `DeliveryAssumption`, `ClientAssumption`, `InboxAssumption`,
ConnectorAuth's `AuthAssumption` (bounds are natural numbers, a model value that stands for "none" is none of the
others), `CacheAssumption`, `ProxyTrustAssumption`, ProxyAuth's `AuthAssumption` and `QueueAssumption` (limits are positive, a
signed request has the header fields that the middleware parses, and the nonce cache is made with the
skew as its lifetime, as the middleware does),
`RequestsAssumption`, `AccountsAssumption` and `GroupsAssumption` (identifiers made by requests
differ from those that exist at the start). Each is evaluated by TLC in the runs of its
module. Type correctness is a theorem of every module with proofs. Every inductive invariant
was model-checked on the instance of its run before it was proved.

**RelaySessionProofs.** `TypeCorrect`: `TypeOK`, with the fact that a deliver call knows
its delivery id, request and route. `NeverStranded`: `Spec => []WakeUpArmed`. The
invariant alone is not inductive, because a handler schedules the alarm from its own
copy and its own clock reading. `WakeInv` adds that no reading is ahead of
the clock (`ClocksBehind`), so a computed alarm is never too late, and that a loop which
has changed nothing, and therefore schedules without saving, has not waited either:
its copy is what is stored (`CopiesFresh`). A loop that has waited saves its copy
together with the alarm, so a stale copy may lose a delivery (finding 1) but never leaves one
without an alarm. One lemma per action; `MinOfNaturals` is the one fact about minima that this and
the other proofs about alarms need.

`MailboxLimits: Spec => []LimitsKept`, `ReceiptsBacked: Spec => []QueuedReceiptBacked` and
`EntriesOnce`, `Spec => []OneEntryPerRequest` where a request has one route. What a handler saves is its
own copy, so the invariant (`MailInv`) says of *every* copy, stored or held, that it is `Sound`: not
longer than the limit, no entry out of attempts, each queued receipt backed by an entry, and, with
one route, at most one entry per request, with a receipt that lives at least as long. The last clause is
what makes `OneEntryPerRequest` inductive: a receipt that expired first would let a second call in. Of a
handler it adds that a loop's entries are its copy's (`Working`) and that the copy of a deliver call has
no entry of its request (`Fresh`), because the receipt would have answered the call. Each operation on
a queue has a lemma (`SoundPruned`, `SoundDropped`, `SoundReceipt`, `SoundQueued`, `SoundPostponed`, ...).
The one open socket needs that what is being closed is not open (`SocketInv`), since
hibernation forgets what was being closed.

**NonceReplayProofs.** `SweepAlwaysArmed` and `Refinement: Spec => ImplementsGuard`; the
invariant adds that no call carries a reading from the future. That is what makes
the mapped step legal: a record that has expired for a late caller has expired
for the object.

**CrlCacheProofs.** `NeverMissesRevocation`, `FailClosedIsFresh`. The invariant adds that
a reply under way names everything that was listed more than `SignLag` before its stamp
(`RepliesComplete`) and that timestamps lie in the past (`ClocksBehind`). A reply that is accepted was stamped
less than `CrlTtl` before, hence the two lags; how long caches hold an answer plays no part. `FailClosed`
is a constant, so the first theorem covers fail-open as well.

**TrustStateProofs.** `CleanupAlwaysArmed`, `RevokedStaysRevoked`, and `StoresNeverDisagree` from
`TrustViewsAgree` and `NeverPendingAndConfirmed`. The invariant adds that a marker and its history agree as
long as the marker lives (`MarkersExact`) and that a waiting confirm's two copies do not
contradict each other (`CopiesConsistent`): they are saved together, so an old copy
can restore an older state but never a mixed one.

**ConnectorProofs.** Of ConnectorRelay: `TypeCorrect`, `AtMostOnce: Spec => []OneCopy`,
`RejectionsReported: Spec => []RejectionsKnown`. `OneCopy` needs only that ids not yet issued are
nowhere (`Issued`). `RejectionsKnown` needs that an answer is only ever about a frame
that was written (`AnswersWritten`), and that a frame the loop sent and saw no answer to is in the
in-flight map (`Noted`): the note precedes the send, and `OneCopy` excludes that
a failed second send removes it.

Of ConnectorDelivery: `DeliveryTypeCorrect`, `DeliveryAckedKept: DeliverySpec => []AckedKept`,
`DeliveryReceipts: DeliverySpec => []ReceiptsMatch`, `DeliveryNotes: DeliverySpec => []NotesInOnePlace`. The heart of
the argument is that two facts about a message are stable under every step, whichever prefix of its
statements a failing move has done: that it is kept (`Kept`: in a table, taken by the webhook, or purged)
and that it is still pending or resolved (`Resolved`); `RowsMove` states this once for all actions. `LoopsKnow` says
what each loop may rely on at its `pc`: the message it delivered was taken by the webhook, the one it is about to
acknowledge is kept, and every row it listed is pending or resolved since, so that a row which has gone is no reason to
report a dead letter falsely. `CommandsAwaited` says that each loop waits for at most one command of the worker, so the worker's
answer reaches the loop that sent the first one; `CommandsTrue` that the receipts under way are true;
`FlushCovers` that what the worker read, still has to post or has posted covers the file while it posts. That
one is why rewriting the file loses nothing: commands are handled one at a time. `NotesInv` adds
to `NotesInOnePlace` that a loop's two shares are disjoint and that every notification in a place has
arrived, so a new one is in none.

**RegistryProofs.** `RegistryTypeOK`, `RegistryLimitsKept`, `RegistryBootstrapStands`,
`RegistrySupersededListed`, `RegistryEventsBacked` and the action property
`RegistryNoAccessAfterRevoke`, for any number of overlapping requests that may stop
before any statement. The argument is the same for each: the invariant says what a
request at each statement has written, and why nobody else's undo or update can have removed it.
`InviteInv`: past its claim an invite's row carries the request's name. `BootInv`:
at most one bootstrap is past the insert of the administrator, so only that one undoes.
`PassInv`: claims on a pass number at most its reissues, plus its present claim. `MadeInv`: an agent's
and a session's row exist only after the registration's statement, and each is made once, which is
why what a revocation closed stays closed (`RevokeInv`). `IssuedInv`: every token of an agent is its
present one, listed, or about to be listed. `RefreshInv`: an exchanged token is no
session's any more, and new tokens bear names nobody has presented. `GroupInv`: each successful
join was counted by the guarded update of its token. An operation touches its own family of requests;
`Steady` says that the invariants of the other families carry over.

**ConnectorRuntimeProofs.** Theorems about `RuntimeSpec`, the composition: `RuntimeTypeOK`, `RuntimeAuthKept`,
`RuntimeLinkWatched`, `RuntimeQueueKept`, `RuntimeAckedKept`, `RuntimeOneLane`, `RuntimeReceiptsMatch`,
`RuntimeNothingStuck`. `RuntimeParts` splits a step into those of the three components, and each has its own
invariant. `AuthInv`: one refresh per kind is in flight (`OneFlight`), and a call that is late with its
token comes after one of another kind (`LateWrites`). `SocketInv`: nothing is under way before
connect(), and timers belong to a socket. `QueueInv`: a saved frame that was not sent is in the
file, in what is being written and, once the file was read, in the queue (`SavedEverywhere`), and
until then the queue has only frames newer than the file (`NewerThanFile`). `InboxInv`: only the
pass in flight has lanes at work as long as no transaction failed (`OthersIdle`), what a lane is about to
record did happen (`LanesTruthful`), and a flush holds all that the file has and the proxy
may not have (`FlushHolds`).

**ProxyProofs.** Theorems about `ProxySpec`, the middleware with the routes, the trust store and the queue:
`ProxyTypeCorrect`, `ProxyAdmission: ProxySpec => []AdmissionBounded`, `ProxyKeepsOut: ProxySpec => []RevokedKeptOut`,
`ProxyConfirmations: ProxySpec => []ConfirmedStands`, `ProxyEventsKept: ProxySpec => []EventsKept`,
`ProxyMapsTight: ProxySpec => []MapsAreTight` and `ProxyCacheRefines: ProxySpec => CacheImplementsGuard`. The inductive invariant `ProxyInv` has one part per
concern. `ReadingsInv`: a request that waits for its nonce read the clock at most `MaxLag` ago, and its timestamp was
within the skew of that reading. `RememberedInv`: a request whose nonce was taken less than a lifetime ago was taken once, and
the cache holds the record it left. Together they give `AcceptedOnce`: when a second copy finds the record gone, its reading
lies past the timestamp's window, unless the first one came early. `WindowsInv`: the requests that passed before the present window
began, all but those of one limit, did so a whole window before it, and if no window is open, a whole window ago; so no
`2 * MaxPerAgent` requests fit into one window. `MarkersInv`: a marker that lasts is the one that was set last, and a request was
promised no more than its agent's last marker, so that a check after its arrival finds it. `TicketsInv`: entries of both
maps, and the ticket that a confirm holds through its signature check, are the one issued under their id, so what is
written after the check expires with what was checked. `ConsumerInv`: what the consumer handles is still in the queue, and what
it acknowledges has taken effect or was refused. `EventsKept` is the safety half of
`EventsTakeEffect`. The proofs go by groups of variables: `NonceFrame`, `TrustFrame`, `AuthFrame` and `NextMoves` say which actions
change which group, so that each invariant looks at those only.

**Only model-checked.** The liveness properties (`QueueDrains`, `HandlersReturn`,
`ExpiredAreSwept`, `HandlersAnswered`, `ShutdownEnds`, `PendingResolved`, `InboundReturns`,
`EventsTakeEffect`): the proof system has no fairness reasoning. Every invariant, action property and refinement of a passing run is
a theorem.

## 6. Plan

What a further step would add: the Rust client that refreshes sessions, composed with RegistryAgents as
ConnectorAuth is; a composition of the Rust connector's two halves, whose loops share the channel of acknowledgements;
and, where the proof system allows it one day, the liveness properties, for which the inductive invariants
above are the first half.

**Not modelled**: signatures, token and DID formats, key files (stateless
computation); the CLI and the landing site (I/O); request parsing and
configuration, except for the limits they guarantee; the Rust client that refreshes sessions
(`agent_auth_client.rs`), a request of RegistryAgents followed by a write of the new tokens to disk, as
ConnectorAuth has it for the TypeScript connector; the registry's rate limit, the same
algorithm as the proxy's; the relay-connect route's upgrade, which is `Connect` of RelaySession.
