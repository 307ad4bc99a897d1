--------------------------- MODULE ConnectorRelay ---------------------------
(***************************************************************************)
(* The Rust connector's way to the relay: the local POST /v1/outbound       *)
(* handlers, the durable outbound queue, the flush loop, the relay client   *)
(* with its two bounded channels, and the inbound loop that answers what    *)
(* the client reads (crates/clawdentity-core/src/connector, runtime, db and  *)
(* crates/clawdentity-cli/src/commands/connector).                           *)
(*                                                                         *)
(* All are tokio tasks of one process.  A step ends where a task awaits or  *)
(* releases the SQLite mutex.  The queue and its dead letters are on disk,   *)
(* everything else is memory and is lost with the process.  Clock readings  *)
(* are abstracted: a message may be found expired whenever it is taken, and  *)
(* a postponed one becomes due again at any later time.                     *)
(***************************************************************************)
EXTENDS Integers, Sequences, FiniteSets

CONSTANTS
    Handlers,     \* concurrent POST /v1/outbound requests
    Loop,         \* the outbound flush loop
    MaxFrames,    \* bound: frame ids ever enqueued
    MaxBatch,     \* bound: recipients of one request (1: direct, more: a group)
    MaxPending,   \* CONNECTOR_OUTBOUND_MAX_PENDING
    FlushBatch,   \* OUTBOUND_FLUSH_BATCH_SIZE
    MaxAttempts,  \* OutboundRetryPolicy.max_attempts
    OutCap,       \* capacity of the outbound channel (256)
    InCap,        \* capacity of the inbound channel (256)
    Pushed        \* kinds of frame the relay sends unasked

ASSUME ConnectorAssumption ==
    /\ Loop \notin Handlers
    /\ MaxFrames \in Nat
    /\ MaxBatch \in Nat \ {0}
    /\ MaxPending \in Nat \ {0}
    /\ FlushBatch \in Nat \ {0}
    /\ MaxAttempts \in Nat \ {0}
    /\ OutCap \in Nat \ {0}
    /\ InCap \in Nat \ {0}
    /\ Pushed \subseteq {"deliver", "receipt"}

VARIABLES
    queue,    \* durable: the ids in outbound_queue
    later,    \* durable: those of them whose next_attempt_at_ms lies ahead
    attempts, \* durable: attempt_count
    dead,     \* durable: the ids in outbound_dead_letter
    nextId,   \* the next frame id
    task,     \* the handlers and the flush loop
    client,   \* the relay client task and its socket
    outCh,    \* the channel to the client: frame ids, or Ack
    inCh,     \* the channel from the client: frames
    inb,      \* the inbound loop
    inflight, \* the map from sent frame ids to their recipients
    stopping, \* the shutdown signal was given
    wire,     \* frames the relay has received on this socket and not answered
    written,  \* history: frames given to a socket
    byLoop,   \* history: frames the flush loop has sent and this process saw no answer to
    dropped   \* history: those of them whose rejection was dropped as unknown

db == <<queue, later, attempts, dead>>
history == <<written, byLoop, dropped>>
vars == <<db, nextId, task, client, outCh, inCh, inb, inflight, stopping, wire, history>>

Ids == 1 .. MaxFrames
Tasks == Handlers \cup {Loop}

\* A deliver_ack in the outbound channel; it belongs to no queued frame.
Ack == 0

Frame == [kind : {"deliver", "receipt", "accepted", "rejected"}, id : Ids \cup {0}]

TaskState ==
    [at : {"idle", "insert", "rollback", "flush", "send", "stopped"},
     n : Nat,              \* recipients still to insert, or rounds left in the flush
     mine : SUBSET Ids,    \* rows inserted for a request
     id : Ids \cup {0}]    \* the frame taken from the queue

ClientState ==
    [at : {"connecting", "select", "push", "stopped"},
     link : {"none", "up", "dead"},
     frame : Seq(Frame)]   \* the frame to push, if any

IdleTask == [at |-> "idle", n |-> 0, mine |-> {}, id |-> 0]

\* A flush of at most n frames.
Flushing(n) == [at |-> "flush", n |-> n, mine |-> {}, id |-> 0]

\* metrics.connected: set for the duration of a socket session.
Connected == client.at \in {"select", "push"}

-----------------------------------------------------------------------------
(* POST /v1/outbound *)

\* The request is valid, its recipients are known and there is room for them; a
\* count the store refuses is taken as zero.
Post(h, n) ==
    /\ task[h].at = "idle" /\ ~stopping
    /\ nextId \in Ids    \* bound: there is an id left
    /\ \E pending \in {Cardinality(queue), 0} : MaxPending - pending >= n
    /\ task' = [task EXCEPT ![h] = [at |-> "insert", n |-> n, mine |-> {}, id |-> 0]]
    /\ UNCHANGED <<db, nextId, client, outCh, inCh, inb, inflight, stopping, wire, history>>

\* enqueue_outbound for the next recipient.
Insert(h) ==
    LET t == task[h] IN
    /\ t.at = "insert" /\ nextId \in Ids
    /\ queue' = queue \cup {nextId}
    /\ nextId' = nextId + 1
    /\ task' = [task EXCEPT ![h] =
          IF t.n > 1
          THEN [t EXCEPT !.n = @ - 1, !.mine = @ \cup {nextId}]
          ELSE Flushing(Cardinality(t.mine) + 1)]
    /\ UNCHANGED <<later, attempts, dead, client, outCh, inCh, inb, inflight, stopping,
                   wire, history>>

\* The store refuses a row.
InsertFails(h) ==
    /\ task[h].at = "insert"
    /\ task' = [task EXCEPT ![h] = [at |-> "rollback", n |-> 0, mine |-> @.mine, id |-> 0]]
    /\ UNCHANGED <<db, nextId, client, outCh, inCh, inb, inflight, stopping, wire, history>>

\* The rows of the request are deleted one by one, where they are still queued and
\* the store lets them; then the request is answered with the error.
Rollback(h) ==
    LET t == task[h] IN
    /\ t.at = "rollback"
    /\ \/ /\ t.mine = {}
          /\ task' = [task EXCEPT ![h] = IdleTask]
          /\ UNCHANGED db
       \/ /\ \E id \in t.mine :
                /\ \A j \in t.mine : id <= j
                /\ queue' \in {queue, queue \ {id}}
                /\ task' = [task EXCEPT ![h].mine = @ \ {id}]
          /\ later' = later \cap queue'
          /\ UNCHANGED <<attempts, dead>>
    /\ UNCHANGED <<nextId, client, outCh, inCh, inb, inflight, stopping, wire, history>>

-----------------------------------------------------------------------------
(* flush_outbound_queue_to_relay_with_send_observer, in a handler or the loop *)

LoopTick ==
    /\ task[Loop].at = "idle" /\ Connected
    /\ task' = [task EXCEPT ![Loop] = Flushing(FlushBatch)]
    /\ UNCHANGED <<db, nextId, client, outCh, inCh, inb, inflight, stopping, wire, history>>

Due == queue \ later

NextRound(x) == Flushing(task[x].n - 1)

\* The first due row: fresh ones in the order of their creation; where a
\* postponed one comes among them depends on the clock.
First(id) ==
    /\ id \in Due
    /\ attempts[id] = 0 => \A j \in Due : attempts[j] = 0 => id <= j

\* The next round of the flush takes this row.  take_due_outbound deletes it; what
\* follows up to the next wait concerns no other task and is the same step.
Takes(x, id) ==
    /\ task[x].at = "flush" /\ task[x].n > 0 /\ Connected
    /\ First(id)

\* Slip: the row is deleted after the frame was sent, that is, not here.
OfferKeeps(x, id) ==
    /\ Takes(x, id)
    /\ task' = [task EXCEPT ![x] = [at |-> "send", n |-> @.n, mine |-> {}, id |-> id]]
    /\ inflight' = IF x = Loop THEN inflight \cup {id} ELSE inflight
    /\ UNCHANGED <<db, nextId, client, outCh, inCh, inb, stopping, wire, history>>

\* Slip: the frame is not noted as in flight.
OfferUnnoted(x, id) ==
    /\ Takes(x, id)
    /\ queue' = queue \ {id}
    /\ task' = [task EXCEPT ![x] = [at |-> "send", n |-> @.n, mine |-> {}, id |-> id]]
    /\ UNCHANGED <<later, attempts, dead, nextId, client, outCh, inCh, inb, inflight,
                   stopping, wire, history>>

\* The row is deleted before its frame is sent.  The flush loop, and only it, notes
\* the frame as in flight; then the task waits for room in the channel.
Offer(x, id) ==
    /\ Takes(x, id)
    /\ queue' = queue \ {id}
    /\ task' = [task EXCEPT ![x] = [at |-> "send", n |-> @.n, mine |-> {}, id |-> id]]
    /\ inflight' = IF x = Loop THEN inflight \cup {id} ELSE inflight
    /\ UNCHANGED <<later, attempts, dead, nextId, client, outCh, inCh, inb, stopping, wire,
                   history>>

\* The row has expired, or does not parse.
DeadLetter(x, id) ==
    /\ Takes(x, id)
    /\ queue' = queue \ {id}
    /\ dead' = dead \cup {id}
    /\ task' = [task EXCEPT ![x] = NextRound(x)]
    /\ UNCHANGED <<later, attempts, nextId, client, outCh, inCh, inb, inflight, stopping,
                   wire, history>>

\* The store does not accept the dead letter and the row is lost.  The flush ends with
\* the error, or goes on if the row did not parse.
DeadLetterFails(x, id) ==
    /\ Takes(x, id)
    /\ queue' = queue \ {id}
    /\ \/ task' = [task EXCEPT ![x] = IdleTask]
       \/ task' = [task EXCEPT ![x] = NextRound(x)]
    /\ UNCHANGED <<later, attempts, dead, nextId, client, outCh, inCh, inb, inflight,
                   stopping, wire, history>>

Send(x) ==
    /\ task[x].at = "send" /\ client.at # "stopped"
    /\ Len(outCh) < OutCap
    /\ outCh' = Append(outCh, task[x].id)
    /\ byLoop' = IF x = Loop THEN byLoop \cup {task[x].id} ELSE byLoop
    /\ task' = [task EXCEPT ![x] = NextRound(x)]
    /\ UNCHANGED <<db, nextId, client, inCh, inb, inflight, stopping, wire, written, dropped>>

\* The client is gone: the row is stored again for a later attempt, which ends
\* the flush, or becomes a dead letter.
SendFails(x) ==
    LET id == task[x].id IN
    /\ task[x].at = "send" /\ client.at = "stopped"
    /\ inflight' = IF x = Loop THEN inflight \ {id} ELSE inflight
    /\ \/ /\ attempts[id] + 1 >= MaxAttempts
          /\ dead' = dead \cup {id}
          /\ task' = [task EXCEPT ![x] = NextRound(x)]
          /\ UNCHANGED <<queue, later, attempts>>
       \/ /\ attempts[id] + 1 < MaxAttempts
          /\ queue' = queue \cup {id}
          /\ later' = later \cup {id}
          /\ attempts' = [attempts EXCEPT ![id] = @ + 1]
          /\ task' = [task EXCEPT ![x] = IdleTask]
          /\ UNCHANGED dead
    /\ UNCHANGED <<nextId, client, outCh, inCh, inb, stopping, wire, history>>

\* The store fails: the flush ends with the error, and a row it holds is lost.
StoreFails(x) ==
    LET t == task[x] IN
    /\ t.at = "flush" \/ (t.at = "send" /\ client.at = "stopped")
    /\ inflight' = IF x = Loop /\ t.at = "send" THEN inflight \ {t.id} ELSE inflight
    /\ task' = [task EXCEPT ![x] = IdleTask]
    /\ UNCHANGED <<db, nextId, client, outCh, inCh, inb, stopping, wire, history>>

\* The local agent closes its request while the handler waits for room: the server
\* drops the handler, and the row it has taken is lost.
Abandon(h) ==
    /\ task[h].at = "send"
    /\ task' = [task EXCEPT ![h] = IdleTask]
    /\ UNCHANGED <<db, nextId, client, outCh, inCh, inb, inflight, stopping, wire, history>>

\* Slip: the flush waits for the connection to come back.
FlushWaits(x) ==
    /\ task[x].at = "flush"
    /\ task[x].n = 0 \/ Due = {}
    /\ task' = [task EXCEPT ![x] = IdleTask]
    /\ UNCHANGED <<db, nextId, client, outCh, inCh, inb, inflight, stopping, wire, history>>

\* The flush has sent its share, finds nothing due or no connection; a handler
\* then answers that the request is accepted.
FlushEnds(x) ==
    /\ task[x].at = "flush"
    /\ task[x].n = 0 \/ ~Connected \/ Due = {}
    /\ task' = [task EXCEPT ![x] = IdleTask]
    /\ UNCHANGED <<db, nextId, client, outCh, inCh, inb, inflight, stopping, wire, history>>

LoopStops ==
    /\ task[Loop].at = "idle" /\ stopping
    /\ task' = [task EXCEPT ![Loop].at = "stopped"]
    /\ UNCHANGED <<db, nextId, client, outCh, inCh, inb, inflight, stopping, wire, history>>

BecomesDue(id) ==
    /\ id \in later
    /\ later' = later \ {id}
    /\ UNCHANGED <<queue, attempts, dead, nextId, task, client, outCh, inCh, inb, inflight,
                   stopping, wire, history>>

-----------------------------------------------------------------------------
(* The relay client: run_connector_loop and run_socket_session *)

Offline(at) == [at |-> at, link |-> "none", frame |-> <<>>]

Connect ==
    /\ client.at = "connecting"
    /\ client' = [at |-> "select", link |-> "up", frame |-> <<>>]
    /\ UNCHANGED <<db, nextId, task, outCh, inCh, inb, inflight, stopping, wire, history>>

\* The connection breaks.  Nobody has noticed yet.
LinkDies ==
    /\ Connected /\ client.link = "up"
    /\ client' = [client EXCEPT !.link = "dead"]
    /\ wire' = {}
    /\ UNCHANGED <<db, nextId, task, outCh, inCh, inb, inflight, stopping, history>>

\* The first frame of the channel is written.  On a broken connection it is lost,
\* whether or not the write reports it.
SessionSends ==
    LET f == Head(outCh) IN
    /\ client.at = "select" /\ outCh # <<>>
    /\ outCh' = Tail(outCh)
    /\ written' = written \cup ({f} \ {Ack})
    /\ \/ /\ client.link = "up"
          /\ wire' = wire \cup ({f} \ {Ack})
          /\ UNCHANGED client
       \/ /\ client.link = "dead"
          /\ client' \in {client, Offline("connecting")}
          /\ UNCHANGED wire
    /\ UNCHANGED <<db, nextId, task, inCh, inb, inflight, stopping, byLoop, dropped>>

\* What the relay may send: deliveries, receipts, and one answer to each frame.
Incoming == [kind : Pushed, id : {0}]
            \cup [kind : {"accepted", "rejected"}, id : wire]

\* handle_incoming_frame: the session waits for room in the inbound channel.
SessionReads(f) ==
    /\ client.at = "select" /\ client.link = "up"
    /\ f \in Incoming
    /\ client' = [client EXCEPT !.at = "push", !.frame = <<f>>]
    /\ wire' = wire \ {f.id}
    /\ UNCHANGED <<db, nextId, task, outCh, inCh, inb, inflight, stopping, history>>

\* Slip: the session waits although nobody will ever read the channel.
SessionPushesOnly ==
    /\ client.at = "push"
    /\ Len(inCh) < InCap
    /\ inCh' = inCh \o client.frame
    /\ client' = [client EXCEPT !.at = "select", !.frame = <<>>]
    /\ UNCHANGED <<db, nextId, task, outCh, inb, inflight, stopping, wire, history>>

\* There is room, or the inbound loop has ended and the frame is dropped.
SessionPushes ==
    /\ client.at = "push"
    /\ \/ Len(inCh) < InCap /\ inCh' = inCh \o client.frame
       \/ inb = "stopped" /\ UNCHANGED inCh
    /\ client' = [client EXCEPT !.at = "select", !.frame = <<>>]
    /\ UNCHANGED <<db, nextId, task, outCh, inb, inflight, stopping, wire, history>>

\* The session ends: the relay closed, a read or the heartbeat's write failed, a
\* frame did not parse, or a heartbeat stayed unanswered.  All of these are noticed
\* in the select only.
SessionEnds ==
    /\ client.at = "select"
    /\ client' = Offline("connecting")
    /\ wire' = {}
    /\ UNCHANGED <<db, nextId, task, outCh, inCh, inb, inflight, stopping, history>>

\* The client sees the shutdown signal; what its channel holds is dropped.
ClientStops ==
    /\ client.at \in {"connecting", "select"} /\ stopping
    /\ client' = Offline("stopped")
    /\ outCh' = <<>>
    /\ wire' = {}
    /\ UNCHANGED <<db, nextId, task, inCh, inb, inflight, stopping, history>>

-----------------------------------------------------------------------------
(* The inbound loop: run_inbound_loop, handle_connector_frame *)

\* A frame is received.  An answer to a frame in flight removes it from the map;
\* a rejection of one becomes a receipt, one of an unknown frame is dropped.
Receive ==
    LET f == Head(inCh)
        known == f.id \in inflight IN
    /\ inb = "recv" /\ inCh # <<>>
    /\ inCh' = Tail(inCh)
    /\ inflight' = inflight \ {f.id}
    /\ inb' = CASE f.kind = "deliver" -> "deliver"
                [] f.kind = "receipt" \/ (f.kind = "rejected" /\ known) -> "notify"
                [] OTHER -> "recv"
    /\ byLoop' = byLoop \ {f.id}
    /\ dropped' = IF f.kind = "rejected" /\ ~known THEN dropped \cup (byLoop \cap {f.id})
                  ELSE dropped
    /\ UNCHANGED <<db, nextId, task, client, outCh, stopping, wire, written>>

\* The webhook has answered, or the call has failed; a delivery is acknowledged
\* next.
HookEnds ==
    /\ inb \in {"deliver", "notify"}
    /\ inb' = IF inb = "deliver" THEN "ack" ELSE "recv"
    /\ UNCHANGED <<db, nextId, task, client, outCh, inCh, inflight, stopping, wire, history>>

\* send_deliver_ack: waits for room in the outbound channel, or fails.
SendAck ==
    /\ inb = "ack" /\ inb' = "recv"
    /\ \/ client.at # "stopped" /\ Len(outCh) < OutCap /\ outCh' = Append(outCh, Ack)
       \/ client.at = "stopped" /\ UNCHANGED outCh
    /\ UNCHANGED <<db, nextId, task, client, inCh, inflight, stopping, wire, history>>

InboundStops ==
    /\ inb = "recv" /\ stopping
    /\ inb' = "stopped"
    /\ UNCHANGED <<db, nextId, task, client, outCh, inCh, inflight, stopping, wire, history>>

-----------------------------------------------------------------------------
(* The process *)

\* Memory as a new process finds it.
Fresh ==
    /\ task' = [x \in Tasks |-> IdleTask]
    /\ client' = Offline("connecting")
    /\ outCh' = <<>> /\ inCh' = <<>>
    /\ inb' = "recv"
    /\ inflight' = {} /\ wire' = {} /\ byLoop' = {}
    /\ stopping' = FALSE
    /\ UNCHANGED <<db, nextId, written, dropped>>

Shutdown ==
    /\ ~stopping /\ stopping' = TRUE
    /\ UNCHANGED <<db, nextId, task, client, outCh, inCh, inb, inflight, wire, history>>

\* start_connector_runtime has awaited the server and the loops, though not the
\* client; the connector is started again.
Exit ==
    /\ stopping /\ inb = "stopped"
    /\ task[Loop].at = "stopped" /\ \A h \in Handlers : task[h].at = "idle"
    /\ Fresh

Crash == Fresh

Init ==
    /\ queue = {} /\ later = {} /\ dead = {}
    /\ attempts = [id \in Ids |-> 0]
    /\ nextId = 1
    /\ task = [x \in Tasks |-> IdleTask]
    /\ client = Offline("connecting")
    /\ outCh = <<>> /\ inCh = <<>>
    /\ inb = "recv"
    /\ inflight = {} /\ wire = {}
    /\ stopping = FALSE
    /\ written = {} /\ byLoop = {} /\ dropped = {}

Flush(x) ==
    \/ \E id \in Ids : Offer(x, id) \/ DeadLetter(x, id)
    \/ SendFails(x) \/ FlushEnds(x)

Next ==
    \/ \E h \in Handlers, n \in 1 .. MaxBatch : Post(h, n)
    \/ \E h \in Handlers : Insert(h) \/ InsertFails(h) \/ Rollback(h) \/ Abandon(h)
    \/ \E x \in Tasks : Flush(x) \/ Send(x) \/ StoreFails(x)
    \/ \E x \in Tasks, id \in Ids : DeadLetterFails(x, id)
    \/ LoopTick \/ LoopStops
    \/ \E id \in Ids : BecomesDue(id)
    \/ Connect \/ LinkDies \/ SessionSends \/ SessionPushes
    \/ SessionEnds \/ ClientStops
    \/ \E f \in Frame : SessionReads(f)
    \/ Receive \/ HookEnds \/ SendAck \/ InboundStops
    \/ Shutdown \/ Exit \/ Crash

Spec == Init /\ [][Next]_vars

\* A task runs until it waits.  A wait for room in a channel is served in turn, and
\* a select picks among its ready branches at random, so neither is passed over for
\* ever.  The webhook call has a timeout, the heartbeat exposes a dead connection,
\* and the relay can be reached again.
Fairness ==
    /\ \A h \in Handlers : WF_vars(Insert(h) \/ InsertFails(h) \/ Rollback(h) \/ Flush(h))
    /\ WF_vars(Flush(Loop))
    /\ \A x \in Tasks : SF_vars(Send(x))
    /\ WF_vars(Connect \/ SessionPushes \/ (client.link = "dead" /\ SessionEnds))
    /\ SF_vars(SessionSends)
    /\ WF_vars(Receive \/ HookEnds)
    /\ SF_vars(SendAck)
    /\ SF_vars(LoopStops) /\ SF_vars(ClientStops) /\ SF_vars(InboundStops)
    /\ WF_vars(Exit)

FairSpec == Spec /\ Fairness

-----------------------------------------------------------------------------
(* Properties *)

TypeOK ==
    /\ queue \subseteq Ids /\ later \subseteq queue /\ dead \subseteq Ids
    /\ attempts \in [Ids -> 0 .. MaxAttempts - 1]
    /\ nextId \in 1 .. MaxFrames + 1
    /\ task \in [Tasks -> TaskState]
    /\ client \in ClientState
    /\ outCh \in Seq(Ids \cup {Ack}) /\ Len(outCh) <= OutCap
    /\ inCh \in Seq(Frame) /\ Len(inCh) <= InCap
    /\ inb \in {"recv", "deliver", "notify", "ack", "stopped"}
    /\ inflight \subseteq Ids /\ wire \subseteq Ids
    /\ stopping \in BOOLEAN
    /\ written \subseteq Ids /\ byLoop \subseteq Ids /\ dropped \subseteq Ids

\* The frames a task has taken from the queue and not yet passed on.
Held(x) == IF task[x].at = "send" THEN {task[x].id} ELSE {}

Channelled == {outCh[i] : i \in 1 .. Len(outCh)} \ {Ack}

\* However many handlers flush beside the loop, and wherever the process stops, a
\* frame is in one place only: queued, a dead letter, held by one task, in the
\* channel once, or written.  It is written to a socket at most once, and a frame
\* reported as a dead letter was not sent.
OneCopy ==
    /\ \A x \in Tasks : Held(x) \cap (queue \cup dead \cup Channelled \cup written) = {}
    /\ \A x, y \in Tasks : x # y => Held(x) \cap Held(y) = {}
    /\ Channelled \cap (queue \cup dead \cup written) = {}
    /\ \A i, j \in 1 .. Len(outCh) : outCh[i] = outCh[j] /\ outCh[i] # Ack => i = j
    /\ queue \cap (dead \cup written) = {}
    /\ dead \cap written = {}

\* The relay's rejection of a frame that the flush loop sent is never dropped as
\* unknown, even when it arrives before send_frame has returned to the loop: it
\* reaches the local agent as a receipt.
RejectionsKnown == dropped = {}

\* The session waits for the inbound loop and the inbound loop for the session.
CircularWait ==
    /\ client.at = "push" /\ Len(inCh) = InCap
    /\ inb = "ack" /\ Len(outCh) = OutCap

\* A POST /v1/outbound request is answered, whatever the relay, the flush loop
\* and a shutdown do, unless the two channels are full against each other.
HandlersAnswered ==
    \A h \in Handlers : task[h].at # "idle" ~> task[h].at = "idle" \/ CircularWait

\* A shutdown signal ends the process, with the same exception.
ShutdownEnds == stopping ~> ~stopping \/ CircularWait

\* PROTOCOL.md 8.6: the connector attempts to reconnect when the socket is lost.
Reconnects ==
    client.link = "dead" ~> client.at \in {"connecting", "stopped"}
=============================================================================
