-------------------------- MODULE ConnectorClient --------------------------
(***************************************************************************)
(* The connector of the TypeScript package: its WebSocket to the relay,    *)
(* with reconnection and heartbeats, and the queue of outbound frames that *)
(* is kept on disk.  One thread runs the callbacks, so an action is what   *)
(* happens between two awaits or inside one callback.                      *)
(***************************************************************************)
EXTENDS Naturals, Sequences, FiniteSets, SequencesExt

CONSTANTS
    Sockets,        \* sockets that can be made
    MaxFrames,      \* frames that are enqueued
    MaxBeats,       \* heartbeats that wait for their answer
    MaxCrashes,     \* crashes of the process
    None            \* no socket, no file being written

ASSUME ClientAssumption ==
    /\ MaxFrames \in Nat /\ MaxBeats \in Nat /\ MaxCrashes \in Nat
    /\ None \notin Sockets

VARIABLES
    phase,          \* "new", "running" after connect(), "stopped" after disconnect()
    dials,          \* connectSocket calls that wait for the queue and the headers
    hooks,          \* rejected upgrades whose hook has not returned
    timer,          \* the reconnect timer is set
    socket,         \* the current socket
    ws,             \* socket -> its ready state
    connectTimer,   \* the connect timeout is set
    beating,        \* the heartbeat interval is set
    beats,          \* heartbeats sent that were not acknowledged
    ackTimer        \* the acknowledgement timeout is set

VARIABLES
    queue,          \* frames to send, as numbers in the order of enqueueOutbound
    disk,           \* the queue file
    load,           \* "no", "reading" or "done"
    saves,          \* saves in the chain that have not begun
    writing,        \* what the save in progress writes
    frames,         \* history: frames enqueued
    sent,           \* history: frames handed to a socket
    saved,          \* history: frames that were on disk
    unread,         \* history: the queue file could not be read once
    crashes

socketVars == <<phase, dials, hooks, timer, socket, ws, connectTimer, beating, beats, ackTimer>>
queueVars == <<queue, disk, load, saves, writing, frames, sent, saved, unread, crashes>>
clientVars == <<socketVars, queueVars>>

ClientTypeOK ==
    /\ phase \in {"new", "running", "stopped"}
    /\ dials \in Nat /\ hooks \in Nat
    /\ {timer, connectTimer, beating, ackTimer, unread} \subseteq BOOLEAN
    /\ socket \in Sockets \cup {None}
    /\ ws \in [Sockets -> {"unused", "connecting", "open", "closing", "closed"}]
    /\ beats \in 0 .. MaxBeats /\ saves \in Nat /\ crashes \in 0 .. MaxCrashes
    /\ frames \in 0 .. MaxFrames
    /\ queue \in Seq(1 .. frames) /\ disk \in Seq(1 .. frames)
    /\ writing \in Seq(1 .. frames) \cup {None}
    /\ load \in {"no", "reading", "done"}
    /\ sent \subseteq 1 .. frames /\ saved \subseteq 1 .. frames

started == phase = "running"
isConnected == socket # None /\ ws[socket] = "open"

ClientInit ==
    /\ phase = "new" /\ dials = 0 /\ hooks = 0
    /\ timer = FALSE /\ connectTimer = FALSE /\ beating = FALSE /\ ackTimer = FALSE
    /\ socket = None /\ ws = [s \in Sockets |-> "unused"] /\ beats = 0
    /\ queue = <<>> /\ disk = <<>> /\ load = "no" /\ saves = 0 /\ writing = None
    /\ frames = 0 /\ sent = {} /\ saved = {} /\ unread = FALSE /\ crashes = 0

(***************************************************************************)
(* The outbound queue                                                      *)
(***************************************************************************)
(* flush over the queue q: frames are sent until one cannot be; each one   *)
(* leaves the queue and asks for a save.  n: the saves asked for besides.  *)
Flush(q, n) ==
    \E k \in (IF isConnected THEN 0 .. Len(q) ELSE {0}) :
        /\ queue' = SubSeq(q, k + 1, Len(q))
        /\ sent' = sent \cup ToSet(SubSeq(q, 1, k))
        /\ saves' = saves + n + k

(* enqueueOutbound may be called before connect(). *)
Enqueue ==
    /\ frames < MaxFrames
    /\ frames' = frames + 1
    /\ Flush(Append(queue, frames + 1), 1)
    /\ UNCHANGED <<socketVars, disk, load, writing, saved, unread, crashes>>

(* ensureLoaded is called by connect() and by the first save. *)
LoadBegin ==
    /\ load = "no"
    /\ started \/ saves > 0
    /\ load' = "reading"
    /\ UNCHANGED <<socketVars, queue, disk, saves, writing, frames, sent, saved, unread, crashes>>

(* The frames of s that are not known, in their order. *)
Unknown(s, known) ==
    IF ToSet(s) \cap known = {} THEN s
    ELSE SelectSeq(s, LAMBDA f : f \notin known)

(* Slip: the frames of the file go behind the ones enqueued meanwhile. *)
LoadEndBehind ==
    /\ load = "reading"
    /\ load' = "done"
    /\ Flush(queue \o Unknown(disk, ToSet(queue)), 0)
    /\ UNCHANGED <<socketVars, disk, writing, frames, saved, unread, crashes>>

(* The frames of the file that are not known go in front of the ones       *)
(* enqueued meanwhile.  A file that cannot be read counts as empty.        *)
LoadEnd ==
    /\ load = "reading"
    /\ load' = "done"
    /\ \/ Flush(Unknown(disk, ToSet(queue)) \o queue, 0) /\ UNCHANGED unread
       \/ /\ disk # <<>>
          /\ Flush(queue, 0)
          /\ unread' = TRUE
    /\ UNCHANGED <<socketVars, disk, writing, frames, saved, crashes>>

(* Slip: the save does not wait for the load. *)
SaveBeginUnloaded ==
    /\ saves > 0 /\ writing = None
    /\ saves' = saves - 1
    /\ writing' = queue
    /\ UNCHANGED <<socketVars, queue, disk, load, frames, sent, saved, unread, crashes>>

(* Saves are chained, and none begins before the file was loaded. *)
SaveBegin ==
    /\ saves > 0 /\ writing = None
    /\ load = "done"
    /\ saves' = saves - 1
    /\ writing' = queue
    /\ UNCHANGED <<socketVars, queue, disk, load, frames, sent, saved, unread, crashes>>

(* A temporary file is renamed over the queue file, or the save fails. *)
SaveEnd ==
    /\ writing # None
    /\ writing' = None
    /\ \/ disk' = writing /\ saved' = saved \cup ToSet(writing)
       \/ UNCHANGED <<disk, saved>>
    /\ UNCHANGED <<socketVars, queue, load, saves, frames, sent, unread, crashes>>

(***************************************************************************)
(* The socket                                                              *)
(***************************************************************************)
(* scheduleReconnect *)
Reconnects == timer' = (timer \/ started)

(* detachSocket of the current socket, which goes to state st. *)
Detach(st) ==
    /\ socket' = None
    /\ ws' = [ws EXCEPT ![socket] = st]
    /\ connectTimer' = FALSE /\ beating' = FALSE /\ ackTimer' = FALSE /\ beats' = 0

(* connect().  The runtime calls it once.  (The code also lets a client    *)
(* connect again after disconnect(); a dial of the first connect() that    *)
(* still waits would then make a second socket.)                           *)
Connect ==
    /\ phase = "new"
    /\ phase' = "running"
    /\ dials' = dials + 1
    /\ UNCHANGED <<hooks, timer, socket, ws, connectTimer, beating, beats, ackTimer, queueVars>>

Disconnect ==
    /\ started
    /\ phase' = "stopped"
    /\ timer' = FALSE
    /\ IF socket = None
       THEN UNCHANGED <<socket, ws, connectTimer, beating, beats, ackTimer>>
       ELSE Detach("closing")
    /\ UNCHANGED <<dials, hooks, queueVars>>

(* Slip: connectSocket does not look again whether it is still wanted. *)
DialUnasked ==
    /\ dials > 0 /\ load = "done"
    /\ dials' = dials - 1
    /\ \E s \in Sockets : /\ ws[s] = "unused"
                          /\ socket' = s /\ ws' = [ws EXCEPT ![s] = "connecting"]
    /\ connectTimer' = TRUE
    /\ UNCHANGED <<phase, hooks, timer, beating, beats, ackTimer, queueVars>>

(* connectSocket once the queue is loaded: the headers cannot be made, or  *)
(* the socket cannot, or it is there; or disconnect() was called meanwhile. *)
Dial ==
    /\ dials > 0 /\ load = "done"
    /\ dials' = dials - 1
    /\ \/ Reconnects /\ UNCHANGED <<socket, ws, connectTimer>>
       \/ /\ started
          /\ \E s \in Sockets : /\ ws[s] = "unused"
                                /\ socket' = s /\ ws' = [ws EXCEPT ![s] = "connecting"]
          /\ connectTimer' = TRUE
          /\ UNCHANGED timer
    /\ UNCHANGED <<phase, hooks, beating, beats, ackTimer, queueVars>>

ReconnectTimer ==
    /\ timer
    /\ timer' = FALSE
    /\ dials' = dials + 1
    /\ UNCHANGED <<phase, hooks, socket, ws, connectTimer, beating, beats, ackTimer, queueVars>>

(* onOpen; a socket that is not current is ignored. *)
Opens(s) ==
    /\ ws[s] = "connecting"
    /\ ws' = [ws EXCEPT ![s] = "open"]
    /\ IF s = socket
       THEN /\ connectTimer' = FALSE /\ beating' = TRUE /\ ackTimer' = FALSE /\ beats' = 0
            /\ \E k \in 0 .. Len(queue) :
                  /\ queue' = SubSeq(queue, k + 1, Len(queue))
                  /\ sent' = sent \cup ToSet(SubSeq(queue, 1, k))
                  /\ saves' = saves + k
       ELSE UNCHANGED <<connectTimer, beating, ackTimer, beats, queue, sent, saves>>
    /\ UNCHANGED <<phase, dials, hooks, timer, socket, disk, load, writing, frames, saved, unread, crashes>>

(* The peer begins to close: the ready state changes before any event. *)
PeerCloses(s) ==
    /\ ws[s] \in {"connecting", "open"}
    /\ ws' = [ws EXCEPT ![s] = "closing"]
    /\ UNCHANGED <<phase, dials, hooks, timer, socket, connectTimer, beating, beats, ackTimer, queueVars>>

(* onClose *)
Closes(s) ==
    /\ ws[s] \in {"connecting", "open", "closing"}
    /\ IF s = socket THEN Detach("closed") /\ Reconnects
       ELSE /\ ws' = [ws EXCEPT ![s] = "closed"]
            /\ UNCHANGED <<timer, socket, connectTimer, beating, beats, ackTimer>>
    /\ UNCHANGED <<phase, dials, hooks, queueVars>>

(* onError of a socket that is neither open nor connecting, when no close  *)
(* event may follow; before that an error only means that one will.        *)
Errors ==
    /\ socket # None /\ ws[socket] \in {"closing", "closed"}
    /\ Detach("closed") /\ Reconnects
    /\ UNCHANGED <<phase, dials, hooks, queueVars>>

(* handleUnexpectedResponse: a 401 waits for its hook before it reconnects. *)
UpgradeRejected ==
    /\ socket # None /\ ws[socket] = "connecting"
    /\ Detach("closing")
    /\ \/ hooks' = hooks + 1 /\ UNCHANGED timer
       \/ Reconnects /\ UNCHANGED hooks
    /\ UNCHANGED <<phase, dials, queueVars>>

HookReturns ==
    /\ hooks > 0
    /\ hooks' = hooks - 1
    /\ Reconnects
    /\ UNCHANGED <<phase, dials, socket, ws, connectTimer, beating, beats, ackTimer, queueVars>>

ConnectTimeout ==
    /\ connectTimer
    /\ Detach("closing") /\ Reconnects
    /\ UNCHANGED <<phase, dials, hooks, queueVars>>

(* The heartbeat is sent, and waits for its answer, on an open socket only. *)
Heartbeat ==
    /\ beating /\ isConnected /\ beats < MaxBeats
    /\ beats' = beats + 1
    /\ ackTimer' = TRUE
    /\ UNCHANGED <<phase, dials, hooks, timer, socket, ws, connectTimer, beating, queueVars>>

(* Slip: the timeout is cleared by any answer and set by the next heartbeat. *)
HeartbeatAckUntimed ==
    /\ beats > 0 /\ isConnected
    /\ beats' = beats - 1
    /\ ackTimer' = FALSE
    /\ UNCHANGED <<phase, dials, hooks, timer, socket, ws, connectTimer, beating, queueVars>>

(* handleHeartbeatAck: the timeout is set again for the ones still out. *)
HeartbeatAck ==
    /\ beats > 0 /\ isConnected
    /\ beats' = beats - 1
    /\ ackTimer' = (beats > 1)
    /\ UNCHANGED <<phase, dials, hooks, timer, socket, ws, connectTimer, beating, queueVars>>

(* handleHeartbeatAckTimeout, when the oldest is overdue. *)
HeartbeatAckTimeout ==
    /\ ackTimer
    /\ Detach("closing") /\ Reconnects
    /\ UNCHANGED <<phase, dials, hooks, queueVars>>

(* The process dies and is started again; only the file stays. *)
Crash ==
    /\ crashes < MaxCrashes
    /\ crashes' = crashes + 1
    /\ phase' = "new" /\ dials' = 0 /\ hooks' = 0
    /\ timer' = FALSE /\ connectTimer' = FALSE /\ beating' = FALSE /\ ackTimer' = FALSE
    /\ socket' = None /\ beats' = 0
    /\ ws' = [s \in Sockets |-> IF ws[s] = "unused" THEN "unused" ELSE "closed"]
    /\ queue' = <<>> /\ load' = "no" /\ saves' = 0 /\ writing' = None
    /\ UNCHANGED <<disk, frames, sent, saved, unread>>

ClientNext ==
    \/ Enqueue \/ LoadBegin \/ LoadEnd \/ SaveBegin \/ SaveEnd
    \/ Connect \/ Disconnect \/ Dial \/ ReconnectTimer
    \/ \E s \in Sockets : Opens(s) \/ PeerCloses(s) \/ Closes(s)
    \/ Errors \/ UpgradeRejected \/ HookReturns \/ ConnectTimeout
    \/ Heartbeat \/ HeartbeatAck \/ HeartbeatAckTimeout

(***************************************************************************)
(* Properties                                                              *)
(***************************************************************************)
(* Between connect() and disconnect() the client has exactly one way on: a *)
(* socket, a dial under way, a hook it waits for, or the reconnect timer.  *)
(* With none it would stay offline for good; with two it would come to     *)
(* hold two sockets and forget one of them.  Afterwards it has neither a   *)
(* socket nor a timer (client.ts, socket-session.ts).                      *)
OneWayOn ==
    LET ways == dials + hooks + (IF timer THEN 1 ELSE 0) + (IF socket # None THEN 1 ELSE 0)
    IN  IF started THEN ways = 1 ELSE socket = None /\ ~timer

(* A current socket that falls silent is noticed: while it connects the    *)
(* connect timeout is set, once it is open heartbeats are sent, and while  *)
(* one is unanswered the acknowledgement timeout is set (heartbeat.ts).    *)
SilenceNoticed ==
    socket # None =>
        /\ ws[socket] = "connecting" => connectTimer
        /\ ws[socket] = "open" => beating
        /\ beats > 0 => ackTimer

(* The client is never without a way on that will make itself heard:       *)
(* OneWayOn and SilenceNoticed, through closes, errors, refused upgrades   *)
(* and a disconnect() that meets a dial under way.                         *)
LinkWatched == OneWayOn /\ SilenceNoticed

(* The queue holds frames once and in the order of enqueueOutbound, those  *)
(* of an earlier process first, although new ones may come before the file *)
(* is read (queue.ts; PROTOCOL.md:698, "flushed in order").                *)
QueueInOrder == \A i, j \in DOMAIN queue : i < j => queue[i] < queue[j]

(* A frame that was once written to the file is not lost before it is      *)
(* sent, whatever crashes: the file is not written before it was read.     *)
(* (A file that cannot be read is taken for empty and then overwritten.)   *)
SavedNotLost == ~unread => saved \subseteq sent \cup ToSet(queue) \cup ToSet(disk)

(* The promise of PROTOCOL.md:698-700 for the outbound queue, "flushed in  *)
(* order" and "survive connector restarts": QueueInOrder and SavedNotLost. *)
QueueKept == QueueInOrder /\ SavedNotLost
=============================================================================
