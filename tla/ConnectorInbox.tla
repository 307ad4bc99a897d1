--------------------------- MODULE ConnectorInbox ---------------------------
(***************************************************************************)
(* What the connector of the TypeScript package does with an inbound       *)
(* message: it is stored in an SQLite inbox and acknowledged; a replay     *)
(* pass posts the due ones to the delivery webhook, one lane per           *)
(* conversation, and records the outcome; a receipt goes to an outbox file *)
(* that is flushed to the proxy.  Every write of the inbox is one          *)
(* transaction under a write lock.                                         *)
(***************************************************************************)
EXTENDS Naturals, Sequences, FiniteSets, SequencesExt, FiniteSetsExt

CONSTANTS
    Messages,       \* request ids
    Lanes,          \* conversations, and the lane of those without one
    Passes,         \* replay passes that can have lanes running
    BatchSize,      \* batchSize of the replay policy
    MaxPending,     \* inboxMaxMessages
    MaxTries,       \* runtimeReplayMaxAttempts
    DeadAfter,      \* deadLetterNonRetryableMaxAttempts
    MaxInputs,      \* deliver frames accepted and requests for dead letters
    MaxRestarts,    \* times the process is started again
    Nobody          \* no pass, no message, nobody

ASSUME InboxAssumption ==
    /\ BatchSize \in Nat \ {0} /\ MaxPending \in Nat \ {0}
    /\ MaxTries \in Nat \ {0} /\ DeadAfter \in Nat \ {0}
    /\ MaxInputs \in Nat /\ MaxRestarts \in Nat
    /\ Nobody \notin Passes \cup Nat
    /\ IsFiniteSet(Messages)

VARIABLES
    laneOf,         \* message -> its lane
    pending,        \* inbox_pending: message -> attempts, or Nobody
    dead,           \* inbox_dead_letter: message -> attempts, or Nobody
    due,            \* pending messages whose next attempt is due
    current,        \* the pass replayInFlight stands for
    work,           \* pass, lane -> the items of the lane and what it does with the first
    reachable,      \* the probe's last result
    outbox,         \* the receipt file: set of <<message, status>>
    flush,          \* the flush that holds the lock of the outbox
    state           \* "up", "stopping" or "closed"

VARIABLES
    acked,          \* history: messages acknowledged to the relay
    delivered,      \* history: messages the webhook received
    wasDead,        \* history: messages moved to the dead letters
    purged,         \* history: dead letters removed by request
    queued,         \* history: receipts stored in the outbox
    receipted,           \* history: receipts the proxy received
    failed,         \* history: a transaction failed in a replay pass
    inputs,         \* history: the number of these
    lossy,          \* history: a broken inbox was removed, or an outbox not read
    restarts

tables == <<pending, dead, due>>
receipts == <<outbox, flush, queued, receipted>>
histories == <<acked, delivered, wasDead, purged, failed, lossy, inputs, restarts>>
inboxVars == <<laneOf, tables, current, work, reachable, receipts, state, histories>>

Idle == [todo |-> <<>>, pc |-> "post", tries |-> 1]
Receipts == Messages \X {"delivered_to_webhook", "dead_lettered"}
Owners == (Passes \X Lanes) \cup {Nobody}

InboxTypeOK ==
    /\ laneOf \in [Messages -> Lanes]
    /\ pending \in [Messages -> 0 .. DeadAfter \cup {Nobody}]
    /\ dead \in [Messages -> 0 .. DeadAfter \cup {Nobody}]
    /\ due \subseteq {m \in Messages : pending[m] # Nobody}
    /\ current \in Passes \cup {Nobody}
    /\ work \in [Passes -> [Lanes ->
          [todo : Seq(Messages),
           pc : {"post", "mark", "retryable", "rejected",
                 "delivered_to_webhook", "dead_lettered", "flush"},
           tries : 1 .. MaxTries]]]
    /\ outbox \subseteq Receipts /\ queued \subseteq Receipts /\ receipted \subseteq Receipts
    /\ flush \in {Nobody} \cup [by : Owners, todo : SUBSET Receipts, kept : SUBSET Receipts]
    /\ state \in {"up", "stopping", "closed"}
    /\ UNION {acked, delivered, wasDead, purged} \subseteq Messages
    /\ {reachable, failed, lossy} \subseteq BOOLEAN
    /\ inputs \in 0 .. MaxInputs /\ restarts \in 0 .. MaxRestarts

InboxInit ==
    /\ laneOf \in [Messages -> Lanes]
    /\ pending = [m \in Messages |-> Nobody] /\ dead = [m \in Messages |-> Nobody]
    /\ due = {} /\ current = Nobody /\ work = [p \in Passes |-> [l \in Lanes |-> Idle]]
    /\ reachable \in BOOLEAN /\ outbox = {} /\ flush = Nobody /\ state = "up"
    /\ acked = {} /\ delivered = {} /\ wasDead = {} /\ purged = {}
    /\ queued = {} /\ receipted = {} /\ failed = FALSE /\ lossy = FALSE /\ inputs = 0 /\ restarts = 0

PendingMessages == {m \in Messages : pending[m] # Nobody}
DeadLetters == {m \in Messages : dead[m] # Nobody}

(***************************************************************************)
(* The statements that the inbox's transactions are made of                *)
(***************************************************************************)
(* hasRequest *)
Holds(m) == m \in PendingMessages \cup DeadLetters

(* getPendingTotals, compared with the cap. *)
HasRoom == Cardinality(PendingMessages) < MaxPending

(* insertPending: the next attempt is due at once. *)
InsertPending(m, n) ==
    pending' = [pending EXCEPT ![m] = n] /\ due' = due \cup {m}

(* updatePending: the next attempt is due later. *)
UpdatePending(m, n) ==
    pending' = [pending EXCEPT ![m] = n] /\ due' = due \ {m}

DeletePending(m) ==
    pending' = [pending EXCEPT ![m] = Nobody] /\ due' = due \ {m}

InsertDeadLetter(m, n) == dead' = [dead EXCEPT ![m] = n]

DeleteDeadLetters(S) ==
    dead' = [m \in Messages |-> IF m \in S THEN Nobody ELSE dead[m]]

(***************************************************************************)
(* The inbox                                                               *)
(***************************************************************************)
(* Slip: only the waiting messages are searched for a duplicate. *)
ArriveUnlessPending(m) ==
    /\ state # "closed" /\ inputs < MaxInputs
    /\ inputs' = inputs + 1
    /\ acked' = acked \cup {m}
    /\ m \notin PendingMessages
    /\ InsertPending(m, 0)
    /\ UNCHANGED <<laneOf, dead, current, work, reachable, receipts, state,
                   delivered, wasDead, purged, failed, lossy, restarts>>

(* A deliver frame: enqueue takes a message that is known for a duplicate  *)
(* and refuses one when the inbox is full (or too large).  The             *)
(* acknowledgement is lost if the socket is gone when it would be sent.    *)
Arrive(m) ==
    /\ state # "closed" /\ inputs < MaxInputs
    /\ inputs' = inputs + 1
    /\ acked' = acked \cup {m}
    /\ \/ Holds(m) /\ UNCHANGED tables
       \/ /\ ~Holds(m) /\ HasRoom
          /\ InsertPending(m, 0)
          /\ UNCHANGED dead
    /\ UNCHANGED <<laneOf, current, work, reachable, receipts, state,
                   delivered, wasDead, purged, failed, lossy, restarts>>

(* The time of the next attempt comes. *)
DueAgain(m) ==
    /\ m \in PendingMessages \ due
    /\ due' = due \cup {m}
    /\ UNCHANGED <<laneOf, pending, dead, current, work, reachable, receipts, state, histories>>

(* replayDeadLetter keeps the attempts and does not look at the cap. *)
ReplayDead(S) ==
    /\ state # "closed" /\ inputs < MaxInputs
    /\ inputs' = inputs + 1
    /\ pending' = [m \in Messages |-> IF m \in S THEN dead[m] ELSE pending[m]]
    /\ DeleteDeadLetters(S)
    /\ due' = due \cup S
    /\ UNCHANGED <<laneOf, current, work, reachable, receipts, state,
                   acked, delivered, wasDead, purged, failed, lossy, restarts>>

PurgeDead(S) ==
    /\ state # "closed" /\ inputs < MaxInputs
    /\ inputs' = inputs + 1
    /\ DeleteDeadLetters(S)
    /\ purged' = purged \cup S
    /\ UNCHANGED <<laneOf, pending, due, current, work, reachable, receipts, state,
                   acked, delivered, wasDead, failed, lossy, restarts>>

(* The probe of the webhook's host. *)
Probe ==
    /\ state = "up"
    /\ reachable' = ~reachable
    /\ UNCHANGED <<laneOf, tables, current, work, receipts, state, histories>>

(***************************************************************************)
(* A replay pass                                                           *)
(***************************************************************************)
LanesIdle(p) == \A l \in Lanes : work[p][l].todo = <<>>

(* listDuePending and groupDueItemsByLane. *)
Batch == Min({BatchSize, Cardinality(due)})
StartLanes(p) ==
    \E B \in kSubset(Batch, due) :
    \E order \in [Lanes -> SetToAllKPermutations(B)] :
        /\ \A l \in Lanes : order[l] \in SetToSeqs({m \in B : laneOf[m] = l})
        /\ work' = [work EXCEPT ![p] = [l \in Lanes |-> [Idle EXCEPT !.todo = order[l]]]]

(* Slip: the pass does not look whether one is in flight. *)
ReplayBeginAlways ==
    /\ state = "up"
    /\ due # {} /\ reachable
    /\ \E p \in Passes : LanesIdle(p) /\ current' = p /\ StartLanes(p)
    /\ UNCHANGED <<laneOf, tables, reachable, receipts, state, histories>>

(* replayPendingInboundMessages; without due messages, or with a host that *)
(* does not answer, the pass ends at once.                                 *)
ReplayBegin ==
    /\ state = "up" /\ current = Nobody
    /\ due # {} /\ reachable
    /\ \E p \in Passes : LanesIdle(p) /\ current' = p /\ StartLanes(p)
    /\ UNCHANGED <<laneOf, tables, reachable, receipts, state, histories>>

(* The lane goes on as w; when the last lane is done so is the pass. *)
LaneGoes(p, l, w) ==
    /\ work' = [work EXCEPT ![p][l] = w]
    /\ current' = IF p = current /\ \A k \in Lanes : work'[p][k].todo = <<>>
                  THEN Nobody ELSE current
NextItem(p, l) == LaneGoes(p, l, [Idle EXCEPT !.todo = Tail(work[p][l].todo)])
LaneAt(p, l, pc) == LaneGoes(p, l, [work[p][l] EXCEPT !.pc = pc])
Busy(p, l, pc) == work[p][l].todo # <<>> /\ work[p][l].pc = pc
Item(p, l) == Head(work[p][l].todo)

(* deliverToDeliveryWebhookHookWithRetry: one post.  The webhook may take  *)
(* the message and its answer be lost.  A retryable error is tried again   *)
(* while attempts remain; a rejected token counts as retryable too.  Once  *)
(* the runtime stops the lane ends, or the error counts as the last one.   *)
Post(p, l) ==
    /\ Busy(p, l, "post")
    /\ \/ /\ delivered' = delivered \cup {Item(p, l)}
          /\ LaneAt(p, l, "mark")
       \/ /\ delivered' \in {delivered, delivered \cup {Item(p, l)}}
          /\ IF work[p][l].tries < MaxTries /\ state = "up"
             THEN LaneGoes(p, l, [work[p][l] EXCEPT !.tries = @ + 1])
             ELSE LaneAt(p, l, "retryable")
       \/ /\ LaneAt(p, l, "rejected")
          /\ UNCHANGED delivered
       \/ /\ state # "up"
          /\ delivered' \in {delivered, delivered \cup {Item(p, l)}}
          /\ LaneGoes(p, l, Idle)
    /\ UNCHANGED <<laneOf, tables, reachable, receipts, state,
                   acked, wasDead, purged, failed, lossy, inputs, restarts>>

(* markDelivered; if it fails the message counts as failed and retryable. *)
MarkDelivered(p, l) ==
    /\ Busy(p, l, "mark")
    /\ \/ /\ state # "closed"
          /\ DeletePending(Item(p, l))
          /\ LaneAt(p, l, "delivered_to_webhook")
       \/ LaneAt(p, l, "retryable") /\ UNCHANGED <<pending, due>>
    /\ UNCHANGED <<laneOf, dead, reachable, receipts, state, histories>>

(* Slip: a dead letter is announced whatever the store did. *)
MarkReplayFailureLoud(p, l) ==
    LET m == Item(p, l)
        n == Min({DeadAfter, pending[m] + 1}) IN
    /\ Busy(p, l, "rejected") /\ state # "closed"
    /\ IF pending[m] # Nobody /\ n >= DeadAfter
       THEN /\ DeletePending(m) /\ InsertDeadLetter(m, n)
            /\ wasDead' = wasDead \cup {m}
       ELSE UNCHANGED <<tables, wasDead>>
    /\ LaneAt(p, l, "dead_lettered")
    /\ UNCHANGED <<laneOf, reachable, receipts, state,
                   acked, delivered, purged, failed, lossy, inputs, restarts>>

(* markReplayFailure: one more attempt (counted up to DeadAfter), and the  *)
(* message moves to the dead letters if the error is not retryable and the *)
(* attempts are used up.  A message that is no longer there stays away.    *)
MarkReplayFailure(p, l) ==
    LET m == Item(p, l)
        n == Min({DeadAfter, pending[m] + 1}) IN
    /\ Busy(p, l, "retryable") \/ Busy(p, l, "rejected")
    /\ state # "closed"
    /\ \/ pending[m] = Nobody /\ NextItem(p, l) /\ UNCHANGED <<tables, wasDead>>
       \/ /\ pending[m] # Nobody
          /\ Busy(p, l, "rejected") /\ n >= DeadAfter
          /\ DeletePending(m) /\ InsertDeadLetter(m, n)
          /\ wasDead' = wasDead \cup {m}
          /\ LaneAt(p, l, "dead_lettered")
       \/ /\ pending[m] # Nobody
          /\ ~(Busy(p, l, "rejected") /\ n >= DeadAfter)
          /\ UpdatePending(m, n)
          /\ NextItem(p, l)
          /\ UNCHANGED <<dead, wasDead>>
    /\ UNCHANGED <<laneOf, reachable, receipts, state,
                   acked, delivered, purged, failed, lossy, inputs, restarts>>

(* Slip: replayInFlight is cleared after Promise.all only. *)
ReplayFailsHeld(p, l) ==
    /\ Busy(p, l, "retryable") \/ Busy(p, l, "rejected")
    /\ work' = [work EXCEPT ![p][l] = Idle]
    /\ failed' = TRUE
    /\ UNCHANGED <<laneOf, tables, current, reachable, receipts, state,
                   acked, delivered, wasDead, purged, lossy, inputs, restarts>>

(* markReplayFailure fails: the error ends the lane and Promise.all, so    *)
(* replayInFlight is cleared although other lanes may still run.           *)
ReplayFails(p, l) ==
    /\ Busy(p, l, "retryable") \/ Busy(p, l, "rejected")
    /\ work' = [work EXCEPT ![p][l] = Idle]
    /\ current' = IF p = current THEN Nobody ELSE current
    /\ failed' = TRUE
    /\ UNCHANGED <<laneOf, tables, reachable, receipts, state,
                   acked, delivered, wasDead, purged, lossy, inputs, restarts>>

(***************************************************************************)
(* The receipts                                                            *)
(***************************************************************************)
(* Slip: enqueue does not wait for the lock. *)
EnqueueReceiptUnlocked(p, l) ==
    /\ Busy(p, l, "delivered_to_webhook") \/ Busy(p, l, "dead_lettered")
    /\ LET r == <<Item(p, l), work[p][l].pc>>
       IN  outbox' = outbox \cup {r} /\ queued' = queued \cup {r} /\ LaneAt(p, l, "flush")
    /\ UNCHANGED <<laneOf, tables, reachable, flush, receipted, state, histories>>

(* enqueue, under the lock: the file is read, completed and written.  One  *)
(* that cannot be read counts as empty; if it cannot be written the        *)
(* receipt is dropped.                                                     *)
EnqueueReceipt(p, l) ==
    LET r == <<Item(p, l), work[p][l].pc>> IN
    /\ Busy(p, l, "delivered_to_webhook") \/ Busy(p, l, "dead_lettered")
    /\ flush = Nobody
    /\ \/ /\ outbox' = outbox \cup {r} /\ queued' = queued \cup {r}
          /\ LaneAt(p, l, "flush")
          /\ UNCHANGED lossy
       \/ /\ outbox # {}
          /\ outbox' = {r} /\ queued' = queued \cup {r}
          /\ LaneAt(p, l, "flush")
          /\ lossy' = TRUE
       \/ NextItem(p, l) /\ UNCHANGED <<outbox, queued, lossy>>
    /\ UNCHANGED <<laneOf, tables, reachable, flush, receipted, state,
                   acked, delivered, wasDead, purged, failed, inputs, restarts>>

(* flushDue takes the lock and reads the file: a lane after its receipt.   *)
LaneFlushBegin(p, l) ==
    /\ Busy(p, l, "flush") /\ flush = Nobody
    /\ \/ /\ outbox # {}
          /\ flush' = [by |-> <<p, l>>, todo |-> outbox, kept |-> {}]
          /\ UNCHANGED <<work, current>>
       \/ NextItem(p, l) /\ UNCHANGED flush
    /\ UNCHANGED <<laneOf, tables, reachable, outbox, queued, receipted, state, histories>>

(* The same on the timer. *)
TimerFlushBegin ==
    /\ state = "up" /\ flush = Nobody
    /\ outbox # {}
    /\ flush' = [by |-> Nobody, todo |-> outbox, kept |-> {}]
    /\ UNCHANGED <<laneOf, tables, current, work, reachable, outbox, queued, receipted, state, histories>>

(* postDeliveryReceipt of one that is due.  The proxy may have it although *)
(* no answer comes; what is not answered, or not due, is kept.             *)
FlushSend ==
    /\ flush # Nobody
    /\ \E r \in flush.todo :
          \/ /\ receipted' = receipted \cup {r}
             /\ flush' = [flush EXCEPT !.todo = @ \ {r}]
          \/ /\ receipted' \in {receipted, receipted \cup {r}}
             /\ flush' = [flush EXCEPT !.todo = @ \ {r}, !.kept = @ \cup {r}]
    /\ UNCHANGED <<laneOf, tables, current, work, reachable, outbox, queued, state, histories>>

(* What was kept is saved, or that fails; the lock is released either way. *)
FlushEnd ==
    /\ flush # Nobody /\ flush.todo = {}
    /\ outbox' \in {outbox, flush.kept}
    /\ flush' = Nobody
    /\ IF flush.by = Nobody THEN UNCHANGED <<work, current>>
       ELSE NextItem(flush.by[1], flush.by[2])
    /\ UNCHANGED <<laneOf, tables, reachable, queued, receipted, state, histories>>

(***************************************************************************)
(* Stop and start                                                          *)
(***************************************************************************)
(* stop() aborts what is in flight; the database is closed when the HTTP   *)
(* server is, whatever the lanes still do.                                 *)
Stop ==
    /\ state = "up"
    /\ state' = "stopping"
    /\ UNCHANGED <<laneOf, tables, current, work, reachable, receipts, histories>>

CloseInbox ==
    /\ state = "stopping"
    /\ state' = "closed"
    /\ UNCHANGED <<laneOf, tables, current, work, reachable, receipts, histories>>

(* The process ends at any point and is started again; openDatabase        *)
(* removes a database that is malformed.                                   *)
Restart ==
    /\ restarts < MaxRestarts
    /\ restarts' = restarts + 1
    /\ state' = "up" /\ current' = Nobody /\ flush' = Nobody /\ reachable' \in BOOLEAN
    /\ work' = [p \in Passes |-> [l \in Lanes |-> Idle]]
    /\ \/ UNCHANGED <<tables, lossy>>
       \/ /\ pending' = [m \in Messages |-> Nobody] /\ dead' = pending' /\ due' = {}
          /\ lossy' = TRUE
    /\ UNCHANGED <<laneOf, outbox, queued, receipted, acked, delivered, wasDead, purged, failed, inputs>>

LaneStep(p, l) ==
    \/ Post(p, l) \/ MarkDelivered(p, l) \/ MarkReplayFailure(p, l) \/ ReplayFails(p, l)
    \/ EnqueueReceipt(p, l) \/ LaneFlushBegin(p, l)

InboxNext ==
    \/ \E m \in Messages : DueAgain(m)
    \/ \E S \in SUBSET DeadLetters : S # {} /\ (ReplayDead(S) \/ PurgeDead(S))
    \/ Probe \/ ReplayBegin
    \/ \E p \in Passes, l \in Lanes : LaneStep(p, l)
    \/ TimerFlushBegin \/ FlushSend \/ FlushEnd
    \/ CloseInbox

(***************************************************************************)
(* Properties                                                              *)
(***************************************************************************)
(* A message that was acknowledged is waiting, or is a dead letter, or has *)
(* reached the webhook, or was purged by request: no crash, failed         *)
(* transaction or overlapping pass loses it, and it is never both waiting  *)
(* and dead (inbound-inbox.ts).  A broken database is given up for lost.   *)
AckedKept ==
    /\ ~lossy => acked \subseteq UNION {PendingMessages, DeadLetters, delivered, purged}
    /\ PendingMessages \cap DeadLetters = {}

(* While no transaction failed, a message is in the hands of one lane at a *)
(* time: the passes that a delivery, the timer and an operator start do    *)
(* not overlap (replayInFlight, replay.ts).                                *)
OneLanePerMessage ==
    ~failed => \A p, q \in Passes, k, l \in Lanes :
                   <<p, k>> # <<q, l>> => ToSet(work[p][k].todo) \cap ToSet(work[q][l].todo) = {}

(* A receipt that was stored stays in the outbox until the proxy has it,   *)
(* although flushes and other lanes rewrite the file (receipt-outbox.ts).  *)
ReceiptsKept == ~lossy => queued \subseteq outbox \cup receipted

(* Receipts say what happened: delivered only if the webhook had it, dead  *)
(* lettered only if it was moved there (replay.ts).                        *)
ReceiptsTrue ==
    \A r \in outbox \cup receipted :
        r[1] \in (IF r[2] = "dead_lettered" THEN wasDead ELSE delivered)

(* Receipts are kept and true: what the sender is told of a delivery is    *)
(* not lost on its way and is what happened, although lanes, flushes and   *)
(* restarts all rewrite one file.                                          *)
ReceiptsMatch == ReceiptsKept /\ ReceiptsTrue

(* Nothing waits for what will never come: a pass in flight has a lane at  *)
(* work, or no other would ever begin, and the lock of the outbox is held  *)
(* by the timer or by a lane that flushes, or no receipt would ever leave. *)
(* Failures and the end of other lanes do not change that (the finally     *)
(* blocks of replay.ts and receipt-outbox.ts).                             *)
NothingStuck ==
    /\ current # Nobody => ~LanesIdle(current)
    /\ flush # Nobody /\ flush.by # Nobody => Busy(flush.by[1], flush.by[2], "flush")
=============================================================================
