------------------------- MODULE ConnectorDelivery --------------------------
(***************************************************************************)
(* What the Rust connector does with an inbound message.  The inbound loop *)
(* posts it to the delivery webhook, stores it when that fails and         *)
(* acknowledges it; the retry loop posts the stored ones again and moves   *)
(* them to the dead letters in the end; one worker keeps the receipts in a *)
(* file until the proxy has them.  Both loops also forward the receipts of *)
(* this agent's own messages from one queue in memory.  The SQLite store   *)
(* and the file survive a crash; no call of the store is a transaction.    *)
(***************************************************************************)
EXTENDS Naturals, Sequences, FiniteSets, FiniteSetsExt

CONSTANTS
    Messages,       \* request ids
    Notes,          \* receipt frames and rejections from the relay
    InboundMaxAttempts,    \* INBOUND_MAX_ATTEMPTS
    BatchSize,      \* INBOUND_RETRY_BATCH_SIZE
    MaxForwards,    \* RECEIPT_FORWARD_MAX_ATTEMPTS
    MaxNotes,       \* RECEIPT_FORWARD_MAX_PENDING
    MaxDelivers,      \* deliver frames received
    MaxFaults,      \* failed calls of the store or the file system
    MaxCrashes,     \* times the process dies and starts again
    MaxReplays      \* dead letters replayed or purged on request

ASSUME DeliveryAssumption ==
    /\ {InboundMaxAttempts, BatchSize, MaxForwards, MaxNotes} \subseteq Nat \ {0}
    /\ {MaxDelivers, MaxFaults, MaxCrashes, MaxReplays} \subseteq Nat

VARIABLES
    pending,        \* inbound_pending: message -> attempt_count, 0 without a row
    due,            \* pending messages whose next attempt is due
    deadLetters,    \* inbound_dead_letter: message -> attempt_count, 0 without a row
    inbound,        \* the inbound loop
    retry,          \* the retry loop
    outbox,         \* the receipt file: receipt -> "absent", "due" or "later"
    commands,       \* commands of the outbox worker, the first one being handled
    worker,         \* the outbox worker
    noteQueue,      \* notifications waiting in memory
    ready,          \* notifications whose next attempt is due
    tries,          \* notification -> attempt_count
    old,            \* notifications past their maximal age
    held            \* loop -> the notifications it took and those it puts back

VARIABLES
    seen,           \* history: messages that the webhook answered with success
    acked,          \* history: messages acknowledged as accepted
    wasDead,        \* history: messages moved to the dead letters
    purged,         \* history: dead letters removed on request
    queued,         \* history: receipts stored in the file
    receipted,      \* history: receipts that the proxy received
    arrived,        \* history: notifications received
    forwarded,      \* history: notifications that the webhook answered with success
    spent           \* history: frames, faults, crashes and replays so far

rows == <<pending, due, deadLetters>>
loops == <<inbound, retry>>
receipts == <<outbox, worker, queued, receipted>>
notes == <<noteQueue, ready, tries, old, held, arrived, forwarded>>
messageHistory == <<seen, acked, wasDead, purged>>
deliveryVars == <<rows, loops, receipts, commands, notes, messageHistory, spent>>

Loops == {"inbound", "retry"}
Receipts == Messages \X {"delivered_to_webhook", "dead_lettered"}
Waiting == [pc |-> "idle", todo |-> {}, kept |-> {}]
Nothing == [todo |-> {}, kept |-> {}]

DeliveryTypeOK ==
    /\ pending \in [Messages -> Nat] /\ deadLetters \in [Messages -> Nat]
    /\ due \subseteq {m \in Messages : pending[m] > 0}
    /\ inbound.pc \in {"idle", "post", "persist", "ack", "receipt", "take", "forward"}
    /\ retry.pc \in {"idle", "flush", "list", "item", "delivered", "failed", "receipt", "take", "forward"}
    /\ retry.todo \subseteq Messages \X Nat
    /\ outbox \in [Receipts -> {"absent", "due", "later"}]
    /\ Len(commands) <= 2
    /\ worker.pc \in {"idle", "load", "post"} /\ worker.todo \cup worker.kept \subseteq Receipts
    /\ tries \in [Notes -> 0 .. MaxForwards]
    /\ UNION {noteQueue, ready, old, arrived, forwarded} \subseteq Notes
    /\ \A l \in Loops : held[l].todo \cup held[l].kept \subseteq Notes
    /\ UNION {seen, acked, wasDead, purged} \subseteq Messages
    /\ queued \cup receipted \subseteq Receipts

DeliveryInit ==
    /\ pending = [m \in Messages |-> 0] /\ deadLetters = [m \in Messages |-> 0] /\ due = {}
    /\ inbound = [pc |-> "idle"] /\ retry = [pc |-> "idle", todo |-> {}]
    /\ outbox = [r \in Receipts |-> "absent"] /\ commands = <<>> /\ worker = Waiting
    /\ noteQueue = {} /\ ready = {} /\ tries = [n \in Notes |-> 0] /\ old = {}
    /\ held = [l \in Loops |-> Nothing]
    /\ seen = {} /\ acked = {} /\ wasDead = {} /\ purged = {}
    /\ queued = {} /\ receipted = {} /\ arrived = {} /\ forwarded = {}
    /\ spent = [frames |-> 0, faults |-> 0, crashes |-> 0, replays |-> 0]

Spend(what, limit) ==
    /\ spent[what] < limit
    /\ spent' = [spent EXCEPT ![what] = @ + 1]

(* A call of the store or the file system succeeds or returns an error. *)
Works == UNCHANGED spent
Fails == Spend("faults", MaxFaults)

-----------------------------------------------------------------------------
(* The store. *)

SetPending(m, n) ==
    /\ pending' = [pending EXCEPT ![m] = n]
    /\ due' = due \ {m}

(* delete_pending *)
DeletePending(m) == SetPending(m, 0)

(* upsert_pending of a message that failed once: an existing row starts over. *)
UpsertPending(m) == SetPending(m, 1)

(* Slip: the attempt is scheduled and not counted. *)
MarkPendingAttemptUncounted(m) == SetPending(m, pending[m])

(* mark_pending_attempt: nothing happens without a row. *)
MarkPendingAttempt(m) ==
    IF pending[m] = 0 THEN UNCHANGED <<pending, due>> ELSE SetPending(m, pending[m] + 1)

-----------------------------------------------------------------------------
(* The inbound loop: one frame after the other. *)

ReceiveDeliver(m) ==
    /\ inbound.pc = "idle"
    /\ Spend("frames", MaxDelivers)
    /\ inbound' = [pc |-> "post", m |-> m]
    /\ UNCHANGED <<rows, retry, receipts, commands, notes, messageHistory>>

(* handle_deliver_frame: a pair.accepted message that cannot be applied is *)
(* not posted and counts as failed.                                        *)
PostWebhook ==
    /\ inbound.pc = "post"
    /\ \E ok \in BOOLEAN :
          /\ inbound' = [pc |-> "persist", m |-> inbound.m, ok |-> ok, kept |-> FALSE]
          /\ seen' = IF ok THEN seen \cup {inbound.m} ELSE seen
    /\ UNCHANGED <<rows, retry, receipts, commands, notes, acked, wasDead, purged, spent>>

(* persist_inbound_delivery_result: each of its calls may fail, the last one *)
(* after the row is written; a failure to clear the row is only logged.      *)
Persist ==
    /\ inbound.pc = "persist"
    /\ \/ /\ inbound.ok
          /\ \/ Works /\ DeletePending(inbound.m)
             \/ Fails /\ UNCHANGED <<pending, due>>
          /\ inbound' = [inbound EXCEPT !.pc = "ack"]
       \/ /\ ~inbound.ok
          /\ \/ Works /\ UpsertPending(inbound.m) /\ inbound' = [inbound EXCEPT !.pc = "ack", !.kept = TRUE]
             \/ Fails /\ UpsertPending(inbound.m) /\ inbound' = [inbound EXCEPT !.pc = "ack"]
             \/ Fails /\ UNCHANGED <<pending, due>> /\ inbound' = [inbound EXCEPT !.pc = "ack"]
    /\ UNCHANGED <<deadLetters, retry, receipts, commands, notes, messageHistory>>

(* Slip: the acknowledgement does not depend on what was stored. *)
AcceptedAlways == TRUE

(* build_deliver_ack_reason: a reason only if both have failed. *)
Accepted == inbound.ok \/ inbound.kept

(* send_deliver_ack, then the receipt of what the webhook took.  send_frame *)
(* waits for room in the channel to the relay for as long as it takes.      *)
SendDeliverAck ==
    /\ inbound.pc = "ack"
    /\ acked' = IF Accepted THEN acked \cup {inbound.m} ELSE acked
    /\ \/ /\ inbound.ok
          /\ inbound' = [pc |-> "receipt"]
          /\ commands' = Append(commands, [by |-> "inbound", new |-> {<<inbound.m, "delivered_to_webhook">>}])
       \/ /\ ~inbound.ok
          /\ inbound' = [pc |-> "idle"] /\ UNCHANGED commands
    /\ UNCHANGED <<rows, retry, receipts, notes, seen, wasDead, purged, spent>>

-----------------------------------------------------------------------------
(* The retry loop. *)

(* A tick of the interval: flush_due of the outbox comes first. *)
Tick ==
    /\ retry.pc = "idle"
    /\ retry' = [retry EXCEPT !.pc = "flush"]
    /\ commands' = Append(commands, [by |-> "retry", new |-> {}])
    /\ UNCHANGED <<rows, inbound, receipts, notes, messageHistory, spent>>

(* retry_due_inbound_deliveries: at most a batch, with the attempts as they *)
(* are now; any order stands for that of the next attempts.                 *)
ListDue ==
    /\ retry.pc = "list"
    /\ \/ /\ Works
          /\ \E batch \in kSubset(Min({BatchSize, Cardinality(due)}), due) :
                retry' = [pc |-> "item", todo |-> {<<m, pending[m]>> : m \in batch}]
       \/ Fails /\ retry' = [retry EXCEPT !.pc = "take"]
    /\ UNCHANGED <<rows, inbound, receipts, commands, notes, messageHistory>>

(* retry_pending_inbound_delivery: the post. *)
RetryPost ==
    /\ retry.pc = "item"
    /\ \E item \in retry.todo, ok \in BOOLEAN :
          /\ retry' = [pc |-> IF ok THEN "delivered" ELSE "failed",
                       todo |-> retry.todo \ {item}, m |-> item[1], n |-> item[2]]
          /\ seen' = IF ok THEN seen \cup {item[1]} ELSE seen
    /\ UNCHANGED <<rows, inbound, receipts, commands, notes, acked, wasDead, purged, spent>>

ItemsEnd ==
    /\ retry.pc = "item" /\ retry.todo = {}
    /\ retry' = [retry EXCEPT !.pc = "take"]
    /\ UNCHANGED <<rows, inbound, receipts, commands, notes, messageHistory, spent>>

NextItem == [pc |-> "item", todo |-> retry.todo]

RetryReceipt(status) ==
    /\ retry' = [pc |-> "receipt", todo |-> retry.todo]
    /\ commands' = Append(commands, [by |-> "retry", new |-> {<<retry.m, status>>}])

(* record_retry_delivery_success: a failure is logged, the receipt is sent. *)
RecordSuccess ==
    /\ retry.pc = "delivered"
    /\ \/ Works /\ DeletePending(retry.m)
       \/ Fails /\ UNCHANGED <<pending, due>>
    /\ RetryReceipt("delivered_to_webhook")
    /\ UNCHANGED <<deadLetters, inbound, receipts, notes, messageHistory>>

(* should_dead_letter_after_failure, from the attempts that were listed. *)
ShouldDeadLetter == retry.n + 1 >= InboundMaxAttempts

(* schedule_pending_retry *)
ScheduleRetry ==
    /\ retry.pc = "failed" /\ ~ShouldDeadLetter
    /\ \/ Works /\ MarkPendingAttempt(retry.m)
       \/ Fails /\ UNCHANGED <<pending, due>>
    /\ retry' = NextItem
    /\ UNCHANGED <<deadLetters, inbound, receipts, commands, notes, messageHistory>>

(* Slip: a message whose row is gone, or not moved, is reported all the same. *)
DeadLetterLoud ==
    /\ retry.pc = "failed" /\ ShouldDeadLetter
    /\ RetryReceipt("dead_lettered")
    /\ \/ Works /\ UNCHANGED <<rows, wasDead>>
       \/ Fails /\ UNCHANGED <<rows, wasDead>>
       \/ /\ Works
          /\ deadLetters' = [deadLetters EXCEPT ![retry.m] = pending[retry.m]]
          /\ wasDead' = wasDead \cup {retry.m}
          /\ DeletePending(retry.m)
    /\ UNCHANGED <<inbound, receipts, notes, seen, acked, purged>>

(* move_pending_to_dead_letter: the insert, the delete and the event may   *)
(* each fail.  moved: whether it returns without an error.                 *)
MovePending(m, moved) ==
    LET Insert == /\ deadLetters' = [deadLetters EXCEPT ![m] = pending[m]]
                  /\ wasDead' = wasDead \cup {m}
    IN  \/ moved /\ Works /\ Insert /\ DeletePending(m)
        \/ /\ ~moved /\ Fails
           /\ \/ UNCHANGED <<rows, wasDead>>
              \/ Insert /\ UNCHANGED <<pending, due>>
              \/ Insert /\ DeletePending(m)

(* dead_letter_pending_retry: a receipt is sent when the row was moved, and *)
(* also when there is none to move; none is sent after an error.            *)
DeadLetterPending ==
    /\ retry.pc = "failed" /\ ShouldDeadLetter
    /\ LET m == retry.m
       IN  \/ /\ pending[m] = 0 /\ Works
              /\ RetryReceipt("dead_lettered") /\ UNCHANGED <<rows, wasDead>>
           \/ /\ pending[m] > 0
              /\ MovePending(m, TRUE) /\ RetryReceipt("dead_lettered")
           \/ /\ pending[m] > 0
              /\ MovePending(m, FALSE) /\ retry' = NextItem /\ UNCHANGED commands
    /\ UNCHANGED <<inbound, receipts, notes, seen, acked, purged>>

-----------------------------------------------------------------------------
(* The outbox worker: one command at a time, the sender waits for it. *)

Answered ==
    /\ commands' = Tail(commands)
    /\ worker' = Waiting
    /\ \/ /\ Head(commands).by = "inbound"
          /\ inbound' = [pc |-> "idle"] /\ UNCHANGED retry
       \/ /\ Head(commands).by = "retry"
          /\ retry' = [retry EXCEPT !.pc = IF Head(commands).new = {} THEN "list" ELSE "item"]
          /\ UNCHANGED inbound

(* enqueue_receipt: a file that cannot be read is not written. *)
EnqueueReceipt ==
    /\ worker.pc = "idle" /\ commands # <<>>
    /\ \/ /\ Works
          /\ outbox' = [r \in Receipts |-> IF r \in Head(commands).new THEN "due" ELSE outbox[r]]
          /\ queued' = queued \cup Head(commands).new
          /\ worker' = [worker EXCEPT !.pc = "load"]
          /\ UNCHANGED <<loops, commands>>
       \/ /\ Fails /\ Head(commands).new # {}
          /\ Answered /\ UNCHANGED <<outbox, queued>>
    /\ UNCHANGED <<rows, receipted, notes, messageHistory>>

(* flush_due_receipts reads the file, *)
FlushLoad ==
    /\ worker.pc = "load"
    /\ \/ /\ Works
          /\ \E r \in Receipts : outbox[r] # "absent"
          /\ worker' = [pc |-> "post", todo |-> {r \in Receipts : outbox[r] = "due"},
                        kept |-> {r \in Receipts : outbox[r] = "later"}]
          /\ UNCHANGED <<loops, commands>>
       \/ (\A r \in Receipts : outbox[r] = "absent") /\ Works /\ Answered
       \/ Fails /\ Answered
    /\ UNCHANGED <<rows, outbox, queued, receipted, notes, messageHistory>>

(* posts what is due (the proxy may have it although no answer comes), *)
PostReceipt ==
    /\ worker.pc = "post"
    /\ \E r \in worker.todo :
          \/ /\ receipted' = receipted \cup {r}
             /\ worker' = [worker EXCEPT !.todo = @ \ {r}]
          \/ /\ worker' = [worker EXCEPT !.todo = @ \ {r}, !.kept = @ \cup {r}]
             /\ receipted' \in {receipted, receipted \cup {r}}
    /\ UNCHANGED <<rows, loops, outbox, queued, commands, notes, messageHistory, spent>>

(* Slip: what could not be posted is not written back. *)
FlushSaveUnsent ==
    /\ worker.pc = "post" /\ worker.todo = {}
    /\ outbox' = [r \in Receipts |-> "absent"]
    /\ Answered
    /\ UNCHANGED <<rows, queued, receipted, notes, messageHistory, spent>>

(* Slip: the worker flushes until the file is empty before it answers. *)
FlushSaveUntilEmpty ==
    /\ worker.pc = "post" /\ worker.todo = {}
    /\ outbox' = [r \in Receipts |-> IF r \in worker.kept THEN "later" ELSE "absent"]
    /\ worker' = [worker EXCEPT !.pc = "load"]
    /\ UNCHANGED <<rows, loops, commands, queued, receipted, notes, messageHistory, spent>>

(* and writes what is left. *)
FlushSave ==
    /\ worker.pc = "post" /\ worker.todo = {}
    /\ \/ Works /\ outbox' = [r \in Receipts |-> IF r \in worker.kept THEN "later" ELSE "absent"]
       \/ Fails /\ UNCHANGED outbox
    /\ Answered
    /\ UNCHANGED <<rows, queued, receipted, notes, messageHistory>>

-----------------------------------------------------------------------------
(* Notifications: receipts and rejections for the webhook, in memory. *)

(* enqueue_pending_receipt_notification *)
Notify(n) ==
    /\ inbound.pc = "idle" /\ n \notin arrived
    /\ LET kept == {x \in noteQueue : tries[x] < MaxForwards /\ x \notin old}
           room == Cardinality(kept) < MaxNotes
       IN  /\ noteQueue' = IF room THEN kept \cup {n} ELSE kept
           /\ ready' = IF room THEN (ready \cap kept) \cup {n} ELSE ready \cap kept
    /\ arrived' = arrived \cup {n}
    /\ inbound' = [pc |-> "take"]
    /\ UNCHANGED <<rows, retry, receipts, commands, tries, old, held, forwarded, messageHistory, spent>>

PcOf(l) == IF l = "inbound" THEN inbound.pc ELSE retry.pc

GoOn(l, pc) ==
    \/ l = "inbound" /\ inbound' = [pc |-> pc] /\ UNCHANGED retry
    \/ l = "retry" /\ retry' = [pc |-> pc, todo |-> {}] /\ UNCHANGED inbound

(* Slip: the due notifications stay in the queue while they are forwarded. *)
TakeDueShared(l) ==
    /\ PcOf(l) = "take"
    /\ held' = [held EXCEPT ![l].todo = noteQueue \cap ready]
    /\ GoOn(l, IF noteQueue \cap ready = {} THEN "idle" ELSE "forward")
    /\ UNCHANGED <<rows, receipts, commands, noteQueue, ready, tries, old, arrived, forwarded, messageHistory, spent>>

(* take_due_notifications: a loop takes the due ones out of the queue. *)
TakeDue(l) ==
    /\ PcOf(l) = "take"
    /\ held' = [held EXCEPT ![l].todo = noteQueue \cap ready]
    /\ noteQueue' = noteQueue \ ready
    /\ GoOn(l, IF noteQueue \cap ready = {} THEN "idle" ELSE "forward")
    /\ UNCHANGED <<rows, receipts, commands, ready, tries, old, arrived, forwarded, messageHistory, spent>>

(* flush_pending_receipt_notifications with should_drop_notification. *)
Forward(l) ==
    /\ PcOf(l) = "forward"
    /\ \E n \in held[l].todo :
          /\ ready' = ready \ {n}
          /\ \/ /\ tries[n] >= MaxForwards \/ n \in old
                /\ held' = [held EXCEPT ![l].todo = @ \ {n}]
                /\ UNCHANGED <<tries, forwarded>>
             \/ /\ tries[n] < MaxForwards /\ n \notin old
                /\ \/ /\ forwarded' = forwarded \cup {n}
                      /\ held' = [held EXCEPT ![l].todo = @ \ {n}]
                      /\ UNCHANGED tries
                   \/ /\ tries' = [tries EXCEPT ![n] = @ + 1]
                      /\ held' = [held EXCEPT ![l] = [todo |-> @.todo \ {n}, kept |-> @.kept \cup {n}]]
                      /\ UNCHANGED forwarded
    /\ UNCHANGED <<rows, loops, receipts, commands, noteQueue, old, arrived, messageHistory, spent>>

Room == IF Cardinality(noteQueue) >= MaxNotes THEN 0 ELSE MaxNotes - Cardinality(noteQueue)

(* requeue_notifications: as many as there is room for. *)
Requeue(l) ==
    /\ PcOf(l) = "forward" /\ held[l].todo = {}
    /\ \E back \in kSubset(Min({Room, Cardinality(held[l].kept)}), held[l].kept) :
          noteQueue' = noteQueue \cup back
    /\ held' = [held EXCEPT ![l] = Nothing]
    /\ GoOn(l, "idle")
    /\ UNCHANGED <<rows, receipts, commands, ready, tries, old, arrived, forwarded, messageHistory, spent>>

-----------------------------------------------------------------------------
(* Requests for dead letters, time and crashes. *)

(* replay_dead_letter: the row keeps its attempts and is due at once; the  *)
(* insert, the delete and the event may each fail.                         *)
ReplayDeadLetter(m) ==
    /\ deadLetters[m] > 0
    /\ spent.replays < MaxReplays
    /\ LET Insert == pending' = [pending EXCEPT ![m] = deadLetters[m]] /\ due' = due \cup {m}
           Delete == deadLetters' = [deadLetters EXCEPT ![m] = 0]
       IN  \/ /\ Insert /\ Delete
              /\ \E failed \in {0, 1} :
                    /\ spent.faults + failed <= MaxFaults
                    /\ spent' = [spent EXCEPT !.replays = @ + 1, !.faults = @ + failed]
           \/ /\ spent.faults < MaxFaults
              /\ Insert /\ UNCHANGED deadLetters
              /\ spent' = [spent EXCEPT !.replays = @ + 1, !.faults = @ + 1]
    /\ UNCHANGED <<loops, receipts, commands, notes, messageHistory>>

(* purge_dead_letter *)
PurgeDeadLetter(m) ==
    /\ deadLetters[m] > 0
    /\ Spend("replays", MaxReplays)
    /\ deadLetters' = [deadLetters EXCEPT ![m] = 0]
    /\ purged' = purged \cup {m}
    /\ UNCHANGED <<pending, due, loops, receipts, commands, notes, seen, acked, wasDead>>

(* Attempts become due, notifications too old. *)
RowDue(m) ==
    /\ pending[m] > 0 /\ m \notin due
    /\ due' = due \cup {m}
    /\ UNCHANGED <<pending, deadLetters, loops, receipts, commands, notes, messageHistory, spent>>

ReceiptDue(r) ==
    /\ outbox[r] = "later"
    /\ outbox' = [outbox EXCEPT ![r] = "due"]
    /\ UNCHANGED <<rows, loops, worker, queued, receipted, commands, notes, messageHistory, spent>>

NoteDue(n) ==
    /\ n \in noteQueue \ ready
    /\ ready' = ready \cup {n}
    /\ UNCHANGED <<rows, loops, receipts, commands, noteQueue, tries, old, held, arrived, forwarded, messageHistory, spent>>

NoteAges(n) ==
    /\ n \in arrived \ old
    /\ old' = old \cup {n}
    /\ UNCHANGED <<rows, loops, receipts, commands, noteQueue, ready, tries, held, arrived, forwarded, messageHistory, spent>>

(* The store and the file stay, everything else is gone. *)
ProcessCrash ==
    /\ Spend("crashes", MaxCrashes)
    /\ inbound' = [pc |-> "idle"] /\ retry' = [pc |-> "idle", todo |-> {}]
    /\ commands' = <<>> /\ worker' = Waiting
    /\ noteQueue' = {} /\ ready' = {} /\ held' = [l \in Loops |-> Nothing]
    /\ UNCHANGED <<rows, outbox, queued, receipted, tries, old, arrived, forwarded, messageHistory>>

InboundRuns ==
    \/ PostWebhook \/ Persist
    \/ TakeDue("inbound") \/ Forward("inbound") \/ Requeue("inbound")
InboundStep == InboundRuns \/ SendDeliverAck
RetryStep ==
    \/ Tick \/ ListDue \/ RetryPost \/ ItemsEnd
    \/ RecordSuccess \/ ScheduleRetry \/ DeadLetterPending
    \/ TakeDue("retry") \/ Forward("retry") \/ Requeue("retry")
WorkerStep == EnqueueReceipt \/ FlushLoad \/ PostReceipt \/ FlushSave
Arrives == (\E m \in Messages : ReceiveDeliver(m)) \/ (\E n \in Notes : Notify(n))
Requested == \E m \in Messages : ReplayDeadLetter(m) \/ PurgeDeadLetter(m)

DeliveryNext ==
    \/ InboundStep \/ RetryStep \/ WorkerStep
    \/ Arrives \/ Requested \/ ProcessCrash
    \/ \E m \in Messages : RowDue(m)
    \/ \E r \in Receipts : ReceiptDue(r)
    \/ \E n \in Notes : NoteDue(n) \/ NoteAges(n)

(* The loops and the worker are tasks of one process; time goes on.  The    *)
(* channel to the relay may stay full for ever (CircularWait in             *)
(* ConnectorRelay), so nothing is assumed of SendDeliverAck.                *)
DeliveryFairness ==
    /\ WF_deliveryVars(InboundRuns)
    /\ WF_deliveryVars(RetryStep)
    /\ WF_deliveryVars(WorkerStep)
    /\ \A m \in Messages : WF_deliveryVars(RowDue(m))

DeliverySpec == DeliveryInit /\ [][DeliveryNext]_deliveryVars /\ DeliveryFairness

-----------------------------------------------------------------------------
(* A message that the relay was told is accepted (and so forgets) is in    *)
(* one of the two tables, was taken by the webhook or was purged: whatever *)
(* statement fails, whichever loop handles it and wherever the process     *)
(* dies (handle_deliver_frame, move_pending_to_dead_letter).               *)
AckedKept ==
    \A m \in acked : pending[m] > 0 \/ deadLetters[m] > 0 \/ m \in seen \cup purged

(* A receipt that was stored stays in the file until the proxy has it,     *)
(* though every flush rewrites the file from what it read before its posts *)
(* (flush_due_receipts under the worker).                                  *)
ReceiptsKept ==
    \A r \in queued : outbox[r] # "absent" \/ r \in receipted

(* No receipt is made up: a delivered one is of a message that the webhook *)
(* took, a dead-lettered one of a message that was given up, or whose row  *)
(* was gone because the webhook had taken it meanwhile.                    *)
ReceiptsTrue ==
    \A r \in queued : r[1] \in seen \/ (r[2] = "dead_lettered" /\ r[1] \in wasDead)

(* Receipts are kept and true: ReceiptsKept and ReceiptsTrue.              *)
ReceiptsMatch == ReceiptsKept /\ ReceiptsTrue

(* Two loops take notifications out of one queue and put them back: each   *)
(* notification is in one place, what the webhook took is in none and so   *)
(* is never forwarded again, and the queue keeps to its limit.             *)
NotesInOnePlace ==
    LET Has(l) == held[l].todo \cup held[l].kept
    IN  /\ Cardinality(noteQueue) <= MaxNotes
        /\ noteQueue \cap (Has("inbound") \cup Has("retry")) = {}
        /\ Has("inbound") \cap Has("retry") = {}
        /\ forwarded \cap (noteQueue \cup Has("inbound") \cup Has("retry")) = {}

(* Every stored message is delivered or given up in the end, whatever the  *)
(* webhook answers and however long the inbound loop waits for room in its *)
(* channel: attempts are counted (run_inbound_retry_loop).                 *)
PendingResolved == \A m \in Messages : pending[m] > 0 ~> pending[m] = 0

(* The inbound loop gets back to the socket or to the one wait that has no *)
(* bound, the one for room in the channel to the relay: neither the outbox *)
(* worker, which flushes for both loops and may be given receipts that the *)
(* proxy never takes, nor the queue that it shares with the retry loop     *)
(* holds it for ever (handle_deliver_frame, start_receipt_outbox_worker).  *)
InboundReturns == inbound.pc # "idle" ~> inbound.pc \in {"idle", "ack"}
=============================================================================
