--------------------------- MODULE ConnectorProofs ---------------------------
(***************************************************************************)
(* Proofs about the Rust connector.  Outbound (ConnectorRelay): it never   *)
(* has two copies of a frame, so it never writes one to a socket twice and *)
(* never reports a frame it sent as a dead letter, for any number of       *)
(* requests, recipients and frames, any channel capacities and any         *)
(* crashes.  Inbound (ConnectorDelivery): what it acknowledged is not      *)
(* lost, receipts are kept and true, and notifications are not duplicated, *)
(* for any number of messages, failed calls and crashes.                   *)
(***************************************************************************)
EXTENDS ConnectorRelay, ConnectorDelivery, FiniteSetTheorems, SequenceTheorems, TLAPS

\* What the control points of the tasks and of the session imply for their data.
Working ==
    /\ \A x \in Tasks : task[x].at = "send" => task[x].n > 0 /\ task[x].id \in Ids
    /\ client.at = "push" => Len(client.frame) = 1

TypeInv == TypeOK /\ Working

\* A frame id that was not given out yet is nowhere.
Issued ==
    /\ \A id \in queue \cup dead \cup written \cup Channelled : id < nextId
    /\ \A x \in Tasks : \A id \in Held(x) : id < nextId

Inv == TypeInv /\ OneCopy /\ Issued

-----------------------------------------------------------------------------
(* Types *)

\* The types, in the parts that change together.
DbTypes ==
    /\ queue \subseteq Ids /\ later \subseteq queue /\ dead \subseteq Ids
    /\ attempts \in [Ids -> 0 .. MaxAttempts - 1]
    /\ nextId \in 1 .. MaxFrames + 1
TaskTypes == task \in [Tasks -> TaskState]
ClientTypes == client \in ClientState
ChannelTypes ==
    /\ outCh \in Seq(Ids \cup {Ack}) /\ Len(outCh) <= OutCap
    /\ inCh \in Seq(Frame) /\ Len(inCh) <= InCap
OtherTypes ==
    /\ inb \in {"recv", "deliver", "notify", "ack", "stopped"}
    /\ inflight \subseteq Ids /\ wire \subseteq Ids
    /\ stopping \in BOOLEAN
    /\ written \subseteq Ids /\ byLoop \subseteq Ids /\ dropped \subseteq Ids

\* The parts make up the type invariant.
LEMMA Parts ==
    TypeInv <=> DbTypes /\ TaskTypes /\ ClientTypes /\ ChannelTypes /\ OtherTypes /\ Working
BY DEF TypeInv, TypeOK, DbTypes, TaskTypes, ClientTypes, ChannelTypes, OtherTypes

\* The same after a step.
LEMMA PartsNext ==
    TypeInv' <=> DbTypes' /\ TaskTypes' /\ ClientTypes' /\ ChannelTypes' /\ OtherTypes' /\ Working'
BY DEF TypeInv, TypeOK, DbTypes, TaskTypes, ClientTypes, ChannelTypes, OtherTypes

\* The records that the actions build are well-formed.
LEMMA Records ==
    /\ IdleTask \in TaskState
    /\ \A n \in Nat : Flushing(n) \in TaskState
    /\ Offline("connecting") \in ClientState
    /\ Offline("stopped") \in ClientState
BY DEF IdleTask, Flushing, Offline, TaskState, ClientState

\* The connector starts with well-formed data.
LEMMA InitTypes == Init => TypeInv
<1> SUFFICES ASSUME Init PROVE TypeInv
  OBVIOUS
<1>1. DbTypes
  BY ConnectorAssumption DEF Init, DbTypes, Ids
<1>2. TaskTypes /\ ClientTypes
  BY Records DEF Init, TaskTypes, ClientTypes
<1>3. ChannelTypes
  BY ConnectorAssumption DEF Init, ChannelTypes
<1>4. OtherTypes
  BY DEF Init, OtherTypes
<1>5. Working
  BY DEF Init, Working, IdleTask, Offline
<1> QED
  BY <1>1, <1>2, <1>3, <1>4, <1>5, Parts

\* Replacing one task by a well-formed one keeps the tasks well-formed.
LEMMA TaskStep ==
    ASSUME TaskTypes, NEW x \in Tasks, NEW t \in TaskState,
           task' = [task EXCEPT ![x] = t]
    PROVE  TaskTypes' /\ task'[x] = t /\ \A y \in Tasks \ {x} : task'[y] = task[y]
BY DEF TaskTypes

\* Then the other tasks and the client decide whether the control points are in
\* order.
LEMMA WorkingStep ==
    ASSUME TaskTypes, Working, NEW x \in Tasks, NEW t \in TaskState,
           task' = [task EXCEPT ![x] = t],
           t.at = "send" => t.n > 0 /\ t.id \in Ids,
           client' = client
    PROVE  Working'
BY TaskStep DEF Working

\* A step of a request or of a flush keeps the data well-formed.
LEMMA RequestTypes ==
    ASSUME TypeInv, NEW h \in Handlers,
           \/ \E n \in 1 .. MaxBatch : Post(h, n)
           \/ Insert(h) \/ InsertFails(h) \/ Rollback(h) \/ Abandon(h)
    PROVE  TypeInv'
<1> USE ConnectorAssumption
<1>0. DbTypes /\ TaskTypes /\ ClientTypes /\ ChannelTypes /\ OtherTypes /\ Working
  BY Parts
<1>h. h \in Tasks /\ task[h] \in TaskState
  BY <1>0 DEF Tasks, TaskTypes
<1>1. ASSUME NEW n \in 1 .. MaxBatch, Post(h, n) PROVE TypeInv'
  <2> DEFINE t == [at |-> "insert", n |-> n, mine |-> {}, id |-> 0]
  <2>1. t \in TaskState
    BY DEF TaskState
  <2>2. task' = [task EXCEPT ![h] = t] /\ client' = client
    BY <1>1 DEF Post
  <2>3. TaskTypes' /\ Working'
    BY <1>0, <1>h, <2>1, <2>2, TaskStep, WorkingStep
  <2> QED
    BY <1>0, <1>1, <2>3, PartsNext
    DEF Post, DbTypes, ClientTypes, ChannelTypes, OtherTypes, db, history
<1>2. ASSUME Insert(h) PROVE TypeInv'
  <2>1. task[h].mine \subseteq Ids /\ task[h].n \in Nat /\ nextId \in Ids
    BY <1>2, <1>h DEF Insert, TaskState
  <2>2. Cardinality(task[h].mine) \in Nat
    <3>1. IsFiniteSet(Ids)
      BY FS_Interval DEF Ids
    <3>2. IsFiniteSet(task[h].mine)
      BY <2>1, <3>1, FS_Subset
    <3> QED
      BY <3>2, FS_CardinalityType
  <2> DEFINE t == IF task[h].n > 1
                  THEN [task[h] EXCEPT !.n = @ - 1, !.mine = @ \cup {nextId}]
                  ELSE Flushing(Cardinality(task[h].mine) + 1)
  <2>3. t \in TaskState /\ t.at # "send"
    <3>1. CASE task[h].n > 1
      <4>1. task[h].at = "insert"
        BY <1>2 DEF Insert
      <4>2. t = [at |-> "insert", n |-> task[h].n - 1,
                 mine |-> task[h].mine \cup {nextId}, id |-> task[h].id]
        BY <1>h, <3>1, <4>1 DEF TaskState
      <4>3. task[h].n - 1 \in Nat /\ task[h].id \in Ids \cup {0}
        BY <1>h, <2>1, <3>1 DEF TaskState
      <4>4. task[h].mine \cup {nextId} \subseteq Ids
        BY <2>1
      <4> HIDE DEF t
      <4> QED
        BY <4>2, <4>3, <4>4 DEF TaskState
    <3>2. CASE ~(task[h].n > 1)
      BY <2>2, <3>2, Records DEF Flushing
    <3> QED
      BY <3>1, <3>2
  <2>4. task' = [task EXCEPT ![h] = t] /\ client' = client
    BY <1>2 DEF Insert
  <2>5. TaskTypes' /\ Working'
    BY <1>0, <1>h, <2>3, <2>4, TaskStep, WorkingStep
  <2>6. DbTypes'
    BY <1>0, <1>2, <2>1 DEF Insert, DbTypes, Ids
  <2> QED
    BY <1>0, <1>2, <2>5, <2>6, PartsNext
    DEF Insert, ClientTypes, ChannelTypes, OtherTypes, history
<1>3. ASSUME InsertFails(h) PROVE TypeInv'
  <2> DEFINE t == [at |-> "rollback", n |-> 0, mine |-> task[h].mine, id |-> 0]
  <2>1. t \in TaskState
    BY <1>h DEF TaskState
  <2>2. task' = [task EXCEPT ![h] = t] /\ client' = client
    BY <1>3 DEF InsertFails
  <2>3. TaskTypes' /\ Working'
    BY <1>0, <1>h, <2>1, <2>2, TaskStep, WorkingStep
  <2> QED
    BY <1>0, <1>3, <2>3, PartsNext
    DEF InsertFails, DbTypes, ClientTypes, ChannelTypes, OtherTypes, db, history
<1>4. ASSUME Abandon(h) PROVE TypeInv'
  <2>1. task' = [task EXCEPT ![h] = IdleTask] /\ client' = client
    BY <1>4 DEF Abandon
  <2>2. TaskTypes' /\ Working'
    BY <1>0, <1>h, <2>1, Records, TaskStep, WorkingStep DEF IdleTask
  <2> QED
    BY <1>0, <1>4, <2>2, PartsNext
    DEF Abandon, DbTypes, ClientTypes, ChannelTypes, OtherTypes, db, history
<1>5. ASSUME Rollback(h) PROVE TypeInv'
  <2>1. client' = client /\ nextId' = nextId /\ task[h].at = "rollback"
    BY <1>5 DEF Rollback
  <2>2. DbTypes'
    BY <1>0, <1>5 DEF Rollback, DbTypes, db
  <2>3. CASE task' = [task EXCEPT ![h] = IdleTask]
    <3>1. TaskTypes' /\ Working'
      BY <1>0, <1>h, <2>1, <2>3, Records, TaskStep, WorkingStep DEF IdleTask
    <3> QED
      BY <1>0, <1>5, <2>2, <3>1, PartsNext
      DEF Rollback, ClientTypes, ChannelTypes, OtherTypes, history
  <2>4. CASE \E id \in task[h].mine : task' = [task EXCEPT ![h].mine = @ \ {id}]
    <3>1. PICK id \in task[h].mine : task' = [task EXCEPT ![h].mine = @ \ {id}]
      BY <2>4
    <3> DEFINE t == [task[h] EXCEPT !.mine = @ \ {id}]
    <3>2. t \in TaskState /\ t.at = "rollback"
      BY <1>h, <2>1 DEF TaskState
    <3>3. task' = [task EXCEPT ![h] = t]
      BY <1>0, <1>h, <3>1 DEF TaskTypes, TaskState
    <3>4. TaskTypes' /\ Working'
      BY <1>0, <1>h, <2>1, <3>2, <3>3, TaskStep, WorkingStep
    <3> QED
      BY <1>0, <1>5, <2>2, <3>4, PartsNext
      DEF Rollback, ClientTypes, ChannelTypes, OtherTypes, history
  <2> QED
    BY <1>5, <2>3, <2>4 DEF Rollback
<1> QED
  BY <1>1, <1>2, <1>3, <1>4, <1>5

\* So does a step of a flush.
LEMMA FlushTypes ==
    ASSUME TypeInv, NEW x \in Tasks,
           Flush(x) \/ Send(x) \/ StoreFails(x) \/ \E id \in Ids : DeadLetterFails(x, id)
    PROVE  TypeInv'
<1> USE ConnectorAssumption
<1>0. DbTypes /\ TaskTypes /\ ClientTypes /\ ChannelTypes /\ OtherTypes /\ Working
  BY Parts
<1>x. task[x] \in TaskState
  BY <1>0 DEF TaskTypes
<1>t. task[x].at = "send" =>
         /\ task[x].n \in Nat \ {0} /\ task[x].id \in Ids
         /\ NextRound(x) \in TaskState /\ NextRound(x).at = "flush"
  BY <1>0, <1>x DEF Working, NextRound, Flushing, TaskState
<1>f. \A id \in Ids : Takes(x, id) =>
         /\ id \in queue \ later /\ task[x].n \in Nat \ {0}
         /\ NextRound(x) \in TaskState /\ NextRound(x).at = "flush"
  BY <1>x DEF Takes, First, Due, NextRound, Flushing, TaskState
<1>1. ASSUME NEW id \in Ids, Offer(x, id) PROVE TypeInv'
  <2> DEFINE t == [at |-> "send", n |-> task[x].n, mine |-> {}, id |-> id]
  <2>1. t \in TaskState /\ t.n > 0 /\ t.id \in Ids
    BY <1>1, <1>f DEF Offer, TaskState
  <2>2. task' = [task EXCEPT ![x] = t] /\ client' = client
    BY <1>1 DEF Offer
  <2>3. TaskTypes' /\ Working'
    BY <1>0, <2>1, <2>2, TaskStep, WorkingStep
  <2>4. DbTypes' /\ OtherTypes'
    BY <1>0, <1>1, <1>f DEF Offer, DbTypes, OtherTypes, history
  <2> QED
    BY <1>0, <1>1, <2>3, <2>4, PartsNext DEF Offer, ClientTypes, ChannelTypes
<1>2. ASSUME NEW id \in Ids, DeadLetter(x, id) PROVE TypeInv'
  <2>1. task' = [task EXCEPT ![x] = NextRound(x)] /\ client' = client
    BY <1>2 DEF DeadLetter
  <2>2. TaskTypes' /\ Working'
    BY <1>0, <1>2, <1>f, <2>1, TaskStep, WorkingStep DEF DeadLetter
  <2>3. DbTypes'
    BY <1>0, <1>2, <1>f DEF DeadLetter, DbTypes
  <2> QED
    BY <1>0, <1>2, <2>2, <2>3, PartsNext
    DEF DeadLetter, ClientTypes, ChannelTypes, OtherTypes, history
<1>3. ASSUME NEW id \in Ids, DeadLetterFails(x, id) PROVE TypeInv'
  <2>1. \/ task' = [task EXCEPT ![x] = NextRound(x)]
        \/ task' = [task EXCEPT ![x] = IdleTask]
    BY <1>3 DEF DeadLetterFails
  <2>2. client' = client /\ IdleTask.at # "send"
    BY <1>3 DEF DeadLetterFails, IdleTask
  <2>3. TaskTypes' /\ Working'
    BY <1>0, <1>3, <1>f, <2>1, <2>2, Records, TaskStep, WorkingStep DEF DeadLetterFails
  <2>4. DbTypes'
    BY <1>0, <1>3, <1>f DEF DeadLetterFails, DbTypes
  <2> QED
    BY <1>0, <1>3, <2>3, <2>4, PartsNext
    DEF DeadLetterFails, ClientTypes, ChannelTypes, OtherTypes, history
<1>4. ASSUME SendFails(x) PROVE TypeInv'
  <2>1. task[x].at = "send" /\ client' = client
    BY <1>4 DEF SendFails
  <2>2. OtherTypes'
    BY <1>0, <1>4 DEF SendFails, OtherTypes, history
  <2>3. CASE attempts[task[x].id] + 1 >= MaxAttempts
    <3>1. task' = [task EXCEPT ![x] = NextRound(x)]
      BY <1>0, <1>4, <1>t, <2>1, <2>3 DEF SendFails, DbTypes
    <3>2. TaskTypes' /\ Working'
      BY <1>0, <1>t, <2>1, <3>1, TaskStep, WorkingStep
    <3>3. DbTypes'
      BY <1>0, <1>4, <1>t, <2>1, <2>3 DEF SendFails, DbTypes
    <3> QED
      BY <1>0, <1>4, <2>2, <3>2, <3>3, PartsNext
      DEF SendFails, ClientTypes, ChannelTypes
  <2>4. CASE attempts[task[x].id] + 1 < MaxAttempts
    <3>1. task' = [task EXCEPT ![x] = IdleTask]
      BY <1>0, <1>4, <1>t, <2>1, <2>4 DEF SendFails, DbTypes
    <3>2. TaskTypes' /\ Working'
      BY <1>0, <2>1, <3>1, Records, TaskStep, WorkingStep DEF IdleTask
    <3>3. DbTypes'
      BY <1>0, <1>4, <1>t, <2>1, <2>4 DEF SendFails, DbTypes
    <3> QED
      BY <1>0, <1>4, <2>2, <3>2, <3>3, PartsNext
      DEF SendFails, ClientTypes, ChannelTypes
  <2> QED
    BY <1>4, <2>3, <2>4 DEF SendFails
<1>5. ASSUME FlushEnds(x) \/ StoreFails(x) PROVE TypeInv'
  <2>1. task' = [task EXCEPT ![x] = IdleTask] /\ client' = client
    BY <1>5 DEF FlushEnds, StoreFails
  <2>2. TaskTypes' /\ Working'
    BY <1>0, <2>1, Records, TaskStep, WorkingStep DEF IdleTask
  <2> QED
    BY <1>0, <1>5, <2>2, PartsNext
    DEF FlushEnds, StoreFails, DbTypes, ClientTypes, ChannelTypes, OtherTypes, db, history
<1>6. ASSUME Send(x) PROVE TypeInv'
  <2>1. task' = [task EXCEPT ![x] = NextRound(x)] /\ client' = client /\ task[x].at = "send"
    BY <1>6 DEF Send
  <2>2. TaskTypes' /\ Working'
    BY <1>0, <1>t, <2>1, TaskStep, WorkingStep
  <2>3. ChannelTypes' /\ OtherTypes'
    BY <1>0, <1>6, <1>t, <2>1 DEF Send, ChannelTypes, OtherTypes
  <2> QED
    BY <1>0, <1>6, <2>2, <2>3, PartsNext DEF Send, DbTypes, ClientTypes, db
<1> QED
  BY <1>1, <1>2, <1>3, <1>4, <1>5, <1>6 DEF Flush

\* So do the ticks of the flush loop, the client, the inbound loop and the process.
LEMMA SessionTypes ==
    ASSUME TypeInv,
           \/ LoopTick \/ LoopStops
           \/ \E id \in Ids : BecomesDue(id)
           \/ Connect \/ LinkDies \/ SessionSends \/ SessionPushes
           \/ SessionEnds \/ ClientStops
           \/ \E f \in Frame : SessionReads(f)
           \/ Receive \/ HookEnds \/ SendAck \/ InboundStops
           \/ Shutdown \/ Exit \/ Crash
    PROVE  TypeInv'
<1> USE ConnectorAssumption
<1>0. DbTypes /\ TaskTypes /\ ClientTypes /\ ChannelTypes /\ OtherTypes /\ Working
  BY Parts
<1>l. Loop \in Tasks /\ task[Loop] \in TaskState
  BY <1>0 DEF Tasks, TaskTypes
<1>1. ASSUME LoopTick PROVE TypeInv'
  <2>1. task' = [task EXCEPT ![Loop] = Flushing(FlushBatch)] /\ client' = client
    BY <1>1 DEF LoopTick
  <2>2. TaskTypes' /\ Working'
    BY <1>0, <1>l, <2>1, Records, TaskStep, WorkingStep DEF Flushing
  <2> QED
    BY <1>0, <1>1, <2>2, PartsNext
    DEF LoopTick, DbTypes, ClientTypes, ChannelTypes, OtherTypes, db, history
<1>2. ASSUME LoopStops PROVE TypeInv'
  <2> DEFINE t == [task[Loop] EXCEPT !.at = "stopped"]
  <2>1. t \in TaskState /\ t.at = "stopped"
    BY <1>l DEF TaskState
  <2>2. task' = [task EXCEPT ![Loop] = t] /\ client' = client
    BY <1>0, <1>2, <1>l DEF LoopStops, TaskTypes, TaskState
  <2>3. TaskTypes' /\ Working'
    BY <1>0, <1>l, <2>1, <2>2, TaskStep, WorkingStep
  <2> QED
    BY <1>0, <1>2, <2>3, PartsNext
    DEF LoopStops, DbTypes, ClientTypes, ChannelTypes, OtherTypes, db, history
<1>3. ASSUME NEW id \in Ids, BecomesDue(id) PROVE TypeInv'
  BY <1>0, <1>3, PartsNext
  DEF BecomesDue, DbTypes, TaskTypes, ClientTypes, ChannelTypes, OtherTypes, Working, history
<1>4. ASSUME Connect PROVE TypeInv'
  <2>1. ClientTypes' /\ Working'
    BY <1>0, <1>4 DEF Connect, ClientTypes, ClientState, Working
  <2> QED
    BY <1>0, <1>4, <2>1, PartsNext
    DEF Connect, DbTypes, TaskTypes, ChannelTypes, OtherTypes, db, history
<1>5. ASSUME LinkDies PROVE TypeInv'
  <2>1. ClientTypes' /\ Working'
    BY <1>0, <1>5 DEF LinkDies, ClientTypes, ClientState, Working
  <2> QED
    BY <1>0, <1>5, <2>1, PartsNext
    DEF LinkDies, DbTypes, TaskTypes, ChannelTypes, OtherTypes, db, history
<1>6. ASSUME SessionSends PROVE TypeInv'
  <2>1. Head(outCh) \in Ids \cup {Ack} /\ outCh' \in Seq(Ids \cup {Ack}) /\ Len(outCh') <= OutCap
    BY <1>0, <1>6 DEF SessionSends, ChannelTypes
  <2>2. OtherTypes'
    BY <1>0, <1>6, <2>1 DEF SessionSends, OtherTypes
  <2>3. ClientTypes' /\ Working'
    BY <1>0, <1>6, Records DEF SessionSends, ClientTypes, Working, Offline
  <2> QED
    BY <1>0, <1>6, <2>1, <2>2, <2>3, PartsNext
    DEF SessionSends, DbTypes, TaskTypes, ChannelTypes, db
<1>7. ASSUME SessionPushes PROVE TypeInv'
  <2>1. client.frame \in Seq(Frame) /\ Len(client.frame) = 1
    BY <1>0, <1>7 DEF SessionPushes, Working, ClientTypes, ClientState
  <2>2. inCh' \in Seq(Frame) /\ Len(inCh') <= InCap
    <3>1. CASE Len(inCh) < InCap /\ inCh' = inCh \o client.frame
      <4>1. inCh' \in Seq(Frame) /\ Len(inCh') = Len(inCh) + Len(client.frame)
        BY <1>0, <2>1, <3>1, ConcatProperties DEF ChannelTypes
      <4>2. Len(inCh) \in Nat
        BY <1>0, LenProperties DEF ChannelTypes
      <4> QED
        BY <2>1, <3>1, <4>1, <4>2
    <3>2. CASE UNCHANGED inCh
      BY <1>0, <3>2 DEF ChannelTypes
    <3> QED
      BY <1>7, <3>1, <3>2 DEF SessionPushes
  <2>3. ClientTypes' /\ Working'
    <3>1. <<>> \in Seq(Frame)
      OBVIOUS
    <3>2. client' = [at |-> "select", link |-> client.link, frame |-> <<>>]
      BY <1>0, <1>7 DEF SessionPushes, ClientTypes, ClientState
    <3>3. ClientTypes'
      BY <1>0, <3>1, <3>2 DEF ClientTypes, ClientState
    <3>4. Working'
      BY <1>0, <1>7, <3>2 DEF SessionPushes, Working
    <3> QED
      BY <3>3, <3>4
  <2> QED
    BY <1>0, <1>7, <2>2, <2>3, PartsNext
    DEF SessionPushes, DbTypes, TaskTypes, ChannelTypes, OtherTypes, db, history
<1>8. ASSUME SessionEnds PROVE TypeInv'
  <2>1. ClientTypes' /\ Working'
    BY <1>0, <1>8, Records DEF SessionEnds, ClientTypes, Working, Offline
  <2> QED
    BY <1>0, <1>8, <2>1, PartsNext
    DEF SessionEnds, DbTypes, TaskTypes, ChannelTypes, OtherTypes, db, history
<1>9. ASSUME ClientStops PROVE TypeInv'
  <2>1. ClientTypes' /\ Working'
    BY <1>0, <1>9, Records DEF ClientStops, ClientTypes, Working, Offline
  <2> QED
    BY <1>0, <1>9, <2>1, PartsNext
    DEF ClientStops, DbTypes, TaskTypes, ChannelTypes, OtherTypes, db, history
<1>10. ASSUME NEW f \in Frame, SessionReads(f) PROVE TypeInv'
  <2>1. <<f>> \in Seq(Frame) /\ Len(<<f>>) = 1
    OBVIOUS
  <2>2. ClientTypes' /\ Working'
    BY <1>0, <1>10, <2>1 DEF SessionReads, ClientTypes, ClientState, Working
  <2> QED
    BY <1>0, <1>10, <2>2, PartsNext
    DEF SessionReads, DbTypes, TaskTypes, ChannelTypes, OtherTypes, db, history
<1>11. ASSUME Receive PROVE TypeInv'
  <2>1. inCh' \in Seq(Frame) /\ Len(inCh') <= InCap
    BY <1>0, <1>11 DEF Receive, ChannelTypes
  <2>2. OtherTypes'
    BY <1>0, <1>11 DEF Receive, OtherTypes
  <2> QED
    BY <1>0, <1>11, <2>1, <2>2, PartsNext
    DEF Receive, DbTypes, TaskTypes, ClientTypes, ChannelTypes, Working, db
<1>12. ASSUME HookEnds \/ InboundStops \/ Shutdown PROVE TypeInv'
  BY <1>0, <1>12, PartsNext
  DEF HookEnds, InboundStops, Shutdown, DbTypes, TaskTypes, ClientTypes, ChannelTypes, OtherTypes,
      Working, db, history
<1>13. ASSUME SendAck PROVE TypeInv'
  <2>1. ChannelTypes'
    BY <1>0, <1>13 DEF SendAck, ChannelTypes
  <2> QED
    BY <1>0, <1>13, <2>1, PartsNext
    DEF SendAck, DbTypes, TaskTypes, ClientTypes, OtherTypes, Working, db, history
<1>14. ASSUME Fresh PROVE TypeInv'
  <2>1. TaskTypes' /\ ClientTypes' /\ Working'
    BY <1>14, Records DEF Fresh, TaskTypes, ClientTypes, Working, IdleTask, Offline
  <2>2. DbTypes'
    BY <1>0, <1>14 DEF Fresh, DbTypes, db
  <2>3. ChannelTypes'
    BY <1>14 DEF Fresh, ChannelTypes
  <2>4. OtherTypes'
    BY <1>0, <1>14 DEF Fresh, OtherTypes
  <2> QED
    BY <2>1, <2>2, <2>3, <2>4, PartsNext
<1> QED
  BY <1>1, <1>2, <1>3, <1>4, <1>5, <1>6, <1>7, <1>8, <1>9, <1>10, <1>11, <1>12, <1>13, <1>14
  DEF Exit, Crash

\* Doing nothing keeps the data well-formed.
LEMMA StutterTypes ==
    ASSUME TypeInv, UNCHANGED vars
    PROVE  TypeInv'
<1>0. DbTypes /\ TaskTypes /\ ClientTypes /\ ChannelTypes /\ OtherTypes /\ Working
  BY Parts
<1> QED
  BY <1>0, PartsNext
  DEF vars, db, history, DbTypes, TaskTypes, ClientTypes, ChannelTypes, OtherTypes, Working

\* Every step keeps the data well-formed.
LEMMA NextTypes ==
    ASSUME TypeInv, [Next]_vars
    PROVE  TypeInv'
BY RequestTypes, FlushTypes, SessionTypes, StutterTypes DEF Next

\* The queue, the tasks, the client and its channels keep their types: no channel
\* exceeds its capacity and no row is tried MaxAttempts times.
THEOREM TypeCorrect == Spec => []TypeOK
<1>1. TypeInv => TypeOK
  BY DEF TypeInv
<1> QED
  BY <1>1, InitTypes, NextTypes, PTL DEF Spec

-----------------------------------------------------------------------------
(* One copy of each frame *)

\* A step that gives no frame to a further place keeps the frames in one place.
LEMMA QuietStep ==
    ASSUME OneCopy, Issued, TypeOK, TypeOK',
           queue' \subseteq queue, dead' = dead, written' = written, nextId' = nextId,
           \A x \in Tasks : Held(x)' \subseteq Held(x),
           outCh' = outCh \/ outCh' = <<>>
    PROVE  OneCopy' /\ Issued'
<1>1. Channelled' \subseteq Channelled
  BY DEF Channelled
<1>2. OneCopy'
  <2>1. \A i, j \in 1 .. Len(outCh') : outCh'[i] = outCh'[j] /\ outCh'[i] # Ack => i = j
    BY DEF OneCopy
  <2> QED
    BY <1>1, <2>1 DEF OneCopy
<1> QED
  BY <1>1, <1>2 DEF Issued

\* What a task holds, when one task changes.
LEMMA HeldStep ==
    ASSUME TaskTypes, NEW x \in Tasks, NEW t \in TaskState, task' = [task EXCEPT ![x] = t]
    PROVE  /\ Held(x)' = IF t.at = "send" THEN {t.id} ELSE {}
           /\ \A y \in Tasks \ {x} : Held(y)' = Held(y)
BY TaskStep DEF Held

\* The frames in the channel after a send.
LEMMA ChannelAppend ==
    ASSUME ChannelTypes, NEW f \in Ids \cup {Ack}, outCh' = Append(outCh, f)
    PROVE  /\ Channelled' = Channelled \cup ({f} \ {Ack})
           /\ (f = Ack \/ f \notin Channelled)
              /\ (\A i, j \in 1 .. Len(outCh) : outCh[i] = outCh[j] /\ outCh[i] # Ack => i = j)
              => \A i, j \in 1 .. Len(outCh') : outCh'[i] = outCh'[j] /\ outCh'[i] # Ack => i = j
<1>1. Len(outCh) \in Nat /\ Len(outCh') = Len(outCh) + 1
  BY DEF ChannelTypes
<1>2. \A i \in 1 .. Len(outCh) : outCh'[i] = outCh[i]
  BY DEF ChannelTypes
<1>3. outCh'[Len(outCh) + 1] = f
  BY DEF ChannelTypes
<1>4. 1 .. Len(outCh') = 1 .. Len(outCh) \cup {Len(outCh) + 1}
  BY <1>1
<1>5. Channelled' = Channelled \cup ({f} \ {Ack})
  BY <1>2, <1>3, <1>4 DEF Channelled
<1>6. ASSUME f = Ack \/ f \notin Channelled,
             \A i, j \in 1 .. Len(outCh) : outCh[i] = outCh[j] /\ outCh[i] # Ack => i = j,
             NEW i \in 1 .. Len(outCh'), NEW j \in 1 .. Len(outCh'),
             outCh'[i] = outCh'[j], outCh'[i] # Ack
      PROVE  i = j
  BY <1>2, <1>3, <1>4, <1>6 DEF Channelled
<1> QED
  BY <1>5, <1>6

\* The frames in the channel after the session has taken one.
LEMMA ChannelTail ==
    ASSUME ChannelTypes, outCh # <<>>, outCh' = Tail(outCh),
           \A i, j \in 1 .. Len(outCh) : outCh[i] = outCh[j] /\ outCh[i] # Ack => i = j
    PROVE  /\ Channelled' = Channelled \ {Head(outCh)}
           /\ {Head(outCh)} \ {Ack} \subseteq Channelled
           /\ \A i, j \in 1 .. Len(outCh') : outCh'[i] = outCh'[j] /\ outCh'[i] # Ack => i = j
<1>1. Len(outCh) \in Nat \ {0} /\ Len(outCh') = Len(outCh) - 1
  BY EmptySeq, LenProperties, HeadTailProperties DEF ChannelTypes
<1>2. \A i \in 1 .. Len(outCh') : i + 1 \in 1 .. Len(outCh) /\ outCh'[i] = outCh[i + 1]
  BY <1>1, HeadTailProperties DEF ChannelTypes
<1>3. Head(outCh) = outCh[1] /\ 1 \in 1 .. Len(outCh)
  BY <1>1
<1>4. \A k \in 1 .. Len(outCh) : k = 1 \/ (k - 1 \in 1 .. Len(outCh') /\ outCh[k] = outCh'[k - 1])
  BY <1>1, <1>2
<1>5. Channelled' \subseteq Channelled \ {Head(outCh)}
  BY <1>1, <1>2, <1>3 DEF Channelled
<1>6. Channelled \ {Head(outCh)} \subseteq Channelled'
  BY <1>3, <1>4 DEF Channelled
<1>7. \A i, j \in 1 .. Len(outCh') : outCh'[i] = outCh'[j] /\ outCh'[i] # Ack => i = j
  BY <1>1, <1>2
<1>8. {Head(outCh)} \ {Ack} \subseteq Channelled
  BY <1>3 DEF Channelled
<1> QED
  BY <1>5, <1>6, <1>7, <1>8

\* A step of a request changes this request only, which then holds no frame.
LEMMA RequestTask ==
    ASSUME TaskTypes, NEW h \in Handlers,
           \/ \E n \in 1 .. MaxBatch : Post(h, n)
           \/ Insert(h) \/ InsertFails(h) \/ Rollback(h) \/ Abandon(h)
    PROVE  /\ h \in Tasks /\ task'[h].at # "send"
           /\ \A y \in Tasks \ {h} : task'[y] = task[y]
<1>0. h \in Tasks
  BY DEF Tasks
<1>1. CASE (\E n \in 1 .. MaxBatch : Post(h, n)) \/ InsertFails(h) \/ Abandon(h)
  BY <1>0, <1>1 DEF Post, InsertFails, Abandon, IdleTask, TaskTypes
<1>3. CASE Rollback(h)
  BY <1>0, <1>3 DEF Rollback, IdleTask, TaskTypes, TaskState
<1>2. CASE Insert(h)
  <2>1. CASE task[h].n > 1
    BY <1>0, <1>2, <2>1 DEF Insert, TaskTypes, TaskState
  <2>2. CASE ~(task[h].n > 1)
    BY <1>0, <1>2, <2>2 DEF Insert, Flushing, TaskTypes
  <2> QED
    BY <2>1, <2>2
<1> QED
  BY <1>0, <1>1, <1>2, <1>3

\* A request keeps every frame in one place: its ids are new.
LEMMA RequestCopies ==
    ASSUME Inv, TypeOK', NEW h \in Handlers,
           \/ \E n \in 1 .. MaxBatch : Post(h, n)
           \/ Insert(h) \/ InsertFails(h) \/ Rollback(h) \/ Abandon(h)
    PROVE  OneCopy' /\ Issued'
<1> USE ConnectorAssumption
<1>0. DbTypes /\ TaskTypes /\ ChannelTypes /\ TypeOK /\ OneCopy /\ Issued
  BY Parts DEF Inv, TypeInv
<1>h. h \in Tasks /\ task'[h].at # "send"
      /\ \A y \in Tasks \ {h} : task'[y] = task[y]
  BY <1>0, RequestTask
<1>g. Held(h)' = {} /\ \A y \in Tasks \ {h} : Held(y)' = Held(y)
  BY <1>h DEF Held
<1>1. CASE (\E n \in 1 .. MaxBatch : Post(h, n)) \/ InsertFails(h) \/ Rollback(h) \/ Abandon(h)
  <2>1. /\ queue' \subseteq queue /\ dead' = dead /\ written' = written
        /\ nextId' = nextId /\ outCh' = outCh
    BY <1>1 DEF Post, InsertFails, Rollback, Abandon, db, history
  <2> QED
    BY <1>0, <1>g, <2>1, QuietStep
<1>2. CASE Insert(h)
  <2>1. /\ queue' = queue \cup {nextId} /\ nextId' = nextId + 1 /\ nextId \in Nat
        /\ dead' = dead /\ written' = written /\ outCh' = outCh
    BY <1>0, <1>2 DEF Insert, history, DbTypes
  <2>2. Channelled' = Channelled
    BY <2>1 DEF Channelled
  <2>3. nextId \notin dead \cup written \cup Channelled /\ \A y \in Tasks : nextId \notin Held(y)
    BY <1>0, <2>1 DEF Issued
  <2>4. OneCopy'
    <3>1. \A i, j \in 1 .. Len(outCh') : outCh'[i] = outCh'[j] /\ outCh'[i] # Ack => i = j
      BY <1>0, <2>1 DEF OneCopy
    <3> QED
      BY <1>0, <1>g, <2>1, <2>2, <2>3, <3>1 DEF OneCopy
  <2>5. Issued'
    <3>1. \A id \in dead \cup written \cup Channelled \cup queue : id < nextId + 1
      <4>1. queue \cup dead \cup written \subseteq Ids
        BY <1>0 DEF TypeOK
      <4>2. Channelled \subseteq Ids
        BY <1>0 DEF Channelled, ChannelTypes
      <4>3. \A id \in dead \cup written \cup Channelled \cup queue : id \in Nat /\ id < nextId
        <5>1. \A id \in Ids : id \in Nat
          BY DEF Ids
        <5>2. \A id \in queue \cup dead \cup written \cup Channelled : id < nextId
          BY <1>0 DEF Issued
        <5> QED
          BY <4>1, <4>2, <5>1, <5>2
      <4> QED
        BY <2>1, <4>3
    <3>2. \A y \in Tasks : \A id \in Held(y) : id < nextId + 1
      BY <1>0, <2>1 DEF Issued, Held, TaskTypes, TaskState, Ids
    <3> QED
      BY <1>g, <2>1, <2>2, <3>1, <3>2 DEF Issued
  <2> QED
    BY <2>4, <2>5
<1> QED
  BY <1>1, <1>2

\* A flush keeps every frame in one place, whichever tasks flush at the same time.
LEMMA FlushCopies ==
    ASSUME Inv, TypeOK', NEW x \in Tasks,
           Flush(x) \/ Send(x) \/ StoreFails(x) \/ \E id \in Ids : DeadLetterFails(x, id)
    PROVE  OneCopy' /\ Issued'
<1> USE ConnectorAssumption
<1>0. DbTypes /\ TaskTypes /\ ChannelTypes /\ Working /\ TypeOK /\ OneCopy /\ Issued
  BY Parts DEF Inv, TypeInv
<1>x. task[x] \in TaskState
  BY <1>0 DEF TaskTypes
<1>t. task[x].at = "send" =>
         /\ task[x].id \in Ids /\ Held(x) = {task[x].id}
         /\ NextRound(x) \in TaskState /\ NextRound(x).at = "flush"
  BY <1>0, <1>x DEF Working, NextRound, Flushing, TaskState, Held
<1>f. \A id \in Ids : Takes(x, id) =>
         /\ id \in queue /\ task[x].n \in Nat /\ Held(x) = {}
         /\ NextRound(x) \in TaskState /\ NextRound(x).at = "flush"
  BY <1>x DEF Takes, First, Due, NextRound, Flushing, TaskState, Held
<1>i. IdleTask \in TaskState /\ IdleTask.at # "send"
  BY Records DEF IdleTask
<1>1. ASSUME NEW id \in Ids, Offer(x, id) PROVE OneCopy' /\ Issued'
  <2> DEFINE t == [at |-> "send", n |-> task[x].n, mine |-> {}, id |-> id]
  <2>1. t \in TaskState /\ t.at = "send" /\ t.id = id
    BY <1>1, <1>f DEF Offer, TaskState
  <2>2. task' = [task EXCEPT ![x] = t]
    BY <1>1 DEF Offer
  <2>3. Held(x)' = {id} /\ \A y \in Tasks \ {x} : Held(y)' = Held(y)
    <3> HIDE DEF t
    <3> QED
      BY <1>0, <2>1, <2>2, HeldStep
  <2>4. /\ queue' = queue \ {id} /\ id \in queue /\ nextId' = nextId
        /\ dead' = dead /\ written' = written /\ outCh' = outCh
    BY <1>1, <1>f DEF Offer, history
  <2>5. Channelled' = Channelled
    BY <2>4 DEF Channelled
  <2>6. OneCopy'
    <3>1. \A i, j \in 1 .. Len(outCh') : outCh'[i] = outCh'[j] /\ outCh'[i] # Ack => i = j
      BY <1>0, <2>4 DEF OneCopy
    <3> QED
      BY <1>0, <2>3, <2>4, <2>5, <3>1 DEF OneCopy
  <2>7. Issued'
    BY <1>0, <2>3, <2>4, <2>5 DEF Issued
  <2> QED
    BY <2>6, <2>7
<1>2. ASSUME NEW f \in Ids, task[x].at = "send", f = task[x].id,
             NEW t \in TaskState, task' = [task EXCEPT ![x] = t], t.at # "send",
             \/ queue' = queue \cup {f} /\ dead' = dead
             \/ queue' = queue /\ dead' = dead \cup {f},
             written' = written, nextId' = nextId, outCh' = outCh
      PROVE  OneCopy' /\ Issued'
  <2>1. Held(x)' = {} /\ \A y \in Tasks \ {x} : Held(y)' = Held(y)
    BY <1>0, <1>2, HeldStep
  <2>2. Channelled' = Channelled
    BY <1>2 DEF Channelled
  <2>3. Held(x) = {f}
    BY <1>t, <1>2
  <2>4. OneCopy'
    <3>1. \A i, j \in 1 .. Len(outCh') : outCh'[i] = outCh'[j] /\ outCh'[i] # Ack => i = j
      BY <1>0, <1>2 DEF OneCopy
    <3> QED
      BY <1>0, <1>2, <2>1, <2>2, <2>3, <3>1 DEF OneCopy
  <2>5. Issued'
    BY <1>0, <1>2, <2>1, <2>2, <2>3 DEF Issued
  <2> QED
    BY <2>4, <2>5
<1>3. ASSUME NEW id \in Ids, DeadLetter(x, id) PROVE OneCopy' /\ Issued'
  <2>1. /\ queue' = queue \ {id} /\ id \in queue /\ nextId' = nextId
        /\ dead' = dead \cup {id} /\ written' = written /\ outCh' = outCh
    BY <1>3, <1>f DEF DeadLetter, history
  <2>2. \A y \in Tasks : Held(y)' = Held(y)
    BY <1>0, <1>3, <1>f, HeldStep DEF DeadLetter
  <2>3. Channelled' = Channelled
    BY <2>1 DEF Channelled
  <2>4. OneCopy'
    <3>1. \A i, j \in 1 .. Len(outCh') : outCh'[i] = outCh'[j] /\ outCh'[i] # Ack => i = j
      BY <1>0, <2>1 DEF OneCopy
    <3> QED
      BY <1>0, <2>1, <2>2, <2>3, <3>1 DEF OneCopy
  <2>5. Issued'
    BY <1>0, <2>1, <2>2, <2>3 DEF Issued
  <2> QED
    BY <2>4, <2>5
<1>5. ASSUME NEW id \in Ids, DeadLetterFails(x, id) PROVE OneCopy' /\ Issued'
  <2>1. \A y \in Tasks : Held(y)' = Held(y)
    BY <1>0, <1>5, <1>f, <1>i, HeldStep DEF DeadLetterFails
  <2> QED
    BY <1>0, <1>5, <2>1, QuietStep DEF DeadLetterFails, history
<1>4. ASSUME SendFails(x) PROVE OneCopy' /\ Issued'
  <2>1. task[x].at = "send" /\ written' = written /\ nextId' = nextId /\ outCh' = outCh
    BY <1>4 DEF SendFails, history
  <2>2. \/ queue' = queue /\ dead' = dead \cup {task[x].id}
           /\ task' = [task EXCEPT ![x] = NextRound(x)]
        \/ queue' = queue \cup {task[x].id} /\ dead' = dead
           /\ task' = [task EXCEPT ![x] = IdleTask]
    BY <1>4 DEF SendFails
  <2>3. IdleTask.at # "send"
    BY DEF IdleTask
  <2> QED
    BY <1>2, <1>t, <2>1, <2>2, <2>3, Records
<1>6. ASSUME FlushEnds(x) \/ StoreFails(x) PROVE OneCopy' /\ Issued'
  <2>1. Held(x)' = {} /\ \A y \in Tasks \ {x} : Held(y)' = Held(y)
    BY <1>0, <1>6, <1>i, HeldStep DEF FlushEnds, StoreFails
  <2> QED
    BY <1>0, <1>6, <2>1, QuietStep DEF FlushEnds, StoreFails, db, history
<1>7. ASSUME Send(x) PROVE OneCopy' /\ Issued'
  <2> DEFINE f == task[x].id
  <2>1. /\ task[x].at = "send" /\ task' = [task EXCEPT ![x] = NextRound(x)]
        /\ queue' = queue /\ dead' = dead /\ written' = written /\ nextId' = nextId
        /\ outCh' = Append(outCh, f)
    BY <1>7 DEF Send, db
  <2>2. Held(x)' = {} /\ (\A y \in Tasks \ {x} : Held(y)' = Held(y)) /\ Held(x) = {f} /\ f \in Ids
    BY <1>0, <1>t, <2>1, HeldStep
  <2>3. f \notin Channelled /\ f # Ack
    BY <1>0, <2>2 DEF OneCopy, Ids, Ack
  <2>4. /\ Channelled' = Channelled \cup {f}
        /\ \A i, j \in 1 .. Len(outCh') : outCh'[i] = outCh'[j] /\ outCh'[i] # Ack => i = j
    <3>1. \A i, j \in 1 .. Len(outCh) : outCh[i] = outCh[j] /\ outCh[i] # Ack => i = j
      BY <1>0 DEF OneCopy
    <3> HIDE DEF f
    <3> QED
      BY <1>0, <2>1, <2>2, <2>3, <3>1, ChannelAppend
  <2>5. OneCopy'
    <3> HIDE DEF f
    <3> QED
      BY <1>0, <2>1, <2>2, <2>3, <2>4 DEF OneCopy
  <2>6. Issued'
    <3> HIDE DEF f
    <3> QED
      BY <1>0, <2>1, <2>2, <2>4 DEF Issued
  <2> QED
    BY <2>5, <2>6
<1> QED
  BY <1>1, <1>3, <1>4, <1>5, <1>6, <1>7 DEF Flush

\* The client, the inbound loop and the process keep every frame in one place.
LEMMA SessionCopies ==
    ASSUME Inv, TypeOK',
           \/ LoopTick \/ LoopStops
           \/ \E id \in Ids : BecomesDue(id)
           \/ Connect \/ LinkDies \/ SessionSends \/ SessionPushes
           \/ SessionEnds \/ ClientStops
           \/ \E f \in Frame : SessionReads(f)
           \/ Receive \/ HookEnds \/ SendAck \/ InboundStops
           \/ Shutdown \/ Exit \/ Crash
    PROVE  OneCopy' /\ Issued'
<1> USE ConnectorAssumption
<1>0. DbTypes /\ TaskTypes /\ ChannelTypes /\ Working /\ TypeOK /\ OneCopy /\ Issued
  BY Parts DEF Inv, TypeInv
<1>u. \A i, j \in 1 .. Len(outCh) : outCh[i] = outCh[j] /\ outCh[i] # Ack => i = j
  BY <1>0 DEF OneCopy
<1>1. ASSUME LoopTick \/ LoopStops PROVE OneCopy' /\ Issued'
  <2>1. Loop \in Tasks /\ task'[Loop].at # "send"
        /\ \A y \in Tasks \ {Loop} : task'[y] = task[y]
    BY <1>0, <1>1 DEF LoopTick, LoopStops, Flushing, Tasks, TaskTypes, TaskState
  <2>2. \A y \in Tasks : Held(y)' \subseteq Held(y)
    BY <2>1 DEF Held
  <2> QED
    BY <1>0, <1>1, <2>2, QuietStep DEF LoopTick, LoopStops, db, history
<1>2. ASSUME \/ \E id \in Ids : BecomesDue(id)
             \/ Connect \/ LinkDies \/ SessionPushes \/ SessionEnds \/ ClientStops
             \/ \E f \in Frame : SessionReads(f)
             \/ Receive \/ HookEnds \/ InboundStops \/ Shutdown
      PROVE  OneCopy' /\ Issued'
  <2>1. /\ task' = task /\ queue' = queue /\ dead' = dead /\ written' = written
        /\ nextId' = nextId /\ (outCh' = outCh \/ outCh' = <<>>)
    BY <1>2 DEF BecomesDue, Connect, LinkDies, SessionPushes, SessionEnds, ClientStops,
         SessionReads, Receive, HookEnds, InboundStops, Shutdown, db, history
  <2>2. \A y \in Tasks : Held(y)' = Held(y)
    BY <2>1 DEF Held
  <2> QED
    BY <1>0, <2>1, <2>2, QuietStep
<1>3. ASSUME Fresh PROVE OneCopy' /\ Issued'
  <2>1. \A y \in Tasks : Held(y)' = {}
    BY <1>3 DEF Fresh, Held, IdleTask
  <2> QED
    BY <1>0, <1>3, <2>1, QuietStep DEF Fresh, db
<1>4. ASSUME SendAck PROVE OneCopy' /\ Issued'
  <2>1. /\ task' = task /\ queue' = queue /\ dead' = dead /\ written' = written /\ nextId' = nextId
        /\ (outCh' = outCh \/ outCh' = Append(outCh, Ack))
    BY <1>4 DEF SendAck, db, history
  <2>2. \A y \in Tasks : Held(y)' = Held(y)
    BY <2>1 DEF Held
  <2>3. CASE outCh' = outCh
    BY <1>0, <2>1, <2>2, <2>3, QuietStep
  <2>4. CASE outCh' = Append(outCh, Ack)
    <3>1. /\ Channelled' = Channelled
          /\ \A i, j \in 1 .. Len(outCh') : outCh'[i] = outCh'[j] /\ outCh'[i] # Ack => i = j
      BY <1>0, <1>u, <2>4, ChannelAppend
    <3> QED
      BY <1>0, <2>1, <2>2, <3>1 DEF OneCopy, Issued
  <2> QED
    BY <2>1, <2>3, <2>4
<1>5. ASSUME SessionSends PROVE OneCopy' /\ Issued'
  <2> DEFINE f == Head(outCh)
  <2>1. /\ task' = task /\ queue' = queue /\ dead' = dead /\ nextId' = nextId
        /\ outCh # <<>> /\ outCh' = Tail(outCh) /\ written' = written \cup ({f} \ {Ack})
    BY <1>5 DEF SessionSends, db
  <2>2. \A y \in Tasks : Held(y)' = Held(y)
    BY <2>1 DEF Held
  <2>3. /\ Channelled' = Channelled \ {f} /\ {f} \ {Ack} \subseteq Channelled
        /\ \A i, j \in 1 .. Len(outCh') : outCh'[i] = outCh'[j] /\ outCh'[i] # Ack => i = j
    BY <1>0, <1>u, <2>1, ChannelTail
  <2>4. OneCopy'
    <3> HIDE DEF f
    <3> QED
      BY <1>0, <2>1, <2>2, <2>3 DEF OneCopy
  <2>5. Issued'
    <3> HIDE DEF f
    <3> QED
      BY <1>0, <2>1, <2>2, <2>3 DEF Issued
  <2> QED
    BY <2>4, <2>5
<1> QED
  BY <1>1, <1>2, <1>3, <1>4, <1>5 DEF Exit, Crash

\* A connector without frames satisfies the invariant.
LEMMA InitInv == Init => Inv
<1> SUFFICES ASSUME Init PROVE Inv
  OBVIOUS
<1>1. TypeInv
  BY InitTypes
<1>2. Channelled = {} /\ \A x \in Tasks : Held(x) = {}
  BY DEF Init, Channelled, Held, IdleTask
<1>3. OneCopy /\ Issued
  BY <1>2 DEF Init, OneCopy, Issued
<1> QED
  BY <1>1, <1>3 DEF Inv

\* The invariant is inductive.
LEMMA InvNext ==
    ASSUME Inv, [Next]_vars
    PROVE  Inv'
<1>1. TypeInv' /\ TypeOK'
  BY NextTypes DEF Inv, TypeInv
<1>2. CASE UNCHANGED vars
  <2>1. OneCopy' /\ Issued'
    BY <1>2 DEF Inv, OneCopy, Issued, Channelled, Held, vars, db, history
  <2> QED
    BY <1>1, <2>1 DEF Inv
<1>3. CASE Next
  BY <1>1, <1>3, RequestCopies, FlushCopies, SessionCopies DEF Next, Inv
<1> QED
  BY <1>2, <1>3

\* The connector never has two copies of an outbound frame, however requests, the
\* flush loop, reconnections, shutdowns and crashes interleave: it writes a frame to
\* a socket at most once, and what it reports as a dead letter was never sent.
THEOREM AtMostOnce == Spec => []OneCopy
<1>1. Inv => OneCopy
  BY DEF Inv
<1> QED
  BY <1>1, InitInv, InvNext, PTL DEF Spec

-----------------------------------------------------------------------------
(* Rejections *)

\* The relay answers only frames that were written, and an answer is about one.
AnswersWritten ==
    /\ wire \subseteq written
    /\ \A i \in 1 .. Len(inCh) : inCh[i].id \in written \cup {0}
    /\ \A i \in 1 .. Len(client.frame) : client.frame[i].id \in written \cup {0}

\* What the flush loop sends is noted before, and is not sent again.
Noted ==
    /\ byLoop \subseteq inflight
    /\ task[Loop].at = "send" => task[Loop].id \in inflight
    /\ byLoop \cap queue = {}
    /\ \A x \in Tasks : byLoop \cap Held(x) = {}
    /\ \A id \in byLoop : id < nextId

AnswerInv == AnswersWritten /\ Noted /\ RejectionsKnown

\* A step of a request leaves answers and notes alone.
LEMMA RequestAnswers ==
    ASSUME Inv, AnswerInv, NEW h \in Handlers,
           \/ \E n \in 1 .. MaxBatch : Post(h, n)
           \/ Insert(h) \/ InsertFails(h) \/ Rollback(h) \/ Abandon(h)
    PROVE  AnswerInv'
<1> USE ConnectorAssumption
<1>0. DbTypes /\ TaskTypes /\ OtherTypes /\ AnswersWritten /\ Noted /\ RejectionsKnown
  BY Parts DEF Inv, AnswerInv
<1>1. h \in Tasks /\ task'[h].at # "send"
      /\ \A y \in Tasks \ {h} : task'[y] = task[y]
  BY <1>0, RequestTask
<1>2. Loop \in Tasks /\ Loop # h /\ task'[Loop] = task[Loop]
  BY <1>1 DEF Tasks
<1>3. /\ written' = written /\ wire' = wire /\ inCh' = inCh /\ client' = client
      /\ byLoop' = byLoop /\ inflight' = inflight /\ dropped' = dropped
  BY DEF Post, Insert, InsertFails, Rollback, Abandon, history
<1>4. \/ queue' \subseteq queue /\ nextId' = nextId
      \/ queue' = queue \cup {nextId} /\ nextId' = nextId + 1
  BY DEF Post, Insert, InsertFails, Rollback, Abandon, db
<1>5. \A x \in Tasks : Held(x)' \subseteq Held(x)
  BY <1>1 DEF Held
<1>6. byLoop \cap queue' = {}
  BY <1>0, <1>4 DEF Noted, DbTypes
<1>7. \A id \in byLoop : id < nextId'
  BY <1>0, <1>4 DEF Noted, DbTypes, OtherTypes, Ids
<1>8. Noted'
  BY <1>0, <1>2, <1>3, <1>5, <1>6, <1>7 DEF Noted
<1> QED
  BY <1>0, <1>3, <1>8 DEF AnswerInv, AnswersWritten, RejectionsKnown

\* A frame that the flush loop sends is noted by then: no answer to it can have
\* removed the note, since it was not written yet.
LEMMA FlushAnswers ==
    ASSUME Inv, AnswerInv, NEW x \in Tasks,
           Flush(x) \/ Send(x) \/ StoreFails(x) \/ \E id \in Ids : DeadLetterFails(x, id)
    PROVE  AnswerInv'
<1> USE ConnectorAssumption
<1>0. /\ DbTypes /\ TaskTypes /\ OtherTypes /\ Working /\ OneCopy /\ Issued
      /\ AnswersWritten /\ Noted /\ RejectionsKnown
  BY Parts DEF Inv, AnswerInv
<1>x. task[x] \in TaskState /\ Loop \in Tasks
  BY <1>0 DEF TaskTypes, Tasks
<1>t. task[x].at = "send" => /\ task[x].id \in Ids /\ Held(x) = {task[x].id}
                                          /\ task[x].id \notin byLoop
                                          /\ NextRound(x).at = "flush"
  BY <1>0, <1>x DEF Working, Held, Noted, NextRound, Flushing
<1>1. /\ written' = written /\ wire' = wire /\ inCh' = inCh /\ client' = client
      /\ dropped' = dropped /\ nextId' = nextId
  BY DEF Flush, DeadLetter, DeadLetterFails, Offer, SendFails, StoreFails, FlushEnds, Send, db,
         history
<1>2. AnswersWritten' /\ RejectionsKnown'
  BY <1>0, <1>1 DEF AnswersWritten, RejectionsKnown
<1>3. ASSUME NEW id \in Ids, Offer(x, id) PROVE Noted'
  <2>1. /\ id \in queue /\ queue' = queue \ {id} /\ byLoop' = byLoop
        /\ inflight' = IF x = Loop THEN inflight \cup {id} ELSE inflight
    BY <1>3 DEF Offer, Takes, First, Due, history
  <2>2. task'[x].at = "send" /\ task'[x].id = id /\ \A y \in Tasks \ {x} : task'[y] = task[y]
    BY <1>0, <1>3 DEF Offer, TaskTypes
  <2>3. Held(x)' = {id} /\ \A y \in Tasks \ {x} : Held(y)' = Held(y)
    BY <2>2 DEF Held
  <2>4. \A y \in Tasks : byLoop \cap Held(y)' = {}
    BY <1>0, <2>1, <2>3 DEF Noted
  <2>5. task'[Loop].at = "send" => task'[Loop].id \in inflight'
    BY <1>0, <1>x, <2>1, <2>2 DEF Noted
  <2>6. byLoop \cap queue' = {}
    BY <1>0, <2>1 DEF Noted
  <2>7. byLoop \subseteq inflight'
    BY <1>0, <2>1 DEF Noted
  <2> QED
    BY <1>0, <1>1, <2>1, <2>4, <2>5, <2>6, <2>7 DEF Noted
<1>4. ASSUME NEW id \in Ids, DeadLetter(x, id) \/ DeadLetterFails(x, id) PROVE Noted'
  <2>1. queue' = queue \ {id} /\ byLoop' = byLoop /\ inflight' = inflight
    BY <1>4 DEF DeadLetter, DeadLetterFails, history
  <2>2. task'[x].at # "send" /\ \A y \in Tasks \ {x} : task'[y] = task[y]
    BY <1>0, <1>4 DEF DeadLetter, DeadLetterFails, TaskTypes, IdleTask, NextRound, Flushing
  <2>3. \A y \in Tasks : Held(y)' \subseteq Held(y)
    BY <2>2 DEF Held
  <2> QED
    BY <1>0, <1>1, <1>x, <2>1, <2>2, <2>3 DEF Noted
<1>5. ASSUME FlushEnds(x) \/ StoreFails(x) PROVE Noted'
  <2>1. /\ queue' = queue /\ byLoop' = byLoop
        /\ \/ inflight' = inflight
           \/ task[x].at = "send" /\ inflight' = inflight \ {task[x].id} /\ x = Loop
    BY <1>5 DEF FlushEnds, StoreFails, db, history
  <2>2. task'[x].at # "send" /\ \A y \in Tasks \ {x} : task'[y] = task[y]
    BY <1>0, <1>5 DEF FlushEnds, StoreFails, TaskTypes, IdleTask
  <2>3. \A y \in Tasks : Held(y)' \subseteq Held(y)
    BY <2>2 DEF Held
  <2> QED
    BY <1>0, <1>1, <1>x, <1>t, <2>1, <2>2, <2>3 DEF Noted
<1>6. ASSUME SendFails(x) PROVE Noted'
  <2>1. /\ queue' \subseteq queue \cup {task[x].id} /\ byLoop' = byLoop /\ task[x].at = "send"
        /\ inflight' = IF x = Loop THEN inflight \ {task[x].id} ELSE inflight
    BY <1>6 DEF SendFails, history
  <2>2. task'[x].at # "send" /\ \A y \in Tasks \ {x} : task'[y] = task[y]
    BY <1>0, <1>6, <1>t DEF SendFails, TaskTypes, IdleTask
  <2>3. \A y \in Tasks : Held(y)' \subseteq Held(y)
    BY <2>2 DEF Held
  <2> QED
    BY <1>0, <1>1, <1>x, <1>t, <2>1, <2>2, <2>3 DEF Noted
<1>7. ASSUME Send(x) PROVE Noted'
  <2>1. /\ queue' = queue /\ inflight' = inflight /\ task[x].at = "send"
        /\ byLoop' = IF x = Loop THEN byLoop \cup {task[x].id} ELSE byLoop
        /\ task' = [task EXCEPT ![x] = NextRound(x)]
    BY <1>7 DEF Send, db
  <2>2. task'[x].at = "flush" /\ \A y \in Tasks \ {x} : task'[y] = task[y]
    BY <1>0, <1>t, <2>1 DEF TaskTypes
  <2>3. Held(x)' = {} /\ \A y \in Tasks \ {x} : Held(y)' = Held(y)
    BY <2>2 DEF Held
  <2>4. /\ task[x].id \notin queue /\ task[x].id < nextId
        /\ \A y \in Tasks \ {x} : task[x].id \notin Held(y)
    BY <1>0, <1>t, <2>1 DEF OneCopy, Issued
  <2> QED
    BY <1>0, <1>1, <1>x, <2>1, <2>2, <2>3, <2>4 DEF Noted
<1>8. Noted'
  BY <1>3, <1>4, <1>5, <1>6, <1>7 DEF Flush
<1> QED
  BY <1>2, <1>8 DEF AnswerInv

\* The inbound loop knows every frame of the flush loop that it sees an answer to.
LEMMA SessionAnswers ==
    ASSUME Inv, AnswerInv,
           \/ LoopTick \/ LoopStops
           \/ \E id \in Ids : BecomesDue(id)
           \/ Connect \/ LinkDies \/ SessionSends \/ SessionPushes
           \/ SessionEnds \/ ClientStops
           \/ \E f \in Frame : SessionReads(f)
           \/ Receive \/ HookEnds \/ SendAck \/ InboundStops
           \/ Shutdown \/ Exit \/ Crash
    PROVE  AnswerInv'
<1> USE ConnectorAssumption
<1>0. /\ DbTypes /\ TaskTypes /\ ClientTypes /\ ChannelTypes /\ OtherTypes /\ Working
      /\ OneCopy /\ Issued /\ AnswersWritten /\ Noted /\ RejectionsKnown
  BY Parts DEF Inv, AnswerInv
<1>l. Loop \in Tasks
  BY DEF Tasks
<1>n. ASSUME task' = task, queue' = queue, nextId' = nextId, byLoop' = byLoop, inflight' = inflight
      PROVE  Noted'
  BY <1>0, <1>n DEF Noted, Held
<1>1. ASSUME LoopTick \/ LoopStops PROVE AnswerInv'
  <2>1. task'[Loop].at # "send" /\ \A y \in Tasks \ {Loop} : task'[y] = task[y]
    BY <1>0, <1>l, <1>1 DEF LoopTick, LoopStops, Flushing, TaskTypes, TaskState
  <2>2. \A y \in Tasks : Held(y)' \subseteq Held(y)
    BY <2>1 DEF Held
  <2>3. Noted'
    BY <1>0, <1>1, <2>1, <2>2 DEF LoopTick, LoopStops, Noted, db, history
  <2> QED
    BY <1>0, <1>1, <2>3
    DEF LoopTick, LoopStops, AnswerInv, AnswersWritten, RejectionsKnown, history
<1>2. ASSUME \/ \E id \in Ids : BecomesDue(id)
             \/ HookEnds \/ SendAck \/ InboundStops \/ Shutdown
      PROVE  AnswerInv'
  BY <1>0, <1>n, <1>2
  DEF BecomesDue, HookEnds, SendAck, InboundStops, Shutdown, AnswerInv, AnswersWritten,
      RejectionsKnown, db, history
<1>3. ASSUME Connect \/ SessionEnds \/ ClientStops PROVE AnswerInv'
  <2>1. /\ client'.frame = <<>> /\ (wire' = wire \/ wire' = {}) /\ inCh' = inCh
        /\ written' = written /\ dropped' = dropped
    BY <1>3 DEF Connect, SessionEnds, ClientStops, Offline, history
  <2>2. Noted'
    BY <1>n, <1>3 DEF Connect, SessionEnds, ClientStops, db, history
  <2> QED
    BY <1>0, <2>1, <2>2 DEF AnswerInv, AnswersWritten, RejectionsKnown
<1>4. ASSUME LinkDies PROVE AnswerInv'
  <2>1. /\ client'.frame = client.frame /\ wire' = {} /\ inCh' = inCh
        /\ written' = written /\ dropped' = dropped
    BY <1>0, <1>4 DEF LinkDies, ClientTypes, ClientState, history
  <2>2. Noted'
    BY <1>n, <1>4 DEF LinkDies, db, history
  <2> QED
    BY <1>0, <2>1, <2>2 DEF AnswerInv, AnswersWritten, RejectionsKnown
<1>5. ASSUME SessionSends PROVE AnswerInv'
  <2> DEFINE f == {Head(outCh)} \ {Ack}
  <2>1. /\ written' = written \cup f /\ inCh' = inCh /\ dropped' = dropped
        /\ (wire' = wire \/ wire' = wire \cup f)
        /\ (client' = client \/ client'.frame = <<>>)
    BY <1>5 DEF SessionSends, Offline
  <2>2. Noted'
    BY <1>n, <1>5 DEF SessionSends, db
  <2> HIDE DEF f
  <2> QED
    BY <1>0, <2>1, <2>2 DEF AnswerInv, AnswersWritten, RejectionsKnown
<1>6. ASSUME NEW f \in Frame, SessionReads(f) PROVE AnswerInv'
  <2>1. f.id \in wire \cup {0}
    BY <1>6 DEF SessionReads, Incoming
  <2>2. client'.frame = <<f>>
    BY <1>0, <1>6 DEF SessionReads, ClientTypes, ClientState
  <2>3. AnswersWritten'
    <3>1. wire' \subseteq wire /\ inCh' = inCh /\ written' = written
      BY <1>6 DEF SessionReads, history
    <3>2. \A i \in 1 .. Len(<<f>>) : <<f>>[i].id \in written \cup {0}
      BY <1>0, <2>1 DEF AnswersWritten
    <3> QED
      BY <1>0, <2>2, <3>1, <3>2 DEF AnswersWritten
  <2>4. Noted'
    BY <1>n, <1>6 DEF SessionReads, db, history
  <2> QED
    BY <1>0, <1>6, <2>3, <2>4 DEF SessionReads, AnswerInv, RejectionsKnown, history
<1>7. ASSUME SessionPushes PROVE AnswerInv'
  <2>1. /\ client'.frame = <<>> /\ wire' = wire /\ written' = written /\ dropped' = dropped
        /\ (inCh' = inCh \/ inCh' = inCh \o client.frame)
    BY <1>0, <1>7 DEF SessionPushes, ClientTypes, ClientState, history
  <2>2. client.frame \in Seq(Frame) /\ inCh \in Seq(Frame)
    BY <1>0 DEF ClientTypes, ClientState, ChannelTypes
  <2>3. \A i \in 1 .. Len(inCh') : inCh'[i].id \in written \cup {0}
    <3>1. CASE inCh' = inCh
      BY <1>0, <3>1 DEF AnswersWritten
    <3>2. CASE inCh' = inCh \o client.frame
      <4>1. \A i \in 1 .. Len(inCh') :
               \/ i \in 1 .. Len(inCh) /\ inCh'[i] = inCh[i]
               \/ i - Len(inCh) \in 1 .. Len(client.frame) /\ inCh'[i] = client.frame[i - Len(inCh)]
        BY <2>2, <3>2
      <4> QED
        BY <1>0, <4>1 DEF AnswersWritten
    <3> QED
      BY <2>1, <3>1, <3>2
  <2>4. Noted'
    BY <1>n, <1>7 DEF SessionPushes, db, history
  <2> QED
    BY <1>0, <2>1, <2>3, <2>4 DEF AnswerInv, AnswersWritten, RejectionsKnown
<1>8. ASSUME Receive PROVE AnswerInv'
  <2> DEFINE f == Head(inCh)
  <2>1. /\ inCh # <<>> /\ inCh' = Tail(inCh) /\ inflight' = inflight \ {f.id}
        /\ byLoop' = byLoop \ {f.id}
        /\ dropped' = IF f.kind = "rejected" /\ f.id \notin inflight
                      THEN dropped \cup (byLoop \cap {f.id}) ELSE dropped
        /\ queue' = queue /\ nextId' = nextId /\ task' = task /\ client' = client
        /\ wire' = wire /\ written' = written
    BY <1>8 DEF Receive, db
  <2>2. inCh \in Seq(Frame) /\ Len(inCh) \in Nat \ {0} /\ f = inCh[1]
    BY <1>0, <2>1, EmptySeq DEF ChannelTypes
  <2>3. f.id \in written \cup {0}
    BY <1>0, <2>2 DEF AnswersWritten
  <2>4. RejectionsKnown'
    BY <1>0, <2>1 DEF RejectionsKnown, Noted
  <2>5. task[Loop].at = "send" => task[Loop].id # f.id
    <3>1. task[Loop].at = "send" => task[Loop].id \in Held(Loop) /\ task[Loop].id \in Ids
      BY <1>0, <1>l DEF Held, Working
    <3>2. Held(Loop) \cap written = {}
      BY <1>0, <1>l DEF OneCopy
    <3> QED
      BY <2>3, <3>1, <3>2 DEF Ids
  <2>6. Noted'
    <3>1. \A y \in Tasks : Held(y)' = Held(y)
      BY <2>1 DEF Held
    <3> QED
      BY <1>0, <2>1, <2>5, <3>1 DEF Noted
  <2>7. \A i \in 1 .. Len(inCh') : i + 1 \in 1 .. Len(inCh) /\ inCh'[i] = inCh[i + 1]
    BY <2>1, <2>2, HeadTailProperties
  <2>8. AnswersWritten'
    BY <1>0, <2>1, <2>7 DEF AnswersWritten
  <2> QED
    BY <2>4, <2>6, <2>8 DEF AnswerInv
<1>9. ASSUME Fresh PROVE AnswerInv'
  <2>1. /\ wire' = {} /\ inCh' = <<>> /\ client'.frame = <<>> /\ byLoop' = {} /\ inflight' = {}
        /\ task'[Loop].at = "idle" /\ dropped' = dropped
    BY <1>l, <1>9 DEF Fresh, Offline, IdleTask
  <2> QED
    BY <1>0, <2>1 DEF AnswerInv, AnswersWritten, Noted, RejectionsKnown
<1> QED
  BY <1>1, <1>2, <1>3, <1>4, <1>5, <1>6, <1>7, <1>8, <1>9 DEF Exit, Crash

\* A rejection of a frame that the flush loop sent is always known to the inbound
\* loop, so the local agent gets a receipt for it.  The argument needs that the
\* frame is noted before it is sent, and that no frame is sent twice.
THEOREM RejectionsReported == Spec => []RejectionsKnown
<1>1. Init => Inv /\ AnswerInv
  <2> SUFFICES ASSUME Init PROVE Inv /\ AnswerInv
    OBVIOUS
  <2>1. Inv
    BY InitInv
  <2>2. AnswerInv
    BY DEF Init, AnswerInv, AnswersWritten, Noted, RejectionsKnown, Held, IdleTask, Offline, Tasks
  <2> QED
    BY <2>1, <2>2
<1>2. ASSUME Inv, AnswerInv, [Next]_vars PROVE Inv' /\ AnswerInv'
  <2>1. Inv'
    BY <1>2, InvNext
  <2>2. CASE UNCHANGED vars
    BY <1>2, <2>1, <2>2
    DEF AnswerInv, AnswersWritten, Noted, RejectionsKnown, Held, vars, db, history
  <2>3. CASE Next
    BY <1>2, <2>1, <2>3, RequestAnswers, FlushAnswers, SessionAnswers DEF Next
  <2> QED
    BY <1>2, <2>2, <2>3
<1>3. AnswerInv => RejectionsKnown
  BY DEF AnswerInv
<1> QED
  BY <1>1, <1>2, <1>3, PTL DEF Spec

-----------------------------------------------------------------------------
(* What the connector does with inbound messages. *)

InboundState ==
    [pc : {"idle", "receipt", "take", "forward"}]
        \cup [pc : {"post"}, m : Messages]
        \cup [pc : {"persist", "ack"}, m : Messages, ok : BOOLEAN, kept : BOOLEAN]

RetryState ==
    [pc : {"idle", "flush", "list", "item", "receipt", "take", "forward"},
     todo : SUBSET (Messages \X Nat)]
        \cup [pc : {"delivered", "failed"}, todo : SUBSET (Messages \X Nat), m : Messages, n : Nat]

WorkerState == [pc : {"idle", "load", "post"}, todo : SUBSET Receipts, kept : SUBSET Receipts]

Commands == [by : Loops, new : SUBSET Receipts]

RowTypes ==
    /\ pending \in [Messages -> Nat] /\ deadLetters \in [Messages -> Nat]
    /\ due \subseteq {m \in Messages : pending[m] > 0}
    /\ seen \subseteq Messages /\ acked \subseteq Messages
    /\ wasDead \subseteq Messages /\ purged \subseteq Messages

LoopTypes == inbound \in InboundState /\ retry \in RetryState

WorkerTypes ==
    /\ outbox \in [Receipts -> {"absent", "due", "later"}]
    /\ commands \in Seq(Commands)
    /\ worker \in WorkerState
    /\ queued \subseteq Receipts /\ receipted \subseteq Receipts

NoteTypes ==
    /\ tries \in [Notes -> 0 .. MaxForwards]
    /\ noteQueue \subseteq Notes /\ ready \subseteq Notes /\ old \subseteq Notes
    /\ arrived \subseteq Notes /\ forwarded \subseteq Notes
    /\ held \in [Loops -> [todo : SUBSET Notes, kept : SUBSET Notes]]

\* Once it is kept a message stays kept, once listed it stays or is resolved.
Kept(m) == pending[m] > 0 \/ deadLetters[m] > 0 \/ m \in seen \cup purged
Resolved(m) == pending[m] > 0 \/ m \in seen \cup wasDead

\* What the loops know of the message they handle.
LoopsKnow ==
    /\ inbound.pc = "persist" => ~inbound.kept
    /\ inbound.pc \in {"persist", "ack"} => (inbound.ok => inbound.m \in seen)
    /\ inbound.pc = "ack" => (inbound.kept => Kept(inbound.m))
    /\ retry.pc = "delivered" => retry.m \in seen
    /\ retry.pc = "failed" => Resolved(retry.m)
    /\ \A item \in retry.todo : Resolved(item[1])

\* A loop waits for its one command; the first command is the worker's.
CommandsAwaited ==
    /\ \A i \in 1 .. Len(commands) :
          \/ commands[i].by = "inbound" /\ inbound.pc = "receipt"
          \/ commands[i].by = "retry" /\ retry.pc \in {"flush", "receipt"}
    /\ \A i, j \in 1 .. Len(commands) : commands[i].by = commands[j].by => i = j
    /\ worker.pc # "idle" => commands # <<>>

Truthful(r) == r[1] \in seen \/ (r[2] = "dead_lettered" /\ r[1] \in wasDead)

CommandsTrue == \A i \in 1 .. Len(commands) : \A r \in commands[i].new : Truthful(r)

\* What the worker read covers the file: nothing is written behind its back.
FlushCovers ==
    worker.pc = "post" =>
        \A r \in Receipts : outbox[r] # "absent" => r \in worker.todo \cup worker.kept \cup receipted

Has(l) == held[l].todo \cup held[l].kept

NotesInv ==
    /\ IsFiniteSet(noteQueue) /\ Cardinality(noteQueue) <= MaxNotes
    /\ \A l \in Loops : IsFiniteSet(Has(l)) /\ held[l].todo \cap held[l].kept = {}
    /\ \A l \in Loops : Has(l) \subseteq arrived \ (noteQueue \cup forwarded)
    /\ noteQueue \subseteq arrived \ forwarded
    /\ forwarded \subseteq arrived
    /\ Has("inbound") \cap Has("retry") = {}

DeliveryInv ==
    /\ RowTypes /\ LoopTypes /\ WorkerTypes /\ NoteTypes
    /\ LoopsKnow /\ AckedKept
    /\ CommandsAwaited /\ CommandsTrue /\ FlushCovers /\ ReceiptsKept /\ ReceiptsTrue
    /\ NotesInv

LEMMA DeliverySteps ==
    ASSUME DeliveryNext
    PROVE  \/ PostWebhook \/ Persist \/ SendDeliverAck
           \/ Tick \/ ListDue \/ RetryPost \/ ItemsEnd
           \/ RecordSuccess \/ ScheduleRetry \/ DeadLetterPending
           \/ \E l \in Loops : TakeDue(l) \/ Forward(l) \/ Requeue(l)
           \/ EnqueueReceipt \/ FlushLoad \/ PostReceipt \/ FlushSave
           \/ \E m \in Messages : ReceiveDeliver(m) \/ ReplayDeadLetter(m) \/ PurgeDeadLetter(m) \/ RowDue(m)
           \/ \E r \in Receipts : ReceiptDue(r)
           \/ \E n \in Notes : Notify(n) \/ NoteDue(n) \/ NoteAges(n)
           \/ ProcessCrash
<1>1. "inbound" \in Loops /\ "retry" \in Loops
  BY DEF Loops
<1> QED
  BY <1>1, Zenon DEF DeliveryNext, InboundStep, InboundRuns, RetryStep, WorkerStep, Arrives, Requested

\* The fields that the loops' records have at their control points.
LEMMA LoopFields ==
    ASSUME LoopTypes
    PROVE  /\ inbound.pc \in {"post", "persist", "ack"} => inbound.m \in Messages
           /\ inbound.pc \in {"persist", "ack"} =>
                 /\ inbound.ok \in BOOLEAN /\ inbound.kept \in BOOLEAN
                 /\ inbound = [pc |-> inbound.pc, m |-> inbound.m, ok |-> inbound.ok,
                               kept |-> inbound.kept]
           /\ retry.todo \in SUBSET (Messages \X Nat)
           /\ retry.pc \in {"delivered", "failed"} => retry.m \in Messages /\ retry.n \in Nat
           /\ retry.pc \notin {"delivered", "failed"} => retry = [pc |-> retry.pc, todo |-> retry.todo]
  BY DEF LoopTypes, InboundState, RetryState

-----------------------------------------------------------------------------
(* The two tables *)

LEMMA RowSet ==
    ASSUME RowTypes, NEW m \in Messages, NEW n \in Nat, SetPending(m, n)
    PROVE  /\ pending' \in [Messages -> Nat]
           /\ due' \subseteq {x \in Messages : pending'[x] > 0}
           /\ pending'[m] = n
           /\ \A x \in Messages \ {m} : pending'[x] = pending[x]
  BY DEF RowTypes, SetPending

\* Nobody but these actions writes the tables, the webhook's and the relay's view.
LEMMA RowFrame ==
    ASSUME DeliveryNext
    PROVE  \/ UNCHANGED <<rows, messageHistory>>
           \/ PostWebhook \/ Persist \/ SendDeliverAck \/ RetryPost
           \/ RecordSuccess \/ ScheduleRetry \/ DeadLetterPending
           \/ \E m \in Messages : ReplayDeadLetter(m) \/ PurgeDeadLetter(m) \/ RowDue(m)
<1>1. ASSUME Tick \/ ListDue \/ ItemsEnd
      PROVE  UNCHANGED <<rows, messageHistory>>
  BY <1>1 DEF Tick, ListDue, ItemsEnd
<1>2. ASSUME NEW l, TakeDue(l) \/ Forward(l) \/ Requeue(l)
      PROVE  UNCHANGED <<rows, messageHistory>>
  BY <1>2 DEF TakeDue, Forward, Requeue
<1>3. ASSUME EnqueueReceipt \/ FlushLoad \/ PostReceipt \/ FlushSave \/ ProcessCrash
      PROVE  UNCHANGED <<rows, messageHistory>>
  BY <1>3 DEF EnqueueReceipt, FlushLoad, PostReceipt, FlushSave, ProcessCrash
<1>4. ASSUME NEW x, ReceiveDeliver(x) \/ ReceiptDue(x) \/ Notify(x) \/ NoteDue(x) \/ NoteAges(x)
      PROVE  UNCHANGED <<rows, messageHistory>>
  BY <1>4 DEF ReceiveDeliver, ReceiptDue, Notify, NoteDue, NoteAges
<1> QED
  BY <1>1, <1>2, <1>3, <1>4, DeliverySteps, Zenon

\* What every step promises of the rows, but for the acknowledgements.
RowsMove ==
    /\ pending' \in [Messages -> Nat] /\ deadLetters' \in [Messages -> Nat]
    /\ due' \subseteq {m \in Messages : pending'[m] > 0}
    /\ seen \subseteq seen' /\ wasDead \subseteq wasDead'
    /\ seen' \subseteq Messages /\ wasDead' \subseteq Messages /\ purged' \subseteq Messages
    /\ \A m \in Messages : Kept(m) => Kept(m)'
    /\ \A m \in Messages : Resolved(m) => Resolved(m)'

LEMMA PersistRows ==
    ASSUME RowTypes, LoopTypes, LoopsKnow, Persist
    PROVE  RowsMove
<1>1. inbound.pc = "persist" /\ inbound.m \in Messages
  BY LoopFields DEF Persist
<1>2. UNCHANGED <<deadLetters, seen, acked, wasDead, purged>>
  BY DEF Persist, messageHistory
<1>3. CASE UNCHANGED <<pending, due>>
  BY <1>2, <1>3 DEF RowTypes, RowsMove, Kept, Resolved
<1>4. CASE inbound.ok /\ SetPending(inbound.m, 0)
  <2>1. inbound.m \in seen
    BY <1>1, <1>4 DEF LoopsKnow
  <2> QED
    BY <1>1, <1>2, <1>4, <2>1, RowSet DEF RowTypes, RowsMove, Kept, Resolved
<1>5. CASE SetPending(inbound.m, 1)
  BY <1>1, <1>2, <1>5, RowSet DEF RowTypes, RowsMove, Kept, Resolved
<1> QED
  BY <1>3, <1>4, <1>5 DEF Persist, DeletePending, UpsertPending

LEMMA RetryRows ==
    ASSUME RowTypes, LoopTypes, LoopsKnow, RecordSuccess \/ ScheduleRetry
    PROVE  RowsMove
<1>1. retry.pc \in {"delivered", "failed"} /\ retry.m \in Messages
  BY LoopFields DEF RecordSuccess, ScheduleRetry
<1>2. UNCHANGED <<deadLetters, seen, acked, wasDead, purged>>
  BY DEF RecordSuccess, ScheduleRetry, messageHistory
<1>3. CASE UNCHANGED <<pending, due>>
  BY <1>2, <1>3 DEF RowTypes, RowsMove, Kept, Resolved
<1>4. CASE retry.pc = "delivered" /\ SetPending(retry.m, 0)
  <2>1. retry.m \in seen
    BY <1>4 DEF LoopsKnow
  <2> QED
    BY <1>1, <1>2, <1>4, <2>1, RowSet DEF RowTypes, RowsMove, Kept, Resolved
<1>5. CASE SetPending(retry.m, pending[retry.m] + 1)
  <2>1. pending[retry.m] + 1 \in Nat
    BY <1>1 DEF RowTypes
  <2> QED
    BY <1>1, <1>2, <1>5, <2>1, RowSet DEF RowTypes, RowsMove, Kept, Resolved
<1> QED
  BY <1>3, <1>4, <1>5 DEF RecordSuccess, ScheduleRetry, DeletePending, MarkPendingAttempt

LEMMA DeadLetterRows ==
    ASSUME RowTypes, LoopTypes, DeadLetterPending
    PROVE  RowsMove
<1> DEFINE m == retry.m
           Moved == deadLetters' = [deadLetters EXCEPT ![m] = pending[m]] /\ wasDead' = wasDead \cup {m}
<1>1. m \in Messages
  BY LoopFields DEF DeadLetterPending
<1>2. UNCHANGED <<seen, acked, purged>>
  BY DEF DeadLetterPending
<1>3. \/ UNCHANGED <<rows, wasDead>>
      \/ pending[m] > 0 /\ Moved /\ (SetPending(m, 0) \/ UNCHANGED <<pending, due>>)
  BY DEF DeadLetterPending, MovePending, DeletePending
<1> HIDE DEF m
<1>4. CASE UNCHANGED <<rows, wasDead>>
  BY <1>2, <1>4 DEF RowTypes, RowsMove, Kept, Resolved, rows
<1>5. CASE pending[m] > 0 /\ Moved /\ UNCHANGED <<pending, due>>
  BY <1>1, <1>2, <1>5 DEF RowTypes, RowsMove, Kept, Resolved
<1>6. CASE pending[m] > 0 /\ Moved /\ SetPending(m, 0)
  <2>1. deadLetters' \in [Messages -> Nat] /\ deadLetters'[m] > 0 /\ m \in wasDead'
        /\ \A x \in Messages \ {m} : deadLetters'[x] = deadLetters[x]
    BY <1>1, <1>6 DEF RowTypes
  <2>2. wasDead \subseteq wasDead' /\ wasDead' \subseteq Messages
    BY <1>1, <1>6 DEF RowTypes
  <2> QED
    BY <1>1, <1>2, <1>6, <2>1, <2>2, RowSet DEF RowTypes, RowsMove, Kept, Resolved
<1> QED
  BY <1>3, <1>4, <1>5, <1>6

LEMMA RequestRows ==
    ASSUME RowTypes, NEW m \in Messages, ReplayDeadLetter(m) \/ PurgeDeadLetter(m) \/ RowDue(m)
    PROVE  RowsMove
<1>1. CASE ReplayDeadLetter(m)
  <2>1. /\ deadLetters[m] > 0
        /\ pending' = [pending EXCEPT ![m] = deadLetters[m]] /\ due' = due \cup {m}
        /\ deadLetters' = [deadLetters EXCEPT ![m] = 0] \/ deadLetters' = deadLetters
        /\ UNCHANGED <<seen, acked, wasDead, purged>>
    BY <1>1 DEF ReplayDeadLetter, messageHistory
  <2>2. deadLetters' \in [Messages -> Nat]
        /\ \A x \in Messages \ {m} : deadLetters'[x] = deadLetters[x]
    BY <2>1 DEF RowTypes
  <2>3. pending' \in [Messages -> Nat] /\ pending'[m] > 0
        /\ \A x \in Messages \ {m} : pending'[x] = pending[x]
    BY <2>1 DEF RowTypes
  <2>4. due' \subseteq {x \in Messages : pending'[x] > 0}
    BY <2>1, <2>3 DEF RowTypes
  <2> QED
    BY <2>1, <2>2, <2>3, <2>4 DEF RowTypes, RowsMove, Kept, Resolved
<1>2. CASE PurgeDeadLetter(m)
  BY <1>2 DEF PurgeDeadLetter, RowTypes, RowsMove, Kept, Resolved
<1>3. CASE RowDue(m)
  BY <1>3 DEF RowDue, RowTypes, RowsMove, Kept, Resolved, messageHistory
<1> QED
  BY <1>1, <1>2, <1>3

LEMMA RowsStep ==
    ASSUME RowTypes, LoopTypes, LoopsKnow, DeliveryNext
    PROVE  RowsMove
<1>1. CASE UNCHANGED <<rows, messageHistory>>
  BY <1>1 DEF rows, messageHistory, RowTypes, RowsMove, Kept, Resolved
<1>2. CASE PostWebhook
  <2>1. inbound.m \in Messages
    BY <1>2, LoopFields DEF PostWebhook
  <2>2. seen' \in {seen, seen \cup {inbound.m}} /\ UNCHANGED <<rows, wasDead, purged>>
    BY <1>2 DEF PostWebhook
  <2> QED
    BY <2>1, <2>2 DEF rows, RowTypes, RowsMove, Kept, Resolved
<1>3. CASE SendDeliverAck
  BY <1>3 DEF SendDeliverAck, rows, RowTypes, RowsMove, Kept, Resolved
<1>4. CASE RetryPost
  <2>1. PICK item \in retry.todo : seen' \in {seen, seen \cup {item[1]}}
    BY <1>4 DEF RetryPost
  <2>2. UNCHANGED <<rows, wasDead, purged>>
    BY <1>4 DEF RetryPost
  <2>3. item[1] \in Messages
    BY LoopFields
  <2> QED
    BY <2>1, <2>2, <2>3 DEF rows, RowTypes, RowsMove, Kept, Resolved
<1> QED
  BY <1>1, <1>2, <1>3, <1>4, RowFrame, PersistRows, RetryRows, DeadLetterRows, RequestRows

-----------------------------------------------------------------------------
(* The two loops *)

\* The answer of the worker lets the loop go on that sent the first command.
LEMMA AnsweredMoves ==
    ASSUME LoopTypes, WorkerTypes, CommandsAwaited, commands # <<>>, Answered
    PROVE  /\ commands' = Tail(commands) /\ worker' = Waiting
           /\ \/ /\ Head(commands).by = "inbound" /\ inbound.pc = "receipt"
                 /\ inbound' = [pc |-> "idle"] /\ retry' = retry
              \/ /\ Head(commands).by = "retry" /\ retry.pc \in {"flush", "receipt"}
                 /\ inbound' = inbound
                 /\ retry' \in {[pc |-> "list", todo |-> retry.todo], [pc |-> "item", todo |-> retry.todo]}
<1>1. Len(commands) \in Nat /\ 1 \in 1 .. Len(commands) /\ Head(commands) = commands[1]
  BY DEF WorkerTypes
<1>2. Head(commands).by = "inbound" => inbound.pc = "receipt"
  BY <1>1 DEF CommandsAwaited
<1>3. Head(commands).by = "retry" => retry.pc \in {"flush", "receipt"}
  BY <1>1 DEF CommandsAwaited
<1>4. retry.pc \in {"flush", "receipt"} => retry = [pc |-> retry.pc, todo |-> retry.todo]
  BY LoopFields
<1>5. CASE Head(commands).by = "inbound"
  BY <1>2, <1>5 DEF Answered
<1>6. CASE Head(commands).by = "retry"
  <2>1. \E pc \in {"list", "item"} : retry' = [retry EXCEPT !.pc = pc]
    BY <1>6 DEF Answered
  <2>2. retry' \in {[pc |-> "list", todo |-> retry.todo], [pc |-> "item", todo |-> retry.todo]}
    BY <1>3, <1>4, <1>6, <2>1
  <2> QED
    BY <1>3, <1>6, <2>2 DEF Answered
<1> QED
  BY <1>5, <1>6 DEF Answered

QuietInbound == [pc : {"idle", "receipt", "take", "forward"}] \cup [pc : {"post"}, m : Messages]

QuietRetry ==
    [pc : {"idle", "flush", "list", "item", "receipt", "take", "forward"}, todo : SUBSET retry.todo]

LEMMA WorkerMoves ==
    ASSUME WorkerTypes, CommandsAwaited, EnqueueReceipt \/ FlushLoad \/ FlushSave
    PROVE  UNCHANGED loops \/ (Answered /\ commands # <<>>)
  BY DEF EnqueueReceipt, FlushLoad, FlushSave, CommandsAwaited

LEMMA InboundMoves ==
    ASSUME LoopTypes, WorkerTypes, CommandsAwaited, DeliveryNext
    PROVE  inbound' = inbound \/ inbound' \in QuietInbound \/ PostWebhook \/ Persist
<1>1. ASSUME Tick \/ ListDue \/ RetryPost \/ ItemsEnd \/ RecordSuccess \/ ScheduleRetry \/ DeadLetterPending
      PROVE  inbound' = inbound
  BY <1>1 DEF Tick, ListDue, RetryPost, ItemsEnd, RecordSuccess, ScheduleRetry, DeadLetterPending
<1>2. ASSUME NEW l, TakeDue(l) \/ Requeue(l)
      PROVE  inbound' = inbound \/ inbound' \in QuietInbound
  BY <1>2 DEF TakeDue, Requeue, GoOn, QuietInbound
<1>3. ASSUME NEW l, Forward(l)
      PROVE  inbound' = inbound
  BY <1>3 DEF Forward, loops
<1>4. ASSUME EnqueueReceipt \/ FlushLoad \/ FlushSave
      PROVE  inbound' = inbound \/ inbound' \in QuietInbound
  BY <1>4, WorkerMoves, AnsweredMoves DEF loops, QuietInbound
<1>5. ASSUME NEW m \in Messages, ReceiveDeliver(m)
      PROVE  inbound' \in QuietInbound
  BY <1>5 DEF ReceiveDeliver, QuietInbound
<1>6. ASSUME NEW n, Notify(n) \/ SendDeliverAck \/ ProcessCrash
      PROVE  inbound' \in QuietInbound
  BY <1>6 DEF Notify, SendDeliverAck, ProcessCrash, QuietInbound
<1>7. ASSUME NEW x, ReplayDeadLetter(x) \/ PurgeDeadLetter(x) \/ RowDue(x) \/ ReceiptDue(x) \/ NoteDue(x)
                    \/ NoteAges(x) \/ PostReceipt
      PROVE  inbound' = inbound
  BY <1>7 DEF ReplayDeadLetter, PurgeDeadLetter, RowDue, ReceiptDue, NoteDue, NoteAges, PostReceipt, loops
<1> QED
  BY <1>1, <1>2, <1>3, <1>4, <1>5, <1>6, <1>7, DeliverySteps, Zenon

LEMMA RetryMoves ==
    ASSUME LoopTypes, WorkerTypes, CommandsAwaited, DeliveryNext
    PROVE  retry' = retry \/ retry' \in QuietRetry \/ RetryPost \/ (ListDue /\ retry'.pc = "item")
<1> DEFINE Quiet == retry' = retry \/ retry' \in QuietRetry
<1>1. ASSUME Tick \/ ItemsEnd \/ (ListDue /\ retry'.pc # "item")
      PROVE  Quiet
  <2>1. \E pc \in {"flush", "take"} : retry' = [retry EXCEPT !.pc = pc]
    BY <1>1 DEF Tick, ListDue, ItemsEnd
  <2>2. retry.pc \in {"idle", "list", "item"}
    BY <1>1 DEF Tick, ListDue, ItemsEnd
  <2>3. retry = [pc |-> retry.pc, todo |-> retry.todo]
    BY <2>2, LoopFields
  <2> QED
    BY <2>1, <2>3 DEF QuietRetry
<1>2. ASSUME RecordSuccess \/ ScheduleRetry \/ DeadLetterPending
      PROVE  Quiet
  <2>1. \E pc \in {"item", "receipt"} : retry' = [pc |-> pc, todo |-> retry.todo]
    BY <1>2 DEF RecordSuccess, ScheduleRetry, DeadLetterPending, RetryReceipt, NextItem
  <2> QED
    BY <2>1 DEF QuietRetry
<1>3. ASSUME NEW l, TakeDue(l) \/ Requeue(l)
      PROVE  Quiet
  BY <1>3 DEF TakeDue, Requeue, GoOn, QuietRetry
<1>4. ASSUME NEW l, Forward(l)
      PROVE  Quiet
  BY <1>4 DEF Forward, loops
<1>5. ASSUME EnqueueReceipt \/ FlushLoad \/ FlushSave
      PROVE  Quiet
  BY <1>5, WorkerMoves, AnsweredMoves DEF loops, QuietRetry
<1>6. ASSUME NEW x, ReceiveDeliver(x) \/ Notify(x) \/ SendDeliverAck \/ PostWebhook \/ Persist
      PROVE  Quiet
  BY <1>6 DEF ReceiveDeliver, Notify, SendDeliverAck, PostWebhook, Persist
<1>7. ASSUME ProcessCrash
      PROVE  Quiet
  BY <1>7 DEF ProcessCrash, QuietRetry
<1>8. ASSUME NEW x, ReplayDeadLetter(x) \/ PurgeDeadLetter(x) \/ RowDue(x) \/ ReceiptDue(x) \/ NoteDue(x)
                    \/ NoteAges(x) \/ PostReceipt
      PROVE  Quiet
  BY <1>8 DEF ReplayDeadLetter, PurgeDeadLetter, RowDue, ReceiptDue, NoteDue, NoteAges, PostReceipt, loops
<1> HIDE DEF Quiet
<1>9. Quiet \/ RetryPost \/ (ListDue /\ retry'.pc = "item")
  BY <1>1, <1>2, <1>3, <1>4, <1>5, <1>6, <1>7, <1>8, DeliverySteps, Zenon
<1> QED
  BY <1>9 DEF Quiet

LEMMA InboundKnows ==
    ASSUME RowTypes, LoopTypes, LoopsKnow, WorkerTypes, CommandsAwaited, RowsMove, DeliveryNext
    PROVE  /\ inbound' \in InboundState
           /\ inbound'.pc = "persist" => ~inbound'.kept
           /\ inbound'.pc \in {"persist", "ack"} => (inbound'.ok => inbound'.m \in seen')
           /\ inbound'.pc = "ack" => (inbound'.kept => Kept(inbound.m)')
<1> DEFINE Goal == /\ inbound' \in InboundState
                   /\ inbound'.pc = "persist" => ~inbound'.kept
                   /\ inbound'.pc \in {"persist", "ack"} => (inbound'.ok => inbound'.m \in seen')
                   /\ inbound'.pc = "ack" => (inbound'.kept => Kept(inbound.m)')
<1>1. ASSUME inbound' = inbound
      PROVE  Goal
  <2>1. inbound \in InboundState /\ seen \subseteq seen'
    BY DEF LoopTypes, RowsMove
  <2>2. inbound.pc = "ack" /\ inbound.kept => Kept(inbound.m)'
    BY <1>1, LoopFields DEF LoopsKnow, RowsMove
  <2> QED
    BY <1>1, <2>1, <2>2 DEF LoopsKnow
<1>2. ASSUME inbound' \in QuietInbound
      PROVE  Goal
  BY <1>2 DEF QuietInbound, InboundState
<1>3. ASSUME PostWebhook
      PROVE  Goal
  <2>1. PICK ok \in BOOLEAN :
           /\ inbound' = [pc |-> "persist", m |-> inbound.m, ok |-> ok, kept |-> FALSE]
           /\ seen' = IF ok THEN seen \cup {inbound.m} ELSE seen
    BY <1>3 DEF PostWebhook
  <2>2. inbound.m \in Messages
    BY <1>3, LoopFields DEF PostWebhook
  <2>3. inbound' \in InboundState
    BY <2>1, <2>2 DEF InboundState
  <2>4. inbound'.pc = "persist" /\ inbound'.ok = ok /\ inbound'.m = inbound.m /\ inbound'.kept = FALSE
    BY <2>1
  <2> QED
    BY <2>1, <2>3, <2>4
<1>4. ASSUME Persist
      PROVE  Goal
  <2>1. inbound.pc = "persist" /\ inbound.m \in Messages /\ inbound.ok \in BOOLEAN /\ inbound.kept \in BOOLEAN
    BY <1>4, LoopFields DEF Persist
  <2>2. inbound = [pc |-> inbound.pc, m |-> inbound.m, ok |-> inbound.ok, kept |-> inbound.kept]
    BY <2>1, LoopFields
  <2>3. \/ inbound' = [inbound EXCEPT !.pc = "ack"]
        \/ inbound' = [inbound EXCEPT !.pc = "ack", !.kept = TRUE] /\ SetPending(inbound.m, 1)
    BY <1>4 DEF Persist, UpsertPending
  <2>4. seen' = seen
    BY <1>4 DEF Persist, messageHistory
  <2>5. CASE inbound' = [inbound EXCEPT !.pc = "ack"]
    BY <2>1, <2>2, <2>4, <2>5 DEF InboundState, LoopsKnow
  <2>6. CASE inbound' = [inbound EXCEPT !.pc = "ack", !.kept = TRUE] /\ SetPending(inbound.m, 1)
    <3>1. Kept(inbound.m)'
      BY <2>1, <2>6, RowSet DEF Kept
    <3> QED
      BY <2>1, <2>2, <2>4, <2>6, <3>1 DEF InboundState, LoopsKnow
  <2> QED
    BY <2>3, <2>5, <2>6
<1> HIDE DEF Goal
<1>5. Goal
  BY <1>1, <1>2, <1>3, <1>4, InboundMoves, Zenon
<1> QED
  BY <1>5 DEF Goal

LEMMA RetryKnows ==
    ASSUME RowTypes, LoopTypes, LoopsKnow, WorkerTypes, CommandsAwaited, RowsMove, DeliveryNext
    PROVE  /\ retry' \in RetryState
           /\ retry'.pc = "delivered" => retry'.m \in seen'
           /\ retry'.pc = "failed" => Resolved(retry.m)'
           /\ \A item \in retry'.todo : Resolved(item[1])'
<1> DEFINE Goal == /\ retry' \in RetryState
                   /\ retry'.pc = "delivered" => retry'.m \in seen'
                   /\ retry'.pc = "failed" => Resolved(retry.m)'
                   /\ \A item \in retry'.todo : Resolved(item[1])'
<1>0. retry.todo \in SUBSET (Messages \X Nat) /\ \A item \in retry.todo : item[1] \in Messages
  BY LoopFields
<1>1. ASSUME NEW x \in Messages, Resolved(x)
      PROVE  Resolved(x)'
  BY <1>1 DEF RowsMove
<1>2. \A item \in retry.todo : Resolved(item[1])'
  <2> SUFFICES ASSUME NEW item \in retry.todo PROVE Resolved(item[1])'
    OBVIOUS
  <2>1. PICK x \in Messages : x = item[1]
    BY <1>0
  <2>2. Resolved(x)
    BY <2>1 DEF LoopsKnow
  <2> QED
    BY <2>1, <2>2, <1>1
<1>3. ASSUME retry' = retry
      PROVE  Goal
  <2>1. retry.pc = "failed" => Resolved(retry.m)'
    <3> HAVE retry.pc = "failed"
    <3>1. PICK x \in Messages : x = retry.m
      BY LoopFields
    <3>2. Resolved(x)
      BY <3>1 DEF LoopsKnow
    <3>3. x = retry'.m
      BY <1>3, <3>1
    <3> QED
      BY <3>2, <3>3, <1>1
  <2> QED
    BY <1>2, <1>3, <2>1 DEF LoopTypes, LoopsKnow, RowsMove
<1>4. ASSUME retry' \in QuietRetry
      PROVE  Goal
  <2>1. retry'.todo \subseteq retry.todo /\ retry'.pc \notin {"delivered", "failed"}
    BY <1>4 DEF QuietRetry
  <2>2. retry' \in RetryState
    BY <1>0, <1>4 DEF QuietRetry, RetryState
  <2> QED
    BY <1>2, <2>1, <2>2
<1>5. ASSUME RetryPost
      PROVE  Goal
  <2>1. PICK item \in retry.todo, ok \in BOOLEAN :
           /\ retry' = [pc |-> IF ok THEN "delivered" ELSE "failed",
                        todo |-> retry.todo \ {item}, m |-> item[1], n |-> item[2]]
           /\ seen' = IF ok THEN seen \cup {item[1]} ELSE seen
    BY <1>5 DEF RetryPost
  <2>2. item[1] \in Messages /\ item[2] \in Nat
    BY <1>0
  <2>3. retry' \in RetryState
    BY <1>0, <2>1, <2>2 DEF RetryState
  <2>4. retry'.todo \subseteq retry.todo /\ retry'.m = item[1]
    BY <2>1
  <2>5. retry'.pc = "delivered" => retry'.m \in seen'
    BY <2>1
  <2>6. Resolved(retry.m)'
    BY <1>2, <2>4
  <2> QED
    BY <1>2, <2>3, <2>4, <2>5, <2>6
<1>6. ASSUME ListDue, retry'.pc = "item"
      PROVE  Goal
  <2>1. PICK batch \in SUBSET due : retry' = [pc |-> "item", todo |-> {<<m, pending[m]>> : m \in batch}]
    <3>1. retry.pc = "list" /\ ~ (retry' = [retry EXCEPT !.pc = "take"])
      BY <1>6, LoopFields DEF ListDue
    <3> QED
      BY <1>6, <3>1 DEF ListDue, kSubset
  <2>2. \A m \in batch : m \in Messages /\ pending[m] \in Nat /\ pending[m] > 0
    BY DEF RowTypes
  <2>3. retry' \in RetryState
    <3>1. {<<m, pending[m]>> : m \in batch} \in SUBSET (Messages \X Nat)
      BY <2>2
    <3> QED
      BY <2>1, <3>1 DEF RetryState
  <2>4. \A item \in retry'.todo : Resolved(item[1])'
    <3> SUFFICES ASSUME NEW item \in retry'.todo PROVE Resolved(item[1])'
      OBVIOUS
    <3>1. PICK x \in batch : item = <<x, pending[x]>>
      BY <2>1
    <3>2. x \in Messages /\ Resolved(x) /\ item[1] = x
      BY <2>2, <3>1 DEF Resolved
    <3> QED
      BY <1>1, <3>2
  <2> QED
    BY <1>6, <2>3, <2>4
<1> HIDE DEF Goal
<1>7. Goal
  BY <1>3, <1>4, <1>5, <1>6, RetryMoves, Zenon
<1> QED
  BY <1>7 DEF Goal

LEMMA LoopsStep ==
    ASSUME RowTypes, LoopTypes, LoopsKnow, WorkerTypes, CommandsAwaited, DeliveryNext
    PROVE  LoopTypes' /\ LoopsKnow'
  BY RowsStep, InboundKnows, RetryKnows DEF LoopTypes, LoopsKnow, InboundState, RetryState

LEMMA AckedStep ==
    ASSUME RowTypes, LoopTypes, LoopsKnow, AckedKept, DeliveryNext
    PROVE  RowTypes' /\ AckedKept'
<1>1. RowsMove
  BY RowsStep
<1>2. acked' = acked \/ SendDeliverAck
  BY RowFrame DEF PostWebhook, Persist, RetryPost, RecordSuccess, ScheduleRetry, DeadLetterPending,
     ReplayDeadLetter, PurgeDeadLetter, RowDue, messageHistory
<1>3. acked' \subseteq Messages /\ \A m \in acked' : m \in acked \/ Kept(m)
  <2>1. CASE acked' = acked
    BY <2>1 DEF RowTypes
  <2>2. CASE SendDeliverAck
    <3>1. inbound.pc = "ack" /\ inbound.m \in Messages
      BY <2>2, LoopFields DEF SendDeliverAck
    <3>2. inbound.ok \/ inbound.kept => Kept(inbound.m)
      BY <3>1 DEF LoopsKnow, Kept
    <3>3. acked' = acked \/ (acked' = acked \cup {inbound.m} /\ (inbound.ok \/ inbound.kept))
      BY <2>2 DEF SendDeliverAck, Accepted
    <3> QED
      BY <3>1, <3>2, <3>3 DEF RowTypes
  <2> QED
    BY <1>2, <2>1, <2>2
<1>4. \A m \in acked' : m \in Messages /\ Kept(m)
  BY <1>3 DEF AckedKept, Kept, RowTypes
<1>5. \A m \in Messages : Kept(m) => Kept(m)'
  BY <1>1 DEF RowsMove
<1>6. AckedKept'
  BY <1>4, <1>5 DEF AckedKept, Kept
<1> QED
  BY <1>1, <1>3, <1>6 DEF RowTypes, RowsMove

-----------------------------------------------------------------------------
(* The worker's commands *)

RetryWaits == {"flush", "receipt"}

\* A loop that waits for the worker goes on waiting.
StillWaiting ==
    /\ inbound.pc = "receipt" => inbound'.pc = "receipt"
    /\ retry.pc \in RetryWaits => retry'.pc \in RetryWaits

CommandSent(c) ==
    /\ commands' = Append(commands, c)
    /\ \A r \in c.new : Truthful(r)'
    /\ worker' = worker
    /\ \/ /\ c.by = "inbound" /\ inbound.pc # "receipt" /\ inbound'.pc = "receipt"
          /\ retry' = retry
       \/ /\ c.by = "retry" /\ retry.pc \notin RetryWaits /\ retry'.pc \in RetryWaits
          /\ inbound' = inbound

CommandsMove ==
    \/ /\ commands' = commands /\ StillWaiting
       /\ worker'.pc # "idle" => worker.pc # "idle" \/ commands # <<>>
    \/ \E c \in Commands : CommandSent(c)
    \/ commands # <<>> /\ Answered
    \/ commands' = <<>> /\ worker' = Waiting

LEMMA TruthStays ==
    ASSUME RowsMove, NEW r, Truthful(r)
    PROVE  Truthful(r)'
  BY DEF RowsMove, Truthful

LEMMA AckSends ==
    ASSUME LoopTypes, LoopsKnow, SendDeliverAck
    PROVE  CommandsMove
<1>1. inbound.pc = "ack" /\ inbound.m \in Messages
  BY LoopFields DEF SendDeliverAck
<1>2. UNCHANGED <<retry, worker, seen>>
  BY DEF SendDeliverAck, receipts
<1>3. CASE ~inbound.ok
  <2>1. commands' = commands
    BY <1>3 DEF SendDeliverAck
  <2> QED
    BY <1>1, <1>2, <2>1 DEF CommandsMove, StillWaiting
<1>4. CASE inbound.ok
  <2> DEFINE c == [by |-> "inbound", new |-> {<<inbound.m, "delivered_to_webhook">>}]
  <2>1. commands' = Append(commands, c) /\ inbound'.pc = "receipt"
    BY <1>4 DEF SendDeliverAck
  <2>2. c \in Commands
    BY <1>1 DEF Commands, Loops, Receipts
  <2>3. inbound.m \in seen
    BY <1>1, <1>4 DEF LoopsKnow
  <2>4. \A r \in c.new : Truthful(r)'
    BY <1>2, <2>3 DEF Truthful
  <2>5. c.by = "inbound"
    OBVIOUS
  <2> HIDE DEF c
  <2>6. CommandSent(c)
    BY <1>1, <1>2, <2>1, <2>4, <2>5 DEF CommandSent
  <2> QED
    BY <2>2, <2>6 DEF CommandsMove
<1> QED
  BY <1>3, <1>4

LEMMA RetrySends ==
    ASSUME NEW m \in Messages, NEW status \in {"delivered_to_webhook", "dead_lettered"},
           retry.m = m, retry.pc \in {"delivered", "failed"}, RetryReceipt(status),
           UNCHANGED <<inbound, worker>>, Truthful(<<m, status>>)'
    PROVE  CommandsMove
<1> DEFINE c == [by |-> "retry", new |-> {<<m, status>>}]
<1>1. commands' = Append(commands, c) /\ retry'.pc = "receipt"
  BY DEF RetryReceipt
<1>2. c \in Commands /\ c.by = "retry"
  BY DEF Commands, Loops, Receipts
<1>3. \A r \in c.new : Truthful(r)'
  OBVIOUS
<1> HIDE DEF c
<1>4. CommandSent(c)
  BY <1>1, <1>2, <1>3 DEF CommandSent, RetryWaits
<1> QED
  BY <1>2, <1>4 DEF CommandsMove

LEMMA DeadLetterSends ==
    ASSUME RowTypes, LoopTypes, LoopsKnow, DeadLetterPending
    PROVE  CommandsMove
<1>1. retry.pc = "failed" /\ retry.m \in Messages
  BY LoopFields DEF DeadLetterPending
<1>2. UNCHANGED <<inbound, worker, seen>>
  BY DEF DeadLetterPending, receipts
<1>3. CASE commands' = commands /\ retry' = NextItem
  BY <1>1, <1>2, <1>3 DEF CommandsMove, StillWaiting, RetryWaits
<1>4. CASE RetryReceipt("dead_lettered") /\ wasDead' = wasDead \cup {retry.m}
  <2>1. PICK m \in Messages : m = retry.m
    BY <1>1
  <2>2. Truthful(<<m, "dead_lettered">>)'
    BY <1>4, <2>1 DEF Truthful
  <2> QED
    BY <1>1, <1>2, <1>4, <2>1, <2>2, RetrySends
<1>5. CASE RetryReceipt("dead_lettered") /\ wasDead' = wasDead /\ pending[retry.m] = 0
  <2>1. PICK m \in Messages : m = retry.m
    BY <1>1
  <2>2. m \in seen \cup wasDead
    BY <1>1, <1>5, <2>1 DEF LoopsKnow, Resolved
  <2>3. Truthful(<<m, "dead_lettered">>)'
    BY <1>2, <1>5, <2>2 DEF Truthful
  <2> QED
    BY <1>1, <1>2, <1>5, <2>1, <2>3, RetrySends
<1> QED
  BY <1>3, <1>4, <1>5 DEF DeadLetterPending, MovePending

LEMMA CommandsMoves ==
    ASSUME RowTypes, LoopTypes, LoopsKnow, WorkerTypes, CommandsAwaited, DeliveryNext
    PROVE  CommandsMove
<1>1. ASSUME PostWebhook \/ Persist \/ ListDue \/ RetryPost \/ ItemsEnd \/ ScheduleRetry
      PROVE  CommandsMove
  <2>1. commands' = commands /\ worker' = worker
    BY <1>1 DEF PostWebhook, Persist, ListDue, RetryPost, ItemsEnd, ScheduleRetry, receipts
  <2>2. inbound' = inbound \/ inbound.pc \in {"post", "persist"}
    BY <1>1 DEF PostWebhook, Persist, ListDue, RetryPost, ItemsEnd, ScheduleRetry
  <2>3. retry' = retry \/ retry.pc \in {"list", "item", "failed"}
    BY <1>1 DEF PostWebhook, Persist, ListDue, RetryPost, ItemsEnd, ScheduleRetry
  <2> QED
    BY <2>1, <2>2, <2>3 DEF CommandsMove, StillWaiting, RetryWaits
<1>2. ASSUME Tick
      PROVE  CommandsMove
  <2> DEFINE c == [by |-> "retry", new |-> {}]
  <2>1. c \in Commands /\ c.by = "retry" /\ c.new = {}
    BY DEF Commands, Loops
  <2>2. retry.pc = "idle" /\ retry'.pc = "flush"
    BY <1>2, LoopFields DEF Tick
  <2>3. commands' = Append(commands, c) /\ UNCHANGED <<inbound, worker>>
    BY <1>2 DEF Tick, receipts
  <2> HIDE DEF c
  <2>4. CommandSent(c)
    BY <2>1, <2>2, <2>3 DEF CommandSent, RetryWaits
  <2> QED
    BY <2>1, <2>4 DEF CommandsMove
<1>3. ASSUME RecordSuccess
      PROVE  CommandsMove
  <2>1. retry.pc = "delivered" /\ UNCHANGED <<inbound, worker, seen>>
    BY <1>3 DEF RecordSuccess, receipts, messageHistory
  <2>2. PICK m \in Messages : m = retry.m
    BY <2>1, LoopFields
  <2>3. Truthful(<<m, "delivered_to_webhook">>)'
    BY <2>1, <2>2 DEF LoopsKnow, Truthful
  <2>4. RetryReceipt("delivered_to_webhook")
    BY <1>3 DEF RecordSuccess
  <2> QED
    BY <2>1, <2>2, <2>3, <2>4, RetrySends
<1>4. ASSUME NEW l \in Loops, TakeDue(l) \/ Forward(l) \/ Requeue(l)
      PROVE  CommandsMove
  <2>1. commands' = commands /\ worker' = worker
    BY <1>4 DEF TakeDue, Forward, Requeue, receipts
  <2>2. inbound' = inbound \/ inbound.pc \in {"take", "forward"}
    BY <1>4 DEF TakeDue, Forward, Requeue, GoOn, PcOf, loops
  <2>3. retry' = retry \/ retry.pc \in {"take", "forward"}
    BY <1>4 DEF TakeDue, Forward, Requeue, GoOn, PcOf, loops
  <2> QED
    BY <2>1, <2>2, <2>3 DEF CommandsMove, StillWaiting, RetryWaits
<1>5. ASSUME EnqueueReceipt \/ FlushLoad \/ FlushSave
      PROVE  CommandsMove
  <2>1. CASE Answered
    BY <1>5, <2>1 DEF EnqueueReceipt, FlushLoad, FlushSave, CommandsAwaited, CommandsMove
  <2>2. CASE ~Answered
    <3>1. UNCHANGED <<loops, commands>> /\ (worker.pc # "idle" \/ commands # <<>>)
      BY <1>5, <2>2 DEF EnqueueReceipt, FlushLoad, FlushSave
    <3> QED
      BY <3>1 DEF CommandsMove, StillWaiting, loops
  <2> QED
    BY <2>1, <2>2
<1>6. ASSUME PostReceipt
      PROVE  CommandsMove
  BY <1>6 DEF PostReceipt, CommandsMove, StillWaiting, loops
<1>7. ASSUME NEW x, ReceiveDeliver(x) \/ Notify(x)
      PROVE  CommandsMove
  BY <1>7 DEF ReceiveDeliver, Notify, CommandsMove, StillWaiting, receipts
<1>8. ASSUME NEW x, ReplayDeadLetter(x) \/ PurgeDeadLetter(x) \/ RowDue(x) \/ ReceiptDue(x) \/ NoteDue(x)
                    \/ NoteAges(x)
      PROVE  CommandsMove
  BY <1>8 DEF ReplayDeadLetter, PurgeDeadLetter, RowDue, ReceiptDue, NoteDue, NoteAges, CommandsMove,
     StillWaiting, loops, receipts
<1>9. ASSUME ProcessCrash
      PROVE  CommandsMove
  BY <1>9 DEF ProcessCrash, CommandsMove
<1> QED
  BY <1>1, <1>2, <1>3, <1>4, <1>5, <1>6, <1>7, <1>8, <1>9, AckSends, DeadLetterSends, DeliverySteps

CommandsInv == commands \in Seq(Commands) /\ CommandsAwaited /\ CommandsTrue

LEMMA CommandsStay ==
    ASSUME CommandsInv, RowsMove, commands' = commands, StillWaiting,
           worker'.pc # "idle" => worker.pc # "idle" \/ commands # <<>>
    PROVE  CommandsInv'
<1>1. CommandsTrue'
  <2> SUFFICES ASSUME NEW i \in 1 .. Len(commands), NEW r \in commands[i].new
               PROVE  Truthful(r)'
    BY DEF CommandsTrue
  <2> QED
    BY TruthStays DEF CommandsInv, CommandsTrue
<1>2. CommandsAwaited'
  BY DEF CommandsInv, CommandsAwaited, StillWaiting, RetryWaits
<1> QED
  BY <1>1, <1>2 DEF CommandsInv

LEMMA CommandsGrow ==
    ASSUME CommandsInv, RowsMove, NEW c \in Commands, CommandSent(c)
    PROVE  CommandsInv'
<1> DEFINE n == Len(commands)
<1>0. commands \in Seq(Commands) /\ n \in Nat
  BY DEF CommandsInv
<1>1. /\ commands' \in Seq(Commands) /\ Len(commands') = n + 1 /\ commands'[n + 1] = c
      /\ \A i \in 1 .. n : commands'[i] = commands[i]
  BY <1>0 DEF CommandSent
<1>2. \A i \in 1 .. Len(commands') : i = n + 1 \/ i \in 1 .. n
  BY <1>0, <1>1
<1> HIDE DEF n
<1>3. CommandsTrue'
  <2> SUFFICES ASSUME NEW i \in 1 .. Len(commands'), NEW r \in commands'[i].new
               PROVE  Truthful(r)'
    BY DEF CommandsTrue
  <2>1. CASE i = n + 1
    BY <1>1, <2>1 DEF CommandSent
  <2>2. CASE i \in 1 .. n
    <3>1. Truthful(r)
      BY <1>1, <2>2 DEF CommandsInv, CommandsTrue, n
    <3> QED
      BY <3>1, TruthStays
  <2> QED
    BY <1>2, <2>1, <2>2
<1>4. \A i \in 1 .. n : commands[i].by # c.by
  BY DEF CommandsInv, CommandsAwaited, CommandSent, RetryWaits, n
<1>5. \A i \in 1 .. n : \/ commands[i].by = "inbound" /\ inbound'.pc = "receipt"
                        \/ commands[i].by = "retry" /\ retry'.pc \in {"flush", "receipt"}
  BY <1>4 DEF CommandsInv, CommandsAwaited, CommandSent, RetryWaits, n
<1>6. \A i \in 1 .. Len(commands') :
         \/ commands'[i].by = "inbound" /\ inbound'.pc = "receipt"
         \/ commands'[i].by = "retry" /\ retry'.pc \in {"flush", "receipt"}
  BY <1>1, <1>2, <1>5 DEF CommandSent, RetryWaits
<1>7. \A i, j \in 1 .. n : commands[i].by = commands[j].by => i = j
  BY DEF CommandsInv, CommandsAwaited, n
<1>8. \A i, j \in 1 .. Len(commands') : commands'[i].by = commands'[j].by => i = j
  BY <1>1, <1>2, <1>4, <1>7
<1>9. commands' # <<>>
  BY <1>0, <1>1
<1> QED
  BY <1>1, <1>3, <1>6, <1>8, <1>9 DEF CommandsInv, CommandsAwaited

LEMMA CommandsShrink ==
    ASSUME CommandsInv, LoopTypes, WorkerTypes, RowsMove, commands # <<>>, Answered
    PROVE  CommandsInv'
<1> DEFINE n == Len(commands)
<1>0. commands \in Seq(Commands) /\ n \in Nat \ {0} /\ CommandsAwaited
  BY DEF CommandsInv
<1>1. /\ commands' \in Seq(Commands) /\ Len(commands') = n - 1
      /\ \A i \in 1 .. (n - 1) : commands'[i] = commands[i + 1]
      /\ Head(commands) = commands[1]
  BY <1>0, AnsweredMoves
<1>2. 1 \in 1 .. n /\ \A i \in 1 .. (n - 1) : i + 1 \in 1 .. n /\ i + 1 # 1
  BY <1>0
<1> HIDE DEF n
<1>3. CommandsTrue'
  <2> SUFFICES ASSUME NEW i \in 1 .. Len(commands'), NEW r \in commands'[i].new
               PROVE  Truthful(r)'
    BY DEF CommandsTrue
  <2>1. Truthful(r)
    BY <1>1, <1>2 DEF CommandsInv, CommandsTrue, n
  <2> QED
    BY <2>1, TruthStays
<1>4. \A i \in 1 .. (n - 1) : commands'[i].by # commands[1].by
  BY <1>0, <1>1, <1>2 DEF CommandsAwaited, n
<1>5. \/ commands[1].by = "inbound" /\ retry' = retry
      \/ commands[1].by = "retry" /\ inbound' = inbound
  BY <1>0, <1>1, AnsweredMoves
<1>6. \A i \in 1 .. (n - 1) :
         \/ commands'[i].by = "inbound" /\ inbound.pc = "receipt"
         \/ commands'[i].by = "retry" /\ retry.pc \in {"flush", "receipt"}
  BY <1>0, <1>1, <1>2 DEF CommandsAwaited, n
<1>7. \A i \in 1 .. Len(commands') :
         \/ commands'[i].by = "inbound" /\ inbound'.pc = "receipt"
         \/ commands'[i].by = "retry" /\ retry'.pc \in {"flush", "receipt"}
  BY <1>1, <1>4, <1>5, <1>6
<1>8. \A i, j \in 1 .. Len(commands') : commands'[i].by = commands'[j].by => i = j
  <2> SUFFICES ASSUME NEW i \in 1 .. (n - 1), NEW j \in 1 .. (n - 1), commands'[i].by = commands'[j].by
               PROVE  i = j
    BY <1>1
  <2>1. i + 1 = j + 1
    BY <1>0, <1>1, <1>2 DEF CommandsAwaited, n
  <2> QED
    BY <2>1, <1>0
<1>9. worker'.pc = "idle"
  BY DEF Answered, Waiting
<1> QED
  BY <1>1, <1>3, <1>7, <1>8, <1>9 DEF CommandsInv, CommandsAwaited

LEMMA CommandsStep ==
    ASSUME RowTypes, LoopTypes, LoopsKnow, WorkerTypes, CommandsAwaited, CommandsTrue, DeliveryNext
    PROVE  CommandsInv'
<1>1. CommandsInv /\ RowsMove /\ CommandsMove
  BY RowsStep, CommandsMoves DEF CommandsInv, WorkerTypes
<1>2. ASSUME commands' = <<>>, worker' = Waiting
      PROVE  CommandsInv'
  <2>1. Len(commands') = 0 /\ commands' \in Seq(Commands) /\ worker'.pc = "idle"
    BY <1>2 DEF Waiting
  <2> QED
    BY <2>1 DEF CommandsInv, CommandsAwaited, CommandsTrue
<1> QED
  BY <1>1, <1>2, CommandsStay, CommandsGrow, CommandsShrink DEF CommandsMove

\* A loop has one command at most, so there are two.
LEMMA TwoCommands ==
    ASSUME commands \in Seq(Commands), CommandsAwaited
    PROVE  Len(commands) <= 2
<1> SUFFICES ASSUME Len(commands) > 2 PROVE FALSE
  OBVIOUS
<1>1. 1 \in 1 .. Len(commands) /\ 2 \in 1 .. Len(commands) /\ 3 \in 1 .. Len(commands)
  OBVIOUS
<1>2. {commands[1].by, commands[2].by, commands[3].by} \subseteq {"inbound", "retry"}
  BY <1>1 DEF CommandsAwaited
<1> QED
  BY <1>1, <1>2 DEF CommandsAwaited

-----------------------------------------------------------------------------
(* The receipt file *)

FileTypes ==
    /\ outbox \in [Receipts -> {"absent", "due", "later"}]
    /\ worker \in WorkerState
    /\ queued \subseteq Receipts /\ receipted \subseteq Receipts

FileInv == FileTypes /\ FlushCovers /\ ReceiptsKept

LEMMA FileFrame ==
    ASSUME DeliveryNext
    PROVE  \/ UNCHANGED receipts
           \/ EnqueueReceipt \/ FlushLoad \/ PostReceipt \/ FlushSave \/ ProcessCrash
           \/ \E r \in Receipts : ReceiptDue(r)
<1>1. ASSUME PostWebhook \/ Persist \/ SendDeliverAck \/ Tick \/ ListDue \/ RetryPost \/ ItemsEnd
             \/ RecordSuccess \/ ScheduleRetry \/ DeadLetterPending
      PROVE  UNCHANGED receipts
  BY <1>1 DEF PostWebhook, Persist, SendDeliverAck, Tick, ListDue, RetryPost, ItemsEnd, RecordSuccess,
     ScheduleRetry, DeadLetterPending
<1>2. ASSUME NEW l, TakeDue(l) \/ Forward(l) \/ Requeue(l)
      PROVE  UNCHANGED receipts
  BY <1>2 DEF TakeDue, Forward, Requeue
<1>3. ASSUME NEW x, ReceiveDeliver(x) \/ ReplayDeadLetter(x) \/ PurgeDeadLetter(x) \/ RowDue(x)
                    \/ Notify(x) \/ NoteDue(x) \/ NoteAges(x)
      PROVE  UNCHANGED receipts
  BY <1>3 DEF ReceiveDeliver, ReplayDeadLetter, PurgeDeadLetter, RowDue, Notify, NoteDue, NoteAges
<1> QED
  BY <1>1, <1>2, <1>3, DeliverySteps, Zenon

\* A worker that is not posting has nothing to cover.
LEMMA IdleFile ==
    ASSUME FileInv, UNCHANGED <<outbox, queued, receipted>>, worker' \in WorkerState, worker'.pc # "post"
    PROVE  FileInv'
  BY DEF FileInv, FileTypes, FlushCovers, ReceiptsKept

LEMMA WaitingState == Waiting \in WorkerState /\ Waiting.pc = "idle"
  BY DEF Waiting, WorkerState

LEMMA EnqueueFile ==
    ASSUME FileInv, CommandsInv, EnqueueReceipt
    PROVE  FileInv' /\ queued' \subseteq queued \cup Head(commands).new
<1>1. CASE Answered /\ UNCHANGED <<outbox, queued>>
  <2>1. worker' = Waiting /\ receipted' = receipted
    BY <1>1 DEF Answered, EnqueueReceipt
  <2> QED
    BY <1>1, <2>1, IdleFile, WaitingState
<1>2. CASE /\ outbox' = [r \in Receipts |-> IF r \in Head(commands).new THEN "due" ELSE outbox[r]]
           /\ queued' = queued \cup Head(commands).new
           /\ worker' = [worker EXCEPT !.pc = "load"]
  <2>1. receipted' = receipted
    BY DEF EnqueueReceipt
  <2>2. Head(commands).new \subseteq Receipts
    <3>1. commands # <<>> /\ commands \in Seq(Commands)
      BY DEF CommandsInv, EnqueueReceipt
    <3>2. Head(commands) \in Commands
      BY <3>1
    <3> QED
      BY <3>2 DEF Commands
  <2>3. worker' \in WorkerState /\ worker'.pc = "load"
    BY <1>2 DEF FileInv, FileTypes, WorkerState
  <2>4. FileTypes'
    BY <1>2, <2>1, <2>2, <2>3 DEF FileInv, FileTypes
  <2>5. ReceiptsKept'
    BY <1>2, <2>1, <2>2 DEF FileInv, FileTypes, ReceiptsKept
  <2> QED
    BY <1>2, <2>3, <2>4, <2>5 DEF FileInv, FlushCovers
<1> QED
  BY <1>1, <1>2 DEF EnqueueReceipt

LEMMA LoadFile ==
    ASSUME FileInv, FlushLoad
    PROVE  FileInv' /\ queued' = queued
<1>1. UNCHANGED <<outbox, queued, receipted>>
  BY DEF FlushLoad
<1>2. CASE Answered
  BY <1>1, <1>2, IdleFile, WaitingState DEF Answered
<1>3. CASE worker' = [pc |-> "post", todo |-> {r \in Receipts : outbox[r] = "due"},
                      kept |-> {r \in Receipts : outbox[r] = "later"}]
  <2>1. worker' \in WorkerState
    BY <1>3 DEF WorkerState
  <2>2. FlushCovers'
    BY <1>1, <1>3 DEF FlushCovers, FileInv, FileTypes
  <2> QED
    BY <1>1, <2>1, <2>2 DEF FileInv, FileTypes, ReceiptsKept
<1> QED
  BY <1>2, <1>3 DEF FlushLoad

LEMMA PostFile ==
    ASSUME FileInv, PostReceipt
    PROVE  FileInv' /\ queued' = queued
<1>1. worker.pc = "post" /\ UNCHANGED <<outbox, queued>>
  BY DEF PostReceipt
<1>2. PICK r \in worker.todo :
         \/ /\ receipted' = receipted \cup {r}
            /\ worker' = [worker EXCEPT !.todo = @ \ {r}]
         \/ /\ worker' = [worker EXCEPT !.todo = @ \ {r}, !.kept = @ \cup {r}]
            /\ receipted' \in {receipted, receipted \cup {r}}
  BY DEF PostReceipt
<1>3. worker \in WorkerState /\ r \in Receipts
  BY DEF FileInv, FileTypes, WorkerState
<1>4. /\ worker' \in WorkerState /\ worker'.todo = worker.todo \ {r}
      /\ worker.kept \subseteq worker'.kept
      /\ receipted \subseteq receipted' /\ receipted' \subseteq receipted \cup {r}
      /\ r \in worker'.kept \cup receipted'
  BY <1>2, <1>3 DEF WorkerState
<1>5. FlushCovers'
  BY <1>1, <1>4 DEF FileInv, FlushCovers
<1> QED
  BY <1>1, <1>3, <1>4, <1>5 DEF FileInv, FileTypes, ReceiptsKept

LEMMA SaveFile ==
    ASSUME FileInv, FlushSave
    PROVE  FileInv' /\ queued' = queued
<1>1. worker.pc = "post" /\ worker.todo = {} /\ UNCHANGED <<queued, receipted>> /\ worker' = Waiting
  BY DEF FlushSave, Answered
<1>2. CASE UNCHANGED outbox
  BY <1>1, <1>2, IdleFile, WaitingState
<1>3. CASE outbox' = [r \in Receipts |-> IF r \in worker.kept THEN "later" ELSE "absent"]
  <2>1. FileTypes'
    BY <1>1, <1>3, WaitingState DEF FileInv, FileTypes
  <2>2. ReceiptsKept'
    BY <1>1, <1>3 DEF FileInv, FileTypes, FlushCovers, ReceiptsKept
  <2> QED
    BY <1>1, <2>1, <2>2, WaitingState DEF FileInv, FlushCovers
<1> QED
  BY <1>2, <1>3 DEF FlushSave

LEMMA FileStep ==
    ASSUME FileInv, CommandsInv, ReceiptsTrue, RowsMove, DeliveryNext
    PROVE  FileInv' /\ ReceiptsTrue'
<1>1. ASSUME UNCHANGED receipts PROVE FileInv'
  BY <1>1 DEF receipts, FileInv, FileTypes, FlushCovers, ReceiptsKept
<1>2. ASSUME ProcessCrash PROVE FileInv'
  BY <1>2, IdleFile, WaitingState DEF ProcessCrash
<1>3. ASSUME NEW r \in Receipts, ReceiptDue(r) PROVE FileInv'
  BY <1>3 DEF ReceiptDue, FileInv, FileTypes, FlushCovers, ReceiptsKept
<1>4. FileInv'
  BY <1>1, <1>2, <1>3, FileFrame, EnqueueFile, LoadFile, PostFile, SaveFile
<1>5. \A r \in queued : Truthful(r)'
  BY TruthStays DEF ReceiptsTrue, Truthful, RowsMove
<1>6. EnqueueReceipt => \A r \in Head(commands).new : Truthful(r)'
  <2> SUFFICES ASSUME EnqueueReceipt, NEW r \in Head(commands).new PROVE Truthful(r)'
    OBVIOUS
  <2>1. 1 \in 1 .. Len(commands) /\ Head(commands) = commands[1]
    BY DEF EnqueueReceipt, CommandsInv
  <2>2. Truthful(r)
    BY <2>1 DEF CommandsInv, CommandsTrue
  <2> QED
    BY <2>2, TruthStays
<1>7. queued' = queued \/ (EnqueueReceipt /\ queued' \subseteq queued \cup Head(commands).new)
  BY FileFrame, EnqueueFile, LoadFile, PostFile, SaveFile DEF receipts, ProcessCrash, ReceiptDue
<1>8. \A r \in queued' : Truthful(r)'
  BY <1>5, <1>6, <1>7
<1> QED
  BY <1>4, <1>8 DEF ReceiptsTrue, Truthful

-----------------------------------------------------------------------------
(* Notifications *)

LEMMA NoteFrame ==
    ASSUME DeliveryNext
    PROVE  \/ UNCHANGED notes
           \/ \E l \in Loops : TakeDue(l) \/ Forward(l) \/ Requeue(l)
           \/ \E n \in Notes : Notify(n) \/ NoteDue(n) \/ NoteAges(n)
           \/ ProcessCrash
<1>1. ASSUME PostWebhook \/ Persist \/ SendDeliverAck \/ Tick \/ ListDue \/ RetryPost \/ ItemsEnd
             \/ RecordSuccess \/ ScheduleRetry \/ DeadLetterPending
      PROVE  UNCHANGED notes
  BY <1>1 DEF PostWebhook, Persist, SendDeliverAck, Tick, ListDue, RetryPost, ItemsEnd, RecordSuccess,
     ScheduleRetry, DeadLetterPending
<1>2. ASSUME EnqueueReceipt \/ FlushLoad \/ PostReceipt \/ FlushSave
      PROVE  UNCHANGED notes
  BY <1>2 DEF EnqueueReceipt, FlushLoad, PostReceipt, FlushSave
<1>3. ASSUME NEW x, ReceiveDeliver(x) \/ ReplayDeadLetter(x) \/ PurgeDeadLetter(x) \/ RowDue(x) \/ ReceiptDue(x)
      PROVE  UNCHANGED notes
  BY <1>3 DEF ReceiveDeliver, ReplayDeadLetter, PurgeDeadLetter, RowDue, ReceiptDue
<1> QED
  BY <1>1, <1>2, <1>3, DeliverySteps, Zenon

LEMMA HeldTypes ==
    ASSUME NoteTypes, NEW l \in Loops
    PROVE  /\ held[l] = [todo |-> held[l].todo, kept |-> held[l].kept]
           /\ held[l].todo \subseteq Notes /\ held[l].kept \subseteq Notes
  BY DEF NoteTypes

\* A loop's share changes and the other's stays: what is left to show.
LEMMA OneLoop ==
    ASSUME NoteTypes, NotesInv, NEW l \in Loops, NEW todo \in SUBSET Notes, NEW kept \in SUBSET Notes,
           held' = [held EXCEPT ![l] = [todo |-> todo, kept |-> kept]],
           IsFiniteSet(todo \cup kept), todo \cap kept = {},
           todo \cup kept \subseteq arrived \ (noteQueue' \cup forwarded'),
           todo \cup kept \subseteq Has(l) \cup noteQueue,
           IsFiniteSet(noteQueue'), Cardinality(noteQueue') <= MaxNotes,
           noteQueue' \subseteq noteQueue \cup Has(l),
           noteQueue' \cap forwarded' = {},
           forwarded' \subseteq forwarded \cup Has(l),
           arrived' = arrived
    PROVE  NotesInv' /\ held' \in [Loops -> [todo : SUBSET Notes, kept : SUBSET Notes]]
<1>1. /\ held'[l].todo = todo /\ held'[l].kept = kept
      /\ \A k \in Loops \ {l} : held'[k] = held[k]
      /\ held' \in [Loops -> [todo : SUBSET Notes, kept : SUBSET Notes]]
  BY DEF NoteTypes
<1>2. Has(l)' = todo \cup kept
  BY <1>1 DEF Has
<1>3. ASSUME NEW k \in Loops \ {l}
      PROVE  Has(k)' = Has(k) /\ Has(k) \cap Has(l) = {}
  BY <1>1, <1>3 DEF Has, NotesInv, Loops
<1>4. \A k \in Loops : IsFiniteSet(Has(k)') /\ held'[k].todo \cap held'[k].kept = {}
  BY <1>1, <1>2, <1>3 DEF NotesInv
<1>5. \A k \in Loops : Has(k)' \subseteq arrived' \ (noteQueue' \cup forwarded')
  BY <1>2, <1>3 DEF NotesInv
<1>6. noteQueue' \subseteq arrived' \ forwarded' /\ forwarded' \subseteq arrived'
  BY DEF NotesInv
<1>7. Has("inbound")' \cap Has("retry")' = {}
  <2>1. ASSUME NEW k \in Loops \ {l}
        PROVE  Has(k)' \cap Has(l)' = {}
    <3>1. Has(k) \cap noteQueue = {}
      BY DEF NotesInv
    <3> QED
      BY <1>2, <1>3, <3>1
  <2>2. \/ l = "inbound" /\ "retry" \in Loops \ {l}
        \/ l = "retry" /\ "inbound" \in Loops \ {l}
    BY DEF Loops
  <2> QED
    BY <2>1, <2>2
<1> QED
  BY <1>1, <1>4, <1>5, <1>6, <1>7 DEF NotesInv

LEMMA TakeNotes ==
    ASSUME NoteTypes, NotesInv, NEW l \in Loops, TakeDue(l)
    PROVE  NoteTypes' /\ NotesInv'
<1> DEFINE todo == noteQueue \cap ready
           kept == held[l].kept
<1>1. /\ noteQueue' = noteQueue \ ready
      /\ UNCHANGED <<ready, tries, old, arrived, forwarded>>
  BY DEF TakeDue
<1>2. held' = [held EXCEPT ![l] = [todo |-> todo, kept |-> kept]]
  <2>1. held' = [held EXCEPT ![l].todo = todo]
    BY DEF TakeDue
  <2>2. held[l] = [todo |-> held[l].todo, kept |-> kept]
    BY HeldTypes
  <2> HIDE DEF todo, kept
  <2>3. [held[l] EXCEPT !.todo = todo] = [todo |-> todo, kept |-> kept]
    BY <2>2
  <2> QED
    BY <2>1, <2>3
<1>3. todo \in SUBSET Notes /\ kept \in SUBSET Notes
  BY HeldTypes DEF NoteTypes
<1>4. IsFiniteSet(todo) /\ IsFiniteSet(kept)
  <2>1. IsFiniteSet(noteQueue) /\ todo \in SUBSET noteQueue
    BY DEF NotesInv
  <2>2. IsFiniteSet(Has(l)) /\ kept \in SUBSET Has(l)
    BY DEF NotesInv, Has
  <2> QED
    BY <2>1, <2>2, FS_Subset
<1>5. IsFiniteSet(todo \cup kept)
  BY <1>4, FS_Union
<1>6. todo \subseteq noteQueue /\ kept \subseteq Has(l) /\ todo \cap noteQueue' = {}
  BY <1>1 DEF Has
<1>7. /\ todo \cap kept = {} /\ todo \cup kept \subseteq Has(l) \cup noteQueue
      /\ todo \cup kept \subseteq arrived \ (noteQueue' \cup forwarded')
  <2>1. noteQueue' \subseteq noteQueue /\ forwarded' = forwarded
    BY <1>1
  <2>2. Has(l) \subseteq arrived \ (noteQueue \cup forwarded) /\ noteQueue \subseteq arrived \ forwarded
    BY DEF NotesInv
  <2> HIDE DEF todo, kept
  <2> QED
    BY <1>6, <2>1, <2>2
<1>8. IsFiniteSet(noteQueue') /\ Cardinality(noteQueue') <= MaxNotes
  <2>1. noteQueue' \in SUBSET noteQueue /\ IsFiniteSet(noteQueue) /\ Cardinality(noteQueue) <= MaxNotes
    BY <1>1 DEF NotesInv
  <2>2. IsFiniteSet(noteQueue') /\ Cardinality(noteQueue') <= Cardinality(noteQueue)
    BY <2>1, FS_Subset
  <2>3. Cardinality(noteQueue') \in Nat /\ Cardinality(noteQueue) \in Nat /\ MaxNotes \in Nat
    BY <2>1, <2>2, FS_CardinalityType, DeliveryAssumption
  <2> QED
    BY <2>1, <2>2, <2>3
<1>9. /\ noteQueue' \subseteq noteQueue \cup Has(l) /\ noteQueue' \cap forwarded' = {}
      /\ forwarded' \subseteq forwarded \cup Has(l) /\ arrived' = arrived
  BY <1>1 DEF NotesInv
<1> HIDE DEF todo, kept
<1>10. NotesInv' /\ held' \in [Loops -> [todo : SUBSET Notes, kept : SUBSET Notes]]
  BY <1>2, <1>3, <1>5, <1>7, <1>8, <1>9, OneLoop
<1> QED
  BY <1>1, <1>10 DEF NoteTypes

LEMMA ForwardNotes ==
    ASSUME NoteTypes, NotesInv, NEW l \in Loops, Forward(l)
    PROVE  NoteTypes' /\ NotesInv'
<1>1. UNCHANGED <<noteQueue, old, arrived>>
  BY DEF Forward
<1>2. PICK n \in held[l].todo :
         /\ ready' = ready \ {n}
         /\ \/ /\ held' = [held EXCEPT ![l].todo = @ \ {n}]
               /\ UNCHANGED tries /\ forwarded' \in {forwarded, forwarded \cup {n}}
            \/ /\ tries[n] < MaxForwards
               /\ tries' = [tries EXCEPT ![n] = @ + 1]
               /\ held' = [held EXCEPT ![l] = [todo |-> @.todo \ {n}, kept |-> @.kept \cup {n}]]
               /\ UNCHANGED forwarded
  BY DEF Forward
<1>3. n \in Notes /\ n \in Has(l)
  BY HeldTypes DEF Has
<1>4. tries' \in [Notes -> 0 .. MaxForwards]
  <2>1. MaxForwards \in Nat
    BY DeliveryAssumption
  <2> QED
    BY <1>2, <1>3, <2>1 DEF NoteTypes
<1>5. PICK kept \in {held[l].kept, held[l].kept \cup {n}} :
         /\ held' = [held EXCEPT ![l] = [todo |-> held[l].todo \ {n}, kept |-> kept]]
         /\ forwarded' \in {forwarded, forwarded \cup {n}}
         /\ kept # held[l].kept => forwarded' = forwarded
  BY <1>2, HeldTypes DEF NoteTypes
<1> DEFINE todo == held[l].todo \ {n}
<1>6. todo \in SUBSET Notes /\ kept \in SUBSET Notes
  BY <1>3, <1>5, HeldTypes
<1>7. todo \cup kept \subseteq Has(l) /\ todo \cap kept = {} /\ (n \in kept => forwarded' = forwarded)
  BY <1>2, <1>5 DEF Has, NotesInv
<1>8. n \notin todo
  OBVIOUS
<1> HIDE DEF todo
<1>9. IsFiniteSet(todo \cup kept)
  BY <1>7, FS_Subset DEF NotesInv
<1>10. Has(l) \subseteq arrived \ (noteQueue \cup forwarded)
  BY DEF NotesInv
<1>11. /\ todo \cup kept \subseteq arrived \ (noteQueue' \cup forwarded')
       /\ todo \cup kept \subseteq Has(l) \cup noteQueue
  BY <1>1, <1>5, <1>7, <1>8, <1>10
<1>12. /\ IsFiniteSet(noteQueue') /\ Cardinality(noteQueue') <= MaxNotes
       /\ noteQueue' \subseteq noteQueue \cup Has(l) /\ arrived' = arrived
  BY <1>1 DEF NotesInv
<1>13. noteQueue' \cap forwarded' = {} /\ forwarded' \subseteq forwarded \cup Has(l)
  BY <1>1, <1>3, <1>5, <1>10 DEF NotesInv
<1>14. held' = [held EXCEPT ![l] = [todo |-> todo, kept |-> kept]]
  BY <1>5 DEF todo
<1>15. NotesInv' /\ held' \in [Loops -> [todo : SUBSET Notes, kept : SUBSET Notes]]
  BY <1>14, <1>6, <1>7, <1>9, <1>11, <1>12, <1>13, OneLoop
<1>16. ready' \subseteq Notes /\ forwarded' \subseteq Notes
  BY <1>2, <1>3, <1>5 DEF NoteTypes
<1> QED
  BY <1>1, <1>4, <1>15, <1>16 DEF NoteTypes

LEMMA MinOfTwo ==
    ASSUME NEW a \in Nat, NEW b \in Nat
    PROVE  Min({a, b}) \in Nat /\ Min({a, b}) <= a
<1>1. \E x \in {a, b} : \A y \in {a, b} : x <= y
  <2>1. CASE a <= b
    BY <2>1
  <2>2. CASE b <= a
    BY <2>2
  <2> QED
    BY <2>1, <2>2
<1>2. Min({a, b}) \in {a, b} /\ \A y \in {a, b} : Min({a, b}) <= y
  BY <1>1, Zenon DEF Min
<1> QED
  BY <1>2

LEMMA RequeueNotes ==
    ASSUME NoteTypes, NotesInv, NEW l \in Loops, Requeue(l)
    PROVE  NoteTypes' /\ NotesInv'
<1>1. UNCHANGED <<ready, tries, old, arrived, forwarded>>
  BY DEF Requeue
<1>2. held' = [held EXCEPT ![l] = [todo |-> {}, kept |-> {}]]
  BY DEF Requeue, Nothing
<1>3. PICK back \in kSubset(Min({Room, Cardinality(held[l].kept)}), held[l].kept) :
         noteQueue' = noteQueue \cup back
  BY DEF Requeue
<1>4. back \in SUBSET held[l].kept /\ Cardinality(back) = Min({Room, Cardinality(held[l].kept)})
  BY DEF kSubset
<1>5. IsFiniteSet(held[l].kept)
  <2>1. held[l].kept \in SUBSET Has(l) /\ IsFiniteSet(Has(l))
    BY DEF Has, NotesInv
  <2> QED
    BY <2>1, FS_Subset
<1>6. IsFiniteSet(back) /\ IsFiniteSet(noteQueue) /\ Cardinality(noteQueue) <= MaxNotes
  BY <1>4, <1>5, FS_Subset DEF NotesInv
<1>7. /\ Cardinality(noteQueue) \in Nat /\ Cardinality(held[l].kept) \in Nat
      /\ Cardinality(noteQueue \cap back) \in Nat /\ MaxNotes \in Nat
  BY <1>5, <1>6, FS_CardinalityType, FS_Intersection, DeliveryAssumption
<1>8. Room \in Nat /\ Cardinality(noteQueue) + Room <= MaxNotes
  BY <1>6, <1>7 DEF Room
<1>9. Cardinality(back) \in Nat /\ Cardinality(back) <= Room
  BY <1>4, <1>7, <1>8, MinOfTwo
<1>10. /\ IsFiniteSet(noteQueue')
       /\ Cardinality(noteQueue') = Cardinality(noteQueue) + Cardinality(back) - Cardinality(noteQueue \cap back)
  BY <1>3, <1>6, FS_Union
<1>11. Cardinality(noteQueue') <= MaxNotes
  BY <1>7, <1>8, <1>9, <1>10
<1>12. back \subseteq Has(l) /\ Has(l) \subseteq arrived \ (noteQueue \cup forwarded)
  BY <1>4 DEF Has, NotesInv
<1>13. /\ noteQueue' \subseteq noteQueue \cup Has(l) /\ noteQueue' \cap forwarded' = {}
       /\ forwarded' \subseteq forwarded \cup Has(l)
  BY <1>1, <1>3, <1>12 DEF NotesInv
<1>14. IsFiniteSet({} \cup {})
  BY FS_EmptySet
<1>15. NotesInv' /\ held' \in [Loops -> [todo : SUBSET Notes, kept : SUBSET Notes]]
  BY <1>1, <1>2, <1>10, <1>11, <1>13, <1>14, OneLoop
<1>16. noteQueue' \subseteq Notes
  BY <1>3, <1>4, HeldTypes DEF NoteTypes
<1> QED
  BY <1>1, <1>15, <1>16 DEF NoteTypes

LEMMA NotifyNotes ==
    ASSUME NoteTypes, NotesInv, NEW n \in Notes, Notify(n)
    PROVE  NoteTypes' /\ NotesInv'
<1> DEFINE kept == {x \in noteQueue : tries[x] < MaxForwards /\ x \notin old}
           room == Cardinality(kept) < MaxNotes
<1>1. /\ n \notin arrived /\ arrived' = arrived \cup {n}
      /\ UNCHANGED <<tries, old, held, forwarded>>
  BY DEF Notify
<1>2. /\ noteQueue' = IF room THEN kept \cup {n} ELSE kept
      /\ ready' = IF room THEN (ready \cap kept) \cup {n} ELSE ready \cap kept
  BY DEF Notify
<1>3. kept \in SUBSET noteQueue
  OBVIOUS
<1> HIDE DEF kept
<1>4. /\ IsFiniteSet(noteQueue) /\ Cardinality(noteQueue) <= MaxNotes
  BY DEF NotesInv
<1>5. IsFiniteSet(kept) /\ Cardinality(kept) <= Cardinality(noteQueue)
  BY <1>3, <1>4, FS_Subset
<1>6. Cardinality(kept) \in Nat /\ Cardinality(noteQueue) \in Nat /\ MaxNotes \in Nat
  BY <1>4, <1>5, FS_CardinalityType, DeliveryAssumption
<1>7. IsFiniteSet(noteQueue') /\ Cardinality(noteQueue') <= MaxNotes
  <2>1. CASE room
    <3>1. n \notin kept
      BY <1>1, <1>3 DEF NotesInv
    <3>2. IsFiniteSet(kept \cup {n}) /\ Cardinality(kept \cup {n}) = Cardinality(kept) + 1
      BY <1>5, <3>1, FS_AddElement
    <3> QED
      BY <1>2, <1>6, <2>1, <3>2
  <2>2. CASE ~room
    BY <1>2, <1>4, <1>5, <1>6, <2>2
  <2> QED
    BY <2>1, <2>2
<1> HIDE DEF room
<1>8. noteQueue' \subseteq noteQueue \cup {n} /\ ready' \subseteq ready \cup {n}
  BY <1>2, <1>3
<1>9. \A l \in Loops : Has(l)' = Has(l) /\ held'[l] = held[l]
  BY <1>1 DEF Has
<1>10. \A l \in Loops : Has(l)' \subseteq arrived' \ (noteQueue' \cup forwarded')
  BY <1>1, <1>8, <1>9 DEF NotesInv
<1>11. noteQueue' \subseteq arrived' \ forwarded' /\ forwarded' \subseteq arrived'
  BY <1>1, <1>8 DEF NotesInv
<1>12. Has("inbound")' \cap Has("retry")' = {}
  BY <1>1 DEF NotesInv, Has
<1>13. \A l \in Loops : IsFiniteSet(Has(l)') /\ held'[l].todo \cap held'[l].kept = {}
  BY <1>9 DEF NotesInv
<1>14. NotesInv'
  BY <1>7, <1>10, <1>11, <1>12, <1>13 DEF NotesInv
<1>15. NoteTypes'
  BY <1>1, <1>8 DEF NoteTypes
<1> QED
  BY <1>14, <1>15

LEMMA NotesStep ==
    ASSUME NoteTypes, NotesInv, DeliveryNext
    PROVE  NoteTypes' /\ NotesInv'
<1>1. CASE UNCHANGED notes
  BY <1>1 DEF notes, NoteTypes, NotesInv, Has
<1>2. ASSUME NEW n \in Notes, NoteDue(n) \/ NoteAges(n)
      PROVE  NoteTypes' /\ NotesInv'
  <2>1. UNCHANGED <<noteQueue, tries, held, arrived, forwarded>>
    BY <1>2 DEF NoteDue, NoteAges
  <2>2. ready' \subseteq Notes /\ old' \subseteq Notes
    BY <1>2 DEF NoteDue, NoteAges, NoteTypes
  <2> QED
    BY <2>1, <2>2 DEF NoteTypes, NotesInv, Has
<1>3. CASE ProcessCrash
  <2>1. /\ noteQueue' = {} /\ ready' = {} /\ held' = [l \in Loops |-> Nothing]
        /\ UNCHANGED <<tries, old, arrived, forwarded>>
    BY <1>3 DEF ProcessCrash
  <2>2. \A l \in Loops : held'[l].todo = {} /\ held'[l].kept = {} /\ Has(l)' = {}
    BY <2>1 DEF Nothing, Has
  <2>3. Has("inbound")' \cap Has("retry")' = {}
    BY <2>2 DEF Loops
  <2>4. IsFiniteSet({}) /\ Cardinality({}) <= MaxNotes
    BY FS_EmptySet, DeliveryAssumption
  <2>5. NotesInv'
    BY <2>1, <2>2, <2>3, <2>4 DEF NotesInv
  <2>6. held' \in [Loops -> [todo : SUBSET Notes, kept : SUBSET Notes]]
    BY <2>1 DEF Nothing
  <2> QED
    BY <2>1, <2>5, <2>6 DEF NoteTypes
<1> QED
  BY <1>1, <1>2, <1>3, NoteFrame, TakeNotes, ForwardNotes, RequeueNotes, NotifyNotes

-----------------------------------------------------------------------------
(* The inductive invariant *)

LEMMA DeliveryInitInv == DeliveryInit => DeliveryInv
<1> SUFFICES ASSUME DeliveryInit PROVE DeliveryInv
  OBVIOUS
<1>1. RowTypes /\ LoopTypes
  BY DEF DeliveryInit, RowTypes, LoopTypes, InboundState, RetryState
<1>2. WorkerTypes
  <2>1. <<>> \in Seq(Commands)
    OBVIOUS
  <2> QED
    BY <2>1, WaitingState DEF DeliveryInit, WorkerTypes
<1>3. NoteTypes
  <2>1. 0 \in 0 .. MaxForwards
    BY DeliveryAssumption
  <2> QED
    BY <2>1 DEF DeliveryInit, NoteTypes, Nothing
<1>4. LoopsKnow /\ AckedKept
  BY DEF DeliveryInit, LoopsKnow, AckedKept
<1>5. CommandsAwaited /\ CommandsTrue
  <2>1. Len(commands) = 0 /\ worker.pc = "idle"
    BY WaitingState DEF DeliveryInit
  <2> QED
    BY <2>1 DEF CommandsAwaited, CommandsTrue
<1>6. FlushCovers /\ ReceiptsKept /\ ReceiptsTrue
  BY WaitingState DEF DeliveryInit, FlushCovers, ReceiptsKept, ReceiptsTrue
<1>7. NotesInv
  <2>1. \A l \in Loops : held[l].todo = {} /\ held[l].kept = {} /\ Has(l) = {}
    BY DEF DeliveryInit, Nothing, Has
  <2>2. Has("inbound") \cap Has("retry") = {}
    BY <2>1 DEF Loops
  <2>3. IsFiniteSet({}) /\ Cardinality({}) <= MaxNotes
    BY FS_EmptySet, DeliveryAssumption
  <2> QED
    BY <2>1, <2>2, <2>3 DEF DeliveryInit, NotesInv
<1> QED
  BY <1>1, <1>2, <1>3, <1>4, <1>5, <1>6, <1>7 DEF DeliveryInv

LEMMA DeliveryInvNext == DeliveryInv /\ [DeliveryNext]_deliveryVars => DeliveryInv'
<1>1. ASSUME DeliveryInv, DeliveryNext PROVE DeliveryInv'
  <2>1. RowsMove /\ LoopTypes' /\ LoopsKnow' /\ RowTypes' /\ AckedKept'
    BY <1>1, RowsStep, LoopsStep, AckedStep DEF DeliveryInv
  <2>2. CommandsInv'
    BY <1>1, CommandsStep DEF DeliveryInv
  <2>3. FileInv /\ CommandsInv
    BY <1>1 DEF DeliveryInv, WorkerTypes, FileInv, FileTypes, CommandsInv
  <2>4. FileInv' /\ ReceiptsTrue'
    BY <1>1, <2>1, <2>3, FileStep DEF DeliveryInv
  <2>5. NoteTypes' /\ NotesInv'
    BY <1>1, NotesStep DEF DeliveryInv
  <2> QED
    BY <2>1, <2>2, <2>4, <2>5 DEF DeliveryInv, WorkerTypes, CommandsInv, FileInv, FileTypes
<1>2. ASSUME DeliveryInv, UNCHANGED deliveryVars PROVE DeliveryInv'
  <2>1. RowTypes' /\ LoopTypes' /\ LoopsKnow' /\ AckedKept'
    BY <1>2 DEF deliveryVars, rows, loops, messageHistory, DeliveryInv, RowTypes, LoopTypes, LoopsKnow,
       AckedKept, Kept, Resolved
  <2>2. WorkerTypes' /\ CommandsAwaited' /\ CommandsTrue' /\ FlushCovers' /\ ReceiptsKept' /\ ReceiptsTrue'
    BY <1>2 DEF deliveryVars, loops, receipts, messageHistory, DeliveryInv, WorkerTypes, CommandsAwaited,
       CommandsTrue, Truthful, FlushCovers, ReceiptsKept, ReceiptsTrue
  <2>3. NoteTypes' /\ NotesInv'
    BY <1>2 DEF deliveryVars, notes, DeliveryInv, NoteTypes, NotesInv, Has
  <2> QED
    BY <2>1, <2>2, <2>3 DEF DeliveryInv
<1> QED
  BY <1>1, <1>2

LEMMA DeliveryInductive == DeliverySpec => []DeliveryInv
  BY DeliveryInitInv, DeliveryInvNext, PTL DEF DeliverySpec

\* The tables, loops, receipts and notifications keep their types, and at most
\* two commands wait for the outbox worker: one of each loop.
THEOREM DeliveryTypeCorrect == DeliverySpec => []DeliveryTypeOK
<1>1. ASSUME DeliveryInv PROVE DeliveryTypeOK
  <2>1. Len(commands) <= 2
    BY <1>1, TwoCommands DEF DeliveryInv, WorkerTypes
  <2>2. /\ inbound.pc \in {"idle", "post", "persist", "ack", "receipt", "take", "forward"}
        /\ retry.pc \in {"idle", "flush", "list", "item", "delivered", "failed", "receipt", "take", "forward"}
        /\ retry.todo \subseteq Messages \X Nat
    BY <1>1 DEF DeliveryInv, LoopTypes, InboundState, RetryState
  <2>3. /\ worker.pc \in {"idle", "load", "post"} /\ worker.todo \cup worker.kept \subseteq Receipts
    BY <1>1 DEF DeliveryInv, WorkerTypes, WorkerState
  <2>4. \A l \in Loops : held[l].todo \cup held[l].kept \subseteq Notes
    BY <1>1, HeldTypes DEF DeliveryInv
  <2> QED
    BY <1>1, <2>1, <2>2, <2>3, <2>4 DEF DeliveryInv, RowTypes, WorkerTypes, NoteTypes, DeliveryTypeOK
<1> QED
  BY <1>1, DeliveryInductive, PTL

\* A message that the relay was told is accepted is in one of the two tables,
\* was taken by the webhook or was purged, whichever call of the store fails,
\* however the two loops overlap on it and wherever the process dies.
THEOREM DeliveryAckedKept == DeliverySpec => []AckedKept
<1>1. DeliveryInv => AckedKept
  BY DEF DeliveryInv
<1> QED
  BY <1>1, DeliveryInductive, PTL

\* A stored receipt stays in the file until the proxy has it, and tells what
\* happened to its message, for any number of messages, flushes and crashes.
THEOREM DeliveryReceipts == DeliverySpec => []ReceiptsMatch
<1>1. DeliveryInv => ReceiptsMatch
  BY DEF DeliveryInv, ReceiptsMatch
<1> QED
  BY <1>1, DeliveryInductive, PTL

\* Every notification is in one place, the ones forwarded in none, and the queue
\* keeps to its limit, however the two loops take and put back.
THEOREM DeliveryNotes == DeliverySpec => []NotesInOnePlace
<1>1. ASSUME DeliveryInv PROVE NotesInOnePlace
  <2>1. NotesInv /\ "inbound" \in Loops /\ "retry" \in Loops
    BY <1>1 DEF DeliveryInv, Loops
  <2> QED
    BY <2>1 DEF NotesInv, NotesInOnePlace, Has
<1> QED
  BY <1>1, DeliveryInductive, PTL
=============================================================================
