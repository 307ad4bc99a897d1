------------------------- MODULE RelaySessionProofs -------------------------
(* Theorems about RelaySession, for every value of its constants. *)
EXTENDS RelaySession, WellFoundedInduction, FiniteSetTheorems, TLAPS

\* Min picks the least element of a nonempty set of natural numbers, which is
\* what the code's schedulers compute with Math.min or a running minimum.
LEMMA MinOfNaturals ==
    ASSUME NEW S \in SUBSET Nat, S # {}
    PROVE  /\ Min(S) \in S
           /\ \A u \in S : Min(S) <= u
<1> DEFINE R == {ss \in Nat \X Nat : ss[1] < ss[2]}
<1>1. IsWellFoundedOn(R, Nat)
  BY NatLessThanWellFounded, Zenon DEF OpToRel
<1>2. PICK t \in S : \A u \in S : ~ (<<u, t>> \in R)
  <2> HIDE DEF R
  <2> QED BY <1>1, WFMin
<1>3. \A u \in S : ~ (u < t)
  BY <1>2
<1>4. \A u \in S : t <= u
  BY <1>3
<1> QED
  BY <1>4 DEF Min

-----------------------------------------------------------------------------
(* Lemmas about the operators on queue states and alarms *)

\* scheduleNextRelayAlarm sets a time that is not later than any of its
\* candidates, and none only when it has none.
LEMMA NextAlarmFacts ==
    ASSUME NEW q \in QueueState, NEW n \in Nat, NEW b \in BOOLEAN
    PROVE  /\ NextAlarm(q, n, b) \in Nat \cup {NoTime}
           /\ \A d \in q.deliveries :
                /\ NextAlarm(q, n, b) # NoTime
                /\ NextAlarm(q, n, b) <= (IF d.nextAttempt > n + 1 THEN d.nextAttempt ELSE n + 1)
<1> DEFINE times == WakeTimes(q, n, b)
<1>1. q.deliveries \in SUBSET Delivery
  BY DEF QueueState
<1>2. times \in SUBSET Nat
  BY <1>1, PolicyAssumption DEF WakeTimes, Delivery
<1>3. CASE times = {}
  BY <1>3 DEF NextAlarm, WakeTimes
<1>4. CASE times # {}
  <2>1. Min(times) \in times /\ \A u \in times : Min(times) <= u
    BY <1>2, <1>4, MinOfNaturals
  <2>2. NextAlarm(q, n, b) \in times /\ \A u \in times : NextAlarm(q, n, b) <= u
    BY <2>1, <1>4 DEF NextAlarm
  <2>3. \A d \in q.deliveries : (IF d.nextAttempt > n + 1 THEN d.nextAttempt ELSE n + 1) \in times
    BY DEF WakeTimes
  <2> QED
    BY <2>2, <2>3, <1>2 DEF NoTime
<1> QED
  BY <1>3, <1>4

\* The operations on queue states stay within QueueState.
LEMMA PruneType ==
    ASSUME NEW q \in QueueState, NEW n \in Nat
    PROVE  PruneExpired(q, n) \in QueueState
BY DEF PruneExpired, QueueState

\* upsertReceipt keeps a queue state well formed.
LEMMA UpsertType ==
    ASSUME NEW q \in QueueState, NEW r \in Requests, NEW receipt \in Receipt
    PROVE  UpsertReceipt(q, r, receipt) \in QueueState
BY DEF UpsertReceipt, QueueState

\* Removing a delivery with its queued receipt keeps a queue state well formed.
LEMMA DropType ==
    ASSUME NEW q \in QueueState, NEW d \in Delivery
    PROVE  DropDelivery(q, d) \in QueueState
BY DEF DropDelivery, DeleteQueuedReceipt, QueueState

\* Postponing the due entries yields well-formed deliveries.
LEMMA PostponeType ==
    ASSUME NEW D \in SUBSET Delivery, NEW n \in Nat, NEW delay \in DelayDraws(D)
    PROVE  Postpone(D, n, delay) \in SUBSET Delivery
<1>1. \A d \in D : delay[d] \in Nat
  BY PolicyAssumption DEF DelayDraws
<1>2. ASSUME NEW d \in D
      PROVE  [d EXCEPT !.nextAttempt = n + delay[d]] \in Delivery
  BY <1>1 DEF Delivery
<1> QED
  BY <1>2 DEF Postpone

\* An object without a stored queue starts from a well-formed one.
LEMMA EmptyType == EmptyQueue \in QueueState
BY DEF EmptyQueue, QueueState

\* A free coroutine slot is well formed.
LEMMA IdleType == Idle \in Coroutine
BY EmptyType DEF Idle, Coroutine, Ids

-----------------------------------------------------------------------------
(* Type correctness *)

\* The coroutine of a deliver call knows its delivery id, request and route.
TypeInv ==
    /\ TypeOK
    /\ \A p \in Procs : proc[p].kind = "deliver" =>
          proc[p].id \in Ids /\ proc[p].req \in Requests /\ proc[p].route \in Routes

\* Closing and touching sockets keeps the tracker and the sockets well formed.
LEMMA TrackerType ==
    ASSUME TypeOK, NEW n \in Nat, NEW close \in SUBSET Sockets, NEW touched,
           TrackerAfter(n, close, touched)
    PROVE  /\ sock' \in [Sockets -> {"none", "open", "closing"}]
           /\ lastAck' \in [Sockets -> Nat \cup {NoTime}]
           /\ pendingClose' \subseteq Sockets
BY DEF TypeOK, TrackerAfter

\* So does getActiveSockets, which closes the stale ones.
LEMMA SweepType ==
    ASSUME TypeOK, NEW n \in Nat, Sweep(n)
    PROVE  /\ sock' \in [Sockets -> {"none", "open", "closing"}]
           /\ lastAck' \in [Sockets -> Nat \cup {NoTime}]
           /\ pendingClose' \subseteq Sockets
<1>1. Stale(n) \in SUBSET Sockets
  BY DEF Stale, Listed
<1> QED
  BY <1>1, TrackerType DEF Sweep

\* A save followed by scheduling stores a queue state and a time.
LEMMA SaveType ==
    ASSUME TypeOK, NEW q \in QueueState, NEW n \in Nat, SaveAndSchedule(q, n)
    PROVE  /\ store' \in QueueState
           /\ alarm' \in Nat \cup {NoTime}
           /\ sock' \in [Sockets -> {"none", "open", "closing"}]
           /\ lastAck' \in [Sockets -> Nat \cup {NoTime}]
           /\ pendingClose' \subseteq Sockets
<1>1. NextAlarm(q, n, Active(n) # {}) \in Nat \cup {NoTime}
  BY NextAlarmFacts
<1> QED
  BY <1>1, SweepType DEF SaveAndSchedule

\* scheduleFromStorage, which ends each socket handler, does so too.
LEMMA ScheduleType ==
    ASSUME TypeOK, NEW close \in SUBSET Sockets, NEW touched,
           ScheduleFromStorage(close, touched)
    PROVE  /\ store' \in QueueState
           /\ alarm' \in Nat \cup {NoTime}
           /\ sock' \in [Sockets -> {"none", "open", "closing"}]
           /\ lastAck' \in [Sockets -> Nat \cup {NoTime}]
           /\ pendingClose' \subseteq Sockets
<1> DEFINE stale == Stale(now) \ (close \cup touched)
<1>0. now \in Nat /\ store \in QueueState
  BY DEF TypeOK
<1>1. PruneExpired(store, now) \in QueueState
  BY <1>0, PruneType
<1>2. \A b \in BOOLEAN : NextAlarm(PruneExpired(store, now), now, b) \in Nat \cup {NoTime}
  BY <1>0, <1>1, NextAlarmFacts
<1>3. close \cup stale \in SUBSET Sockets
  BY DEF Stale, Listed
<1>4. TrackerAfter(now, close \cup stale, touched)
  BY DEF ScheduleFromStorage
<1> QED
  BY <1>0, <1>1, <1>2, <1>3, <1>4, TrackerType DEF ScheduleFromStorage

\* The type invariant holds initially.
LEMMA TypeInit == Init => TypeInv
<1> SUFFICES ASSUME Init PROVE TypeInv
  OBVIOUS
<1>1. \A p \in Procs : proc[p] = Idle /\ proc[p].kind = "idle"
  BY DEF Init, Idle
<1>2. TypeOK
  BY EmptyType, IdleType, BoundAssumption DEF Init, TypeOK, Ids
<1> QED
  BY <1>1, <1>2 DEF TypeInv

\* Every step changes at most one coroutine, to a well-typed one.
LEMMA CoroutineUpdate ==
    ASSUME TypeInv, NEW p \in Procs, NEW c \in Coroutine,
           proc' = [proc EXCEPT ![p] = c],
           c.kind = "deliver" => c.id \in Ids /\ c.req \in Requests /\ c.route \in Routes
    PROVE  /\ proc' \in [Procs -> Coroutine]
           /\ \A o \in Procs : proc'[o].kind = "deliver" =>
                 proc'[o].id \in Ids /\ proc'[o].req \in Requests /\ proc'[o].route \in Routes
BY DEF TypeInv, TypeOK

\* sendDeliverFrame leaves a well-typed coroutine, waiting or in error.
LEMMA SendType ==
    ASSUME TypeInv, NEW p \in Procs, NEW s \in Sockets \cup {None}, NEW group \in BOOLEAN,
           NEW next \in Coroutine,
           next.kind = "deliver" =>
             next.id \in Ids /\ next.req \in Requests /\ next.route \in Routes,
           SendDeliverFrame(p, s, next, group)
    PROVE  /\ proc' \in [Procs -> Coroutine]
           /\ \A o \in Procs : proc'[o].kind = "deliver" =>
                 proc'[o].id \in Ids /\ proc'[o].req \in Requests /\ proc'[o].route \in Routes
<1> DEFINE waits == [next EXCEPT !.phase = "await", !.sock = s, !.group = group]
<1> DEFINE fails == [next EXCEPT !.outcome = "error"]
<1>1. waits \in Coroutine
  BY DEF Coroutine
<1>2. fails \in Coroutine
  BY DEF Coroutine
<1>3. /\ waits.kind = next.kind /\ fails.kind = next.kind
      /\ waits.id = next.id /\ fails.id = next.id
      /\ waits.req = next.req /\ fails.req = next.req
      /\ waits.route = next.route /\ fails.route = next.route
  BY DEF Coroutine
<1>4. proc' = [proc EXCEPT ![p] = waits] \/ proc' = [proc EXCEPT ![p] = fails]
  BY DEF SendDeliverFrame
<1> HIDE DEF waits, fails
<1> QED
  BY <1>1, <1>2, <1>3, <1>4, CoroutineUpdate

\* Entering processQueueDeliveries gives a well-formed coroutine.
LEMMA EnterLoopType ==
    ASSUME TypeInv, NEW p \in Procs, NEW start \in Coroutine, start.kind \in {"alarm", "drain"},
           NEW q \in QueueState, NEW act \in SUBSET Sockets, NEW mutated \in BOOLEAN,
           EnterLoop(p, start, q, act, mutated)
    PROVE  /\ proc' \in [Procs -> Coroutine]
           /\ \A o \in Procs : proc'[o].kind = "deliver" =>
                 proc'[o].id \in Ids /\ proc'[o].req \in Requests /\ proc'[o].route \in Routes
<1>1. CASE /\ q.deliveries = {} \/ act # {}
           /\ \E s \in (IF act = {} THEN {None} ELSE act) :
                 proc' = [proc EXCEPT ![p] = [start EXCEPT !.q = q, !.todo = q.deliveries,
                                                   !.sock = s, !.mutated = mutated]]
  <2>1. PICK s \in Sockets \cup {None} :
          proc' = [proc EXCEPT ![p] = [start EXCEPT !.q = q, !.todo = q.deliveries,
                                             !.sock = s, !.mutated = mutated]]
    BY <1>1
  <2>2. /\ [start EXCEPT !.q = q, !.todo = q.deliveries, !.sock = s, !.mutated = mutated]
              \in Coroutine
        /\ [start EXCEPT !.q = q, !.todo = q.deliveries, !.sock = s, !.mutated = mutated].kind
              # "deliver"
    BY DEF Coroutine, QueueState
  <2> QED
    BY <2>1, <2>2, CoroutineUpdate
<1>2. CASE \E delay \in DelayDraws(q.deliveries) :
             proc' = [proc EXCEPT ![p] = [start EXCEPT
                        !.q = [q EXCEPT !.deliveries = Postpone(@, start.n, delay)],
                        !.mutated = mutated \/ Due(q.deliveries, start.n) # {}]]
  <2>1. PICK delay \in DelayDraws(q.deliveries) :
             proc' = [proc EXCEPT ![p] = [start EXCEPT
                        !.q = [q EXCEPT !.deliveries = Postpone(@, start.n, delay)],
                        !.mutated = mutated \/ Due(q.deliveries, start.n) # {}]]
    BY <1>2
  <2>2. Postpone(q.deliveries, start.n, delay) \in SUBSET Delivery
    BY PostponeType DEF QueueState, Coroutine
  <2>3. [q EXCEPT !.deliveries = Postpone(@, start.n, delay)] \in QueueState
    BY <2>2 DEF QueueState
  <2> DEFINE c == [start EXCEPT
                        !.q = [q EXCEPT !.deliveries = Postpone(@, start.n, delay)],
                        !.mutated = mutated \/ Due(q.deliveries, start.n) # {}]
  <2>4. c \in Coroutine /\ c.kind # "deliver"
    BY <2>3 DEF Coroutine
  <2> QED
    BY <2>1, <2>4, CoroutineUpdate
<1> QED
  BY <1>1, <1>2 DEF EnterLoop

\* The handlers that start a coroutine.
LEMMA TypeDeliver ==
    ASSUME TypeInv, NEW p \in Procs, NEW r \in Inbound, NEW route \in Routes,
           Deliver(p, r, route)
    PROVE  TypeInv'
<1> DEFINE start == [Idle EXCEPT !.kind = "deliver", !.phase = "run", !.n = now,
                                 !.q = PruneExpired(store, now), !.id = nextId,
                                 !.req = r, !.route = route]
<1> DEFINE tried == [start EXCEPT !.attempts = 1]
<1> DEFINE unsent == [start EXCEPT !.outcome = "refused"]
<1>0. now \in Nat /\ store \in QueueState /\ nextId \in Nat /\ nextId >= 1 /\ MaxDeliveries \in Nat
  BY BoundAssumption DEF TypeInv, TypeOK
<1>1. store' \in QueueState
  BY <1>0, PruneType DEF Deliver
<1>2. /\ sock' \in [Sockets -> {"none", "open", "closing"}]
      /\ lastAck' \in [Sockets -> Nat \cup {NoTime}]
      /\ pendingClose' \subseteq Sockets
  BY <1>0, SweepType DEF Deliver, TypeInv
<1>3. nextId' \in 1 .. (MaxDeliveries + 1)
  BY <1>0 DEF Deliver, TypeInv, TypeOK
<1>4. /\ proc' \in [Procs -> Coroutine]
      /\ \A o \in Procs : proc'[o].kind = "deliver" =>
            proc'[o].id \in Ids /\ proc'[o].req \in Requests /\ proc'[o].route \in Routes
  <2>1. CASE UNCHANGED proc
    BY <2>1 DEF TypeInv, TypeOK
  <2>2. CASE nextId <= MaxDeliveries
    <3>1. nextId \in Ids /\ r \in Requests
      BY <1>0, <2>2 DEF Ids, Requests
    <3>2. start \in Coroutine
      BY <1>0, <3>1, IdleType, PruneType DEF Coroutine
    <3>3. tried \in Coroutine
      BY <3>2 DEF Coroutine
    <3>4. unsent \in Coroutine
      BY <3>2 DEF Coroutine
    <3>5. /\ tried.id = nextId /\ tried.req = r /\ tried.route = route
          /\ unsent.id = nextId /\ unsent.req = r /\ unsent.route = route
      BY DEF Idle
    <3>6. (r \in GroupRequests) \in BOOLEAN
      OBVIOUS
    <3>7. \/ UNCHANGED proc
          \/ \E s \in Active(now) : SendDeliverFrame(p, s, tried, r \in GroupRequests)
          \/ proc' = [proc EXCEPT ![p] = unsent]
      BY DEF Deliver
    <3>8. Active(now) \subseteq Sockets \cup {None}
      BY DEF Active, Listed
    <3> HIDE DEF start, tried, unsent
    <3>9. CASE \E s \in Active(now) : SendDeliverFrame(p, s, tried, r \in GroupRequests)
      BY <3>1, <3>3, <3>5, <3>6, <3>8, <3>9, SendType
    <3>10. CASE proc' = [proc EXCEPT ![p] = unsent]
      BY <3>1, <3>4, <3>5, <3>10, CoroutineUpdate
    <3> QED
      BY <2>1, <3>7, <3>9, <3>10
  <2> QED
    BY <2>1, <2>2 DEF Deliver
<1> QED
  BY <1>1, <1>2, <1>3, <1>4 DEF Deliver, history, TypeInv, TypeOK

\* The coroutine an alarm or a reconnect starts from is well formed.
LEMMA LoopStartType ==
    ASSUME now \in Nat, NEW kind \in {"alarm", "drain"}
    PROVE  /\ LoopStart(kind) \in Coroutine
           /\ LoopStart(kind).kind = kind
           /\ LoopStart(kind).n = now
<1>1. LoopStart(kind) \in Coroutine
  BY IdleType DEF LoopStart, Coroutine
<1> QED
  BY <1>1 DEF LoopStart, Idle

\* alarm keeps the types.
LEMMA TypeAlarm ==
    ASSUME TypeInv, NEW p \in Procs, Alarm(p)
    PROVE  TypeInv'
<1> DEFINE q == PruneExpired(store, now)
<1> DEFINE dead == {s \in Active(now) : sock[s] # "open"}
<1>0. now \in Nat /\ store \in QueueState
  BY DEF TypeInv, TypeOK
<1>1. q \in QueueState
  BY <1>0, PruneType
<1>2. Stale(now) \cup dead \in SUBSET Sockets /\ Active(now) \ dead \in SUBSET Sockets
  BY DEF Stale, Active, Listed
<1>3. /\ sock' \in [Sockets -> {"none", "open", "closing"}]
      /\ lastAck' \in [Sockets -> Nat \cup {NoTime}]
      /\ pendingClose' \subseteq Sockets
  BY <1>0, <1>2, TrackerType DEF Alarm, TypeInv
<1>4. EnterLoop(p, LoopStart("alarm"), q, Active(now) \ dead, FALSE)
  BY DEF Alarm
<1>5. /\ proc' \in [Procs -> Coroutine]
      /\ \A o \in Procs : proc'[o].kind = "deliver" =>
            proc'[o].id \in Ids /\ proc'[o].req \in Requests /\ proc'[o].route \in Routes
  <2> HIDE DEF q, dead
  <2> QED BY <1>0, <1>1, <1>2, <1>4, LoopStartType, EnterLoopType
<1> QED
  BY <1>1, <1>3, <1>5 DEF Alarm, history, TypeInv, TypeOK, NoTime

\* handleConnect with the drain it starts keeps the types.
LEMMA TypeConnect ==
    ASSUME TypeInv, NEW p \in Procs, NEW s \in Sockets, Connect(p, s)
    PROVE  TypeInv'
<1> DEFINE loaded == PruneExpired(store, now)
<1> DEFINE q == [loaded EXCEPT !.deliveries =
                  {IF d.nextAttempt > now THEN [d EXCEPT !.nextAttempt = now] ELSE d : d \in @}]
<1>0. now \in Nat /\ store \in QueueState
  BY DEF TypeInv, TypeOK
<1>1. loaded \in QueueState
  BY <1>0, PruneType
<1>2. q \in QueueState
  <2>1. \A d \in Delivery : [d EXCEPT !.nextAttempt = now] \in Delivery
    BY <1>0 DEF Delivery
  <2> HIDE DEF loaded
  <2>2. {IF d.nextAttempt > now THEN [d EXCEPT !.nextAttempt = now] ELSE d :
            d \in loaded.deliveries} \in SUBSET Delivery
    BY <1>1, <2>1 DEF QueueState
  <2> QED
    BY <1>1, <2>2 DEF QueueState
<1>3. /\ sock' \in [Sockets -> {"none", "open", "closing"}]
      /\ lastAck' \in [Sockets -> Nat \cup {NoTime}]
      /\ pendingClose' \subseteq Sockets
  BY <1>0 DEF Connect, TypeInv, TypeOK, Stale, Active, Listed
<1>4. EnterLoop(p, LoopStart("drain"), q, {s}, q # loaded)
  BY DEF Connect
<1>5. /\ proc' \in [Procs -> Coroutine]
      /\ \A o \in Procs : proc'[o].kind = "deliver" =>
            proc'[o].id \in Ids /\ proc'[o].req \in Requests /\ proc'[o].route \in Routes
  <2>1. (q # loaded) \in BOOLEAN
    OBVIOUS
  <2> HIDE DEF q, loaded
  <2> QED BY <1>0, <1>2, <1>4, <2>1, LoopStartType, EnterLoopType
<1> QED
  BY <1>1, <1>3, <1>5 DEF Connect, history, TypeInv, TypeOK

\* The RPCs that never wait.
LEMMA TypeRecord ==
    ASSUME TypeInv, NEW r \in Outbound, NEW route \in Routes, NEW status \in TerminalStates,
           RecordReceipt(r, route, status)
    PROVE  TypeInv'
<1> DEFINE q == PruneExpired(store, now)
<1> DEFINE id == IF q.receipts[r] = NoReceipt THEN 0 ELSE q.receipts[r].id
<1> DEFINE receipt == [state |-> status, id |-> id, route |-> route, expiresAt |-> now + QueueTtl]
<1>0. now \in Nat /\ store \in QueueState
  BY DEF TypeInv, TypeOK
<1>1. q \in QueueState
  BY <1>0, PruneType
<1>2. receipt \in Receipt
  <2> HIDE DEF q
  <2>1. q.receipts[r] \in Receipt \cup {NoReceipt}
    BY <1>1 DEF QueueState, Requests
  <2>2. id \in Ids \cup {0}
    BY <2>1 DEF Receipt
  <2> HIDE DEF id
  <2> QED BY <1>0, <2>2, PolicyAssumption DEF Receipt, TerminalStates
<1>3. UpsertReceipt(q, r, receipt) \in QueueState
  BY <1>1, <1>2, UpsertType DEF Requests
<1>4. \/ store' = q /\ UNCHANGED <<alarm, tracker>>
      \/ SaveAndSchedule(UpsertReceipt(q, r, receipt), now)
  BY DEF RecordReceipt
<1> HIDE DEF q, receipt
<1>5. TypeOK
  BY DEF TypeInv
<1>6. CASE store' = q /\ UNCHANGED <<alarm, tracker>>
  BY <1>1, <1>6 DEF RecordReceipt, tracker, history, TypeInv, TypeOK
<1>7. CASE SaveAndSchedule(UpsertReceipt(q, r, receipt), now)
  BY <1>0, <1>3, <1>5, <1>7, SaveType DEF RecordReceipt, history, TypeInv, TypeOK
<1> QED
  BY <1>4, <1>6, <1>7

\* getDeliveryReceipt, which may save what it pruned, keeps the types.
LEMMA TypeGet ==
    ASSUME TypeInv, GetReceipt
    PROVE  TypeInv'
BY PruneType DEF GetReceipt, tracker, history, TypeInv, TypeOK

\* The steps of the loop.
LEMMA TypeSkip ==
    ASSUME TypeInv, NEW p \in Procs, NEW d, LoopSkip(p, d)
    PROVE  TypeInv'
<1> DEFINE c == proc[p]
<1> DEFINE q == IF MustDrop(d, c.n) THEN DropDelivery(c.q, d) ELSE c.q
<1> DEFINE m == c.mutated \/ MustDrop(d, c.n)
<1> DEFINE next == [c EXCEPT !.todo = @ \ {d}, !.q = q, !.mutated = m]
<1>1. c \in Coroutine /\ c.kind \in {"alarm", "drain"}
  BY DEF TypeInv, TypeOK, LoopSkip, InLoop
<1>2. d \in Delivery /\ c.q \in QueueState
  BY <1>1 DEF LoopSkip, NextEntry, Coroutine
<1>3. q \in QueueState
  BY <1>2, DropType
<1>4. proc' = [proc EXCEPT ![p] = next]
  BY DEF LoopSkip
<1> HIDE DEF q
<1>5. m \in BOOLEAN
  BY <1>1 DEF Coroutine, MustDrop
<1> HIDE DEF m
<1>6. next \in Coroutine
  BY <1>1, <1>3, <1>5 DEF Coroutine
<1>7. next.kind # "deliver"
  BY <1>1 DEF Coroutine
<1> HIDE DEF next
<1>8. proc' \in [Procs -> Coroutine] /\ \A o \in Procs : proc'[o].kind = "deliver" =>
         proc'[o].id \in Ids /\ proc'[o].req \in Requests /\ proc'[o].route \in Routes
  BY <1>4, <1>6, <1>7, CoroutineUpdate
<1> QED
  BY <1>8 DEF LoopSkip, durable, tracker, history, TypeInv, TypeOK

\* Sending a queued entry keeps the types.
LEMMA TypeSend ==
    ASSUME TypeInv, NEW p \in Procs, NEW d, LoopSend(p, d)
    PROVE  TypeInv'
<1> DEFINE c == proc[p]
<1> DEFINE next == [c EXCEPT !.todo = @ \ {d}, !.cur = {d}, !.req = d.req]
<1>1. c \in Coroutine /\ c.kind \in {"alarm", "drain"}
  BY DEF TypeInv, TypeOK, LoopSend, InLoop
<1>2. d \in Delivery /\ c.sock \in Sockets \cup {None}
  BY <1>1 DEF LoopSend, NextEntry, Coroutine
<1>3. d.req \in Requests /\ d.group \in BOOLEAN
  BY <1>2 DEF Delivery
<1>4. next \in Coroutine
  BY <1>1, <1>2, <1>3 DEF Coroutine
<1>5. next.kind # "deliver"
  BY <1>1 DEF Coroutine
<1>6. SendDeliverFrame(p, c.sock, next, d.group)
  BY DEF LoopSend
<1> HIDE DEF next, c
<1>7. proc' \in [Procs -> Coroutine] /\ \A o \in Procs : proc'[o].kind = "deliver" =>
         proc'[o].id \in Ids /\ proc'[o].req \in Requests /\ proc'[o].route \in Routes
  BY <1>2, <1>3, <1>4, <1>5, <1>6, SendType
<1> QED
  BY <1>7 DEF LoopSend, durable, tracker, history, TypeInv, TypeOK

\* A coroutine of the loop that goes on with queue q, and the rest of todo.
LEMMA LoopContinues ==
    ASSUME TypeInv, NEW p \in Procs, NEW q \in QueueState,
           proc[p].kind \in {"alarm", "drain"}, NEW todo \in SUBSET Delivery
    PROVE  /\ Continue(proc[p], q, todo) \in Coroutine
           /\ Continue(proc[p], q, todo).kind # "deliver"
<1>1. proc[p] \in Coroutine
  BY DEF TypeInv, TypeOK
<1>2. Continue(proc[p], q, todo) \in Coroutine
  BY <1>1 DEF Continue, Coroutine
<1>3. Continue(proc[p], q, todo).kind # "deliver"
  BY <1>1 DEF Continue, Coroutine
<1> QED
  BY <1>2, <1>3

\* An accepted entry leaves the copy and its receipt changes: types are kept.
LEMMA TypeAccepted ==
    ASSUME TypeInv, NEW p \in Procs, NEW d, LoopAccepted(p, d)
    PROVE  TypeInv'
<1> DEFINE c == proc[p]
<1> DEFINE receipt == [state |-> "delivered", id |-> d.id, route |-> d.route,
                       expiresAt |-> c.n + QueueTtl]
<1> DEFINE removed == [c.q EXCEPT !.deliveries = @ \ {d}]
<1> DEFINE q == UpsertReceipt(removed, d.req, receipt)
<1>1. c \in Coroutine /\ c.kind \in {"alarm", "drain"}
  BY DEF TypeInv, TypeOK, LoopAccepted, InLoop
<1>2. d \in Delivery /\ c.q \in QueueState /\ c.n \in Nat /\ c.todo \in SUBSET Delivery
  BY <1>1 DEF LoopAccepted, Coroutine
<1>3. receipt \in Receipt /\ d.req \in Requests /\ d.id \in Ids
  BY <1>2, PolicyAssumption DEF Receipt, Delivery
<1>4. removed \in QueueState
  BY <1>2 DEF QueueState
<1>5. q \in QueueState
  BY <1>3, <1>4, UpsertType
<1>6. proc' = [proc EXCEPT ![p] = Continue(c, q, c.todo)]
  BY DEF LoopAccepted
<1> HIDE DEF q
<1>7. proc' \in [Procs -> Coroutine] /\ \A o \in Procs : proc'[o].kind = "deliver" =>
         proc'[o].id \in Ids /\ proc'[o].req \in Requests /\ proc'[o].route \in Routes
  BY <1>1, <1>2, <1>5, <1>6, LoopContinues, CoroutineUpdate
<1> QED
  BY <1>3, <1>7 DEF LoopAccepted, durable, tracker, TypeInv, TypeOK

\* Dropping an entry after its last attempt keeps the types.
LEMMA TypeExhausted ==
    ASSUME TypeInv, NEW p \in Procs, NEW d, LoopExhausted(p, d)
    PROVE  TypeInv'
<1> DEFINE c == proc[p]
<1> DEFINE q == DropDelivery(c.q, d)
<1>1. c \in Coroutine /\ c.kind \in {"alarm", "drain"}
  BY DEF TypeInv, TypeOK, LoopExhausted, InLoop
<1>2. d \in Delivery /\ c.q \in QueueState /\ c.todo \in SUBSET Delivery
  BY <1>1 DEF LoopExhausted, Coroutine
<1>3. d.id \in Ids
  BY <1>2 DEF Delivery
<1>5. q \in QueueState
  BY <1>2, DropType
<1>6. proc' = [proc EXCEPT ![p] = Continue(c, q, c.todo)]
  BY DEF LoopExhausted
<1> HIDE DEF q
<1>7. proc' \in [Procs -> Coroutine] /\ \A o \in Procs : proc'[o].kind = "deliver" =>
         proc'[o].id \in Ids /\ proc'[o].req \in Requests /\ proc'[o].route \in Routes
  BY <1>1, <1>2, <1>5, <1>6, LoopContinues, CoroutineUpdate
<1> QED
  BY <1>3, <1>7 DEF LoopExhausted, durable, tracker, TypeInv, TypeOK

\* Rescheduling an entry, and postponing the rest after an error, keeps the types.
LEMMA TypeRetry ==
    ASSUME TypeInv, NEW p \in Procs, NEW d, LoopRetry(p, d)
    PROVE  TypeInv'
<1> DEFINE c == proc[p]
<1> DEFINE retried(w) == [d EXCEPT !.attempts = @ + 1, !.nextAttempt = c.n + w]
<1> DEFINE q(w) == ReplaceDelivery(c.q, d, retried(w))
<1>1. c \in Coroutine /\ c.kind \in {"alarm", "drain"}
  BY DEF TypeInv, TypeOK, LoopRetry, InLoop
<1>2. d \in Delivery /\ c.q \in QueueState /\ c.n \in Nat /\ c.todo \in SUBSET Delivery
  BY <1>1 DEF LoopRetry, Coroutine
<1>3. PICK w \in RetryDelays(d.attempts + 1) :
        \/ proc' = [proc EXCEPT ![p] = Continue(c, q(w), c.todo)]
        \/ \E delay \in DelayDraws(c.todo) :
             proc' = [proc EXCEPT ![p] = Continue(c,
                [q(w) EXCEPT !.deliveries = (@ \ c.todo) \cup Postpone(c.todo, c.n, delay)], {})]
  BY DEF LoopRetry
<1>4. w \in Nat
  BY PolicyAssumption DEF RetryDelays
<1>5. retried(w) \in Delivery
  <2>1. c.n + w \in Nat /\ d.attempts + 1 \in Nat
    BY <1>2, <1>4 DEF Delivery
  <2>2. \A x, y \in Nat : [d EXCEPT !.attempts = x, !.nextAttempt = y] \in Delivery
    BY <1>2 DEF Delivery
  <2>3. retried(w) = [d EXCEPT !.attempts = d.attempts + 1, !.nextAttempt = c.n + w]
    BY <1>2 DEF Delivery
  <2> QED
    BY <2>1, <2>2, <2>3
<1>6. q(w) \in QueueState
  <2> HIDE DEF retried
  <2> QED BY <1>2, <1>5 DEF ReplaceDelivery, QueueState
<1> HIDE DEF q
<1>7. proc' \in [Procs -> Coroutine] /\ \A o \in Procs : proc'[o].kind = "deliver" =>
         proc'[o].id \in Ids /\ proc'[o].req \in Requests /\ proc'[o].route \in Routes
  <2>1. CASE proc' = [proc EXCEPT ![p] = Continue(c, q(w), c.todo)]
    BY <1>1, <1>2, <1>6, <2>1, LoopContinues, CoroutineUpdate
  <2>2. CASE \E delay \in DelayDraws(c.todo) :
             proc' = [proc EXCEPT ![p] = Continue(c,
                [q(w) EXCEPT !.deliveries = (@ \ c.todo) \cup Postpone(c.todo, c.n, delay)], {})]
    <3>1. PICK delay \in DelayDraws(c.todo) :
             proc' = [proc EXCEPT ![p] = Continue(c,
                [q(w) EXCEPT !.deliveries = (@ \ c.todo) \cup Postpone(c.todo, c.n, delay)], {})]
      BY <2>2
    <3>2. Postpone(c.todo, c.n, delay) \in SUBSET Delivery
      BY <1>2, PostponeType
    <3>3. [q(w) EXCEPT !.deliveries = (@ \ c.todo) \cup Postpone(c.todo, c.n, delay)]
            \in QueueState
      BY <1>6, <3>2 DEF QueueState
    <3>4. {} \in SUBSET Delivery
      OBVIOUS
    <3> QED
      BY <1>1, <3>1, <3>3, <3>4, LoopContinues, CoroutineUpdate
  <2> QED
    BY <1>3, <2>1, <2>2
<1> QED
  BY <1>7 DEF LoopRetry, durable, tracker, history, TypeInv, TypeOK

\* A coroutine that ends leaves its slot idle.
LEMMA SlotFreed ==
    ASSUME TypeInv, NEW p \in Procs, proc' = [proc EXCEPT ![p] = Idle]
    PROVE  proc' \in [Procs -> Coroutine] /\ \A o \in Procs : proc'[o].kind = "deliver" =>
             proc'[o].id \in Ids /\ proc'[o].req \in Requests /\ proc'[o].route \in Routes
<1>1. Idle.kind # "deliver"
  BY DEF Idle
<1> QED
  BY <1>1, IdleType, CoroutineUpdate

\* The save and the alarm at the end of the loop keep the types.
LEMMA TypeLoopEnd ==
    ASSUME TypeInv, NEW p \in Procs, LoopEnd(p)
    PROVE  TypeInv'
<1> DEFINE c == proc[p]
<1>1. TypeOK /\ c.q \in QueueState /\ c.n \in Nat /\ store \in QueueState
  BY DEF TypeInv, TypeOK, Coroutine
<1>2. NextAlarm(c.q, c.n, Active(c.n) # {}) \in Nat \cup {NoTime}
  BY <1>1, NextAlarmFacts
<1>3. Sweep(c.n)
  BY DEF LoopEnd
<1>4. /\ sock' \in [Sockets -> {"none", "open", "closing"}]
      /\ lastAck' \in [Sockets -> Nat \cup {NoTime}]
      /\ pendingClose' \subseteq Sockets
  BY <1>1, <1>3, SweepType
<1>5. store' \in QueueState /\ alarm' \in Nat \cup {NoTime}
  BY <1>1, <1>2 DEF LoopEnd
<1>6. proc' = [proc EXCEPT ![p] = Idle]
  BY DEF LoopEnd
<1> QED
  BY <1>4, <1>5, <1>6, SlotFreed DEF LoopEnd, history, TypeInv, TypeOK

\* The answers of deliverToConnector.
LEMMA TypeAnswer ==
    ASSUME TypeInv, NEW p \in Procs, proc[p].kind = "deliver",
           NEW outcome \in {"queued", "delivered", "failed"}, Answer(p, outcome)
    PROVE  /\ told' \in [Ids -> [outcome : {"none", "queued", "delivered", "failed"},
                                 expiresAt : Nat]]
           /\ proc' \in [Procs -> Coroutine]
           /\ \A o \in Procs : proc'[o].kind = "deliver" =>
                 proc'[o].id \in Ids /\ proc'[o].req \in Requests /\ proc'[o].route \in Routes
<1>1. proc[p].n \in Nat /\ proc[p].id \in Ids
  BY DEF TypeInv, TypeOK, Coroutine
<1>2. proc' = [proc EXCEPT ![p] = Idle]
  BY DEF Answer
<1>3. [outcome |-> outcome,
       expiresAt |-> IF outcome = "queued" THEN proc[p].n + QueueTtl ELSE 0]
         \in [outcome : {"none", "queued", "delivered", "failed"}, expiresAt : Nat]
  BY <1>1, PolicyAssumption
<1>4. told' \in [Ids -> [outcome : {"none", "queued", "delivered", "failed"}, expiresAt : Nat]]
  BY <1>3 DEF Answer, TypeInv, TypeOK
<1> QED
  BY <1>2, <1>4, SlotFreed

\* The receipt deliverToConnector writes is well formed.
LEMMA ReceiptForType ==
    ASSUME TypeInv, NEW p \in Procs, proc[p].kind = "deliver", NEW state \in {"queued", "delivered"}
    PROVE  ReceiptFor(p, state) \in Receipt
<1>1. proc[p].n \in Nat /\ proc[p].id \in Ids /\ proc[p].route \in Routes
  BY DEF TypeInv, TypeOK, Coroutine
<1> QED
  BY <1>1, PolicyAssumption DEF ReceiptFor, Receipt

\* A delivery that was accepted at once keeps the types.
LEMMA TypeDeliverAccepted ==
    ASSUME TypeInv, NEW p \in Procs, DeliverAccepted(p)
    PROVE  TypeInv'
<1> DEFINE c == proc[p]
<1>1. TypeOK /\ c.kind = "deliver" /\ c.q \in QueueState /\ c.n \in Nat /\ c.req \in Requests
  BY DEF DeliverAccepted, Resumed, TypeInv, TypeOK, Coroutine
<1>2. UpsertReceipt(c.q, c.req, ReceiptFor(p, "delivered")) \in QueueState
  BY <1>1, ReceiptForType, UpsertType
<1>3. SaveAndSchedule(UpsertReceipt(c.q, c.req, ReceiptFor(p, "delivered")), c.n)
  BY DEF DeliverAccepted
<1>4. Answer(p, "delivered")
  BY DEF DeliverAccepted
<1> QED
  BY <1>1, <1>2, <1>3, <1>4, SaveType, TypeAnswer DEF DeliverAccepted, TypeInv, TypeOK

\* A delivery that is refused for lack of attempts or room keeps the types.
LEMMA TypeDeliverRejected ==
    ASSUME TypeInv, NEW p \in Procs, DeliverRejected(p)
    PROVE  TypeInv'
<1>1. proc[p].kind = "deliver" /\ Answer(p, "failed")
  BY DEF DeliverRejected, Resumed
<1> QED
  BY <1>1, TypeAnswer DEF DeliverRejected, durable, tracker, TypeInv, TypeOK

\* A delivery that is queued keeps the types.
LEMMA TypeDeliverQueued ==
    ASSUME TypeInv, NEW p \in Procs, DeliverQueued(p)
    PROVE  TypeInv'
<1> DEFINE c == proc[p]
<1> DEFINE q(w) == UpsertReceipt([c.q EXCEPT !.deliveries = @ \cup {QueuedEntry(p, w)}],
                                 c.req, ReceiptFor(p, "queued"))
<1>1. /\ TypeOK /\ c.kind = "deliver" /\ c.q \in QueueState /\ c.n \in Nat
      /\ c.req \in Requests /\ c.id \in Ids /\ c.route \in Routes /\ c.attempts \in Nat
  BY DEF DeliverQueued, Resumed, TypeInv, TypeOK, Coroutine
<1>2. PICK w \in RetryDelays(c.attempts) : SaveAndSchedule(q(w), c.n)
  BY DEF DeliverQueued
<1>3. QueuedEntry(p, w) \in Delivery
  BY <1>1, PolicyAssumption DEF QueuedEntry, Delivery, RetryDelays
<1>4. [c.q EXCEPT !.deliveries = @ \cup {QueuedEntry(p, w)}] \in QueueState
  BY <1>1, <1>3 DEF QueueState
<1>5. q(w) \in QueueState
  BY <1>1, <1>4, ReceiptForType, UpsertType
<1>6. Answer(p, "queued")
  BY DEF DeliverQueued
<1> HIDE DEF q
<1> QED
  BY <1>1, <1>2, <1>5, <1>6, SaveType, TypeAnswer DEF DeliverQueued, TypeInv, TypeOK

\* A resumed coroutine is well typed and keeps what it knew.
LEMMA ResumeType ==
    ASSUME TypeInv, NEW p \in Procs, NEW outcome \in {"accepted", "refused", "error"}
    PROVE  /\ Resume(p, outcome) \in Coroutine
           /\ Resume(p, outcome).kind = proc[p].kind
           /\ Resume(p, outcome).id = proc[p].id
           /\ Resume(p, outcome).req = proc[p].req
           /\ Resume(p, outcome).route = proc[p].route
<1>1. proc[p] \in Coroutine
  BY DEF TypeInv, TypeOK
<1> DEFINE s == IF proc[p].kind = "deliver" THEN None ELSE proc[p].sock
<1>2. s \in Sockets \cup {None}
  BY <1>1 DEF Coroutine
<1>3. Resume(p, outcome) = [proc[p] EXCEPT !.phase = "run", !.outcome = outcome,
                                           !.sock = s, !.group = FALSE]
  BY <1>1 DEF Resume, Coroutine
<1> HIDE DEF s
<1>4. Resume(p, outcome) \in Coroutine
  BY <1>1, <1>2, <1>3 DEF Coroutine
<1>5. /\ Resume(p, outcome).kind = proc[p].kind
      /\ Resume(p, outcome).id = proc[p].id
      /\ Resume(p, outcome).req = proc[p].req
      /\ Resume(p, outcome).route = proc[p].route
  BY <1>1, <1>3 DEF Coroutine
<1> QED
  BY <1>4, <1>5

\* Resuming a waiting coroutine keeps the types.
LEMMA TypeResume ==
    ASSUME TypeInv, NEW p \in Procs, NEW outcome \in {"accepted", "refused", "error"},
           proc' = [proc EXCEPT ![p] = Resume(p, outcome)]
    PROVE  proc' \in [Procs -> Coroutine] /\ \A o \in Procs : proc'[o].kind = "deliver" =>
             proc'[o].id \in Ids /\ proc'[o].req \in Requests /\ proc'[o].route \in Routes
<1>1. Resume(p, outcome).kind = "deliver" =>
        /\ Resume(p, outcome).id \in Ids
        /\ Resume(p, outcome).req \in Requests
        /\ Resume(p, outcome).route \in Routes
  BY ResumeType DEF TypeInv
<1> QED
  BY <1>1, ResumeType, CoroutineUpdate

\* A deliver_ack keeps the types.
LEMMA TypeAck ==
    ASSUME TypeInv, NEW p \in Procs, NEW s \in Sockets, NEW accepted \in BOOLEAN,
           DeliverAck(p, s, accepted)
    PROVE  TypeInv'
<1>1. TypeOK /\ ScheduleFromStorage({}, {s}) /\ {} \in SUBSET Sockets
  BY DEF TypeInv, DeliverAck
<1>2. proc' \in [Procs -> Coroutine] /\ \A o \in Procs : proc'[o].kind = "deliver" =>
         proc'[o].id \in Ids /\ proc'[o].req \in Requests /\ proc'[o].route \in Routes
  BY TypeResume DEF DeliverAck
<1> QED
  BY <1>1, <1>2, ScheduleType DEF DeliverAck, history, TypeInv, TypeOK

\* An acknowledgement timeout keeps the types.
LEMMA TypeTimeout ==
    ASSUME TypeInv, NEW p \in Procs, AckTimeout(p)
    PROVE  TypeInv'
BY TypeResume DEF AckTimeout, durable, tracker, history, TypeInv, TypeOK

\* Every other frame, oversized ones included, keeps the types.
LEMMA TypeMessage ==
    ASSUME TypeInv, NEW s \in Sockets,
           (\E b \in BOOLEAN : SocketMessage(s, b)) \/ OversizedMessage(s)
    PROVE  TypeInv'
<1>1. TypeOK /\ {} \in SUBSET Sockets /\ {s} \in SUBSET Sockets
  BY DEF TypeInv
<1>2. \E close \in SUBSET Sockets : \E touched : ScheduleFromStorage(close, touched)
  BY <1>1 DEF SocketMessage, OversizedMessage
<1>3. UNCHANGED <<now, proc, nextId, history>>
  BY DEF SocketMessage, OversizedMessage
<1> QED
  BY <1>1, <1>2, <1>3, ScheduleType DEF history, TypeInv, TypeOK

\* The loss of a socket keeps the types.
LEMMA TypeClosed ==
    ASSUME TypeInv, NEW s \in Sockets, NEW graceful \in BOOLEAN, NEW listed \in BOOLEAN,
           SocketClosed(s, graceful, listed)
    PROVE  TypeInv'
<1>0. now \in Nat /\ store \in QueueState
  BY DEF TypeInv, TypeOK
<1>1. PruneExpired(store, now) \in QueueState
  BY <1>0, PruneType
<1>2. store' \in QueueState /\ alarm' \in Nat \cup {NoTime}
  BY <1>0, <1>1, NextAlarmFacts DEF SocketClosed
<1>3. /\ sock' \in [Sockets -> {"none", "open", "closing"}]
      /\ lastAck' \in [Sockets -> Nat \cup {NoTime}]
      /\ pendingClose' \subseteq Sockets
  BY <1>0 DEF SocketClosed, Stale, Listed, TypeInv, TypeOK
<1>4. proc' \in [Procs -> Coroutine] /\ \A o \in Procs : proc'[o].kind = "deliver" =>
         proc'[o].id \in Ids /\ proc'[o].req \in Requests /\ proc'[o].route \in Routes
  <2>1. CASE proc' = proc
    BY <2>1 DEF TypeInv, TypeOK
  <2>2. CASE proc' = [p \in Procs |-> IF p \in Waiting THEN Resume(p, "error") ELSE proc[p]]
    <3>1. ASSUME NEW o \in Procs
          PROVE  /\ proc'[o] \in Coroutine
                 /\ proc'[o].kind = "deliver" =>
                      proc'[o].id \in Ids /\ proc'[o].req \in Requests /\ proc'[o].route \in Routes
      BY <2>2, ResumeType DEF TypeInv, TypeOK
    <3> QED
      BY <2>2, <3>1
  <2> QED
    BY <2>1, <2>2 DEF SocketClosed
<1> QED
  BY <1>2, <1>3, <1>4 DEF SocketClosed, history, TypeInv, TypeOK

\* Crashes, hibernation and time keep the types.
LEMMA TypeEnvironment ==
    ASSUME TypeInv, Crash \/ Hibernate \/ Tick
    PROVE  TypeInv'
<1>1. CASE Crash
  <2>1. Idle \in Coroutine /\ Idle.kind # "deliver"
    BY IdleType DEF Idle
  <2> QED
    BY <1>1, <2>1 DEF Crash, history, TypeInv, TypeOK
<1>2. CASE Hibernate
  BY <1>2 DEF Hibernate, durable, history, TypeInv, TypeOK
<1>3. CASE Tick
  BY <1>3 DEF Tick, durable, tracker, history, TypeInv, TypeOK
<1> QED
  BY <1>1, <1>2, <1>3

\* Every step of a resumed coroutine keeps the types.
LEMMA TypeRun ==
    ASSUME TypeInv, NEW p \in Procs, Run(p)
    PROVE  TypeInv'
BY TypeSkip, TypeSend, TypeAccepted, TypeExhausted, TypeRetry, TypeLoopEnd,
   TypeDeliverAccepted, TypeDeliverRejected, TypeDeliverQueued DEF Run

\* Every step keeps the types.
LEMMA TypeStep == TypeInv /\ [Next]_vars => TypeInv'
<1> SUFFICES ASSUME TypeInv, [Next]_vars PROVE TypeInv'
  OBVIOUS
<1>1. CASE UNCHANGED vars
  BY <1>1 DEF vars, TypeInv, TypeOK
<1>2. CASE Next
  BY <1>2, TypeRun, TypeTimeout, TypeAlarm, TypeDeliver, TypeConnect, TypeAck, TypeRecord,
     TypeGet, TypeMessage, TypeClosed, TypeEnvironment DEF Next
<1> QED
  BY <1>1, <1>2

\* In every reachable state of the relay session object, for every policy and any
\* number of requests, sockets and coroutines, the stored queue, the alarm, the
\* socket tracker and every handler's private copy are well formed.
THEOREM TypeCorrect == Spec => []TypeOK
<1>1. TypeInv => TypeOK
  BY DEF TypeInv
<1> QED
  BY <1>1, TypeInit, TypeStep, PTL DEF Spec

-----------------------------------------------------------------------------
(* The queue is never stranded *)

\* A coroutine of the loop that has changed nothing yet.
Untouched(c) ==
    /\ c.kind \in {"alarm", "drain"} /\ c.phase = "run"
    /\ c.outcome = None /\ c.mutated = FALSE

\* A handler that has changed nothing has not waited either: it is alone, and
\* its copy is what is stored.  That is why it may schedule the alarm from its
\* copy without saving it.
CopiesFresh ==
    \A p \in Procs : Untouched(proc[p]) =>
        /\ proc[p].q = store
        /\ \A o \in Procs : o # p => proc[o].phase # "run"

\* No handler's clock is ahead of the clock.
ClocksBehind == \A p \in Procs : proc[p].n <= now

AlarmRunning == \E p \in Procs : proc[p].kind = "alarm"

AlarmInTime ==
    \A d \in store.deliveries :
        /\ alarm # NoTime
        /\ alarm <= (IF d.nextAttempt > now + 1 THEN d.nextAttempt ELSE now + 1)

WakeInv == TypeInv /\ CopiesFresh /\ ClocksBehind /\ (AlarmRunning \/ AlarmInTime)

\* saveQueueState followed by scheduleNextAlarm, with a clock that is behind.
LEMMA ScheduledInTime ==
    ASSUME TypeInv, NEW q \in QueueState, NEW n \in Nat, n <= now, now' = now, NEW b \in BOOLEAN,
           store' = q, alarm' = NextAlarm(q, n, b)
    PROVE  AlarmInTime'
<1>1. now \in Nat
  BY DEF TypeInv, TypeOK
<1>2. \A d \in q.deliveries :
        /\ alarm' # NoTime /\ alarm' \in Nat
        /\ alarm' <= (IF d.nextAttempt > n + 1 THEN d.nextAttempt ELSE n + 1)
  BY NextAlarmFacts DEF NoTime
<1>3. \A d \in q.deliveries : d.nextAttempt \in Nat
  BY DEF QueueState, Delivery
<1> QED
  BY <1>1, <1>2, <1>3 DEF AlarmInTime

\* A load removes entries and leaves the alarm alone.
LEMMA LoadInTime ==
    ASSUME TypeInv, AlarmInTime, store' = PruneExpired(store, now), now' = now, alarm' = alarm
    PROVE  AlarmInTime'
BY DEF AlarmInTime, PruneExpired

\* After the step of one coroutine p nobody else has changed.
LEMMA OthersFresh ==
    ASSUME WakeInv, NEW p \in Procs, NEW c \in Coroutine, proc' = [proc EXCEPT ![p] = c],
           now' = now, c.n <= now,
           Untouched(c) => c.q = store' /\ \A o \in Procs : o # p => proc[o].phase # "run",
           store' = store \/ (\A o \in Procs : o # p => ~Untouched(proc[o])),
           \A o \in Procs : o # p => (Untouched(proc[o]) => c.phase # "run")
    PROVE  CopiesFresh' /\ ClocksBehind'
<1>1. \A o \in Procs : proc'[o] = IF o = p THEN c ELSE proc[o]
  BY DEF WakeInv, TypeInv, TypeOK
<1>2. ClocksBehind'
  BY <1>1 DEF WakeInv, ClocksBehind
<1>3. ASSUME NEW x \in Procs, Untouched(proc'[x])
      PROVE  proc'[x].q = store' /\ \A o \in Procs : o # x => proc'[o].phase # "run"
  <2>1. CASE x = p
    BY <1>1, <1>3, <2>1
  <2>2. CASE x # p
    <3>1. Untouched(proc[x])
      BY <1>1, <1>3, <2>2
    <3>2. store' = store /\ c.phase # "run"
      BY <2>2, <3>1
    <3> QED
      BY <1>1, <2>2, <3>1, <3>2 DEF WakeInv, CopiesFresh
  <2> QED
    BY <2>1, <2>2
<1> QED
  BY <1>2, <1>3 DEF CopiesFresh

\* While some coroutine runs, no other coroutine is untouched.
LEMMA RunnerAlone ==
    ASSUME WakeInv, NEW p \in Procs, proc[p].phase = "run"
    PROVE  \A o \in Procs : o # p => ~Untouched(proc[o])
BY DEF WakeInv, CopiesFresh

\* When the object is quiet nobody is untouched.
LEMMA QuietMeansNone ==
    ASSUME Quiet
    PROVE  \A o \in Procs : ~Untouched(proc[o])
BY DEF Quiet, Untouched

\* What a free coroutine slot looks like.
LEMMA IdleFacts == /\ Idle.kind = "idle" /\ Idle.phase = "idle" /\ Idle.n = 0
                   /\ Idle.outcome = None
BY DEF Idle

\* An event changes one coroutine of a quiet object.
LEMMA EventFresh ==
    ASSUME WakeInv, Quiet, NEW p \in Procs, NEW c \in Coroutine, proc' = [proc EXCEPT ![p] = c],
           now' = now, c.n <= now, Untouched(c) => c.q = store'
    PROVE  CopiesFresh' /\ ClocksBehind'
<1>1. \A o \in Procs : ~Untouched(proc[o])
  BY QuietMeansNone
<1>2. \A o \in Procs : proc[o].phase # "run"
  BY DEF Quiet
<1> QED
  BY <1>1, <1>2, OthersFresh

\* A step of a running coroutine.
LEMMA RunFresh ==
    ASSUME WakeInv, NEW p \in Procs, proc[p].phase = "run", NEW c \in Coroutine,
           proc' = [proc EXCEPT ![p] = c], now' = now, c.n <= now,
           Untouched(c) => Untouched(proc[p]) /\ c.q = proc[p].q /\ store' = store
    PROVE  CopiesFresh' /\ ClocksBehind'
<1>1. \A o \in Procs : o # p => ~Untouched(proc[o])
  BY RunnerAlone
<1>2. Untouched(c) => c.q = store' /\ \A o \in Procs : o # p => proc[o].phase # "run"
  BY DEF WakeInv, CopiesFresh
<1> QED
  BY <1>1, <1>2, OthersFresh

\* An alarm handler under way stays under way when another coroutine changes, or
\* when it changes without ending.
LEMMA AlarmStays ==
    ASSUME TypeInv, NEW p \in Procs, NEW c, proc' = [proc EXCEPT ![p] = c],
           proc[p].kind = "alarm" => c.kind = "alarm", AlarmRunning
    PROVE  AlarmRunning'
BY DEF AlarmRunning, TypeInv, TypeOK

\* deliverToConnector up to its wait strands nothing.
LEMMA WakeDeliver ==
    ASSUME WakeInv, NEW p \in Procs, NEW r \in Inbound, NEW route \in Routes,
           Deliver(p, r, route)
    PROVE  WakeInv'
<1> DEFINE start == [Idle EXCEPT !.kind = "deliver", !.phase = "run", !.n = now,
                                 !.q = PruneExpired(store, now), !.id = nextId,
                                 !.req = r, !.route = route]
<1>0. TypeInv /\ TypeInv' /\ now \in Nat
  BY TypeDeliver DEF WakeInv, TypeInv, TypeOK
<1>1. Quiet /\ proc[p] = Idle /\ now' = now /\ alarm' = alarm /\ store' = PruneExpired(store, now)
  BY DEF Deliver
<1>2. CASE UNCHANGED proc
  <2>1. CopiesFresh' /\ ClocksBehind'
    BY <1>1, <1>2, QuietMeansNone DEF WakeInv, CopiesFresh, ClocksBehind
  <2>2. AlarmRunning => AlarmRunning'
    BY <1>2 DEF AlarmRunning
  <2> QED
    BY <1>0, <1>1, <2>1, <2>2, LoadInTime DEF WakeInv
<1>3. CASE \E c : proc' = [proc EXCEPT ![p] = c] /\ c.kind = "deliver" /\ c.n = now
  <2>1. PICK c : proc' = [proc EXCEPT ![p] = c] /\ c.kind = "deliver" /\ c.n = now
    BY <1>3
  <2>2. c \in Coroutine
    BY <1>0, <2>1 DEF TypeInv, TypeOK
  <2>3. CopiesFresh' /\ ClocksBehind'
    <3>1. c.n <= now /\ ~Untouched(c)
      BY <1>0, <2>1 DEF Untouched
    <3> QED
      BY <1>1, <2>1, <2>2, <3>1, EventFresh
  <2>4. AlarmRunning => AlarmRunning'
    BY <1>0, <1>1, <2>1, AlarmStays, IdleFacts
  <2> QED
    BY <1>0, <1>1, <2>3, <2>4, LoadInTime DEF WakeInv
<1>4. UNCHANGED proc \/ \E c : proc' = [proc EXCEPT ![p] = c] /\ c.kind = "deliver" /\ c.n = now
  <2>1. ASSUME NEW s, SendDeliverFrame(p, s, [start EXCEPT !.attempts = 1], r \in GroupRequests)
        PROVE  \E c : proc' = [proc EXCEPT ![p] = c] /\ c.kind = "deliver" /\ c.n = now
    <3> DEFINE tried == [start EXCEPT !.attempts = 1]
    <3> DEFINE waits == [tried EXCEPT !.phase = "await", !.sock = s,
                                      !.group = (r \in GroupRequests)]
    <3> DEFINE fails == [tried EXCEPT !.outcome = "error"]
    <3>1. proc' = [proc EXCEPT ![p] = waits] \/ proc' = [proc EXCEPT ![p] = fails]
      BY <2>1 DEF SendDeliverFrame
    <3>2. waits.kind = "deliver" /\ waits.n = now /\ fails.kind = "deliver" /\ fails.n = now
      BY DEF Idle
    <3> HIDE DEF waits, fails
    <3> QED
      BY <3>1, <3>2
  <2>2. ASSUME proc' = [proc EXCEPT ![p] = [start EXCEPT !.outcome = "refused"]]
        PROVE  \E c : proc' = [proc EXCEPT ![p] = c] /\ c.kind = "deliver" /\ c.n = now
    <3> DEFINE unsent == [start EXCEPT !.outcome = "refused"]
    <3>1. unsent.kind = "deliver" /\ unsent.n = now
      BY DEF Idle
    <3> HIDE DEF unsent
    <3> QED
      BY <2>2, <3>1 DEF unsent
  <2> HIDE DEF start
  <2> QED
    BY <2>1, <2>2 DEF Deliver, start
<1> QED
  BY <1>2, <1>3, <1>4

\* A coroutine enters the loop untouched only with the queue as it is stored.
LEMMA EnterLoopFresh ==
    ASSUME TypeInv, NEW p \in Procs, NEW kind \in {"alarm", "drain"}, NEW q \in QueueState,
           NEW act, NEW mutated, EnterLoop(p, LoopStart(kind), q, act, mutated)
    PROVE  /\ proc' = [proc EXCEPT ![p] = proc'[p]]
           /\ proc'[p].kind = kind /\ proc'[p].n = now
           /\ Untouched(proc'[p]) => proc'[p].q = q
           /\ Untouched(proc'[p]) => ~mutated
<1> DEFINE start == LoopStart(kind)
<1>0. now \in Nat
  BY DEF TypeInv, TypeOK
<1>1. start \in Coroutine /\ start.kind = kind /\ start.n = now
  BY <1>0, LoopStartType
<1> HIDE DEF start
<1>2. CASE \E s : proc' = [proc EXCEPT ![p] = [start EXCEPT !.q = q, !.todo = q.deliveries,
                                               !.sock = s, !.mutated = mutated]]
  <2>1. PICK s : proc' = [proc EXCEPT ![p] = [start EXCEPT !.q = q, !.todo = q.deliveries,
                                               !.sock = s, !.mutated = mutated]]
    BY <1>2
  <2> DEFINE c == [start EXCEPT !.q = q, !.todo = q.deliveries, !.sock = s, !.mutated = mutated]
  <2>2. c.kind = kind /\ c.n = now /\ c.q = q /\ c.mutated = mutated
    BY <1>1 DEF Coroutine
  <2> HIDE DEF c
  <2>3. proc' = [proc EXCEPT ![p] = c] /\ proc'[p] = c
    BY <2>1 DEF c, TypeInv, TypeOK
  <2> QED
    BY <2>2, <2>3 DEF Untouched
<1>3. CASE \E delay \in DelayDraws(q.deliveries) :
             proc' = [proc EXCEPT ![p] = [start EXCEPT
                        !.q = [q EXCEPT !.deliveries = Postpone(@, start.n, delay)],
                        !.mutated = mutated \/ Due(q.deliveries, start.n) # {}]]
  <2>1. PICK delay \in DelayDraws(q.deliveries) :
             proc' = [proc EXCEPT ![p] = [start EXCEPT
                        !.q = [q EXCEPT !.deliveries = Postpone(@, start.n, delay)],
                        !.mutated = mutated \/ Due(q.deliveries, start.n) # {}]]
    BY <1>3
  <2> DEFINE newq == [q EXCEPT !.deliveries = Postpone(@, start.n, delay)]
  <2> DEFINE m == mutated \/ Due(q.deliveries, start.n) # {}
  <2> DEFINE c == [start EXCEPT !.q = newq, !.mutated = m]
  <2>2. m = FALSE => newq = q /\ ~mutated
    <3> SUFFICES ASSUME m = FALSE PROVE newq = q /\ ~mutated
      OBVIOUS
    <3>1. \A d \in q.deliveries : ~(d.nextAttempt <= start.n)
      BY DEF Due
    <3>2. Postpone(q.deliveries, start.n, delay) = q.deliveries
      BY <3>1 DEF Postpone
    <3> QED
      BY <3>2 DEF QueueState
  <2> HIDE DEF newq, m
  <2>3. c.kind = kind /\ c.n = now /\ c.q = newq /\ c.mutated = m
    BY <1>1 DEF Coroutine
  <2> HIDE DEF c
  <2>4. proc' = [proc EXCEPT ![p] = c] /\ proc'[p] = c
    BY <2>1 DEF c, newq, m, TypeInv, TypeOK
  <2> QED
    BY <2>2, <2>3, <2>4 DEF Untouched
<1> QED
  BY <1>2, <1>3 DEF EnterLoop, start

\* The alarm handler consumes the alarm, and stands in for it while it is at work.
LEMMA WakeAlarm ==
    ASSUME WakeInv, NEW p \in Procs, Alarm(p)
    PROVE  WakeInv'
<1> DEFINE q == PruneExpired(store, now)
<1> DEFINE dead == {s \in Active(now) : sock[s] # "open"}
<1>0. TypeInv /\ TypeInv' /\ now \in Nat /\ store \in QueueState
  BY TypeAlarm DEF WakeInv, TypeInv, TypeOK
<1>1. Quiet /\ now' = now /\ store' = q
  BY DEF Alarm
<1>2. q \in QueueState /\ Active(now) \ dead \in SUBSET Sockets
  BY <1>0, PruneType DEF Active, Listed
<1>3. EnterLoop(p, LoopStart("alarm"), q, Active(now) \ dead, FALSE)
  BY DEF Alarm
<1> HIDE DEF q, dead
<1> DEFINE c == proc'[p]
<1>4. /\ proc' = [proc EXCEPT ![p] = c]
      /\ c.kind = "alarm" /\ c.n = now
      /\ Untouched(c) => c.q = q
  <2>1. "alarm" \in {"alarm", "drain"}
    OBVIOUS
  <2> QED
    BY <1>0, <1>2, <1>3, <2>1, EnterLoopFresh
<1>5. c \in Coroutine /\ c.n <= now
  BY <1>0, <1>4 DEF TypeInv, TypeOK
<1>6. CopiesFresh' /\ ClocksBehind'
  BY <1>1, <1>4, <1>5, EventFresh
<1>7. AlarmRunning'
  BY <1>0, <1>4 DEF AlarmRunning, TypeInv, TypeOK
<1> QED
  BY <1>0, <1>6, <1>7 DEF WakeInv

\* A reconnect keeps the alarm, and its drain starts from what is stored.
LEMMA WakeConnect ==
    ASSUME WakeInv, NEW p \in Procs, NEW s \in Sockets, Connect(p, s)
    PROVE  WakeInv'
<1> DEFINE loaded == PruneExpired(store, now)
<1> DEFINE q == [loaded EXCEPT !.deliveries =
                  {IF d.nextAttempt > now THEN [d EXCEPT !.nextAttempt = now] ELSE d : d \in @}]
<1>0. TypeInv /\ TypeInv' /\ now \in Nat /\ store \in QueueState
  BY TypeConnect DEF WakeInv, TypeInv, TypeOK
<1>1. Quiet /\ proc[p] = Idle /\ now' = now /\ alarm' = alarm /\ store' = loaded
  BY DEF Connect
<1>2. q \in QueueState
  <2>1. \A d \in Delivery : [d EXCEPT !.nextAttempt = now] \in Delivery
    BY <1>0 DEF Delivery
  <2>2. loaded \in QueueState
    BY <1>0, PruneType
  <2> HIDE DEF loaded
  <2>3. {IF d.nextAttempt > now THEN [d EXCEPT !.nextAttempt = now] ELSE d :
            d \in loaded.deliveries} \in SUBSET Delivery
    BY <2>1, <2>2 DEF QueueState
  <2> QED
    BY <2>2, <2>3 DEF QueueState
<1>3. EnterLoop(p, LoopStart("drain"), q, {s}, q # loaded) /\ (q # loaded) \in BOOLEAN
  BY DEF Connect
<1> HIDE DEF q
<1> DEFINE c == proc'[p]
<1>4. /\ proc' = [proc EXCEPT ![p] = c]
      /\ c.kind = "drain" /\ c.n = now
      /\ Untouched(c) => c.q = q
      /\ Untouched(c) => ~(q # loaded)
  <2> HIDE DEF loaded
  <2>1. "drain" \in {"alarm", "drain"}
    OBVIOUS
  <2> QED
    BY <1>0, <1>2, <1>3, <2>1, EnterLoopFresh
<1>5. c \in Coroutine /\ c.n <= now
  BY <1>0, <1>4 DEF TypeInv, TypeOK
<1>6. CopiesFresh' /\ ClocksBehind'
  BY <1>1, <1>4, <1>5, EventFresh
<1>7. AlarmRunning => AlarmRunning'
  BY <1>0, <1>1, <1>4, AlarmStays, IdleFacts
<1> QED
  BY <1>0, <1>1, <1>6, <1>7, LoadInTime DEF WakeInv

\* The RPCs and socket events that schedule from what they save.
LEMMA WakeRecord ==
    ASSUME WakeInv, NEW r \in Outbound, NEW route \in Routes, NEW status \in TerminalStates,
           RecordReceipt(r, route, status)
    PROVE  WakeInv'
<1>0. TypeInv /\ TypeInv' /\ now \in Nat
  BY TypeRecord DEF WakeInv, TypeInv, TypeOK
<1>1. Quiet /\ UNCHANGED <<now, proc>>
  BY DEF RecordReceipt
<1>2. CopiesFresh' /\ ClocksBehind' /\ (AlarmRunning => AlarmRunning')
  BY <1>1, QuietMeansNone DEF WakeInv, CopiesFresh, ClocksBehind, AlarmRunning
<1>3. CASE store' = PruneExpired(store, now) /\ alarm' = alarm
  BY <1>0, <1>1, <1>2, <1>3, LoadInTime DEF WakeInv
<1>4. CASE \E q : store' = q /\ alarm' = NextAlarm(q, now, Active(now) # {})
  <2>1. store' \in QueueState /\ alarm' = NextAlarm(store', now, Active(now) # {})
    BY <1>0, <1>4 DEF TypeInv, TypeOK
  <2>2. now <= now /\ (Active(now) # {}) \in BOOLEAN
    BY <1>0
  <2>3. AlarmInTime'
    BY <1>0, <1>1, <2>1, <2>2, ScheduledInTime, Zenon
  <2> QED
    BY <1>0, <1>2, <2>3 DEF WakeInv
<1> QED
  BY <1>3, <1>4 DEF RecordReceipt, SaveAndSchedule, tracker

\* A load that prunes keeps the alarm early enough for what is left.
LEMMA WakeGet ==
    ASSUME WakeInv, GetReceipt
    PROVE  WakeInv'
<1>0. TypeInv /\ TypeInv'
  BY TypeGet DEF WakeInv
<1>1. Quiet /\ UNCHANGED <<now, proc, alarm>> /\ store' = PruneExpired(store, now)
  BY DEF GetReceipt
<1>2. CopiesFresh' /\ ClocksBehind' /\ (AlarmRunning => AlarmRunning')
  BY <1>1, QuietMeansNone DEF WakeInv, CopiesFresh, ClocksBehind, AlarmRunning
<1> QED
  BY <1>0, <1>1, <1>2, LoadInTime DEF WakeInv

\* A socket handler ends with the alarm scheduled from what it loaded.
LEMMA SocketEventInTime ==
    ASSUME TypeInv, now' = now, NEW b \in BOOLEAN,
           store' = PruneExpired(store, now), alarm' = NextAlarm(PruneExpired(store, now), now, b)
    PROVE  AlarmInTime'
<1>1. now \in Nat /\ store \in QueueState
  BY DEF TypeInv, TypeOK
<1> QED
  BY <1>1, PruneType, ScheduledInTime

\* A frame re-arms the alarm from what is stored.
LEMMA WakeMessage ==
    ASSUME WakeInv, NEW s \in Sockets,
           (\E b \in BOOLEAN : SocketMessage(s, b)) \/ OversizedMessage(s)
    PROVE  WakeInv'
<1>0. TypeInv /\ TypeInv'
  BY TypeMessage DEF WakeInv
<1>1. Quiet /\ UNCHANGED <<now, proc>>
  BY DEF SocketMessage, OversizedMessage
<1>2. CopiesFresh' /\ ClocksBehind'
  BY <1>1, QuietMeansNone DEF WakeInv, CopiesFresh, ClocksBehind
<1>3. AlarmInTime'
  BY <1>0, <1>1, SocketEventInTime DEF SocketMessage, OversizedMessage, ScheduleFromStorage
<1> QED
  BY <1>0, <1>2, <1>3 DEF WakeInv

\* A coroutine that is resumed has an outcome, so it is not untouched.
LEMMA ResumeFresh ==
    ASSUME TypeInv, NEW p \in Procs, NEW outcome \in {"accepted", "refused", "error"}
    PROVE  /\ ~Untouched(Resume(p, outcome))
           /\ Resume(p, outcome).n = proc[p].n
<1>1. proc[p] \in Coroutine
  BY DEF TypeInv, TypeOK
<1> QED
  BY <1>1 DEF Resume, Untouched, Coroutine, None

\* So does a deliver_ack, before the coroutine it resumes goes on.
LEMMA WakeAck ==
    ASSUME WakeInv, NEW p \in Procs, NEW s \in Sockets, NEW accepted \in BOOLEAN,
           DeliverAck(p, s, accepted)
    PROVE  WakeInv'
<1> DEFINE outcome == IF accepted THEN "accepted" ELSE "refused"
<1>0. TypeInv /\ TypeInv' /\ outcome \in {"accepted", "refused", "error"}
  BY TypeAck DEF WakeInv
<1>1. Quiet /\ now' = now /\ proc' = [proc EXCEPT ![p] = Resume(p, outcome)]
  BY DEF DeliverAck
<1> HIDE DEF outcome
<1>2. CopiesFresh' /\ ClocksBehind'
  <2>1. Resume(p, outcome) \in Coroutine /\ Resume(p, outcome).n <= now
    BY <1>0, ResumeType, ResumeFresh DEF WakeInv, ClocksBehind
  <2> QED
    BY <1>0, <1>1, <2>1, ResumeFresh, EventFresh
<1>3. AlarmInTime'
  BY <1>0, <1>1, SocketEventInTime DEF DeliverAck, ScheduleFromStorage
<1> QED
  BY <1>0, <1>2, <1>3 DEF WakeInv

\* A timeout changes nothing that is durable.
LEMMA WakeTimeout ==
    ASSUME WakeInv, NEW p \in Procs, AckTimeout(p)
    PROVE  WakeInv'
<1>0. TypeInv /\ TypeInv'
  BY TypeTimeout DEF WakeInv
<1>1. Quiet /\ proc' = [proc EXCEPT ![p] = Resume(p, "error")] /\ UNCHANGED <<now, store, alarm>>
  BY DEF AckTimeout, durable
<1>2. CopiesFresh' /\ ClocksBehind'
  <2>1. Resume(p, "error") \in Coroutine /\ Resume(p, "error").n <= now
    BY <1>0, ResumeType, ResumeFresh DEF WakeInv, ClocksBehind
  <2> QED
    BY <1>0, <1>1, <2>1, ResumeFresh, EventFresh
<1>3. AlarmRunning => AlarmRunning'
  BY <1>0, <1>1, ResumeType, AlarmStays
<1>4. AlarmInTime => AlarmInTime'
  BY <1>1 DEF AlarmInTime
<1> QED
  BY <1>0, <1>2, <1>3, <1>4 DEF WakeInv

\* The loss of a socket re-arms the alarm from what is stored.
LEMMA WakeClosed ==
    ASSUME WakeInv, NEW s \in Sockets, NEW graceful \in BOOLEAN, NEW listed \in BOOLEAN,
           SocketClosed(s, graceful, listed)
    PROVE  WakeInv'
<1>0. TypeInv /\ TypeInv'
  BY TypeClosed DEF WakeInv
<1>1. Quiet /\ now' = now
  BY DEF SocketClosed
<1>2. AlarmInTime'
  BY <1>0, <1>1, SocketEventInTime DEF SocketClosed
<1>3. \A o \in Procs : /\ ~Untouched(proc'[o])
                       /\ proc'[o].n = proc[o].n
  <2>1. CASE proc' = proc
    BY <1>1, <2>1, QuietMeansNone
  <2>2. CASE proc' = [p \in Procs |-> IF p \in Waiting THEN Resume(p, "error") ELSE proc[p]]
    BY <1>0, <1>1, <2>2, QuietMeansNone, ResumeFresh
  <2> QED
    BY <2>1, <2>2 DEF SocketClosed
<1>4. CopiesFresh' /\ ClocksBehind'
  BY <1>1, <1>3 DEF WakeInv, CopiesFresh, ClocksBehind
<1> QED
  BY <1>0, <1>2, <1>4 DEF WakeInv

\* A step inside the loop changes only the coroutine, which stays of its kind.
LEMMA WakeInside ==
    ASSUME WakeInv, TypeInv', NEW p \in Procs, proc[p].phase = "run",
           UNCHANGED <<now, durable>>, NEW c, proc' = [proc EXCEPT ![p] = c],
           c.kind = proc[p].kind, c.n = proc[p].n,
           Untouched(c) => Untouched(proc[p]) /\ c.q = proc[p].q
    PROVE  WakeInv'
<1>1. TypeInv /\ UNCHANGED <<now, store, alarm>>
  BY DEF WakeInv, durable
<1>2. c \in Coroutine
  BY <1>1 DEF TypeInv, TypeOK
<1>3. c.n <= now
  BY DEF WakeInv, ClocksBehind
<1>4. CopiesFresh' /\ ClocksBehind'
  BY <1>1, <1>2, <1>3, RunFresh
<1>5. AlarmRunning => AlarmRunning'
  BY <1>1, AlarmStays
<1>6. AlarmInTime => AlarmInTime'
  BY <1>1 DEF AlarmInTime
<1> QED
  BY <1>4, <1>5, <1>6 DEF WakeInv

\* Passing over or dropping an entry changes only the private copy.
LEMMA WakeSkip ==
    ASSUME WakeInv, NEW p \in Procs, NEW d, LoopSkip(p, d)
    PROVE  WakeInv'
<1> DEFINE c == proc[p]
<1> DEFINE m == MustDrop(d, c.n)
<1> DEFINE next == [c EXCEPT !.todo = @ \ {d}, !.q = IF m THEN DropDelivery(@, d) ELSE @,
                             !.mutated = @ \/ m]
<1>0. TypeInv /\ TypeInv'
  BY TypeSkip DEF WakeInv
<1>1. c \in Coroutine /\ InLoop(p, None)
  BY <1>0 DEF LoopSkip, TypeInv, TypeOK
<1>2. proc' = [proc EXCEPT ![p] = next] /\ UNCHANGED <<now, durable>>
  BY DEF LoopSkip
<1> HIDE DEF m
<1>3. next.kind = c.kind /\ next.n = c.n
  BY <1>1 DEF Coroutine
<1>4. next.mutated = (c.mutated \/ m) /\ (~m => next.q = c.q)
  BY <1>1 DEF Coroutine
<1>5. Untouched(next) => Untouched(c) /\ next.q = c.q
  BY <1>1, <1>4 DEF Untouched, InLoop, Coroutine
<1> HIDE DEF next
<1> QED
  BY <1>0, <1>1, <1>2, <1>3, <1>5, WakeInside DEF InLoop

\* So does sending one.
LEMMA WakeSend ==
    ASSUME WakeInv, NEW p \in Procs, NEW d, LoopSend(p, d)
    PROVE  WakeInv'
<1> DEFINE c == proc[p]
<1> DEFINE next == [c EXCEPT !.todo = @ \ {d}, !.cur = {d}, !.req = d.req]
<1> DEFINE waits == [next EXCEPT !.phase = "await", !.sock = c.sock, !.group = d.group]
<1> DEFINE fails == [next EXCEPT !.outcome = "error"]
<1>0. TypeInv /\ TypeInv'
  BY TypeSend DEF WakeInv
<1>1. c \in Coroutine /\ c.phase = "run"
  BY <1>0 DEF LoopSend, InLoop, TypeInv, TypeOK
<1>2. (proc' = [proc EXCEPT ![p] = waits] \/ proc' = [proc EXCEPT ![p] = fails])
        /\ UNCHANGED <<now, durable>>
  BY DEF LoopSend, SendDeliverFrame
<1>3. waits.kind = c.kind /\ waits.n = c.n /\ waits.phase = "await"
  BY <1>1 DEF Coroutine
<1>4. fails.kind = c.kind /\ fails.n = c.n /\ fails.outcome = "error"
  BY <1>1 DEF Coroutine
<1> HIDE DEF waits, fails
<1>5. ~Untouched(waits) /\ ~Untouched(fails)
  BY <1>3, <1>4 DEF Untouched, None
<1> QED
  BY <1>0, <1>1, <1>2, <1>3, <1>4, <1>5, WakeInside

\* The loop goes on from an acknowledged, refused or failed frame.
LEMMA WakeContinue ==
    ASSUME WakeInv, TypeInv', NEW p \in Procs, proc[p].phase = "run", NEW q, NEW todo,
           UNCHANGED <<now, durable>>, proc' = [proc EXCEPT ![p] = Continue(proc[p], q, todo)]
    PROVE  WakeInv'
<1> DEFINE c == proc[p]
<1>1. c \in Coroutine
  BY DEF WakeInv, TypeInv, TypeOK
<1>2. /\ Continue(c, q, todo).kind = c.kind /\ Continue(c, q, todo).n = c.n
      /\ Continue(c, q, todo).mutated = TRUE
  BY <1>1 DEF Continue, Coroutine
<1>3. ~Untouched(Continue(c, q, todo))
  BY <1>2 DEF Untouched
<1> QED
  BY <1>2, <1>3, WakeInside

\* So does what follows the acknowledgement, refusal or error.
LEMMA WakeAfterFrame ==
    ASSUME WakeInv, NEW p \in Procs, NEW d,
           LoopAccepted(p, d) \/ LoopExhausted(p, d) \/ LoopRetry(p, d)
    PROVE  WakeInv'
<1>1. TypeInv'
  BY TypeAccepted, TypeExhausted, TypeRetry DEF WakeInv
<1>2. proc[p].phase = "run" /\ UNCHANGED <<now, durable>>
  BY DEF LoopAccepted, LoopExhausted, LoopRetry, InLoop
<1>3. \E q, todo : proc' = [proc EXCEPT ![p] = Continue(proc[p], q, todo)]
  BY DEF LoopAccepted, LoopExhausted, LoopRetry
<1> QED
  BY <1>1, <1>2, <1>3, WakeContinue

\* A coroutine that saves its copy q and schedules from it, and ends.
LEMMA WakeEnds ==
    ASSUME WakeInv, TypeInv', NEW p \in Procs, proc[p].phase = "run",
           proc' = [proc EXCEPT ![p] = Idle], now' = now, NEW q \in QueueState, store' = q,
           alarm' = NextAlarm(q, proc[p].n, Active(proc[p].n) # {})
    PROVE  WakeInv'
<1>1. TypeInv /\ now \in Nat /\ proc[p].n \in Nat /\ proc[p].n <= now
  BY DEF WakeInv, ClocksBehind, TypeInv, TypeOK, Coroutine
<1>2. (Active(proc[p].n) # {}) \in BOOLEAN
  OBVIOUS
<1>3. AlarmInTime'
  BY <1>1, <1>2, ScheduledInTime, Zenon
<1>4. Idle.n <= now /\ ~Untouched(Idle)
  BY <1>1, IdleFacts DEF Untouched
<1>5. CopiesFresh' /\ ClocksBehind'
  BY <1>4, IdleType, RunFresh
<1> QED
  BY <1>3, <1>5 DEF WakeInv

\* The end of the loop arms the alarm for the copy it saves, or for a copy that
\* is still what is stored.
LEMMA WakeLoopEnd ==
    ASSUME WakeInv, NEW p \in Procs, LoopEnd(p)
    PROVE  WakeInv'
<1> DEFINE c == proc[p]
<1>1. TypeInv' /\ c \in Coroutine /\ c.q \in QueueState /\ c.mutated \in BOOLEAN
  BY TypeLoopEnd DEF WakeInv, TypeInv, TypeOK, Coroutine
<1>2. /\ InLoop(p, None) /\ proc' = [proc EXCEPT ![p] = Idle] /\ now' = now
      /\ store' = (IF c.mutated THEN c.q ELSE store)
      /\ alarm' = NextAlarm(c.q, c.n, Active(c.n) # {})
  BY DEF LoopEnd
<1>3. ~c.mutated => c.q = store
  BY <1>1, <1>2 DEF WakeInv, CopiesFresh, Untouched, InLoop
<1>4. store' = c.q /\ c.phase = "run"
  BY <1>2, <1>3 DEF InLoop
<1> QED
  BY <1>1, <1>2, <1>4, WakeEnds

\* A delivery that ends with a save arms the alarm for what it saved.
LEMMA WakeDeliverEnds ==
    ASSUME WakeInv, NEW p \in Procs, DeliverAccepted(p) \/ DeliverQueued(p)
    PROVE  WakeInv'
<1>1. TypeInv'
  BY TypeDeliverAccepted, TypeDeliverQueued DEF WakeInv
<1>2. proc[p].phase = "run" /\ proc' = [proc EXCEPT ![p] = Idle] /\ now' = now
  BY DEF DeliverAccepted, DeliverQueued, Resumed, Answer
<1>3. \E q : store' = q /\ alarm' = NextAlarm(q, proc[p].n, Active(proc[p].n) # {})
  BY DEF DeliverAccepted, DeliverQueued, SaveAndSchedule
<1>4. store' \in QueueState
  BY <1>1 DEF TypeInv, TypeOK
<1> QED
  BY <1>1, <1>2, <1>3, <1>4, WakeEnds

\* One that ends without a save leaves the alarm as it is.
LEMMA WakeDeliverRejected ==
    ASSUME WakeInv, NEW p \in Procs, DeliverRejected(p)
    PROVE  WakeInv'
<1>0. TypeInv /\ TypeInv' /\ now \in Nat
  BY TypeDeliverRejected DEF WakeInv, TypeInv, TypeOK
<1>1. /\ proc[p].phase = "run" /\ proc[p].kind = "deliver"
      /\ proc' = [proc EXCEPT ![p] = Idle] /\ UNCHANGED <<now, store, alarm>>
  BY DEF DeliverRejected, Resumed, Answer, durable
<1>2. Idle.n <= now /\ ~Untouched(Idle)
  BY <1>0, IdleFacts DEF Untouched
<1>3. CopiesFresh' /\ ClocksBehind'
  BY <1>1, <1>2, IdleType, RunFresh
<1>4. AlarmRunning => AlarmRunning'
  BY <1>0, <1>1, AlarmStays
<1>5. AlarmInTime => AlarmInTime'
  BY <1>1 DEF AlarmInTime
<1> QED
  BY <1>0, <1>3, <1>4, <1>5 DEF WakeInv

\* A crash runs an interrupted alarm again; hibernation and time strand nothing.
LEMMA WakeEnvironment ==
    ASSUME WakeInv, Crash \/ Hibernate \/ Tick
    PROVE  WakeInv'
<1>0. TypeInv /\ TypeInv' /\ now \in Nat /\ store \in QueueState
  BY TypeEnvironment DEF WakeInv, TypeInv, TypeOK
<1>1. CASE Crash
  <2>1. \A p \in Procs : proc'[p] = Idle
    BY <1>1 DEF Crash
  <2>2. CopiesFresh' /\ ClocksBehind'
    BY <1>0, <1>1, <2>1, IdleFacts DEF Crash, CopiesFresh, ClocksBehind, Untouched
  <2>3. AlarmInTime'
    <3>1. \A d \in store.deliveries : d.nextAttempt \in Nat
      BY <1>0 DEF QueueState, Delivery
    <3> QED
      BY <1>0, <1>1, <3>1 DEF Crash, WakeInv, AlarmInTime, AlarmRunning, NoTime
  <2> QED
    BY <1>0, <2>2, <2>3 DEF WakeInv
<1>2. CASE Hibernate
  BY <1>0, <1>2 DEF Hibernate, durable, WakeInv, CopiesFresh, ClocksBehind, AlarmInTime, AlarmRunning
<1>3. CASE Tick
  <2>1. CopiesFresh'
    BY <1>3 DEF Tick, durable, WakeInv, CopiesFresh
  <2>2. ClocksBehind'
    BY <1>0, <1>3 DEF Tick, WakeInv, ClocksBehind, TypeInv, TypeOK, Coroutine
  <2>3. AlarmRunning => AlarmRunning'
    BY <1>3 DEF Tick, AlarmRunning
  <2>4. AlarmInTime => AlarmInTime'
    <3>1. \A d \in store.deliveries : d.nextAttempt \in Nat
      BY <1>0 DEF QueueState, Delivery
    <3>2. alarm \in Int
      BY <1>0 DEF TypeInv, TypeOK, NoTime
    <3> QED
      BY <1>0, <1>3, <3>1, <3>2 DEF Tick, durable, AlarmInTime
  <2> QED
    BY <1>0, <2>1, <2>2, <2>3, <2>4 DEF WakeInv
<1> QED
  BY <1>1, <1>2, <1>3

\* No step of a resumed coroutine strands an entry.
LEMMA WakeRun ==
    ASSUME WakeInv, NEW p \in Procs, Run(p)
    PROVE  WakeInv'
BY WakeSkip, WakeSend, WakeAfterFrame, WakeLoopEnd, WakeDeliverEnds, WakeDeliverRejected DEF Run

\* No step does.
LEMMA WakeStep == WakeInv /\ [Next]_vars => WakeInv'
<1> SUFFICES ASSUME WakeInv, [Next]_vars PROVE WakeInv'
  OBVIOUS
<1>1. CASE UNCHANGED vars
  BY <1>1, TypeStep DEF vars, WakeInv, CopiesFresh, ClocksBehind, AlarmInTime, AlarmRunning
<1>2. CASE Next
  BY <1>2, WakeRun, WakeTimeout, WakeAlarm, WakeDeliver, WakeConnect, WakeAck, WakeRecord,
     WakeGet, WakeMessage, WakeClosed, WakeEnvironment DEF Next
<1> QED
  BY <1>1, <1>2

\* Initially nothing is stored.
LEMMA WakeInit == Init => WakeInv
<1> SUFFICES ASSUME Init PROVE WakeInv
  OBVIOUS
<1>1. CopiesFresh /\ ClocksBehind
  BY IdleFacts DEF Init, CopiesFresh, ClocksBehind, Untouched
<1>2. AlarmInTime
  BY DEF Init, AlarmInTime, EmptyQueue
<1> QED
  BY <1>1, <1>2, TypeInit DEF WakeInv

\* Whatever the policy, the number of requests, sockets and coroutines, and
\* whatever the order of calls, frames, timeouts, crashes and hibernations: while
\* deliveries are stored, an alarm no later than each of them needs is set, or
\* the alarm handler is at work.
THEOREM NeverStranded == Spec => []WakeUpArmed
<1>1. WakeInv => WakeUpArmed
  BY DEF WakeInv, WakeUpArmed, AlarmRunning, AlarmInTime
<1> QED
  BY <1>1, WakeInit, WakeStep, PTL DEF Spec


-----------------------------------------------------------------------------
(* The limits of the mailbox, and what its receipts say *)

\* Every request id comes with one sender and one recipient.
Single == \A a, b \in Routes : a = b

\* The entries of a request have a receipt that lives as long as they do; there
\* is one of them.
Covered(q) ==
    /\ \A d, e \in q.deliveries : d.req = e.req => d = e
    /\ \A d \in q.deliveries : /\ q.receipts[d.req] # NoReceipt
                               /\ d.expiresAt <= q.receipts[d.req].expiresAt

\* A queued receipt has its entry.
Backed(q) ==
    \A r \in Requests : q.receipts[r].state = "queued" =>
        \E d \in q.deliveries : d.req = r /\ d.id = q.receipts[r].id

\* What holds of each copy of the queue: the stored one and those that the
\* handlers under way will store.
Sound(q, n) ==
    /\ IsFiniteSet(q.deliveries) /\ Cardinality(q.deliveries) <= QueueMax
    /\ \A d \in q.deliveries : /\ d.attempts < RetryMaxAttempts
                               /\ d.expiresAt <= n + QueueTtl
    /\ Backed(q)
    /\ Single => Covered(q)

\* A loop works on entries of its own copy, each once.
Working(c) == c.todo \cup c.cur \subseteq c.q.deliveries /\ c.todo \cap c.cur = {}

\* A deliver call began because its request had no entry.
Fresh(c) == c.kind = "deliver" /\ Single => \A d \in c.q.deliveries : d.req # c.req

MailInv ==
    /\ Sound(store, now) /\ WindowBound
    /\ \A p \in Procs : Sound(proc[p].q, now) /\ Working(proc[p]) /\ Fresh(proc[p])

\* A socket that is to be closed takes no more frames; one socket at most does.
SocketInv == (\A s \in Sockets : s \in pendingClose => sock[s] # "open") /\ OneOpenSocket

\* A rescheduled entry is the same delivery.
SameEntry(d, e) ==
    /\ e.id = d.id /\ e.req = d.req /\ e.expiresAt = d.expiresAt
    /\ e.attempts = d.attempts \/ e.attempts < RetryMaxAttempts

\* The image of a finite set of entries is no larger.
LEMMA ImageSize ==
    ASSUME NEW D, IsFiniteSet(D), NEW f \in [D -> Delivery]
    PROVE  LET E == {f[d] : d \in D}
           IN  IsFiniteSet(E) /\ Cardinality(E) <= Cardinality(D)
<1> DEFINE E == {f[d] : d \in D}
<1>1. f \in Surjection(D, E)
  BY DEF Surjection
<1> HIDE DEF E
<1>2. IsFiniteSet(E) /\ Cardinality(E) <= Cardinality(D)
  BY <1>1, FS_Surjection
<1> QED
  BY <1>2 DEF E

\* A copy with fewer entries is no longer.
LEMMA FewerEntries ==
    ASSUME NEW D, IsFiniteSet(D), Cardinality(D) <= QueueMax, NEW E \in SUBSET D
    PROVE  IsFiniteSet(E) /\ Cardinality(E) <= QueueMax
<1>1. IsFiniteSet(E) /\ Cardinality(E) <= Cardinality(D)
  BY FS_Subset
<1>2. Cardinality(E) \in Nat /\ Cardinality(D) \in Nat
  BY <1>1, FS_CardinalityType
<1> QED
  BY <1>1, <1>2, PolicyAssumption

\* What the operations on a queue keep.  Entries that are rescheduled, one by one:
LEMMA SoundRescheduled ==
    ASSUME NEW q \in QueueState, NEW n, Sound(q, n),
           NEW f \in [q.deliveries -> Delivery], \A d \in q.deliveries : SameEntry(d, f[d])
    PROVE  Sound([q EXCEPT !.deliveries = {f[d] : d \in q.deliveries}], n)
<1> DEFINE D == q.deliveries
<1> DEFINE E == {f[d] : d \in D}
<1> DEFINE k == [q EXCEPT !.deliveries = E]
<1>1. k.deliveries = E /\ k.receipts = q.receipts
  BY DEF QueueState
<1>2. IsFiniteSet(D) /\ Cardinality(D) <= QueueMax
  BY DEF Sound
<1>3. IsFiniteSet(E) /\ Cardinality(E) <= QueueMax
  <2>1. IsFiniteSet(E) /\ Cardinality(E) <= Cardinality(D)
    BY <1>2, ImageSize
  <2>2. Cardinality(E) \in Nat /\ Cardinality(D) \in Nat
    BY <1>2, <2>1, FS_CardinalityType
  <2> QED
    BY <1>2, <2>1, <2>2, PolicyAssumption
<1>4. \A e \in E : \E d \in D : e = f[d] /\ SameEntry(d, e)
  OBVIOUS
<1>5. \A d \in D : f[d] \in E
  OBVIOUS
<1>h. \A d \in D : d.attempts < RetryMaxAttempts /\ d.expiresAt <= n + QueueTtl
  BY DEF Sound
<1> HIDE DEF k, E, D
<1>6. \A e \in k.deliveries : e.attempts < RetryMaxAttempts /\ e.expiresAt <= n + QueueTtl
  BY <1>1, <1>4, <1>h DEF SameEntry
<1>7. Backed(k)
  BY <1>1, <1>5 DEF Sound, Backed, SameEntry, D
<1>8. Single => Covered(k)
  <2> SUFFICES ASSUME Single PROVE Covered(k)
    OBVIOUS
  <2>1. Covered(q)
    BY DEF Sound
  <2>2. ASSUME NEW d \in E, NEW e \in E, d.req = e.req PROVE d = e
    <3>1. PICK x \in D : d = f[x] /\ SameEntry(x, d)
      BY <1>4
    <3>2. PICK y \in D : e = f[y] /\ SameEntry(y, e)
      BY <1>4
    <3>3. x = y
      BY <2>1, <2>2, <3>1, <3>2 DEF Covered, SameEntry, D
    <3> QED
      BY <3>1, <3>2, <3>3
  <2>3. ASSUME NEW d \in E
        PROVE  q.receipts[d.req] # NoReceipt /\ d.expiresAt <= q.receipts[d.req].expiresAt
    BY <1>4, <2>1 DEF Covered, SameEntry, D
  <2> QED
    BY <1>1, <2>2, <2>3 DEF Covered
<1>9. Sound(k, n)
  BY <1>1, <1>3, <1>6, <1>7, <1>8 DEF Sound
<1> QED
  BY <1>9 DEF k, E, D

\* Entries and receipts that expire:
LEMMA SoundPruned ==
    ASSUME NEW q \in QueueState, NEW n, NEW m \in Nat, Sound(q, n)
    PROVE  Sound(PruneExpired(q, m), n)
<1> DEFINE k == PruneExpired(q, m)
<1> DEFINE live == {d \in q.deliveries : d.expiresAt > m}
<1>1. k.deliveries = live
  BY DEF PruneExpired
<1>2. ASSUME NEW r \in Requests
      PROVE  \/ /\ k.receipts[r] = NoReceipt
                /\ \/ q.receipts[r] = NoReceipt
                   \/ q.receipts[r].expiresAt <= m
                   \/ \E d \in q.deliveries \ live : d.req = r
             \/ /\ k.receipts[r] = q.receipts[r]
                /\ ~ /\ q.receipts[r] # NoReceipt /\ q.receipts[r].state = "queued"
                     /\ \E d \in q.deliveries \ live : d.req = r /\ d.id = q.receipts[r].id
  BY DEF PruneExpired
<1>3. IsFiniteSet(live) /\ Cardinality(live) <= QueueMax
  BY FewerEntries DEF Sound
<1>t. \A d \in q.deliveries : d.req \in Requests /\ d.expiresAt \in Nat
  BY DEF QueueState, Delivery
<1>u. \A r \in Requests : q.receipts[r] = NoReceipt \/ q.receipts[r].expiresAt \in Nat
  BY DEF QueueState, Receipt
<1> HIDE DEF k
<1>4. Backed(k)
  <2> SUFFICES ASSUME NEW r \in Requests, k.receipts[r].state = "queued"
               PROVE  \E d \in live : d.req = r /\ d.id = k.receipts[r].id
    BY <1>1 DEF Backed
  <2>1. k.receipts[r] # NoReceipt
    BY DEF NoReceipt
  <2>2. k.receipts[r] = q.receipts[r]
    BY <1>2, <2>1
  <2>3. PICK d \in q.deliveries : d.req = r /\ d.id = q.receipts[r].id
    BY <2>2 DEF Sound, Backed
  <2>4. d \in live
    BY <1>2, <2>1, <2>2, <2>3
  <2> QED
    BY <2>2, <2>3, <2>4
<1>5. Single => Covered(k)
  <2> SUFFICES ASSUME Single PROVE Covered(k)
    OBVIOUS
  <2>1. Covered(q)
    BY DEF Sound
  <2>2. ASSUME NEW d \in live
        PROVE  k.receipts[d.req] # NoReceipt /\ d.expiresAt <= k.receipts[d.req].expiresAt
    <3>1. d.req \in Requests /\ q.receipts[d.req] # NoReceipt /\ d.expiresAt <= q.receipts[d.req].expiresAt
      BY <2>1, <1>t DEF Covered
    <3>2. ~(q.receipts[d.req].expiresAt <= m)
      BY <3>1, <1>t, <1>u
    <3>3. ~ \E e \in q.deliveries \ live : e.req = d.req
      BY <2>1 DEF Covered
    <3>4. k.receipts[d.req] = q.receipts[d.req]
      BY <1>2, <3>1, <3>2, <3>3
    <3> QED
      BY <3>1, <3>4
  <2> QED
    BY <1>1, <2>1, <2>2 DEF Covered
<1>6. Sound(k, n)
  BY <1>1, <1>3, <1>4, <1>5 DEF Sound
<1> QED
  BY <1>6 DEF k

\* An entry that leaves the queue unaccepted:
LEMMA SoundDropped ==
    ASSUME NEW q \in QueueState, NEW n, Sound(q, n), NEW d \in q.deliveries
    PROVE  Sound(DropDelivery(q, d), n)
<1> DEFINE k == DropDelivery(q, d)
<1>1. k.deliveries = q.deliveries \ {d}
  BY DEF DropDelivery
<1>2. ASSUME NEW r \in Requests
      PROVE  \/ r = d.req /\ k.receipts[r] = NoReceipt
             \/ /\ k.receipts[r] = q.receipts[r]
                /\ ~(r = d.req /\ q.receipts[r] # NoReceipt /\ q.receipts[r].id = d.id
                               /\ q.receipts[r].state = "queued")
  BY DEF DropDelivery, DeleteQueuedReceipt
<1>3. IsFiniteSet(k.deliveries) /\ Cardinality(k.deliveries) <= QueueMax
  <2>1. q.deliveries \ {d} \in SUBSET q.deliveries
    OBVIOUS
  <2> QED
    BY <1>1, <2>1, FewerEntries DEF Sound
<1>t. \A e \in q.deliveries : e.req \in Requests
  BY DEF QueueState, Delivery
<1> HIDE DEF k
<1>4. Backed(k)
  <2> SUFFICES ASSUME NEW r \in Requests, k.receipts[r].state = "queued"
               PROVE  \E e \in k.deliveries : e.req = r /\ e.id = k.receipts[r].id
    BY DEF Backed
  <2>1. k.receipts[r] # NoReceipt
    BY DEF NoReceipt
  <2>2. k.receipts[r] = q.receipts[r]
    BY <1>2, <2>1
  <2>3. PICK e \in q.deliveries : e.req = r /\ e.id = q.receipts[r].id
    BY <2>2 DEF Sound, Backed
  <2>4. e # d
    BY <1>2, <2>1, <2>2, <2>3
  <2> QED
    BY <1>1, <2>2, <2>3, <2>4
<1>5. Single => Covered(k)
  <2> SUFFICES ASSUME Single PROVE Covered(k)
    OBVIOUS
  <2>1. Covered(q)
    BY DEF Sound
  <2>2. ASSUME NEW e \in k.deliveries
        PROVE  k.receipts[e.req] = q.receipts[e.req]
    BY <1>1, <1>2, <1>t, <2>1 DEF Covered
  <2> QED
    BY <1>1, <2>1, <2>2 DEF Covered
<1>6. Sound(k, n)
  BY <1>1, <1>3, <1>4, <1>5 DEF Sound
<1> QED
  BY <1>6 DEF k

\* A receipt that says something else than "queued", with or without the entry
\* of its request:
LEMMA SoundReceipt ==
    ASSUME NEW q \in QueueState, NEW n, Sound(q, n), NEW r \in Requests,
           NEW receipt \in Receipt, receipt.state # "queued",
           NEW D \in SUBSET q.deliveries, \A d \in q.deliveries \ D : d.req = r,
           Single => \A d \in D : d.req = r => d.expiresAt <= receipt.expiresAt
    PROVE  Sound(UpsertReceipt([q EXCEPT !.deliveries = D], r, receipt), n)
<1> DEFINE k == UpsertReceipt([q EXCEPT !.deliveries = D], r, receipt)
<1>1. k.deliveries = D
  BY DEF UpsertReceipt, QueueState
<1>2. \A x \in Requests : k.receipts[x] = IF x = r THEN receipt ELSE q.receipts[x]
  BY DEF UpsertReceipt, QueueState
<1>3. IsFiniteSet(D) /\ Cardinality(D) <= QueueMax
  BY FewerEntries DEF Sound
<1>t. \A e \in q.deliveries : e.req \in Requests
  BY DEF QueueState, Delivery
<1>u. receipt # NoReceipt
  <2>1. receipt.state \in {"queued", "delivered", "delivered_to_webhook", "dead_lettered"}
    BY DEF Receipt, TerminalStates
  <2> QED
    BY <2>1 DEF NoReceipt
<1> HIDE DEF k
<1>4. Backed(k)
  <2> SUFFICES ASSUME NEW x \in Requests, k.receipts[x].state = "queued"
               PROVE  \E e \in D : e.req = x /\ e.id = k.receipts[x].id
    BY <1>1 DEF Backed
  <2>1. x # r /\ k.receipts[x] = q.receipts[x]
    BY <1>2
  <2>2. PICK e \in q.deliveries : e.req = x /\ e.id = q.receipts[x].id
    BY <2>1 DEF Sound, Backed
  <2> QED
    BY <2>1, <2>2
<1>5. Single => Covered(k)
  <2> SUFFICES ASSUME Single PROVE Covered(k)
    OBVIOUS
  <2>1. Covered(q)
    BY DEF Sound
  <2>2. ASSUME NEW e \in D
        PROVE  k.receipts[e.req] # NoReceipt /\ e.expiresAt <= k.receipts[e.req].expiresAt
    <3>1. CASE e.req = r
      BY <3>1, <1>2, <1>u
    <3>2. CASE e.req # r
      BY <3>2, <1>2, <1>t, <2>1 DEF Covered
    <3> QED
      BY <3>1, <3>2
  <2> QED
    BY <1>1, <2>1, <2>2 DEF Covered
<1>6. Sound(k, n)
  BY <1>1, <1>3, <1>4, <1>5 DEF Sound
<1> QED
  BY <1>6 DEF k

\* A new entry with its queued receipt:
LEMMA SoundQueued ==
    ASSUME NEW q \in QueueState, NEW n, Sound(q, n), NEW d \in Delivery,
           NEW receipt \in Receipt, receipt.id = d.id, d.expiresAt = receipt.expiresAt,
           d.attempts < RetryMaxAttempts, d.expiresAt <= n + QueueTtl,
           Cardinality(q.deliveries) < QueueMax,
           Single => \A e \in q.deliveries : e.req # d.req
    PROVE  Sound(UpsertReceipt([q EXCEPT !.deliveries = @ \cup {d}], d.req, receipt), n)
<1> DEFINE k == UpsertReceipt([q EXCEPT !.deliveries = @ \cup {d}], d.req, receipt)
<1>1. k.deliveries = q.deliveries \cup {d}
  BY DEF UpsertReceipt, QueueState
<1>2. \A x \in Requests : k.receipts[x] = IF x = d.req THEN receipt ELSE q.receipts[x]
  BY DEF UpsertReceipt, QueueState
<1> HIDE DEF k
<1>3. IsFiniteSet(k.deliveries) /\ Cardinality(k.deliveries) <= QueueMax
  <2>1. IsFiniteSet(q.deliveries)
    BY DEF Sound
  <2>2. /\ IsFiniteSet(q.deliveries \cup {d})
        /\ \/ Cardinality(q.deliveries \cup {d}) = Cardinality(q.deliveries)
           \/ Cardinality(q.deliveries \cup {d}) = Cardinality(q.deliveries) + 1
    BY <2>1, FS_AddElement
  <2>3. Cardinality(q.deliveries) \in Nat
    BY <2>1, FS_CardinalityType
  <2> QED
    BY <1>1, <2>2, <2>3, PolicyAssumption
<1>t. d.req \in Requests /\ d.expiresAt \in Nat /\ \A e \in q.deliveries : e.req \in Requests
  BY DEF QueueState, Delivery
<1>u. receipt # NoReceipt
  <2>1. receipt.state \in {"queued", "delivered", "delivered_to_webhook", "dead_lettered"}
    BY DEF Receipt, TerminalStates
  <2> QED
    BY <2>1 DEF NoReceipt
<1>v. \A e \in k.deliveries : e.attempts < RetryMaxAttempts /\ e.expiresAt <= n + QueueTtl
  BY <1>1 DEF Sound
<1>4. Backed(k)
  BY <1>1, <1>2 DEF Sound, Backed
<1>5. Single => Covered(k)
  <2> SUFFICES ASSUME Single PROVE Covered(k)
    OBVIOUS
  <2>1. Covered(q) /\ \A e \in q.deliveries : e.req # d.req
    BY DEF Sound
  <2>2. ASSUME NEW e \in k.deliveries
        PROVE  k.receipts[e.req] # NoReceipt /\ e.expiresAt <= k.receipts[e.req].expiresAt
    <3>1. CASE e = d
      BY <3>1, <1>2, <1>t, <1>u
    <3>2. CASE e \in q.deliveries
      BY <3>2, <1>2, <1>t, <2>1 DEF Covered
    <3> QED
      BY <1>1, <3>1, <3>2
  <2> QED
    BY <1>1, <2>1, <2>2 DEF Covered
<1>6. Sound(k, n)
  BY <1>3, <1>v, <1>4, <1>5 DEF Sound
<1> QED
  BY <1>6 DEF k

\* The passing of time:
LEMMA SoundLater ==
    ASSUME NEW q \in QueueState, NEW n \in Nat, Sound(q, n)
    PROVE  Sound(q, n + 1)
<1>1. \A d \in q.deliveries : d.expiresAt \in Nat
  BY DEF QueueState, Delivery
<1> QED
  BY <1>1, PolicyAssumption DEF Sound

\* The empty queue of a new object or a free slot:
LEMMA SoundEmpty ==
    ASSUME NEW n
    PROVE  Sound(EmptyQueue, n)
<1>1. IsFiniteSet({}) /\ Cardinality({}) = 0
  BY FS_EmptySet
<1>2. EmptyQueue.deliveries = {} /\ \A r \in Requests : EmptyQueue.receipts[r] = NoReceipt
  BY DEF EmptyQueue
<1>3. NoReceipt.state # "queued"
  BY DEF NoReceipt
<1> QED
  BY <1>1, <1>2, <1>3, PolicyAssumption DEF Sound, Backed, Covered

\* One entry that is rescheduled:
LEMMA SoundReplaced ==
    ASSUME NEW q \in QueueState, NEW n, Sound(q, n), NEW d \in q.deliveries,
           NEW e \in Delivery, SameEntry(d, e)
    PROVE  Sound(ReplaceDelivery(q, d, e), n)
<1> DEFINE f == [x \in q.deliveries |-> IF x = d THEN e ELSE x]
<1>0. q.deliveries \subseteq Delivery
  BY DEF QueueState
<1>1. f \in [q.deliveries -> Delivery]
  BY <1>0
<1>2. \A x \in q.deliveries : SameEntry(x, f[x])
  BY DEF SameEntry
<1>3. {f[x] : x \in q.deliveries} = (q.deliveries \ {d}) \cup {e}
  OBVIOUS
<1> HIDE DEF f
<1>4. Sound([q EXCEPT !.deliveries = {f[x] : x \in q.deliveries}], n)
  BY <1>1, <1>2, SoundRescheduled
<1> QED
  BY <1>3, <1>4 DEF ReplaceDelivery

\* Several entries that are postponed:
LEMMA SoundPostponed ==
    ASSUME NEW q \in QueueState, NEW n, Sound(q, n), NEW m \in Nat,
           NEW D \in SUBSET q.deliveries, NEW delay \in DelayDraws(D)
    PROVE  Sound([q EXCEPT !.deliveries = (@ \ D) \cup Postpone(D, m, delay)], n)
<1> DEFINE late(x) == IF x.nextAttempt <= m THEN [x EXCEPT !.nextAttempt = m + delay[x]] ELSE x
<1> DEFINE f == [x \in q.deliveries |-> IF x \in D THEN late(x) ELSE x]
<1>0. q.deliveries \subseteq Delivery
  BY DEF QueueState
<1>a. \A x \in D : delay[x] \in Nat
  BY PolicyAssumption DEF DelayDraws
<1>b. \A x \in D : late(x) \in Delivery /\ SameEntry(x, late(x))
  BY <1>0, <1>a DEF Delivery, SameEntry
<1>p. Postpone(D, m, delay) = {late(x) : x \in D}
  BY DEF Postpone
<1> HIDE DEF late
<1>1. f \in [q.deliveries -> Delivery]
  BY <1>0, <1>b
<1>2. \A x \in q.deliveries : SameEntry(x, f[x])
  BY <1>b DEF SameEntry
<1>3. {f[x] : x \in q.deliveries} = (q.deliveries \ D) \cup {late(x) : x \in D}
  OBVIOUS
<1> HIDE DEF f
<1>4. Sound([q EXCEPT !.deliveries = {f[x] : x \in q.deliveries}], n)
  BY <1>1, <1>2, SoundRescheduled
<1> QED
  BY <1>3, <1>4, <1>p

\* The entries that a reconnection makes due:
MadeDue(q, n) ==
    [q EXCEPT !.deliveries =
        {IF d.nextAttempt > n THEN [d EXCEPT !.nextAttempt = n] ELSE d : d \in @}]

\* keep their deliveries and receipts together too.
LEMMA SoundMadeDue ==
    ASSUME NEW q \in QueueState, NEW n \in Nat, Sound(q, n)
    PROVE  Sound(MadeDue(q, n), n)
<1> DEFINE soon(x) == IF x.nextAttempt > n THEN [x EXCEPT !.nextAttempt = n] ELSE x
<1> DEFINE f == [x \in q.deliveries |-> soon(x)]
<1>0. q.deliveries \subseteq Delivery
  BY DEF QueueState
<1>b. \A x \in q.deliveries : soon(x) \in Delivery /\ SameEntry(x, soon(x))
  BY <1>0 DEF Delivery, SameEntry
<1>p. MadeDue(q, n) = [q EXCEPT !.deliveries = {soon(x) : x \in q.deliveries}]
  BY DEF MadeDue
<1> HIDE DEF soon
<1>1. f \in [q.deliveries -> Delivery]
  BY <1>b
<1>2. \A x \in q.deliveries : SameEntry(x, f[x])
  BY <1>b
<1>3. {f[x] : x \in q.deliveries} = {soon(x) : x \in q.deliveries}
  OBVIOUS
<1> HIDE DEF f
<1>4. Sound([q EXCEPT !.deliveries = {f[x] : x \in q.deliveries}], n)
  BY <1>1, <1>2, SoundRescheduled
<1> QED
  BY <1>3, <1>4, <1>p

\* What a handler may leave behind when it waits or ends.
Keeps(c) ==
    /\ Sound(c.q, now) /\ Working(c) /\ Fresh(c)
    /\ c.phase = "await" => PendingCount < MaxInFlight

\* A step of one coroutine.
LEMMA MailKeeps ==
    ASSUME TypeInv, MailInv, NEW p \in Procs, NEW c, proc' = [proc EXCEPT ![p] = c],
           now' = now, Sound(store', now), Keeps(c)
    PROVE  MailInv'
<1>1. \A o \in Procs : proc'[o] = IF o = p THEN c ELSE proc[o]
  BY DEF TypeInv, TypeOK
<1>2. \A o \in Procs : Sound(proc'[o].q, now') /\ Working(proc'[o]) /\ Fresh(proc'[o])
  BY <1>1 DEF MailInv, Keeps
<1>3. Cardinality(Waiting') <= MaxInFlight
  <2>0. IsFiniteSet(Procs) /\ IsFiniteSet(Waiting) /\ Waiting \subseteq Procs
    BY BoundAssumption, FS_Subset DEF Waiting
  <2>1. Cardinality(Waiting) \in Nat
    BY <2>0, FS_CardinalityType
  <2>2. CASE c.phase = "await"
    <3>1. Waiting' \subseteq Waiting \cup {p}
      BY <1>1 DEF Waiting
    <3>2. /\ IsFiniteSet(Waiting \cup {p})
          /\ \/ Cardinality(Waiting \cup {p}) = Cardinality(Waiting)
             \/ Cardinality(Waiting \cup {p}) = Cardinality(Waiting) + 1
      BY <2>0, FS_AddElement
    <3>3. IsFiniteSet(Waiting') /\ Cardinality(Waiting') <= Cardinality(Waiting \cup {p})
      BY <3>1, <3>2, FS_Subset
    <3>4. Cardinality(Waiting') \in Nat
      BY <3>3, FS_CardinalityType
    <3>5. Cardinality(Waiting) < MaxInFlight
      BY <2>2 DEF Keeps, PendingCount
    <3> QED
      BY <2>1, <3>2, <3>3, <3>4, <3>5, PolicyAssumption
  <2>3. CASE c.phase # "await"
    <3>1. Waiting' \subseteq Waiting
      BY <1>1, <2>3 DEF Waiting
    <3>3. IsFiniteSet(Waiting') /\ Cardinality(Waiting') <= Cardinality(Waiting)
      BY <2>0, <3>1, FS_Subset
    <3>4. Cardinality(Waiting') \in Nat
      BY <3>3, FS_CardinalityType
    <3>5. Cardinality(Waiting) <= MaxInFlight
      BY DEF MailInv, WindowBound, PendingCount
    <3> QED
      BY <2>1, <3>3, <3>4, <3>5, PolicyAssumption
  <2> QED
    BY <2>2, <2>3
<1>4. Sound(store', now') /\ WindowBound'
  BY <1>3 DEF WindowBound, PendingCount
<1> QED
  BY <1>2, <1>4 DEF MailInv

\* A step of no coroutine.
LEMMA MailStays ==
    ASSUME MailInv, proc' = proc, now' = now, Sound(store', now)
    PROVE  MailInv'
<1>1. WindowBound'
  BY DEF MailInv, WindowBound, PendingCount, Waiting
<1> QED
  BY <1>1 DEF MailInv

\* A free slot holds nothing.
LEMMA KeepsIdle == Keeps(Idle)
<1>1. /\ Idle.q = EmptyQueue /\ Idle.todo = {} /\ Idle.cur = {}
      /\ Idle.kind = "idle" /\ Idle.phase = "idle"
  BY DEF Idle
<1>2. Sound(Idle.q, now)
  BY <1>1, SoundEmpty
<1>3. Working(Idle)
  BY <1>1 DEF Working
<1>4. Fresh(Idle)
  BY <1>1 DEF Fresh
<1> QED
  BY <1>1, <1>2, <1>3, <1>4 DEF Keeps

\* A load leaves the stored queue sound, and well formed.
LEMMA LoadedSound ==
    ASSUME TypeInv, MailInv
    PROVE  PruneExpired(store, now) \in QueueState /\ Sound(PruneExpired(store, now), now)
<1>1. now \in Nat /\ store \in QueueState
  BY DEF TypeInv, TypeOK
<1>2. Sound(store, now)
  BY DEF MailInv
<1> QED
  BY <1>1, <1>2, PruneType, SoundPruned

\* deliverToConnector goes on only when its request has no entry: with one
\* sender and one recipient the receipt of an entry answers the call.
LEMMA MailDeliver ==
    ASSUME TypeInv, MailInv, NEW p \in Procs, NEW r \in Inbound, NEW route \in Routes,
           Deliver(p, r, route)
    PROVE  MailInv'
<1> DEFINE q == PruneExpired(store, now)
<1> DEFINE start == [Idle EXCEPT !.kind = "deliver", !.phase = "run", !.n = now,
                                 !.q = q, !.id = nextId, !.req = r, !.route = route]
<1> DEFINE known == q.receipts[r] # NoReceipt /\ q.receipts[r].route = route
<1> DEFINE Began(c) == /\ c.kind = "deliver" /\ c.q = q /\ c.todo = {} /\ c.cur = {} /\ c.req = r
                       /\ c.phase = "await" => PendingCount < MaxInFlight
<1> DEFINE Begun == \E c : proc' = [proc EXCEPT ![p] = c] /\ Began(c)
<1>0. q \in QueueState /\ Sound(q, now)
  BY LoadedSound
<1>1. now' = now /\ store' = q
  BY DEF Deliver
<1>2. UNCHANGED proc \/ (~known /\ Begun)
  <2>1. ASSUME NEW s, SendDeliverFrame(p, s, [start EXCEPT !.attempts = 1], r \in GroupRequests),
               PendingCount < MaxInFlight
        PROVE  Begun
    <3> DEFINE tried == [start EXCEPT !.attempts = 1]
    <3> DEFINE waits == [tried EXCEPT !.phase = "await", !.sock = s,
                                      !.group = (r \in GroupRequests)]
    <3> DEFINE fails == [tried EXCEPT !.outcome = "error"]
    <3>1. proc' = [proc EXCEPT ![p] = waits] \/ proc' = [proc EXCEPT ![p] = fails]
      BY <2>1 DEF SendDeliverFrame
    <3>2. Began(waits) /\ Began(fails)
      BY <2>1 DEF Idle
    <3> HIDE DEF waits, fails, Began
    <3> QED
      BY <3>1, <3>2
  <2>2. ASSUME proc' = [proc EXCEPT ![p] = [start EXCEPT !.outcome = "refused"]]
        PROVE  Begun
    <3> DEFINE unsent == [start EXCEPT !.outcome = "refused"]
    <3>1. Began(unsent)
      BY DEF Idle
    <3> HIDE DEF unsent, Began
    <3> QED
      BY <2>2, <3>1 DEF unsent
  <2> DEFINE Sends == \E s : SendDeliverFrame(p, s, [start EXCEPT !.attempts = 1], r \in GroupRequests)
  <2> DEFINE Refuses == proc' = [proc EXCEPT ![p] = [start EXCEPT !.outcome = "refused"]]
  <2>5. (PendingCount < MaxInFlight /\ Sends => Begun) /\ (Refuses => Begun)
    BY <2>1, <2>2
  <2>6. UNCHANGED proc \/ ~known
    BY DEF Deliver
  <2>7. \/ UNCHANGED proc
        \/ /\ PendingCount < MaxInFlight
           /\ \E s \in Active(now) :
                 SendDeliverFrame(p, s, [start EXCEPT !.attempts = 1], r \in GroupRequests)
        \/ proc' = [proc EXCEPT ![p] = [start EXCEPT !.outcome = "refused"]]
    BY DEF Deliver
  <2>8. (\E s \in Active(now) :
                 SendDeliverFrame(p, s, [start EXCEPT !.attempts = 1], r \in GroupRequests)) => Sends
    BY Zenon
  <2>9. UNCHANGED proc \/ (PendingCount < MaxInFlight /\ Sends) \/ Refuses
    BY <2>7, <2>8, Zenon
  <2> HIDE DEF Begun, known, Sends, Refuses
  <2> QED
    BY <2>5, <2>6, <2>9
<1>3. CASE UNCHANGED proc
  BY <1>0, <1>1, <1>3, MailStays
<1>4. CASE ~known /\ Begun
  <2>1. PICK c : proc' = [proc EXCEPT ![p] = c] /\ Began(c)
    BY <1>4
  <2>2. ASSUME Single, NEW d \in q.deliveries PROVE d.req # r
    <3> HIDE DEF q
    <3>1. SUFFICES ASSUME d.req = r PROVE FALSE
      OBVIOUS
    <3>2. q.receipts[r] # NoReceipt
      BY <1>0, <2>2, <3>1 DEF Sound, Covered
    <3>3. r \in Requests
      BY DEF Requests
    <3>4. q.receipts[r].route \in Routes
      BY <1>0, <3>2, <3>3 DEF QueueState, Receipt
    <3> QED
      BY <1>4, <2>2, <3>2, <3>4 DEF Single
  <2> HIDE DEF q
  <2>3. Fresh(c) /\ Working(c)
    BY <2>1, <2>2 DEF Fresh, Working
  <2>4. Keeps(c)
    BY <1>0, <2>1, <2>3 DEF Keeps
  <2> QED
    BY <1>0, <1>1, <2>1, <2>4, MailKeeps
<1> QED
  BY <1>2, <1>3, <1>4

\* The loop starts with the whole queue, or with nothing left to do.
LEMMA EnterLoopKeeps ==
    ASSUME TypeInv, NEW p \in Procs, NEW kind \in {"alarm", "drain"}, NEW q \in QueueState,
           Sound(q, now), NEW act, NEW mutated, EnterLoop(p, LoopStart(kind), q, act, mutated)
    PROVE  proc' = [proc EXCEPT ![p] = proc'[p]] /\ Keeps(proc'[p])
<1> DEFINE start == LoopStart(kind)
<1>0. now \in Nat
  BY DEF TypeInv, TypeOK
<1>1. start \in Coroutine /\ start.kind = kind /\ start.n = now
  BY <1>0, LoopStartType
<1>a. start.todo = {} /\ start.cur = {} /\ start.phase = "run"
  BY DEF LoopStart, Idle
<1> HIDE DEF start
<1>2. CASE \E s : proc' = [proc EXCEPT ![p] = [start EXCEPT !.q = q, !.todo = q.deliveries,
                                               !.sock = s, !.mutated = mutated]]
  <2>1. PICK s : proc' = [proc EXCEPT ![p] = [start EXCEPT !.q = q, !.todo = q.deliveries,
                                               !.sock = s, !.mutated = mutated]]
    BY <1>2, Zenon
  <2> DEFINE c == [start EXCEPT !.q = q, !.todo = q.deliveries, !.sock = s, !.mutated = mutated]
  <2>2. c.kind = kind /\ c.q = q /\ c.todo = q.deliveries /\ c.cur = {} /\ c.phase = "run"
    BY <1>1, <1>a DEF Coroutine
  <2> HIDE DEF c
  <2>3. Keeps(c)
    BY <2>2 DEF Keeps, Working, Fresh
  <2>4. proc' = [proc EXCEPT ![p] = c] /\ proc'[p] = c
    BY <2>1 DEF c, TypeInv, TypeOK
  <2> QED
    BY <2>3, <2>4
<1>3. CASE \E delay \in DelayDraws(q.deliveries) :
             proc' = [proc EXCEPT ![p] = [start EXCEPT
                        !.q = [q EXCEPT !.deliveries = Postpone(@, start.n, delay)],
                        !.mutated = mutated \/ Due(q.deliveries, start.n) # {}]]
  <2>1. PICK delay \in DelayDraws(q.deliveries) :
             proc' = [proc EXCEPT ![p] = [start EXCEPT
                        !.q = [q EXCEPT !.deliveries = Postpone(@, start.n, delay)],
                        !.mutated = mutated \/ Due(q.deliveries, start.n) # {}]]
    BY <1>3, Zenon
  <2> DEFINE newq == [q EXCEPT !.deliveries = Postpone(@, start.n, delay)]
  <2> DEFINE m == mutated \/ Due(q.deliveries, start.n) # {}
  <2> DEFINE c == [start EXCEPT !.q = newq, !.mutated = m]
  <2>2. Sound(newq, now)
    <3>1. q.deliveries \in SUBSET q.deliveries /\ start.n \in Nat
      BY <1>0, <1>1
    <3>2. Sound([q EXCEPT !.deliveries = (@ \ q.deliveries) \cup Postpone(q.deliveries, start.n, delay)], now)
      BY <2>1, <3>1, SoundPostponed
    <3>3. (q.deliveries \ q.deliveries) \cup Postpone(q.deliveries, start.n, delay)
            = Postpone(q.deliveries, start.n, delay)
      OBVIOUS
    <3> QED
      BY <3>2, <3>3
  <2> HIDE DEF newq, m
  <2>3. c.kind = kind /\ c.q = newq /\ c.todo = {} /\ c.cur = {} /\ c.phase = "run"
    BY <1>1, <1>a DEF Coroutine
  <2> HIDE DEF c
  <2>4. Keeps(c)
    BY <2>2, <2>3 DEF Keeps, Working, Fresh
  <2>5. proc' = [proc EXCEPT ![p] = c] /\ proc'[p] = c
    BY <2>1 DEF c, newq, m, TypeInv, TypeOK
  <2> QED
    BY <2>4, <2>5
<1> QED
  BY <1>2, <1>3, Zenon DEF EnterLoop, start

\* The alarm handler works on what it loaded.
LEMMA MailAlarm ==
    ASSUME TypeInv, MailInv, NEW p \in Procs, Alarm(p)
    PROVE  MailInv'
<1> DEFINE q == PruneExpired(store, now)
<1> DEFINE act == Active(now) \ {s \in Active(now) : sock[s] # "open"}
<1>0. q \in QueueState /\ Sound(q, now)
  BY LoadedSound
<1>1. now' = now /\ store' = q /\ EnterLoop(p, LoopStart("alarm"), q, act, FALSE)
  BY DEF Alarm
<1> HIDE DEF q, act
<1>2. PICK c : proc' = [proc EXCEPT ![p] = c] /\ Keeps(c)
  <2>1. "alarm" \in {"alarm", "drain"}
    OBVIOUS
  <2> QED
    BY <1>0, <1>1, <2>1, EnterLoopKeeps
<1> QED
  BY <1>0, <1>1, <1>2, MailKeeps

\* A reconnection works on what it loaded, with every entry made due.
LEMMA MailConnect ==
    ASSUME TypeInv, MailInv, NEW p \in Procs, NEW s \in Sockets, Connect(p, s)
    PROVE  MailInv'
<1> DEFINE loaded == PruneExpired(store, now)
<1> DEFINE q == MadeDue(loaded, now)
<1>0. loaded \in QueueState /\ Sound(loaded, now) /\ now \in Nat
  BY LoadedSound DEF TypeInv, TypeOK
<1>1. now' = now /\ store' = loaded /\ EnterLoop(p, LoopStart("drain"), q, {s}, q # loaded)
  BY DEF Connect, MadeDue
<1> HIDE DEF loaded
<1>2. q \in QueueState
  <2>1. \A d \in Delivery : [d EXCEPT !.nextAttempt = now] \in Delivery
    BY <1>0 DEF Delivery
  <2>3. {IF d.nextAttempt > now THEN [d EXCEPT !.nextAttempt = now] ELSE d :
            d \in loaded.deliveries} \in SUBSET Delivery
    BY <2>1, <1>0 DEF QueueState
  <2> QED
    BY <1>0, <2>3 DEF QueueState, MadeDue
<1>3. Sound(q, now)
  BY <1>0, SoundMadeDue
<1> HIDE DEF q
<1>4. PICK c : proc' = [proc EXCEPT ![p] = c] /\ Keeps(c)
  <2>1. "drain" \in {"alarm", "drain"}
    OBVIOUS
  <2> QED
    BY <1>1, <1>2, <1>3, <2>1, EnterLoopKeeps
<1> QED
  BY <1>0, <1>1, <1>4, MailKeeps

\* recordDeliveryReceipt writes a terminal receipt over what it loaded; the
\* entry it may still have is delivered or expires before that receipt does.
LEMMA MailRecord ==
    ASSUME TypeInv, MailInv, NEW r \in Outbound, NEW route \in Routes,
           NEW status \in TerminalStates, RecordReceipt(r, route, status)
    PROVE  MailInv'
<1> DEFINE q == PruneExpired(store, now)
<1> DEFINE rec == q.receipts[r]
<1> DEFINE id == IF rec = NoReceipt THEN 0 ELSE rec.id
<1> DEFINE receipt == [state |-> status, id |-> id, route |-> route, expiresAt |-> now + QueueTtl]
<1>0. q \in QueueState /\ Sound(q, now) /\ now \in Nat
  BY LoadedSound DEF TypeInv, TypeOK
<1>1. now' = now /\ proc' = proc
  BY DEF RecordReceipt
<1>2. store' = q \/ store' = UpsertReceipt(q, r, receipt)
  BY DEF RecordReceipt, SaveAndSchedule
<1> HIDE DEF q
<1>3. r \in Requests
  BY DEF Requests
<1>4. id \in Ids \cup {0}
  <2>1. rec = NoReceipt \/ rec \in Receipt
    BY <1>0, <1>3 DEF QueueState
  <2> QED
    BY <2>1 DEF Receipt
<1>5. receipt.expiresAt = now + QueueTtl /\ receipt.state = status
  OBVIOUS
<1> HIDE DEF id
<1>6. receipt \in Receipt
  BY <1>0, <1>4, PolicyAssumption DEF Receipt
<1> HIDE DEF receipt
<1>7. Sound(UpsertReceipt(q, r, receipt), now)
  <2>1. receipt.state # "queued"
    BY <1>5 DEF TerminalStates
  <2>2. \A d \in q.deliveries : d.expiresAt <= receipt.expiresAt
    BY <1>0, <1>5 DEF Sound
  <2>3. q.deliveries \in SUBSET q.deliveries /\ \A d \in q.deliveries \ q.deliveries : d.req = r
    OBVIOUS
  <2>4. Sound(UpsertReceipt([q EXCEPT !.deliveries = q.deliveries], r, receipt), now)
    BY <1>0, <1>3, <1>6, <2>1, <2>2, <2>3, SoundReceipt
  <2>5. [q EXCEPT !.deliveries = q.deliveries] = q
    BY <1>0 DEF QueueState
  <2> QED
    BY <2>4, <2>5
<1>8. Sound(store', now)
  BY <1>0, <1>2, <1>7
<1> QED
  BY <1>1, <1>8, MailStays

\* What the handlers of a socket, and getDeliveryReceipt, do to the mail: a load.
LEMMA MailLoad ==
    ASSUME TypeInv, MailInv, now' = now, proc' = proc, store' = PruneExpired(store, now)
    PROVE  MailInv'
BY LoadedSound, MailStays

\* A loop's coroutine and what is known of it.
LEMMA LoopFacts ==
    ASSUME TypeInv, MailInv, ClocksBehind, NEW p \in Procs
    PROVE  /\ proc[p] \in Coroutine /\ proc[p].q \in QueueState
           /\ proc[p].n \in Nat /\ proc[p].n <= now /\ now \in Nat
           /\ Sound(proc[p].q, now) /\ Sound(store, now)
           /\ proc[p].todo \subseteq proc[p].q.deliveries
           /\ proc[p].cur \subseteq proc[p].q.deliveries
           /\ proc[p].todo \cap proc[p].cur = {}
           /\ proc[p].q.deliveries \subseteq Delivery
<1>1. proc[p] \in Coroutine /\ now \in Nat
  BY DEF TypeInv, TypeOK
<1>2. proc[p].q \in QueueState /\ proc[p].n \in Nat
  BY <1>1 DEF Coroutine
<1>3. proc[p].q.deliveries \subseteq Delivery
  BY <1>2 DEF QueueState
<1> QED
  BY <1>1, <1>2, <1>3 DEF MailInv, Working, ClocksBehind

\* A loop that goes on with another copy stores nothing yet.
LEMMA MailContinue ==
    ASSUME TypeInv, MailInv, NEW p \in Procs, proc[p].kind \in {"alarm", "drain"},
           proc[p].phase = "run", NEW q, Sound(q, now), NEW todo \in SUBSET q.deliveries,
           proc' = [proc EXCEPT ![p] = Continue(proc[p], q, todo)], now' = now, store' = store
    PROVE  MailInv'
<1> DEFINE c == Continue(proc[p], q, todo)
<1>1. proc[p] \in Coroutine
  BY DEF TypeInv, TypeOK
<1>2. /\ c.q = q /\ c.todo = todo /\ c.cur = {} /\ c.kind = proc[p].kind
      /\ c.phase = "run"
  BY <1>1 DEF Continue, Coroutine
<1> HIDE DEF c
<1>3. Keeps(c)
  BY <1>2 DEF Keeps, Working, Fresh
<1>4. Sound(store', now)
  BY DEF MailInv
<1>5. proc' = [proc EXCEPT ![p] = c]
  BY DEF c
<1> QED
  BY <1>3, <1>4, <1>5, MailKeeps

\* An entry that is skipped leaves the list, and the copy when it must be dropped.
LEMMA MailSkip ==
    ASSUME TypeInv, MailInv, ClocksBehind, NEW p \in Procs, NEW d, LoopSkip(p, d)
    PROVE  MailInv'
<1> DEFINE c == proc[p]
<1> DEFINE q == IF MustDrop(d, c.n) THEN DropDelivery(c.q, d) ELSE c.q
<1> DEFINE m == c.mutated \/ MustDrop(d, c.n)
<1> DEFINE next == [c EXCEPT !.todo = @ \ {d}, !.q = q, !.mutated = m]
<1>1. c \in Coroutine /\ c.kind \in {"alarm", "drain"} /\ c.phase = "run" /\ d \in c.todo
  BY DEF TypeInv, TypeOK, LoopSkip, InLoop, NextEntry
<1>2. Sound(q, now)
  BY <1>1, LoopFacts, SoundDropped
<1>3. c.todo \ {d} \subseteq q.deliveries /\ c.cur \subseteq q.deliveries
  <2>1. c.todo \subseteq c.q.deliveries /\ c.cur \subseteq c.q.deliveries /\ c.todo \cap c.cur = {}
    BY LoopFacts
  <2>2. DropDelivery(c.q, d).deliveries = c.q.deliveries \ {d}
    BY DEF DropDelivery
  <2> QED
    BY <1>1, <2>1, <2>2
<1>4. proc' = [proc EXCEPT ![p] = next] /\ now' = now /\ store' = store
  BY DEF LoopSkip, durable
<1>5. (c.todo \ {d}) \cap c.cur = {}
  BY LoopFacts
<1> HIDE DEF q, m
<1>6. /\ next.q = q /\ next.todo = c.todo \ {d} /\ next.cur = c.cur
      /\ next.kind = c.kind /\ next.phase = c.phase
  BY <1>1 DEF Coroutine
<1> HIDE DEF next
<1>7. Working(next) /\ Fresh(next)
  BY <1>1, <1>3, <1>5, <1>6 DEF Working, Fresh
<1>8. Keeps(next)
  BY <1>1, <1>2, <1>6, <1>7 DEF Keeps
<1> QED
  BY <1>4, <1>8, MailKeeps DEF MailInv

\* An entry that is sent is in flight, and no longer in the list.
LEMMA MailSend ==
    ASSUME TypeInv, MailInv, ClocksBehind, NEW p \in Procs, NEW d, LoopSend(p, d)
    PROVE  MailInv'
<1> DEFINE c == proc[p]
<1> DEFINE next == [c EXCEPT !.todo = @ \ {d}, !.cur = {d}, !.req = d.req]
<1> DEFINE waits == [next EXCEPT !.phase = "await", !.sock = c.sock, !.group = d.group]
<1> DEFINE fails == [next EXCEPT !.outcome = "error"]
<1>1. c \in Coroutine /\ c.kind \in {"alarm", "drain"} /\ c.phase = "run" /\ d \in c.todo
  BY DEF TypeInv, TypeOK, LoopSend, InLoop, NextEntry
<1>2. PendingCount < MaxInFlight
  <2>1. IsFiniteSet(Waiting)
    BY BoundAssumption, FS_Subset DEF Waiting
  <2>2. PendingCount \in Nat
    BY <2>1, FS_CardinalityType DEF PendingCount
  <2>3. ~(PendingCount >= MaxInFlight)
    BY DEF LoopSend, WindowFull
  <2> QED
    BY <2>2, <2>3, PolicyAssumption
<1>3. /\ waits.q = c.q /\ waits.todo = c.todo \ {d} /\ waits.cur = {d} /\ waits.kind = c.kind
      /\ fails.q = c.q /\ fails.todo = c.todo \ {d} /\ fails.cur = {d} /\ fails.kind = c.kind
  BY <1>1 DEF Coroutine
<1>4. proc' = [proc EXCEPT ![p] = waits] \/ proc' = [proc EXCEPT ![p] = fails]
  BY DEF LoopSend, SendDeliverFrame
<1> HIDE DEF waits, fails, next
<1>5. Working(waits) /\ Working(fails) /\ Fresh(waits) /\ Fresh(fails)
  <2>1. c.todo \subseteq c.q.deliveries
    BY LoopFacts
  <2> QED
    BY <1>1, <1>3, <2>1 DEF Working, Fresh
<1>6. Keeps(waits) /\ Keeps(fails)
  BY <1>2, <1>3, <1>5, LoopFacts DEF Keeps
<1>7. now' = now /\ Sound(store', now)
  BY DEF LoopSend, durable, MailInv
<1> QED
  BY <1>4, <1>6, <1>7, MailKeeps

\* An accepted entry leaves the copy, and its receipt says so.
LEMMA MailAccepted ==
    ASSUME TypeInv, MailInv, ClocksBehind, NEW p \in Procs, NEW d, LoopAccepted(p, d)
    PROVE  MailInv'
<1> DEFINE c == proc[p]
<1> DEFINE receipt == [state |-> "delivered", id |-> d.id, route |-> d.route,
                       expiresAt |-> c.n + QueueTtl]
<1> DEFINE q == UpsertReceipt([c.q EXCEPT !.deliveries = @ \ {d}], d.req, receipt)
<1>1. c.kind \in {"alarm", "drain"} /\ c.phase = "run" /\ d \in c.cur
  BY DEF LoopAccepted, InLoop
<1>2. d \in c.q.deliveries /\ d \in Delivery /\ c.q \in QueueState /\ c.n \in Nat /\ Sound(c.q, now)
  BY <1>1, LoopFacts
<1>3. receipt \in Receipt /\ d.req \in Requests
  BY <1>2, PolicyAssumption DEF Receipt, Delivery
<1>4. receipt.state # "queued"
  OBVIOUS
<1>a. q.deliveries = c.q.deliveries \ {d}
  BY <1>2 DEF UpsertReceipt, QueueState
<1>5. proc' = [proc EXCEPT ![p] = Continue(c, q, c.todo)] /\ now' = now /\ store' = store
  BY DEF LoopAccepted, durable
<1> HIDE DEF receipt
<1>6. Sound(q, now)
  <2> DEFINE D == c.q.deliveries \ {d}
  <2>1. D \in SUBSET c.q.deliveries /\ \A x \in c.q.deliveries \ D : x.req = d.req
    OBVIOUS
  <2>2. Single => \A x \in D : x.req = d.req => x.expiresAt <= receipt.expiresAt
    BY <1>2 DEF Sound, Covered
  <2>3. q = UpsertReceipt([c.q EXCEPT !.deliveries = D], d.req, receipt)
    OBVIOUS
  <2> HIDE DEF D, q, c
  <2> QED
    BY <1>2, <1>3, <1>4, <2>1, <2>2, <2>3, SoundReceipt
<1>7. c.todo \in SUBSET q.deliveries
  BY <1>1, <1>a, LoopFacts
<1> HIDE DEF q
<1> QED
  BY <1>1, <1>5, <1>6, <1>7, MailContinue

\* An entry without attempts left is dropped with its queued receipt.
LEMMA MailExhausted ==
    ASSUME TypeInv, MailInv, ClocksBehind, NEW p \in Procs, NEW d, LoopExhausted(p, d)
    PROVE  MailInv'
<1> DEFINE c == proc[p]
<1> DEFINE q == DropDelivery(c.q, d)
<1>1. c.kind \in {"alarm", "drain"} /\ c.phase = "run" /\ d \in c.cur
  BY DEF LoopExhausted, InLoop
<1>2. Sound(q, now)
  BY <1>1, LoopFacts, SoundDropped
<1>3. c.todo \in SUBSET q.deliveries
  BY <1>1, LoopFacts DEF DropDelivery
<1>4. proc' = [proc EXCEPT ![p] = Continue(c, q, c.todo)] /\ now' = now /\ store' = store
  BY DEF LoopExhausted, durable
<1> HIDE DEF q
<1> QED
  BY <1>1, <1>2, <1>3, <1>4, MailContinue

\* A rescheduled entry has attempts left; after an error the rest is postponed.
LEMMA MailRetry ==
    ASSUME TypeInv, MailInv, ClocksBehind, NEW p \in Procs, NEW d, LoopRetry(p, d)
    PROVE  MailInv'
<1> DEFINE c == proc[p]
<1> DEFINE retried(w) == [d EXCEPT !.attempts = @ + 1, !.nextAttempt = c.n + w]
<1> DEFINE q(w) == ReplaceDelivery(c.q, d, retried(w))
<1>1. /\ c.kind \in {"alarm", "drain"} /\ c.phase = "run" /\ d \in c.cur
      /\ d.attempts + 1 < RetryMaxAttempts /\ now' = now /\ store' = store
  BY DEF LoopRetry, InLoop, durable
<1>2. d \in c.q.deliveries /\ d \in Delivery /\ c.q \in QueueState /\ c.n \in Nat /\ Sound(c.q, now)
  BY <1>1, LoopFacts
<1>3. PICK w \in RetryDelays(d.attempts + 1) :
        \/ proc' = [proc EXCEPT ![p] = Continue(c, q(w), c.todo)]
        \/ \E delay \in DelayDraws(c.todo) :
             proc' = [proc EXCEPT ![p] = Continue(c,
                [q(w) EXCEPT !.deliveries = (@ \ c.todo) \cup Postpone(c.todo, c.n, delay)], {})]
  BY ZenonT(30) DEF LoopRetry
<1>4. w \in Nat
  BY PolicyAssumption DEF RetryDelays
<1>5. retried(w) \in Delivery /\ SameEntry(d, retried(w))
  <2>1. c.n + w \in Nat /\ d.attempts + 1 \in Nat
    BY <1>2, <1>4 DEF Delivery
  <2>2. PICK x \in Nat : x = d.attempts + 1
    BY <2>1
  <2>3. PICK y \in Nat : y = c.n + w
    BY <2>1
  <2>4. retried(w) = [d EXCEPT !.attempts = x, !.nextAttempt = y]
    BY <1>2, <2>2, <2>3 DEF Delivery
  <2>5. x < RetryMaxAttempts
    BY <1>1, <2>2
  <2>6. /\ [d EXCEPT !.attempts = x, !.nextAttempt = y] \in Delivery
        /\ SameEntry(d, [d EXCEPT !.attempts = x, !.nextAttempt = y])
    BY <1>2, <2>5 DEF Delivery, SameEntry
  <2> HIDE DEF retried
  <2> QED
    BY <2>4, <2>6, Zenon
<1>6. q(w) \in QueueState /\ q(w).deliveries = (c.q.deliveries \ {d}) \cup {retried(w)}
  <2> HIDE DEF retried
  <2> QED BY <1>2, <1>5 DEF ReplaceDelivery, QueueState
<1>7. Sound(q(w), now)
  BY <1>2, <1>5, SoundReplaced
<1>8. c.todo \in SUBSET q(w).deliveries
  BY <1>1, <1>6, LoopFacts
<1> HIDE DEF q, retried
<1>9. CASE proc' = [proc EXCEPT ![p] = Continue(c, q(w), c.todo)]
  BY <1>1, <1>7, <1>8, <1>9, MailContinue
<1>10. CASE \E delay \in DelayDraws(c.todo) :
             proc' = [proc EXCEPT ![p] = Continue(c,
                [q(w) EXCEPT !.deliveries = (@ \ c.todo) \cup Postpone(c.todo, c.n, delay)], {})]
  <2>1. PICK delay \in DelayDraws(c.todo) :
             proc' = [proc EXCEPT ![p] = Continue(c,
                [q(w) EXCEPT !.deliveries = (@ \ c.todo) \cup Postpone(c.todo, c.n, delay)], {})]
    BY <1>10
  <2> DEFINE k == [q(w) EXCEPT !.deliveries = (@ \ c.todo) \cup Postpone(c.todo, c.n, delay)]
  <2>2. Sound(k, now)
    BY <1>2, <1>6, <1>7, <1>8, SoundPostponed
  <2>3. {} \in SUBSET k.deliveries
    OBVIOUS
  <2>4. proc' = [proc EXCEPT ![p] = Continue(c, k, {})]
    BY <2>1
  <2> HIDE DEF k
  <2> QED
    BY <1>1, <2>2, <2>3, <2>4, MailContinue
<1> QED
  BY <1>3, <1>9, <1>10

\* The loop stores its copy, or what was stored stays.
LEMMA MailLoopEnd ==
    ASSUME TypeInv, MailInv, ClocksBehind, NEW p \in Procs, LoopEnd(p)
    PROVE  MailInv'
<1>1. proc' = [proc EXCEPT ![p] = Idle] /\ now' = now
  BY DEF LoopEnd
<1>2. store' = proc[p].q \/ store' = store
  BY DEF LoopEnd
<1>3. Sound(store', now)
  BY <1>2, LoopFacts
<1> QED
  BY <1>1, <1>3, KeepsIdle, MailKeeps

\* A message that was delivered at once has no entry in the copy its call saves.
LEMMA MailDeliverAccepted ==
    ASSUME TypeInv, MailInv, ClocksBehind, NEW p \in Procs, DeliverAccepted(p)
    PROVE  MailInv'
<1> DEFINE c == proc[p]
<1> DEFINE receipt == ReceiptFor(p, "delivered")
<1>0. /\ c.kind = "deliver" /\ now' = now /\ proc' = [proc EXCEPT ![p] = Idle]
      /\ store' = UpsertReceipt(c.q, c.req, receipt)
  BY DEF DeliverAccepted, Resumed, Answer, SaveAndSchedule
<1>1. c.req \in Requests /\ c.q \in QueueState /\ Sound(c.q, now)
  BY <1>0, LoopFacts DEF TypeInv
<1>2. receipt \in Receipt /\ receipt.state # "queued"
  BY <1>0, ReceiptForType DEF ReceiptFor
<1>3. Single => \A d \in c.q.deliveries : d.req # c.req
  BY <1>0 DEF MailInv, Fresh
<1> HIDE DEF receipt, c
<1>4. Sound(UpsertReceipt([c.q EXCEPT !.deliveries = c.q.deliveries], c.req, receipt), now)
  <2>1. c.q.deliveries \in SUBSET c.q.deliveries
        /\ \A d \in c.q.deliveries \ c.q.deliveries : d.req = c.req
    OBVIOUS
  <2>2. Single => \A d \in c.q.deliveries : d.req = c.req => d.expiresAt <= receipt.expiresAt
    BY <1>3
  <2> QED
    BY <1>1, <1>2, <2>1, <2>2, SoundReceipt
<1>5. [c.q EXCEPT !.deliveries = c.q.deliveries] = c.q
  BY <1>1 DEF QueueState
<1>6. Sound(store', now)
  BY <1>0, <1>4, <1>5
<1> QED
  BY <1>0, <1>6, KeepsIdle, MailKeeps DEF c

\* A call that throws stores nothing.
LEMMA MailDeliverRejected ==
    ASSUME TypeInv, MailInv, NEW p \in Procs, DeliverRejected(p)
    PROVE  MailInv'
<1>1. proc' = [proc EXCEPT ![p] = Idle] /\ now' = now /\ store' = store
  BY DEF DeliverRejected, Answer, durable
<1> QED
  BY <1>1, KeepsIdle, MailKeeps DEF MailInv

\* A message is queued where there is room, and its request had no entry.
LEMMA MailDeliverQueued ==
    ASSUME TypeInv, MailInv, ClocksBehind, NEW p \in Procs, DeliverQueued(p)
    PROVE  MailInv'
<1> DEFINE c == proc[p]
<1> DEFINE receipt == ReceiptFor(p, "queued")
<1>0. /\ c.kind = "deliver" /\ now' = now /\ proc' = [proc EXCEPT ![p] = Idle]
      /\ c.attempts < RetryMaxAttempts /\ Cardinality(c.q.deliveries) < QueueMax
  BY DEF DeliverQueued, Resumed, Answer
<1>1. PICK w \in RetryDelays(c.attempts) :
        store' = UpsertReceipt([c.q EXCEPT !.deliveries = @ \cup {QueuedEntry(p, w)}], c.req, receipt)
  BY DEF DeliverQueued, SaveAndSchedule
<1>2. /\ c.q \in QueueState /\ c.n \in Nat /\ c.n <= now /\ now \in Nat /\ Sound(c.q, now)
      /\ c.req \in Requests /\ c.id \in Ids /\ c.route \in Routes
  BY <1>0, LoopFacts DEF TypeInv
<1>3. c.attempts \in Nat
  BY DEF TypeInv, TypeOK, Coroutine
<1> DEFINE d == QueuedEntry(p, w)
<1>4. d \in Delivery
  BY <1>2, <1>3, PolicyAssumption DEF QueuedEntry, Delivery, RetryDelays
<1>5. /\ d.id = c.id /\ d.req = c.req /\ d.attempts = c.attempts
      /\ d.expiresAt = c.n + QueueTtl
  BY DEF QueuedEntry
<1>6. receipt \in Receipt /\ receipt.id = c.id /\ receipt.expiresAt = c.n + QueueTtl
  BY <1>0, ReceiptForType DEF ReceiptFor
<1>7. Single => \A e \in c.q.deliveries : e.req # c.req
  BY <1>0 DEF MailInv, Fresh
<1> HIDE DEF d, receipt, c
<1>8. d.expiresAt <= now + QueueTtl
  BY <1>2, <1>5, PolicyAssumption
<1>9. Sound(UpsertReceipt([c.q EXCEPT !.deliveries = @ \cup {d}], d.req, receipt), now)
  BY <1>0, <1>2, <1>4, <1>5, <1>6, <1>7, <1>8, SoundQueued
<1>10. Sound(store', now)
  BY <1>1, <1>5, <1>9 DEF d
<1> QED
  BY <1>0, <1>10, KeepsIdle, MailKeeps

\* A resumed handler has the copy and the entry it had when it began to wait.
LEMMA KeepsResumed ==
    ASSUME TypeInv, MailInv, NEW p \in Procs, NEW outcome \in {"accepted", "refused", "error"}
    PROVE  Keeps(Resume(p, outcome)) /\ Resume(p, outcome).phase = "run"
<1> DEFINE c == Resume(p, outcome)
<1>1. proc[p] \in Coroutine
  BY DEF TypeInv, TypeOK
<1> DEFINE s == IF proc[p].kind = "deliver" THEN None ELSE proc[p].sock
<1>3. c = [proc[p] EXCEPT !.phase = "run", !.outcome = outcome, !.sock = s, !.group = FALSE]
  BY <1>1 DEF Resume, Coroutine
<1> HIDE DEF s
<1>4. /\ c.kind = proc[p].kind /\ c.req = proc[p].req /\ c.q = proc[p].q
      /\ c.todo = proc[p].todo /\ c.cur = proc[p].cur /\ c.phase = "run"
  BY <1>1, <1>3 DEF Coroutine
<1> HIDE DEF c
<1>5. Sound(c.q, now) /\ Working(c) /\ Fresh(c)
  BY <1>4 DEF MailInv, Working, Fresh
<1> QED
  BY <1>4, <1>5 DEF Keeps, c

\* An acknowledgement, or its timer, resumes one handler.
LEMMA MailResumed ==
    ASSUME TypeInv, MailInv, NEW p \in Procs, NEW outcome \in {"accepted", "refused", "error"},
           proc' = [proc EXCEPT ![p] = Resume(p, outcome)], now' = now,
           store' = store \/ store' = PruneExpired(store, now)
    PROVE  MailInv'
<1>1. Sound(store', now)
  BY LoadedSound DEF MailInv
<1> QED
  BY <1>1, KeepsResumed, MailKeeps

\* An acknowledgement does.
LEMMA MailAck ==
    ASSUME TypeInv, MailInv, NEW p \in Procs, NEW s \in Sockets, NEW accepted \in BOOLEAN,
           DeliverAck(p, s, accepted)
    PROVE  MailInv'
<1>1. now' = now /\ store' = PruneExpired(store, now)
  BY DEF DeliverAck, ScheduleFromStorage
<1>2. \E outcome \in {"accepted", "refused", "error"} :
         proc' = [proc EXCEPT ![p] = Resume(p, outcome)]
  BY DEF DeliverAck
<1> QED
  BY <1>1, <1>2, MailResumed

\* Its timer does.
LEMMA MailTimeout ==
    ASSUME TypeInv, MailInv, NEW p \in Procs, AckTimeout(p)
    PROVE  MailInv'
<1>1. now' = now /\ store' = store /\ proc' = [proc EXCEPT ![p] = Resume(p, "error")]
  BY DEF AckTimeout, durable
<1> QED
  BY <1>1, MailResumed

\* A step of several coroutines, none of which begins to wait.
LEMMA MailMany ==
    ASSUME MailInv, now' = now, Sound(store', now),
           \A o \in Procs : /\ Sound(proc'[o].q, now) /\ Working(proc'[o]) /\ Fresh(proc'[o])
                            /\ proc'[o].phase = "await" => proc[o].phase = "await"
    PROVE  MailInv'
<1>1. IsFiniteSet(Waiting) /\ Waiting' \subseteq Waiting
  BY BoundAssumption, FS_Subset DEF Waiting
<1>2. IsFiniteSet(Waiting') /\ Cardinality(Waiting') <= Cardinality(Waiting)
  BY <1>1, FS_Subset
<1>3. Cardinality(Waiting') \in Nat /\ Cardinality(Waiting) \in Nat
  BY <1>1, <1>2, FS_CardinalityType
<1>4. Cardinality(Waiting) <= MaxInFlight
  BY DEF MailInv, WindowBound, PendingCount
<1>5. Cardinality(Waiting') <= MaxInFlight
  BY <1>2, <1>3, <1>4, PolicyAssumption
<1>6. WindowBound'
  BY <1>5 DEF WindowBound, PendingCount
<1> QED
  BY <1>6 DEF MailInv

\* The loss of the last socket resumes every handler that waits.
LEMMA MailClosed ==
    ASSUME TypeInv, MailInv, NEW s \in Sockets, NEW graceful \in BOOLEAN, NEW listed \in BOOLEAN,
           SocketClosed(s, graceful, listed)
    PROVE  MailInv'
<1>1. now' = now /\ store' = PruneExpired(store, now)
  BY DEF SocketClosed
<1>2. Sound(store', now)
  BY <1>1, LoadedSound
<1>3. CASE proc' = proc
  BY <1>1, <1>3, MailLoad
<1>4. CASE proc' = [p \in Procs |-> IF p \in Waiting THEN Resume(p, "error") ELSE proc[p]]
  <2>1. ASSUME NEW o \in Procs
        PROVE  /\ Sound(proc'[o].q, now) /\ Working(proc'[o]) /\ Fresh(proc'[o])
               /\ proc'[o].phase = "await" => proc[o].phase = "await"
    <3>1. CASE proc'[o] = proc[o]
      BY <3>1 DEF MailInv
    <3>2. CASE proc'[o] = Resume(o, "error")
      <4>1. Keeps(Resume(o, "error")) /\ Resume(o, "error").phase = "run"
        BY KeepsResumed
      <4> QED
        BY <3>2, <4>1 DEF Keeps
    <3> QED
      BY <1>4, <3>1, <3>2
  <2> QED
    BY <1>1, <1>2, <2>1, MailMany
<1> QED
  BY <1>3, <1>4 DEF SocketClosed

\* After a crash only the stored queue is left; time only makes it older.
LEMMA MailEnvironment ==
    ASSUME TypeInv, MailInv, Crash \/ Hibernate \/ Tick
    PROVE  MailInv'
<1>1. CASE Crash
  <2>1. now' = now /\ store' = store /\ proc' = [p \in Procs |-> Idle]
    BY <1>1 DEF Crash
  <2>2. Sound(Idle.q, now) /\ Working(Idle) /\ Fresh(Idle) /\ Idle.phase # "await"
    BY KeepsIdle, IdleFacts DEF Keeps
  <2>3. \A o \in Procs : proc'[o] = Idle
    BY <2>1
  <2> QED
    BY <2>1, <2>2, <2>3, MailMany DEF MailInv
<1>2. CASE Hibernate
  <2>1. now' = now /\ store' = store /\ proc' = proc
    BY <1>2 DEF Hibernate, durable
  <2> QED
    BY <2>1, MailStays DEF MailInv
<1>3. CASE Tick
  <2>1. now' = now + 1 /\ store' = store /\ proc' = proc
    BY <1>3 DEF Tick, durable
  <2>2. now \in Nat /\ store \in QueueState /\ \A p \in Procs : proc[p].q \in QueueState
    BY DEF TypeInv, TypeOK, Coroutine
  <2>3. Sound(store, now + 1)
    BY <2>2, SoundLater DEF MailInv
  <2>4. \A p \in Procs : Sound(proc[p].q, now + 1)
    BY <2>2, SoundLater DEF MailInv
  <2>5. WindowBound'
    BY <2>1 DEF MailInv, WindowBound, PendingCount, Waiting
  <2>6. \A p \in Procs : Working(proc[p]) /\ Fresh(proc[p])
    BY DEF MailInv
  <2> QED
    BY <2>1, <2>3, <2>4, <2>5, <2>6 DEF MailInv
<1> QED
  BY <1>1, <1>2, <1>3

\* Every step of a resumed handler keeps each copy of the queue sound.
LEMMA MailRun ==
    ASSUME TypeInv, MailInv, ClocksBehind, NEW p \in Procs, Run(p)
    PROVE  MailInv'
BY MailSkip, MailSend, MailAccepted, MailExhausted, MailRetry, MailLoopEnd,
   MailDeliverAccepted, MailDeliverRejected, MailDeliverQueued DEF Run

\* Every other frame is a load.
LEMMA MailMessage ==
    ASSUME TypeInv, MailInv, NEW s \in Sockets,
           (\E b \in BOOLEAN : SocketMessage(s, b)) \/ OversizedMessage(s)
    PROVE  MailInv'
<1>1. now' = now /\ proc' = proc /\ store' = PruneExpired(store, now)
  BY DEF SocketMessage, OversizedMessage, ScheduleFromStorage
<1> QED
  BY <1>1, MailLoad

\* Every step does.
LEMMA MailStep == WakeInv /\ MailInv /\ [Next]_vars => MailInv'
<1> SUFFICES ASSUME WakeInv, MailInv, [Next]_vars PROVE MailInv'
  OBVIOUS
<1>0. TypeInv /\ ClocksBehind
  BY DEF WakeInv
<1>1. CASE UNCHANGED vars
  BY <1>1, MailStays DEF vars, MailInv
<1>g. CASE GetReceipt
  BY <1>0, <1>g, MailLoad DEF GetReceipt
<1>2. CASE Next
  BY <1>0, <1>2, <1>g, MailRun, MailTimeout, MailAlarm, MailDeliver, MailConnect, MailAck,
     MailRecord, MailMessage, MailClosed, MailEnvironment DEF Next
<1> QED
  BY <1>1, <1>2

\* A new object has an empty queue and no handler.
LEMMA MailInit == Init => MailInv
<1> SUFFICES ASSUME Init PROVE MailInv
  OBVIOUS
<1>1. Sound(store, now)
  BY SoundEmpty DEF Init
<1>2. \A p \in Procs : proc[p] = Idle
  BY DEF Init
<1>3. \A p \in Procs : Sound(proc[p].q, now) /\ Working(proc[p]) /\ Fresh(proc[p])
  BY <1>2, KeepsIdle DEF Keeps
<1>4. Waiting = {}
  BY <1>2, IdleFacts DEF Waiting
<1>5. WindowBound
  BY <1>4, FS_EmptySet, PolicyAssumption DEF WindowBound, PendingCount
<1> QED
  BY <1>1, <1>3, <1>5 DEF MailInv

\* Closing sockets opens none, and what is to be closed takes no frame.
LEMMA SocketTracked ==
    ASSUME TypeInv, SocketInv, NEW n, NEW close, NEW touched, TrackerAfter(n, close, touched)
    PROVE  SocketInv'
<1>1. \A s \in Sockets : sock'[s] = IF s \in close THEN "closing" ELSE sock[s]
  BY DEF TrackerAfter
<1>2. pendingClose' = (pendingClose \cap Listed) \cup close
  BY DEF TrackerAfter
<1>4. ASSUME NEW s \in Sockets, s \in pendingClose' PROVE sock'[s] # "open"
  BY <1>1, <1>2, <1>4 DEF SocketInv
<1>5. OneOpenSocket'
  BY <1>1 DEF SocketInv, OneOpenSocket
<1> QED
  BY <1>4, <1>5 DEF SocketInv

\* A new socket supersedes every socket that was active.
LEMMA SocketConnect ==
    ASSUME TypeInv, SocketInv, NEW p \in Procs, NEW s \in Sockets, Connect(p, s)
    PROVE  SocketInv'
<1> DEFINE close == Stale(now) \cup Active(now)
<1>1. \A x \in Sockets : sock'[x] = IF x = s THEN "open" ELSE IF x \in close THEN "closing" ELSE sock[x]
  BY DEF Connect
<1>2. pendingClose' = (pendingClose \cap Listed) \cup close /\ sock[s] = "none"
  BY DEF Connect
<1>3. close = Listed \ pendingClose
  BY DEF Active, Stale
<1> HIDE DEF close
<1>4. \A x \in Sockets : x \in Listed <=> sock[x] # "none"
  BY DEF Listed
<1>5. \A x \in Sockets : sock'[x] = "open" => x = s
  BY <1>1, <1>3, <1>4 DEF SocketInv
<1>6. s \notin pendingClose'
  BY <1>2, <1>3, <1>4
<1> QED
  BY <1>5, <1>6 DEF SocketInv, OneOpenSocket

\* The loss of a socket opens none.
LEMMA SocketGone ==
    ASSUME TypeInv, SocketInv, NEW s \in Sockets, NEW graceful, NEW listed,
           SocketClosed(s, graceful, listed)
    PROVE  SocketInv'
<1> DEFINE stale == Stale(now) \ {s}
<1>1. \A x \in Sockets : sock'[x] = IF x = s THEN "none" ELSE IF x \in stale THEN "closing" ELSE sock[x]
  BY DEF SocketClosed
<1>2. pendingClose' = ((pendingClose \cap Listed) \cup stale) \ {s}
  BY DEF SocketClosed
<1> HIDE DEF stale
<1>3. \A x \in Sockets : x \in pendingClose' => sock'[x] # "open"
  BY <1>1, <1>2 DEF SocketInv
<1>4. OneOpenSocket'
  BY <1>1 DEF SocketInv, OneOpenSocket
<1> QED
  BY <1>3, <1>4 DEF SocketInv

\* Every step keeps the agent to one open socket.
LEMMA SocketStep == TypeInv /\ SocketInv /\ [Next]_vars => SocketInv'
<1> SUFFICES ASSUME TypeInv, SocketInv, [Next]_vars PROVE SocketInv'
  OBVIOUS
<1>1. CASE UNCHANGED tracker
  BY <1>1 DEF tracker, SocketInv, OneOpenSocket
<1>2. ASSUME NEW n, Sweep(n) PROVE SocketInv'
  BY <1>2, SocketTracked DEF Sweep
<1>3. ASSUME NEW close, NEW touched, ScheduleFromStorage(close, touched) PROVE SocketInv'
  BY <1>3, SocketTracked DEF ScheduleFromStorage
<1>4. CASE Crash
  BY <1>4 DEF Crash, SocketInv, OneOpenSocket
<1>5. CASE Hibernate
  BY <1>5 DEF Hibernate, SocketInv, OneOpenSocket
<1>6. ASSUME NEW p \in Procs, Run(p) PROVE SocketInv'
  <2>1. ASSUME NEW d, LoopSkip(p, d) \/ LoopSend(p, d) \/ LoopAccepted(p, d) \/ LoopExhausted(p, d)
        PROVE  UNCHANGED tracker
    BY <2>1 DEF LoopSkip, LoopSend, LoopAccepted, LoopExhausted
  <2>2. ASSUME NEW d, LoopRetry(p, d) PROVE UNCHANGED tracker
    BY <2>2, Zenon DEF LoopRetry
  <2>3. CASE DeliverRejected(p)
    BY <1>1, <2>3 DEF DeliverRejected
  <2>4. CASE LoopEnd(p)
    BY <1>2, <2>4 DEF LoopEnd
  <2>5. CASE DeliverAccepted(p) \/ DeliverQueued(p)
    BY <1>2, <2>5 DEF DeliverAccepted, DeliverQueued, SaveAndSchedule
  <2> QED
    BY <1>1, <1>6, <2>1, <2>2, <2>3, <2>4, <2>5 DEF Run
<1>7. ASSUME NEW p \in Procs, Alarm(p) PROVE SocketInv'
  BY <1>7, SocketTracked DEF Alarm
<1>8. ASSUME NEW p \in Procs, NEW r, NEW route, Deliver(p, r, route) PROVE SocketInv'
  BY <1>2, <1>8 DEF Deliver
<1>9. ASSUME NEW r, NEW route, NEW status, RecordReceipt(r, route, status) PROVE SocketInv'
  BY <1>1, <1>2, <1>9 DEF RecordReceipt, SaveAndSchedule
<1>10. CASE UNCHANGED vars
  BY <1>1, <1>10 DEF vars, tracker
<1>11. CASE GetReceipt \/ Tick \/ \E p \in Procs : AckTimeout(p)
  BY <1>1, <1>11 DEF GetReceipt, Tick, AckTimeout
<1>12. ASSUME NEW s \in Sockets,
             \/ \E p \in Procs, b \in BOOLEAN : DeliverAck(p, s, b)
             \/ \E b \in BOOLEAN : SocketMessage(s, b)
             \/ OversizedMessage(s)
       PROVE SocketInv'
  BY <1>3, <1>12 DEF DeliverAck, SocketMessage, OversizedMessage
<1> QED
  BY <1>4, <1>5, <1>6, <1>7, <1>8, <1>9, <1>10, <1>11, <1>12, SocketConnect, SocketGone DEF Next

\* Whatever the policy, the number of requests, sockets and handlers, and however
\* deliver calls, alarms, reconnections, acknowledgements, timeouts, crashes and
\* hibernations overlap: the stored queue is never longer than the policy allows
\* and no stored entry is out of attempts, although each handler checks and saves
\* a copy of its own; no more frames wait than the window holds; one socket is open.
THEOREM MailboxLimits == Spec => []LimitsKept
<1>1. Init => SocketInv
  BY DEF Init, SocketInv, OneOpenSocket
<1>2. MailInv /\ SocketInv => LimitsKept
  BY DEF MailInv, SocketInv, Sound, LimitsKept, QueueBound, AttemptsLeft
<1>3. WakeInv => TypeInv
  BY DEF WakeInv
<1> QED
  BY <1>1, <1>2, <1>3, WakeInit, WakeStep, MailInit, MailStep, SocketStep, PTL DEF Spec

\* A receipt that a sender can read as "queued" is always that of a stored entry:
\* however the copies overlap, each handler removes an entry and its receipt, or
\* changes them, together.
THEOREM ReceiptsBacked == Spec => []QueuedReceiptBacked
<1>1. MailInv => QueuedReceiptBacked
  BY DEF MailInv, Sound, Backed, QueuedReceiptBacked
<1> QED
  BY <1>1, WakeInit, WakeStep, MailInit, MailStep, PTL DEF Spec

\* With one sender and one recipient a request id has at most one stored entry,
\* whatever calls repeat or overlap: a call that reaches the queue began when the
\* copy it saves had neither an entry nor a receipt of the request.
THEOREM EntriesOnce == ASSUME \A a, b \in Routes : a = b PROVE Spec => []OneEntryPerRequest
<1>0. Single
  BY DEF Single
<1>1. MailInv => OneEntryPerRequest
  BY <1>0 DEF MailInv, Sound, Covered, OneEntryPerRequest
<1> QED
  BY <1>1, WakeInit, WakeStep, MailInit, MailStep, PTL DEF Spec

=============================================================================
