---------------------------- MODULE ProxyProofs -----------------------------
(***************************************************************************)
(* Proofs about the proxy: what it lets through, whom it keeps out, which  *)
(* pairing tickets stand, and that no published event is forgotten, for    *)
(* every set of clients, agents and tickets, every skew and limit, and any *)
(* number of requests that overlap.                                        *)
(***************************************************************************)
EXTENDS Proxy, TLAPS

-----------------------------------------------------------------------------
(* Types *)

Requests ==
    [path : PairingPaths \cup ValidatedPaths, agent : Agents, nonce : Nonces,
     ts : Nat, key : SigningKeys, to : Agents \cup {Anyone}, group : BOOLEAN]

Tickets ==
    [initiator : Agents, allow : Agents \cup {Anyone}, expiresAt : Nat,
     responder : Agents \cup {Anyone}]

TicketMaps == [Kids -> Tickets \cup {NoTicket}]

\* Stages before the trust check has answered, and those after it.
EarlyStages == {"fetch", "fetched", "token", "nonce", "revoked"}

LateStages ==
    {"crl", "known", "session", "hook", "connect", "receipt", "start", "confirm", "status",
     "relay", "lookup", "publish", "ticket", "announce"}

\* Up to its nonce a request is as it was sent; what is published has an address.
Running ==
    {w \in [stage : EarlyStages \cup LateStages, request : Requests, forced : BOOLEAN,
            keys : SUBSET SigningKeys, readAt : Nat, promised : Nat] :
        /\ w.stage \in EarlyStages \ {"revoked"} => w.request \in Signed
        /\ w.stage \in {"publish", "announce"} => w.request.to \in Agents}

Verifying ==
    [stage : {"verify"}, request : Requests, kid : Kids, ticket : Tickets, readAt : Nat,
     promised : Nat, seen : [tickets : TicketMaps, confirmed : TicketMaps]]

Buckets(X) == [X -> [start : Nat, count : Nat]]

NonceTypeOK ==
    /\ now \in Nat
    /\ agents \subseteq Agents
    /\ expiresAt \in [Keys -> Nat]

TrustTypeOK ==
    /\ tickets \in TicketMaps /\ confirmed \in TicketMaps /\ issued \in TicketMaps
    /\ pairs \subseteq SUBSET Agents
    /\ markers \in [Agents -> Nat]
    /\ accepted \in [Kids -> SUBSET Agents]

SlotTypeOK == slot \in [Slots -> {Free} \cup Running \cup Verifying]

AuthTypeOK ==
    /\ keysCache \in [keys : SUBSET SigningKeys, fetchedAt : Nat]
    /\ addressBucket \in Buckets(LimitedPaths) /\ agentBucket \in Buckets(Agents)
    /\ published \subseteq SigningKeys
    /\ arrivals \in Nat
    /\ taken \in [Signed -> [at : Nat, times : Nat]]
    /\ passed \in [Agents -> Seq(Nat)]
    /\ marked \in [Agents -> Nat]

QueueTypeOK ==
    /\ backend \in {"durable", "memory"}
    /\ UNION {queue, batch, DOMAIN verdict, announced, effected, rejected} \subseteq Events
    /\ tries \in [Events -> Nat]
    /\ faults \in Nat

\* The type invariant of the proxy.
ProxyTypeOK == NonceTypeOK /\ TrustTypeOK /\ SlotTypeOK /\ AuthTypeOK /\ QueueTypeOK

LEMMA WholeSeconds ==
    ASSUME NEW n \in Nat
    PROVE  WholeSecond(n) \in Nat
  BY ProxyTrustAssumption DEF WholeSecond

LEMMA DivMonotone ==
    ASSUME NEW x \in Int, NEW y \in Int, x <= y
    PROVE  x \div Second <= y \div Second
  BY ProxyTrustAssumption

LEMMA InitTypes == ProxyInit => ProxyTypeOK
  BY DEF ProxyInit, Init, TrustInit, AuthInit, ProxyTypeOK, NonceTypeOK, TrustTypeOK, SlotTypeOK,
     AuthTypeOK, QueueTypeOK, TicketMaps, Buckets, NoBucket, NeverTaken, Keys

-----------------------------------------------------------------------------
(* Which actions change which variables: the rest leaves each group alone. *)

\* The actions on the request in slot s that the middleware takes.
AuthStep(s) ==
    \/ \E r \in Signed : Arrive(s, r)
    \/ KeysAnswered(s) \/ KeysCached(s) \/ VerifyToken(s) \/ CheckNonce(s)
    \/ CheckRevoked(s) \/ CheckCrl(s) \/ CheckKnown(s) \/ CheckSession(s)

\* Those that the routes take.
RouteStep(s) ==
    \/ HookAuthorize(s) \/ RelayCall(s) \/ ReceiptAuthorize(s) \/ PublishReceipt(s)
    \/ PairStart(s) \/ \E k \in Kids, ttl \in Ttls : StoreTicket(s, k, ttl)
    \/ \E k \in Kids : ConfirmRead(s, k) \/ PairStatus(s, k)
    \/ ConfirmWrite(s) \/ \E a \in Agents : ConfirmDurable(s, a)
    \/ PublishAccepted(s)

LEMMA NextSteps ==
    ASSUME ProxyNext
    PROVE  \/ \E s \in Slots : AuthStep(s) /\ UNCHANGED <<backend, queueVars>>
           \/ \E k \in SigningKeys : RotateKey(k) /\ UNCHANGED <<backend, queueVars>>
           \/ \E s \in Slots : RouteStep(s)
           \/ ConsumerNext
           \/ \E e \in Events : RegistryPublishes(e)
           \/ \E a, b \in Agents : PairUp(a, b)
           \/ TimePasses
  BY Zenon DEF ProxyNext, AuthNext, AuthStep, RouteStep

\* The clock and the nonce cache.
LEMMA NonceFrame ==
    ASSUME ProxyNext
    PROVE  \/ UNCHANGED vars
           \/ TimePasses
           \/ \E s \in Slots : CheckNonce(s) /\ UNCHANGED <<backend, queueVars>>
<1>1. ASSUME NEW s \in Slots, AuthStep(s), ~CheckNonce(s)
      PROVE  UNCHANGED vars
  BY <1>1 DEF AuthStep, Arrive, KeysAnswered, KeysCached, VerifyToken, CheckRevoked, CheckCrl,
     CheckKnown, CheckSession
<1>2. ASSUME NEW s \in Slots, RouteStep(s)
      PROVE  UNCHANGED vars
  BY <1>2 DEF RouteStep, HookAuthorize, RelayCall, ReceiptAuthorize, PublishReceipt, PairStart,
     StoreTicket, ConfirmRead, PairStatus, ConfirmWrite, ConfirmDurable, PublishAccepted
<1>3. ASSUME ConsumerNext
      PROVE  UNCHANGED vars
  BY <1>3 DEF ConsumerNext, TakeBatch, EndBatch, ConsumerStops, Handle, HandleRefused, HandleFails
<1>4. ASSUME NEW k, RotateKey(k)
      PROVE  UNCHANGED vars
  BY <1>4 DEF RotateKey
<1>5. ASSUME NEW e, RegistryPublishes(e)
      PROVE  UNCHANGED vars
  BY <1>5 DEF RegistryPublishes
<1>6. ASSUME NEW a, NEW b, PairUp(a, b)
      PROVE  UNCHANGED vars
  BY <1>6 DEF PairUp
<1> QED
  BY <1>1, <1>2, <1>3, <1>4, <1>5, <1>6, NextSteps, Zenon

\* The trust store in memory, and the history of markers.
TrustChange ==
    \/ \E s \in Slots : CheckRevoked(s)
    \/ \E s \in Slots, k \in Kids, ttl \in Ttls : StoreTicket(s, k, ttl)
    \/ \E s \in Slots, k \in Kids : ConfirmRead(s, k) \/ PairStatus(s, k)
    \/ \E s \in Slots : ConfirmWrite(s)
    \/ \E s \in Slots, a \in Agents : ConfirmDurable(s, a)
    \/ \E e \in batch : Handle(e) \/ HandleFails(e)
    \/ \E a, b \in Agents : PairUp(a, b)

LEMMA TrustFrame ==
    ASSUME ProxyNext
    PROVE  UNCHANGED <<trustVars, marked>> \/ TrustChange
<1>1. ASSUME NEW s \in Slots, AuthStep(s), ~TrustChange
      PROVE  UNCHANGED <<trustVars, marked>>
  BY <1>1 DEF AuthStep, TrustChange, Arrive, KeysAnswered, KeysCached, VerifyToken, CheckNonce,
     CheckCrl, CheckKnown, CheckSession
<1>2. ASSUME NEW s \in Slots, RouteStep(s), ~TrustChange
      PROVE  UNCHANGED <<trustVars, marked>>
  BY <1>2 DEF RouteStep, TrustChange, HookAuthorize, RelayCall, ReceiptAuthorize, PublishReceipt,
     PairStart, PublishAccepted
<1>3. ASSUME ConsumerNext, ~TrustChange
      PROVE  UNCHANGED <<trustVars, marked>>
  BY <1>3 DEF ConsumerNext, TrustChange, TakeBatch, EndBatch, ConsumerStops, HandleRefused, authVars
<1>4. ASSUME NEW k, RotateKey(k)
      PROVE  UNCHANGED <<trustVars, marked>>
  BY <1>4 DEF RotateKey
<1>5. ASSUME NEW e, RegistryPublishes(e)
      PROVE  UNCHANGED <<trustVars, marked>>
  BY <1>5 DEF RegistryPublishes, authVars
<1>6. ASSUME TimePasses
      PROVE  UNCHANGED <<trustVars, marked>>
  BY <1>6 DEF TimePasses, authVars
<1>7. ASSUME NEW a \in Agents, NEW b \in Agents, PairUp(a, b)
      PROVE  TrustChange
  BY <1>7 DEF TrustChange
<1> QED
  BY <1>1, <1>2, <1>3, <1>4, <1>5, <1>6, <1>7, NextSteps, Zenon

-----------------------------------------------------------------------------
(* Requests keep their types *)

LEMMA RunningAt ==
    ASSUME SlotTypeOK, NEW s \in Slots, slot[s].stage \notin {"free", "verify"}
    PROVE  slot[s] \in Running
<1>1. slot[s] \in {Free} \cup Running \cup Verifying
  BY DEF SlotTypeOK
<1> QED
  BY <1>1 DEF Free, Verifying

LEMMA AnswerType ==
    ASSUME SlotTypeOK, NEW s \in Slots, Answer(s)
    PROVE  SlotTypeOK'
  BY DEF SlotTypeOK, Answer

LEMMA PutType ==
    ASSUME SlotTypeOK, NEW s \in Slots, NEW w \in Running \cup Verifying,
           slot' = [slot EXCEPT ![s] = w]
    PROVE  SlotTypeOK'
  BY DEF SlotTypeOK

LEMMA GotoType ==
    ASSUME SlotTypeOK, NEW s \in Slots, slot[s].stage \notin {"free", "verify"},
           NEW st \in EarlyStages \cup LateStages, Goto(s, st),
           st \in EarlyStages \ {"revoked"} => slot[s].request \in Signed,
           st \in {"publish", "announce"} => slot[s].request.to \in Agents
    PROVE  SlotTypeOK'
<1>1. slot[s] \in Running
  BY RunningAt
<1>2. [slot[s] EXCEPT !.stage = st] \in Running
  BY <1>1 DEF Running
<1>3. slot' = [slot EXCEPT ![s] = [slot[s] EXCEPT !.stage = st]]
  BY DEF Goto, SlotTypeOK
<1> QED
  BY <1>2, <1>3, PutType

LEMMA AuthSlots ==
    ASSUME ProxyTypeOK, NEW s \in Slots, AuthStep(s)
    PROVE  SlotTypeOK'
<1> USE DEF At, Request
<1>0. SlotTypeOK
  BY DEF ProxyTypeOK
<1>1. ASSUME NEW r \in Signed, Arrive(s, r)
      PROVE  SlotTypeOK'
  <2> DEFINE w == [stage |-> IF KeysAreFresh THEN "token" ELSE "fetch",
                   request |-> r, forced |-> FALSE, keys |-> keysCache.keys,
                   readAt |-> 0, promised |-> marked[r.agent]]
  <2>1. w \in Running
    BY AuthAssumption DEF Running, Requests, EarlyStages, ProxyTypeOK, AuthTypeOK
  <2>2. UNCHANGED slot \/ slot' = [slot EXCEPT ![s] = w]
    BY <1>1 DEF Arrive
  <2>3. CASE UNCHANGED slot
    BY <2>3, <1>0 DEF SlotTypeOK
  <2> QED
    BY <2>1, <2>2, <2>3, <1>0, PutType
<1>2. ASSUME KeysAnswered(s)
      PROVE  SlotTypeOK'
  <2>1. slot[s] \in Running
    BY <1>0, <1>2, RunningAt DEF KeysAnswered
  <2>2. [slot[s] EXCEPT !.stage = "fetched", !.keys = published] \in Running
    BY <2>1, <1>2 DEF Running, EarlyStages, ProxyTypeOK, AuthTypeOK, KeysAnswered
  <2>3. slot' = [slot EXCEPT ![s] = [slot[s] EXCEPT !.stage = "fetched", !.keys = published]] \/ Answer(s)
    BY <1>2, <1>0 DEF KeysAnswered, SlotTypeOK
  <2> QED
    BY <2>2, <2>3, <1>0, PutType, AnswerType
<1>3. ASSUME KeysCached(s)
      PROVE  SlotTypeOK'
  <2>1. slot[s] \in Running
    BY <1>0, <1>3, RunningAt DEF KeysCached
  <2>2. slot[s].request \in Signed
    BY <2>1, <1>3 DEF Running, KeysCached, EarlyStages
  <2>3. slot[s].stage \notin {"free", "verify"} /\ Goto(s, "token")
    BY <1>3 DEF KeysCached
  <2> QED
    BY <2>2, <2>3, <1>0, GotoType DEF EarlyStages
<1>4. ASSUME VerifyToken(s)
      PROVE  SlotTypeOK'
  <2>1. slot[s] \in Running
    BY <1>0, <1>4, RunningAt DEF VerifyToken
  <2>2. /\ [slot[s] EXCEPT !.stage = "nonce", !.readAt = now] \in Running
        /\ [slot[s] EXCEPT !.stage = "fetch", !.forced = TRUE] \in Running
    BY <2>1, <1>4 DEF Running, EarlyStages, ProxyTypeOK, NonceTypeOK, VerifyToken
  <2>3. \/ slot' = [slot EXCEPT ![s] = [slot[s] EXCEPT !.stage = "nonce", !.readAt = now]]
        \/ slot' = [slot EXCEPT ![s] = [slot[s] EXCEPT !.stage = "fetch", !.forced = TRUE]]
        \/ Answer(s)
    BY <1>4, <1>0 DEF VerifyToken, SlotTypeOK
  <2> QED
    BY <2>2, <2>3, <1>0, PutType, AnswerType
<1>5. ASSUME CheckNonce(s) \/ CheckRevoked(s)
      PROVE  SlotTypeOK'
  <2>1. slot[s].stage \notin {"free", "verify"}
    BY <1>5 DEF CheckNonce, CheckRevoked
  <2>2. Goto(s, "revoked") \/ Goto(s, "crl") \/ Answer(s)
    BY <1>5 DEF CheckNonce, CheckRevoked, TrustFails
  <2> QED
    BY <2>1, <2>2, <1>0, GotoType, AnswerType DEF EarlyStages, LateStages
<1>6. ASSUME CheckCrl(s) \/ CheckKnown(s)
      PROVE  SlotTypeOK'
  <2>1. slot[s].stage \notin {"free", "verify"}
    BY <1>6 DEF CheckCrl, CheckKnown
  <2>2. Goto(s, "session") \/ Goto(s, "known") \/ Answer(s)
    BY <1>6 DEF CheckCrl, CheckKnown, TrustFails, CrlFails
  <2> QED
    BY <2>1, <2>2, <1>0, GotoType, AnswerType DEF EarlyStages, LateStages
<1>7. ASSUME CheckSession(s)
      PROVE  SlotTypeOK'
  <2>1. slot[s].stage \notin {"free", "verify"}
    BY <1>7 DEF CheckSession
  <2>2. Goto(s, slot[s].request.path) \/ Answer(s)
    BY <1>7 DEF CheckSession
  <2>3. slot[s].request.path \in PairingPaths \cup ValidatedPaths
    BY <2>1, <1>0, RunningAt DEF Running, Requests
  <2> QED
    BY <2>1, <2>2, <2>3, <1>0, GotoType, AnswerType
       DEF PairingPaths, ValidatedPaths, EarlyStages, LateStages
<1> QED
  BY <1>1, <1>2, <1>3, <1>4, <1>5, <1>6, <1>7 DEF AuthStep

-----------------------------------------------------------------------------
(* The trust store in memory keeps its types *)

LEMMA KeptType ==
    ASSUME NEW map \in TicketMaps, NEW n, NEW skip
    PROVE  Kept(map, n, skip) \in TicketMaps
  BY DEF Kept, TicketMaps

LEMMA KeptMarkersType ==
    ASSUME TrustTypeOK, NEW n
    PROVE  KeptMarkers(n) \in [Agents -> Nat]
  BY DEF KeptMarkers, TrustTypeOK

LEMMA TrustTypes ==
    ASSUME ProxyTypeOK, TrustChange
    PROVE  TrustTypeOK' /\ marked' \in [Agents -> Nat]
<1> USE DEF At, Request
<1>0. TrustTypeOK /\ now \in Nat /\ marked \in [Agents -> Nat] /\ SlotTypeOK
  BY DEF ProxyTypeOK, NonceTypeOK, AuthTypeOK
<1>1. ASSUME NEW s \in Slots, CheckRevoked(s)
      PROVE  TrustTypeOK' /\ marked' \in [Agents -> Nat]
  BY <1>0, <1>1, KeptType, KeptMarkersType
     DEF CheckRevoked, SweepForCheck, Cleanup, Same, TrustTypeOK
<1>2. ASSUME NEW s \in Slots, NEW k \in Kids, NEW ttl \in Ttls, StoreTicket(s, k, ttl)
      PROVE  TrustTypeOK' /\ marked' \in [Agents -> Nat]
  <2>1. slot[s] \in Running
    BY <1>0, <1>2, RunningAt DEF StoreTicket
  <2> DEFINE t == [initiator |-> slot[s].request.agent, allow |-> slot[s].request.to,
                   expiresAt |-> WholeSecond(slot[s].readAt + ttl), responder |-> Anyone]
  <2>2. t \in Tickets
    <3>1. slot[s].readAt + ttl \in Nat
      BY <2>1, QueueAssumption DEF Running
    <3> QED
      BY <3>1, <2>1, WholeSeconds DEF Running, Requests, Tickets
  <2>3. CASE OnWorker /\ UNCHANGED trustVars
    BY <2>3, <1>0, <1>2 DEF StoreTicket, TrustTypeOK, trustVars
  <2>4. CASE CreatePairingTicket(k, Request(s).agent, Request(s).to, slot[s].readAt, ttl)
    <3>1. /\ tickets' = [Kept(tickets, slot[s].readAt, NoKid) EXCEPT ![k] = t]
          /\ confirmed' = [Kept(confirmed, slot[s].readAt, NoKid) EXCEPT ![k] = NoTicket]
          /\ markers' = KeptMarkers(slot[s].readAt)
          /\ issued' = [issued EXCEPT ![k] = t]
          /\ UNCHANGED <<pairs, accepted>>
      BY <2>4 DEF CreatePairingTicket, Cleanup, Same
    <3> HIDE DEF t
    <3>2. Kept(tickets, slot[s].readAt, NoKid) \in TicketMaps /\ Kept(confirmed, slot[s].readAt, NoKid) \in TicketMaps
      BY <1>0, KeptType DEF TrustTypeOK
    <3>3. KeptMarkers(slot[s].readAt) \in [Agents -> Nat]
      BY <1>0, KeptMarkersType
    <3> QED
      BY <3>1, <3>2, <3>3, <2>2, <1>0, <1>2 DEF TrustTypeOK, TicketMaps, StoreTicket
  <2> QED
    BY <1>2, <2>3, <2>4 DEF StoreTicket
<1>3. ASSUME NEW s \in Slots, NEW k \in Kids, ConfirmRead(s, k)
      PROVE  TrustTypeOK' /\ marked' \in [Agents -> Nat]
  BY <1>0, <1>3, KeptType, KeptMarkersType
     DEF ConfirmRead, LookUpPending, Cleanup, Same, TrustTypeOK
<1>4. ASSUME NEW s \in Slots, NEW k \in Kids, PairStatus(s, k)
      PROVE  TrustTypeOK' /\ marked' \in [Agents -> Nat]
  <2>1. CASE UNCHANGED trustVars
    BY <2>1, <1>0, <1>4 DEF PairStatus, TrustTypeOK, trustVars
  <2>2. CASE GetPairingTicketStatus(k, now)
    <3>1. /\ tickets' \in {Kept(tickets, now, k), [Kept(tickets, now, k) EXCEPT ![k] = NoTicket]}
          /\ confirmed' \in {Kept(confirmed, now, k), [Kept(confirmed, now, k) EXCEPT ![k] = NoTicket]}
          /\ markers' = KeptMarkers(now)
          /\ UNCHANGED <<pairs, issued, accepted>>
      BY <2>2 DEF GetPairingTicketStatus, Cleanup, Same
    <3>2. Kept(tickets, now, k) \in TicketMaps /\ Kept(confirmed, now, k) \in TicketMaps
      BY <1>0, KeptType DEF TrustTypeOK
    <3>3. KeptMarkers(now) \in [Agents -> Nat]
      BY <1>0, KeptMarkersType
    <3> QED
      BY <3>1, <3>2, <3>3, <1>0, <1>4 DEF TrustTypeOK, TicketMaps, PairStatus
  <2> QED
    BY <1>4, <2>1, <2>2 DEF PairStatus
<1>5. ASSUME NEW s \in Slots, ConfirmWrite(s)
      PROVE  TrustTypeOK' /\ marked' \in [Agents -> Nat]
  <2> DEFINE w == slot[s]
  <2>1. w \in Verifying
    BY <1>0, <1>5 DEF ConfirmWrite, SlotTypeOK, Free, Running, EarlyStages, LateStages
  <2>2. CASE UNCHANGED trustVars
    BY <2>2, <1>0, <1>5 DEF ConfirmWrite, TrustTypeOK, trustVars
  <2>3. CASE DropExpiredTicket(w.kid)
    BY <2>3, <2>1, <1>0, <1>5 DEF ConfirmWrite, TrustTypeOK, TicketMaps, DropExpiredTicket
  <2>4. CASE ConfirmTicket(w.kid, w.ticket, w.request.agent, w.seen)
    <3>1. /\ w.kid \in Kids /\ w.ticket \in Tickets /\ w.request.agent \in Agents
          /\ w.ticket.initiator \in Agents
      BY <2>1 DEF Verifying, Requests, Tickets
    <3>2. [w.ticket EXCEPT !.responder = w.request.agent] \in Tickets
      BY <3>1 DEF Tickets
    <3> QED
      BY <2>4, <3>1, <3>2, <1>0, <1>5 DEF ConfirmWrite, TrustTypeOK, TicketMaps, ConfirmTicket
  <2> QED
    BY <1>5, <2>2, <2>3, <2>4 DEF ConfirmWrite
<1>6. ASSUME NEW s \in Slots, NEW a \in Agents, ConfirmDurable(s, a)
      PROVE  TrustTypeOK' /\ marked' \in [Agents -> Nat]
  <2>1. slot[s].request.agent \in Agents
    BY <1>0, <1>6, RunningAt DEF ConfirmDurable, Running, Requests
  <2> QED
    BY <2>1, <1>0, <1>6 DEF ConfirmDurable, UpsertPair, TrustTypeOK, trustVars
<1>7. ASSUME NEW e \in batch, Handle(e) \/ HandleFails(e)
      PROVE  TrustTypeOK' /\ marked' \in [Agents -> Nat]
  <2>1. e.about \in Agents
    BY DEF ProxyTypeOK, QueueTypeOK, Events
  <2>2. CASE UNCHANGED <<trustVars, marked>>
    BY <2>2, <1>0 DEF TrustTypeOK, trustVars
  <2>3. CASE MarkAgentRevoked(e.about) /\ marked' = [marked EXCEPT ![e.about] = now + MarkerTtl]
    <3>1. now + MarkerTtl \in Nat
      BY <1>0, ProxyTrustAssumption
    <3>2. KeptMarkers(now) \in [Agents -> Nat]
      BY <1>0, KeptMarkersType
    <3> QED
      BY <2>1, <2>3, <3>1, <3>2, <1>0, KeptType DEF TrustTypeOK, MarkAgentRevoked, Cleanup, Same
  <2> QED
    BY <1>7, <2>2, <2>3 DEF Handle, HandleFails, Effect
<1>8. ASSUME NEW a \in Agents, NEW b \in Agents, PairUp(a, b)
      PROVE  TrustTypeOK' /\ marked' \in [Agents -> Nat]
  BY <1>0, <1>8 DEF PairUp, UpsertPair, TrustTypeOK, authVars
<1> QED
  BY <1>1, <1>2, <1>3, <1>4, <1>5, <1>6, <1>7, <1>8 DEF TrustChange

LEMMA RouteSlots ==
    ASSUME ProxyTypeOK, TrustTypeOK', NEW s \in Slots, RouteStep(s)
    PROVE  SlotTypeOK'
<1> USE DEF At, Request
<1>0. SlotTypeOK
  BY DEF ProxyTypeOK
<1>1. ASSUME HookAuthorize(s) \/ ReceiptAuthorize(s)
      PROVE  SlotTypeOK'
  <2>1. slot[s].stage \notin {"free", "verify"}
    BY <1>1 DEF HookAuthorize, ReceiptAuthorize
  <2>2. slot[s].request.agent \in Agents
    BY <2>1, <1>0, RunningAt DEF Running, Requests
  <2>3. IsPairAllowed(slot[s].request.to, slot[s].request.agent) => slot[s].request.to \in Agents
    BY <2>2 DEF IsPairAllowed, ProxyTypeOK, TrustTypeOK
  <2>4. \/ Goto(s, "relay") \/ Goto(s, "lookup") \/ Answer(s)
        \/ Goto(s, "publish") /\ slot[s].request.to \in Agents
    BY <1>1, <2>3 DEF HookAuthorize, ReceiptAuthorize
  <2> QED
    BY <2>1, <2>4, <1>0, GotoType, AnswerType DEF EarlyStages, LateStages
<1>2. ASSUME NEW k, NEW ttl,
             \/ RelayCall(s) \/ PublishReceipt(s) \/ StoreTicket(s, k, ttl)
             \/ ConfirmWrite(s) \/ PublishAccepted(s) \/ PairStatus(s, k)
      PROVE  Answer(s)
  BY <1>2 DEF RelayCall, PublishReceipt, StoreTicket, ConfirmWrite, PublishAccepted, PairStatus
<1>3. ASSUME PairStart(s)
      PROVE  SlotTypeOK'
  <2>1. slot[s] \in Running
    BY <1>0, <1>3, RunningAt DEF PairStart
  <2>2. [slot[s] EXCEPT !.stage = "ticket", !.readAt = now] \in Running
    BY <2>1 DEF Running, EarlyStages, LateStages, ProxyTypeOK, NonceTypeOK
  <2>3. slot' = [slot EXCEPT ![s] = [slot[s] EXCEPT !.stage = "ticket", !.readAt = now]] \/ Answer(s)
    BY <1>3, <1>0 DEF PairStart, OwnershipRefused, SlotTypeOK
  <2> QED
    BY <2>2, <2>3, <1>0, PutType, AnswerType
<1>4. ASSUME NEW a \in Agents, ConfirmDurable(s, a)
      PROVE  SlotTypeOK'
  <2>1. slot[s] \in Running
    BY <1>0, <1>4, RunningAt DEF ConfirmDurable
  <2>2. [slot[s] EXCEPT !.stage = "announce", !.request.to = a] \in Running
    BY <2>1 DEF Running, Requests, EarlyStages, LateStages
  <2>3. slot' = [slot EXCEPT ![s] = [slot[s] EXCEPT !.stage = "announce", !.request.to = a]] \/ Answer(s)
    BY <1>4, <1>0 DEF ConfirmDurable, SlotTypeOK
  <2> QED
    BY <2>2, <2>3, <1>0, PutType, AnswerType
<1>5. ASSUME NEW k \in Kids, ConfirmRead(s, k)
      PROVE  SlotTypeOK'
  <2> DEFINE w == [stage |-> "verify", request |-> slot[s].request,
                   kid |-> k, ticket |-> tickets[k], readAt |-> now, promised |-> slot[s].promised,
                   seen |-> [tickets |-> tickets', confirmed |-> confirmed']]
  <2>1. slot[s] \in Running
    BY <1>0, <1>5, RunningAt DEF ConfirmRead
  <2>2. CASE Confirmable(k)
    <3>1. tickets[k] \in Tickets
      BY <2>2 DEF Confirmable, ProxyTypeOK, TrustTypeOK, TicketMaps
    <3>2. w \in Verifying
      BY <3>1, <2>1 DEF Running, Verifying, ProxyTypeOK, NonceTypeOK, TrustTypeOK
    <3>3. slot' = [slot EXCEPT ![s] = w]
      BY <2>2, <1>5 DEF ConfirmRead
    <3> QED
      BY <3>2, <3>3, <1>0, PutType
  <2>3. CASE ~Confirmable(k)
    BY <2>3, <1>5, <1>0, AnswerType DEF ConfirmRead
  <2> QED
    BY <2>2, <2>3
<1> QED
  BY <1>0, <1>1, <1>2, <1>3, <1>4, <1>5, AnswerType DEF RouteStep

-----------------------------------------------------------------------------
(* Limits, histories, queues and the nonce cache keep their types *)

LEMMA SweptType ==
    ASSUME NEW X, NEW buckets \in Buckets(X)
    PROVE  Swept(buckets) \in Buckets(X)
  BY DEF Swept, Buckets, NoBucket

LEMMA CountedType ==
    ASSUME NEW X, NEW buckets \in Buckets(X), NEW x \in X, now \in Nat
    PROVE  Counted(buckets, x) \in Buckets(X)
<1>1. Swept(buckets) \in Buckets(X)
  BY SweptType
<1>2. CASE Over(buckets[x])
  BY <1>1, <1>2 DEF Counted, Buckets
<1>3. CASE ~Over(buckets[x])
  <2>1. Swept(buckets)[x] \in [start : Nat, count : Nat]
    BY <1>1 DEF Buckets
  <2> DEFINE b == [start |-> Swept(buckets)[x].start, count |-> Swept(buckets)[x].count + 1]
  <2>2. b \in [start : Nat, count : Nat]
    BY <2>1
  <2>3. Counted(buckets, x) = [Swept(buckets) EXCEPT ![x] = b]
    BY <1>3 DEF Counted
  <2> HIDE DEF b
  <2> QED
    BY <1>1, <2>2, <2>3 DEF Buckets
<1> QED
  BY <1>2, <1>3

AuthChange(s) ==
    \/ \E r \in Signed : Arrive(s, r)
    \/ KeysCached(s) \/ CheckNonce(s) \/ CheckSession(s)

LEMMA AuthFrame ==
    ASSUME ProxyNext
    PROVE  \/ UNCHANGED <<keysCache, addressBucket, agentBucket, published, arrivals, taken, passed>>
           \/ \E k \in SigningKeys : RotateKey(k)
           \/ \E s \in Slots : AuthChange(s)
<1> DEFINE Same7 == UNCHANGED <<keysCache, addressBucket, agentBucket, published, arrivals, taken, passed>>
<1>1. ASSUME NEW s \in Slots, AuthStep(s), ~AuthChange(s)
      PROVE  Same7
  BY <1>1 DEF AuthStep, AuthChange, KeysAnswered, VerifyToken, CheckRevoked, CheckCrl, CheckKnown
<1>2. ASSUME NEW s \in Slots, RouteStep(s)
      PROVE  Same7
  BY <1>2 DEF RouteStep, HookAuthorize, RelayCall, ReceiptAuthorize, PublishReceipt, PairStart,
     StoreTicket, ConfirmRead, PairStatus, ConfirmWrite, ConfirmDurable, PublishAccepted
<1>3. ASSUME ConsumerNext
      PROVE  Same7
  BY <1>3 DEF ConsumerNext, TakeBatch, EndBatch, ConsumerStops, Handle, HandleRefused, HandleFails, authVars
<1>4. ASSUME NEW e, RegistryPublishes(e)
      PROVE  Same7
  BY <1>4 DEF RegistryPublishes, authVars
<1>5. ASSUME NEW a, NEW b, PairUp(a, b)
      PROVE  Same7
  BY <1>5 DEF PairUp, authVars
<1>6. ASSUME TimePasses
      PROVE  Same7
  BY <1>6 DEF TimePasses, authVars
<1> HIDE DEF Same7
<1>7. Same7 \/ (\E k \in SigningKeys : RotateKey(k)) \/ (\E s \in Slots : AuthChange(s))
  BY <1>1, <1>2, <1>3, <1>4, <1>5, <1>6, NextSteps, Zenon
<1> QED
  BY <1>7 DEF Same7

LEMMA AuthTypes ==
    ASSUME ProxyTypeOK, ProxyNext, marked' \in [Agents -> Nat]
    PROVE  AuthTypeOK'
<1> USE DEF At, Request
<1>0. AuthTypeOK /\ SlotTypeOK /\ now \in Nat
  BY DEF ProxyTypeOK, NonceTypeOK
<1>1. CASE UNCHANGED <<keysCache, addressBucket, agentBucket, published, arrivals, taken, passed>>
  BY <1>0, <1>1 DEF AuthTypeOK
<1>2. ASSUME NEW k \in SigningKeys, RotateKey(k)
      PROVE  AuthTypeOK'
  BY <1>0, <1>2 DEF RotateKey, AuthTypeOK
<1>3. ASSUME NEW s \in Slots, NEW r \in Signed, Arrive(s, r)
      PROVE  AuthTypeOK'
  <2>1. addressBucket' \in Buckets(LimitedPaths)
    <3>1. Swept(addressBucket) \in Buckets(LimitedPaths)
      BY <1>0, SweptType DEF AuthTypeOK
    <3>2. r.path \in LimitedPaths => Counted(addressBucket, r.path) \in Buckets(LimitedPaths)
      BY <1>0, CountedType DEF AuthTypeOK
    <3> QED
      BY <3>1, <3>2, <1>0, <1>3 DEF Arrive, AuthTypeOK
  <2> QED
    BY <2>1, <1>0, <1>3 DEF Arrive, AuthTypeOK
<1>4. ASSUME NEW s \in Slots, KeysCached(s)
      PROVE  AuthTypeOK'
  <2>1. slot[s].keys \subseteq SigningKeys
    BY <1>0, <1>4, RunningAt DEF KeysCached, Running
  <2> QED
    BY <2>1, <1>0, <1>4 DEF KeysCached, AuthTypeOK
<1>5. ASSUME NEW s \in Slots, CheckNonce(s)
      PROVE  AuthTypeOK'
  <2> DEFINE r == slot[s].request
             t == taken[r]
             u == [at |-> IF t.times = 0 THEN now ELSE t.at, times |-> t.times + 1]
  <2>0. r \in Signed
    BY <1>0, <1>5, RunningAt DEF CheckNonce, Running, EarlyStages
  <2>1. taken' \in [Signed -> [at : Nat, times : Nat]]
    <3>1. t \in [at : Nat, times : Nat]
      BY <2>0, <1>0 DEF AuthTypeOK
    <3>2. u \in [at : Nat, times : Nat]
      BY <3>1, <1>0
    <3>3. taken' = taken \/ taken' = [taken EXCEPT ![r] = u]
      BY <1>5 DEF CheckNonce
    <3> HIDE DEF u
    <3> QED
      BY <3>2, <3>3, <2>0, <1>0 DEF AuthTypeOK
  <2> QED
    BY <2>1, <1>0, <1>5 DEF CheckNonce, AuthTypeOK
<1>6. ASSUME NEW s \in Slots, CheckSession(s)
      PROVE  AuthTypeOK'
  <2>1. slot[s].request.agent \in Agents
    BY <1>0, <1>6, RunningAt DEF CheckSession, Running, Requests
  <2>2. agentBucket' \in Buckets(Agents)
    BY <2>1, <1>0, <1>6, SweptType, CountedType DEF CheckSession, AuthTypeOK
  <2>3. passed' \in [Agents -> Seq(Nat)]
    <3> DEFINE q == Append(passed[slot[s].request.agent], now)
    <3>1. q \in Seq(Nat)
      BY <2>1, <1>0 DEF AuthTypeOK
    <3>2. passed' = passed \/ passed' = [passed EXCEPT ![slot[s].request.agent] = q]
      BY <1>6 DEF CheckSession
    <3> HIDE DEF q
    <3> QED
      BY <3>1, <3>2, <2>1, <1>0 DEF AuthTypeOK
  <2> QED
    BY <2>2, <2>3, <1>0, <1>6 DEF CheckSession, AuthTypeOK
<1> QED
  BY <1>1, <1>2, <1>3, <1>4, <1>5, <1>6, AuthFrame DEF AuthChange

LEMMA QueueTypes ==
    ASSUME ProxyTypeOK, ProxyNext
    PROVE  QueueTypeOK'
<1> USE DEF At, Request
<1>0. QueueTypeOK /\ SlotTypeOK
  BY DEF ProxyTypeOK
<1>1. CASE UNCHANGED <<backend, queueVars>>
  BY <1>0, <1>1 DEF QueueTypeOK, queueVars
<1>2. ASSUME NEW e \in Events, Publish(e), UNCHANGED backend
      PROVE  QueueTypeOK'
  BY <1>0, <1>2 DEF Publish, QueueTypeOK
<1>3. ASSUME NEW s \in Slots, RouteStep(s), ~UNCHANGED <<backend, queueVars>>
      PROVE  (\E e \in Events : Publish(e)) /\ UNCHANGED backend
  <2>1. PublishReceipt(s) \/ PublishAccepted(s)
    BY <1>3 DEF RouteStep, HookAuthorize, RelayCall, ReceiptAuthorize, PairStart,
       StoreTicket, ConfirmRead, PairStatus, ConfirmWrite, ConfirmDurable
  <2>2. slot[s].request.agent \in Agents /\ slot[s].request.to \in Agents
    BY <2>1, <1>0, RunningAt DEF PublishReceipt, PublishAccepted, Running, Requests
  <2> QED
    BY <2>1, <2>2, <1>3 DEF PublishReceipt, PublishAccepted, Events
<1>4. ASSUME ConsumerNext
      PROVE  QueueTypeOK'
  <2>1. CASE TakeBatch
    BY <1>0, <2>1 DEF TakeBatch, QueueTypeOK
  <2>2. CASE EndBatch \/ ConsumerStops
    BY <1>0, <2>2 DEF EndBatch, ConsumerStops, Close, QueueTypeOK
  <2>3. ASSUME NEW e \in batch, Handle(e) \/ HandleRefused(e) \/ HandleFails(e)
        PROVE  QueueTypeOK'
    BY <1>0, <2>3 DEF Handle, HandleRefused, HandleFails, Settle, Effect, QueueTypeOK
  <2> QED
    BY <2>1, <2>2, <2>3, <1>4 DEF ConsumerNext
<1>5. ASSUME NEW e \in Events, RegistryPublishes(e)
      PROVE  QueueTypeOK'
  BY <1>2, <1>5 DEF RegistryPublishes
<1>6. ASSUME \/ \E a, b \in Agents : PairUp(a, b)
             \/ TimePasses
      PROVE  UNCHANGED <<backend, queueVars>>
  BY <1>6 DEF PairUp, TimePasses
<1> QED
  BY <1>1, <1>2, <1>3, <1>4, <1>5, <1>6, NextSteps

LEMMA NonceTypes ==
    ASSUME ProxyTypeOK, ProxyNext
    PROVE  NonceTypeOK'
<1>0. NonceTypeOK /\ SlotTypeOK
  BY DEF ProxyTypeOK
<1>1. CASE UNCHANGED vars
  BY <1>0, <1>1 DEF vars, NonceTypeOK
<1>2. CASE TimePasses
  BY <1>0, <1>2 DEF TimePasses, Tick, NonceTypeOK
<1>3. ASSUME NEW s \in Slots, CheckNonce(s)
      PROVE  NonceTypeOK'
  <2>1. Request(s).agent \in Agents /\ Request(s).nonce \in Nonces
    BY <1>0, <1>3, RunningAt DEF CheckNonce, At, Request, Running, Requests
  <2>2. Purged \in [Keys -> Nat]
    BY <1>0 DEF Purged, NonceTypeOK
  <2> QED
    BY <2>1, <2>2, <1>0, <1>3, CacheAssumption
       DEF CheckNonce, TryAcceptNonce, AgentsLeft, NonceTypeOK, Keys
<1> QED
  BY <1>1, <1>2, <1>3, NonceFrame

LEMMA NextTypes ==
    ASSUME ProxyTypeOK, [ProxyNext]_proxyVars
    PROVE  ProxyTypeOK'
<1>1. CASE UNCHANGED proxyVars
  BY <1>1 DEF ProxyTypeOK, proxyVars, vars, trustVars, authVars, queueVars, NonceTypeOK, TrustTypeOK,
     SlotTypeOK, AuthTypeOK, QueueTypeOK
<1>2. CASE ProxyNext
  <2>1. TrustTypeOK' /\ marked' \in [Agents -> Nat]
    <3>1. CASE UNCHANGED <<trustVars, marked>>
      BY <3>1 DEF ProxyTypeOK, TrustTypeOK, AuthTypeOK, trustVars
    <3> QED
      BY <3>1, <1>2, TrustFrame, TrustTypes
  <2>2. SlotTypeOK'
    <3>1. CASE UNCHANGED slot
      BY <3>1 DEF ProxyTypeOK, SlotTypeOK
    <3>2. ASSUME \/ \E k \in SigningKeys : RotateKey(k)
                 \/ ConsumerNext
                 \/ \E e \in Events : RegistryPublishes(e)
                 \/ \E a, b \in Agents : PairUp(a, b)
                 \/ TimePasses
          PROVE  UNCHANGED slot
      BY <3>2 DEF RotateKey, ConsumerNext, TakeBatch, EndBatch, ConsumerStops, Handle, HandleRefused,
         HandleFails, RegistryPublishes, PairUp, TimePasses, authVars
    <3> QED
      BY <2>1, <3>1, <3>2, <1>2, NextSteps, AuthSlots, RouteSlots
  <2> QED
    BY <2>1, <2>2, <1>2, AuthTypes, QueueTypes, NonceTypes DEF ProxyTypeOK
<1> QED
  BY <1>1, <1>2

\* Every reachable state of the proxy, of its trust store and of its queues is
\* well typed; a request keeps the form in which its handler reads it.
THEOREM ProxyTypeCorrect == ProxySpec => []ProxyTypeOK
  BY InitTypes, NextTypes, PTL DEF ProxySpec

-----------------------------------------------------------------------------
(* The inductive invariants *)

\* No reading of the clock lies in the future; one that waits for its nonce is
\* not older than the lag, and was within the skew of the request's timestamp.
ReadingsInv ==
    \A s \in Slots : slot[s].stage # "free" =>
        /\ slot[s].readAt <= now
        /\ slot[s].stage = "nonce" =>
              /\ now <= slot[s].readAt + MaxLag
              /\ slot[s].readAt \div Second <= slot[s].request.ts + Skew

\* A request whose nonce was taken less than a lifetime ago was taken once, and
\* the record of its nonce is the one it left.
RememberedInv ==
    \A r \in Signed : taken[r].times > 0 =>
        /\ taken[r].at <= now
        /\ now < taken[r].at + Ttl =>
              taken[r].times = 1 /\ expiresAt[<<r.agent, r.nonce>>] = taken[r].at + Ttl

\* What passed before a window began, up to its limit, is a window older than it;
\* with no window open, what passed up to the limit is a window old now.
WindowsInv ==
    \A a \in Agents :
        LET q == passed[a]
            b == agentBucket[a]
        IN  /\ \A i \in 1 .. Len(q) : q[i] <= now
            /\ b.start <= now /\ b.count <= MaxPerAgent /\ b.count <= Len(q)
            /\ ~Over(b) =>
                  /\ \A i \in 1 .. (Len(q) - b.count + 1) : q[i] <= b.start
                  /\ \A i \in 1 .. (Len(q) - b.count - MaxPerAgent + 1) : q[i] + Window <= b.start
            /\ Over(b) => \A i \in 1 .. (Len(q) - MaxPerAgent + 1) : q[i] + Window <= now

\* A marker that lasts is the one that was set last, and no request was promised
\* more than its agent's last marker.
MarkersInv ==
    /\ \A a \in Agents : /\ marked[a] <= now + MarkerTtl
                         /\ marked[a] > now => markers[a] = marked[a]
    /\ \A s \in Slots : slot[s].stage # "free" => slot[s].promised <= marked[slot[s].request.agent]

\* Entries of both maps, and the ticket a confirm holds, are the ticket issued
\* under their id; nothing is accepted under an id that was never issued.
TicketsInv ==
    /\ \A k \in Kids :
          /\ tickets[k] \in {NoTicket, issued[k]}
          /\ confirmed[k] # NoTicket => confirmed[k].expiresAt = issued[k].expiresAt
          /\ issued[k] = NoTicket => accepted[k] = {}
    /\ \A s \in Slots : slot[s].stage = "verify" => slot[s].ticket = issued[slot[s].kid]

\* A published event is in the queue or settled.
EventsKept == \A e \in announced : e \in queue \/ Settled(e)

\* The consumer handles what the queue still holds, and acknowledges only what
\* has taken effect or was refused.
ConsumerInv ==
    /\ batch \cup DOMAIN verdict \subseteq queue
    /\ \A e \in DOMAIN verdict : verdict[e] # "retry" => e \in effected \cup rejected

-----------------------------------------------------------------------------
(* How a request moves *)

\* A request as it arrives.
Arrived(v) ==
    /\ v.stage \in {"token", "fetch"} /\ v.readAt = 0
    /\ v.promised = marked[v.request.agent]

\* One that goes on from w to v: it gets past the trust check only if that finds
\* no marker, and to the signature check of a ticket only with one it found.
Moved(w, v) ==
    /\ v.promised = w.promised /\ v.request.agent = w.request.agent
    /\ v.readAt \in {w.readAt, now}
    /\ v.stage = "nonce" => v.readAt = now /\ WithinSkew(v.request.ts)
    /\ v.stage \in EarlyStages \/ w.stage \notin EarlyStages \/ markers[w.request.agent] <= now
    /\ v.stage = "verify" => v.ticket = tickets[v.kid] /\ v.ticket # NoTicket

\* What a step does to the slots: one of them changes, in one of three ways.
SlotMoves(s) ==
    /\ \A t \in Slots \ {s} : slot'[t] = slot[t]
    /\ \/ slot'[s] = slot[s]
       \/ slot'[s] = Free
       \/ slot[s].stage = "free" /\ Arrived(slot'[s])
       \/ slot[s].stage # "free" /\ Moved(slot[s], slot'[s])

LEMMA AnswerMoves ==
    ASSUME SlotTypeOK, NEW s \in Slots, Answer(s)
    PROVE  SlotMoves(s)
  BY DEF SlotTypeOK, Answer, SlotMoves

LEMMA PutMoves ==
    ASSUME SlotTypeOK, NEW s \in Slots, NEW w, slot' = [slot EXCEPT ![s] = w],
           slot[s].stage # "free", Moved(slot[s], w)
    PROVE  SlotMoves(s)
  BY DEF SlotTypeOK, SlotMoves

LEMMA GotoMoves ==
    ASSUME SlotTypeOK, NEW s \in Slots, slot[s].stage \notin {"free", "verify"},
           NEW st, Goto(s, st), st \notin {"nonce", "verify"},
           st \in EarlyStages \/ slot[s].stage \notin EarlyStages \/ markers[slot[s].request.agent] <= now
    PROVE  SlotMoves(s)
<1> DEFINE w == [slot[s] EXCEPT !.stage = st]
<1>1. slot[s] \in Running
  BY RunningAt
<1>2. Moved(slot[s], w)
  BY <1>1 DEF Running, Moved
<1>3. slot' = [slot EXCEPT ![s] = w]
  BY DEF Goto, SlotTypeOK
<1> QED
  BY <1>2, <1>3, PutMoves

LEMMA AuthMoves ==
    ASSUME ProxyTypeOK, NEW s \in Slots, AuthStep(s)
    PROVE  SlotMoves(s)
<1> USE DEF At, Request
<1>0. SlotTypeOK
  BY DEF ProxyTypeOK
<1>1. ASSUME NEW r \in Signed, Arrive(s, r)
      PROVE  SlotMoves(s)
  BY <1>0, <1>1 DEF Arrive, SlotMoves, Arrived, SlotTypeOK
<1>2. ASSUME KeysAnswered(s)
      PROVE  SlotMoves(s)
  <2> DEFINE w == [slot[s] EXCEPT !.stage = "fetched", !.keys = published]
  <2>1. slot[s] \in Running /\ slot[s].stage # "free"
    BY <1>0, <1>2, RunningAt DEF KeysAnswered
  <2>2. Moved(slot[s], w)
    BY <2>1 DEF Running, Moved, EarlyStages
  <2>3. slot' = [slot EXCEPT ![s] = w] \/ Answer(s)
    BY <1>2, <1>0 DEF KeysAnswered, SlotTypeOK
  <2> QED
    BY <2>1, <2>2, <2>3, <1>0, PutMoves, AnswerMoves
<1>3. ASSUME KeysCached(s)
      PROVE  SlotMoves(s)
  BY <1>0, <1>3, GotoMoves DEF KeysCached, EarlyStages
<1>4. ASSUME VerifyToken(s)
      PROVE  SlotMoves(s)
  <2> DEFINE w == [slot[s] EXCEPT !.stage = "nonce", !.readAt = now]
             v == [slot[s] EXCEPT !.stage = "fetch", !.forced = TRUE]
  <2>1. slot[s] \in Running /\ slot[s].stage # "free"
    BY <1>0, <1>4, RunningAt DEF VerifyToken
  <2>2. \/ WithinSkew(slot[s].request.ts) /\ slot' = [slot EXCEPT ![s] = w]
        \/ slot' = [slot EXCEPT ![s] = v]
        \/ Answer(s)
    BY <1>4, <1>0 DEF VerifyToken, SlotTypeOK
  <2>3. /\ WithinSkew(slot[s].request.ts) => Moved(slot[s], w)
        /\ Moved(slot[s], v)
    BY <2>1 DEF Running, Moved, EarlyStages
  <2> QED
    BY <2>1, <2>2, <2>3, <1>0, PutMoves, AnswerMoves
<1>5. ASSUME CheckNonce(s) \/ CheckRevoked(s)
      PROVE  SlotMoves(s)
  <2>1. slot[s].stage \notin {"free", "verify"}
    BY <1>5 DEF CheckNonce, CheckRevoked
  <2>2. \/ Goto(s, "revoked") \/ Answer(s)
        \/ Goto(s, "crl") /\ ~IsAgentRevoked(slot[s].request.agent)
    BY <1>5 DEF CheckNonce, CheckRevoked, TrustFails
  <2>3. ~IsAgentRevoked(slot[s].request.agent) => markers[slot[s].request.agent] <= now
    BY <2>1, <1>0, RunningAt DEF IsAgentRevoked, Running, Requests, ProxyTypeOK, TrustTypeOK, NonceTypeOK
  <2> QED
    BY <2>1, <2>2, <2>3, <1>0, GotoMoves, AnswerMoves DEF EarlyStages
<1>6. ASSUME CheckCrl(s) \/ CheckKnown(s)
      PROVE  SlotMoves(s)
  <2>1. slot[s].stage \notin {"free", "verify"} \cup EarlyStages
    BY <1>6 DEF CheckCrl, CheckKnown, EarlyStages
  <2>2. Goto(s, "session") \/ Goto(s, "known") \/ Answer(s)
    BY <1>6 DEF CheckCrl, CheckKnown, TrustFails, CrlFails
  <2> QED
    BY <2>1, <2>2, <1>0, GotoMoves, AnswerMoves
<1>7. ASSUME CheckSession(s)
      PROVE  SlotMoves(s)
  <2>1. slot[s].stage \notin {"free", "verify"} \cup EarlyStages
    BY <1>7 DEF CheckSession, EarlyStages
  <2>2. Goto(s, slot[s].request.path) \/ Answer(s)
    BY <1>7 DEF CheckSession
  <2>3. slot[s].request.path \notin {"nonce", "verify"}
    BY <2>1, <1>0, RunningAt DEF Running, Requests, PairingPaths, ValidatedPaths
  <2> QED
    BY <2>1, <2>2, <2>3, <1>0, GotoMoves, AnswerMoves
<1> QED
  BY <1>1, <1>2, <1>3, <1>4, <1>5, <1>6, <1>7 DEF AuthStep

LEMMA RouteMoves ==
    ASSUME ProxyTypeOK, NEW s \in Slots, RouteStep(s)
    PROVE  SlotMoves(s)
<1> USE DEF At, Request
<1>0. SlotTypeOK
  BY DEF ProxyTypeOK
<1>1. ASSUME HookAuthorize(s) \/ ReceiptAuthorize(s)
      PROVE  SlotMoves(s)
  <2>1. slot[s].stage \notin {"free", "verify"} \cup EarlyStages
    BY <1>1 DEF HookAuthorize, ReceiptAuthorize, EarlyStages
  <2>2. Goto(s, "relay") \/ Goto(s, "lookup") \/ Goto(s, "publish") \/ Answer(s)
    BY <1>1 DEF HookAuthorize, ReceiptAuthorize
  <2> QED
    BY <2>1, <2>2, <1>0, GotoMoves, AnswerMoves
<1>2. ASSUME NEW k, NEW ttl,
             \/ RelayCall(s) \/ PublishReceipt(s) \/ StoreTicket(s, k, ttl)
             \/ ConfirmWrite(s) \/ PublishAccepted(s) \/ PairStatus(s, k)
      PROVE  SlotMoves(s)
  <2>1. Answer(s)
    BY <1>2 DEF RelayCall, PublishReceipt, StoreTicket, ConfirmWrite, PublishAccepted, PairStatus
  <2> QED
    BY <2>1, <1>0, AnswerMoves
<1>3. ASSUME PairStart(s)
      PROVE  SlotMoves(s)
  <2> DEFINE w == [slot[s] EXCEPT !.stage = "ticket", !.readAt = now]
  <2>1. slot[s] \in Running /\ slot[s].stage \notin EarlyStages \cup {"free"}
    BY <1>0, <1>3, RunningAt DEF PairStart, EarlyStages
  <2>2. Moved(slot[s], w)
    BY <2>1 DEF Running, Moved
  <2>3. slot' = [slot EXCEPT ![s] = w] \/ Answer(s)
    BY <1>3, <1>0 DEF PairStart, OwnershipRefused, SlotTypeOK
  <2> QED
    BY <2>1, <2>2, <2>3, <1>0, PutMoves, AnswerMoves
<1>4. ASSUME NEW a \in Agents, ConfirmDurable(s, a)
      PROVE  SlotMoves(s)
  <2> DEFINE w == [slot[s] EXCEPT !.stage = "announce", !.request.to = a]
  <2>1. slot[s] \in Running /\ slot[s].stage \notin EarlyStages \cup {"free"}
    BY <1>0, <1>4, RunningAt DEF ConfirmDurable, EarlyStages
  <2>2. Moved(slot[s], w)
    BY <2>1 DEF Running, Requests, Moved
  <2>3. slot' = [slot EXCEPT ![s] = w] \/ Answer(s)
    BY <1>4, <1>0 DEF ConfirmDurable, SlotTypeOK
  <2> QED
    BY <2>1, <2>2, <2>3, <1>0, PutMoves, AnswerMoves
<1>5. ASSUME NEW k \in Kids, ConfirmRead(s, k)
      PROVE  SlotMoves(s)
  <2> DEFINE w == [stage |-> "verify", request |-> slot[s].request,
                   kid |-> k, ticket |-> tickets[k], readAt |-> now, promised |-> slot[s].promised,
                   seen |-> [tickets |-> tickets', confirmed |-> confirmed']]
  <2>1. slot[s].stage \notin EarlyStages \cup {"free"}
    BY <1>5 DEF ConfirmRead, EarlyStages
  <2>2. CASE Confirmable(k)
    <3>1. Moved(slot[s], w)
      BY <2>1, <2>2 DEF Moved, Confirmable
    <3>2. slot' = [slot EXCEPT ![s] = w]
      BY <2>2, <1>5 DEF ConfirmRead
    <3> QED
      BY <3>1, <3>2, <2>1, <1>0, PutMoves
  <2>3. CASE ~Confirmable(k)
    BY <2>3, <1>5, <1>0, AnswerMoves DEF ConfirmRead
  <2> QED
    BY <2>2, <2>3
<1> QED
  BY <1>1, <1>2, <1>3, <1>4, <1>5 DEF RouteStep

LEMMA NextMoves ==
    ASSUME ProxyTypeOK, ProxyNext
    PROVE  UNCHANGED slot \/ \E s \in Slots : SlotMoves(s)
<1>1. ASSUME \/ \E k \in SigningKeys : RotateKey(k)
             \/ ConsumerNext
             \/ \E e \in Events : RegistryPublishes(e)
             \/ \E a, b \in Agents : PairUp(a, b)
             \/ TimePasses
      PROVE  UNCHANGED slot
  BY <1>1 DEF RotateKey, ConsumerNext, TakeBatch, EndBatch, ConsumerStops, Handle, HandleRefused,
     HandleFails, RegistryPublishes, PairUp, TimePasses, authVars
<1> QED
  BY <1>1, NextSteps, AuthMoves, RouteMoves

-----------------------------------------------------------------------------
(* Readings of the clock *)

LEMMA SlotFields ==
    ASSUME SlotTypeOK, NEW s \in Slots, slot[s].stage # "free"
    PROVE  /\ slot[s].readAt \in Nat /\ slot[s].promised \in Nat
           /\ slot[s].request \in Requests
<1>1. slot[s] \in Running \cup Verifying
  BY DEF SlotTypeOK, Free
<1> QED
  BY <1>1 DEF Running, Verifying

LEMMA ClockFrame ==
    ASSUME ProxyNext
    PROVE  \/ UNCHANGED now
           \/ TimePasses /\ now' = now + 1 /\ UNCHANGED <<agents, expiresAt, trustVars, authVars>>
<1>1. ASSUME TimePasses
      PROVE  now' = now + 1 /\ UNCHANGED <<agents, expiresAt, trustVars, authVars>>
  BY <1>1 DEF TimePasses, Tick
<1>2. ASSUME NEW s \in Slots, CheckNonce(s)
      PROVE  UNCHANGED now
  BY <1>2 DEF CheckNonce, TryAcceptNonce
<1> QED
  BY <1>1, <1>2, NonceFrame DEF vars

LEMMA ReadingsStep ==
    ASSUME ProxyTypeOK, SlotTypeOK', ReadingsInv, ProxyNext
    PROVE  ReadingsInv'
<1>0. SlotTypeOK /\ now \in Nat /\ MaxLag \in Nat
  BY AuthAssumption DEF ProxyTypeOK, NonceTypeOK
<1>1. CASE TimePasses /\ now' = now + 1 /\ UNCHANGED authVars
  <2> SUFFICES ASSUME NEW s \in Slots, slot[s].stage # "free"
               PROVE  /\ slot[s].readAt <= now'
                      /\ slot[s].stage = "nonce" =>
                            /\ now' <= slot[s].readAt + MaxLag
                            /\ slot[s].readAt \div Second <= slot[s].request.ts + Skew
    BY <1>1 DEF ReadingsInv, authVars
  <2>1. slot[s].readAt \in Nat
    BY <1>0, SlotFields
  <2>2. slot[s].stage = "nonce" => now < slot[s].readAt + MaxLag
    BY <1>1 DEF TimePasses, InTime
  <2> QED
    BY <2>1, <2>2, <1>0, <1>1 DEF ReadingsInv
<1>2. ASSUME NEW s \in Slots, SlotMoves(s), UNCHANGED now
      PROVE  ReadingsInv'
  <2>1. slot[s].stage # "free" => slot[s].readAt \in Nat /\ slot[s].readAt <= now
    BY <1>0, SlotFields DEF ReadingsInv
  <2>2. ASSUME slot'[s].stage # "free", slot'[s] # slot[s]
        PROVE  /\ slot'[s].readAt <= now
               /\ slot'[s].stage = "nonce" =>
                     /\ now <= slot'[s].readAt + MaxLag
                     /\ slot'[s].readAt \div Second <= slot'[s].request.ts + Skew
    <3>1. CASE Arrived(slot'[s])
      BY <3>1, <1>0 DEF Arrived
    <3>2. CASE slot[s].stage # "free" /\ Moved(slot[s], slot'[s])
      BY <3>2, <2>1, <1>0 DEF Moved, WithinSkew
    <3> QED
      BY <3>1, <3>2, <2>2, <1>2 DEF SlotMoves, Free
  <2> QED
    BY <2>2, <1>2 DEF SlotMoves, ReadingsInv
<1>3. CASE UNCHANGED <<slot, now>>
  BY <1>3 DEF ReadingsInv
<1> QED
  BY <1>1, <1>2, <1>3, ClockFrame, NextMoves

-----------------------------------------------------------------------------
(* Replays *)

LEMMA TakenFrame ==
    ASSUME ProxyNext
    PROVE  \/ UNCHANGED <<now, expiresAt, taken>>
           \/ now' = now + 1 /\ UNCHANGED <<expiresAt, taken>>
           \/ \E s \in Slots : CheckNonce(s)
<1>1. UNCHANGED taken \/ \E s \in Slots : CheckNonce(s)
  BY AuthFrame DEF RotateKey, AuthChange, Arrive, KeysCached, CheckSession
<1>2. \/ UNCHANGED <<now, expiresAt>>
      \/ now' = now + 1 /\ UNCHANGED expiresAt
      \/ \E s \in Slots : CheckNonce(s)
  BY NonceFrame DEF vars, TimePasses, Tick
<1> QED
  BY <1>1, <1>2

\* What CheckNonce reads and writes, for a request that is not a replay.
LEMMA NonceTaken ==
    ASSUME ProxyTypeOK, ReadingsInv, NEW s \in Slots, CheckNonce(s)
    PROVE  LET r == slot[s].request
               k == <<r.agent, r.nonce>>
           IN  /\ r \in Signed /\ r.ts \in Nat /\ k \in Keys
               /\ slot[s].readAt \in Nat /\ now <= slot[s].readAt + MaxLag
               /\ slot[s].readAt \div Second <= r.ts + Skew
               /\ now' = now
               /\ \A x \in Keys : expiresAt[x] > now => expiresAt'[x] = expiresAt[x]
               /\ \/ taken' = taken
                  \/ /\ expiresAt[k] <= now
                     /\ expiresAt'[k] = now + Ttl
                     /\ taken' = [taken EXCEPT ![r] =
                           [at |-> IF taken[r].times = 0 THEN now ELSE taken[r].at,
                            times |-> taken[r].times + 1]]
<1> DEFINE r == slot[s].request
           k == <<r.agent, r.nonce>>
<1>0. now \in Nat /\ expiresAt \in [Keys -> Nat] /\ Ttl \in Nat /\ SlotTypeOK
  BY CacheAssumption DEF ProxyTypeOK, NonceTypeOK
<1>1. slot[s].stage = "nonce"
  BY DEF CheckNonce, At
<1>2. slot[s] \in Running
  BY <1>0, <1>1, RunningAt
<1>3. r \in Signed /\ r.ts \in Nat /\ r.agent \in Agents /\ r.nonce \in Nonces
  BY <1>1, <1>2 DEF Running, Requests, EarlyStages
<1>4. k \in Keys
  BY <1>3 DEF Keys
<1>5. /\ slot[s].readAt \in Nat /\ now <= slot[s].readAt + MaxLag
      /\ slot[s].readAt \div Second <= r.ts + Skew
  BY <1>1, <1>2 DEF ReadingsInv, Running
<1>6. now' = now
  BY DEF CheckNonce, TryAcceptNonce
<1>7. Purged \in [Keys -> Nat] /\ \A x \in Keys : expiresAt[x] > now => Purged[x] = expiresAt[x]
  BY <1>0 DEF Purged
<1>8. Purged[k] = 0 => expiresAt[k] <= now
  BY <1>0, <1>4 DEF Purged
<1>9. CASE Purged[k] = 0
  <2>1. expiresAt' = [Purged EXCEPT ![k] = now + Ttl]
    BY <1>9 DEF CheckNonce, TryAcceptNonce, Request
  <2>2. taken' = [taken EXCEPT ![r] =
                     [at |-> IF taken[r].times = 0 THEN now ELSE taken[r].at,
                      times |-> taken[r].times + 1]]
    BY <1>9 DEF CheckNonce, Request
  <2>3. expiresAt'[k] = now + Ttl /\ \A x \in Keys : expiresAt[x] > now => expiresAt'[x] = expiresAt[x]
    BY <2>1, <1>0, <1>4, <1>7, <1>8, <1>9
  <2> QED
    BY <2>2, <2>3, <1>3, <1>4, <1>5, <1>6, <1>8, <1>9
<1>10. CASE Purged[k] # 0
  <2>1. expiresAt' = Purged /\ taken' = taken
    BY <1>10 DEF CheckNonce, TryAcceptNonce, Request
  <2> QED
    BY <2>1, <1>3, <1>4, <1>5, <1>6, <1>7
<1> QED
  BY <1>9, <1>10

LEMMA RememberedStep ==
    ASSUME ProxyTypeOK, ReadingsInv, RememberedInv, AcceptedOnce, ProxyNext
    PROVE  RememberedInv' /\ AcceptedOnce'
<1>0. /\ now \in Nat /\ Ttl \in Nat /\ MaxLag \in Nat /\ expiresAt \in [Keys -> Nat]
      /\ taken \in [Signed -> [at : Nat, times : Nat]]
      /\ \A r \in Signed : <<r.agent, r.nonce>> \in Keys
  BY CacheAssumption, AuthAssumption DEF ProxyTypeOK, NonceTypeOK, AuthTypeOK, Keys
<1>1. CASE UNCHANGED <<now, expiresAt, taken>>
  BY <1>1 DEF RememberedInv, AcceptedOnce
<1>2. CASE now' = now + 1 /\ UNCHANGED <<expiresAt, taken>>
  <2>1. RememberedInv'
    BY <1>0, <1>2 DEF RememberedInv
  <2>2. AcceptedOnce'
    BY <1>2 DEF AcceptedOnce
  <2> QED
    BY <2>1, <2>2
<1>3. ASSUME NEW s \in Slots, CheckNonce(s)
      PROVE  RememberedInv' /\ AcceptedOnce'
  <2> DEFINE r == slot[s].request
             k == <<r.agent, r.nonce>>
             u == [at |-> IF taken[r].times = 0 THEN now ELSE taken[r].at,
                   times |-> taken[r].times + 1]
  <2>1. /\ r \in Signed /\ r.ts \in Nat /\ k \in Keys
        /\ slot[s].readAt \in Nat /\ now <= slot[s].readAt + MaxLag
        /\ slot[s].readAt \div Second <= r.ts + Skew
        /\ now' = now
        /\ \A x \in Keys : expiresAt[x] > now => expiresAt'[x] = expiresAt[x]
    BY <1>3, NonceTaken
  <2>2. \/ taken' = taken
        \/ /\ expiresAt[k] <= now
           /\ expiresAt'[k] = now + Ttl
           /\ taken' = [taken EXCEPT ![r] = u]
    BY <1>3, NonceTaken
  <2>3. CASE taken' = taken
    <3>1. RememberedInv'
      BY <2>1, <2>3, <1>0 DEF RememberedInv
    <3>2. AcceptedOnce'
      BY <2>3 DEF AcceptedOnce
    <3> QED
      BY <3>1, <3>2
  <2>4. CASE /\ expiresAt[k] <= now
             /\ expiresAt'[k] = now + Ttl
             /\ taken' = [taken EXCEPT ![r] = u]
    <3>1. /\ taken'[r] = u
          /\ \A x \in Signed : x # r => taken'[x] = taken[x]
          /\ taken[r].at \in Nat /\ taken[r].times \in Nat
      BY <2>1, <2>4, <1>0
    <3>2. \A x \in Signed : taken[x].times > 0 /\ now < taken[x].at + Ttl =>
              expiresAt[<<x.agent, x.nonce>>] = taken[x].at + Ttl
      BY DEF RememberedInv
    <3>3. taken[r].times > 0 => now >= taken[r].at + Ttl
      BY <3>1, <3>2, <2>1, <2>4, <1>0
    <3>4. ASSUME NEW x \in Signed, taken'[x].times > 0
          PROVE  /\ taken'[x].at <= now
                 /\ now < taken'[x].at + Ttl =>
                      taken'[x].times = 1 /\ expiresAt'[<<x.agent, x.nonce>>] = taken'[x].at + Ttl
      <4>1. CASE x = r
        BY <4>1, <3>1, <3>3, <2>1, <2>4, <1>0 DEF RememberedInv
      <4>2. CASE x # r
        <5>1. taken'[x] = taken[x] /\ taken[x].at \in Nat
          BY <4>2, <3>1, <1>0
        <5>2. now < taken[x].at + Ttl => expiresAt[<<x.agent, x.nonce>>] > now
          BY <5>1, <3>2, <3>4, <1>0
        <5> QED
          BY <5>1, <5>2, <3>4, <2>1, <1>0 DEF RememberedInv
      <4> QED
        BY <4>1, <4>2
    <3>5. RememberedInv'
      BY <3>4, <2>1 DEF RememberedInv
    <3>6. ASSUME taken[r].times > 0
          PROVE  (taken[r].at + Ttl - MaxLag) \div Second <= r.ts + Skew
      <4>1. taken[r].at + Ttl - MaxLag <= slot[s].readAt
        BY <3>1, <3>3, <3>6, <2>1, <1>0
      <4>2. (taken[r].at + Ttl - MaxLag) \div Second <= slot[s].readAt \div Second
        BY <4>1, <3>1, <2>1, <1>0, DivMonotone
      <4>3. /\ (taken[r].at + Ttl - MaxLag) \div Second \in Int
            /\ slot[s].readAt \div Second \in Int /\ r.ts + Skew \in Int
        BY <3>1, <2>1, <1>0, ProxyTrustAssumption, AuthAssumption
      <4> QED
        BY <4>2, <4>3, <2>1
    <3>7. (taken[r].at + Ttl - MaxLag) \div Second \in Int /\ r.ts + Skew \in Int
      BY <3>1, <2>1, <1>0, ProxyTrustAssumption, AuthAssumption
    <3>8. AcceptedOnce'
      <4> SUFFICES ASSUME NEW x \in Signed, taken'[x].times > 0,
                          (taken'[x].at + Ttl - MaxLag) \div Second > x.ts + Skew
                   PROVE  taken'[x].times = 1
        BY DEF AcceptedOnce
      <4>1. CASE x # r
        BY <4>1, <3>1 DEF AcceptedOnce
      <4>2. CASE x = r /\ taken[r].times = 0
        BY <4>2, <3>1
      <4>3. CASE x = r /\ taken[r].times > 0
        <5>1. taken'[r].at = taken[r].at
          BY <4>3, <3>1
        <5> QED
          BY <5>1, <4>3, <3>6, <3>7
      <4> QED
        BY <4>1, <4>2, <4>3, <3>1
    <3> QED
      BY <3>5, <3>8
  <2> QED
    BY <2>2, <2>3, <2>4
<1> QED
  BY <1>1, <1>2, <1>3, TakenFrame

-----------------------------------------------------------------------------
(* Rate limits *)

LEMMA PassedFrame ==
    ASSUME ProxyNext
    PROVE  \/ UNCHANGED <<now, agentBucket, passed>>
           \/ now' = now + 1 /\ UNCHANGED <<agentBucket, passed>>
           \/ \E s \in Slots : CheckSession(s)
<1>1. UNCHANGED <<agentBucket, passed>> \/ \E s \in Slots : CheckSession(s)
  BY AuthFrame DEF RotateKey, AuthChange, Arrive, KeysCached, CheckNonce
<1>2. UNCHANGED now \/ now' = now + 1
  BY ClockFrame
<1> QED
  BY <1>1, <1>2

\* What WindowsInv says of one agent.
AgentWindows(q, b, n) ==
    /\ \A i \in 1 .. Len(q) : q[i] <= n
    /\ b.start <= n /\ b.count <= MaxPerAgent /\ b.count <= Len(q)
    /\ b.count # 0 /\ n - b.start < Window =>
          /\ \A i \in 1 .. (Len(q) - b.count + 1) : q[i] <= b.start
          /\ \A i \in 1 .. (Len(q) - b.count - MaxPerAgent + 1) : q[i] + Window <= b.start
    /\ b.count = 0 \/ n - b.start >= Window =>
          \A i \in 1 .. (Len(q) - MaxPerAgent + 1) : q[i] + Window <= n

AgentRate(q) ==
    \A i, j \in 1 .. Len(q) : j - i >= 2 * MaxPerAgent - 1 => q[j] - q[i] >= Window

LEMMA WindowsPerAgent ==
    ASSUME ProxyTypeOK
    PROVE  WindowsInv <=> \A a \in Agents : AgentWindows(passed[a], agentBucket[a], now)
<1>1. now \in Nat /\ Window \in Nat /\ \A a \in Agents : agentBucket[a] \in [start : Nat, count : Nat]
  BY AuthAssumption DEF ProxyTypeOK, NonceTypeOK, AuthTypeOK, Buckets
<1>2. \A a \in Agents : Over(agentBucket[a]) <=>
          (agentBucket[a].count = 0 \/ now - agentBucket[a].start >= Window)
  BY DEF Over
<1>3. \A a \in Agents : ~Over(agentBucket[a]) <=>
          (agentBucket[a].count # 0 /\ now - agentBucket[a].start < Window)
  <2> SUFFICES ASSUME NEW a \in Agents
               PROVE  ~Over(agentBucket[a]) <=>
                        (agentBucket[a].count # 0 /\ now - agentBucket[a].start < Window)
    OBVIOUS
  <2>1. agentBucket[a].start \in Nat
    BY <1>1
  <2>2. ~(now - agentBucket[a].start >= Window) <=> now - agentBucket[a].start < Window
    BY <2>1, <1>1
  <2> QED
    BY <2>2, <1>2
<1> QED
  BY <1>2, <1>3 DEF WindowsInv, AgentWindows

\* A unit of time may end a window.
LEMMA WindowTicks ==
    ASSUME NEW q \in Seq(Nat), NEW b \in [start : Nat, count : Nat], NEW n \in Nat,
           AgentWindows(q, b, n)
    PROVE  AgentWindows(q, b, n + 1)
<1>0. /\ Window \in Nat \ {0} /\ MaxPerAgent \in Nat \ {0} /\ Len(q) \in Nat
      /\ b.start \in Nat /\ b.count \in Nat
  BY AuthAssumption
<1>1. \A i \in 1 .. Len(q) : q[i] \in Nat /\ q[i] <= n
  BY DEF AgentWindows
<1>2. ASSUME b.count # 0, n - b.start < Window, n + 1 - b.start >= Window,
             NEW i \in 1 .. (Len(q) - MaxPerAgent + 1)
      PROVE  q[i] + Window <= n + 1
  <2>1. b.count <= MaxPerAgent
    BY DEF AgentWindows
  <2>2. i \in 1 .. (Len(q) - b.count + 1) /\ i \in 1 .. Len(q)
    BY <2>1, <1>0, <1>2
  <2>3. q[i] <= b.start
    BY <2>2, <1>2 DEF AgentWindows
  <2>4. q[i] \in Nat
    BY <2>2, <1>1
  <2> QED
    BY <2>3, <2>4, <1>0, <1>2
<1>3. ASSUME b.count = 0 \/ n - b.start >= Window,
             NEW i \in 1 .. (Len(q) - MaxPerAgent + 1)
      PROVE  q[i] + Window <= n + 1
  <2>1. i \in 1 .. Len(q)
    BY <1>0
  <2>2. q[i] + Window <= n
    BY <1>3 DEF AgentWindows
  <2> QED
    BY <2>1, <2>2, <1>0, <1>1
<1> QED
  BY <1>0, <1>1, <1>2, <1>3 DEF AgentWindows

\* A sweep forgets only a window that is over.
LEMMA WindowSwept ==
    ASSUME NEW q \in Seq(Nat), NEW b \in [start : Nat, count : Nat], NEW n \in Nat,
           AgentWindows(q, b, n), b.count = 0 \/ n - b.start >= Window
    PROVE  AgentWindows(q, NoBucket, n)
  BY AuthAssumption DEF AgentWindows, NoBucket

\* A request that passes opens a window, or is counted in the open one.
LEMMA WindowCounts ==
    ASSUME NEW q \in Seq(Nat), NEW b \in [start : Nat, count : Nat], NEW n \in Nat,
           AgentWindows(q, b, n), AgentRate(q),
           NEW c,
           \/ (b.count = 0 \/ n - b.start >= Window) /\ c = [start |-> n, count |-> 1]
           \/ /\ b.count # 0 /\ n - b.start < Window /\ b.count < MaxPerAgent
              /\ c = [start |-> b.start, count |-> b.count + 1]
    PROVE  AgentWindows(Append(q, n), c, n) /\ AgentRate(Append(q, n))
<1> DEFINE p == Append(q, n)
<1>0. /\ Window \in Nat \ {0} /\ MaxPerAgent \in Nat \ {0} /\ Len(q) \in Nat
      /\ b.start \in Nat /\ b.count \in Nat
  BY AuthAssumption
<1>1. /\ Len(p) = Len(q) + 1 /\ p[Len(q) + 1] = n
      /\ \A i \in 1 .. Len(q) : p[i] = q[i] /\ q[i] \in Nat /\ q[i] <= n
  BY <1>0 DEF AgentWindows
<1> HIDE DEF p
<1>2. \A i \in 1 .. Len(p) : p[i] <= n /\ p[i] \in Nat
  <2> SUFFICES ASSUME NEW i \in 1 .. Len(p)
               PROVE  p[i] <= n /\ p[i] \in Nat
    OBVIOUS
  <2>1. i \in 1 .. Len(q) \/ i = Len(q) + 1
    BY <1>0, <1>1
  <2> QED
    BY <2>1, <1>1
<1>3. \A i \in 1 .. (Len(p) - 2 * MaxPerAgent + 1) : i \in 1 .. Len(q) /\ q[i] + Window <= n
  <2> SUFFICES ASSUME NEW i \in 1 .. (Len(p) - 2 * MaxPerAgent + 1)
               PROVE  i \in 1 .. Len(q) /\ q[i] + Window <= n
    OBVIOUS
  <2>0. i \in 1 .. Len(q)
    BY <1>0, <1>1
  <2>1. CASE b.count = 0 \/ n - b.start >= Window
    <3>1. i \in 1 .. (Len(q) - MaxPerAgent + 1)
      BY <1>0, <1>1
    <3> QED
      BY <2>0, <2>1, <3>1 DEF AgentWindows
  <2>2. CASE b.count # 0 /\ n - b.start < Window /\ b.count < MaxPerAgent
    <3>1. i \in 1 .. (Len(q) - b.count - MaxPerAgent + 1)
      BY <1>0, <1>1, <2>2
    <3>2. q[i] + Window <= b.start /\ b.start <= n
      BY <2>2, <3>1 DEF AgentWindows
    <3> QED
      BY <2>0, <3>2, <1>0, <1>1
  <2> QED
    BY <2>1, <2>2
<1>4. AgentRate(p)
  <2> SUFFICES ASSUME NEW i \in 1 .. Len(p), NEW j \in 1 .. Len(p), j - i >= 2 * MaxPerAgent - 1
               PROVE  p[j] - p[i] >= Window
    BY DEF AgentRate
  <2>1. CASE j = Len(q) + 1
    <3>1. i \in 1 .. (Len(p) - 2 * MaxPerAgent + 1)
      BY <2>1, <1>0, <1>1
    <3>2. i \in 1 .. Len(q) /\ q[i] + Window <= n
      BY <3>1, <1>3
    <3>3. p[i] = q[i] /\ q[i] \in Nat /\ p[j] = n
      BY <3>2, <2>1, <1>1
    <3> QED
      BY <3>2, <3>3, <1>0
  <2>2. CASE j \in 1 .. Len(q)
    <3>1. i \in 1 .. Len(q)
      BY <2>2, <1>0
    <3>2. q[j] - q[i] >= Window
      BY <2>2, <3>1 DEF AgentRate
    <3> QED
      BY <2>2, <3>1, <3>2, <1>1
  <2> QED
    BY <2>1, <2>2, <1>0, <1>1
<1>5. CASE (b.count = 0 \/ n - b.start >= Window) /\ c = [start |-> n, count |-> 1]
  <2>1. c.start = n /\ c.count = 1
    BY <1>5
  <2>2. \A i \in 1 .. (Len(p) - c.count + 1) : p[i] <= c.start
    BY <2>1, <1>0, <1>1, <1>2
  <2>3. \A i \in 1 .. (Len(p) - c.count - MaxPerAgent + 1) : p[i] + Window <= c.start
    <3> SUFFICES ASSUME NEW i \in 1 .. (Len(p) - c.count - MaxPerAgent + 1)
                 PROVE  p[i] + Window <= c.start
      OBVIOUS
    <3>1. i \in 1 .. (Len(q) - MaxPerAgent + 1) /\ i \in 1 .. Len(q)
      BY <2>1, <1>0, <1>1
    <3> QED
      BY <2>1, <3>1, <1>1, <1>5 DEF AgentWindows
  <2>4. ~(c.count = 0 \/ n - c.start >= Window)
    BY <2>1, <1>0
  <2> QED
    BY <1>0, <1>1, <1>2, <1>4, <2>1, <2>2, <2>3, <2>4 DEF AgentWindows, p
<1>6. CASE /\ b.count # 0 /\ n - b.start < Window /\ b.count < MaxPerAgent
           /\ c = [start |-> b.start, count |-> b.count + 1]
  <2>1. c.start = b.start /\ c.count = b.count + 1 /\ b.start \in Nat /\ b.count \in Nat
    BY <1>6
  <2>2. Len(p) - c.count = Len(q) - b.count
    BY <2>1, <1>0, <1>1
  <2>3. b.count <= Len(q) /\ b.start <= n
    BY DEF AgentWindows
  <2>4. \A i \in 1 .. (Len(q) - b.count + 1) : i \in 1 .. Len(q)
    BY <2>1, <1>0, <1>6
  <2>5. \A i \in 1 .. (Len(q) - b.count - MaxPerAgent + 1) : i \in 1 .. Len(q)
    BY <2>1, <1>0, <1>6
  <2>6. \A i \in 1 .. (Len(p) - c.count + 1) : p[i] <= c.start
    BY <2>1, <2>2, <2>4, <1>1, <1>6 DEF AgentWindows
  <2>7. \A i \in 1 .. (Len(p) - c.count - MaxPerAgent + 1) : p[i] + Window <= c.start
    BY <2>1, <2>2, <2>5, <1>1, <1>6 DEF AgentWindows
  <2>8. c.count # 0 /\ n - c.start < Window /\ c.count <= MaxPerAgent /\ c.count <= Len(p) /\ c.start <= n
    BY <2>1, <2>3, <1>0, <1>1, <1>6
  <2>9. ~(c.count = 0 \/ n - c.start >= Window)
    BY <2>1, <2>8, <1>0
  <2> QED
    BY <1>2, <1>4, <2>6, <2>7, <2>8, <2>9 DEF AgentWindows, p
<1> QED
  BY <1>5, <1>6

LEMMA WindowsStep ==
    ASSUME ProxyTypeOK, ProxyTypeOK', WindowsInv, RateKept, ProxyNext
    PROVE  WindowsInv' /\ RateKept'
<1>0. /\ now \in Nat
      /\ \A a \in Agents : passed[a] \in Seq(Nat) /\ agentBucket[a] \in [start : Nat, count : Nat]
  BY DEF ProxyTypeOK, NonceTypeOK, AuthTypeOK, Buckets
<1>1. \A a \in Agents : AgentWindows(passed[a], agentBucket[a], now) /\ AgentRate(passed[a])
  BY WindowsPerAgent DEF RateKept, AgentRate
<1> SUFFICES \A a \in Agents : AgentWindows(passed'[a], agentBucket'[a], now') /\ AgentRate(passed'[a])
  <2>1. (WindowsInv <=> \A a \in Agents : AgentWindows(passed[a], agentBucket[a], now))'
    BY WindowsPerAgent, PTL
  <2> QED
    BY <2>1 DEF RateKept, AgentRate, AgentWindows
<1>2. CASE UNCHANGED <<now, agentBucket, passed>>
  BY <1>1, <1>2
<1>3. CASE now' = now + 1 /\ UNCHANGED <<agentBucket, passed>>
  BY <1>0, <1>1, <1>3, WindowTicks
<1>4. ASSUME NEW s \in Slots, CheckSession(s)
      PROVE  \A a \in Agents : AgentWindows(passed'[a], agentBucket'[a], now') /\ AgentRate(passed'[a])
  <2> DEFINE x == slot[s].request.agent
  <2>1. x \in Agents /\ now' = now
    BY <1>4, RunningAt DEF ProxyTypeOK, CheckSession, At, Running, Requests, vars
  <2>2. \A a \in Agents : Over(agentBucket[a]) <=>
            (agentBucket[a].count = 0 \/ now - agentBucket[a].start >= Window)
    BY DEF Over
  <2>3. /\ DOMAIN agentBucket = Agents /\ DOMAIN passed = Agents
        /\ agentBucket \in [Agents -> [start : Nat, count : Nat]]
    BY DEF ProxyTypeOK, AuthTypeOK, Buckets
  <2>4. \A a \in Agents : Swept(agentBucket)[a] = IF Over(agentBucket[a]) THEN NoBucket ELSE agentBucket[a]
    BY <2>3 DEF Swept
  <2>5. \A a \in Agents : AgentWindows(passed[a], Swept(agentBucket)[a], now)
    BY <1>0, <1>1, <2>2, <2>4, WindowSwept
  <2>6. CASE agentBucket' = agentBucket /\ passed' = passed
    BY <2>1, <2>6, <1>1
  <2>7. CASE agentBucket' = Swept(agentBucket) /\ passed' = passed
    BY <2>1, <2>5, <2>7, <1>1
  <2>8. CASE /\ Allows(agentBucket, x, MaxPerAgent)
             /\ agentBucket' = Counted(agentBucket, x)
             /\ passed' = [passed EXCEPT ![x] = Append(@, now)]
    <3> DEFINE b == agentBucket[x]
               c == IF Over(b) THEN [start |-> now, count |-> 1]
                    ELSE [start |-> b.start, count |-> b.count + 1]
    <3>1. \A a \in Agents : a # x => passed'[a] = passed[a] /\ agentBucket'[a] = Swept(agentBucket)[a]
      BY <2>1, <2>3, <2>8 DEF Counted, Swept
    <3>2. passed'[x] = Append(passed[x], now)
      BY <2>1, <2>3, <2>8
    <3>3. agentBucket'[x] = c
      BY <2>1, <2>3, <2>4, <2>8 DEF Counted, Swept
    <3>4. \/ (b.count = 0 \/ now - b.start >= Window) /\ c = [start |-> now, count |-> 1]
          \/ /\ b.count # 0 /\ now - b.start < Window /\ b.count < MaxPerAgent
             /\ c = [start |-> b.start, count |-> b.count + 1]
      <4>1. CASE Over(b)
        BY <4>1, <2>1, <2>2
      <4>2. CASE ~Over(b)
        <5>1. b.start \in Nat /\ Window \in Nat
          BY <2>1, <1>0, AuthAssumption
        <5>2. ~(now - b.start >= Window) => now - b.start < Window
          BY <5>1, <1>0
        <5> QED
          BY <4>2, <5>2, <2>1, <2>2, <2>8 DEF Allows
      <4> QED
        BY <4>1, <4>2
    <3> HIDE DEF c
    <3>5. AgentWindows(Append(passed[x], now), c, now) /\ AgentRate(Append(passed[x], now))
      BY <3>4, <2>1, <1>0, <1>1, WindowCounts
    <3> QED
      BY <3>1, <3>2, <3>3, <3>5, <2>1, <2>5, <1>1
  <2> QED
    BY <1>4, <2>6, <2>7, <2>8 DEF CheckSession, Request
<1> QED
  BY <1>2, <1>3, <1>4, PassedFrame

-----------------------------------------------------------------------------
(* Revocation markers *)

\* A step leaves an agent's marker, sweeps one that is over, or sets it.
LEMMA MarkerChange ==
    ASSUME ProxyTypeOK, ReadingsInv, ProxyNext, NEW a \in Agents
    PROVE  \/ marked'[a] = marked[a] /\ (markers'[a] = markers[a] \/ markers[a] <= now)
           \/ now' = now /\ marked'[a] = now + MarkerTtl /\ markers'[a] = now + MarkerTtl
<1> USE DEF At, Request
<1>0. /\ SlotTypeOK /\ now \in Nat /\ markers \in [Agents -> Nat] /\ marked \in [Agents -> Nat]
  BY DEF ProxyTypeOK, NonceTypeOK, TrustTypeOK, AuthTypeOK
<1>1. \A n \in Nat : n <= now => KeptMarkers(n)[a] = markers[a] \/ markers[a] <= now
  BY <1>0 DEF KeptMarkers
<1>2. CASE UNCHANGED <<trustVars, marked>>
  BY <1>2 DEF trustVars
<1>3. ASSUME NEW s \in Slots, CheckRevoked(s)
      PROVE  marked'[a] = marked[a] /\ (markers'[a] = markers[a] \/ markers[a] <= now)
  BY <1>0, <1>1, <1>3 DEF CheckRevoked, SweepForCheck, Cleanup, Same
<1>4. ASSUME NEW s \in Slots, NEW k \in Kids, NEW ttl \in Ttls, StoreTicket(s, k, ttl)
      PROVE  marked'[a] = marked[a] /\ (markers'[a] = markers[a] \/ markers[a] <= now)
  <2>1. slot[s].stage # "free"
    BY <1>4 DEF StoreTicket
  <2>2. slot[s].readAt \in Nat /\ slot[s].readAt <= now
    BY <1>0, <2>1, SlotFields DEF ReadingsInv
  <2> QED
    BY <2>2, <1>1, <1>4 DEF StoreTicket, CreatePairingTicket, Cleanup, Same, trustVars
<1>5. ASSUME NEW s \in Slots, NEW k \in Kids, ConfirmRead(s, k) \/ PairStatus(s, k)
      PROVE  marked'[a] = marked[a] /\ (markers'[a] = markers[a] \/ markers[a] <= now)
  BY <1>0, <1>1, <1>5 DEF ConfirmRead, LookUpPending, PairStatus, GetPairingTicketStatus, Cleanup,
     Same, trustVars
<1>6. ASSUME NEW s \in Slots, NEW x, ConfirmWrite(s) \/ ConfirmDurable(s, x)
      PROVE  marked' = marked /\ markers' = markers
  BY <1>6 DEF ConfirmWrite, DropExpiredTicket, ConfirmTicket, ConfirmDurable, UpsertPair, trustVars
<1>7. ASSUME NEW e \in batch, Handle(e) \/ HandleFails(e)
      PROVE  \/ marked'[a] = marked[a] /\ (markers'[a] = markers[a] \/ markers[a] <= now)
             \/ now' = now /\ marked'[a] = now + MarkerTtl /\ markers'[a] = now + MarkerTtl
  <2>1. CASE UNCHANGED <<trustVars, marked>>
    BY <2>1 DEF trustVars
  <2>2. CASE MarkAgentRevoked(e.about) /\ marked' = [marked EXCEPT ![e.about] = now + MarkerTtl]
    <3>1. markers' = [KeptMarkers(now) EXCEPT ![e.about] = now + MarkerTtl]
      BY <2>2 DEF MarkAgentRevoked, Cleanup, Same
    <3>2. DOMAIN KeptMarkers(now) = Agents
      BY DEF KeptMarkers
    <3>3. now' = now
      BY <1>7 DEF Handle, HandleFails, vars
    <3> QED
      BY <2>2, <3>1, <3>2, <3>3, <1>0, <1>1
  <2> QED
    BY <1>7, <2>1, <2>2 DEF Handle, HandleFails, Effect
<1>8. ASSUME NEW x, NEW y, PairUp(x, y)
      PROVE  marked' = marked /\ markers' = markers
  BY <1>8 DEF PairUp, UpsertPair, authVars
<1> QED
  BY <1>2, <1>3, <1>4, <1>5, <1>6, <1>7, <1>8, TrustFrame DEF TrustChange

LEMMA MarkersStep ==
    ASSUME ProxyTypeOK, ProxyTypeOK', ReadingsInv, MarkersInv, RevokedKeptOut, ProxyNext
    PROVE  MarkersInv' /\ RevokedKeptOut'
<1>0. /\ SlotTypeOK /\ now \in Nat /\ now' \in Nat /\ MarkerTtl \in Nat \ {0}
      /\ markers \in [Agents -> Nat] /\ marked \in [Agents -> Nat]
  BY ProxyTrustAssumption DEF ProxyTypeOK, NonceTypeOK, TrustTypeOK, AuthTypeOK
<1>1. now <= now'
  BY <1>0, ClockFrame
<1>2. ASSUME NEW a \in Agents
      PROVE  /\ marked'[a] <= now' + MarkerTtl
             /\ marked'[a] > now' => markers'[a] = marked'[a]
             /\ marked[a] <= marked'[a]
  <2>1. /\ marked[a] \in Nat /\ markers[a] \in Nat /\ marked[a] <= now + MarkerTtl
        /\ marked[a] > now => markers[a] = marked[a]
    BY <1>0 DEF MarkersInv
  <2> QED
    BY <2>1, <1>0, <1>1, MarkerChange
<1>3. ASSUME NEW t \in Slots, slot[t].stage # "free"
      PROVE  /\ slot[t].promised \in Nat /\ slot[t].request.agent \in Agents
             /\ slot[t].promised <= marked[slot[t].request.agent]
             /\ slot[t].promised <= marked'[slot[t].request.agent]
  <2>1. slot[t].promised \in Nat /\ slot[t].request.agent \in Agents
    BY <1>0, <1>3, SlotFields DEF Requests
  <2>2. slot[t].promised <= marked[slot[t].request.agent]
    BY <1>3 DEF MarkersInv
  <2>3. /\ marked[slot[t].request.agent] <= marked'[slot[t].request.agent]
        /\ marked[slot[t].request.agent] \in Nat /\ marked'[slot[t].request.agent] \in Nat
    BY <2>1, <1>0, <1>2 DEF ProxyTypeOK, AuthTypeOK
  <2> QED
    BY <2>1, <2>2, <2>3
<1>4. ASSUME NEW t \in Slots, slot[t].stage \notin EarlyStages \cup {"free"}
      PROVE  slot[t].promised <= now'
  <2>1. slot[t].promised <= now /\ slot[t].promised \in Nat
    BY <1>3, <1>4 DEF RevokedKeptOut, EarlyStages
  <2> QED
    BY <2>1, <1>0, <1>1
<1>5. ASSUME NEW t \in Slots, slot'[t].stage # "free"
      PROVE  /\ slot'[t].promised <= marked'[slot'[t].request.agent]
             /\ slot'[t].stage \notin EarlyStages => slot'[t].promised <= now'
  <2>1. CASE slot'[t] = slot[t]
    BY <2>1, <1>3, <1>4, <1>5
  <2>2. CASE Arrived(slot'[t])
    <3>1. slot'[t] \in Running \cup Verifying
      BY <1>5 DEF ProxyTypeOK, SlotTypeOK, Free
    <3>2. slot'[t].request.agent \in Agents
      BY <3>1 DEF Running, Verifying, Requests
    <3> QED
      BY <2>2, <3>2, <1>0, <1>2 DEF Arrived, EarlyStages
  <2>3. CASE slot[t].stage # "free" /\ Moved(slot[t], slot'[t])
    <3>1. slot'[t].promised = slot[t].promised /\ slot'[t].request.agent = slot[t].request.agent
      BY <2>3 DEF Moved
    <3>2. ASSUME slot'[t].stage \notin EarlyStages, slot[t].stage \in EarlyStages
          PROVE  slot[t].promised <= now'
      <4> DEFINE a == slot[t].request.agent
      <4>1. a \in Agents /\ slot[t].promised \in Nat /\ slot[t].promised <= marked[a]
        BY <2>3, <1>3
      <4>2. markers[a] <= now
        BY <3>2, <2>3 DEF Moved
      <4>3. marked[a] <= now
        BY <4>1, <4>2, <1>0 DEF MarkersInv
      <4> QED
        BY <4>1, <4>3, <1>0, <1>1
    <3> QED
      BY <3>1, <3>2, <2>3, <1>3, <1>4
  <2> QED
    BY <2>1, <2>2, <2>3, <1>5, NextMoves DEF SlotMoves, Free
<1>6. MarkersInv'
  BY <1>2, <1>5 DEF MarkersInv
<1>7. RevokedKeptOut'
  BY <1>5 DEF RevokedKeptOut, EarlyStages
<1> QED
  BY <1>6, <1>7

-----------------------------------------------------------------------------
(* Pairing tickets *)

\* What TicketsInv and ConfirmedStands say of the entries under one id.
TicketEntries(p, c, i, acc, n) ==
    /\ p \in {NoTicket, i}
    /\ c # NoTicket => c.expiresAt = i.expiresAt
    /\ i = NoTicket => acc = {}
    /\ acc # {} /\ i.expiresAt > n => p = NoTicket /\ c.responder \in acc

\* A map is swept of nothing that lasts.
LEMMA KeptEntry ==
    ASSUME NEW map \in TicketMaps, NEW n \in Nat, n <= now, now \in Nat, NEW skip, NEW k \in Kids
    PROVE  \/ Kept(map, n, skip)[k] = map[k]
           \/ Kept(map, n, skip)[k] = NoTicket /\ map[k].expiresAt <= now
<1>1. map[k].expiresAt \in Nat
  BY DEF TicketMaps, Tickets, NoTicket
<1> QED
  BY <1>1 DEF Kept

\* Entries that are left, or dropped because they are over.
LEMMA EntriesSwept ==
    ASSUME NEW i \in Tickets \cup {NoTicket}, NEW acc \in SUBSET Agents, now \in Nat,
           NEW p \in Tickets \cup {NoTicket}, NEW c \in Tickets \cup {NoTicket},
           NEW p2, NEW c2, TicketEntries(p, c, i, acc, now),
           p2 = p \/ p2 = NoTicket,
           c2 = c \/ (c2 = NoTicket /\ c.expiresAt <= now)
    PROVE  TicketEntries(p2, c2, i, acc, now)
<1>1. i.expiresAt \in Nat
  BY DEF Tickets, NoTicket
<1>2. c.responder \in acc => c # NoTicket
  BY ProxyTrustAssumption DEF NoTicket
<1> QED
  BY <1>1, <1>2 DEF TicketEntries

LEMMA TicketChange ==
    ASSUME ProxyTypeOK, ReadingsInv, ProxyNext, NEW k \in Kids,
           \A s \in Slots : slot[s].stage = "verify" => slot[s].ticket = issued[slot[s].kid],
           TicketEntries(tickets[k], confirmed[k], issued[k], accepted[k], now)
    PROVE  /\ TicketEntries(tickets'[k], confirmed'[k], issued'[k], accepted'[k], now')
           /\ issued[k] # NoTicket => issued'[k] = issued[k]
<1> USE DEF At, Request
<1> DEFINE Goal == /\ TicketEntries(tickets'[k], confirmed'[k], issued'[k], accepted'[k], now')
                   /\ issued[k] # NoTicket => issued'[k] = issued[k]
<1>0. /\ SlotTypeOK /\ now \in Nat /\ TrustTypeOK
      /\ tickets \in TicketMaps /\ confirmed \in TicketMaps /\ issued \in TicketMaps
      /\ accepted \in [Kids -> SUBSET Agents]
  BY DEF ProxyTypeOK, NonceTypeOK, TrustTypeOK
<1>1. /\ tickets[k] \in Tickets \cup {NoTicket} /\ confirmed[k] \in Tickets \cup {NoTicket}
      /\ issued[k] \in Tickets \cup {NoTicket} /\ accepted[k] \in SUBSET Agents
  BY <1>0 DEF TicketMaps
<1>2. ASSUME UNCHANGED trustVars
      PROVE  Goal
  <2>1. issued[k].expiresAt \in Nat
    BY <1>1 DEF Tickets, NoTicket
  <2>2. now' = now \/ now' = now + 1
    BY ClockFrame
  <2> QED
    BY <1>0, <1>2, <2>1, <2>2 DEF trustVars, TicketEntries
\* Maps that are only swept, where the ticket itself may be dropped.
<1>3. ASSUME NEW n \in Nat, n <= now, NEW skip, now' = now, UNCHANGED <<issued, accepted>>,
             tickets'[k] \in {NoTicket, Kept(tickets, n, skip)[k]},
             \/ confirmed'[k] = Kept(confirmed, n, skip)[k]
             \/ confirmed'[k] = NoTicket /\ Kept(confirmed, n, skip)[k].expiresAt <= now
      PROVE  Goal
  <2>1. tickets'[k] = tickets[k] \/ tickets'[k] = NoTicket
    BY <1>0, <1>3, KeptEntry
  <2>2. confirmed'[k] = confirmed[k] \/ (confirmed'[k] = NoTicket /\ confirmed[k].expiresAt <= now)
    BY <1>0, <1>3, KeptEntry
  <2>3. TicketEntries(tickets'[k], confirmed'[k], issued[k], accepted[k], now)
    BY <2>1, <2>2, <1>0, <1>1, EntriesSwept
  <2> QED
    BY <2>3, <1>3
<1>4. ASSUME NEW s \in Slots, CheckRevoked(s)
      PROVE  Goal
  <2>1. /\ tickets' = Kept(tickets, now, NoKid) /\ confirmed' = Kept(confirmed, now, NoKid)
        /\ now' = now /\ UNCHANGED <<issued, accepted>>
    BY <1>4 DEF CheckRevoked, SweepForCheck, Cleanup, Same, vars
  <2> HIDE DEF Goal
  <2> QED
    BY <2>1, <1>0, <1>3
<1>5. ASSUME NEW s \in Slots, NEW x \in Kids, NEW ttl \in Ttls, StoreTicket(s, x, ttl)
      PROVE  Goal
  <2>1. slot[s] \in Running /\ now' = now
    BY <1>0, <1>5, RunningAt DEF StoreTicket, vars
  <2>2. slot[s].readAt \in Nat /\ slot[s].readAt <= now
    BY <1>5, <2>1 DEF Running, ReadingsInv, StoreTicket
  <2> DEFINE t == [initiator |-> slot[s].request.agent, allow |-> slot[s].request.to,
                   expiresAt |-> WholeSecond(slot[s].readAt + ttl), responder |-> Anyone]
  <2>3. CASE CreatePairingTicket(x, Request(s).agent, Request(s).to, slot[s].readAt, ttl)
    <3>1. /\ issued[x] = NoTicket
          /\ tickets' = [Kept(tickets, slot[s].readAt, NoKid) EXCEPT ![x] = t]
          /\ confirmed' = [Kept(confirmed, slot[s].readAt, NoKid) EXCEPT ![x] = NoTicket]
          /\ issued' = [issued EXCEPT ![x] = t]
          /\ accepted' = accepted
      BY <2>3 DEF CreatePairingTicket, Cleanup, Same
    <3> HIDE DEF t
    <3>2. /\ DOMAIN Kept(tickets, slot[s].readAt, NoKid) = Kids
          /\ DOMAIN Kept(confirmed, slot[s].readAt, NoKid) = Kids
          /\ DOMAIN issued = Kids
      BY <1>0 DEF Kept, TicketMaps
    <3>3. CASE k = x
      <4>1. tickets'[k] = t /\ confirmed'[k] = NoTicket /\ issued'[k] = t /\ accepted'[k] = {}
        BY <3>1, <3>2, <3>3 DEF TicketEntries
      <4> QED
        BY <4>1, <3>1, <3>3 DEF TicketEntries
    <3>4. CASE k # x
      <4>1. /\ tickets'[k] = Kept(tickets, slot[s].readAt, NoKid)[k]
            /\ confirmed'[k] = Kept(confirmed, slot[s].readAt, NoKid)[k]
            /\ issued'[k] = issued[k]
        BY <3>1, <3>2, <3>4
      <4>2. /\ tickets'[k] = tickets[k] \/ tickets'[k] = NoTicket
            /\ confirmed'[k] = confirmed[k] \/ (confirmed'[k] = NoTicket /\ confirmed[k].expiresAt <= now)
        BY <4>1, <2>2, <1>0, KeptEntry
      <4>3. TicketEntries(tickets'[k], confirmed'[k], issued[k], accepted[k], now)
        BY <4>2, <1>0, <1>1, EntriesSwept
      <4> QED
        BY <4>1, <4>3, <3>1, <2>1
    <3> QED
      BY <3>3, <3>4
  <2> QED
    BY <1>2, <1>5, <2>3 DEF StoreTicket
<1>6. ASSUME NEW s \in Slots, NEW x \in Kids, ConfirmRead(s, x)
      PROVE  Goal
  <2>1. /\ tickets' = Kept(tickets, now, x) /\ confirmed' = Kept(confirmed, now, x)
        /\ now' = now /\ UNCHANGED <<issued, accepted>>
    BY <1>6 DEF ConfirmRead, LookUpPending, Cleanup, Same, vars
  <2> HIDE DEF Goal
  <2> QED
    BY <2>1, <1>0, <1>3
<1>7. ASSUME NEW s \in Slots, NEW x \in Kids, PairStatus(s, x)
      PROVE  Goal
  <2>1. now' = now
    BY <1>7 DEF PairStatus, vars
  <2>2. CASE GetPairingTicketStatus(x, now)
    <3>1. /\ UNCHANGED <<issued, accepted>>
          /\ tickets' \in {Kept(tickets, now, x), [Kept(tickets, now, x) EXCEPT ![x] = NoTicket]}
          /\ \/ confirmed' = Kept(confirmed, now, x)
             \/ /\ Kept(confirmed, now, x)[x].expiresAt <= now
                /\ confirmed' = [Kept(confirmed, now, x) EXCEPT ![x] = NoTicket]
      BY <2>2 DEF GetPairingTicketStatus, Cleanup, Same
    <3>2. DOMAIN Kept(tickets, now, x) = Kids /\ DOMAIN Kept(confirmed, now, x) = Kids
      BY <1>0 DEF Kept, TicketMaps
    <3>3. /\ tickets'[k] \in {NoTicket, Kept(tickets, now, x)[k]}
          /\ \/ confirmed'[k] = Kept(confirmed, now, x)[k]
             \/ confirmed'[k] = NoTicket /\ Kept(confirmed, now, x)[k].expiresAt <= now
      BY <3>1, <3>2
    <3> HIDE DEF Goal
    <3> QED
      BY <3>1, <3>3, <2>1, <1>0, <1>3
  <2> QED
    BY <1>2, <1>7, <2>2 DEF PairStatus
<1>8. ASSUME NEW s \in Slots, ConfirmWrite(s)
      PROVE  Goal
  <2> DEFINE w == slot[s]
  <2>1. w \in Verifying /\ w.ticket = issued[w.kid] /\ now' = now
    BY <1>0, <1>8 DEF ConfirmWrite, SlotTypeOK, Free, Running, EarlyStages, LateStages, vars
  <2>2. w.kid \in Kids /\ w.ticket \in Tickets /\ w.request.agent \in Agents
    BY <2>1 DEF Verifying, Requests
  <2>3. CASE DropExpiredTicket(w.kid)
    <3>1. /\ tickets'[k] = tickets[k] \/ tickets'[k] = NoTicket
          /\ UNCHANGED <<confirmed, issued, accepted>>
      BY <2>2, <2>3, <1>0 DEF DropExpiredTicket, TicketMaps
    <3>2. TicketEntries(tickets'[k], confirmed[k], issued[k], accepted[k], now)
      BY <3>1, <1>0, <1>1, EntriesSwept
    <3> QED
      BY <3>1, <3>2, <2>1
  <2>4. CASE ConfirmTicket(w.kid, w.ticket, w.request.agent, w.seen)
    <3>1. CASE k = w.kid
      <4>1. /\ tickets'[k] = NoTicket
            /\ confirmed'[k] = [w.ticket EXCEPT !.responder = w.request.agent]
            /\ w.request.agent \in accepted'[k]
            /\ issued' = issued
        BY <3>1, <2>2, <2>4, <1>0 DEF ConfirmTicket, TicketMaps
      <4>2. confirmed'[k].expiresAt = issued[k].expiresAt /\ confirmed'[k].responder = w.request.agent
        BY <4>1, <3>1, <2>1, <2>2 DEF Tickets
      <4>3. issued[k] # NoTicket
        BY <3>1, <2>1, <2>2, ProxyTrustAssumption DEF Tickets, NoTicket
      <4> QED
        BY <4>1, <4>2, <4>3, <2>1 DEF TicketEntries
    <3>2. CASE k # w.kid
      <4>1. /\ tickets'[k] = tickets[k] /\ confirmed'[k] = confirmed[k] /\ issued' = issued
            /\ accepted'[k] = accepted[k]
        BY <3>2, <2>2, <2>4, <1>0 DEF ConfirmTicket, TicketMaps
      <4> QED
        BY <4>1, <2>1
    <3> QED
      BY <3>1, <3>2
  <2> QED
    BY <1>2, <1>8, <2>3, <2>4 DEF ConfirmWrite
<1>9. ASSUME NEW s \in Slots, NEW a, ConfirmDurable(s, a)
      PROVE  Goal
  BY <1>9 DEF ConfirmDurable, UpsertPair, trustVars, vars
<1>10. ASSUME NEW e \in batch, Handle(e) \/ HandleFails(e)
       PROVE  Goal
  <2>1. now' = now
    BY <1>10 DEF Handle, HandleFails, vars
  <2>2. CASE MarkAgentRevoked(e.about)
    <3>1. /\ tickets' = Kept(tickets, now, NoKid) /\ confirmed' = Kept(confirmed, now, NoKid)
          /\ UNCHANGED <<issued, accepted>>
      BY <2>2 DEF MarkAgentRevoked, Cleanup, Same
    <3> HIDE DEF Goal
    <3> QED
      BY <3>1, <2>1, <1>0, <1>3
  <2> QED
    BY <1>2, <1>10, <2>2 DEF Handle, HandleFails, Effect
<1>11. ASSUME NEW a, NEW b, PairUp(a, b)
       PROVE  Goal
  BY <1>11 DEF PairUp, UpsertPair, vars
<1> HIDE DEF Goal
<1>12. Goal
  BY <1>2, <1>4, <1>5, <1>6, <1>7, <1>8, <1>9, <1>10, <1>11, TrustFrame DEF TrustChange
<1> QED
  BY <1>12 DEF Goal

LEMMA TicketsStep ==
    ASSUME ProxyTypeOK, ProxyTypeOK', ReadingsInv, TicketsInv, ConfirmedStands, ProxyNext
    PROVE  TicketsInv' /\ ConfirmedStands'
<1>1. \A k \in Kids : TicketEntries(tickets[k], confirmed[k], issued[k], accepted[k], now)
  BY DEF TicketsInv, ConfirmedStands, TicketEntries
<1>2. \A k \in Kids : /\ TicketEntries(tickets'[k], confirmed'[k], issued'[k], accepted'[k], now')
                      /\ issued[k] # NoTicket => issued'[k] = issued[k]
  BY <1>1, TicketChange DEF TicketsInv
<1>3. ASSUME NEW s \in Slots, slot'[s].stage = "verify"
      PROVE  slot'[s].ticket = issued'[slot'[s].kid]
  <2>1. slot'[s] \in Verifying
    BY <1>3 DEF ProxyTypeOK, SlotTypeOK, Free, Running, EarlyStages, LateStages
  <2>2. slot'[s].kid \in Kids /\ slot'[s].ticket # NoTicket
    BY <2>1, ProxyTrustAssumption DEF Verifying, Tickets, NoTicket
  <2>3. slot'[s].ticket = issued[slot'[s].kid]
    <3>1. CASE slot'[s] = slot[s]
      BY <3>1, <1>3 DEF TicketsInv
    <3>2. CASE Moved(slot[s], slot'[s])
      BY <3>2, <2>2, <1>3 DEF Moved, TicketsInv
    <3> QED
      BY <3>1, <3>2, <1>3, NextMoves DEF SlotMoves, Free, Arrived
  <2> QED
    BY <2>2, <2>3, <1>2
<1> QED
  BY <1>2, <1>3 DEF TicketsInv, ConfirmedStands, TicketEntries

-----------------------------------------------------------------------------
(* The queues and their consumer *)

LEMMA PublishKeeps ==
    ASSUME EventsKept, ConsumerInv, NEW e, Publish(e)
    PROVE  EventsKept' /\ ConsumerInv'
  BY DEF EventsKept, ConsumerInv, Publish, Settled

LEMMA ConsumerStep ==
    ASSUME ProxyTypeOK, EventsKept, ConsumerInv, ProxyNext
    PROVE  EventsKept' /\ ConsumerInv'
<1>0. /\ tries \in [Events -> Nat] /\ MaxRetries \in Nat
      /\ batch \subseteq Events /\ DOMAIN verdict \subseteq Events /\ announced \subseteq Events
  BY QueueAssumption DEF ProxyTypeOK, QueueTypeOK
<1>1. CASE UNCHANGED queueVars
  BY <1>1 DEF EventsKept, ConsumerInv, Settled, queueVars
<1>2. ASSUME NEW s \in Slots, RouteStep(s)
      PROVE  UNCHANGED queueVars \/ \E e : Publish(e)
  BY <1>2 DEF RouteStep, HookAuthorize, RelayCall, ReceiptAuthorize, PublishReceipt, PairStart,
     StoreTicket, ConfirmRead, PairStatus, ConfirmWrite, ConfirmDurable, PublishAccepted
<1>3. ASSUME \/ \E e \in Events : RegistryPublishes(e)
             \/ \E a, b \in Agents : PairUp(a, b)
             \/ TimePasses
      PROVE  UNCHANGED queueVars \/ \E e : Publish(e)
  BY <1>3 DEF RegistryPublishes, PairUp, TimePasses
<1>4. CASE TakeBatch
  BY <1>4 DEF TakeBatch, EventsKept, ConsumerInv, Settled
<1>5. ASSUME NEW e \in batch, Handle(e) \/ HandleRefused(e) \/ HandleFails(e)
      PROVE  EventsKept' /\ ConsumerInv'
  <2>1. /\ queue' = queue /\ tries' = tries /\ announced' = announced
        /\ effected \subseteq effected' /\ rejected \subseteq rejected'
    BY <1>5 DEF Handle, HandleRefused, HandleFails, Effect
  <2>2. /\ batch' = batch \ {e} /\ DOMAIN verdict' = DOMAIN verdict \cup {e}
        /\ \A x \in DOMAIN verdict : x # e => verdict'[x] = verdict[x]
    BY <1>5 DEF Handle, HandleRefused, HandleFails, Settle
  <2>3. verdict'[e] # "retry" => e \in effected' \cup rejected'
    BY <1>5 DEF Handle, HandleRefused, HandleFails, Settle, Effect, ResolveQueueFailureAction
  <2>4. EventsKept'
    BY <2>1 DEF EventsKept, Settled
  <2>5. ConsumerInv'
    BY <2>1, <2>2, <2>3 DEF ConsumerInv
  <2> QED
    BY <2>4, <2>5
<1>6. ASSUME NEW acked, NEW failed \in SUBSET Events, Close(acked, failed),
             acked \subseteq effected \cup rejected, UNCHANGED <<announced, effected, rejected>>
      PROVE  EventsKept' /\ ConsumerInv'
  <2>1. ConsumerInv'
    BY <1>6 DEF Close, ConsumerInv
  <2>2. ASSUME NEW e \in announced
        PROVE  e \in queue' \/ e \in effected \cup rejected \/ tries'[e] > MaxRetries
    <3>1. tries[e] \in Nat /\ tries'[e] = IF e \in failed THEN tries[e] + 1 ELSE tries[e]
      BY <1>0, <1>6 DEF Close
    <3>2. e \in queue \/ e \in effected \cup rejected \/ tries[e] > MaxRetries
      BY DEF EventsKept, Settled
    <3>3. CASE tries[e] > MaxRetries
      BY <3>1, <3>3, <1>0
    <3>4. CASE e \in queue /\ e \in failed /\ tries[e] >= MaxRetries
      BY <3>1, <3>4, <1>0
    <3>5. CASE e \in queue /\ ~(e \in failed /\ tries[e] >= MaxRetries)
      BY <3>5, <1>6 DEF Close
    <3> QED
      BY <3>2, <3>3, <3>4, <3>5
  <2> QED
    BY <2>1, <2>2, <1>6 DEF EventsKept, Settled
<1>7. CASE EndBatch
  <2> DEFINE retried == {e \in DOMAIN verdict : verdict[e] = "retry"}
  <2>1. Close(DOMAIN verdict \ retried, retried) /\ UNCHANGED <<announced, effected, rejected>>
    BY <1>7 DEF EndBatch
  <2>2. DOMAIN verdict \ retried \subseteq effected \cup rejected
    BY DEF ConsumerInv
  <2> QED
    BY <2>1, <2>2, <1>0, <1>6
<1>8. CASE ConsumerStops
  <2>1. Close({}, batch \cup DOMAIN verdict) /\ UNCHANGED <<announced, effected, rejected>>
    BY <1>8 DEF ConsumerStops
  <2> QED
    BY <2>1, <1>0, <1>6
<1>9. CASE ConsumerNext
  BY <1>4, <1>5, <1>7, <1>8, <1>9 DEF ConsumerNext
<1> QED
  BY <1>1, <1>2, <1>3, <1>9, NextSteps, PublishKeeps

-----------------------------------------------------------------------------
(* The invariant, and the theorems *)

ProxyInv ==
    /\ ProxyTypeOK
    /\ ReadingsInv /\ RememberedInv /\ WindowsInv /\ MarkersInv /\ TicketsInv /\ ConsumerInv
    /\ AdmissionBounded /\ RevokedKeptOut /\ ConfirmedStands /\ EventsKept

LEMMA InitInv == ProxyInit => ProxyInv
<1> SUFFICES ASSUME ProxyInit
             PROVE  ProxyInv
  OBVIOUS
<1>0. ProxyTypeOK
  BY InitTypes
<1>1. /\ now = 0 /\ slot = [s \in Slots |-> Free] /\ taken = [r \in Signed |-> NeverTaken]
      /\ passed = [a \in Agents |-> <<>>] /\ agentBucket = [a \in Agents |-> NoBucket]
      /\ marked = [a \in Agents |-> 0]
  BY DEF ProxyInit, Init, AuthInit
<1>2. ReadingsInv /\ RevokedKeptOut
  BY <1>1 DEF ReadingsInv, RevokedKeptOut, Free
<1>3. RememberedInv /\ AcceptedOnce
  BY <1>1 DEF RememberedInv, AcceptedOnce, NeverTaken
<1>4. WindowsInv /\ RateKept
  BY <1>1, AuthAssumption DEF WindowsInv, RateKept, NoBucket, Over
<1>5. MarkersInv
  BY <1>1, ProxyTrustAssumption DEF MarkersInv, Free
<1>6. TicketsInv /\ ConfirmedStands
  BY <1>1 DEF TicketsInv, ConfirmedStands, ProxyInit, TrustInit, Free
<1>7. ConsumerInv /\ EventsKept
  BY DEF ConsumerInv, EventsKept, ProxyInit
<1> QED
  BY <1>0, <1>2, <1>3, <1>4, <1>5, <1>6, <1>7 DEF ProxyInv, AdmissionBounded

LEMMA NextInv == ProxyInv /\ [ProxyNext]_proxyVars => ProxyInv'
<1> SUFFICES ASSUME ProxyInv, [ProxyNext]_proxyVars
             PROVE  ProxyInv'
  OBVIOUS
<1>0. ProxyTypeOK'
  BY NextTypes DEF ProxyInv
<1>1. CASE ProxyNext
  <2>0. SlotTypeOK'
    BY <1>0 DEF ProxyTypeOK
  <2>1. ReadingsInv'
    BY <1>1, <2>0, ReadingsStep DEF ProxyInv
  <2>2. RememberedInv' /\ AcceptedOnce'
    BY <1>1, RememberedStep DEF ProxyInv, AdmissionBounded
  <2>3. WindowsInv' /\ RateKept'
    BY <1>0, <1>1, WindowsStep DEF ProxyInv, AdmissionBounded
  <2>4. MarkersInv' /\ RevokedKeptOut'
    BY <1>0, <1>1, MarkersStep DEF ProxyInv
  <2>5. TicketsInv' /\ ConfirmedStands'
    BY <1>0, <1>1, TicketsStep DEF ProxyInv
  <2>6. EventsKept' /\ ConsumerInv'
    BY <1>1, ConsumerStep DEF ProxyInv
  <2> QED
    BY <1>0, <2>1, <2>2, <2>3, <2>4, <2>5, <2>6 DEF ProxyInv, AdmissionBounded
<1>2. CASE UNCHANGED proxyVars
  <2>1. UNCHANGED <<now, expiresAt, tickets, confirmed, markers, issued, accepted, slot, agentBucket,
                    taken, passed, marked>>
    BY <1>2 DEF proxyVars, vars, trustVars, authVars
  <2>2. UNCHANGED queueVars
    BY <1>2 DEF proxyVars
  <2>3. ReadingsInv' /\ RememberedInv' /\ WindowsInv' /\ MarkersInv' /\ TicketsInv'
    BY <2>1 DEF ProxyInv, ReadingsInv, RememberedInv, WindowsInv, MarkersInv, TicketsInv, Over
  <2>4. AdmissionBounded' /\ RevokedKeptOut' /\ ConfirmedStands'
    BY <2>1 DEF ProxyInv, AdmissionBounded, AcceptedOnce, RateKept, RevokedKeptOut, ConfirmedStands
  <2>5. ConsumerInv' /\ EventsKept'
    BY <2>2 DEF ProxyInv, ConsumerInv, EventsKept, Settled, queueVars
  <2> QED
    BY <1>0, <2>3, <2>4, <2>5 DEF ProxyInv
<1> QED
  BY <1>1, <1>2

LEMMA ProxyInductive == ProxySpec => []ProxyInv
  BY InitInv, NextInv, PTL DEF ProxySpec

\* However many copies of a signed request overlap in the middleware, one whose
\* timestamp's window ends within the lifetime of its nonce is accepted once
\* (verifyProofs and the nonce cache), and however its windows lie an agent passes
\* the limit of createAgentRateLimitMiddleware less than twice as often per window.
THEOREM ProxyAdmission == ProxySpec => []AdmissionBounded
<1>1. ProxyInv => AdmissionBounded
  BY DEF ProxyInv
<1> QED
  BY <1>1, ProxyInductive, PTL

\* No request that arrived after its agent was marked as revoked passes the trust
\* check while the marker lasts, for every marker lifetime and number of sweeps.
THEOREM ProxyKeepsOut == ProxySpec => []RevokedKeptOut
<1>1. ProxyInv => RevokedKeptOut
  BY DEF ProxyInv
<1> QED
  BY <1>1, ProxyInductive, PTL

\* Two confirms, sweeps and status calls that overlap with the signature check of
\* confirmPairingTicket leave a confirmed ticket confirmed until it expires.
THEOREM ProxyConfirmations == ProxySpec => []ConfirmedStands
<1>1. ProxyInv => ConfirmedStands
  BY DEF ProxyInv
<1> QED
  BY <1>1, ProxyInductive, PTL

\* The safety half of EventsTakeEffect: an event leaves the queue only when it has
\* taken effect, was refused, or failed more often than the queue retries; a
\* worker that is stopped in a batch acknowledges nothing.
THEOREM ProxyEventsKept == ProxySpec => []EventsKept
<1>1. ProxyInv => EventsKept
  BY DEF ProxyInv
<1> QED
  BY <1>1, ProxyInductive, PTL

-----------------------------------------------------------------------------
(* The nonce cache of the running proxy and the promise of a nonce store *)

\* What a request's call of the cache does to what the promise sees.
LEMMA CacheAccepts ==
    ASSUME ProxyTypeOK, NEW s \in Slots, CheckNonce(s)
    PROVE  [Guard!Next]_(Guard!vars)
<1> DEFINE r == slot[s].request
           k == <<r.agent, r.nonce>>
<1>0. now \in Nat /\ expiresAt \in [Keys -> Nat] /\ Ttl \in Nat \ {0} /\ SlotTypeOK
  BY CacheAssumption DEF ProxyTypeOK, NonceTypeOK
<1>1. slot[s].stage = "nonce"
  BY DEF CheckNonce, At
<1>2. slot[s] \in Running
  BY <1>0, <1>1, RunningAt
<1>3. k \in Keys
  BY <1>2 DEF Running, Requests, Keys
<1>4. now' = now
  BY DEF CheckNonce, TryAcceptNonce
<1>5. expiresAt' = IF Purged[k] # 0 THEN Purged ELSE [Purged EXCEPT ![k] = now + Ttl]
  BY DEF CheckNonce, TryAcceptNonce, Request
<1> HIDE DEF r, k
<1>6. CASE Purged[k] # 0
  <2>1. \A x \in Keys : Until'[x] = Until[x]
    BY <1>0, <1>4, <1>5, <1>6 DEF Until, Purged
  <2> QED
    BY <2>1, <1>4 DEF Until, Guard!vars
<1>7. CASE Purged[k] = 0
  <2>1. Until[k] = 0
    BY <1>0, <1>3, <1>7 DEF Until, Purged
  <2>2. \A x \in Keys : Until'[x] = IF x = k THEN now + Ttl ELSE Until[x]
    BY <1>0, <1>3, <1>4, <1>5, <1>7 DEF Until, Purged
  <2>3. now + Ttl \in 1 .. (now + Ttl) /\ now + Ttl > now
    BY <1>0
  <2>4. Until' = [Until EXCEPT ![k] = IF now + Ttl > now THEN now + Ttl ELSE 0]
    BY <2>2, <2>3 DEF Until
  <2>5. Guard!Accept(k)
    BY <2>1, <2>3, <2>4, <1>4 DEF Guard!Accept
  <2> QED
    BY <2>5, <1>3 DEF Guard!Next
<1> QED
  BY <1>6, <1>7

LEMMA CacheStepRefines ==
    ASSUME ProxyTypeOK, [ProxyNext]_proxyVars
    PROVE  [Guard!Next]_(Guard!vars)
<1>0. now \in Nat /\ expiresAt \in [Keys -> Nat]
  BY DEF ProxyTypeOK, NonceTypeOK
<1>1. ASSUME UNCHANGED vars
      PROVE  UNCHANGED Guard!vars
  BY <1>1 DEF vars, Until, Guard!vars
<1>2. ASSUME TimePasses
      PROVE  Guard!Next
  <2>1. now' = now + 1 /\ expiresAt' = expiresAt
    BY <1>2 DEF TimePasses, Tick
  <2>2. Until' = [k \in Keys |-> IF Until[k] > now' THEN Until[k] ELSE 0]
    BY <1>0, <2>1 DEF Until
  <2> QED
    BY <2>1, <2>2 DEF Guard!Next, Guard!Tick
<1>3. ASSUME UNCHANGED proxyVars
      PROVE  UNCHANGED vars
  BY <1>3 DEF proxyVars
<1> QED
  BY <1>1, <1>2, <1>3, CacheAccepts, NonceFrame

\* In the running proxy the cache keeps the promise of a nonce store for every
\* agent and nonce: between the overlapping requests that purge and fill it, no
\* accepted nonce is accepted again, nor forgotten, within its lifetime.
THEOREM ProxyCacheRefines == ProxySpec => CacheImplementsGuard
<1>1. ProxyInit => Guard!Init
  BY DEF ProxyInit, Init, Guard!Init, Until
<1> QED
  BY <1>1, ProxyTypeCorrect, CacheStepRefines, PTL DEF ProxySpec, CacheImplementsGuard, Guard!Spec

LEMMA TightStep ==
    ASSUME ProxyTypeOK, MapsAreTight, [ProxyNext]_proxyVars
    PROVE  MapsAreTight'
<1>1. ASSUME NEW s \in Slots, CheckNonce(s)
      PROVE  MapsAreTight'
  <2> DEFINE b == slot[s].request.agent
             k == <<b, slot[s].request.nonce>>
  <2>0. now \in Nat /\ expiresAt \in [Keys -> Nat] /\ Ttl \in Nat \ {0} /\ SlotTypeOK
    BY CacheAssumption DEF ProxyTypeOK, NonceTypeOK
  <2>1. slot[s].stage = "nonce"
    BY <1>1 DEF CheckNonce, At
  <2>2. slot[s] \in Running
    BY <2>0, <2>1, RunningAt
  <2>3. b \in Agents /\ slot[s].request.nonce \in Nonces /\ k \in Keys
    BY <2>2 DEF Running, Requests, Keys
  <2>4. /\ agents' = AgentsLeft \cup {b}
        /\ expiresAt' = IF Purged[k] # 0 THEN Purged ELSE [Purged EXCEPT ![k] = now + Ttl]
    BY <1>1 DEF CheckNonce, TryAcceptNonce, Request
  <2>5. Purged \in [Keys -> Nat] /\ \A x \in Keys : Purged[x] # 0 => expiresAt[x] # 0
    BY <2>0 DEF Purged
  <2>6. expiresAt'[k] # 0 /\ \A x \in Keys \ {k} : expiresAt'[x] = Purged[x]
    BY <2>0, <2>3, <2>4, <2>5
  <2> SUFFICES ASSUME NEW a \in Agents
               PROVE  a \in agents' <=> \E n \in Nonces : expiresAt'[<<a, n>>] # 0
    BY DEF MapsAreTight
  <2>7. CASE a = b
    BY <2>3, <2>4, <2>6, <2>7
  <2>8. CASE a # b
    <3>1. \A n \in Nonces : <<a, n>> \in Keys /\ <<a, n>> # k /\ expiresAt'[<<a, n>>] = Purged[<<a, n>>]
      BY <2>6, <2>8 DEF Keys
    <3>2. a \in agents' <=> a \in AgentsLeft
      BY <2>4, <2>8
    <3>3. a \in AgentsLeft <=> \E n \in Nonces : Purged[<<a, n>>] # 0
      BY <2>5, <3>1 DEF AgentsLeft, MapsAreTight
    <3> QED
      BY <3>1, <3>2, <3>3
  <2> QED
    BY <2>7, <2>8
<1>2. ASSUME UNCHANGED vars \/ TimePasses
      PROVE  MapsAreTight'
  BY <1>2 DEF vars, TimePasses, Tick, MapsAreTight
<1>3. ASSUME UNCHANGED proxyVars
      PROVE  UNCHANGED vars
  BY <1>3 DEF proxyVars
<1> QED
  BY <1>1, <1>2, <1>3, NonceFrame

\* The outer map of the cache holds exactly the agents that have a record, so
\* purging on behalf of one agent leaves no empty map of another behind.
THEOREM ProxyMapsTight == ProxySpec => []MapsAreTight
<1>1. ProxyInit => MapsAreTight
  BY DEF ProxyInit, Init, MapsAreTight, Keys
<1> QED
  BY <1>1, ProxyTypeCorrect, TightStep, PTL DEF ProxySpec
=============================================================================
