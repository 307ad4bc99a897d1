----------------------- MODULE ConnectorRuntimeProofs -----------------------
(***************************************************************************)
(* The runtime of the TypeScript connector keeps its promises for every    *)
(* number of sockets, frames, messages, lanes and calls.  Its three parts  *)
(* share no variable, so each has an inductive invariant of its own.       *)
(***************************************************************************)
EXTENDS ConnectorRuntime, WellFoundedInduction, FiniteSetTheorems, SequenceTheorems, TLAPS

\* Min picks the least element of a nonempty set of natural numbers, which is
\* what the code's schedulers compute with Math.min or a running minimum.
LEMMA MinOfNaturals ==
    ASSUME NEW S \in SUBSET Nat, S # {}
    PROVE  /\ Min(S) \in S
           /\ \A u \in S : Min(S) <= u
<1> DEFINE R == {ss \in Nat \X Nat : ss[1] < ss[2]}
<1>1. IsWellFoundedOn(R, Nat)
  BY NatLessThanWellFounded, Zenon DEF OpToRel
<1>2. PICK t \in S : \A u \in S : ~ (<<u, t>> \in R)
  <2> HIDE DEF R
  <2> QED BY <1>1, WFMin
<1>3. \A u \in S : ~ (u < t)
  BY <1>2
<1>4. \A u \in S : t <= u
  BY <1>3
<1> QED
  BY <1>4 DEF Min

-----------------------------------------------------------------------------
(* The tokens *)

\* What a step of the runtime does to the tokens.
AuthStep ==
    \/ \E c \in Calls : CallStep(c) \/ RefreshForUpgrade(c)
    \/ RestartAuth

\* refreshSingleFlights: no two refreshes of a kind are under way.
OneFlight ==
    \A c, d \in Calls :
        calls[c].flying /\ calls[d].flying /\ calls[c].kind = calls[d].kind => c = d

\* Only a refresh handles tokens, and the one it holds was issued.
TokenHeld ==
    \A c \in Calls :
        /\ calls[c].pc \in {"take", "ask", "persist", "write"} => calls[c].flying
        /\ calls[c].pc \in {"ask", "persist", "write"} => calls[c].auth \in 0 .. token

\* A call that comes too late with its token comes after a call of another kind.
LateWrites ==
    \A c \in Calls :
        calls[c].pc \in {"persist", "write"} /\ calls[c].auth < authFile =>
            writer # calls[c].kind

AuthInv == AuthTypeOK /\ OneFlight /\ TokenHeld /\ LateWrites /\ AuthKept

\* The tokens start in the invariant.
LEMMA AuthInvInit == AuthInit => AuthInv
BY AuthAssumption
   DEF AuthInit, AuthInv, AuthTypeOK, OneFlight, TokenHeld, LateWrites, AuthKept, Free, Kinds

\* A call that only moves on, without a new token, keeps the invariant: what it
\* begins must be the only refresh of its kind.
LEMMA CallMoves ==
    ASSUME AuthInv, NEW c \in Calls,
           NEW w \in [kind : Kinds \cup {"none"}, auth : 0 .. token \cup {NoAuth},
                      pc : {"idle", "read", "sync", "perform", "take", "ask"},
                      flying : BOOLEAN],
           calls' = [calls EXCEPT ![c] = w],
           w.flying => \A d \in Calls \ {c} : ~(calls[d].flying /\ calls[d].kind = w.kind),
           w.pc \in {"take", "ask"} => w.flying,
           w.pc = "ask" => w.auth \in 0 .. token,
           ~(calls[c].pc \in {"persist", "write"} /\ calls[c].auth = token),
           currentAuth' \in 0 .. token,
           UNCHANGED <<token, authFile, writer, authFaults>>
    PROVE  AuthInv'
<1> USE DEF AuthInv, AuthTypeOK
<1>1. \A d \in Calls : calls'[d] = IF d = c THEN w ELSE calls[d]
  OBVIOUS
<1>2. AuthTypeOK'
  OBVIOUS
<1>3. OneFlight'
  BY <1>1 DEF OneFlight
<1>4. TokenHeld'
  BY <1>1 DEF TokenHeld
<1>5. LateWrites'
  BY <1>1 DEF LateWrites
<1>6. AuthKept'
  BY <1>1 DEF AuthKept
<1> QED
  BY <1>2, <1>3, <1>4, <1>5, <1>6

\* So does a call that begins: the kinds that do not fly, and the client's refresh.
LEMMA CallBeginsInv ==
    ASSUME AuthInv, NEW c \in Calls, NEW k \in Kinds, NEW b \in BOOLEAN,
           b => Flights(k) = {}, CallBegins(c, k, b)
    PROVE  AuthInv'
<1> DEFINE w == [kind |-> k, pc |-> "read", auth |-> NoAuth, flying |-> b]
<1>1. w \in [kind : Kinds \cup {"none"}, auth : 0 .. token \cup {NoAuth},
             pc : {"idle", "read", "sync", "perform", "take", "ask"}, flying : BOOLEAN]
  OBVIOUS
<1>2. calls' = [calls EXCEPT ![c] = w] /\ calls[c] = Free
      /\ UNCHANGED <<token, currentAuth, authFile, writer, authFaults>>
  BY DEF CallBegins
<1>3. b => \A d \in Calls \ {c} : ~(calls[d].flying /\ calls[d].kind = k)
  BY DEF Flights
<1>4. currentAuth \in 0 .. token
  BY DEF AuthInv, AuthTypeOK
<1>5. calls[c].pc = "idle"
  BY <1>2 DEF Free
<1> QED
  BY <1>1, <1>2, <1>3, <1>4, <1>5, CallMoves

\* So does a call that ends without the current token.
LEMMA CallEndsInv ==
    ASSUME AuthInv, NEW c \in Calls, CallEnds(c),
           ~(calls[c].pc \in {"persist", "write"} /\ calls[c].auth = token),
           UNCHANGED <<token, currentAuth, authFile, writer, authFaults>>
    PROVE  AuthInv'
<1>1. Free \in [kind : Kinds \cup {"none"}, auth : 0 .. token \cup {NoAuth},
               pc : {"idle", "read", "sync", "perform", "take", "ask"}, flying : BOOLEAN]
      /\ ~Free.flying /\ Free.pc = "idle"
  BY DEF Free
<1>2. calls' = [calls EXCEPT ![c] = Free]
  BY DEF CallEnds
<1>3. currentAuth \in 0 .. token
  BY DEF AuthInv, AuthTypeOK
<1> QED
  BY <1>1, <1>2, <1>3, CallMoves

\* Reading the file, taking it over and using the token in memory keep it.
LEMMA CallTakesInv ==
    ASSUME AuthInv, NEW c \in Calls, ReadAuth(c) \/ SyncAuth(c) \/ TakeAuth(c)
    PROVE  AuthInv'
<1> USE DEF AuthInv, AuthTypeOK
<1>1. CASE ReadAuth(c)
  <2>1. PICK t \in {authFile, NoAuth} : CallTakes(c, "sync", t)
    BY <1>1 DEF ReadAuth
  <2> DEFINE w == [calls[c] EXCEPT !.pc = "sync", !.auth = t]
  <2>2. calls' = [calls EXCEPT ![c] = w]
    BY <2>1 DEF CallTakes
  <2>3. w \in [kind : Kinds \cup {"none"}, auth : 0 .. token \cup {NoAuth},
               pc : {"idle", "read", "sync", "perform", "take", "ask"}, flying : BOOLEAN]
        /\ w.pc = "sync" /\ w.flying = calls[c].flying /\ w.kind = calls[c].kind
    OBVIOUS
  <2>4. calls[c].pc = "read" /\ UNCHANGED <<token, currentAuth, authFile, writer, authFaults>>
    BY <1>1 DEF ReadAuth, CallAt
  <2>5. w.flying => \A d \in Calls \ {c} : ~(calls[d].flying /\ calls[d].kind = w.kind)
    BY <2>3 DEF OneFlight
  <2> HIDE DEF w
  <2> QED
    BY <2>2, <2>3, <2>4, <2>5, CallMoves
<1>2. CASE SyncAuth(c)
  <2> DEFINE pc == IF calls[c].flying THEN "take" ELSE "perform"
             w == [calls[c] EXCEPT !.pc = pc, !.auth = NoAuth]
  <2>1. calls' = [calls EXCEPT ![c] = w]
    BY <1>2 DEF SyncAuth, CallTakes
  <2>2. w \in [kind : Kinds \cup {"none"}, auth : 0 .. token \cup {NoAuth},
               pc : {"idle", "read", "sync", "perform", "take", "ask"}, flying : BOOLEAN]
        /\ (w.pc = "take" => w.flying) /\ w.pc # "ask"
        /\ w.flying = calls[c].flying /\ w.kind = calls[c].kind
    OBVIOUS
  <2>3. calls[c].pc = "sync" /\ currentAuth' \in 0 .. token
        /\ UNCHANGED <<token, authFile, writer, authFaults>>
    BY <1>2 DEF SyncAuth, CallAt
  <2>4. w.flying => \A d \in Calls \ {c} : ~(calls[d].flying /\ calls[d].kind = w.kind)
    BY <2>2 DEF OneFlight
  <2> HIDE DEF w
  <2> QED
    BY <2>1, <2>2, <2>3, <2>4, CallMoves
<1>3. CASE TakeAuth(c)
  <2>1. calls[c].pc = "take" /\ UNCHANGED <<token, currentAuth, authFile, writer, authFaults>>
    BY <1>3 DEF TakeAuth, CallAt
  <2>2. CASE CallEnds(c)
    BY <2>1, <2>2, CallEndsInv
  <2>3. CASE CallTakes(c, "ask", currentAuth)
    <3> DEFINE w == [calls[c] EXCEPT !.pc = "ask", !.auth = currentAuth]
    <3>1. calls' = [calls EXCEPT ![c] = w]
      BY <2>3 DEF CallTakes
    <3>2. w \in [kind : Kinds \cup {"none"}, auth : 0 .. token \cup {NoAuth},
                 pc : {"idle", "read", "sync", "perform", "take", "ask"}, flying : BOOLEAN]
          /\ w.pc = "ask" /\ w.auth \in 0 .. token
          /\ w.flying = calls[c].flying /\ w.kind = calls[c].kind
      OBVIOUS
    <3>3. calls[c].flying
      BY <2>1 DEF TokenHeld
    <3>4. w.flying => \A d \in Calls \ {c} : ~(calls[d].flying /\ calls[d].kind = w.kind)
      BY <3>2 DEF OneFlight
    <3> HIDE DEF w
    <3> QED
      BY <2>1, <3>1, <3>2, <3>3, <3>4, CallMoves
  <2> QED
    BY <1>3, <2>2, <2>3 DEF TakeAuth
<1> QED
  BY <1>1, <1>2, <1>3

\* A request whose token is refused begins the one refresh of its kind.
LEMMA PerformInv ==
    ASSUME AuthInv, NEW c \in Calls, Perform(c)
    PROVE  AuthInv'
<1> USE DEF AuthInv, AuthTypeOK
<1>1. calls[c].pc = "perform" /\ UNCHANGED <<token, currentAuth, authFile, writer, authFaults>>
  BY DEF Perform, CallAt
<1>2. CASE CallEnds(c)
  BY <1>1, <1>2, CallEndsInv
<1>3. CASE /\ Flights(calls[c].kind) = {}
           /\ calls' = [calls EXCEPT ![c].pc = "read", ![c].flying = TRUE]
  <2> DEFINE w == [calls[c] EXCEPT !.pc = "read", !.flying = TRUE]
  <2>1. calls' = [calls EXCEPT ![c] = w]
    BY <1>3
  <2>2. w \in [kind : Kinds \cup {"none"}, auth : 0 .. token \cup {NoAuth},
               pc : {"idle", "read", "sync", "perform", "take", "ask"}, flying : BOOLEAN]
        /\ w.pc = "read" /\ w.kind = calls[c].kind
    OBVIOUS
  <2>3. \A d \in Calls \ {c} : ~(calls[d].flying /\ calls[d].kind = w.kind)
    BY <1>3, <2>2 DEF Flights
  <2> HIDE DEF w
  <2> QED
    BY <1>1, <2>1, <2>2, <2>3, CallMoves
<1> QED
  BY <1>2, <1>3 DEF Perform

\* The exchange puts the new token into the hands of the call, or loses it.
LEMMA ExchangeInv ==
    ASSUME AuthInv, NEW c \in Calls, Exchange(c)
    PROVE  AuthInv'
<1> USE DEF AuthInv, AuthTypeOK
<1>1. /\ calls[c].pc = "ask" /\ token' = token + 1 /\ token < MaxExchanges
      /\ UNCHANGED <<currentAuth, authFile, writer>>
  BY DEF Exchange, CallAt
<1>2. token \in Nat /\ token' \in 0 .. MaxExchanges /\ 0 .. token \subseteq 0 .. token'
  BY <1>1, AuthAssumption
<1>3. CASE CallTakes(c, "persist", token + 1) /\ UNCHANGED authFaults
  <2> DEFINE w == [calls[c] EXCEPT !.pc = "persist", !.auth = token + 1]
  <2>1. calls' = [calls EXCEPT ![c] = w]
    BY <1>3 DEF CallTakes
  <2>2. w \in [kind : Kinds \cup {"none"}, auth : 0 .. token' \cup {NoAuth},
               pc : {"idle", "read", "sync", "perform", "take",
                     "ask", "persist", "write"}, flying : BOOLEAN]
        /\ w.pc = "persist" /\ w.auth = token'
        /\ w.flying = calls[c].flying /\ w.kind = calls[c].kind
    <3>1. token + 1 \in 0 .. token'
      BY <1>1, <1>2
    <3>2. calls[c] \in [kind : Kinds \cup {"none"}, auth : 0 .. token \cup {NoAuth},
               pc : {"idle", "read", "sync", "perform", "take",
                     "ask", "persist", "write"}, flying : BOOLEAN]
      OBVIOUS
    <3> HIDE DEF AuthInv, AuthTypeOK
    <3> QED
      BY <1>1, <3>1, <3>2
  <2>3. \A d \in Calls : calls'[d] = IF d = c THEN w ELSE calls[d]
    BY <2>1
  <2> HIDE DEF w
  <2>4. AuthTypeOK'
    BY <1>1, <1>2, <1>3, <2>1, <2>2
  <2>5. OneFlight'
    BY <2>2, <2>3 DEF OneFlight
  <2>6. TokenHeld'
    BY <1>1, <1>2, <2>2, <2>3 DEF TokenHeld
  <2>7. LateWrites'
    BY <1>1, <1>2, <2>2, <2>3 DEF LateWrites
  <2>8. AuthKept'
    BY <2>2, <2>3 DEF AuthKept
  <2> QED
    BY <2>4, <2>5, <2>6, <2>7, <2>8
<1>4. CASE AnswerLost(c)
  <2>1. calls' = [calls EXCEPT ![c] = Free] /\ authFaults' = authFaults \cup {"answer"}
    BY <1>4 DEF AnswerLost, CallEnds
  <2>2. \A d \in Calls : calls'[d] = IF d = c THEN Free ELSE calls[d]
    BY <2>1
  <2>3. AuthTypeOK'
    BY <1>1, <1>2, <2>1 DEF Free
  <2>4. OneFlight' /\ LateWrites' /\ AuthKept'
    BY <1>1, <2>1, <2>2 DEF OneFlight, LateWrites, AuthKept, Free
  <2>5. TokenHeld'
    BY <1>1, <1>2, <2>2 DEF TokenHeld, Free
  <2> QED
    BY <2>3, <2>4, <2>5
<1> QED
  BY <1>3, <1>4 DEF Exchange

\* The new token goes to the memory first and stays in the hands of the call.
LEMMA PersistAuthInv ==
    ASSUME AuthInv, NEW c \in Calls, PersistAuth(c)
    PROVE  AuthInv'
<1> USE DEF AuthInv, AuthTypeOK
<1> DEFINE w == [calls[c] EXCEPT !.pc = "write"]
<1>1. /\ calls[c].pc = "persist" /\ currentAuth' = calls[c].auth
      /\ calls' = [calls EXCEPT ![c] = w]
      /\ UNCHANGED <<token, authFile, writer, authFaults>>
  BY DEF PersistAuth, CallAt, CallGoes
<1>2. w \in [kind : Kinds \cup {"none"}, auth : 0 .. token \cup {NoAuth},
             pc : {"idle", "read", "sync", "perform", "take",
                   "ask", "persist", "write"}, flying : BOOLEAN]
      /\ w.pc = "write" /\ w.auth = calls[c].auth
      /\ w.flying = calls[c].flying /\ w.kind = calls[c].kind
  OBVIOUS
<1>3. \A d \in Calls : calls'[d] = IF d = c THEN w ELSE calls[d]
  BY <1>1
<1>4. calls[c].auth \in 0 .. token
  BY <1>1 DEF TokenHeld
<1> HIDE DEF w
<1>5. AuthTypeOK'
  BY <1>1, <1>2, <1>4
<1>6. OneFlight' /\ TokenHeld' /\ LateWrites'
  BY <1>1, <1>2, <1>3 DEF OneFlight, TokenHeld, LateWrites
<1>7. AuthKept'
  BY <1>1, <1>2, <1>3 DEF AuthKept
<1> QED
  BY <1>5, <1>6, <1>7

\* The write keeps the current token in the file, unless that is a fault: an older
\* token replaces it only if the call is of another kind than the last writer.
LEMMA WriteAuthInv ==
    ASSUME AuthInv, NEW c \in Calls, WriteAuth(c)
    PROVE  AuthInv'
<1> USE DEF AuthInv, AuthTypeOK
<1>1. /\ calls[c].pc = "write" /\ calls' = [calls EXCEPT ![c] = Free]
      /\ UNCHANGED <<token, currentAuth>>
  BY DEF WriteAuth, CallAt, CallEnds
<1>2. calls[c].auth \in 0 .. token /\ calls[c].flying
  BY <1>1 DEF TokenHeld
<1>3. \A d \in Calls : calls'[d] = IF d = c THEN Free ELSE calls[d]
  BY <1>1
<1>4. OneFlight' /\ TokenHeld'
  BY <1>1, <1>3 DEF OneFlight, TokenHeld, Free
<1>5. CASE authFaults' = authFaults \cup {"write"} /\ UNCHANGED <<authFile, writer>>
  <2>1. AuthTypeOK'
    BY <1>1, <1>5 DEF Free
  <2>2. LateWrites' /\ AuthKept'
    BY <1>3, <1>5 DEF LateWrites, AuthKept, Free
  <2> QED
    BY <1>4, <2>1, <2>2
<1>6. CASE /\ authFile' = calls[c].auth /\ writer' = calls[c].kind
           /\ authFaults' = authFaults \cup
                (IF calls[c].auth < authFile /\ writer # calls[c].kind THEN {"order"} ELSE {})
  <2>1. AuthTypeOK'
    BY <1>1, <1>2, <1>6 DEF Free
  <2>2. LateWrites'
    <3> SUFFICES ASSUME NEW d \in Calls, calls'[d].pc \in {"persist", "write"}
                 PROVE  writer' # calls'[d].kind
      BY DEF LateWrites
    <3>1. d # c /\ calls'[d] = calls[d]
      BY <1>3 DEF Free
    <3>2. calls[d].flying
      BY <3>1 DEF TokenHeld
    <3> QED
      BY <1>2, <1>6, <3>1, <3>2 DEF OneFlight
  <2>3. AuthKept'
    <3> SUFFICES ASSUME authFaults' = {}, token # calls[c].auth
                 PROVE  \E d \in Calls : calls'[d].pc \in {"persist", "write"} /\ calls'[d].auth = token
      BY <1>1, <1>6 DEF AuthKept
    <3>1. authFaults = {} /\ ~(calls[c].auth < authFile /\ writer # calls[c].kind)
      BY <1>6
    <3>2. ~(calls[c].auth < authFile)
      BY <1>1, <3>1 DEF LateWrites
    <3>3. token # authFile
      BY <1>2, <3>2
    <3>4. PICK d \in Calls : calls[d].pc \in {"persist", "write"} /\ calls[d].auth = token
      BY <3>1, <3>3 DEF AuthKept
    <3> QED
      BY <1>3, <3>4
  <2> QED
    BY <1>4, <2>1, <2>2, <2>3
<1> QED
  BY <1>5, <1>6 DEF WriteAuth

\* A restart finds the current token in the file, unless a call died with it.
LEMMA RestartAuthInv ==
    ASSUME AuthInv, RestartAuth
    PROVE  AuthInv'
<1> USE DEF AuthInv, AuthTypeOK
<1>1. AuthTypeOK'
  BY DEF RestartAuth, Free
<1>2. OneFlight' /\ TokenHeld' /\ LateWrites'
  BY DEF RestartAuth, Free, OneFlight, TokenHeld, LateWrites
<1>3. AuthKept'
  BY DEF RestartAuth, AuthKept
<1> QED
  BY <1>1, <1>2, <1>3

\* Every step of the runtime keeps the invariant of the tokens.
LEMMA AuthInvStep == AuthInv /\ [AuthStep]_authVars => AuthInv'
<1> SUFFICES ASSUME AuthInv, [AuthStep]_authVars PROVE AuthInv'
  OBVIOUS
<1>1. CASE UNCHANGED authVars
  BY <1>1 DEF authVars, AuthInv, AuthTypeOK, OneFlight, TokenHeld, LateWrites, AuthKept
<1>2. CASE RestartAuth
  BY <1>2, RestartAuthInv
<1>3. ASSUME NEW c \in Calls, CallStep(c) \/ RefreshForUpgrade(c)
      PROVE  AuthInv'
  <2>1. CASE RelayToPeer(c) \/ PostDeliveryReceipt(c) \/ RefreshForUpgrade(c)
    BY <2>1, CallBeginsInv DEF RelayToPeer, PostDeliveryReceipt, RefreshForUpgrade, Kinds
  <2>2. CASE ReadAuth(c) \/ SyncAuth(c) \/ TakeAuth(c)
    BY <2>2, CallTakesInv
  <2>3. CASE Perform(c)
    BY <2>3, PerformInv
  <2>4. CASE ExchangeFails(c)
    BY <2>4, CallEndsInv DEF ExchangeFails, CallAt
  <2>5. CASE Exchange(c)
    BY <2>5, ExchangeInv
  <2>6. CASE PersistAuth(c)
    BY <2>6, PersistAuthInv
  <2>7. CASE WriteAuth(c)
    BY <2>7, WriteAuthInv
  <2> QED
    BY <1>3, <2>1, <2>2, <2>3, <2>4, <2>5, <2>6, <2>7 DEF CallStep
<1> QED
  BY <1>1, <1>2, <1>3 DEF AuthStep

-----------------------------------------------------------------------------
(* The socket *)

\* What a step of the runtime does to the client.
ClientStep == ClientNext \/ Crash

SocketTypeOK ==
    /\ phase \in {"new", "running", "stopped"}
    /\ dials \in Nat /\ hooks \in Nat
    /\ socket \in Sockets \cup {None}
    /\ ws \in [Sockets -> {"unused", "connecting", "open", "closing", "closed"}]
    /\ beats \in 0 .. MaxBeats

\* Nothing is under way before connect(), and the timers belong to a socket.
Settled ==
    /\ phase = "new" => dials = 0 /\ hooks = 0
    /\ socket = None => ~connectTimer /\ ~ackTimer /\ beats = 0

SocketInv == SocketTypeOK /\ OneWayOn /\ SilenceNoticed /\ Settled

\* The client starts in the invariant of the socket.
LEMMA SocketInvInit == ClientInit => SocketInv
BY ClientAssumption
   DEF ClientInit, SocketInv, SocketTypeOK, OneWayOn, SilenceNoticed, Settled, started

\* scheduleReconnect sets the timer of a client that is still wanted.
LEMMA ReconnectsFacts == Reconnects => (timer' <=> timer \/ started)
BY Zenon DEF Reconnects

\* A client that loses its socket, and sets the timer if it is still wanted, has
\* one way on.
LEMMA DetachInv ==
    ASSUME SocketInv, socket # None, NEW st \in {"closing", "closed"}, Detach(st),
           \/ Reconnects /\ UNCHANGED hooks
           \/ hooks' = hooks + 1 /\ UNCHANGED timer,
           UNCHANGED <<phase, dials>>
    PROVE  SocketInv'
<1> USE DEF SocketInv, SocketTypeOK
<1>1. /\ socket' = None /\ ws' = [ws EXCEPT ![socket] = st]
      /\ connectTimer' = FALSE /\ beating' = FALSE /\ ackTimer' = FALSE /\ beats' = 0
  BY DEF Detach
<1>2. started /\ dials = 0 /\ hooks = 0 /\ ~timer
  BY DEF OneWayOn
<1>3. \/ timer' /\ hooks' = 0
      \/ ~timer' /\ hooks' = 1
  BY <1>2, ReconnectsFacts
<1>4. SocketTypeOK' /\ OneWayOn'
  BY <1>1, <1>2, <1>3, ClientAssumption DEF OneWayOn, started
<1>5. SilenceNoticed' /\ Settled'
  BY <1>1, <1>2 DEF SilenceNoticed, Settled, started
<1> QED
  BY <1>4, <1>5

\* The steps that do not touch the socket keep its invariant.
LEMMA SocketInvSame ==
    ASSUME SocketInv, UNCHANGED socketVars
    PROVE  SocketInv'
BY DEF socketVars, SocketInv, SocketTypeOK, OneWayOn, SilenceNoticed, Settled, started

\* connect() and the timer make one dial; a dial makes a socket, or sets the timer
\* if it is still wanted; a hook that returns does the same.
LEMMA DialInv ==
    ASSUME SocketInv, Connect \/ Dial \/ ReconnectTimer \/ HookReturns
    PROVE  SocketInv'
<1> USE DEF SocketInv, SocketTypeOK
<1>1. CASE Connect
  BY <1>1 DEF Connect, OneWayOn, SilenceNoticed, Settled, started
<1>2. CASE ReconnectTimer
  <2>1. /\ timer /\ timer' = FALSE /\ dials' = dials + 1
        /\ UNCHANGED <<phase, hooks, socket, ws, connectTimer, beating, beats, ackTimer>>
    BY <1>2 DEF ReconnectTimer
  <2>2. started /\ dials = 0 /\ hooks = 0 /\ socket = None
    BY <2>1 DEF OneWayOn
  <2> QED
    BY <2>1, <2>2 DEF OneWayOn, SilenceNoticed, Settled, started
<1>3. CASE HookReturns
  <2>1. /\ hooks > 0 /\ hooks' = hooks - 1 /\ (timer' <=> timer \/ started)
        /\ UNCHANGED <<phase, dials, socket, ws, connectTimer, beating, beats, ackTimer>>
    BY <1>3, ReconnectsFacts DEF HookReturns
  <2>2. IF started THEN hooks = 1 /\ dials = 0 /\ socket = None /\ timer'
        ELSE socket = None /\ ~timer'
    BY <2>1 DEF OneWayOn, started
  <2>3. OneWayOn' /\ SilenceNoticed' /\ Settled'
    BY <2>1, <2>2 DEF OneWayOn, SilenceNoticed, Settled, started
  <2> QED
    BY <2>1, <2>2, <2>3
<1>4. CASE Dial
  <2>1. /\ dials > 0 /\ dials' = dials - 1
        /\ UNCHANGED <<phase, hooks, beating, beats, ackTimer>>
    BY <1>4 DEF Dial
  <2>2. CASE Reconnects /\ UNCHANGED <<socket, ws, connectTimer>>
    <3>1. IF started THEN dials = 1 /\ hooks = 0 /\ socket = None /\ timer'
          ELSE socket = None /\ ~timer'
      BY <2>1, <2>2, ReconnectsFacts DEF OneWayOn
    <3> QED
      BY <2>1, <2>2, <3>1 DEF OneWayOn, SilenceNoticed, Settled, started
  <2>3. CASE /\ started
             /\ \E s \in Sockets : /\ ws[s] = "unused"
                                   /\ socket' = s /\ ws' = [ws EXCEPT ![s] = "connecting"]
             /\ connectTimer' = TRUE
             /\ UNCHANGED timer
    <3>1. PICK s \in Sockets : socket' = s /\ ws' = [ws EXCEPT ![s] = "connecting"]
      BY <2>3
    <3>2. socket = None /\ dials = 1 /\ hooks = 0 /\ ~timer
      BY <2>1, <2>3 DEF OneWayOn
    <3>3. SocketTypeOK'
      BY <2>1, <2>3, <3>1, <3>2
    <3>4. OneWayOn' /\ SilenceNoticed' /\ Settled'
      BY <2>1, <2>3, <3>1, <3>2, ClientAssumption DEF OneWayOn, SilenceNoticed, Settled, started
    <3> QED
      BY <3>3, <3>4
  <2> QED
    BY <1>4, <2>2, <2>3 DEF Dial
<1> QED
  BY <1>1, <1>2, <1>3, <1>4

\* disconnect() drops the socket and the timer; what is under way finds out later.
LEMMA DisconnectInv ==
    ASSUME SocketInv, Disconnect
    PROVE  SocketInv'
<1> USE DEF SocketInv, SocketTypeOK
<1>1. phase' = "stopped" /\ timer' = FALSE /\ UNCHANGED <<dials, hooks>>
  BY DEF Disconnect
<1>2. CASE socket = None
  BY <1>1, <1>2 DEF Disconnect, OneWayOn, SilenceNoticed, Settled, started
<1>3. CASE socket # None
  <2>1. /\ socket' = None /\ ws' = [ws EXCEPT ![socket] = "closing"]
        /\ connectTimer' = FALSE /\ beating' = FALSE /\ ackTimer' = FALSE /\ beats' = 0
    BY <1>3 DEF Disconnect, Detach
  <2>2. SocketTypeOK'
    BY <1>1, <1>3, <2>1, ClientAssumption
  <2> QED
    BY <1>1, <2>1, <2>2 DEF OneWayOn, SilenceNoticed, Settled, started
<1> QED
  BY <1>2, <1>3

\* Events of any socket, current or not.
LEMMA SocketEventInv ==
    ASSUME SocketInv, NEW s \in Sockets, Opens(s) \/ PeerCloses(s) \/ Closes(s)
    PROVE  SocketInv'
<1> USE DEF SocketInv, SocketTypeOK
<1>1. CASE Opens(s)
  <2>1. /\ ws' = [ws EXCEPT ![s] = "open"] /\ UNCHANGED <<phase, dials, hooks, timer, socket>>
        /\ s = socket => connectTimer' = FALSE /\ beating' = TRUE /\ ackTimer' = FALSE /\ beats' = 0
        /\ s # socket => UNCHANGED <<connectTimer, beating, ackTimer, beats>>
    BY <1>1 DEF Opens
  <2>2. SocketTypeOK'
    BY <2>1, ClientAssumption
  <2>3. OneWayOn' /\ Settled'
    BY <2>1, ClientAssumption DEF OneWayOn, Settled, started
  <2>4. SilenceNoticed'
    BY <2>1 DEF SilenceNoticed
  <2> QED
    BY <2>2, <2>3, <2>4
<1>2. CASE PeerCloses(s)
  <2>1. /\ ws' = [ws EXCEPT ![s] = "closing"]
        /\ UNCHANGED <<phase, dials, hooks, timer, socket, connectTimer, beating, beats, ackTimer>>
    BY <1>2 DEF PeerCloses
  <2>2. OneWayOn' /\ Settled'
    BY <2>1 DEF OneWayOn, Settled, started
  <2>3. SilenceNoticed'
    BY <2>1 DEF SilenceNoticed
  <2> QED
    BY <2>1, <2>2, <2>3
<1>3. CASE Closes(s) /\ s = socket
  <2>1. Detach("closed") /\ Reconnects /\ UNCHANGED <<phase, dials, hooks>>
    BY <1>3 DEF Closes
  <2>2. socket # None
    BY <1>3, ClientAssumption
  <2> QED
    BY <2>1, <2>2, DetachInv
<1>4. CASE Closes(s) /\ s # socket
  <2>1. /\ ws' = [ws EXCEPT ![s] = "closed"]
        /\ UNCHANGED <<phase, dials, hooks, timer, socket, connectTimer, beating, beats, ackTimer>>
    BY <1>4 DEF Closes
  <2>2. OneWayOn' /\ Settled'
    BY <2>1 DEF OneWayOn, Settled, started
  <2>3. SilenceNoticed'
    BY <2>1 DEF SilenceNoticed
  <2> QED
    BY <2>1, <2>2, <2>3
<1> QED
  BY <1>1, <1>2, <1>3, <1>4

\* A heartbeat sets the timeout and its acknowledgement leaves it for the rest.
LEMMA HeartbeatInv ==
    ASSUME SocketInv, Heartbeat \/ HeartbeatAck
    PROVE  SocketInv'
<1> USE DEF SocketInv, SocketTypeOK
<1>1. beats' \in 0 .. MaxBeats /\ (beats' > 0 => ackTimer')
  <2>1. CASE Heartbeat
    BY <2>1, ClientAssumption DEF Heartbeat
  <2>2. CASE HeartbeatAck
    <3>1. ackTimer' <=> beats > 1
      BY <2>2, Zenon DEF HeartbeatAck
    <3> QED
      BY <2>2, <3>1, ClientAssumption DEF HeartbeatAck
  <2> QED
    BY <2>1, <2>2
<1>2. /\ UNCHANGED <<phase, dials, hooks, timer, socket, ws, connectTimer, beating>>
      /\ socket # None
  BY DEF Heartbeat, HeartbeatAck, isConnected
<1> QED
  BY <1>1, <1>2 DEF OneWayOn, SilenceNoticed, Settled, started

\* A crash leaves a client that was never connected.
LEMMA SocketCrashInv ==
    ASSUME SocketInv, Crash
    PROVE  SocketInv'
<1>1. /\ phase' = "new" /\ dials' = 0 /\ hooks' = 0 /\ beats' = 0
      /\ timer' = FALSE /\ connectTimer' = FALSE /\ beating' = FALSE /\ ackTimer' = FALSE
      /\ socket' = None
      /\ ws' = [s \in Sockets |-> IF ws[s] = "unused" THEN "unused" ELSE "closed"]
  BY DEF Crash
<1>2. SocketTypeOK'
  BY <1>1, ClientAssumption DEF SocketTypeOK
<1> QED
  BY <1>1, <1>2 DEF SocketInv, OneWayOn, SilenceNoticed, Settled, started

\* Every step of the runtime keeps the invariant of the socket.
LEMMA SocketInvStep == SocketInv /\ [ClientStep]_clientVars => SocketInv'
<1> SUFFICES ASSUME SocketInv, [ClientStep]_clientVars PROVE SocketInv'
  OBVIOUS
<1>1. CASE UNCHANGED clientVars \/ Enqueue \/ LoadBegin \/ LoadEnd \/ SaveBegin \/ SaveEnd
  <2>1. UNCHANGED socketVars
    BY <1>1 DEF clientVars, Enqueue, LoadBegin, LoadEnd, SaveBegin, SaveEnd
  <2> QED
    BY <2>1, SocketInvSame
<1>2. CASE Connect \/ Dial \/ ReconnectTimer \/ HookReturns
  BY <1>2, DialInv
<1>3. CASE Disconnect
  BY <1>3, DisconnectInv
<1>4. ASSUME NEW s \in Sockets, Opens(s) \/ PeerCloses(s) \/ Closes(s)
      PROVE  SocketInv'
  BY <1>4, SocketEventInv
<1>5. CASE Errors \/ UpgradeRejected \/ ConnectTimeout \/ HeartbeatAckTimeout
  <2>1. socket # None /\ UNCHANGED <<phase, dials>>
    BY <1>5 DEF SocketInv, Settled, Errors, UpgradeRejected, ConnectTimeout, HeartbeatAckTimeout
  <2>2. \/ Reconnects /\ UNCHANGED hooks
        \/ hooks' = hooks + 1 /\ UNCHANGED timer
    BY <1>5 DEF Errors, UpgradeRejected, ConnectTimeout, HeartbeatAckTimeout
  <2>3. Detach("closed") \/ Detach("closing")
    BY <1>5 DEF Errors, UpgradeRejected, ConnectTimeout, HeartbeatAckTimeout
  <2> QED
    BY <2>1, <2>2, <2>3, DetachInv
<1>6. CASE Heartbeat \/ HeartbeatAck
  BY <1>6, HeartbeatInv
<1>7. CASE Crash
  BY <1>7, SocketCrashInv
<1> QED
  BY <1>1, <1>2, <1>3, <1>4, <1>5, <1>6, <1>7 DEF ClientStep, ClientNext

\* The client's flags are Booleans.
ClientFlags ==
    /\ timer \in BOOLEAN /\ connectTimer \in BOOLEAN /\ beating \in BOOLEAN
    /\ ackTimer \in BOOLEAN /\ unread \in BOOLEAN

\* They are at first, and stay so.
LEMMA ClientFlagsInit == ClientInit => ClientFlags
BY Zenon DEF ClientInit, ClientFlags

\* Every step of the runtime keeps the flags Booleans.
LEMMA ClientFlagsStep == ClientFlags /\ [ClientStep]_clientVars => ClientFlags'
<1> SUFFICES ASSUME ClientFlags, [ClientStep]_clientVars PROVE ClientFlags'
  OBVIOUS
<1> USE DEF ClientFlags, socketVars, queueVars
<1>1. CASE UNCHANGED clientVars \/ Enqueue \/ LoadBegin \/ SaveBegin \/ SaveEnd
  BY <1>1 DEF clientVars, Enqueue, LoadBegin, SaveBegin, SaveEnd
<1>2. CASE LoadEnd
  BY <1>2, Zenon DEF LoadEnd
<1>3. CASE Connect \/ Dial \/ ReconnectTimer \/ HookReturns
  BY <1>3, Zenon DEF Connect, Dial, ReconnectTimer, HookReturns, Reconnects
<1>4. CASE Disconnect
  BY <1>4, Zenon DEF Disconnect, Detach
<1>5. ASSUME NEW s \in Sockets, Opens(s) \/ PeerCloses(s) \/ Closes(s)
      PROVE  ClientFlags'
  BY <1>5, Zenon DEF Opens, PeerCloses, Closes, Detach, Reconnects
<1>6. CASE Errors \/ UpgradeRejected \/ ConnectTimeout \/ HeartbeatAckTimeout
  BY <1>6, Zenon DEF Errors, UpgradeRejected, ConnectTimeout, HeartbeatAckTimeout, Detach, Reconnects
<1>7. CASE Heartbeat \/ HeartbeatAck
  <2>1. (beats > 1) = TRUE \/ (beats > 1) = FALSE
    OBVIOUS
  <2>2. ackTimer' \in BOOLEAN
    BY <1>7, <2>1, Zenon DEF Heartbeat, HeartbeatAck
  <2> QED
    BY <1>7, <2>2, Zenon DEF Heartbeat, HeartbeatAck
<1>8. CASE Crash
  BY <1>8, Zenon DEF Crash
<1> QED
  BY <1>1, <1>2, <1>3, <1>4, <1>5, <1>6, <1>7, <1>8 DEF ClientStep, ClientNext

-----------------------------------------------------------------------------
(* The outbound queue *)

InOrder(s) == \A i, j \in DOMAIN s : i < j => s[i] < s[j]

QueueTypeOK ==
    /\ saves \in Nat /\ crashes \in 0 .. MaxCrashes
    /\ frames \in 0 .. MaxFrames
    /\ queue \in Seq(1 .. frames) /\ disk \in Seq(1 .. frames)
    /\ writing \in Seq(1 .. frames) \cup {None}
    /\ load \in {"no", "reading", "done"}
    /\ sent \subseteq 1 .. frames /\ saved \subseteq 1 .. frames

\* The file and what is being written are in order too; nothing is written before
\* the file was read, and only what the queue had.
FileInOrder ==
    /\ InOrder(disk)
    /\ writing # None => load = "done" /\ InOrder(writing)
                         /\ ToSet(writing) \subseteq sent \cup ToSet(queue)

\* Until the file was read, the queue has only frames that are newer than all of it.
NewerThanFile ==
    load # "done" => \A i \in DOMAIN disk, j \in DOMAIN queue : disk[i] < queue[j]

\* A saved frame that was not sent is in every place that outlives the next step:
\* in the file, in what will replace it, and in the queue once the file was read.
SavedEverywhere ==
    ~unread => /\ saved \subseteq sent \cup ToSet(disk)
               /\ load = "done" => saved \subseteq sent \cup ToSet(queue)
               /\ writing # None => saved \subseteq sent \cup ToSet(writing)

QueueInv == QueueTypeOK /\ QueueInOrder /\ FileInOrder /\ NewerThanFile /\ SavedEverywhere

\* Saved frames that are everywhere are not lost.
LEMMA QueueInvKept == QueueInv => QueueKept
BY DEF QueueInv, QueueKept, SavedEverywhere, SavedNotLost

\* The queue starts in its invariant.
LEMMA QueueInvInit == ClientInit => QueueInv
<1> SUFFICES ASSUME ClientInit PROVE QueueInv
  OBVIOUS
<1>1. queue = <<>> /\ disk = <<>> /\ writing = None /\ frames = 0 /\ saved = {}
      /\ load = "no" /\ saves = 0 /\ crashes = 0 /\ sent = {}
  BY DEF ClientInit
<1>2. QueueTypeOK
  BY <1>1, ClientAssumption DEF QueueTypeOK
<1>3. QueueInOrder /\ FileInOrder /\ NewerThanFile /\ SavedEverywhere
  BY <1>1 DEF QueueInOrder, FileInOrder, InOrder, NewerThanFile, SavedEverywhere
<1> QED
  BY <1>2, <1>3 DEF QueueInv

\* A sequence stays one when its alphabet grows.
LEMMA SeqGrows ==
    ASSUME NEW S, NEW T, S \subseteq T, NEW s \in Seq(S)
    PROVE  s \in Seq(T)
OBVIOUS

\* Cutting a queue in two loses nothing, adds nothing and keeps the order.
LEMMA CutFacts ==
    ASSUME NEW n \in Nat, NEW q \in Seq(1 .. n), NEW k \in 0 .. Len(q)
    PROVE  LET a == SubSeq(q, 1, k)
               b == SubSeq(q, k + 1, Len(q))
           IN  /\ a \in Seq(1 .. n) /\ b \in Seq(1 .. n)
               /\ ToSet(q) = ToSet(a) \cup ToSet(b)
               /\ InOrder(q) => InOrder(b)
               /\ \A j \in DOMAIN b : \E i \in DOMAIN q : b[j] = q[i]
<1> DEFINE a == SubSeq(q, 1, k)
           b == SubSeq(q, k + 1, Len(q))
<1>1. /\ a \in Seq(1 .. n) /\ Len(a) = k /\ DOMAIN a = 1 .. k
      /\ \A i \in 1 .. k : a[i] = q[i]
  OBVIOUS
<1>2. /\ b \in Seq(1 .. n) /\ Len(b) = Len(q) - k /\ DOMAIN b = 1 .. (Len(q) - k)
      /\ \A i \in 1 .. (Len(q) - k) : b[i] = q[k + i]
  OBVIOUS
<1>3. DOMAIN q = 1 .. Len(q) /\ Len(q) \in Nat /\ k \in Nat /\ k <= Len(q)
  OBVIOUS
<1> HIDE DEF a, b
<1>4. \A i \in 1 .. (Len(q) - k) : k + i \in 1 .. Len(q)
  BY <1>3
<1>5. ToSet(q) \subseteq ToSet(a) \cup ToSet(b)
  <2> SUFFICES ASSUME NEW i \in 1 .. Len(q)
               PROVE  q[i] \in ToSet(a) \cup ToSet(b)
    BY <1>3 DEF ToSet
  <2>1. CASE i <= k
    BY <1>1, <1>3, <2>1 DEF ToSet
  <2>2. CASE i > k
    <3>1. i - k \in 1 .. (Len(q) - k) /\ k + (i - k) = i
      BY <1>3, <2>2
    <3> QED
      BY <1>2, <3>1 DEF ToSet
  <2> QED
    BY <1>3, <2>1, <2>2
<1>6. \A j \in DOMAIN b : \E i \in DOMAIN q : b[j] = q[i]
  BY <1>2, <1>3, <1>4
<1>7. ToSet(a) \cup ToSet(b) \subseteq ToSet(q)
  <2>1. \A i \in DOMAIN a : i \in DOMAIN q /\ a[i] = q[i]
    BY <1>1, <1>3
  <2>2. ToSet(a) \subseteq ToSet(q)
    BY <2>1 DEF ToSet
  <2>3. ToSet(b) \subseteq ToSet(q)
    BY <1>6 DEF ToSet
  <2> QED
    BY <2>2, <2>3
<1>8. InOrder(q) => InOrder(b)
  <2> SUFFICES ASSUME InOrder(q), NEW i \in DOMAIN b, NEW j \in DOMAIN b, i < j
               PROVE  b[i] < b[j]
    BY DEF InOrder
  <2>0. i \in 1 .. (Len(q) - k) /\ j \in 1 .. (Len(q) - k)
    BY <1>2
  <2>1. k + i \in DOMAIN q /\ k + j \in DOMAIN q /\ k + i < k + j
    BY <1>3, <1>4, <2>0
  <2>2. q[k + i] < q[k + j]
    BY <2>1 DEF InOrder
  <2>3. b[i] = q[k + i] /\ b[j] = q[k + j]
    BY <1>2, <2>0
  <2> QED
    BY <2>2, <2>3
<1> QED
  BY <1>1, <1>2, <1>5, <1>6, <1>7, <1>8 DEF a, b

\* Sending the first k frames of q, which has all the frames of the queue and, once
\* the file was read, all of the file, keeps the invariant.
LEMMA FlushInv ==
    ASSUME QueueInv,
           frames' \in frames .. MaxFrames, saves' \in Nat, load' \in {load, "done"},
           ~unread' => ~unread,
           UNCHANGED <<disk, writing, saved, crashes>>,
           NEW q \in Seq(1 .. frames'), InOrder(q),
           ToSet(queue) \subseteq ToSet(q),
           load' # "done" => \A i \in DOMAIN disk, j \in DOMAIN q : disk[i] < q[j],
           load # load' /\ ~unread' => ToSet(disk) \subseteq ToSet(q),
           NEW k \in 0 .. Len(q),
           queue' = SubSeq(q, k + 1, Len(q)),
           sent' = sent \cup ToSet(SubSeq(q, 1, k))
    PROVE  QueueInv'
<1> USE DEF QueueInv, QueueTypeOK
<1> DEFINE a == SubSeq(q, 1, k)
<1>0. frames' \in Nat /\ frames' \in 0 .. MaxFrames /\ 1 .. frames \subseteq 1 .. frames'
  BY ClientAssumption
<1>1. /\ a \in Seq(1 .. frames') /\ queue' \in Seq(1 .. frames')
      /\ ToSet(q) = ToSet(a) \cup ToSet(queue')
      /\ InOrder(queue')
      /\ \A j \in DOMAIN queue' : \E i \in DOMAIN q : queue'[j] = q[i]
  BY <1>0, CutFacts
<1>2. sent' = sent \cup ToSet(a)
  OBVIOUS
<1> HIDE DEF a
<1>3. ToSet(a) \subseteq 1 .. frames'
  BY <1>1 DEF ToSet
<1>4. disk \in Seq(1 .. frames') /\ writing \in Seq(1 .. frames') \cup {None}
  BY <1>0, SeqGrows
<1>5. QueueTypeOK'
  BY <1>0, <1>1, <1>2, <1>3, <1>4
<1>6. QueueInOrder' /\ FileInOrder'
  BY <1>1, <1>2 DEF QueueInOrder, InOrder, FileInOrder
<1>7. NewerThanFile'
  BY <1>1 DEF NewerThanFile
<1>8. SavedEverywhere'
  BY <1>1, <1>2 DEF SavedEverywhere
<1> QED
  BY <1>5, <1>6, <1>7, <1>8

\* Appending a frame with the next number keeps the order.
LEMMA AppendFacts ==
    ASSUME NEW n \in Nat, NEW q \in Seq(1 .. n), InOrder(q)
    PROVE  LET r == Append(q, n + 1)
           IN  /\ r \in Seq(1 .. (n + 1)) /\ InOrder(r)
               /\ ToSet(q) \subseteq ToSet(r)
               /\ \A j \in DOMAIN r : r[j] = n + 1 \/ (j \in DOMAIN q /\ r[j] = q[j])
<1> DEFINE r == Append(q, n + 1)
<1>1. q \in Seq(1 .. (n + 1)) /\ n + 1 \in 1 .. (n + 1)
  <2>1. 1 .. n \subseteq 1 .. (n + 1)
    OBVIOUS
  <2> QED
    BY <2>1, SeqGrows
<1>2. /\ r \in Seq(1 .. (n + 1)) /\ DOMAIN r = 1 .. (Len(q) + 1) /\ DOMAIN q = 1 .. Len(q)
      /\ r[Len(q) + 1] = n + 1 /\ \A i \in 1 .. Len(q) : r[i] = q[i] /\ q[i] \in 1 .. n
      /\ Len(q) \in Nat
  BY <1>1
<1> HIDE DEF r
<1>3. InOrder(r)
  <2> SUFFICES ASSUME NEW i \in DOMAIN r, NEW j \in DOMAIN r, i < j
               PROVE  r[i] < r[j]
    BY DEF InOrder
  <2>1. i \in 1 .. Len(q)
    BY <1>2
  <2>2. CASE j = Len(q) + 1
    BY <1>2, <2>1, <2>2
  <2>3. CASE j \in 1 .. Len(q)
    BY <1>2, <2>1, <2>3 DEF InOrder
  <2> QED
    BY <1>2, <2>2, <2>3
<1>4. ToSet(q) \subseteq ToSet(r)
  <2>1. \A i \in DOMAIN q : i \in DOMAIN r /\ r[i] = q[i]
    BY <1>2
  <2> QED
    BY <2>1 DEF ToSet
<1>5. \A j \in DOMAIN r : r[j] = n + 1 \/ (j \in DOMAIN q /\ r[j] = q[j])
  BY <1>2
<1> QED
  BY <1>2, <1>3, <1>4, <1>5 DEF r

\* Two sequences in order, the second one newer, make one sequence in order.
LEMMA ConcatFacts ==
    ASSUME NEW n \in Nat, NEW p \in Seq(1 .. n), NEW q \in Seq(1 .. n),
           InOrder(p), InOrder(q),
           \A i \in DOMAIN p, j \in DOMAIN q : p[i] < q[j]
    PROVE  LET r == p \o q
           IN  /\ r \in Seq(1 .. n) /\ InOrder(r)
               /\ ToSet(p) \subseteq ToSet(r) /\ ToSet(q) \subseteq ToSet(r)
<1> DEFINE r == p \o q
<1>1. /\ r \in Seq(1 .. n) /\ DOMAIN r = 1 .. (Len(p) + Len(q))
      /\ DOMAIN p = 1 .. Len(p) /\ DOMAIN q = 1 .. Len(q)
      /\ Len(p) \in Nat /\ Len(q) \in Nat
      /\ \A i \in 1 .. (Len(p) + Len(q)) : r[i] = IF i <= Len(p) THEN p[i] ELSE q[i - Len(p)]
  OBVIOUS
<1> HIDE DEF r
<1>2. InOrder(r)
  <2> SUFFICES ASSUME NEW i \in DOMAIN r, NEW j \in DOMAIN r, i < j
               PROVE  r[i] < r[j]
    BY DEF InOrder
  <2>1. CASE j <= Len(p)
    <3>1. i \in DOMAIN p /\ j \in DOMAIN p /\ r[i] = p[i] /\ r[j] = p[j]
      BY <1>1, <2>1
    <3> QED
      BY <3>1 DEF InOrder
  <2>2. CASE i <= Len(p) /\ j > Len(p)
    <3>1. i \in DOMAIN p /\ j - Len(p) \in DOMAIN q /\ r[i] = p[i] /\ r[j] = q[j - Len(p)]
      BY <1>1, <2>2
    <3> QED
      BY <3>1
  <2>3. CASE i > Len(p)
    <3>1. i \in Nat /\ j \in Nat /\ j > Len(p) /\ i <= Len(p) + Len(q) /\ j <= Len(p) + Len(q)
      BY <1>1, <2>3
    <3>2. i - Len(p) \in DOMAIN q /\ j - Len(p) \in DOMAIN q /\ i - Len(p) < j - Len(p)
      BY <1>1, <2>3, <3>1
    <3>3. i \in 1 .. (Len(p) + Len(q)) /\ ~(i <= Len(p)) /\ r[i] = q[i - Len(p)]
      BY <1>1, <2>3, <3>1
    <3>4. j \in 1 .. (Len(p) + Len(q)) /\ ~(j <= Len(p)) /\ r[j] = q[j - Len(p)]
      BY <1>1, <2>3, <3>1
    <3> QED
      BY <3>2, <3>3, <3>4 DEF InOrder
  <2> QED
    BY <1>1, <2>1, <2>2, <2>3
<1>3. ToSet(p) \subseteq ToSet(r)
  <2>1. \A i \in DOMAIN p : i \in DOMAIN r /\ r[i] = p[i]
    BY <1>1
  <2> QED
    BY <2>1 DEF ToSet
<1>4. ToSet(q) \subseteq ToSet(r)
  <2> SUFFICES ASSUME NEW i \in DOMAIN q PROVE q[i] \in ToSet(r)
    BY DEF ToSet
  <2>1. Len(p) + i \in 1 .. (Len(p) + Len(q)) /\ ~(Len(p) + i <= Len(p)) /\ (Len(p) + i) - Len(p) = i
    BY <1>1
  <2>2. Len(p) + i \in DOMAIN r /\ r[Len(p) + i] = q[i]
    BY <1>1, <2>1
  <2> QED
    BY <2>2 DEF ToSet
<1> QED
  BY <1>1, <1>2, <1>3, <1>4 DEF r

\* enqueueOutbound
LEMMA EnqueueInv ==
    ASSUME QueueInv, Enqueue
    PROVE  QueueInv'
<1> USE DEF QueueInv, QueueTypeOK
<1> DEFINE r == Append(queue, frames + 1)
<1>1. /\ frames < MaxFrames /\ frames' = frames + 1
      /\ UNCHANGED <<disk, load, writing, saved, unread, crashes>>
  BY DEF Enqueue
<1>2. PICK k \in 0 .. Len(r) :
        /\ queue' = SubSeq(r, k + 1, Len(r))
        /\ sent' = sent \cup ToSet(SubSeq(r, 1, k))
        /\ saves' = saves + 1 + k
  <2>1. r \in Seq(1 .. (frames + 1))
    BY AppendFacts DEF QueueInOrder, InOrder
  <2>2. 0 \in 0 .. Len(r)
    BY <2>1
  <2> QED
    BY <2>2 DEF Enqueue, Flush
<1>3. InOrder(queue)
  BY DEF QueueInOrder, InOrder
<1>4. /\ r \in Seq(1 .. frames') /\ InOrder(r) /\ ToSet(queue) \subseteq ToSet(r)
      /\ \A j \in DOMAIN r : r[j] = frames + 1 \/ (j \in DOMAIN queue /\ r[j] = queue[j])
  BY <1>1, <1>3, AppendFacts
<1>5. load' # "done" => \A i \in DOMAIN disk, j \in DOMAIN r : disk[i] < r[j]
  <2> SUFFICES ASSUME load # "done", NEW i \in DOMAIN disk, NEW j \in DOMAIN r
               PROVE  disk[i] < r[j]
    BY <1>1
  <2>1. disk[i] \in 1 .. frames
    OBVIOUS
  <2>2. CASE r[j] = frames + 1
    BY <2>1, <2>2
  <2>3. CASE j \in DOMAIN queue /\ r[j] = queue[j]
    BY <2>3 DEF NewerThanFile
  <2> QED
    BY <1>4, <2>2, <2>3
<1>6. frames' \in frames .. MaxFrames /\ saves' \in Nat
  <2>1. Len(r) \in Nat
    BY <1>4
  <2> QED
    BY <1>1, <1>2, <2>1, ClientAssumption
<1> HIDE DEF r
<1> QED
  BY <1>1, <1>2, <1>4, <1>5, <1>6, FlushInv

\* What is read from the file is older than what was enqueued meanwhile, so that
\* none of it is known and it goes in front.
LEMMA LoadEndInv ==
    ASSUME QueueInv, LoadEnd
    PROVE  QueueInv'
<1> USE DEF QueueInv, QueueTypeOK
<1>1. /\ load = "reading" /\ load' = "done"
      /\ UNCHANGED <<disk, writing, frames, saved, crashes>>
  BY DEF LoadEnd
<1>2. frames \in Nat /\ frames' \in frames .. MaxFrames
  BY <1>1, ClientAssumption
<1>3. InOrder(queue) /\ InOrder(disk)
  BY DEF QueueInOrder, FileInOrder, InOrder
<1>4. \A i \in DOMAIN disk, j \in DOMAIN queue : disk[i] < queue[j]
  BY <1>1 DEF NewerThanFile
<1>5. CASE Flush(Unknown(disk, ToSet(queue)) \o queue, 0) /\ UNCHANGED unread
  <2> DEFINE r == disk \o queue
  <2>1. ToSet(disk) \cap ToSet(queue) = {}
    <3>1. \A i \in DOMAIN disk, j \in DOMAIN queue : disk[i] # queue[j]
      BY <1>4
    <3> QED
      BY <3>1 DEF ToSet
  <2>2. Unknown(disk, ToSet(queue)) = disk
    BY <2>1 DEF Unknown
  <2>3. /\ r \in Seq(1 .. frames) /\ InOrder(r)
        /\ ToSet(disk) \subseteq ToSet(r) /\ ToSet(queue) \subseteq ToSet(r)
    BY <1>2, <1>3, <1>4, ConcatFacts
  <2>4. Len(r) \in Nat /\ 0 \in 0 .. Len(r)
    BY <2>3
  <2>5. PICK k \in 0 .. Len(r) :
          /\ queue' = SubSeq(r, k + 1, Len(r))
          /\ sent' = sent \cup ToSet(SubSeq(r, 1, k))
          /\ saves' = saves + 0 + k
    BY <1>5, <2>2, <2>4 DEF Flush
  <2>6. saves' \in Nat
    BY <2>4, <2>5
  <2> HIDE DEF r
  <2> QED
    BY <1>1, <1>2, <1>5, <2>3, <2>5, <2>6, FlushInv
<1>6. CASE Flush(queue, 0) /\ unread' = TRUE
  <2>1. Len(queue) \in Nat /\ 0 \in 0 .. Len(queue)
    OBVIOUS
  <2>2. PICK k \in 0 .. Len(queue) :
          /\ queue' = SubSeq(queue, k + 1, Len(queue))
          /\ sent' = sent \cup ToSet(SubSeq(queue, 1, k))
          /\ saves' = saves + 0 + k
    BY <1>6, <2>1 DEF Flush
  <2>3. saves' \in Nat
    BY <2>1, <2>2
  <2> QED
    BY <1>1, <1>2, <1>3, <1>6, <2>2, <2>3, FlushInv
<1> QED
  BY <1>5, <1>6 DEF LoadEnd

\* The flush of a socket that opens.
LEMMA OpensQueueInv ==
    ASSUME QueueInv, NEW s \in Sockets, Opens(s)
    PROVE  QueueInv'
<1> USE DEF QueueInv, QueueTypeOK
<1>1. UNCHANGED <<disk, load, writing, frames, saved, unread, crashes>>
  BY DEF Opens
<1>2. frames \in Nat /\ frames' \in frames .. MaxFrames
  BY <1>1, ClientAssumption
<1>3. InOrder(queue)
  BY DEF QueueInOrder, InOrder
<1>4. CASE s = socket
  <2>1. PICK k \in 0 .. Len(queue) :
          /\ queue' = SubSeq(queue, k + 1, Len(queue))
          /\ sent' = sent \cup ToSet(SubSeq(queue, 1, k))
          /\ saves' = saves + k
    BY <1>4 DEF Opens
  <2>2. saves' \in Nat
    BY <2>1
  <2>3. load' # "done" => \A i \in DOMAIN disk, j \in DOMAIN queue : disk[i] < queue[j]
    BY <1>1 DEF NewerThanFile
  <2> QED
    BY <1>1, <1>2, <1>3, <2>1, <2>2, <2>3, FlushInv
<1>5. CASE s # socket
  <2>1. UNCHANGED <<queue, sent, saves>>
    BY <1>5 DEF Opens
  <2> QED
    BY <1>1, <2>1 DEF QueueInOrder, FileInOrder, InOrder, NewerThanFile, SavedEverywhere
<1> QED
  BY <1>4, <1>5

\* Saves write the queue, and only one that holds what the file does.
LEMMA SaveInv ==
    ASSUME QueueInv, LoadBegin \/ SaveBegin \/ SaveEnd
    PROVE  QueueInv'
<1> USE DEF QueueInv, QueueTypeOK
<1>1. CASE LoadBegin
  BY <1>1 DEF LoadBegin, QueueInOrder, FileInOrder, InOrder, NewerThanFile, SavedEverywhere
<1>2. CASE SaveBegin
  <2>1. /\ saves > 0 /\ load = "done" /\ saves' = saves - 1 /\ writing' = queue
        /\ UNCHANGED <<queue, disk, load, frames, sent, saved, unread, crashes>>
    BY <1>2 DEF SaveBegin
  <2>2. QueueTypeOK'
    BY <2>1
  <2> QED
    BY <2>1, <2>2 DEF QueueInOrder, FileInOrder, InOrder, NewerThanFile, SavedEverywhere
<1>3. CASE SaveEnd
  <2>1. /\ writing # None /\ writing' = None
        /\ UNCHANGED <<queue, load, saves, frames, sent, unread, crashes>>
        /\ \/ disk' = writing /\ saved' = saved \cup ToSet(writing)
           \/ UNCHANGED <<disk, saved>>
    BY <1>3 DEF SaveEnd
  <2>2. writing \in Seq(1 .. frames) /\ load = "done" /\ InOrder(writing)
        /\ ToSet(writing) \subseteq sent \cup ToSet(queue)
    BY <2>1 DEF FileInOrder
  <2>3. ToSet(writing) \subseteq 1 .. frames
    BY <2>2 DEF ToSet
  <2>4. QueueTypeOK'
    BY <2>1, <2>2, <2>3
  <2>5. QueueInOrder' /\ FileInOrder' /\ NewerThanFile'
    BY <2>1, <2>2 DEF QueueInOrder, FileInOrder, InOrder, NewerThanFile
  <2>6. SavedEverywhere'
    BY <2>1, <2>2 DEF SavedEverywhere
  <2> QED
    BY <2>4, <2>5, <2>6
<1> QED
  BY <1>1, <1>2, <1>3

\* A crash leaves the file and an empty queue.
LEMMA QueueCrashInv ==
    ASSUME QueueInv, Crash
    PROVE  QueueInv'
<1> USE DEF QueueInv, QueueTypeOK
<1>1. /\ crashes < MaxCrashes /\ crashes' = crashes + 1
      /\ queue' = <<>> /\ load' = "no" /\ saves' = 0 /\ writing' = None
      /\ UNCHANGED <<disk, frames, sent, saved, unread>>
  BY DEF Crash
<1>2. QueueTypeOK'
  BY <1>1, ClientAssumption
<1>3. QueueInOrder' /\ FileInOrder' /\ NewerThanFile'
  BY <1>1 DEF QueueInOrder, FileInOrder, InOrder, NewerThanFile
<1>4. SavedEverywhere'
  BY <1>1 DEF SavedEverywhere
<1> QED
  BY <1>2, <1>3, <1>4

\* Every step of the runtime keeps the invariant of the queue.
LEMMA QueueInvStep == QueueInv /\ [ClientStep]_clientVars => QueueInv'
<1> SUFFICES ASSUME QueueInv, [ClientStep]_clientVars PROVE QueueInv'
  OBVIOUS
<1>1. CASE UNCHANGED queueVars
  BY <1>1 DEF queueVars, QueueInv, QueueTypeOK, QueueInOrder, FileInOrder, InOrder,
              NewerThanFile, SavedEverywhere
<1>2. CASE Enqueue
  BY <1>2, EnqueueInv
<1>3. CASE LoadEnd
  BY <1>3, LoadEndInv
<1>4. CASE LoadBegin \/ SaveBegin \/ SaveEnd
  BY <1>4, SaveInv
<1>5. ASSUME NEW s \in Sockets, Opens(s)
      PROVE  QueueInv'
  BY <1>5, OpensQueueInv
<1>6. CASE Crash
  BY <1>6, QueueCrashInv
<1>7. ASSUME NEW s \in Sockets, PeerCloses(s) \/ Closes(s)
      PROVE  UNCHANGED queueVars
  BY <1>7 DEF PeerCloses, Closes
<1>8. CASE Connect \/ Disconnect \/ Dial \/ ReconnectTimer \/ Errors \/ UpgradeRejected
           \/ HookReturns \/ ConnectTimeout \/ Heartbeat \/ HeartbeatAck \/ HeartbeatAckTimeout
  <2>1. UNCHANGED queueVars
    BY <1>8 DEF Connect, Disconnect, Dial, ReconnectTimer, Errors, UpgradeRejected,
                HookReturns, ConnectTimeout, Heartbeat, HeartbeatAck, HeartbeatAckTimeout
  <2> QED
    BY <1>1, <2>1
<1>9. CASE UNCHANGED clientVars
  BY <1>1, <1>9 DEF clientVars
<1> QED
  BY <1>1, <1>2, <1>3, <1>4, <1>5, <1>6, <1>7, <1>8, <1>9 DEF ClientStep, ClientNext

-----------------------------------------------------------------------------
(* The inbox: its invariant *)

\* What a step of the runtime does to the inbox.
InboxStep == InboxNext \/ (\E m \in Messages : Arrive(m)) \/ Stop \/ Restart

LaneWork ==
    [todo : Seq(Messages),
     pc : {"post", "mark", "retryable", "rejected",
           "delivered_to_webhook", "dead_lettered", "flush"},
     tries : 1 .. MaxTries]

TablesOK ==
    /\ pending \in [Messages -> 0 .. DeadAfter \cup {Nobody}]
    /\ dead \in [Messages -> 0 .. DeadAfter \cup {Nobody}]
    /\ due \subseteq {m \in Messages : pending[m] # Nobody}
    /\ state \in {"up", "stopping", "closed"}
    /\ UNION {acked, delivered, wasDead, purged} \subseteq Messages
    /\ inputs \in 0 .. MaxInputs /\ restarts \in 0 .. MaxRestarts

WorkOK ==
    /\ laneOf \in [Messages -> Lanes]
    /\ current \in Passes \cup {Nobody}
    /\ work \in [Passes -> [Lanes -> LaneWork]]

OutboxOK ==
    /\ outbox \subseteq Receipts /\ queued \subseteq Receipts /\ receipted \subseteq Receipts
    /\ flush \in {Nobody} \cup [by : Owners, todo : SUBSET Receipts, kept : SUBSET Receipts]

\* groupDueItemsByLane: a lane has only messages of its conversation.
LanesSorted ==
    \A p \in Passes, l \in Lanes : \A m \in ToSet(work[p][l].todo) : laneOf[m] = l

\* While no transaction failed, only the pass that is in flight has lanes at work.
OthersIdle == ~failed => \A p \in Passes : p # current => LanesIdle(p)

\* What a lane is about to record of its first item did happen.
LanesTruthful ==
    \A p \in Passes, l \in Lanes :
        work[p][l].todo # <<>> =>
            /\ work[p][l].pc \in {"mark", "delivered_to_webhook"} => Item(p, l) \in delivered
            /\ work[p][l].pc = "dead_lettered" => Item(p, l) \in wasDead

\* A flush holds everything that the file has and the proxy may not have.
FlushHolds ==
    flush # Nobody =>
        /\ outbox \subseteq UNION {flush.todo, flush.kept, receipted}
        /\ flush.todo \cup flush.kept \subseteq outbox

StoreInv == TablesOK /\ AckedKept
LaneInv == WorkOK /\ LanesSorted /\ OthersIdle /\ LanesTruthful /\ NothingStuck
ReceiptInv == OutboxOK /\ FlushHolds /\ ReceiptsMatch
InboxInv == StoreInv /\ LaneInv /\ ReceiptInv

\* The inbox starts in its invariant.
LEMMA InboxInvInit == InboxInit => InboxInv
<1> SUFFICES ASSUME InboxInit PROVE InboxInv
  OBVIOUS
<1> USE DEF InboxInit
<1>1. StoreInv
  BY InboxAssumption DEF StoreInv, TablesOK, AckedKept, PendingMessages, DeadLetters
<1>2. Idle \in LaneWork /\ Idle.todo = <<>>
  BY InboxAssumption DEF Idle, LaneWork
<1>3. WorkOK
  BY <1>2 DEF WorkOK
<1>4. \A p \in Passes, l \in Lanes : work[p][l].todo = <<>>
  BY <1>2
<1>5. LaneInv
  BY <1>3, <1>4 DEF LaneInv, LanesSorted, OthersIdle, LanesIdle, LanesTruthful, NothingStuck, ToSet
<1>6. ReceiptInv
  BY DEF ReceiptInv, OutboxOK, FlushHolds, ReceiptsMatch, ReceiptsKept, ReceiptsTrue
<1> QED
  BY <1>1, <1>5, <1>6 DEF InboxInv

\* OneLanePerMessage follows: two lanes of one pass have different conversations,
\* and of two passes one is idle.
LEMMA LanesApart == LaneInv => OneLanePerMessage
<1> SUFFICES ASSUME LaneInv, ~failed,
                    NEW p \in Passes, NEW q \in Passes, NEW k \in Lanes, NEW l \in Lanes,
                    <<p, k>> # <<q, l>>
             PROVE  ToSet(work[p][k].todo) \cap ToSet(work[q][l].todo) = {}
  BY DEF OneLanePerMessage
<1> USE DEF LaneInv
<1>1. CASE k # l
  BY <1>1 DEF LanesSorted
<1>2. CASE p # q
  <2>1. work[p][k].todo = <<>> \/ work[q][l].todo = <<>>
    BY <1>2 DEF OthersIdle, LanesIdle
  <2>2. ToSet(<<>>) = {}
    BY DEF ToSet
  <2> QED
    BY <2>1, <2>2
<1> QED
  BY <1>1, <1>2

-----------------------------------------------------------------------------
(* The inbox: its lanes *)

\* The lane goes on with some of its messages, saying only what is so.
LEMMA LaneMoves ==
    ASSUME LaneInv, NEW p \in Passes, NEW l \in Lanes, NEW w \in LaneWork,
           LaneGoes(p, l, w),
           work[p][l].todo # <<>>, ToSet(w.todo) \subseteq ToSet(work[p][l].todo),
           delivered \subseteq delivered', wasDead \subseteq wasDead',
           UNCHANGED <<laneOf, failed>>,
           w.todo # <<>> =>
              /\ w.pc \in {"mark", "delivered_to_webhook"} => Head(w.todo) \in delivered'
              /\ w.pc = "dead_lettered" => Head(w.todo) \in wasDead',
           flush' # Nobody /\ flush'.by # Nobody =>
              flush' = flush /\ flush.by \in Passes \X Lanes /\ flush.by # <<p, l>>
    PROVE  LaneInv'
<1> USE DEF LaneInv, WorkOK
<1>1. /\ work' = [work EXCEPT ![p][l] = w]
      /\ current' = IF p = current /\ \A k \in Lanes : work'[p][k].todo = <<>>
                    THEN Nobody ELSE current
  BY DEF LaneGoes
<1>2. \A q \in Passes, k \in Lanes :
        work'[q][k] = IF q = p /\ k = l THEN w ELSE work[q][k]
  BY <1>1
<1>3. WorkOK'
  BY <1>1
<1>4. LanesSorted'
  BY <1>2 DEF LanesSorted
<1>5. OthersIdle'
  <2> SUFFICES ASSUME ~failed, NEW q \in Passes, q # current', NEW k \in Lanes
               PROVE  work'[q][k].todo = <<>>
    BY DEF OthersIdle, LanesIdle
  <2>1. p = current
    BY DEF OthersIdle, LanesIdle
  <2>2. CASE q = p
    BY <1>1, <2>1, <2>2
  <2>3. CASE q # p
    BY <1>2, <2>1, <2>3 DEF OthersIdle, LanesIdle
  <2> QED
    BY <2>2, <2>3
<1>6. LanesTruthful'
  BY <1>2 DEF LanesTruthful, Item
<1>7. NothingStuck'
  <2>1. current' # Nobody => ~LanesIdle(current)'
    <3> SUFFICES ASSUME current' # Nobody PROVE ~LanesIdle(current)'
      OBVIOUS
    <3>1. current' = current
      BY <1>1
    <3>2. CASE p = current
      BY <1>1, <3>1, <3>2 DEF LanesIdle
    <3>3. CASE p # current
      BY <1>2, <3>1, <3>3 DEF NothingStuck, LanesIdle
    <3> QED
      BY <3>2, <3>3
  <2>2. flush' # Nobody /\ flush'.by # Nobody => Busy(flush.by[1], flush.by[2], "flush")'
    <3> SUFFICES ASSUME flush' # Nobody, flush'.by # Nobody
                 PROVE  Busy(flush.by[1], flush.by[2], "flush")'
      OBVIOUS
    <3>1. flush' = flush /\ flush.by \in Passes \X Lanes /\ flush.by # <<p, l>>
      OBVIOUS
    <3>2. Busy(flush.by[1], flush.by[2], "flush")
      BY <3>1 DEF NothingStuck
    <3>3. work'[flush.by[1]][flush.by[2]] = work[flush.by[1]][flush.by[2]]
      BY <1>2, <3>1
    <3> QED
      BY <3>1, <3>2, <3>3 DEF Busy
  <2> QED
    BY <2>1, <2>2 DEF NothingStuck
<1> QED
  BY <1>3, <1>4, <1>5, <1>6, <1>7

\* The lock of the outbox is not held by a lane that does something else.
LEMMA FlushElsewhere ==
    ASSUME InboxInv, NEW p \in Passes, NEW l \in Lanes, work[p][l].pc # "flush",
           UNCHANGED flush, flush' # Nobody, flush'.by # Nobody
    PROVE  flush' = flush /\ flush.by \in Passes \X Lanes /\ flush.by # <<p, l>>
<1>1. flush.by \in Passes \X Lanes
  BY DEF InboxInv, ReceiptInv, OutboxOK, Owners
<1>2. Busy(flush.by[1], flush.by[2], "flush")
  BY DEF InboxInv, LaneInv, NothingStuck
<1> QED
  BY <1>1, <1>2 DEF Busy

\* A lane that comes to another point with the same message.
LEMMA LaneAtInv ==
    ASSUME InboxInv, NEW p \in Passes, NEW l \in Lanes,
           NEW pc \in {"mark", "retryable", "rejected",
                       "delivered_to_webhook", "dead_lettered", "flush"},
           LaneAt(p, l, pc), work[p][l].todo # <<>>, work[p][l].pc # "flush",
           delivered \subseteq delivered', wasDead \subseteq wasDead',
           pc \in {"mark", "delivered_to_webhook"} => Item(p, l) \in delivered',
           pc = "dead_lettered" => Item(p, l) \in wasDead',
           UNCHANGED <<laneOf, failed, flush>>
    PROVE  LaneInv'
<1> DEFINE w == [work[p][l] EXCEPT !.pc = pc]
<1>1. work[p][l] \in LaneWork
  BY DEF InboxInv, LaneInv, WorkOK
<1>2. w \in LaneWork /\ w.todo = work[p][l].todo /\ w.pc = pc
  BY <1>1 DEF LaneWork
<1>3. LaneGoes(p, l, w)
  BY DEF LaneAt
<1>4. LaneInv
  BY DEF InboxInv
<1> HIDE DEF w
<1> QED
  BY <1>2, <1>3, <1>4, FlushElsewhere, LaneMoves DEF Item

\* The messages of a sequence's tail are messages of the sequence.
LEMMA TailFacts ==
    ASSUME NEW S, NEW q \in Seq(S), q # <<>>
    PROVE  Tail(q) \in Seq(S) /\ ToSet(Tail(q)) \subseteq ToSet(q) /\ Head(q) \in ToSet(q)
<1>1. /\ Tail(q) \in Seq(S) /\ DOMAIN Tail(q) = 1 .. (Len(q) - 1)
      /\ \A i \in 1 .. (Len(q) - 1) : Tail(q)[i] = q[i + 1]
      /\ Len(q) \in Nat \ {0} /\ DOMAIN q = 1 .. Len(q) /\ Head(q) = q[1]
  OBVIOUS
<1>2. \A i \in DOMAIN Tail(q) : i + 1 \in DOMAIN q /\ Tail(q)[i] = q[i + 1]
  BY <1>1
<1>3. ToSet(Tail(q)) \subseteq ToSet(q)
  BY <1>2 DEF ToSet
<1>4. 1 \in DOMAIN q
  BY <1>1
<1> QED
  BY <1>1, <1>3, <1>4 DEF ToSet

\* A lane that begins with some messages is well formed.
LEMMA FreshLane ==
    ASSUME NEW t \in Seq(Messages)
    PROVE  LET w == [Idle EXCEPT !.todo = t]
           IN  w \in LaneWork /\ w.todo = t /\ w.pc = "post"
<1>1. 1 \in 1 .. MaxTries
  BY InboxAssumption
<1>2. [Idle EXCEPT !.todo = t] = [todo |-> t, pc |-> "post", tries |-> 1]
  BY DEF Idle
<1> QED
  BY <1>1, <1>2 DEF LaneWork

\* A lane that takes its next message.
LEMMA NextItemInv ==
    ASSUME InboxInv, NEW p \in Passes, NEW l \in Lanes,
           NextItem(p, l), work[p][l].todo # <<>>,
           delivered \subseteq delivered', wasDead \subseteq wasDead',
           UNCHANGED <<laneOf, failed>>,
           flush' # Nobody /\ flush'.by # Nobody =>
              flush' = flush /\ flush.by \in Passes \X Lanes /\ flush.by # <<p, l>>
    PROVE  LaneInv'
<1> DEFINE q == work[p][l].todo
           w == [Idle EXCEPT !.todo = Tail(q)]
<1>1. work[p][l] \in LaneWork /\ q \in Seq(Messages)
  BY DEF InboxInv, LaneInv, WorkOK, LaneWork
<1>2. Tail(q) \in Seq(Messages) /\ ToSet(Tail(q)) \subseteq ToSet(q)
  BY <1>1, TailFacts
<1>3. w \in LaneWork /\ w.todo = Tail(q) /\ w.pc = "post"
  BY <1>2, FreshLane
<1>4. LaneGoes(p, l, w)
  BY DEF NextItem
<1>5. LaneInv
  BY DEF InboxInv
<1> HIDE DEF w
<1> QED
  BY <1>2, <1>3, <1>4, <1>5, LaneMoves

\* Each attempt to post a message keeps the invariant of the lanes.
LEMMA PostLaneInv ==
    ASSUME InboxInv, NEW p \in Passes, NEW l \in Lanes, Post(p, l)
    PROVE  LaneInv'
<1>1. /\ work[p][l].todo # <<>> /\ work[p][l].pc = "post"
      /\ UNCHANGED <<laneOf, failed, flush, wasDead>>
  BY DEF Post, Busy, receipts
<1>2. delivered \subseteq delivered'
  BY DEF Post
<1>3. CASE delivered' = delivered \cup {Item(p, l)} /\ LaneAt(p, l, "mark")
  BY <1>1, <1>2, <1>3, LaneAtInv
<1>4. CASE LaneAt(p, l, "retryable") \/ LaneAt(p, l, "rejected")
  BY <1>1, <1>2, <1>4, LaneAtInv
<1>5. CASE work[p][l].tries < MaxTries /\ LaneGoes(p, l, [work[p][l] EXCEPT !.tries = @ + 1])
  <2> DEFINE w == [work[p][l] EXCEPT !.tries = @ + 1]
  <2>1. work[p][l] \in LaneWork
    BY DEF InboxInv, LaneInv, WorkOK
  <2>2. work[p][l].tries + 1 \in 1 .. MaxTries
    BY <1>5, <2>1, InboxAssumption DEF LaneWork
  <2>3. w \in LaneWork /\ w.todo = work[p][l].todo /\ w.pc = "post"
    BY <1>1, <2>1, <2>2 DEF LaneWork
  <2>4. LaneGoes(p, l, w)
    BY <1>5
  <2>5. LaneInv
    BY DEF InboxInv
  <2> HIDE DEF w
  <2> QED
    BY <1>1, <1>2, <2>3, <2>4, <2>5, FlushElsewhere, LaneMoves
<1>6. CASE LaneGoes(p, l, Idle)
  <2>1. Idle \in LaneWork /\ Idle.todo = <<>> /\ ToSet(Idle.todo) = {}
    BY InboxAssumption DEF Idle, LaneWork, ToSet
  <2>2. LaneInv
    BY DEF InboxInv
  <2> QED
    BY <1>1, <1>2, <1>6, <2>1, <2>2, FlushElsewhere, LaneMoves
<1> QED
  BY <1>3, <1>4, <1>5, <1>6 DEF Post

\* So does recording what came of it.
LEMMA MarkLaneInv ==
    ASSUME InboxInv, NEW p \in Passes, NEW l \in Lanes,
           MarkDelivered(p, l) \/ MarkReplayFailure(p, l)
    PROVE  LaneInv'
<1>1. CASE MarkDelivered(p, l)
  <2>1. /\ work[p][l].todo # <<>> /\ work[p][l].pc = "mark"
        /\ UNCHANGED <<laneOf, failed, flush, wasDead, delivered>>
    BY <1>1 DEF MarkDelivered, Busy, receipts, histories
  <2>2. Item(p, l) \in delivered
    BY <2>1 DEF InboxInv, LaneInv, LanesTruthful
  <2>3. LaneAt(p, l, "delivered_to_webhook") \/ LaneAt(p, l, "retryable")
    BY <1>1 DEF MarkDelivered
  <2> QED
    BY <2>1, <2>2, <2>3, LaneAtInv
<1>2. CASE MarkReplayFailure(p, l)
  <2>1. /\ work[p][l].todo # <<>> /\ work[p][l].pc \in {"retryable", "rejected"}
        /\ UNCHANGED <<laneOf, failed, flush, delivered>>
    BY <1>2 DEF MarkReplayFailure, Busy, receipts
  <2>2. \/ NextItem(p, l) /\ UNCHANGED wasDead
        \/ LaneAt(p, l, "dead_lettered") /\ wasDead' = wasDead \cup {Item(p, l)}
    BY <1>2 DEF MarkReplayFailure
  <2>3. CASE NextItem(p, l) /\ UNCHANGED wasDead
    BY <2>1, <2>3, FlushElsewhere, NextItemInv
  <2>4. CASE LaneAt(p, l, "dead_lettered") /\ wasDead' = wasDead \cup {Item(p, l)}
    BY <2>1, <2>4, LaneAtInv
  <2> QED
    BY <2>2, <2>3, <2>4
<1> QED
  BY <1>1, <1>2

\* A failed transaction ends its lane and the pass in flight; another pass may have
\* lanes that go on.
LEMMA ReplayFailsLaneInv ==
    ASSUME InboxInv, NEW p \in Passes, NEW l \in Lanes, ReplayFails(p, l)
    PROVE  LaneInv'
<1> USE DEF InboxInv, LaneInv, WorkOK
<1>1. /\ work' = [work EXCEPT ![p][l] = Idle]
      /\ current' = IF p = current THEN Nobody ELSE current
      /\ failed' = TRUE /\ UNCHANGED <<laneOf, flush, delivered, wasDead>>
      /\ work[p][l].pc # "flush"
  BY DEF ReplayFails, receipts, Busy
<1>2. Idle \in LaneWork /\ Idle.todo = <<>> /\ ToSet(Idle.todo) = {}
  BY InboxAssumption DEF Idle, LaneWork, ToSet
<1>3. \A q \in Passes, k \in Lanes :
        work'[q][k] = IF q = p /\ k = l THEN Idle ELSE work[q][k]
  BY <1>1
<1>4. WorkOK' /\ OthersIdle'
  BY <1>1, <1>2 DEF OthersIdle
<1>5. LanesSorted' /\ LanesTruthful'
  BY <1>1, <1>2, <1>3 DEF LanesSorted, LanesTruthful, Item
<1>6. current' # Nobody => ~LanesIdle(current)'
  BY <1>1, <1>3 DEF NothingStuck, LanesIdle
<1>7. flush' # Nobody /\ flush'.by # Nobody => Busy(flush.by[1], flush.by[2], "flush")'
  <2> SUFFICES ASSUME flush' # Nobody, flush'.by # Nobody
               PROVE  Busy(flush.by[1], flush.by[2], "flush")'
    OBVIOUS
  <2>1. flush' = flush /\ flush.by \in Passes \X Lanes /\ flush.by # <<p, l>>
    BY <1>1, FlushElsewhere
  <2>2. Busy(flush.by[1], flush.by[2], "flush")
    BY <1>1 DEF NothingStuck
  <2>3. work'[flush.by[1]][flush.by[2]] = work[flush.by[1]][flush.by[2]]
    BY <1>3, <2>1
  <2> QED
    BY <2>1, <2>2, <2>3 DEF Busy
<1> QED
  BY <1>4, <1>5, <1>6, <1>7 DEF NothingStuck

\* A receipt that is stored, or a flush that begins, leaves the lane where it is or
\* lets it go on.
LEMMA ReceiptLaneInv ==
    ASSUME InboxInv, NEW p \in Passes, NEW l \in Lanes,
           EnqueueReceipt(p, l) \/ LaneFlushBegin(p, l)
    PROVE  LaneInv'
<1>1. CASE EnqueueReceipt(p, l)
  <2>1. /\ work[p][l].todo # <<>> /\ work[p][l].pc # "flush"
        /\ UNCHANGED <<laneOf, failed, flush, wasDead, delivered>>
    BY <1>1 DEF EnqueueReceipt, Busy
  <2>2. LaneAt(p, l, "flush") \/ NextItem(p, l)
    BY <1>1 DEF EnqueueReceipt
  <2>3. CASE LaneAt(p, l, "flush")
    BY <2>1, <2>3, LaneAtInv
  <2>4. CASE NextItem(p, l)
    BY <2>1, <2>4, FlushElsewhere, NextItemInv
  <2> QED
    BY <2>2, <2>3, <2>4
<1>2. CASE LaneFlushBegin(p, l)
  <2>1. /\ work[p][l].todo # <<>> /\ work[p][l].pc = "flush" /\ flush = Nobody
        /\ UNCHANGED <<laneOf, failed, wasDead, delivered>>
    BY <1>2 DEF LaneFlushBegin, Busy, histories
  <2>2. CASE NextItem(p, l) /\ UNCHANGED flush
    BY <2>1, <2>2, NextItemInv
  <2>3. CASE /\ flush' = [by |-> <<p, l>>, todo |-> outbox, kept |-> {}]
             /\ UNCHANGED <<work, current>>
    <3>1. flush'.by[1] = p /\ flush'.by[2] = l
      BY <2>3
    <3>2. NothingStuck'
      BY <2>1, <2>3, <3>1 DEF InboxInv, LaneInv, NothingStuck, LanesIdle, Busy
    <3> QED
      BY <2>1, <2>3, <3>2
         DEF InboxInv, LaneInv, WorkOK, LanesSorted, OthersIdle, LanesIdle, LanesTruthful, Item
  <2> QED
    BY <1>2, <2>2, <2>3 DEF LaneFlushBegin
<1> QED
  BY <1>1, <1>2

\* The end of a flush lets the lane that holds the lock go on.
LEMMA FlushEndLaneInv ==
    ASSUME InboxInv, FlushEnd
    PROVE  LaneInv'
<1>1. flush # Nobody /\ flush' = Nobody /\ UNCHANGED <<laneOf, failed, wasDead, delivered>>
  BY DEF FlushEnd, histories
<1>2. CASE flush.by = Nobody
  <2>1. UNCHANGED <<work, current>>
    BY <1>2 DEF FlushEnd
  <2> QED
    BY <1>1, <2>1
       DEF InboxInv, LaneInv, WorkOK, LanesSorted, OthersIdle, LanesIdle, LanesTruthful, Item,
           NothingStuck
<1>3. CASE flush.by # Nobody
  <2>1. flush.by[1] \in Passes /\ flush.by[2] \in Lanes
    BY <1>1, <1>3 DEF InboxInv, ReceiptInv, OutboxOK, Owners
  <2>2. work[flush.by[1]][flush.by[2]].todo # <<>>
    BY <1>1, <1>3 DEF InboxInv, LaneInv, NothingStuck, Busy
  <2>3. NextItem(flush.by[1], flush.by[2])
    BY <1>3 DEF FlushEnd
  <2> QED
    BY <1>1, <2>1, <2>2, <2>3, NextItemInv
<1> QED
  BY <1>2, <1>3

\* A pass begins with at least one message, each in the lane of its conversation.
LEMMA StartLanesFacts ==
    ASSUME InboxInv, NEW p \in Passes, due # {}, StartLanes(p)
    PROVE  /\ work' \in [Passes -> [Lanes -> LaneWork]]
           /\ \A q \in Passes, l \in Lanes : q # p => work'[q][l] = work[q][l]
           /\ \A l \in Lanes : /\ work'[p][l].pc = "post"
                               /\ \A m \in ToSet(work'[p][l].todo) : laneOf[m] = l
           /\ \E l \in Lanes : work'[p][l].todo # <<>>
<1> USE DEF InboxInv, StoreInv, TablesOK, LaneInv, WorkOK
<1>1. PICK B \in kSubset(Batch, due) :
         \E order \in [Lanes -> SetToAllKPermutations(B)] :
            /\ \A l \in Lanes : order[l] \in SetToSeqs({m \in B : laneOf[m] = l})
            /\ work' = [work EXCEPT ![p] = [l \in Lanes |-> [Idle EXCEPT !.todo = order[l]]]]
  BY DEF StartLanes
<1>2. PICK order \in [Lanes -> SetToAllKPermutations(B)] :
         /\ \A l \in Lanes : order[l] \in SetToSeqs({m \in B : laneOf[m] = l})
         /\ work' = [work EXCEPT ![p] = [l \in Lanes |-> [Idle EXCEPT !.todo = order[l]]]]
  BY <1>1
<1> DEFINE S(l) == {m \in B : laneOf[m] = l}
<1>3. B \subseteq due /\ B \subseteq Messages /\ Cardinality(B) = Batch
  BY DEF kSubset
<1>4. IsFiniteSet(due) /\ IsFiniteSet(B) /\ \A l \in Lanes : IsFiniteSet(S(l))
  <2>1. due \subseteq Messages /\ \A l \in Lanes : S(l) \subseteq Messages
    BY <1>3
  <2> QED
    BY <1>3, <2>1, FS_Subset, InboxAssumption
<1>5. B # {}
  <2>1. Cardinality(due) \in Nat /\ Cardinality(due) # 0
    BY <1>4, FS_CardinalityType, FS_EmptySet
  <2>2. {BatchSize, Cardinality(due)} \in SUBSET Nat /\ {BatchSize, Cardinality(due)} # {}
    BY <2>1, InboxAssumption
  <2>3. Batch \in {BatchSize, Cardinality(due)}
    BY <2>2, MinOfNaturals DEF Batch
  <2>4. Batch # 0
    BY <2>1, <2>3, InboxAssumption
  <2> QED
    BY <1>3, <2>4, FS_EmptySet
<1>6. ASSUME NEW l \in Lanes
      PROVE  /\ order[l] \in Seq(Messages) /\ ToSet(order[l]) \subseteq S(l)
             /\ S(l) # {} => order[l] # <<>>
  <2> DEFINE n == Cardinality(S(l))
  <2>1. n \in Nat /\ (S(l) # {} => n # 0)
    BY <1>4, FS_CardinalityType, FS_EmptySet
  <2>2. order[l] \in [1 .. n -> S(l)]
    BY <1>2 DEF SetToSeqs
  <2>3. S(l) \subseteq Messages
    BY <1>3
  <2> HIDE DEF n, S
  <2>4. order[l] \in Seq(S(l)) /\ Len(order[l]) = n
    BY <2>1, <2>2
  <2>5. order[l] \in Seq(Messages)
    BY <2>3, <2>4, SeqGrows
  <2>6. ToSet(order[l]) \subseteq S(l)
    BY <2>2 DEF ToSet
  <2> QED
    BY <2>1, <2>4, <2>5, <2>6
<1>7. \A l \in Lanes : work'[p][l] = [Idle EXCEPT !.todo = order[l]]
  BY <1>2
<1>8. \A l \in Lanes : work'[p][l] \in LaneWork /\ work'[p][l].pc = "post"
                      /\ work'[p][l].todo = order[l]
  <2> TAKE l \in Lanes
  <2>1. order[l] \in Seq(Messages)
    BY <1>6
  <2>2. work'[p][l] = [Idle EXCEPT !.todo = order[l]]
    BY <1>7
  <2> QED
    BY <2>1, <2>2, FreshLane
<1>9. work' \in [Passes -> [Lanes -> LaneWork]]
  <2>1. [l \in Lanes |-> [Idle EXCEPT !.todo = order[l]]] \in [Lanes -> LaneWork]
    BY <1>7, <1>8
  <2> QED
    BY <1>2, <2>1
<1>10. \A q \in Passes, l \in Lanes : q # p => work'[q][l] = work[q][l]
  BY <1>2
<1>11. \A l \in Lanes : \A m \in ToSet(work'[p][l].todo) : laneOf[m] = l
  BY <1>6, <1>8
<1>12. \E l \in Lanes : work'[p][l].todo # <<>>
  <2>1. PICK m \in B : TRUE
    BY <1>5
  <2>2. laneOf[m] \in Lanes /\ m \in S(laneOf[m])
    BY <1>3
  <2> HIDE DEF S
  <2>3. order[laneOf[m]] # <<>>
    BY <1>6, <2>2
  <2> QED
    BY <1>8, <2>2, <2>3
<1> QED
  BY <1>8, <1>9, <1>10, <1>11, <1>12

\* A pass begins only when none is in flight, and not in the place of one whose
\* lanes are still at work.
LEMMA ReplayBeginLaneInv ==
    ASSUME InboxInv, ReplayBegin
    PROVE  LaneInv'
<1> USE DEF InboxInv, LaneInv, WorkOK
<1>1. /\ current = Nobody /\ due # {} /\ UNCHANGED <<laneOf, failed, flush, delivered, wasDead>>
  BY DEF ReplayBegin, receipts, histories
<1>2. PICK p \in Passes : LanesIdle(p) /\ current' = p /\ StartLanes(p)
  BY DEF ReplayBegin
<1>3. /\ work' \in [Passes -> [Lanes -> LaneWork]]
      /\ \A q \in Passes, l \in Lanes : q # p => work'[q][l] = work[q][l]
      /\ \A l \in Lanes : /\ work'[p][l].pc = "post"
                          /\ \A m \in ToSet(work'[p][l].todo) : laneOf[m] = l
      /\ \E l \in Lanes : work'[p][l].todo # <<>>
  BY <1>1, <1>2, StartLanesFacts
<1>4. WorkOK'
  BY <1>1, <1>2, <1>3
<1>5. LanesSorted'
  <2> SUFFICES ASSUME NEW q \in Passes, NEW l \in Lanes, NEW m \in ToSet(work'[q][l].todo)
               PROVE  laneOf[m] = l
    BY <1>1 DEF LanesSorted
  <2>1. CASE q = p
    BY <1>3, <2>1
  <2>2. CASE q # p
    BY <1>3, <2>2 DEF LanesSorted
  <2> QED
    BY <2>1, <2>2
<1>6. OthersIdle'
  <2> SUFFICES ASSUME ~failed, NEW q \in Passes, q # p, NEW l \in Lanes
               PROVE  work'[q][l].todo = <<>>
    BY <1>1, <1>2 DEF OthersIdle, LanesIdle
  <2>1. q # current
    BY <1>1, InboxAssumption
  <2> QED
    BY <1>3, <2>1 DEF OthersIdle, LanesIdle
<1>7. LanesTruthful'
  <2> SUFFICES ASSUME NEW q \in Passes, NEW l \in Lanes, work'[q][l].todo # <<>>,
                      work'[q][l].pc \in {"mark", "delivered_to_webhook", "dead_lettered"}
               PROVE  work'[q][l] = work[q][l]
    BY <1>1 DEF LanesTruthful, Item
  <2> QED
    BY <1>3
<1>8. NothingStuck'
  <2>1. ~LanesIdle(current)'
    BY <1>2, <1>3 DEF LanesIdle
  <2>2. flush' # Nobody /\ flush'.by # Nobody => Busy(flush.by[1], flush.by[2], "flush")'
    <3> SUFFICES ASSUME flush # Nobody, flush.by # Nobody
                 PROVE  Busy(flush.by[1], flush.by[2], "flush")'
      BY <1>1
    <3>1. Busy(flush.by[1], flush.by[2], "flush")
      BY DEF NothingStuck
    <3>2. flush.by[1] \in Passes /\ flush.by[2] \in Lanes
      BY DEF ReceiptInv, OutboxOK, Owners
    <3>3. flush.by[1] # p
      BY <1>2, <3>1, <3>2 DEF LanesIdle, Busy
    <3> QED
      BY <1>1, <1>3, <3>1, <3>2, <3>3 DEF Busy
  <2> QED
    BY <2>1, <2>2 DEF NothingStuck
<1> QED
  BY <1>4, <1>5, <1>6, <1>7, <1>8

\* A step that leaves the lanes alone keeps what is said of them.
LEMMA LanesSame ==
    ASSUME InboxInv, UNCHANGED <<laneOf, current, work, failed, delivered, wasDead>>,
           flush' # Nobody /\ flush'.by # Nobody => flush # Nobody /\ flush'.by = flush.by
    PROVE  LaneInv'
<1> USE DEF InboxInv, LaneInv
<1>1. WorkOK' /\ LanesSorted' /\ OthersIdle' /\ LanesTruthful'
  BY DEF WorkOK, LanesSorted, OthersIdle, LanesIdle, LanesTruthful, Item
<1>2. NothingStuck'
  BY DEF NothingStuck, LanesIdle, Busy
<1> QED
  BY <1>1, <1>2

\* Every step of the runtime keeps the invariant of the lanes.
LEMMA LaneInvStep ==
    ASSUME InboxInv, [InboxStep]_inboxVars
    PROVE  LaneInv'
<1>1. CASE UNCHANGED inboxVars
  BY <1>1, LanesSame DEF inboxVars, receipts, histories
<1>2. ASSUME NEW m \in Messages, DueAgain(m) \/ Arrive(m)
      PROVE  LaneInv'
  BY <1>2, LanesSame DEF DueAgain, Arrive, receipts, histories
<1>3. ASSUME NEW S \in SUBSET DeadLetters, ReplayDead(S) \/ PurgeDead(S)
      PROVE  LaneInv'
  BY <1>3, LanesSame DEF ReplayDead, PurgeDead, receipts, histories
<1>4. CASE Probe \/ CloseInbox \/ Stop
  BY <1>4, LanesSame DEF Probe, CloseInbox, Stop, receipts, histories
<1>5. CASE ReplayBegin
  BY <1>5, ReplayBeginLaneInv
<1>6. ASSUME NEW p \in Passes, NEW l \in Lanes, LaneStep(p, l)
      PROVE  LaneInv'
  BY <1>6, PostLaneInv, MarkLaneInv, ReplayFailsLaneInv, ReceiptLaneInv DEF LaneStep
<1>7. CASE TimerFlushBegin
  BY <1>7, LanesSame DEF TimerFlushBegin, histories
<1>8. CASE FlushSend
  <2>1. flush # Nobody /\ UNCHANGED <<laneOf, current, work, failed, delivered, wasDead>>
    BY <1>8 DEF FlushSend, histories
  <2>2. flush'.by = flush.by
    <3>1. flush \in [by : Owners, todo : SUBSET Receipts, kept : SUBSET Receipts]
      BY <2>1 DEF InboxInv, ReceiptInv, OutboxOK
    <3> QED
      BY <1>8, <3>1 DEF FlushSend
  <2> QED
    BY <2>1, <2>2, LanesSame
<1>9. CASE FlushEnd
  BY <1>9, FlushEndLaneInv
<1>10. CASE Restart
  <2>1. /\ current' = Nobody /\ flush' = Nobody /\ UNCHANGED laneOf
        /\ work' = [p \in Passes |-> [l \in Lanes |-> Idle]]
    BY <1>10 DEF Restart
  <2>2. Idle \in LaneWork /\ Idle.todo = <<>> /\ ToSet(Idle.todo) = {}
    BY InboxAssumption DEF Idle, LaneWork, ToSet
  <2>3. WorkOK'
    BY <2>1, <2>2 DEF InboxInv, LaneInv, WorkOK
  <2>4. \A p \in Passes, l \in Lanes : work'[p][l] = Idle
    BY <2>1
  <2> QED
    BY <2>1, <2>2, <2>3, <2>4
       DEF LaneInv, LanesSorted, OthersIdle, LanesIdle, LanesTruthful, NothingStuck
<1> QED
  BY <1>1, <1>2, <1>3, <1>4, <1>5, <1>6, <1>7, <1>8, <1>9, <1>10 DEF InboxStep, InboxNext

-----------------------------------------------------------------------------
(* The inbox: its receipts *)

\* What a lane says of its first message is a receipt.
LEMMA ItemFacts ==
    ASSUME InboxInv, NEW p \in Passes, NEW l \in Lanes, work[p][l].todo # <<>>
    PROVE  Item(p, l) \in Messages
<1>1. work[p][l].todo \in Seq(Messages)
  BY DEF InboxInv, LaneInv, WorkOK, LaneWork
<1> QED
  BY <1>1 DEF Item

\* A step that leaves the outbox alone keeps what is said of it: what happened
\* stays so.
LEMMA ReceiptsSame ==
    ASSUME InboxInv, UNCHANGED <<outbox, queued, receipted, flush>>,
           delivered \subseteq delivered', wasDead \subseteq wasDead', ~lossy' => ~lossy
    PROVE  ReceiptInv'
BY DEF InboxInv, ReceiptInv, OutboxOK, FlushHolds, ReceiptsMatch, ReceiptsKept, ReceiptsTrue

\* Storing a receipt: no flush is under way that would save an older file over it.
LEMMA EnqueueReceiptInv ==
    ASSUME InboxInv, NEW p \in Passes, NEW l \in Lanes, EnqueueReceipt(p, l)
    PROVE  ReceiptInv'
<1> USE DEF InboxInv, ReceiptInv, OutboxOK
<1> DEFINE r == <<Item(p, l), work[p][l].pc>>
<1>1. /\ work[p][l].todo # <<>> /\ work[p][l].pc \in {"delivered_to_webhook", "dead_lettered"}
      /\ flush = Nobody /\ UNCHANGED <<flush, receipted, delivered, wasDead>>
  BY DEF EnqueueReceipt, Busy
<1>2. r \in Receipts /\ r[1] \in (IF r[2] = "dead_lettered" THEN wasDead ELSE delivered)
  <2>1. Item(p, l) \in Messages
    BY <1>1, ItemFacts
  <2>2. r \in Receipts
    BY <1>1, <2>1 DEF Receipts
  <2>3. r[1] = Item(p, l) /\ r[2] = work[p][l].pc
    OBVIOUS
  <2> QED
    BY <1>1, <2>2, <2>3 DEF LaneInv, LanesTruthful
<1> HIDE DEF r
<1>3. CASE outbox' = outbox \cup {r} /\ queued' = queued \cup {r} /\ UNCHANGED lossy
  <2>1. OutboxOK' /\ FlushHolds'
    BY <1>1, <1>2, <1>3 DEF FlushHolds
  <2>2. ReceiptsKept'
    BY <1>1, <1>3 DEF ReceiptsMatch, ReceiptsKept
  <2>3. ReceiptsTrue'
    BY <1>1, <1>2, <1>3 DEF ReceiptsMatch, ReceiptsTrue
  <2> QED
    BY <2>1, <2>2, <2>3 DEF ReceiptsMatch
<1>4. CASE outbox' = {r} /\ queued' = queued \cup {r} /\ lossy' = TRUE
  <2>1. OutboxOK' /\ FlushHolds'
    BY <1>1, <1>2, <1>4 DEF FlushHolds
  <2>2. ReceiptsKept'
    BY <1>4 DEF ReceiptsKept
  <2>3. ReceiptsTrue'
    BY <1>1, <1>2, <1>4 DEF ReceiptsMatch, ReceiptsTrue
  <2> QED
    BY <2>1, <2>2, <2>3 DEF ReceiptsMatch
<1>5. CASE UNCHANGED <<outbox, queued, lossy>>
  BY <1>1, <1>5, ReceiptsSame
<1> QED
  BY <1>3, <1>4, <1>5 DEF EnqueueReceipt, r

\* A flush begins with the whole file.
LEMMA FlushBeginInv ==
    ASSUME InboxInv, TimerFlushBegin \/ \E p \in Passes, l \in Lanes : LaneFlushBegin(p, l)
    PROVE  ReceiptInv'
<1>1. UNCHANGED <<outbox, queued, receipted, delivered, wasDead, lossy>>
  BY DEF TimerFlushBegin, LaneFlushBegin, histories
<1>2. CASE UNCHANGED flush
  BY <1>1, <1>2, ReceiptsSame
<1>3. ASSUME NEW o \in Owners, flush' = [by |-> o, todo |-> outbox, kept |-> {}]
      PROVE  ReceiptInv'
  <2>1. OutboxOK'
    BY <1>1, <1>3 DEF InboxInv, ReceiptInv, OutboxOK
  <2>2. FlushHolds'
    BY <1>1, <1>3 DEF FlushHolds
  <2> QED
    BY <1>1, <2>1, <2>2 DEF InboxInv, ReceiptInv, ReceiptsMatch, ReceiptsKept, ReceiptsTrue
<1>4. UNCHANGED flush \/ \E o \in Owners : flush' = [by |-> o, todo |-> outbox, kept |-> {}]
  <2>1. CASE TimerFlushBegin
    BY <2>1 DEF TimerFlushBegin, Owners
  <2>2. ASSUME NEW p \in Passes, NEW l \in Lanes, LaneFlushBegin(p, l)
        PROVE  UNCHANGED flush \/ \E o \in Owners : flush' = [by |-> o, todo |-> outbox, kept |-> {}]
    <3>1. <<p, l>> \in Owners
      BY DEF Owners
    <3> QED
      BY <2>2, <3>1 DEF LaneFlushBegin
  <2> QED
    BY <2>1, <2>2
<1> QED
  BY <1>2, <1>3, <1>4

\* Each receipt of a flush goes to the proxy or is kept, and what is kept is saved.
LEMMA FlushReceiptInv ==
    ASSUME InboxInv, FlushSend \/ FlushEnd
    PROVE  ReceiptInv'
<1> USE DEF InboxInv, ReceiptInv, OutboxOK
<1>1. /\ flush # Nobody /\ UNCHANGED <<queued, delivered, wasDead, lossy>>
      /\ flush \in [by : Owners, todo : SUBSET Receipts, kept : SUBSET Receipts]
  BY DEF FlushSend, FlushEnd, histories
<1>2. CASE FlushSend
  <2>1. PICK r \in flush.todo :
          \/ /\ receipted' = receipted \cup {r}
             /\ flush' = [flush EXCEPT !.todo = @ \ {r}]
          \/ /\ receipted' \in {receipted, receipted \cup {r}}
             /\ flush' = [flush EXCEPT !.todo = @ \ {r}, !.kept = @ \cup {r}]
    BY <1>2 DEF FlushSend
  <2>2. r \in outbox /\ r \in Receipts /\ UNCHANGED outbox
    BY <1>1, <1>2 DEF FlushHolds, FlushSend
  <2>3. receipted \subseteq receipted' /\ receipted' \subseteq receipted \cup {r}
    BY <2>1
  <2>4. /\ flush' \in [by : Owners, todo : SUBSET Receipts, kept : SUBSET Receipts]
        /\ flush'.todo = flush.todo \ {r}
        /\ \/ flush'.kept = flush.kept /\ r \in receipted'
           \/ flush'.kept = flush.kept \cup {r}
    BY <1>1, <2>1, <2>2
  <2>5. OutboxOK'
    BY <1>1, <2>2, <2>3, <2>4
  <2>6. FlushHolds'
    BY <1>1, <2>2, <2>3, <2>4 DEF FlushHolds
  <2>7. ReceiptsMatch'
    BY <1>1, <2>2, <2>3 DEF ReceiptsMatch, ReceiptsKept, ReceiptsTrue
  <2> QED
    BY <2>5, <2>6, <2>7
<1>3. CASE FlushEnd
  <2>1. flush.todo = {} /\ outbox' \in {outbox, flush.kept} /\ flush' = Nobody /\ UNCHANGED receipted
    BY <1>3 DEF FlushEnd
  <2>2. OutboxOK' /\ FlushHolds'
    BY <1>1, <2>1 DEF FlushHolds
  <2>3. outbox' \subseteq outbox /\ outbox \subseteq outbox' \cup receipted
    BY <1>1, <2>1 DEF FlushHolds
  <2>4. ReceiptsMatch'
    BY <1>1, <2>1, <2>3 DEF ReceiptsMatch, ReceiptsKept, ReceiptsTrue
  <2> QED
    BY <2>2, <2>4
<1> QED
  BY <1>2, <1>3

\* Every step of the runtime keeps the invariant of the receipts.
LEMMA ReceiptInvStep ==
    ASSUME InboxInv, [InboxStep]_inboxVars
    PROVE  ReceiptInv'
<1>1. CASE UNCHANGED inboxVars \/ Probe \/ CloseInbox \/ Stop \/ ReplayBegin
  BY <1>1, ReceiptsSame DEF inboxVars, Probe, CloseInbox, Stop, ReplayBegin, receipts, histories
<1>2. ASSUME NEW m \in Messages, DueAgain(m) \/ Arrive(m)
      PROVE  ReceiptInv'
  BY <1>2, ReceiptsSame DEF DueAgain, Arrive, receipts, histories
<1>3. ASSUME NEW S \in SUBSET DeadLetters, ReplayDead(S) \/ PurgeDead(S)
      PROVE  ReceiptInv'
  BY <1>3, ReceiptsSame DEF ReplayDead, PurgeDead, receipts
<1>4. ASSUME NEW p \in Passes, NEW l \in Lanes, LaneStep(p, l)
      PROVE  ReceiptInv'
  <2>1. CASE Post(p, l)
    BY <2>1, ReceiptsSame DEF Post, receipts
  <2>2. CASE MarkDelivered(p, l)
    BY <2>2, ReceiptsSame DEF MarkDelivered, receipts, histories
  <2>3. CASE MarkReplayFailure(p, l)
    <3>1. wasDead \subseteq wasDead'
      BY <2>3 DEF MarkReplayFailure
    <3>2. UNCHANGED <<outbox, queued, receipted, flush, delivered, lossy>>
      BY <2>3 DEF MarkReplayFailure, receipts
    <3> QED
      BY <3>1, <3>2, ReceiptsSame
  <2>4. CASE ReplayFails(p, l)
    BY <2>4, ReceiptsSame DEF ReplayFails, receipts
  <2>5. CASE EnqueueReceipt(p, l)
    BY <2>5, EnqueueReceiptInv
  <2>6. CASE LaneFlushBegin(p, l)
    BY <2>6, FlushBeginInv
  <2> QED
    BY <1>4, <2>1, <2>2, <2>3, <2>4, <2>5, <2>6 DEF LaneStep
<1>5. CASE TimerFlushBegin
  BY <1>5, FlushBeginInv
<1>6. CASE FlushSend \/ FlushEnd
  BY <1>6, FlushReceiptInv
<1>7. CASE Restart
  <2>1. flush' = Nobody /\ UNCHANGED <<outbox, queued, receipted, delivered, wasDead>>
        /\ (~lossy' => ~lossy)
    BY <1>7 DEF Restart
  <2> QED
    BY <2>1 DEF InboxInv, ReceiptInv, OutboxOK, FlushHolds, ReceiptsMatch, ReceiptsKept, ReceiptsTrue
<1> QED
  BY <1>1, <1>2, <1>3, <1>4, <1>5, <1>6, <1>7 DEF InboxStep, InboxNext

-----------------------------------------------------------------------------
(* The inbox: its tables *)

\* A step that leaves the tables alone keeps what is said of them.
LEMMA TablesSame ==
    ASSUME InboxInv, UNCHANGED <<pending, dead, acked, purged, inputs, restarts>>,
           state' \in {"up", "stopping", "closed"},
           due' \subseteq PendingMessages,
           delivered \subseteq delivered', delivered' \subseteq Messages,
           wasDead' \subseteq Messages, ~lossy' => ~lossy
    PROVE  StoreInv'
<1> USE DEF InboxInv, StoreInv
<1>1. TablesOK'
  BY DEF TablesOK, PendingMessages
<1>2. AckedKept'
  BY DEF AckedKept, PendingMessages, DeadLetters
<1> QED
  BY <1>1, <1>2

\* A deliver frame that is acknowledged is in the inbox, and is stored only if it is
\* in neither table.
LEMMA ArriveStoreInv ==
    ASSUME InboxInv, NEW m \in Messages, Arrive(m)
    PROVE  StoreInv'
<1> USE DEF InboxInv, StoreInv
<1>1. /\ inputs < MaxInputs /\ inputs' = inputs + 1 /\ acked' = acked \cup {m}
      /\ UNCHANGED <<dead, state, delivered, wasDead, purged, lossy, restarts>>
  BY DEF Arrive, tables
<1>2. inputs' \in 0 .. MaxInputs
  BY <1>1, InboxAssumption DEF TablesOK
<1>3. CASE Holds(m) /\ UNCHANGED tables
  <2>1. TablesOK'
    BY <1>1, <1>2, <1>3 DEF TablesOK, tables
  <2>2. AckedKept'
    BY <1>1, <1>3 DEF AckedKept, Holds, PendingMessages, DeadLetters, tables
  <2> QED
    BY <2>1, <2>2
<1>4. CASE ~Holds(m) /\ InsertPending(m, 0)
  <2>1. pending' = [pending EXCEPT ![m] = 0] /\ due' = due \cup {m}
    BY <1>4 DEF InsertPending
  <2>2. 0 \in 0 .. DeadAfter /\ 0 # Nobody
    BY InboxAssumption
  <2>3. TablesOK'
    BY <1>1, <1>2, <2>1, <2>2 DEF TablesOK
  <2>4. PendingMessages' = PendingMessages \cup {m} /\ DeadLetters' = DeadLetters
    BY <1>1, <2>1, <2>2 DEF TablesOK, PendingMessages, DeadLetters
  <2>5. AckedKept'
    BY <1>1, <1>4, <2>4 DEF AckedKept, Holds
  <2> QED
    BY <2>3, <2>5
<1> QED
  BY <1>3, <1>4 DEF Arrive

\* Requests move dead letters back, or remove them.
LEMMA DeadStoreInv ==
    ASSUME InboxInv, NEW S \in SUBSET DeadLetters, ReplayDead(S) \/ PurgeDead(S)
    PROVE  StoreInv'
<1> USE DEF InboxInv, StoreInv
<1>0. S \subseteq Messages /\ \A m \in S : dead[m] # Nobody
  BY DEF DeadLetters
<1>1. /\ inputs < MaxInputs /\ inputs' = inputs + 1
      /\ dead' = [m \in Messages |-> IF m \in S THEN Nobody ELSE dead[m]]
      /\ UNCHANGED <<state, acked, delivered, wasDead, lossy, restarts>>
  BY DEF ReplayDead, PurgeDead, DeleteDeadLetters
<1>2. inputs' \in 0 .. MaxInputs
  BY <1>1, InboxAssumption DEF TablesOK
<1>3. dead' \in [Messages -> 0 .. DeadAfter \cup {Nobody}] /\ DeadLetters' = DeadLetters \ S
  BY <1>1 DEF TablesOK, DeadLetters
<1>4. CASE ReplayDead(S)
  <2>1. /\ pending' = [m \in Messages |-> IF m \in S THEN dead[m] ELSE pending[m]]
        /\ due' = due \cup S /\ UNCHANGED purged
    BY <1>4 DEF ReplayDead
  <2>2. TablesOK'
    BY <1>0, <1>1, <1>2, <1>3, <2>1 DEF TablesOK
  <2>3. PendingMessages' = PendingMessages \cup S
    BY <1>0, <2>1 DEF PendingMessages
  <2>4. AckedKept'
    BY <1>1, <1>3, <2>1, <2>3 DEF AckedKept
  <2> QED
    BY <2>2, <2>4
<1>5. CASE PurgeDead(S)
  <2>1. purged' = purged \cup S /\ UNCHANGED <<pending, due>>
    BY <1>5 DEF PurgeDead
  <2>2. TablesOK'
    BY <1>0, <1>1, <1>2, <1>3, <2>1 DEF TablesOK
  <2>3. PendingMessages' = PendingMessages
    BY <2>1 DEF PendingMessages
  <2>4. AckedKept'
    BY <1>1, <1>3, <2>1, <2>3 DEF AckedKept
  <2> QED
    BY <2>2, <2>4
<1> QED
  BY <1>4, <1>5

\* A message leaves the table only after the webhook had it.
LEMMA MarkDeliveredStoreInv ==
    ASSUME InboxInv, NEW p \in Passes, NEW l \in Lanes, MarkDelivered(p, l)
    PROVE  StoreInv'
<1> USE DEF InboxInv, StoreInv
<1>1. /\ work[p][l].todo # <<>> /\ work[p][l].pc = "mark"
      /\ UNCHANGED <<dead, state, acked, delivered, wasDead, purged, lossy, inputs, restarts>>
  BY DEF MarkDelivered, Busy, histories
<1>2. CASE DeletePending(Item(p, l))
  <2>1. Item(p, l) \in Messages /\ Item(p, l) \in delivered
    BY <1>1, ItemFacts DEF LaneInv, LanesTruthful
  <2>2. pending' = [pending EXCEPT ![Item(p, l)] = Nobody] /\ due' = due \ {Item(p, l)}
    BY <1>2 DEF DeletePending
  <2>3. TablesOK'
    BY <1>1, <2>1, <2>2 DEF TablesOK
  <2>4. PendingMessages' = PendingMessages \ {Item(p, l)} /\ DeadLetters' = DeadLetters
    BY <1>1, <2>1, <2>2 DEF TablesOK, PendingMessages, DeadLetters
  <2>5. AckedKept'
    BY <1>1, <2>1, <2>4 DEF AckedKept
  <2> QED
    BY <2>3, <2>5
<1>3. CASE UNCHANGED <<pending, due>>
  BY <1>1, <1>3, TablesSame DEF TablesOK, PendingMessages
<1> QED
  BY <1>2, <1>3 DEF MarkDelivered

\* A failed attempt is counted, or the message moves to the dead letters.
LEMMA MarkReplayFailureStoreInv ==
    ASSUME InboxInv, NEW p \in Passes, NEW l \in Lanes, MarkReplayFailure(p, l)
    PROVE  StoreInv'
<1> USE DEF InboxInv, StoreInv
<1> DEFINE m == Item(p, l)
           n == Min({DeadAfter, pending[m] + 1})
<1>1. /\ work[p][l].todo # <<>>
      /\ UNCHANGED <<state, acked, delivered, purged, lossy, inputs, restarts>>
  BY DEF MarkReplayFailure, Busy
<1>2. m \in Messages
  BY <1>1, ItemFacts
<1>3. pending[m] # Nobody => n \in 0 .. DeadAfter /\ n # Nobody
  <2> SUFFICES ASSUME pending[m] # Nobody PROVE n \in 0 .. DeadAfter /\ n # Nobody
    OBVIOUS
  <2>1. pending[m] \in Nat
    BY <1>2 DEF TablesOK
  <2>2. {DeadAfter, pending[m] + 1} \in SUBSET Nat /\ {DeadAfter, pending[m] + 1} # {}
    BY <2>1, InboxAssumption
  <2>3. n \in Nat /\ n <= DeadAfter
    BY <2>2, MinOfNaturals
  <2> HIDE DEF n
  <2> QED
    BY <2>3, InboxAssumption
<1> HIDE DEF n
<1>4. CASE pending[m] = Nobody /\ UNCHANGED <<tables, wasDead>>
  BY <1>1, <1>4, TablesSame DEF TablesOK, PendingMessages, tables
<1>5. CASE /\ pending[m] # Nobody
           /\ DeletePending(m) /\ InsertDeadLetter(m, n)
           /\ wasDead' = wasDead \cup {m}
  <2>1. /\ pending' = [pending EXCEPT ![m] = Nobody] /\ due' = due \ {m}
        /\ dead' = [dead EXCEPT ![m] = n]
    BY <1>5 DEF DeletePending, InsertDeadLetter
  <2>2. TablesOK'
    BY <1>1, <1>2, <1>3, <1>5, <2>1 DEF TablesOK
  <2>3. PendingMessages' = PendingMessages \ {m} /\ DeadLetters' = DeadLetters \cup {m}
    BY <1>2, <1>3, <1>5, <2>1 DEF TablesOK, PendingMessages, DeadLetters
  <2>4. AckedKept'
    BY <1>1, <2>3 DEF AckedKept
  <2> QED
    BY <2>2, <2>4
<1>6. CASE pending[m] # Nobody /\ UpdatePending(m, n) /\ UNCHANGED <<dead, wasDead>>
  <2>1. pending' = [pending EXCEPT ![m] = n] /\ due' = due \ {m}
    BY <1>6 DEF UpdatePending
  <2>2. TablesOK'
    BY <1>1, <1>2, <1>3, <1>6, <2>1 DEF TablesOK
  <2>3. PendingMessages' = PendingMessages /\ DeadLetters' = DeadLetters
    BY <1>2, <1>3, <1>6, <2>1 DEF TablesOK, PendingMessages, DeadLetters
  <2>4. AckedKept'
    BY <1>1, <2>3 DEF AckedKept
  <2> QED
    BY <2>2, <2>4
<1> QED
  BY <1>4, <1>5, <1>6 DEF MarkReplayFailure, n

\* Every step of the runtime keeps the invariant of the tables.
LEMMA StoreInvStep ==
    ASSUME InboxInv, [InboxStep]_inboxVars
    PROVE  StoreInv'
<1>0. /\ due \subseteq PendingMessages /\ state \in {"up", "stopping", "closed"}
      /\ delivered \subseteq Messages /\ wasDead \subseteq Messages
  BY DEF InboxInv, StoreInv, TablesOK, PendingMessages
<1>1. CASE UNCHANGED inboxVars \/ Probe \/ ReplayBegin \/ TimerFlushBegin \/ FlushSend \/ FlushEnd
  <2>1. UNCHANGED <<pending, dead, due, acked, purged, inputs, restarts, state, wasDead, delivered, lossy>>
    BY <1>1 DEF inboxVars, Probe, ReplayBegin, TimerFlushBegin, FlushSend, FlushEnd, tables, histories
  <2> QED
    BY <1>0, <2>1, TablesSame
<1>2. CASE CloseInbox \/ Stop
  BY <1>0, <1>2, TablesSame DEF CloseInbox, Stop, tables, histories
<1>3. ASSUME NEW m \in Messages, DueAgain(m)
      PROVE  StoreInv'
  BY <1>0, <1>3, TablesSame DEF DueAgain, histories
<1>4. ASSUME NEW m \in Messages, Arrive(m)
      PROVE  StoreInv'
  BY <1>4, ArriveStoreInv
<1>5. ASSUME NEW S \in SUBSET DeadLetters, ReplayDead(S) \/ PurgeDead(S)
      PROVE  StoreInv'
  BY <1>5, DeadStoreInv
<1>6. ASSUME NEW p \in Passes, NEW l \in Lanes, LaneStep(p, l)
      PROVE  StoreInv'
  <2>1. CASE Post(p, l)
    <3>1. Item(p, l) \in Messages
      BY <2>1, ItemFacts DEF Post, Busy
    <3>2. delivered' \in {delivered, delivered \cup {Item(p, l)}}
      BY <2>1 DEF Post
    <3>3. UNCHANGED <<pending, dead, due, acked, purged, inputs, restarts, state, wasDead, lossy>>
      BY <2>1 DEF Post, tables
    <3> QED
      BY <1>0, <3>1, <3>2, <3>3, TablesSame
  <2>2. CASE MarkDelivered(p, l)
    BY <2>2, MarkDeliveredStoreInv
  <2>3. CASE MarkReplayFailure(p, l)
    BY <2>3, MarkReplayFailureStoreInv
  <2>4. CASE ReplayFails(p, l) \/ EnqueueReceipt(p, l) \/ LaneFlushBegin(p, l)
    <3>1. /\ UNCHANGED <<pending, dead, due, acked, purged, inputs, restarts, state, wasDead, delivered>>
          /\ ~lossy' => ~lossy
      BY <2>4 DEF ReplayFails, EnqueueReceipt, LaneFlushBegin, tables, histories
    <3> QED
      BY <1>0, <3>1, TablesSame
  <2> QED
    BY <1>6, <2>1, <2>2, <2>3, <2>4 DEF LaneStep
<1>7. CASE Restart
  <2>1. /\ restarts < MaxRestarts /\ restarts' = restarts + 1 /\ state' = "up"
        /\ UNCHANGED <<acked, delivered, wasDead, purged, inputs>>
    BY <1>7 DEF Restart
  <2>2. restarts' \in 0 .. MaxRestarts
    BY <2>1, InboxAssumption DEF InboxInv, StoreInv, TablesOK
  <2>3. CASE UNCHANGED <<tables, lossy>>
    <3>1. TablesOK'
      BY <2>1, <2>2, <2>3 DEF InboxInv, StoreInv, TablesOK, tables
    <3>2. AckedKept'
      BY <2>1, <2>3 DEF InboxInv, StoreInv, AckedKept, PendingMessages, DeadLetters, tables
    <3> QED
      BY <3>1, <3>2 DEF StoreInv
  <2>4. CASE /\ pending' = [m \in Messages |-> Nobody] /\ dead' = pending' /\ due' = {}
             /\ lossy' = TRUE
    <3>1. TablesOK'
      BY <2>1, <2>2, <2>4 DEF InboxInv, StoreInv, TablesOK
    <3>2. AckedKept'
      BY <2>4 DEF AckedKept, PendingMessages, DeadLetters
    <3> QED
      BY <3>1, <3>2 DEF StoreInv
  <2> QED
    BY <1>7, <2>3, <2>4 DEF Restart
<1> QED
  BY <1>1, <1>2, <1>3, <1>4, <1>5, <1>6, <1>7 DEF InboxStep, InboxNext

\* Every step of the runtime keeps the invariant of the inbox.
LEMMA InboxInvStep == InboxInv /\ [InboxStep]_inboxVars => InboxInv'
BY StoreInvStep, LaneInvStep, ReceiptInvStep DEF InboxInv

\* The inbox's flags are Booleans.
InboxFlags == reachable \in BOOLEAN /\ failed \in BOOLEAN /\ lossy \in BOOLEAN

\* They are at first, and stay so.
LEMMA InboxFlagsInit == InboxInit => InboxFlags
BY Zenon DEF InboxInit, InboxFlags

\* Every step of the runtime keeps the flags Booleans.
LEMMA InboxFlagsStep == InboxFlags /\ [InboxStep]_inboxVars => InboxFlags'
<1> SUFFICES ASSUME InboxFlags, [InboxStep]_inboxVars PROVE InboxFlags'
  OBVIOUS
<1> USE DEF InboxFlags
<1>1. CASE UNCHANGED inboxVars \/ ReplayBegin \/ TimerFlushBegin \/ FlushSend \/ FlushEnd
           \/ CloseInbox \/ Stop
  BY <1>1 DEF inboxVars, ReplayBegin, TimerFlushBegin, FlushSend, FlushEnd, CloseInbox, Stop, histories
<1>2. CASE Probe
  BY <1>2, Zenon DEF Probe, histories
<1>3. ASSUME NEW m \in Messages, DueAgain(m) \/ Arrive(m)
      PROVE  InboxFlags'
  BY <1>3 DEF DueAgain, Arrive, histories
<1>4. ASSUME NEW S \in SUBSET DeadLetters, ReplayDead(S) \/ PurgeDead(S)
      PROVE  InboxFlags'
  BY <1>4 DEF ReplayDead, PurgeDead
<1>5. ASSUME NEW p \in Passes, NEW l \in Lanes, LaneStep(p, l)
      PROVE  InboxFlags'
  <2>1. CASE Post(p, l) \/ MarkDelivered(p, l) \/ MarkReplayFailure(p, l) \/ LaneFlushBegin(p, l)
    BY <2>1 DEF Post, MarkDelivered, MarkReplayFailure, LaneFlushBegin, histories
  <2>2. CASE ReplayFails(p, l)
    BY <2>2, Zenon DEF ReplayFails
  <2>3. CASE EnqueueReceipt(p, l)
    BY <2>3, Zenon DEF EnqueueReceipt
  <2> QED
    BY <1>5, <2>1, <2>2, <2>3 DEF LaneStep
<1>6. CASE Restart
  BY <1>6, Zenon DEF Restart
<1> QED
  BY <1>1, <1>2, <1>3, <1>4, <1>5, <1>6 DEF InboxStep, InboxNext

-----------------------------------------------------------------------------
(* The runtime *)

\* A step of the runtime is a step of each of its parts, or leaves it alone.
LEMMA RuntimeParts ==
    [RuntimeNext]_runtimeVars =>
        [ClientStep]_clientVars /\ [InboxStep]_inboxVars /\ [AuthStep]_authVars
<1> SUFFICES ASSUME [RuntimeNext]_runtimeVars
             PROVE  [ClientStep]_clientVars /\ [InboxStep]_inboxVars /\ [AuthStep]_authVars
  OBVIOUS
<1>1. CASE UNCHANGED runtimeVars
  BY <1>1 DEF runtimeVars
<1>2. CASE ClientNext /\ UNCHANGED <<inboxVars, authVars>>
  BY <1>2 DEF ClientStep
<1>3. CASE InboxNext /\ UNCHANGED <<clientVars, authVars>>
  BY <1>3 DEF InboxStep
<1>4. CASE (\E c \in Calls : CallStep(c)) /\ UNCHANGED <<clientVars, inboxVars>>
  BY <1>4 DEF AuthStep
<1>5. ASSUME NEW m \in Messages, DeliverFrame(m)
      PROVE  [ClientStep]_clientVars /\ [InboxStep]_inboxVars /\ [AuthStep]_authVars
  BY <1>5 DEF DeliverFrame, InboxStep
<1>6. ASSUME NEW c \in Calls, UpgradeRefresh(c)
      PROVE  [ClientStep]_clientVars /\ [InboxStep]_inboxVars /\ [AuthStep]_authVars
  BY <1>6 DEF UpgradeRefresh, AuthStep
<1>7. CASE StopRuntime
  <2>1. InboxStep /\ UNCHANGED authVars
    BY <1>7 DEF StopRuntime, InboxStep
  <2>2. Disconnect \/ UNCHANGED clientVars
    BY <1>7 DEF StopRuntime
  <2> QED
    BY <2>1, <2>2 DEF ClientStep, ClientNext
<1>8. CASE RestartRuntime
  BY <1>8 DEF RestartRuntime, ClientStep, InboxStep, AuthStep
<1> QED
  BY <1>1, <1>2, <1>3, <1>4, <1>5, <1>6, <1>7, <1>8 DEF RuntimeNext

\* The agent is never locked out of its own session, but for the faults that the
\* property names (auth-lifecycle.ts, agent-auth-client.ts), with any number of
\* calls that refresh at once.
THEOREM RuntimeAuthKept == RuntimeSpec => []AuthKept
<1>1. RuntimeInit => AuthInv
  BY AuthInvInit DEF RuntimeInit
<1>2. AuthInv /\ [RuntimeNext]_runtimeVars => AuthInv'
  BY AuthInvStep, RuntimeParts
<1>3. AuthInv => AuthKept
  BY DEF AuthInv
<1> QED
  BY <1>1, <1>2, <1>3, PTL DEF RuntimeSpec

\* The client has exactly one way on and notices a socket that falls silent
\* (client.ts, socket-session.ts, heartbeat.ts), with any number of sockets.
THEOREM RuntimeLinkWatched == RuntimeSpec => []LinkWatched
<1>1. RuntimeInit => SocketInv
  BY SocketInvInit DEF RuntimeInit
<1>2. SocketInv /\ [RuntimeNext]_runtimeVars => SocketInv'
  BY SocketInvStep, RuntimeParts
<1>3. SocketInv => LinkWatched
  BY DEF SocketInv, LinkWatched
<1> QED
  BY <1>1, <1>2, <1>3, PTL DEF RuntimeSpec

\* The outbound queue is in order and what was saved is not lost (queue.ts), with
\* any number of frames and crashes.
THEOREM RuntimeQueueKept == RuntimeSpec => []QueueKept
<1>1. RuntimeInit => QueueInv
  BY QueueInvInit DEF RuntimeInit
<1>2. QueueInv /\ [RuntimeNext]_runtimeVars => QueueInv'
  BY QueueInvStep, RuntimeParts
<1> QED
  BY <1>1, <1>2, QueueInvKept, PTL DEF RuntimeSpec

\* The invariant of the inbox holds throughout.
LEMMA RuntimeInboxInv == RuntimeSpec => []InboxInv
<1>1. RuntimeInit => InboxInv
  BY InboxInvInit DEF RuntimeInit
<1>2. InboxInv /\ [RuntimeNext]_runtimeVars => InboxInv'
  BY InboxInvStep, RuntimeParts
<1> QED
  BY <1>1, <1>2, PTL DEF RuntimeSpec

\* No acknowledged message is lost, and none is both waiting and dead
\* (inbound-inbox.ts), with any number of messages, lanes, passes and restarts.
THEOREM RuntimeAckedKept == RuntimeSpec => []AckedKept
<1>1. InboxInv => AckedKept
  BY DEF InboxInv, StoreInv
<1> QED
  BY <1>1, RuntimeInboxInv, PTL

\* A message is in the hands of one lane at a time (replay.ts).
THEOREM RuntimeOneLane == RuntimeSpec => []OneLanePerMessage
<1>1. InboxInv => OneLanePerMessage
  BY LanesApart DEF InboxInv
<1> QED
  BY <1>1, RuntimeInboxInv, PTL

\* Receipts are kept and true (receipt-outbox.ts, replay.ts).
THEOREM RuntimeReceiptsMatch == RuntimeSpec => []ReceiptsMatch
<1>1. InboxInv => ReceiptsMatch
  BY DEF InboxInv, ReceiptInv
<1> QED
  BY <1>1, RuntimeInboxInv, PTL

\* Neither the pass in flight nor the lock of the outbox is ever held by nobody who
\* is at work (the finally blocks of replay.ts and receipt-outbox.ts).
THEOREM RuntimeNothingStuck == RuntimeSpec => []NothingStuck
<1>1. InboxInv => NothingStuck
  BY DEF InboxInv, LaneInv
<1> QED
  BY <1>1, RuntimeInboxInv, PTL

\* Every variable of the runtime keeps its type.
THEOREM RuntimeTypeOK == RuntimeSpec => []TypeOK
<1> DEFINE I == AuthInv /\ SocketInv /\ ClientFlags /\ QueueInv /\ InboxInv /\ InboxFlags
<1>1. RuntimeInit => I
  BY AuthInvInit, SocketInvInit, ClientFlagsInit, QueueInvInit, InboxInvInit, InboxFlagsInit
     DEF RuntimeInit
<1>2. I /\ [RuntimeNext]_runtimeVars => I'
  BY AuthInvStep, SocketInvStep, ClientFlagsStep, QueueInvStep, InboxInvStep, InboxFlagsStep,
     RuntimeParts
<1>3. I => TypeOK
  <2> SUFFICES ASSUME I PROVE TypeOK
    OBVIOUS
  <2>1. AuthTypeOK
    BY DEF AuthInv
  <2>2. ClientTypeOK
    BY DEF ClientTypeOK, SocketInv, SocketTypeOK, ClientFlags, QueueInv, QueueTypeOK
  <2>3. InboxTypeOK
    BY DEF InboxTypeOK, InboxInv, InboxFlags, StoreInv, TablesOK, LaneInv, WorkOK, LaneWork,
           ReceiptInv, OutboxOK
  <2> QED
    BY <2>1, <2>2, <2>3 DEF TypeOK
<1> QED
  BY <1>1, <1>2, <1>3, PTL DEF RuntimeSpec
=============================================================================
