--------------------------- MODULE ConnectorAuth ---------------------------
(***************************************************************************)
(* The agent's registry tokens in the connector of the TypeScript package. *)
(* A refresh token can be exchanged once, so whoever exchanges it must     *)
(* keep the new one: in memory, and in registry-auth.json for the others.  *)
(* Three kinds of call refresh: a relay to a peer and a receipt to the     *)
(* proxy when their access token is refused, each kind in a single flight  *)
(* of its own, and the client before it opens its socket.  They overlap.   *)
(***************************************************************************)
EXTENDS Naturals, FiniteSets

CONSTANTS
    Calls,          \* calls that can be under way at once
    MaxExchanges,   \* refresh tokens that are issued
    NoAuth          \* no token in hand

ASSUME AuthAssumption == MaxExchanges \in Nat /\ NoAuth \notin Nat

VARIABLES
    token,          \* the registry's current refresh token, numbered by its issue
    currentAuth,    \* currentAuth of the runtime
    authFile,       \* the token in registry-auth.json
    calls,          \* call -> its kind, where it stands and the token in its hands
    writer,         \* history: the kind of call that wrote the file last
    authFaults      \* history: what went wrong with a token that was exchanged

authVars == <<token, currentAuth, authFile, calls, writer, authFaults>>

Kinds == {"relay", "receipt", "upgrade"}
Free == [kind |-> "none", pc |-> "idle", auth |-> NoAuth, flying |-> FALSE]

AuthTypeOK ==
    /\ token \in 0 .. MaxExchanges
    /\ currentAuth \in 0 .. token /\ authFile \in 0 .. token
    /\ calls \in [Calls -> [kind : Kinds \cup {"none"}, auth : 0 .. token \cup {NoAuth},
                            pc : {"idle", "read", "sync", "perform", "take",
                                  "ask", "persist", "write"},
                            flying : BOOLEAN]]
    /\ writer \in Kinds \cup {"none"}
    /\ authFaults \subseteq {"answer", "crash", "write", "order"}

(* The runtime is started with the token of the file. *)
AuthInit ==
    /\ token = 0 /\ currentAuth = 0 /\ authFile = 0
    /\ calls = [c \in Calls |-> Free]
    /\ writer = "none" /\ authFaults = {}

CallAt(c, pc) == calls[c].pc = pc
CallGoes(c, pc) == calls' = [calls EXCEPT ![c].pc = pc]
CallTakes(c, pc, t) == calls' = [calls EXCEPT ![c].pc = pc, ![c].auth = t]
CallEnds(c) == calls' = [calls EXCEPT ![c] = Free]

(* The refresh that refreshSingleFlights holds for kind k, if any. *)
Flights(k) == {c \in Calls : calls[c].kind = k /\ calls[c].flying}

CallBegins(c, k, flying) ==
    /\ calls[c] = Free
    /\ calls' = [calls EXCEPT ![c] = [kind |-> k, pc |-> "read", auth |-> NoAuth,
                                      flying |-> flying]]
    /\ UNCHANGED <<token, currentAuth, authFile, writer, authFaults>>

RelayToPeer(c) == CallBegins(c, "relay", FALSE)
PostDeliveryReceipt(c) == CallBegins(c, "receipt", FALSE)

(* resolveUpgradeHeaders, or the hook of a refused upgrade: the client has *)
(* one of them under way at a time.                                        *)
RefreshForUpgrade(c) == Flights("upgrade") = {} /\ CallBegins(c, "upgrade", TRUE)

(* readRegistryAuthFromDisk; a file that cannot be read or parsed gives    *)
(* nothing.                                                                *)
ReadAuth(c) ==
    /\ CallAt(c, "read")
    /\ \E t \in {authFile, NoAuth} : CallTakes(c, "sync", t)
    /\ UNCHANGED <<token, currentAuth, authFile, writer, authFaults>>

(* syncAuthFromDisk: what was read replaces the token in memory, also one  *)
(* that became newer meanwhile.                                            *)
SyncAuth(c) ==
    /\ CallAt(c, "sync")
    /\ currentAuth' = IF calls[c].auth = NoAuth THEN currentAuth ELSE calls[c].auth
    /\ CallTakes(c, IF calls[c].flying THEN "take" ELSE "perform", NoAuth)
    /\ UNCHANGED <<token, authFile, writer, authFaults>>

(* Slip: no call asks whether a refresh is in flight. *)
PerformAlone(c) ==
    /\ CallAt(c, "perform")
    /\ \/ CallEnds(c)
       \/ calls' = [calls EXCEPT ![c].pc = "read", ![c].flying = TRUE]
    /\ UNCHANGED <<token, currentAuth, authFile, writer, authFaults>>

(* The request is answered, or fails; or its access token is refused, and  *)
(* the call begins the refresh or joins the one in flight (for the tokens  *)
(* a call that joins is as good as ended).                                 *)
Perform(c) ==
    /\ CallAt(c, "perform")
    /\ \/ CallEnds(c)
       \/ /\ Flights(calls[c].kind) = {}
          /\ calls' = [calls EXCEPT ![c].pc = "read", ![c].flying = TRUE]
    /\ UNCHANGED <<token, currentAuth, authFile, writer, authFaults>>

(* The refresh uses the token that is in memory now.  The client's refresh *)
(* is left out when its access token is good for a while.                  *)
TakeAuth(c) ==
    /\ CallAt(c, "take")
    /\ \/ CallTakes(c, "ask", currentAuth)
       \/ calls[c].kind = "upgrade" /\ CallEnds(c)
    /\ UNCHANGED <<token, currentAuth, authFile, writer, authFaults>>

(* The registry does not answer, or refuses: another token is current.     *)
ExchangeFails(c) ==
    /\ CallAt(c, "ask")
    /\ CallEnds(c)
    /\ UNCHANGED <<token, currentAuth, authFile, writer, authFaults>>

(* The answer does not arrive, or parseAgentAuthBundle refuses it. *)
AnswerLost(c) == CallEnds(c) /\ authFaults' = authFaults \cup {"answer"}

(* The registry exchanges its current token. *)
Exchange(c) ==
    /\ CallAt(c, "ask")
    /\ calls[c].auth = token /\ token < MaxExchanges
    /\ token' = token + 1
    /\ \/ CallTakes(c, "persist", token + 1) /\ UNCHANGED authFaults
       \/ AnswerLost(c)
    /\ UNCHANGED <<currentAuth, authFile, writer>>

(* persistCurrentAuth: first the memory... *)
PersistAuth(c) ==
    /\ CallAt(c, "persist")
    /\ currentAuth' = calls[c].auth
    /\ CallGoes(c, "write")
    /\ UNCHANGED <<token, authFile, writer, authFaults>>

(* ...then the file, by a rename that may come after the one of a newer    *)
(* token: a fault of the order of two kinds of refresh.                    *)
WriteAuth(c) ==
    /\ CallAt(c, "write")
    /\ \/ /\ authFile' = calls[c].auth
          /\ writer' = calls[c].kind
          /\ authFaults' = authFaults \cup
                (IF calls[c].auth < authFile /\ writer # calls[c].kind THEN {"order"} ELSE {})
       \/ authFaults' = authFaults \cup {"write"} /\ UNCHANGED <<authFile, writer>>
    /\ CallEnds(c)
    /\ UNCHANGED <<token, currentAuth>>

(* The process ends and starts again with the token of the file. *)
RestartAuth ==
    /\ currentAuth' = authFile
    /\ calls' = [c \in Calls |-> Free]
    /\ authFaults' = authFaults \cup
          (IF \E c \in Calls : calls[c].pc \in {"persist", "write"} THEN {"crash"} ELSE {})
    /\ UNCHANGED <<token, authFile, writer>>

CallStep(c) ==
    \/ RelayToPeer(c) \/ PostDeliveryReceipt(c)
    \/ ReadAuth(c) \/ SyncAuth(c) \/ Perform(c) \/ TakeAuth(c)
    \/ ExchangeFails(c) \/ Exchange(c) \/ PersistAuth(c) \/ WriteAuth(c)

(***************************************************************************)
(* Properties                                                              *)
(***************************************************************************)
(* The agent is never locked out of its own session: the refresh token     *)
(* that the registry will take is in the file, or in the hands of a call   *)
(* that is about to write it there.  Refreshes that overlap, refusals,     *)
(* files that cannot be read and memory set back to an older token do not  *)
(* change that, unless an answer was lost, a write failed, the process     *)
(* died before a write, or a refresh of one kind wrote its token after a   *)
(* newer one of another kind (auth-lifecycle.ts, agent-auth-client.ts).    *)
AuthKept ==
    authFaults = {} =>
        \/ token = authFile
        \/ \E c \in Calls : calls[c].pc \in {"persist", "write"} /\ calls[c].auth = token
=============================================================================
