--------------------------- MODULE MCRelayScenes ----------------------------
(* RelaySession for TLC in scenes, so that each hard case has its own bounds: *)
(* "senders", three overlapping handlers and a request id that two senders    *)
(* use; "sockets", a connector that reconnects while one request is delivered *)
(* again and again and its receipts are recorded; and "timers", everything    *)
(* that the constants allow, up to the time when all must be over.            *)
EXTENDS MCRelaySession

CONSTANT Scenes     \* the scenes that are played

VARIABLE scene

\* The sockets that are still heard of: listed, tracked or written to.
Remembered == {s \in Sockets : \/ s \in Listed \cup pendingClose
                               \/ lastAck[s] # NoTime
                               \/ \E p \in Procs : proc[p].sock = s}

\* The states of each scene.
InScene ==
    \/ /\ scene = "senders"
       /\ Cardinality(Remembered) <= 1
       /\ \A r \in Requests : store.receipts[r].state \notin TerminalStates
       /\ \A p \in Procs : proc[p].req = r2 => proc[p].route = "ab"
    \/ /\ scene = "sockets"
       /\ Cardinality({p \in Procs : proc[p] # Idle}) <= 2
       /\ PendingCount <= 1
       /\ \A p \in Procs : proc[p].req \in {None, r1} /\ proc[p].route \in {None, "ab"}
       /\ \A r \in Requests : store.receipts[r] # NoReceipt =>
                                 r = r1 /\ store.receipts[r].route = "ab"
    \/ scene = "timers"

MCInit == Init /\ scene \in Scenes

MCNext == Next /\ UNCHANGED scene /\ InScene'

MCSpec == MCInit /\ [][MCNext]_<<vars, scene>> /\ Fairness
=============================================================================
