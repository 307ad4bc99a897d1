------------------------- MODULE MCConnectorRuntime -------------------------
(***************************************************************************)
(* The runtime for TLC.  One behaviour lets only one part move freely:     *)
(* "client" the socket and the queue, "lanes" the messages of several      *)
(* lanes on an open socket, "stops" a message in a runtime that stops and  *)
(* starts again, "auth" the calls that refresh tokens.                     *)
(***************************************************************************)
EXTENDS ConnectorRuntime, TLC

CONSTANT Scenes

VARIABLE scene

(* The client as it is after connect() on an empty queue. *)
Connected ==
    /\ phase = "running" /\ dials = 0 /\ hooks = 0
    /\ timer = FALSE /\ connectTimer = FALSE /\ beating = TRUE /\ ackTimer = FALSE
    /\ \E s \in Sockets :
          /\ socket = s
          /\ ws = [x \in Sockets |-> IF x = s THEN "open" ELSE "unused"]
    /\ beats = 0 /\ queue = <<>> /\ disk = <<>> /\ load = "done" /\ saves = 0 /\ writing = None
    /\ frames = 0 /\ sent = {} /\ saved = {} /\ unread = FALSE /\ crashes = 0

(* The client while its dial is under way. *)
Dialling ==
    /\ phase = "running" /\ dials = 1 /\ hooks = 0
    /\ timer = FALSE /\ connectTimer = FALSE /\ beating = FALSE /\ ackTimer = FALSE
    /\ socket = None /\ ws = [x \in Sockets |-> "unused"]
    /\ beats = 0 /\ queue = <<>> /\ disk = <<>> /\ load = "done" /\ saves = 0 /\ writing = None
    /\ frames = 0 /\ sent = {} /\ saved = {} /\ unread = FALSE /\ crashes = 0

(* Neither the client nor the tokens depend on how messages fall into lanes. *)
MCInit ==
    /\ scene \in Scenes
    /\ InboxInit /\ AuthInit
    /\ scene \in {"client", "auth"} => laneOf = [m \in Messages |-> CHOOSE l \in Lanes : TRUE]
    /\ \/ scene = "client" /\ ClientInit
       \/ scene \in {"lanes", "stops"} /\ Connected
       \/ scene = "auth" /\ Dialling
    /\ reachable

(* Between two messages the restarted client has connected again. *)
RestartConnected ==
    /\ Restart
    /\ phase' = "running" /\ beating' = TRUE
    /\ socket' \in Sockets
    /\ ws' = [x \in Sockets |-> IF x = socket' THEN "open" ELSE "unused"]
    /\ UNCHANGED <<dials, hooks, timer, connectTimer, beats, ackTimer, queueVars, authVars>>

ClientScene ==
    \/ ClientNext /\ UNCHANGED <<inboxVars, authVars>>
    \/ RestartRuntime
InboxScene ==
    \/ InboxNext /\ UNCHANGED <<clientVars, authVars>>
    \/ \E m \in Messages : DeliverFrame(m)
(* What is promised ends with the first fault, and so does the scene. *)
AuthScene ==
    /\ authFaults = {}
    /\ \/ (\E c \in Calls : CallStep(c)) /\ UNCHANGED <<clientVars, inboxVars>>
       \/ \E c \in Calls : UpgradeRefresh(c)
       \/ RestartAuth /\ UNCHANGED <<clientVars, inboxVars>>

(* A webhook call is repeated, and a file or database lost, in "stops" only; *)
(* "lanes" is about lanes and passes that overlap.                           *)
MCNext ==
    /\ UNCHANGED scene
    /\ \/ scene = "client" /\ ClientScene
       \/ scene \in {"lanes", "stops"} /\ InboxScene
       \/ scene = "stops" /\ (StopRuntime \/ RestartConnected)
       \/ scene = "auth" /\ AuthScene
    /\ scene = "stops" => Cardinality(acked') <= 1
    /\ scene = "lanes" => ~lossy' /\ \A p \in Passes, l \in Lanes : work'[p][l].tries = 1

vars == <<runtimeVars, scene>>
MCSpec == MCInit /\ [][MCNext]_vars

Symmetry == Permutations(Messages) \cup Permutations(Lanes) \cup Permutations(Sockets)
                \cup Permutations(Calls)
=============================================================================
