-------------------------- MODULE ConnectorRuntime --------------------------
(***************************************************************************)
(* startConnectorRuntime of the TypeScript package: the client with its    *)
(* socket and outbound queue, the inbox with its replay, and the agent's   *)
(* tokens, in one process.  Messages arrive over the open socket, a dial   *)
(* may refresh the tokens first, stop() disconnects the client, and a      *)
(* crash ends everything.                                                  *)
(***************************************************************************)
EXTENDS ConnectorClient, ConnectorInbox, ConnectorAuth

runtimeVars == <<clientVars, inboxVars, authVars>>

RuntimeInit == ClientInit /\ InboxInit /\ AuthInit

(* inboundDeliverHandler: a deliver frame on the open socket. *)
DeliverFrame(m) == isConnected /\ Arrive(m) /\ UNCHANGED <<clientVars, authVars>>

(* The headers of a dial under way, or the hook of a refused one. *)
UpgradeRefresh(c) ==
    dials + hooks > 0 /\ RefreshForUpgrade(c) /\ UNCHANGED <<clientVars, inboxVars>>

(* stop() *)
StopRuntime ==
    /\ Stop
    /\ IF started THEN Disconnect ELSE UNCHANGED clientVars
    /\ UNCHANGED authVars

(* The process ends and startConnectorRuntime runs again. *)
RestartRuntime == Restart /\ Crash /\ RestartAuth

RuntimeNext ==
    \/ ClientNext /\ UNCHANGED <<inboxVars, authVars>>
    \/ InboxNext /\ UNCHANGED <<clientVars, authVars>>
    \/ (\E c \in Calls : CallStep(c)) /\ UNCHANGED <<clientVars, inboxVars>>
    \/ \E m \in Messages : DeliverFrame(m)
    \/ \E c \in Calls : UpgradeRefresh(c)
    \/ StopRuntime \/ RestartRuntime

RuntimeSpec == RuntimeInit /\ [][RuntimeNext]_runtimeVars

(* The parts' types. *)
TypeOK == ClientTypeOK /\ InboxTypeOK /\ AuthTypeOK
=============================================================================
