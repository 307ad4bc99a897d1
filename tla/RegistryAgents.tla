--------------------------- MODULE RegistryAgents ---------------------------
(***************************************************************************)
(* Agents, their identity tokens (AITs, named by jti), their sessions, and *)
(* the revocation list.  Identifiers are named after the agent or request  *)
(* they were made for: the AIT and the tokens that request r makes are r.  *)
(***************************************************************************)
EXTENDS RegistryAccounts

CONSTANT Challenges

VARIABLES
    challenges, \* registration challenge -> [status, owner]
    agents,     \* agent -> [status, jti, owner]
    sessions,   \* agent -> its session: [status, token]
    crl,        \* jtis in the table of revocations
    published   \* agents whose agent.auth.revoked event names the agent as revoked

agentVars == <<challenges, agents, sessions, crl, published>>

Agents == Requests \cup Seeds
ChallengeRow == [status : {"absent", "pending", "used"}, owner : Humans]
AgentRow == [status : {"absent", "active", "revoked"}, jti : Agents, owner : Humans]
SessionRow == [status : {"absent", "active", "revoked"}, token : Agents]

AgentsTypeOK ==
    /\ challenges \in [Challenges -> ChallengeRow]
    /\ agents \in [Agents -> AgentRow]
    /\ sessions \in [Agents -> SessionRow]
    /\ crl \in SUBSET Agents
    /\ published \in SUBSET Agents

(* Tokens somebody can present: they were in an answer. *)
Known(t) == t \in Seeds \/ t \in Succeeded("register") \/ t \in Succeeded("refresh")

(* The AIT was in an answer, and the registry accepts it for its agent. *)
Current(a) == /\ agents[a].status = "active"
              /\ \/ agents[a].jti \in Seeds
                 \/ agents[a].jti \in Succeeded("register") \cup Succeeded("reissue")

(***************************************************************************)
(* POST /v1/agents/challenge and POST /v1/agents                           *)
(***************************************************************************)
(* buildAgentRegistrationChallenge *)
NewChallenge(h) == [status |-> "pending", owner |-> h]

(* buildAgentRegistrationFromParsed: the agent and its AIT are new. *)
NewAgent(r, h) == [status |-> "active", jti |-> r, owner |-> h]

(* buildAgentReissue: the same agent with another AIT, which ends when the *)
(* old one would have.                                                     *)
Reissued(row, r) == [row EXCEPT !.jti = r]

(* issueAgentAuth: an access and a refresh token, named alike. *)
NewSession(r) == [status |-> "active", token |-> r]

CreateChallenge(c, h) ==
    /\ h \in Authenticated
    /\ challenges[c].status = "absent"
    /\ challenges' = [challenges EXCEPT ![c] = NewChallenge(h)]
    /\ UNCHANGED <<req, agents, sessions, crl, published>>

(* verifyAgentRegistrationOwnershipProof: h can prove a pending challenge   *)
(* of its own; a proof that does not match ends the request.               *)
Provable(c, h) ==
    challenges[c] = [status |-> "pending", owner |-> h] /\ ~Expired("challenge", c)

RegisterRead(r, c, h) ==
    /\ h \in Authenticated
    /\ Provable(c, h)
    /\ Begin(r, "register", "claim", h, c, None, FALSE)
    /\ UNCHANGED agentVars

(* A challenge that is no longer pending is an error inside the block whose *)
(* failure is undone.                                                      *)
RegisterClaim(r) ==
    /\ At(r, "register", "claim")
    /\ \/ /\ challenges[req[r].on].status = "pending"
          /\ challenges' = [challenges EXCEPT ![req[r].on].status = "used"]
          /\ Goto(r, "count")
       \/ Goto(r, "undo_session") /\ UNCHANGED challenges
    /\ UNCHANGED <<agents, sessions, crl, published>>

(* countAgentsByOwner *)
Owned(h) == Cardinality({a \in Agents : agents[a].status # "absent" /\ agents[a].owner = h})

RegisterCount(r) ==
    /\ At(r, "register", "count")
    /\ LET limit == AgentLimit(req[r].by)
       IN  IF limit # None /\ Owned(req[r].by) >= limit
           THEN Goto(r, "undo_session") ELSE Goto(r, "agent")
    /\ UNCHANGED agentVars

RegisterAgent(r) ==
    /\ At(r, "register", "agent")
    /\ \/ /\ agents' = [agents EXCEPT ![r] = NewAgent(r, req[r].by)]
          /\ Goto(r, "session")
       \/ Goto(r, "undo_session") /\ UNCHANGED agents
    /\ UNCHANGED <<challenges, sessions, crl, published>>

RegisterSession(r) ==
    /\ At(r, "register", "session")
    /\ \/ /\ sessions' = [sessions EXCEPT ![r] = NewSession(r)]
          /\ Goto(r, "event")
       \/ Goto(r, "undo_session") /\ UNCHANGED sessions
    /\ UNCHANGED <<challenges, agents, crl, published>>

(* The "issued" event: its row may fail to be stored, its message to be    *)
(* published; only the former matters to the request.                      *)
RegisterEvent(r) ==
    /\ At(r, "register", "event")
    /\ Goto(r, "done") \/ Goto(r, "undo_session")
    /\ UNCHANGED agentVars

(* The undo deletes what this request made, and sets the challenge back to *)
(* pending if it is used, by whichever request.                            *)
RegisterUndo(r) ==
    /\ \/ /\ At(r, "register", "undo_session")
          /\ \/ sessions' = [sessions EXCEPT ![r].status = "absent"]
             \/ UNCHANGED sessions
          /\ Goto(r, "undo_agent")
          /\ UNCHANGED <<challenges, agents>>
       \/ /\ At(r, "register", "undo_agent")
          /\ \/ /\ sessions[r].status = "absent" /\ r \notin crl
                /\ agents' = [agents EXCEPT ![r].status = "absent"]
             \/ UNCHANGED agents
          /\ Goto(r, "undo_claim")
          /\ UNCHANGED <<challenges, sessions>>
       \/ /\ At(r, "register", "undo_claim")
          /\ \/ challenges' = [challenges EXCEPT ![req[r].on].status = "pending"]
             \/ UNCHANGED challenges
          /\ Goto(r, "failed")
          /\ UNCHANGED <<agents, sessions>>
    /\ UNCHANGED <<crl, published>>

(***************************************************************************)
(* DELETE /v1/agents/:id                                                   *)
(***************************************************************************)
(* findOwnedAgent: the agent's owner is the one who asks. *)
OwnerAsks(a) == agents[a].status # "absent" /\ agents[a].owner \in Authenticated

(* A revoked agent is answered at once, also when the request that revoked *)
(* it has not come to the revocation list, or never will.                  *)
RevokeRead(r, a) ==
    /\ OwnerAsks(a)
    /\ Begin(r, "revoke", IF agents[a].status = "revoked" THEN "noop" ELSE "agent",
             agents[a].owner, a, agents[a].jti, sessions[a].status = "active")
    /\ UNCHANGED agentVars

RevokeAgent(r) ==
    /\ At(r, "revoke", "agent")
    /\ agents' = [agents EXCEPT ![req[r].on].status =
                     IF @ = "absent" THEN "absent" ELSE "revoked"]
    /\ Goto(r, "list")
    /\ UNCHANGED <<challenges, sessions, crl, published>>

(* The jti that was read goes into the list, not the one the agent has now. *)
RevokeList(r) ==
    /\ At(r, "revoke", "list")
    /\ crl' = crl \cup {req[r].seen}
    /\ Goto(r, IF req[r].has THEN "session" ELSE "done")
    /\ UNCHANGED <<challenges, agents, sessions, published>>

(* Slip: the event is sent before the session is closed. *)
RevokeSessionLate(r) ==
    /\ At(r, "revoke", "session")
    /\ published' = published \cup {req[r].on}
    /\ Goto(r, "event")
    /\ UNCHANGED <<challenges, agents, sessions, crl>>

RevokeSession(r) ==
    /\ At(r, "revoke", "session")
    /\ sessions' = [sessions EXCEPT ![req[r].on].status =
                       IF @ = "active" THEN "revoked" ELSE @]
    /\ Goto(r, "event")
    /\ UNCHANGED <<challenges, agents, crl, published>>

(* insertAgentAuthEvent: the row, then the message; a message that cannot  *)
(* be published is passed over.                                            *)
RevokeEvent(r) ==
    /\ At(r, "revoke", "event")
    /\ \/ published' = published \cup {req[r].on} /\ Goto(r, "done")
       \/ UNCHANGED published /\ (Goto(r, "done") \/ Goto(r, "failed"))
    /\ UNCHANGED <<challenges, agents, sessions, crl>>

(***************************************************************************)
(* POST /v1/agents/:id/reissue                                             *)
(***************************************************************************)
ReissueRead(r, a) ==
    /\ OwnerAsks(a) /\ agents[a].status = "active"
    /\ Begin(r, "reissue", "agent", agents[a].owner, a, agents[a].jti, FALSE)
    /\ UNCHANGED agentVars

(* Slip: the update does not ask for the AIT that was read. *)
ReissueAgentAny(r) ==
    /\ At(r, "reissue", "agent")
    /\ IF agents[req[r].on].status = "active"
       THEN agents' = [agents EXCEPT ![req[r].on] = Reissued(@, r)] /\ Goto(r, "list")
       ELSE Goto(r, "failed") /\ UNCHANGED agents
    /\ UNCHANGED <<challenges, sessions, crl, published>>

ReissueAgent(r) ==
    /\ At(r, "reissue", "agent")
    /\ IF agents[req[r].on].status = "active" /\ agents[req[r].on].jti = req[r].seen
       THEN agents' = [agents EXCEPT ![req[r].on] = Reissued(@, r)] /\ Goto(r, "list")
       ELSE Goto(r, "failed") /\ UNCHANGED agents
    /\ UNCHANGED <<challenges, sessions, crl, published>>

ReissueList(r) ==
    /\ At(r, "reissue", "list")
    /\ crl' = crl \cup {req[r].seen}
    /\ Goto(r, "done")
    /\ UNCHANGED <<challenges, agents, sessions, published>>

(***************************************************************************)
(* POST /v1/agents/auth/refresh and /validate, DELETE .../auth/revoke      *)
(***************************************************************************)
(* The caller presents a current AIT and refresh token t. *)
RefreshRead(r, a, t) ==
    /\ Current(a) /\ Known(t)
    /\ sessions[a].status = "active"
    /\ Begin(r, "refresh",
             CASE sessions[a].token # t -> "failed"
               [] sessions[a].token = t /\ Expired("refresh", t) -> "expire"
               [] OTHER -> "rotate",
             a, a, t, FALSE)
    /\ UNCHANGED agentVars

(* The session is closed whatever happened to it since it was read. *)
RefreshExpire(r) ==
    /\ At(r, "refresh", "expire")
    /\ sessions' = [sessions EXCEPT ![req[r].on].status = "revoked"]
    /\ Goto(r, "failed")
    /\ UNCHANGED <<challenges, agents, crl, published>>

(* Slip: the update does not ask for the presented token. *)
RefreshRotateAny(r) ==
    /\ At(r, "refresh", "rotate")
    /\ LET s == sessions[req[r].on]
       IN  IF s.status = "active"
           THEN /\ sessions' = [sessions EXCEPT ![req[r].on].token = r]
                /\ Goto(r, "event")
           ELSE Goto(r, "failed") /\ UNCHANGED sessions
    /\ UNCHANGED <<challenges, agents, crl, published>>

RefreshRotate(r) ==
    /\ At(r, "refresh", "rotate")
    /\ LET s == sessions[req[r].on]
       IN  IF s.status = "active" /\ s.token = req[r].seen
           THEN /\ sessions' = [sessions EXCEPT ![req[r].on].token = r]
                /\ Goto(r, "event")
           ELSE Goto(r, "failed") /\ UNCHANGED sessions
    /\ UNCHANGED <<challenges, agents, crl, published>>

RefreshEvent(r) ==
    /\ At(r, "refresh", "event")
    /\ Goto(r, "done") \/ Goto(r, "failed")
    /\ UNCHANGED agentVars

(* The caller presents a current AIT and access token t. *)
ValidateRead(r, a, t) ==
    /\ Current(a) /\ Known(t)
    /\ sessions[a] = [status |-> "active", token |-> t] /\ ~Expired("access", t)
    /\ Begin(r, "validate", "touch", a, a, t, FALSE)
    /\ UNCHANGED agentVars

(* Slip: the touch finds its session by id alone. *)
ValidateTouchAny(r) ==
    /\ At(r, "validate", "touch")
    /\ Goto(r, "done")
    /\ UNCHANGED agentVars

(* The touch of access_last_used_at is also the last check. *)
ValidateTouch(r) ==
    /\ At(r, "validate", "touch")
    /\ Goto(r, IF sessions[req[r].on] = [status |-> "active", token |-> req[r].seen]
               THEN "done" ELSE "failed")
    /\ UNCHANGED agentVars

AuthRevokeRead(r, a) ==
    /\ OwnerAsks(a)
    /\ Begin(r, "authRevoke", IF sessions[a].status = "active" THEN "session" ELSE "noop",
             agents[a].owner, a, None, FALSE)
    /\ UNCHANGED agentVars

(* The event that follows does not name the agent as revoked. *)
AuthRevokeSession(r) ==
    /\ At(r, "authRevoke", "session")
    /\ sessions' = [sessions EXCEPT ![req[r].on].status =
                       IF @ = "active" THEN "revoked" ELSE @]
    /\ Goto(r, "done")
    /\ UNCHANGED <<challenges, agents, crl, published>>

(* A human with a starter pass has at most one of the seeds. *)
AgentsInit ==
    \E live \in SUBSET Seeds :
        /\ humans[Owner] = "github_starter_pass" => Cardinality(live) <= 1
        /\ challenges = [c \in Challenges |-> [status |-> "absent", owner |-> Owner]]
        /\ agents = [a \in Agents |-> [status |-> IF a \in live THEN "active" ELSE "absent",
                                       jti |-> a, owner |-> Owner]]
        /\ sessions = [a \in Agents |-> [status |-> IF a \in live THEN "active" ELSE "absent",
                                         token |-> a]]
        /\ crl = {}
        /\ published = {}

AgentStep(r) ==
    \/ \E c \in Challenges, h \in Humans : RegisterRead(r, c, h)
    \/ RegisterClaim(r) \/ RegisterCount(r) \/ RegisterAgent(r)
    \/ RegisterSession(r) \/ RegisterEvent(r) \/ RegisterUndo(r)
    \/ \E a \in Agents : RevokeRead(r, a) \/ ReissueRead(r, a) \/ AuthRevokeRead(r, a)
    \/ RevokeAgent(r) \/ RevokeList(r) \/ RevokeSession(r) \/ RevokeEvent(r)
    \/ ReissueAgent(r) \/ ReissueList(r)
    \/ \E a, t \in Agents : RefreshRead(r, a, t) \/ ValidateRead(r, a, t)
    \/ RefreshExpire(r) \/ RefreshRotate(r) \/ RefreshEvent(r)
    \/ ValidateTouch(r) \/ AuthRevokeSession(r)

(***************************************************************************)
(* Properties                                                              *)
(***************************************************************************)
(* The requests that exchanged a refresh token, answered or not. *)
Rotations == {r \in Requests : req[r].op = "refresh" /\ req[r].pc \in {"event", "done"}}

(* A refresh token is exchanged once: of two requests that present it at   *)
(* the same time one gets new tokens, the other a conflict (agent-auth.ts, *)
(* applyRefreshMutation).                                                  *)
RefreshOnce == \A r, q \in Rotations : req[r].seen = req[q].seen => r = q

(* Once the revocation of an agent was answered, no request that began     *)
(* earlier still gets tokens or a valid access check for it: the last      *)
(* statement of each looks at the session again.  (A revocation that read  *)
(* the agent before its registration had made the session leaves the       *)
(* session alone: req[q].has is then false.)                               *)
NoAccessAfterRevoke ==
    [][\A r \in Requests :
          /\ r \in Rotations' \ Rotations \/ r \in Succeeded("validate")' \ Succeeded("validate")
          => \A q \in Succeeded("revoke") : req[q].has => req[q].on # req[r].on]_<<req, sessions>>

(* The AITs of agent a that were handed out. *)
HandedOut(a) == {a} \cup {r \in Succeeded("reissue") : req[r].on = a}

(* An agent has one AIT: one that was handed out and is no longer the      *)
(* agent's is on the revocation list, or the reissue that replaced it has  *)
(* stopped or stands between its two statements (agents.ts, reissue).      *)
SupersededListed ==
    \A a \in Agents :
        agents[a].status # "absent" =>
        \A j \in HandedOut(a) \ {agents[a].jti} :
            \/ j \in crl
            \/ \E r \in Requests : req[r].op = "reissue" /\ req[r].pc = "list" /\ req[r].seen = j

(* The proxy hears that an agent was revoked only after it is so: the      *)
(* agent is refused and its session is closed before the event is sent,    *)
(* and no registration or refresh in progress opens the session again.     *)
EventsBacked ==
    \A a \in published : agents[a].status # "active" /\ sessions[a].status # "active"

(* When the revocation of an agent was answered, its AIT is on the         *)
(* revocation list (PROTOCOL.md:800, "AIT is added to CRL").  Violated: a  *)
(* reissue may give the agent another AIT after the revocation read it.    *)
RevokedIsListed == \A r \in Succeeded("revoke") : agents[req[r].on].jti \in crl
=============================================================================
