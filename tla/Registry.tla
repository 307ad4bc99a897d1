------------------------------ MODULE Registry ------------------------------
(***************************************************************************)
(* The registry: accounts, agents and groups over one database, served by  *)
(* workers that may stop between any two statements.                       *)
(***************************************************************************)
EXTENDS RegistryGroups

vars == <<req, expired, accountVars, agentVars, groupVars>>

Operations ==
    {"none", "bootstrap", "invite", "callback", "pass", "key", "service", "rotate",
     "register", "revoke", "reissue", "refresh", "validate", "authRevoke",
     "token", "join", "remove", "deleteGroup"}

(* The statement before which a request stands, or the answer it was given. *)
Statements ==
    {"idle", "done", "noop", "failed",
     "human", "key", "service", "undo_service", "undo_key", "undo_human",
     "claim", "undo_claim", "insert", "reissue", "expire", "write",
     "count", "agent", "session", "event", "undo_session", "undo_agent",
     "list", "rotate", "touch", "use", "undo", "tokens", "members", "group"}

RequestRow == [op : Operations, pc : Statements, up : BOOLEAN, by : Humans \cup Agents \cup {None},
               on : Invites \cup Subjects \cup Services \cup Agents \cup Challenges
                      \cup Groups \cup {None},
               seen : Agents \cup Tokens \cup {None}, has : BOOLEAN]

TypeOK ==
    /\ req \in [Requests -> RequestRow]
    /\ AccountsTypeOK /\ AgentsTypeOK /\ GroupsTypeOK

Init ==
    /\ req = [r \in Requests |-> Idle]
    /\ expired = {}
    /\ AccountsInit /\ AgentsInit /\ GroupsInit

AccountNext ==
    /\ \/ \E r \in Requests : AccountStep(r)
       \/ \E i \in Invites : CreateInvite(i)
       \/ \E k \in Keys : RevokeApiKey(k)
    /\ UNCHANGED <<expired, agentVars, groupVars>>

AgentNext ==
    /\ \/ \E r \in Requests : AgentStep(r)
       \/ \E c \in Challenges, h \in Humans : CreateChallenge(c, h)
    /\ UNCHANGED <<expired, accountVars, groupVars>>

GroupNext ==
    /\ \/ \E r \in Requests : GroupStep(r)
       \/ \E g \in Groups, h \in Humans : CreateGroup(g, h)
    /\ UNCHANGED <<expired, accountVars, agentVars>>

(* Rows that expire.  Access tokens expire before their refresh tokens. *)
TimePasses ==
    /\ \/ \E i \in Invites : invites[i].live /\ Expires("invite", i)
       \/ \E g \in Subjects : passes[g].status = "active" /\ Expires("pass", passes[g].code)
       \/ \E c \in Challenges : challenges[c].status = "pending" /\ Expires("challenge", c)
       \/ \E a \in Agents :
             /\ sessions[a].status = "active"
             /\ \/ Expires("access", sessions[a].token)
                \/ /\ Expired("access", sessions[a].token)
                   /\ Expires("refresh", sessions[a].token)
       \/ \E t \in Tokens : joinTokens[t].status = "live" /\ Expires("joinToken", t)
    /\ UNCHANGED <<req, accountVars, agentVars, groupVars>>

WorkersStop ==
    /\ \E r \in Requests : WorkerStops(r)
    /\ UNCHANGED <<expired, accountVars, agentVars, groupVars>>

Next == AccountNext \/ AgentNext \/ GroupNext \/ TimePasses \/ WorkersStop

Spec == Init /\ [][Next]_vars

(***************************************************************************)
(* Properties                                                              *)
(***************************************************************************)
(* What may be used a limited number of times is: requests that overlap    *)
(* all read it as free, yet an invite makes one account, a starter pass    *)
(* one human each time it is issued, a group takes MaxMembers members, a   *)
(* join token lets max_uses agents in and a refresh token is exchanged     *)
(* once.                                                                   *)
LimitsKept ==
    InviteOnce /\ PassRedemptionsBounded /\ MembersBounded /\ TokenUsesBounded /\ RefreshOnce
=============================================================================
