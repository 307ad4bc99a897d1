--------------------------- MODULE RegistryGroups ---------------------------
(***************************************************************************)
(* Groups of agents, and the join tokens that let agents in.               *)
(***************************************************************************)
EXTENDS RegistryAgents

CONSTANTS
    Groups,
    Tokens,         \* join tokens
    MaxUses,        \* the largest max_uses asked for (at most 25 in the code)
    MaxMembers      \* MAX_GROUP_MEMBERS (25)

ASSUME GroupsAssumption == Groups # {} /\ MaxUses \in Nat \ {0} /\ MaxMembers \in Nat

VARIABLES
    groups,         \* group -> the human who made it, "deleted", or None before
    members,        \* group -> agent -> its role, None without a row
    joinTokens      \* join token -> its row

groupVars == <<groups, members, joinTokens>>

Roles == {"member", "admin"}
TokenRow == [status : {"unused", "live", "deleted"}, group : Groups, role : Roles,
             used : 0 .. MaxUses, max : 1 .. MaxUses]

GroupsTypeOK ==
    /\ groups \in [Groups -> Humans \cup {None, "deleted"}]
    /\ members \in [Groups -> [Agents -> Roles \cup {None}]]
    /\ joinTokens \in [Tokens -> TokenRow]

Exists(g) == groups[g] \in Humans
MembersOf(g) == {a \in Agents : members[g][a] # None}
TokensOf(g) == {t \in Tokens : joinTokens[t].status = "live" /\ joinTokens[t].group = g}

(***************************************************************************)
(* Who may manage a group: the human who made it, one with an active agent *)
(* that is its admin, an agent of its maker, and an admin agent.  An actor *)
(* is a human with an API key or an agent with its current AIT.            *)
(***************************************************************************)
HumanManages(h, g) ==
    /\ Exists(g)
    /\ \/ groups[g] = h
       \/ \E a \in Agents : /\ members[g][a] = "admin"
                            /\ agents[a].owner = h /\ agents[a].status = "active"

AgentManages(a, g) ==
    /\ Exists(g)
    /\ groups[g] = agents[a].owner \/ members[g][a] = "admin"

ActorManages(g) == \/ \E h \in Authenticated : HumanManages(h, g)
                   \/ \E a \in Agents : Current(a) /\ AgentManages(a, g)

(* POST /v1/groups, by a human or for the owner of an agent. *)
CreateGroup(g, h) ==
    /\ h \in Authenticated \/ \E a \in Agents : Current(a) /\ agents[a].owner = h
    /\ groups[g] = None
    /\ groups' = [groups EXCEPT ![g] = h]
    /\ UNCHANGED <<req, members, joinTokens>>

(***************************************************************************)
(* POST /v1/groups/:id/join-tokens                                         *)
(***************************************************************************)
IssueTokenRead(r, g) ==
    /\ ActorManages(g)
    /\ Begin(r, "token", "insert", None, g, None, FALSE)
    /\ UNCHANGED groupVars

(* parseGroupJoinTokenIssuePayload: what may be asked for. *)
NewTokens(g) ==
    [status : {"live"}, group : {g}, role : Roles, used : {0}, max : 1 .. MaxUses]

(* The row refers to its group: without one the insert fails. *)
IssueTokenInsert(r) ==
    /\ At(r, "token", "insert")
    /\ IF Exists(req[r].on)
       THEN /\ \E t \in Tokens, row \in NewTokens(req[r].on) :
                  /\ joinTokens[t].status = "unused"
                  /\ joinTokens' = [joinTokens EXCEPT ![t] = row]
            /\ Goto(r, "done")
       ELSE Goto(r, "failed") /\ UNCHANGED joinTokens
    /\ UNCHANGED <<groups, members>>

(***************************************************************************)
(* POST /v1/groups/join: agent a presents join token t.                    *)
(***************************************************************************)
JoinRead(r, a, t) ==
    /\ Current(a)
    /\ joinTokens[t].status = "live" /\ ~Expired("joinToken", t)
    /\ joinTokens[t].used < joinTokens[t].max
    /\ LET g == joinTokens[t].group
       IN  /\ Exists(g)
           /\ Begin(r, "join", IF members[g][a] # None THEN "noop" ELSE "insert", a, g, t, FALSE)
    /\ UNCHANGED groupVars

SetMember(g, a, role) == members' = [members EXCEPT ![g][a] = role]

(* Slip: the members were counted by an earlier statement. *)
JoinInsertUncounted(r) ==
    /\ At(r, "join", "insert")
    /\ SetMember(req[r].on, req[r].by, joinTokens[req[r].seen].role)
    /\ Goto(r, "use")
    /\ UNCHANGED <<groups, joinTokens>>

(* One statement counts the members, looks for the agent and inserts it.   *)
(* The role is the one that was read from the token.                       *)
JoinInsert(r) ==
    /\ At(r, "join", "insert")
    /\ LET g == req[r].on
           a == req[r].by
       IN \/ /\ Exists(g)
             /\ Cardinality(MembersOf(g)) < MaxMembers
             /\ members[g][a] = None
             /\ SetMember(g, a, joinTokens[req[r].seen].role)
             /\ Goto(r, "use")
          \/ /\ members[g][a] # None
             /\ Goto(r, "noop")
             /\ UNCHANGED members
          \/ Goto(r, "failed") /\ UNCHANGED members
    /\ UNCHANGED <<groups, joinTokens>>

(* Slip: the update does not compare used_count with max_uses. *)
JoinUseAny(r) ==
    /\ At(r, "join", "use")
    /\ joinTokens' = [joinTokens EXCEPT ![req[r].seen].used = IF @ < MaxUses THEN @ + 1 ELSE @]
    /\ Goto(r, "done")
    /\ UNCHANGED <<groups, members>>

(* The token is used up to max_uses times: the guarded update decides. *)
JoinUse(r) ==
    /\ At(r, "join", "use")
    /\ LET t == req[r].seen
       IN \/ /\ joinTokens[t].status = "live" /\ joinTokens[t].used < joinTokens[t].max
             /\ joinTokens' = [joinTokens EXCEPT ![t].used = @ + 1]
             /\ Goto(r, "done")
          \/ Goto(r, "undo") /\ UNCHANGED joinTokens
    /\ UNCHANGED <<groups, members>>

(* The undo deletes the agent's membership, whichever request made it. *)
JoinUndo(r) ==
    /\ At(r, "join", "undo")
    /\ SetMember(req[r].on, req[r].by, None) \/ UNCHANGED members
    /\ Goto(r, "failed")
    /\ UNCHANGED <<groups, joinTokens>>

(***************************************************************************)
(* DELETE /v1/groups/:id/members/:agentDid and DELETE /v1/groups/:id       *)
(***************************************************************************)
RemoveMemberRead(r, g, a) ==
    /\ \E h \in Authenticated : HumanManages(h, g)
    /\ agents[a].status # "absent"
    /\ Begin(r, "remove", "write", a, g, None, FALSE)
    /\ UNCHANGED groupVars

RemoveMemberWrite(r) ==
    /\ At(r, "remove", "write")
    /\ SetMember(req[r].on, req[r].by, None)
    /\ Goto(r, "done")
    /\ UNCHANGED <<groups, joinTokens>>

DeleteGroupRead(r, g) ==
    /\ \E h \in Authenticated : HumanManages(h, g)
    /\ Begin(r, "deleteGroup", "tokens", None, g, None, FALSE)
    /\ UNCHANGED groupVars

(* Tokens, members, group, in that order; nothing is undone.  A token or   *)
(* member that came in between keeps the group's row alive.                *)
DeleteGroupWrite(r) ==
    LET g == req[r].on
    IN \/ /\ At(r, "deleteGroup", "tokens")
          /\ joinTokens' = [t \in Tokens |-> IF t \in TokensOf(g)
                               THEN [joinTokens[t] EXCEPT !.status = "deleted"]
                               ELSE joinTokens[t]]
          /\ Goto(r, "members")
          /\ UNCHANGED <<groups, members>>
       \/ /\ At(r, "deleteGroup", "members")
          /\ members' = [members EXCEPT ![g] = [a \in Agents |-> None]]
          /\ Goto(r, "group")
          /\ UNCHANGED <<groups, joinTokens>>
       \/ /\ At(r, "deleteGroup", "group")
          /\ IF MembersOf(g) = {} /\ TokensOf(g) = {}
             THEN groups' = [groups EXCEPT ![g] = "deleted"] /\ Goto(r, "done")
             ELSE Goto(r, "failed") /\ UNCHANGED groups
          /\ UNCHANGED <<members, joinTokens>>

(* Groups made earlier may have members that joined with used-up tokens. *)
GroupsInit ==
    /\ groups \in [Groups -> {h \in Humans : humans[h] # "absent"} \cup {None}]
    /\ members \in [Groups -> [Agents -> Roles \cup {None}]]
    /\ \A g \in Groups :
          /\ Cardinality(MembersOf(g)) <= MaxMembers
          /\ MembersOf(g) \subseteq {a \in Agents : agents[a].status # "absent"}
          /\ groups[g] = None => MembersOf(g) = {}
    /\ joinTokens = [t \in Tokens |-> [status |-> "unused", group |-> CHOOSE g \in Groups : TRUE,
                                       role |-> "member", used |-> 0, max |-> 1]]

GroupStep(r) ==
    \/ \E g \in Groups : IssueTokenRead(r, g) \/ DeleteGroupRead(r, g)
    \/ \E g \in Groups, a \in Agents : RemoveMemberRead(r, g, a)
    \/ \E a \in Agents, t \in Tokens : JoinRead(r, a, t)
    \/ IssueTokenInsert(r) \/ JoinInsert(r) \/ JoinUse(r) \/ JoinUndo(r)
    \/ RemoveMemberWrite(r) \/ DeleteGroupWrite(r)

(***************************************************************************)
(* Properties                                                              *)
(***************************************************************************)
(* However many agents join at the same time, a group never has more than  *)
(* MAX_GROUP_MEMBERS members (groups.ts, the insert counts them).          *)
MembersBounded == \A g \in Groups : Cardinality(MembersOf(g)) <= MaxMembers

(* A join token lets in at most max_uses agents, also when the last uses   *)
(* overlap: a request that inserted its agent and finds the token used up  *)
(* is not answered with success.                                           *)
TokenUsesBounded ==
    \A t \in Tokens :
        Cardinality({r \in Succeeded("join") : req[r].seen = t}) <= joinTokens[t].max
=============================================================================
