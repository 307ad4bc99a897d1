--------------------------- MODULE RegistryProofs ---------------------------
(***************************************************************************)
(* Proofs about the registry, for any number of requests, agents, invites, *)
(* groups and tokens.                                                      *)
(***************************************************************************)
EXTENDS Registry, FiniteSetTheorems, TLAPS

(* What the fields of a request name, by the operation it asks for. *)
RowFits(q) ==
    /\ q.op = "invite" => q.on \in Invites
    /\ q.op \in {"callback", "pass"} => q.on \in Subjects
    /\ q.op = "rotate" => q.on \in Services
    /\ q.op = "register" => q.on \in Challenges /\ q.by \in Humans
    /\ q.op \in {"revoke", "reissue", "refresh", "validate"} => q.on \in Agents /\ q.seen \in Agents
    /\ q.op = "authRevoke" => q.on \in Agents
    /\ q.op \in {"token", "deleteGroup"} => q.on \in Groups
    /\ q.op = "remove" => q.on \in Groups /\ q.by \in Agents
    /\ q.op = "join" => q.on \in Groups /\ q.by \in Agents /\ q.seen \in Tokens

RequestsInv == req \in [Requests -> RequestRow] /\ \A r \in Requests : RowFits(req[r])

TypeInv == RequestsInv /\ AccountsTypeOK /\ AgentsTypeOK /\ GroupsTypeOK

(***************************************************************************)
(* Steps of requests                                                       *)
(***************************************************************************)
AccountOps == {"bootstrap", "invite", "callback", "pass", "key", "service", "rotate"}
AgentOps == {"register", "revoke", "reissue", "refresh", "validate", "authRevoke"}
GroupOps == {"token", "join", "remove", "deleteGroup"}

(* Request r asks for one of the operations ops, and no other one moves. *)
Serves(r, ops) ==
    /\ req[r].op \in ops \cup {"none"}
    /\ req'[r].op \in ops
    /\ \A q \in Requests \ {r} : req'[q] = req[q]

(* Request r goes to statement pc, the others stay where they are. *)
Goes(r, pc) ==
    /\ req' \in [Requests -> RequestRow]
    /\ req'[r].op = req[r].op /\ req'[r].pc = pc /\ req'[r].by = req[r].by
    /\ req'[r].on = req[r].on /\ req'[r].seen = req[r].seen /\ req'[r].has = req[r].has
    /\ \A q \in Requests \ {r} : req'[q] = req[q]

(* Request r begins, the others stay where they are. *)
Begins(r, op, pc, by, on, seen) ==
    /\ req[r].op = "none"
    /\ req' \in [Requests -> RequestRow]
    /\ req'[r].op = op /\ req'[r].pc = pc /\ req'[r].by = by
    /\ req'[r].on = on /\ req'[r].seen = seen
    /\ \A q \in Requests \ {r} : req'[q] = req[q]

(* A statement that ends in Goto moves its request and no other. *)
LEMMA GotoGoes ==
    ASSUME RequestsInv, NEW r \in Requests, NEW pc \in Statements, Goto(r, pc)
    PROVE  Goes(r, pc)
  BY DEF Goto, Goes, RequestRow, RequestsInv

(* A request that begins changes no other. *)
LEMMA BeginBegins ==
    ASSUME RequestsInv, NEW r \in Requests,
           NEW op \in Operations, NEW pc \in Statements, NEW by \in Humans \cup Agents \cup {None},
           NEW on \in Invites \cup Subjects \cup Services \cup Agents \cup Challenges
                        \cup Groups \cup {None},
           NEW seen \in Agents \cup Tokens \cup {None}, NEW has \in BOOLEAN,
           Begin(r, op, pc, by, on, seen, has)
    PROVE  Begins(r, op, pc, by, on, seen)
<1>1. req[r].op = "none" /\ req \in [Requests -> RequestRow]
  BY DEF Begin, Idle, RequestsInv
<1>. DEFINE row == [op |-> op, pc |-> pc, up |-> TRUE, by |-> by, on |-> on, seen |-> seen, has |-> has]
<1>2. row \in RequestRow
  BY DEF RequestRow
<1>3. req' = [req EXCEPT ![r] = row]
  BY DEF Begin
<1>. QED  BY <1>1, <1>2, <1>3 DEF Begins

(* A request that moves asks for what it asked for. *)
LEMMA GoesFits ==
    ASSUME RequestsInv, NEW r \in Requests, NEW pc, Goes(r, pc), NEW ops, req[r].op \in ops
    PROVE  RequestsInv' /\ Serves(r, ops)
  BY DEF RequestsInv, Goes, RowFits, Serves

LEMMA BeginsFits ==
    ASSUME RequestsInv, NEW r \in Requests, NEW op, NEW pc, NEW by, NEW on, NEW seen,
           Begins(r, op, pc, by, on, seen), NEW ops, op \in ops, RowFits(req[r])'
    PROVE  RequestsInv' /\ Serves(r, ops)
  BY DEF RequestsInv, Begins, Serves

(***************************************************************************)
(* Types                                                                   *)
(***************************************************************************)
(* What the accounts' requests read decides where they begin. *)
LEMMA AccountReads ==
    ASSUME TypeInv, NEW r \in Requests
    PROVE  /\ BootstrapRead(r) => Begins(r, "bootstrap", "human", Admin, None, None)
           /\ \A i \in Invites : RedeemInviteRead(r, i) =>
                 Begins(r, "invite", "human", r, i, None) /\ Redeemable(i)
           /\ \A g \in Subjects : CallbackRead(r, g) =>
                 \E pc \in Statements : Begins(r, "callback", pc, None, g, None)
           /\ \A g \in Subjects : RedeemPassRead(r, g) =>
                 \E pc \in {"expire", "human", "failed"} : Begins(r, "pass", pc, r, g, passes[g].code)
           /\ \A h \in Humans : CreateApiKey(r, h) => Begins(r, "key", "done", h, None, None)
           /\ CreateServiceRead(r) => Begins(r, "service", "insert", Admin, r, None)
           /\ \A s \in Services : RotateServiceRead(r, s) =>
                 Begins(r, "rotate", "write", Admin, s, None)
<1>. USE DEF TypeInv
<1>0. Admin \in Humans /\ r \in Humans /\ r \in Services /\ r \in Agents
  BY DEF Humans, Services, Agents
<1>1. ASSUME BootstrapRead(r) PROVE Begins(r, "bootstrap", "human", Admin, None, None)
  BY <1>1, <1>0, BeginBegins DEF BootstrapRead, Operations, Statements
<1>2. ASSUME NEW i \in Invites, RedeemInviteRead(r, i)
      PROVE  Begins(r, "invite", "human", r, i, None) /\ Redeemable(i)
  BY <1>2, <1>0, BeginBegins DEF RedeemInviteRead, Operations, Statements
<1>3. ASSUME NEW g \in Subjects, CallbackRead(r, g)
      PROVE  \E pc \in Statements : Begins(r, "callback", pc, None, g, None)
  <2>1. PICK pc \in {"insert", "reissue", "noop", "failed"} :
           Begin(r, "callback", pc, None, g, None, FALSE)
    BY <1>3 DEF CallbackRead
  <2>2. "callback" \in Operations /\ pc \in Statements
    BY DEF Operations, Statements
  <2>. QED  BY <2>1, <2>2, BeginBegins
<1>4. ASSUME NEW g \in Subjects, RedeemPassRead(r, g)
      PROVE  \E pc \in {"expire", "human", "failed"} : Begins(r, "pass", pc, r, g, passes[g].code)
  <2>1. PICK pc \in {"expire", "human", "failed"} :
           Begin(r, "pass", pc, r, g, passes[g].code, FALSE)
    BY <1>4 DEF RedeemPassRead
  <2>2. "pass" \in Operations /\ pc \in Statements
    BY DEF Operations, Statements
  <2>3. passes[g].code \in Agents \cup {None}
    BY DEF AccountsTypeOK, PassRow, Agents
  <2>. QED  BY <2>1, <2>2, <2>3, <1>0, BeginBegins
<1>5. ASSUME NEW h \in Humans, CreateApiKey(r, h)
      PROVE  Begins(r, "key", "done", h, None, None)
  BY <1>5, <1>0, BeginBegins DEF CreateApiKey, Operations, Statements
<1>6. ASSUME CreateServiceRead(r) PROVE Begins(r, "service", "insert", Admin, r, None)
  BY <1>6, <1>0, BeginBegins DEF CreateServiceRead, Operations, Statements
<1>7. ASSUME NEW s \in Services, RotateServiceRead(r, s)
      PROVE  Begins(r, "rotate", "write", Admin, s, None)
  BY <1>7, <1>0, BeginBegins DEF RotateServiceRead, Operations, Statements
<1>. QED  BY <1>1, <1>2, <1>3, <1>4, <1>5, <1>6, <1>7

LEMMA AccountTypes ==
    ASSUME TypeInv, NEW r \in Requests, AccountStep(r)
    PROVE  RequestsInv' /\ AccountsTypeOK' /\ Serves(r, AccountOps)
<1>. DEFINE Goal == RequestsInv' /\ AccountsTypeOK' /\ Serves(r, AccountOps)
<1>. USE RequestsAssumption, AccountsAssumption DEF TypeInv
<1>1. CASE BootstrapRead(r)
  <2>1. RowFits(req[r])'
    BY <1>1, AccountReads DEF Begins, RowFits
  <2>. QED  BY <2>1, <1>1, AccountReads, BeginsFits DEF BootstrapRead, accountVars, AccountOps, AccountsTypeOK
<1>2. CASE BootstrapHuman(r) \/ BootstrapKey(r) \/ BootstrapService(r) \/ BootstrapUndo(r)
  <2>1. RequestsInv' /\ Serves(r, AccountOps)
    BY <1>2, GotoGoes, GoesFits
       DEF BootstrapHuman, BootstrapKey, BootstrapService, BootstrapUndo, At, Statements, AccountOps
  <2>2. AccountsTypeOK'
    BY <1>2 DEF BootstrapHuman, BootstrapKey, BootstrapService, BootstrapUndo,
         AccountsTypeOK, Humans, Keys, Services, Source, KeyRow, InsertKey, DeleteKey, DeleteHuman
  <2>. QED  BY <2>1, <2>2
<1>3. ASSUME NEW i \in Invites, RedeemInviteRead(r, i) PROVE Goal
  <2>1. RowFits(req[r])'
    BY <1>3, AccountReads DEF Begins, RowFits
  <2>. QED  BY <2>1, <1>3, AccountReads, BeginsFits DEF RedeemInviteRead, accountVars, AccountOps, AccountsTypeOK
<1>4. CASE \/ RedeemInviteHuman(r) \/ RedeemInviteClaim(r) \/ RedeemInviteKey(r) \/ RedeemInviteUndo(r)
  <2>1. RequestsInv' /\ Serves(r, AccountOps)
    BY <1>4, GotoGoes, GoesFits
       DEF RedeemInviteHuman, RedeemInviteClaim, RedeemInviteKey, RedeemInviteUndo, At, Statements, AccountOps
  <2>2. At(r, "invite", req[r].pc) /\ req[r].on \in Invites
    BY <1>4 DEF RedeemInviteHuman, RedeemInviteClaim, RedeemInviteKey, RedeemInviteUndo, At, RequestsInv, RowFits
  <2>3. AccountsTypeOK'
    BY <1>4, <2>2 DEF RedeemInviteHuman, RedeemInviteClaim, RedeemInviteKey, RedeemInviteUndo,
         AccountsTypeOK, Humans, Keys, Source, KeyRow, InviteRow, InsertKey, DeleteHuman
  <2>. QED  BY <2>1, <2>3
<1>5. ASSUME NEW g \in Subjects, CallbackRead(r, g) PROVE Goal
  <2>1. PICK pc \in Statements : Begins(r, "callback", pc, None, g, None)
    BY <1>5, AccountReads
  <2>2. RowFits(req[r])'
    BY <2>1 DEF Begins, RowFits
  <2>. QED  BY <2>1, <2>2, <1>5, BeginsFits DEF CallbackRead, accountVars, AccountOps, AccountsTypeOK
<1>6. ASSUME NEW g \in Subjects, RedeemPassRead(r, g) PROVE Goal
  <2>1. PICK pc \in {"expire", "human", "failed"} : Begins(r, "pass", pc, r, g, passes[g].code)
    BY <1>6, AccountReads
  <2>2. RowFits(req[r])'
    BY <2>1 DEF Begins, RowFits
  <2>. QED  BY <2>1, <2>2, <1>6, BeginsFits DEF RedeemPassRead, accountVars, AccountOps, AccountsTypeOK
<1>7. CASE \/ CallbackInsert(r) \/ CallbackReissue(r)
           \/ RedeemPassExpire(r) \/ RedeemPassHuman(r) \/ RedeemPassClaim(r)
           \/ RedeemPassKey(r) \/ RedeemPassUndo(r)
  <2>1. RequestsInv' /\ Serves(r, AccountOps)
    BY <1>7, GotoGoes, GoesFits
       DEF CallbackInsert, CallbackReissue, RedeemPassExpire, RedeemPassHuman, RedeemPassClaim,
           RedeemPassKey, RedeemPassUndo, At, Statements, AccountOps
  <2>2. req[r].on \in Subjects
    BY <1>7 DEF CallbackInsert, CallbackReissue, RedeemPassExpire, RedeemPassHuman, RedeemPassClaim,
           RedeemPassKey, RedeemPassUndo, At, RequestsInv, RowFits
  <2>3. CASE CallbackInsert(r) \/ CallbackReissue(r) \/ RedeemPassHuman(r) \/ RedeemPassKey(r)
    BY <2>3, <2>2, <2>1 DEF CallbackInsert, CallbackReissue, RedeemPassHuman, RedeemPassKey, NewPass,
         AccountsTypeOK, Humans, Keys, Source, KeyRow, PassRow, InsertKey
  <2>4. CASE RedeemPassExpire(r) \/ RedeemPassClaim(r)
    BY <2>4, <2>2, <2>1 DEF RedeemPassExpire, RedeemPassClaim, AccountsTypeOK, Humans, PassRow
  <2>5. CASE RedeemPassUndo(r)
    <3>1. passes' \in [Subjects -> PassRow]
      BY <2>5, <2>2 DEF RedeemPassUndo, AccountsTypeOK, PassRow
    <3>. QED  BY <3>1, <2>5, <2>1 DEF RedeemPassUndo, AccountsTypeOK, DeleteHuman
  <2>. QED  BY <1>7, <2>3, <2>4, <2>5
<1>8. ASSUME NEW h \in Humans, CreateApiKey(r, h) PROVE Goal
  <2>1. RowFits(req[r])'
    BY <1>8, AccountReads DEF Begins, RowFits
  <2>2. AccountsTypeOK'
    BY <1>8 DEF CreateApiKey, InsertKey, AccountsTypeOK, Humans, Keys, KeyRow
  <2>. QED  BY <2>1, <2>2, <1>8, AccountReads, BeginsFits DEF AccountOps
<1>9. CASE CreateServiceRead(r)
  <2>1. RowFits(req[r])'
    BY <1>9, AccountReads DEF Begins, RowFits
  <2>. QED  BY <2>1, <1>9, AccountReads, BeginsFits DEF CreateServiceRead, accountVars, AccountOps, AccountsTypeOK
<1>10. ASSUME NEW s \in Services, RotateServiceRead(r, s) PROVE Goal
  <2>1. RowFits(req[r])'
    BY <1>10, AccountReads DEF Begins, RowFits
  <2>. QED  BY <2>1, <1>10, AccountReads, BeginsFits DEF RotateServiceRead, accountVars, AccountOps, AccountsTypeOK
<1>11. CASE CreateServiceInsert(r) \/ RotateServiceWrite(r)
  <2>1. RequestsInv' /\ Serves(r, AccountOps)
    BY <1>11, GotoGoes, GoesFits DEF CreateServiceInsert, RotateServiceWrite, At, Statements, AccountOps
  <2>2. AccountsTypeOK'
    BY <1>11 DEF CreateServiceInsert, RotateServiceWrite, At, RequestsInv, RowFits, AccountsTypeOK, Services
  <2>. QED  BY <2>1, <2>2
<1>. QED
  BY <1>1, <1>2, <1>3, <1>4, <1>5, <1>6, <1>7, <1>8, <1>9, <1>10, <1>11 DEF AccountStep

LEMMA AgentReads ==
    ASSUME TypeInv, NEW r \in Requests
    PROVE  /\ \A c \in Challenges, h \in Humans : RegisterRead(r, c, h) =>
                 Begins(r, "register", "claim", h, c, None)
           /\ \A a \in Agents : RevokeRead(r, a) =>
                 \E pc \in {"noop", "agent"} :
                    /\ Begins(r, "revoke", pc, agents[a].owner, a, agents[a].jti)
                    /\ req'[r].has => sessions[a].status = "active"
                    /\ agents[a].status # "absent"
           /\ \A a \in Agents : ReissueRead(r, a) =>
                 /\ Begins(r, "reissue", "agent", agents[a].owner, a, agents[a].jti)
                 /\ agents[a].status = "active"
           /\ \A a, t \in Agents : RefreshRead(r, a, t) =>
                 \E pc \in {"failed", "expire", "rotate"} :
                    /\ Begins(r, "refresh", pc, a, a, t)
                    /\ Known(t) /\ sessions[a].status = "active"
                    /\ pc # "failed" => sessions[a].token = t
           /\ \A a, t \in Agents : ValidateRead(r, a, t) => Begins(r, "validate", "touch", a, a, t)
           /\ \A a \in Agents : AuthRevokeRead(r, a) =>
                 \E pc \in {"noop", "session"} : Begins(r, "authRevoke", pc, agents[a].owner, a, None)
<1>. USE DEF TypeInv
<1>1. ASSUME NEW c \in Challenges, NEW h \in Humans, RegisterRead(r, c, h)
      PROVE  Begins(r, "register", "claim", h, c, None)
  BY <1>1, BeginBegins DEF RegisterRead, Operations, Statements
<1>2. ASSUME NEW a \in Agents
      PROVE  agents[a].owner \in Humans /\ agents[a].jti \in Agents
  BY DEF AgentsTypeOK, AgentRow
<1>3. ASSUME NEW a \in Agents, RevokeRead(r, a)
      PROVE  \E pc \in {"noop", "agent"} :
                    /\ Begins(r, "revoke", pc, agents[a].owner, a, agents[a].jti)
                    /\ req'[r].has => sessions[a].status = "active"
                    /\ agents[a].status # "absent"
  <2>1. PICK pc \in {"noop", "agent"}, has \in BOOLEAN :
           Begin(r, "revoke", pc, agents[a].owner, a, agents[a].jti, has)
    BY <1>3 DEF RevokeRead
  <2>2. "revoke" \in Operations /\ pc \in Statements
    BY DEF Operations, Statements
  <2>3. Begins(r, "revoke", pc, agents[a].owner, a, agents[a].jti)
    BY <2>1, <2>2, <1>2, BeginBegins
  <2>4. agents[a].status # "absent"
    BY <1>3 DEF RevokeRead, OwnerAsks
  <2>5. req'[r].has = (sessions[a].status = "active")
    BY <1>3 DEF RevokeRead, Begin, RequestsInv
  <2>6. req'[r].has => sessions[a].status = "active"
    BY <2>5, Zenon
  <2>. QED  BY <2>3, <2>4, <2>6
<1>4. ASSUME NEW a \in Agents, ReissueRead(r, a)
      PROVE  /\ Begins(r, "reissue", "agent", agents[a].owner, a, agents[a].jti)
             /\ agents[a].status = "active"
  <2>1. "reissue" \in Operations /\ "agent" \in Statements
    BY DEF Operations, Statements
  <2>. QED  BY <2>1, <1>4, <1>2, BeginBegins DEF ReissueRead
<1>5. ASSUME NEW a \in Agents, NEW t \in Agents, RefreshRead(r, a, t)
      PROVE  \E pc \in {"failed", "expire", "rotate"} :
                    /\ Begins(r, "refresh", pc, a, a, t)
                    /\ Known(t) /\ sessions[a].status = "active"
                    /\ pc # "failed" => sessions[a].token = t
  <2>. DEFINE pc == CASE sessions[a].token # t -> "failed"
                      [] sessions[a].token = t /\ Expired("refresh", t) -> "expire"
                      [] OTHER -> "rotate"
  <2>0. Begin(r, "refresh", pc, a, a, t, FALSE)
    BY <1>5 DEF RefreshRead
  <2>1. pc \in {"failed", "expire", "rotate"} /\ (pc # "failed" => sessions[a].token = t)
    OBVIOUS
  <2>. HIDE DEF pc
  <2>2. "refresh" \in Operations /\ pc \in Statements
    BY <2>1 DEF Operations, Statements
  <2>3. Begins(r, "refresh", pc, a, a, t)
    BY <2>0, <2>1, <2>2, BeginBegins
  <2>. QED  BY <2>1, <2>3, <1>5 DEF RefreshRead
<1>6. ASSUME NEW a \in Agents, NEW t \in Agents, ValidateRead(r, a, t)
      PROVE  Begins(r, "validate", "touch", a, a, t)
  BY <1>6, BeginBegins DEF ValidateRead, Operations, Statements
<1>7. ASSUME NEW a \in Agents, AuthRevokeRead(r, a)
      PROVE  \E pc \in {"noop", "session"} : Begins(r, "authRevoke", pc, agents[a].owner, a, None)
  <2>1. PICK pc \in {"noop", "session"} : Begin(r, "authRevoke", pc, agents[a].owner, a, None, FALSE)
    BY <1>7 DEF AuthRevokeRead
  <2>2. "authRevoke" \in Operations /\ pc \in Statements
    BY DEF Operations, Statements
  <2>. QED  BY <2>1, <2>2, <1>2, BeginBegins
<1>. QED  BY <1>1, <1>3, <1>4, <1>5, <1>6, <1>7

LEMMA AgentTypes ==
    ASSUME TypeInv, NEW r \in Requests, AgentStep(r)
    PROVE  RequestsInv' /\ AgentsTypeOK' /\ Serves(r, AgentOps)
<1>. DEFINE Goal == RequestsInv' /\ AgentsTypeOK' /\ Serves(r, AgentOps)
<1>. USE DEF TypeInv
<1>1. ASSUME NEW c \in Challenges, NEW h \in Humans, RegisterRead(r, c, h) PROVE Goal
  <2>1. Begins(r, "register", "claim", h, c, None)
    BY <1>1, AgentReads
  <2>2. RowFits(req[r])'
    BY <2>1 DEF Begins, RowFits
  <2>. QED  BY <2>1, <2>2, <1>1, BeginsFits DEF RegisterRead, agentVars, AgentOps, AgentsTypeOK
<1>2. CASE \/ RegisterClaim(r) \/ RegisterCount(r) \/ RegisterAgent(r)
           \/ RegisterSession(r) \/ RegisterEvent(r) \/ RegisterUndo(r)
  <2>1. RequestsInv' /\ Serves(r, AgentOps)
    BY <1>2, GotoGoes, GoesFits
       DEF RegisterClaim, RegisterCount, RegisterAgent, RegisterSession, RegisterEvent, RegisterUndo,
           At, Statements, AgentOps
  <2>2. req[r].on \in Challenges /\ req[r].by \in Humans
    BY <1>2 DEF RegisterClaim, RegisterCount, RegisterAgent, RegisterSession, RegisterEvent, RegisterUndo,
         At, RequestsInv, RowFits
  <2>3. CASE RegisterClaim(r) \/ RegisterCount(r) \/ RegisterEvent(r)
    BY <2>3, <2>1, <2>2 DEF RegisterClaim, RegisterCount, RegisterEvent, agentVars,
         AgentsTypeOK, ChallengeRow
  <2>4. CASE RegisterAgent(r) \/ RegisterSession(r)
    BY <2>4, <2>1, <2>2 DEF RegisterAgent, RegisterSession, NewAgent, NewSession,
         AgentsTypeOK, AgentRow, SessionRow, Agents
  <2>5. CASE RegisterUndo(r)
    BY <2>5, <2>1, <2>2 DEF RegisterUndo, AgentsTypeOK, ChallengeRow, AgentRow, SessionRow, Agents
  <2>. QED  BY <1>2, <2>3, <2>4, <2>5
<1>3. ASSUME NEW a \in Agents, RevokeRead(r, a) PROVE Goal
  <2>1. PICK pc : Begins(r, "revoke", pc, agents[a].owner, a, agents[a].jti)
    BY <1>3, AgentReads
  <2>2. RowFits(req[r])'
    BY <2>1 DEF Begins, RowFits, AgentsTypeOK, AgentRow
  <2>. QED  BY <2>1, <2>2, <1>3, BeginsFits DEF RevokeRead, agentVars, AgentOps, AgentsTypeOK
<1>4. ASSUME NEW a \in Agents, ReissueRead(r, a) PROVE Goal
  <2>1. Begins(r, "reissue", "agent", agents[a].owner, a, agents[a].jti)
    BY <1>4, AgentReads
  <2>2. RowFits(req[r])'
    BY <2>1 DEF Begins, RowFits, AgentsTypeOK, AgentRow
  <2>. QED  BY <2>1, <2>2, <1>4, BeginsFits DEF ReissueRead, agentVars, AgentOps, AgentsTypeOK
<1>5. ASSUME NEW a \in Agents, AuthRevokeRead(r, a) PROVE Goal
  <2>1. PICK pc : Begins(r, "authRevoke", pc, agents[a].owner, a, None)
    BY <1>5, AgentReads
  <2>2. RowFits(req[r])'
    BY <2>1 DEF Begins, RowFits
  <2>. QED  BY <2>1, <2>2, <1>5, BeginsFits DEF AuthRevokeRead, agentVars, AgentOps, AgentsTypeOK
<1>6. ASSUME NEW a \in Agents, NEW t \in Agents, RefreshRead(r, a, t) PROVE Goal
  <2>1. PICK pc : Begins(r, "refresh", pc, a, a, t)
    BY <1>6, AgentReads
  <2>2. RowFits(req[r])'
    BY <2>1 DEF Begins, RowFits
  <2>. QED  BY <2>1, <2>2, <1>6, BeginsFits DEF RefreshRead, agentVars, AgentOps, AgentsTypeOK
<1>7. ASSUME NEW a \in Agents, NEW t \in Agents, ValidateRead(r, a, t) PROVE Goal
  <2>1. Begins(r, "validate", "touch", a, a, t)
    BY <1>7, AgentReads
  <2>2. RowFits(req[r])'
    BY <2>1 DEF Begins, RowFits
  <2>. QED  BY <2>1, <2>2, <1>7, BeginsFits DEF ValidateRead, agentVars, AgentOps, AgentsTypeOK
<1>8. CASE \/ RevokeAgent(r) \/ RevokeList(r) \/ RevokeSession(r) \/ RevokeEvent(r)
           \/ ReissueAgent(r) \/ ReissueList(r)
           \/ RefreshExpire(r) \/ RefreshRotate(r) \/ RefreshEvent(r)
           \/ ValidateTouch(r) \/ AuthRevokeSession(r)
  <2>1. RequestsInv' /\ Serves(r, AgentOps)
    BY <1>8, GotoGoes, GoesFits
       DEF RevokeAgent, RevokeList, RevokeSession, RevokeEvent, ReissueAgent, ReissueList,
           RefreshExpire, RefreshRotate, RefreshEvent, ValidateTouch, AuthRevokeSession,
           At, Statements, AgentOps
  <2>2. req[r].on \in Agents /\ (req[r].op # "authRevoke" => req[r].seen \in Agents)
    BY <1>8 DEF RevokeAgent, RevokeList, RevokeSession, RevokeEvent, ReissueAgent, ReissueList,
         RefreshExpire, RefreshRotate, RefreshEvent, ValidateTouch, AuthRevokeSession,
         At, RequestsInv, RowFits
  <2>3. CASE RevokeAgent(r) \/ ReissueAgent(r)
    BY <2>3, <2>1, <2>2 DEF RevokeAgent, ReissueAgent, Reissued, AgentsTypeOK, AgentRow, Agents
  <2>4. CASE RevokeList(r) \/ RevokeEvent(r) \/ ReissueList(r)
    BY <2>4, <2>1, <2>2 DEF RevokeList, RevokeEvent, ReissueList, At, AgentsTypeOK
  <2>5. CASE RevokeSession(r) \/ RefreshExpire(r) \/ RefreshRotate(r) \/ AuthRevokeSession(r)
    BY <2>5, <2>1, <2>2
       DEF RevokeSession, RefreshExpire, RefreshRotate, AuthRevokeSession, AgentsTypeOK, SessionRow, Agents
  <2>6. CASE RefreshEvent(r) \/ ValidateTouch(r)
    BY <2>6, <2>1 DEF RefreshEvent, ValidateTouch, agentVars, AgentsTypeOK
  <2>. QED  BY <1>8, <2>3, <2>4, <2>5, <2>6
<1>. QED
  BY <1>1, <1>2, <1>3, <1>4, <1>5, <1>6, <1>7, <1>8 DEF AgentStep

LEMMA GroupReads ==
    ASSUME TypeInv, NEW r \in Requests
    PROVE  /\ \A g \in Groups : IssueTokenRead(r, g) => Begins(r, "token", "insert", None, g, None)
           /\ \A g \in Groups : DeleteGroupRead(r, g) =>
                 Begins(r, "deleteGroup", "tokens", None, g, None)
           /\ \A g \in Groups, a \in Agents : RemoveMemberRead(r, g, a) =>
                 Begins(r, "remove", "write", a, g, None)
           /\ \A a \in Agents, t \in Tokens : JoinRead(r, a, t) =>
                 \E pc \in {"noop", "insert"} :
                    /\ Begins(r, "join", pc, a, joinTokens[t].group, t)
                    /\ joinTokens[t].status = "live"
<1>. USE DEF TypeInv
<1>1. ASSUME NEW g \in Groups, IssueTokenRead(r, g)
      PROVE  Begins(r, "token", "insert", None, g, None)
  BY <1>1, BeginBegins DEF IssueTokenRead, Operations, Statements
<1>2. ASSUME NEW g \in Groups, DeleteGroupRead(r, g)
      PROVE  Begins(r, "deleteGroup", "tokens", None, g, None)
  BY <1>2, BeginBegins DEF DeleteGroupRead, Operations, Statements
<1>3. ASSUME NEW g \in Groups, NEW a \in Agents, RemoveMemberRead(r, g, a)
      PROVE  Begins(r, "remove", "write", a, g, None)
  BY <1>3, BeginBegins DEF RemoveMemberRead, Operations, Statements
<1>4. ASSUME NEW a \in Agents, NEW t \in Tokens, JoinRead(r, a, t)
      PROVE  \E pc \in {"noop", "insert"} :
                /\ Begins(r, "join", pc, a, joinTokens[t].group, t)
                /\ joinTokens[t].status = "live"
  <2>1. PICK pc \in {"noop", "insert"} : Begin(r, "join", pc, a, joinTokens[t].group, t, FALSE)
    BY <1>4 DEF JoinRead
  <2>2. "join" \in Operations /\ pc \in Statements
    BY DEF Operations, Statements
  <2>3. joinTokens[t].group \in Groups
    BY DEF GroupsTypeOK, TokenRow
  <2>. QED  BY <2>1, <2>2, <2>3, <1>4, BeginBegins DEF JoinRead
<1>. QED  BY <1>1, <1>2, <1>3, <1>4

LEMMA GroupTypes ==
    ASSUME TypeInv, NEW r \in Requests, GroupStep(r)
    PROVE  RequestsInv' /\ GroupsTypeOK' /\ Serves(r, GroupOps)
<1>. DEFINE Goal == RequestsInv' /\ GroupsTypeOK' /\ Serves(r, GroupOps)
<1>. USE GroupsAssumption DEF TypeInv
<1>1. ASSUME NEW g \in Groups, IssueTokenRead(r, g) \/ DeleteGroupRead(r, g) PROVE Goal
  <2>1. RowFits(req[r])'
    BY <1>1, GroupReads DEF Begins, RowFits
  <2>. QED
    BY <2>1, <1>1, GroupReads, BeginsFits
       DEF IssueTokenRead, DeleteGroupRead, groupVars, GroupOps, GroupsTypeOK
<1>2. ASSUME NEW g \in Groups, NEW a \in Agents, RemoveMemberRead(r, g, a) PROVE Goal
  <2>1. Begins(r, "remove", "write", a, g, None)
    BY <1>2, GroupReads
  <2>2. RowFits(req[r])'
    BY <2>1 DEF Begins, RowFits
  <2>. QED  BY <2>1, <2>2, <1>2, BeginsFits DEF RemoveMemberRead, groupVars, GroupOps, GroupsTypeOK
<1>3. ASSUME NEW a \in Agents, NEW t \in Tokens, JoinRead(r, a, t) PROVE Goal
  <2>1. PICK pc : Begins(r, "join", pc, a, joinTokens[t].group, t)
    BY <1>3, GroupReads
  <2>2. RowFits(req[r])'
    BY <2>1 DEF Begins, RowFits, GroupsTypeOK, TokenRow
  <2>. QED  BY <2>1, <2>2, <1>3, BeginsFits DEF JoinRead, groupVars, GroupOps, GroupsTypeOK
<1>4. CASE \/ IssueTokenInsert(r) \/ JoinInsert(r) \/ JoinUse(r) \/ JoinUndo(r)
           \/ RemoveMemberWrite(r) \/ DeleteGroupWrite(r)
  <2>1. RequestsInv' /\ Serves(r, GroupOps)
    BY <1>4, GotoGoes, GoesFits
       DEF IssueTokenInsert, JoinInsert, JoinUse, JoinUndo, RemoveMemberWrite, DeleteGroupWrite,
           At, Statements, GroupOps
  <2>2. /\ req[r].on \in Groups
        /\ req[r].op \in {"join", "remove"} => req[r].by \in Agents
        /\ req[r].op = "join" => req[r].seen \in Tokens
    BY <1>4 DEF IssueTokenInsert, JoinInsert, JoinUse, JoinUndo, RemoveMemberWrite, DeleteGroupWrite,
         At, RequestsInv, RowFits
  <2>3. CASE IssueTokenInsert(r)
    BY <2>3, <2>1, <2>2 DEF IssueTokenInsert, NewTokens, GroupsTypeOK, TokenRow
  <2>4. CASE JoinInsert(r) \/ JoinUndo(r) \/ RemoveMemberWrite(r)
    <3>1. joinTokens \in [Tokens -> TokenRow] /\ UNCHANGED <<groups, joinTokens>>
      BY <2>4 DEF JoinInsert, JoinUndo, RemoveMemberWrite, GroupsTypeOK
    <3>2. PICK role \in Roles \cup {None} : SetMember(req[r].on, req[r].by, role) \/ UNCHANGED members
      BY <2>4, <2>2 DEF JoinInsert, JoinUndo, RemoveMemberWrite, At, GroupsTypeOK, TokenRow
    <3>3. req[r].by \in Agents
      BY <2>4, <2>2 DEF JoinInsert, JoinUndo, RemoveMemberWrite, At
    <3>4. members' \in [Groups -> [Agents -> Roles \cup {None}]]
      BY <3>2, <3>3, <2>2 DEF SetMember, GroupsTypeOK
    <3>. QED  BY <3>1, <3>4, <2>1 DEF GroupsTypeOK
  <2>5. CASE JoinUse(r)
    BY <2>5, <2>1, <2>2 DEF JoinUse, At, GroupsTypeOK, TokenRow
  <2>6. CASE DeleteGroupWrite(r)
    <3>1. joinTokens' \in [Tokens -> TokenRow]
      <4>. DEFINE Deleted(t) == [joinTokens[t] EXCEPT !.status = "deleted"]
      <4>1. ASSUME NEW t \in Tokens PROVE Deleted(t) \in TokenRow /\ joinTokens[t] \in TokenRow
        BY DEF GroupsTypeOK, TokenRow
      <4>2. \/ joinTokens' = [t \in Tokens |-> IF t \in TokensOf(req[r].on) THEN Deleted(t)
                                                                         ELSE joinTokens[t]]
            \/ UNCHANGED joinTokens
        BY <2>6 DEF DeleteGroupWrite
      <4>. HIDE DEF Deleted
      <4>. QED  BY <4>1, <4>2 DEF GroupsTypeOK
    <3>2. members' \in [Groups -> [Agents -> Roles \cup {None}]]
      BY <2>6, <2>2 DEF DeleteGroupWrite, GroupsTypeOK
    <3>3. groups' \in [Groups -> Humans \cup {None, "deleted"}]
      BY <2>6, <2>2 DEF DeleteGroupWrite, GroupsTypeOK
    <3>. QED  BY <3>1, <3>2, <3>3, <2>1 DEF GroupsTypeOK
  <2>. QED  BY <1>4, <2>3, <2>4, <2>5, <2>6
<1>. QED
  BY <1>1, <1>2, <1>3, <1>4 DEF GroupStep

(* Requests for the operations ops are where they were, though a worker may *)
(* have stopped.                                                           *)
Steady(ops) ==
    \A q \in Requests :
        req[q].op \in ops \/ req'[q].op \in ops =>
        /\ req'[q].op = req[q].op /\ req'[q].pc = req[q].pc /\ req'[q].by = req[q].by
        /\ req'[q].on = req[q].on /\ req'[q].seen = req[q].seen /\ req'[q].has = req[q].has

LEMMA ServesSteady ==
    ASSUME NEW r \in Requests, NEW mine, NEW others, Serves(r, mine),
           mine \cap others = {}, "none" \notin others
    PROVE  Steady(others)
  BY DEF Serves, Steady

LEMMA StopSteady ==
    ASSUME RequestsInv, NEW r \in Requests, WorkerStops(r), NEW ops
    PROVE  RequestsInv' /\ Steady(ops)
<1>1. req \in [Requests -> RequestRow] /\ req' = [req EXCEPT ![r].up = FALSE]
  BY DEF RequestsInv, WorkerStops
<1>2. req' \in [Requests -> RequestRow]
  BY <1>1 DEF RequestRow
<1>3. Steady(ops)
  BY <1>1 DEF Steady, RequestRow
<1>4. \A q \in Requests : RowFits(req[q])'
  BY <1>1 DEF RequestsInv, RowFits, RequestRow
<1>. QED  BY <1>2, <1>3, <1>4 DEF RequestsInv

LEMMA SameSteady ==
    ASSUME UNCHANGED req, NEW ops
    PROVE  Steady(ops) /\ (RequestsInv => RequestsInv')
  BY DEF Steady, RequestsInv

(* The requests of one family of operations leave those of the others and  *)
(* their tables alone, and every step keeps the types.                     *)
LEMMA Families ==
    ASSUME TypeInv, [Next]_vars
    PROVE  /\ TypeInv'
           /\ AccountNext \/ (Steady(AccountOps) /\ UNCHANGED accountVars)
           /\ AgentNext \/ (Steady(AgentOps) /\ UNCHANGED agentVars)
           /\ GroupNext \/ (Steady(GroupOps) /\ UNCHANGED groupVars)
<1>. DEFINE Goal == /\ TypeInv'
                    /\ AccountNext \/ (Steady(AccountOps) /\ UNCHANGED accountVars)
                    /\ AgentNext \/ (Steady(AgentOps) /\ UNCHANGED agentVars)
                    /\ GroupNext \/ (Steady(GroupOps) /\ UNCHANGED groupVars)
<1>u. /\ UNCHANGED accountVars => AccountsTypeOK'
      /\ UNCHANGED agentVars => AgentsTypeOK'
      /\ UNCHANGED groupVars => GroupsTypeOK'
  BY DEF TypeInv, AccountsTypeOK, AgentsTypeOK, GroupsTypeOK, accountVars, agentVars, groupVars
<1>d. /\ AccountOps \cap AgentOps = {} /\ AccountOps \cap GroupOps = {} /\ AgentOps \cap GroupOps = {}
      /\ AgentOps \cap AccountOps = {} /\ GroupOps \cap AccountOps = {} /\ GroupOps \cap AgentOps = {}
      /\ "none" \notin AccountOps /\ "none" \notin AgentOps /\ "none" \notin GroupOps
  BY DEF AccountOps, AgentOps, GroupOps
<1>1. CASE AccountNext
  <2>1. RequestsInv' /\ AccountsTypeOK' /\ Steady(AgentOps) /\ Steady(GroupOps)
    <3>1. ASSUME NEW r \in Requests, AccountStep(r)
          PROVE  RequestsInv' /\ AccountsTypeOK' /\ Steady(AgentOps) /\ Steady(GroupOps)
      BY <3>1, <1>d, AccountTypes, ServesSteady
    <3>2. ASSUME NEW i \in Invites, CreateInvite(i)
          PROVE  RequestsInv' /\ AccountsTypeOK' /\ Steady(AgentOps) /\ Steady(GroupOps)
      <4>1. AccountsTypeOK'
        BY <3>2 DEF TypeInv, CreateInvite, NewInvite, AccountsTypeOK, InviteRow
      <4>. QED  BY <3>2, <4>1, SameSteady DEF CreateInvite, TypeInv
    <3>3. ASSUME NEW k \in Keys, RevokeApiKey(k)
          PROVE  RequestsInv' /\ AccountsTypeOK' /\ Steady(AgentOps) /\ Steady(GroupOps)
      <4>1. AccountsTypeOK'
        BY <3>3 DEF TypeInv, RevokeApiKey, AccountsTypeOK, KeyRow
      <4>. QED  BY <3>3, <4>1, SameSteady DEF RevokeApiKey, TypeInv
    <3>. QED  BY <1>1, <3>1, <3>2, <3>3 DEF AccountNext
  <2>. QED  BY <1>1, <1>u, <2>1 DEF AccountNext, TypeInv
<1>2. CASE AgentNext
  <2>1. RequestsInv' /\ AgentsTypeOK' /\ Steady(AccountOps) /\ Steady(GroupOps)
    <3>1. ASSUME NEW r \in Requests, AgentStep(r)
          PROVE  RequestsInv' /\ AgentsTypeOK' /\ Steady(AccountOps) /\ Steady(GroupOps)
      BY <3>1, <1>d, AgentTypes, ServesSteady
    <3>2. ASSUME NEW c \in Challenges, NEW h \in Humans, CreateChallenge(c, h)
          PROVE  RequestsInv' /\ AgentsTypeOK' /\ Steady(AccountOps) /\ Steady(GroupOps)
      <4>1. AgentsTypeOK'
        BY <3>2 DEF TypeInv, CreateChallenge, NewChallenge, AgentsTypeOK, ChallengeRow
      <4>. QED  BY <3>2, <4>1, SameSteady DEF CreateChallenge, TypeInv
    <3>. QED  BY <1>2, <3>1, <3>2 DEF AgentNext
  <2>. QED  BY <1>2, <1>u, <2>1 DEF AgentNext, TypeInv
<1>3. CASE GroupNext
  <2>1. RequestsInv' /\ GroupsTypeOK' /\ Steady(AccountOps) /\ Steady(AgentOps)
    <3>1. ASSUME NEW r \in Requests, GroupStep(r)
          PROVE  RequestsInv' /\ GroupsTypeOK' /\ Steady(AccountOps) /\ Steady(AgentOps)
      BY <3>1, <1>d, GroupTypes, ServesSteady
    <3>2. ASSUME NEW g \in Groups, NEW h \in Humans, CreateGroup(g, h)
          PROVE  RequestsInv' /\ GroupsTypeOK' /\ Steady(AccountOps) /\ Steady(AgentOps)
      <4>1. GroupsTypeOK'
        BY <3>2 DEF TypeInv, CreateGroup, GroupsTypeOK
      <4>. QED  BY <3>2, <4>1, SameSteady DEF CreateGroup, TypeInv
    <3>. QED  BY <1>3, <3>1, <3>2 DEF GroupNext
  <2>. QED  BY <1>3, <1>u, <2>1 DEF GroupNext, TypeInv
<1>4. CASE TimePasses \/ UNCHANGED vars
  <2>1. UNCHANGED <<req, accountVars, agentVars, groupVars>>
    BY <1>4 DEF TimePasses, vars
  <2>. QED  BY <1>u, <2>1, SameSteady DEF TypeInv
<1>5. CASE WorkersStop
  <2>1. UNCHANGED <<accountVars, agentVars, groupVars>>
    BY <1>5 DEF WorkersStop
  <2>2. RequestsInv' /\ Steady(AccountOps) /\ Steady(AgentOps) /\ Steady(GroupOps)
    BY <1>5, StopSteady DEF WorkersStop, TypeInv
  <2>. QED  BY <1>u, <2>1, <2>2 DEF TypeInv
<1>. QED  BY <1>1, <1>2, <1>3, <1>4, <1>5 DEF Next

LEMMA TypesAtFirst == Init => TypeInv
<1>. SUFFICES ASSUME Init PROVE TypeInv
  OBVIOUS
<1>1. RequestsInv
  <2>1. Idle \in RequestRow
    BY DEF Idle, RequestRow, Operations, Statements
  <2>2. RowFits(Idle)
    BY DEF Idle, RowFits
  <2>. QED  BY <2>1, <2>2 DEF Init, RequestsInv
<1>2. AccountsTypeOK
  <2>1. PICK source \in {"invite", "github_starter_pass"}, booted \in BOOLEAN :
        /\ humans = [h \in Humans |-> CASE h = Owner -> source
                                       [] h = Admin /\ booted -> "admin_bootstrap"
                                       [] OTHER -> "absent"]
        /\ apiKeys = [k \in Keys |->
              [human |-> IF k = Admin THEN Admin ELSE Owner,
               status |-> IF k = Owner \/ (k = Admin /\ booted) THEN "active" ELSE "absent"]]
        /\ services = [s \in Services |-> IF s = Svc /\ booted THEN Admin ELSE None]
        /\ invites = [i \in Invites |-> [live |-> FALSE, by |-> None]]
        /\ passes = [g \in Subjects |-> [status |-> "absent", code |-> None, by |-> None]]
        /\ reissued = [g \in Subjects |-> 0]
    BY DEF Init, AccountsInit
  <2>2. humans \in [Humans -> Source \cup {"absent"}]
    BY <2>1, RequestsAssumption DEF Source
  <2>3. apiKeys \in [Keys -> KeyRow]
    BY <2>1 DEF KeyRow, Humans
  <2>4. services \in [Services -> Requests \cup {Admin, None}]
    BY <2>1
  <2>5. invites \in [Invites -> InviteRow]
    BY <2>1 DEF InviteRow
  <2>6. passes \in [Subjects -> PassRow] /\ reissued \in [Subjects -> Nat]
    BY <2>1 DEF PassRow
  <2>. QED  BY <2>2, <2>3, <2>4, <2>5, <2>6 DEF AccountsTypeOK
<1>3. AgentsTypeOK
  BY DEF Init, AgentsInit, AgentsTypeOK, ChallengeRow, AgentRow, SessionRow, Humans, Agents
<1>4. GroupsTypeOK
  <2>1. joinTokens = [t \in Tokens |-> [status |-> "unused", group |-> CHOOSE g \in Groups : TRUE,
                                       role |-> "member", used |-> 0, max |-> 1]]
    BY DEF Init, GroupsInit
  <2>2. (CHOOSE g \in Groups : TRUE) \in Groups
    BY GroupsAssumption
  <2>3. joinTokens \in [Tokens -> TokenRow]
    BY <2>1, <2>2, GroupsAssumption DEF TokenRow, Roles
  <2>. QED  BY <2>3 DEF Init, GroupsInit, GroupsTypeOK
<1>. QED  BY <1>1, <1>2, <1>3, <1>4 DEF TypeInv

LEMMA Types == Spec => []TypeInv
<1>1. TypeInv /\ [Next]_vars => TypeInv'
  BY Families
<1>. QED  BY <1>1, TypesAtFirst, PTL DEF Spec

(* Every row of the registry's tables and every request has the type the   *)
(* handlers give it, whatever requests overlap or stop.                    *)
THEOREM RegistryTypeOK == Spec => []TypeOK
<1>1. TypeInv => TypeOK
  BY DEF TypeInv, TypeOK, RequestsInv
<1>. QED  BY <1>1, Types, PTL

(***************************************************************************)
(* The inductive invariants                                                *)
(***************************************************************************)
(* A request that wrote its claim on an invite owns the invite and has a   *)
(* human; an invite that was read has a row, which is made once.           *)
InviteInv ==
    \A r \in Requests : req[r].op = "invite" =>
        /\ invites[req[r].on].live
        /\ req[r].pc \in {"claim", "key", "done"} => humans[r] = "invite"
        /\ req[r].pc \in {"key", "done"} => invites[req[r].on].by = r

(* The bootstrap that made the administrator and has not given up. *)
Booting(r) ==
    /\ req[r].op = "bootstrap"
    /\ req[r].pc \in {"key", "service", "done", "undo_service", "undo_key", "undo_human"}

(* There is one such bootstrap, and only it undoes what bootstraps made. *)
BootInv ==
    /\ \A r \in Requests : Booting(r) => humans[Admin] = "admin_bootstrap"
    /\ \A r, q \in Requests : Booting(r) /\ Booting(q) => r = q
    /\ \A r \in Requests :
          req[r].op = "bootstrap" /\ req[r].pc \in {"service", "done"} =>
          apiKeys[r].human = Admin /\ apiKeys[r].status # "absent"
    /\ \A r \in Requests : req[r].op = "bootstrap" /\ req[r].pc = "done" => services[Svc] # None

(* The redemptions that wrote their claim on the pass of g and did not     *)
(* take it back.                                                           *)
Claimed(g) == {r \in Requests : /\ req[r].op = "pass" /\ req[r].on = g
                                /\ req[r].pc \in {"key", "undo_claim", "done"}}

(* A claim is the pass's present one, or one the pass had before it was    *)
(* issued again.                                                           *)
PassInv ==
    \A g \in Subjects :
        /\ passes[g].status = "absent" => passes[g].by = None
        /\ Cardinality(Claimed(g)) <= reissued[g] + (IF passes[g].by = None THEN 0 ELSE 1)

AccountInv == InviteInv /\ BootInv /\ PassInv

(* The row of agent a was made, the row of its session was. *)
AgentMade(a) ==
    \/ a \in Seeds
    \/ a \in Requests /\ req[a].op = "register" /\ req[a].pc \notin {"claim", "count", "agent"}

SessionMade(a) ==
    \/ a \in Seeds
    \/ /\ a \in Requests /\ req[a].op = "register"
       /\ req[a].pc \notin {"claim", "count", "agent", "session"}

(* Requests about an agent were made when its row was there. *)
RequestMade(r) ==
    /\ req[r].op \in {"revoke", "reissue"} => AgentMade(req[r].on)
    /\ req[r].op = "revoke" /\ req[r].has => SessionMade(req[r].on)
    /\ req[r].op = "refresh" => SessionMade(req[r].on)

MadeInv ==
    /\ \A a \in Agents : agents[a].status # "absent" => AgentMade(a)
    /\ \A a \in Agents : sessions[a].status # "absent" => SessionMade(a)
    /\ \A r \in Requests : RequestMade(r)

(* The AITs of agent a that were made, handed out or not yet. *)
Issued(a) == {a} \cup {r \in Requests : /\ req[r].op = "reissue" /\ req[r].on = a
                                        /\ req[r].pc \in {"list", "done"}}

(* A reissue is about to list the AIT j. *)
Listing(j) == \E r \in Requests : req[r].op = "reissue" /\ req[r].pc = "list" /\ req[r].seen = j

IssuedInv ==
    \A a \in Agents : agents[a].status # "absent" =>
        \A j \in Issued(a) : j = agents[a].jti \/ j \in crl \/ Listing(j)

(* What a revocation has closed stays closed: an agent and a session are   *)
(* made once.                                                              *)
RevokeInv ==
    /\ \A r \in Requests : req[r].op = "revoke" =>
          /\ req[r].pc \in {"list", "session", "event", "done"} => agents[req[r].on].status # "active"
          /\ req[r].pc \in {"session", "event"} => req[r].has
          /\ req[r].has /\ req[r].pc \in {"event", "done"} => sessions[req[r].on].status # "active"
    /\ \A a \in published :
          SessionMade(a) /\ agents[a].status # "active" /\ sessions[a].status # "active"

(* The tokens that the session of agent a may have had. *)
TokenOf(t, a) == t = a \/ (t \in Requests /\ req[t].op = "refresh" /\ req[t].on = a)

(* A token that was exchanged is no session's any more, and none gets it   *)
(* again: new tokens are named after requests that nobody has presented.   *)
RefreshInv ==
    /\ \A r \in Requests : req[r].op = "refresh" =>
          /\ \/ req[r].seen \in Seeds
             \/ /\ req[r].seen \in Requests /\ req[req[r].seen].pc = "done"
                /\ req[req[r].seen].op \in {"register", "refresh"}
          /\ req[r].pc # "failed" => TokenOf(req[r].seen, req[r].on)
    /\ \A a \in Agents : TokenOf(sessions[a].token, a)
    /\ \A r \in Requests : req[r].op = "refresh" /\ req[r].pc \in {"event", "done"} =>
          sessions[req[r].on].token # req[r].seen
    /\ RefreshOnce

AgentInv == MadeInv /\ IssuedInv /\ RevokeInv /\ RefreshInv

(* The successful joins with token t. *)
Joined(t) == {r \in Requests : req[r].op = "join" /\ req[r].pc = "done" /\ req[r].seen = t}

(* Each success was counted by the update of its token. *)
GroupInv ==
    /\ \A r \in Requests : req[r].op = "join" => joinTokens[req[r].seen].status # "unused"
    /\ \A t \in Tokens : /\ Cardinality(Joined(t)) <= joinTokens[t].used
                         /\ joinTokens[t].used <= joinTokens[t].max
    /\ MembersBounded

(***************************************************************************)
(* Accounts                                                                *)
(***************************************************************************)
LEMMA InvitesStep ==
    ASSUME TypeInv, TypeInv', InviteInv, AccountNext
    PROVE  InviteInv'
<1>. USE RequestsAssumption DEF TypeInv, RequestsInv, AccountsTypeOK
<1>1. ASSUME NEW r \in Requests, AccountStep(r) PROVE InviteInv'
  <2>1. CASE BootstrapRead(r)
    <3>1. Begins(r, "bootstrap", "human", Admin, None, None)
      BY <2>1, AccountReads
    <3>. QED  BY <3>1, <2>1 DEF Begins, BootstrapRead, accountVars, InviteInv
  <2>2. CASE BootstrapHuman(r) \/ BootstrapKey(r) \/ BootstrapService(r) \/ BootstrapUndo(r)
    <3>1. PICK pc : Goes(r, pc)
      BY <2>2, GotoGoes DEF BootstrapHuman, BootstrapKey, BootstrapService, BootstrapUndo, Statements
    <3>2. req[r].op = "bootstrap" /\ UNCHANGED invites /\ \A q \in Requests : humans'[q] = humans[q]
      BY <2>2 DEF BootstrapHuman, BootstrapKey, BootstrapService, BootstrapUndo, At, DeleteHuman, Humans
    <3>. QED  BY <3>1, <3>2 DEF Goes, InviteInv
  <2>3. ASSUME NEW i \in Invites, RedeemInviteRead(r, i) PROVE InviteInv'
    <3>1. Redeemable(i) /\ Begins(r, "invite", "human", r, i, None)
      BY <2>3, AccountReads
    <3>2. invites[i].live
      BY <3>1 DEF Redeemable, NewInvite
    <3>. QED  BY <3>1, <3>2, <2>3 DEF Begins, RedeemInviteRead, accountVars, InviteInv
  <2>4. CASE RedeemInviteHuman(r)
    BY <2>4, GotoGoes DEF RedeemInviteHuman, At, Statements, Goes, InviteInv, Humans
  <2>5. CASE RedeemInviteClaim(r)
    <3>1. \/ Goes(r, "key") /\ invites[req[r].on].by = None /\ invites' = [invites EXCEPT ![req[r].on].by = r]
          \/ Goes(r, "undo_human") /\ UNCHANGED invites
      BY <2>5, GotoGoes DEF RedeemInviteClaim, Statements
    <3>2. At(r, "invite", "claim") /\ UNCHANGED humans /\ req[r].on \in Invites
      BY <2>5 DEF RedeemInviteClaim, At, RowFits
    <3>3. /\ \A i \in Invites : invites[i].live => invites'[i].live
          /\ \A i \in Invites : invites'[i].by = invites[i].by \/ (i = req[r].on /\ invites[i].by = None)
          /\ Goes(r, "key") => invites'[req[r].on].by = r
      <4>1. CASE Goes(r, "key") /\ invites[req[r].on].by = None /\ invites' = [invites EXCEPT ![req[r].on].by = r]
        BY <3>2, <4>1 DEF InviteRow
      <4>2. CASE Goes(r, "undo_human") /\ UNCHANGED invites
        BY <4>2 DEF Goes
      <4>. QED  BY <3>1, <4>1, <4>2
    <3>. QED  BY <3>1, <3>2, <3>3 DEF Goes, At, InviteInv, RowFits
  <2>6. CASE RedeemInviteKey(r)
    BY <2>6, GotoGoes DEF RedeemInviteKey, At, Statements, Goes, InviteInv
  <2>7. CASE RedeemInviteUndo(r)
    <3>1. \/ /\ Goes(r, "undo_human") /\ req[r].pc = "undo_claim" /\ UNCHANGED humans
             /\ \/ invites[req[r].on].by = r /\ invites' = [invites EXCEPT ![req[r].on].by = None]
                \/ UNCHANGED invites
          \/ Goes(r, "failed") /\ UNCHANGED invites /\ \A q \in Requests \ {r} : humans'[q] = humans[q]
      BY <2>7, GotoGoes DEF RedeemInviteUndo, At, Statements, DeleteHuman, Humans
    <3>2. req[r].op = "invite" /\ req[r].on \in Invites
      BY <2>7 DEF RedeemInviteUndo, At, RowFits
    <3>3. /\ \A i \in Invites : invites[i].live => invites'[i].live
          /\ \A i \in Invites : invites'[i].by = invites[i].by \/ invites[i].by = r
      <4>1. CASE invites[req[r].on].by = r /\ invites' = [invites EXCEPT ![req[r].on].by = None]
        BY <3>2, <4>1 DEF InviteRow
      <4>2. CASE UNCHANGED invites
        BY <4>2
      <4>. QED  BY <3>1, <4>1, <4>2
    <3>. QED  BY <3>1, <3>2, <3>3 DEF Goes, InviteInv, RowFits
  <2>8. ASSUME NEW g \in Subjects, CallbackRead(r, g) \/ RedeemPassRead(r, g) PROVE InviteInv'
    <3>1. PICK op, pc, by, seen : op \in {"callback", "pass"} /\ Begins(r, op, pc, by, g, seen)
      BY <2>8, AccountReads
    <3>. QED  BY <3>1, <2>8 DEF Begins, CallbackRead, RedeemPassRead, accountVars, InviteInv
  <2>9. CASE \/ CallbackInsert(r) \/ CallbackReissue(r)
             \/ RedeemPassExpire(r) \/ RedeemPassHuman(r) \/ RedeemPassClaim(r)
             \/ RedeemPassKey(r) \/ RedeemPassUndo(r)
    <3>1. PICK pc : Goes(r, pc)
      BY <2>9, GotoGoes DEF CallbackInsert, CallbackReissue, RedeemPassExpire, RedeemPassHuman,
           RedeemPassClaim, RedeemPassKey, RedeemPassUndo, Statements
    <3>2. /\ req[r].op \in {"callback", "pass"} /\ UNCHANGED invites
          /\ \A q \in Requests \ {r} : humans'[q] = humans[q]
      BY <2>9 DEF CallbackInsert, CallbackReissue, RedeemPassExpire, RedeemPassHuman,
           RedeemPassClaim, RedeemPassKey, RedeemPassUndo, At, DeleteHuman, Humans
    <3>. QED  BY <3>1, <3>2 DEF Goes, InviteInv
  <2>10. CASE \E h \in Humans : CreateApiKey(r, h)
    <3>1. PICK h \in Humans : Begins(r, "key", "done", h, None, None)
      BY <2>10, AccountReads
    <3>. QED  BY <3>1, <2>10 DEF Begins, CreateApiKey, InviteInv
  <2>11. CASE CreateServiceRead(r) \/ \E s \in Services : RotateServiceRead(r, s)
    <3>1. PICK op, pc, by, on, seen : op \in {"service", "rotate"} /\ Begins(r, op, pc, by, on, seen)
      BY <2>11, AccountReads
    <3>. QED  BY <3>1, <2>11 DEF Begins, CreateServiceRead, RotateServiceRead, accountVars, InviteInv
  <2>12. CASE CreateServiceInsert(r) \/ RotateServiceWrite(r)
    BY <2>12, GotoGoes DEF CreateServiceInsert, RotateServiceWrite, At, Statements, Goes, InviteInv
  <2>. QED
    BY <1>1, <2>1, <2>2, <2>3, <2>4, <2>5, <2>6, <2>7, <2>8, <2>9, <2>10, <2>11, <2>12 DEF AccountStep
<1>2. ASSUME NEW i \in Invites, CreateInvite(i) PROVE InviteInv'
  BY <1>2 DEF CreateInvite, NewInvite, InviteInv, InviteRow, RowFits
<1>3. ASSUME NEW k \in Keys, RevokeApiKey(k) PROVE InviteInv'
  BY <1>3 DEF RevokeApiKey, InviteInv
<1>. QED  BY <1>1, <1>2, <1>3 DEF AccountNext

LEMMA BootStep ==
    ASSUME TypeInv, TypeInv', BootInv, AccountNext
    PROVE  BootInv'
<1>. USE RequestsAssumption, AccountsAssumption DEF TypeInv, RequestsInv, AccountsTypeOK
<1>0. Admin \in Humans /\ Requests \subseteq Humans /\ Requests \subseteq Keys
  BY DEF Humans, Keys
(* A request that is no bootstrap writes no administrator and no key of    *)
(* another request, and takes no service away.                             *)
<1>f. ASSUME NEW r \in Requests, Serves(r, AccountOps \ {"bootstrap"}),
             humans'[Admin] = humans[Admin],
             \A q \in Requests \ {r} : apiKeys'[q] = apiKeys[q],
             services'[Svc] = None => services[Svc] = None
      PROVE  BootInv'
  BY <1>f DEF Serves, BootInv, Booting
<1>1. ASSUME NEW r \in Requests, AccountStep(r) PROVE BootInv'
  <2>1. CASE BootstrapRead(r)
    <3>1. Begins(r, "bootstrap", "human", Admin, None, None)
      BY <2>1, AccountReads
    <3>. QED  BY <3>1, <2>1 DEF Begins, BootstrapRead, accountVars, BootInv, Booting
  <2>2. CASE BootstrapHuman(r)
    <3>1. \/ Goes(r, "key") /\ humans[Admin] = "absent" /\ humans'[Admin] = "admin_bootstrap"
          \/ Goes(r, "failed") /\ UNCHANGED humans
      BY <2>2, GotoGoes, <1>0 DEF BootstrapHuman, Statements
    <3>2. At(r, "bootstrap", "human") /\ UNCHANGED <<apiKeys, services>>
      BY <2>2 DEF BootstrapHuman
    <3>. QED  BY <3>1, <3>2 DEF Goes, At, BootInv, Booting
  <2>3. CASE BootstrapKey(r)
    <3>1. \/ Goes(r, "service") /\ apiKeys' = [apiKeys EXCEPT ![r] = [human |-> Admin, status |-> "active"]]
          \/ Goes(r, "undo_service") /\ UNCHANGED apiKeys
      BY <2>3, GotoGoes DEF BootstrapKey, Statements, InsertKey
    <3>2. At(r, "bootstrap", "key") /\ UNCHANGED <<humans, services>>
      BY <2>3 DEF BootstrapKey
    <3>. QED  BY <3>1, <3>2, <1>0 DEF Goes, At, BootInv, Booting
  <2>4. CASE BootstrapService(r)
    <3>1. \/ Goes(r, "done") /\ services'[Svc] = r
          \/ Goes(r, "undo_service") /\ UNCHANGED services
      BY <2>4, GotoGoes DEF BootstrapService, Statements, Services
    <3>2. At(r, "bootstrap", "service") /\ UNCHANGED <<humans, apiKeys>>
      BY <2>4 DEF BootstrapService
    <3>. QED  BY <3>1, <3>2 DEF Goes, At, BootInv, Booting
  <2>5. CASE BootstrapUndo(r)
    <3>1. CASE At(r, "bootstrap", "undo_service")
      <4>1. Goes(r, "undo_key") /\ UNCHANGED <<humans, apiKeys>>
        BY <2>5, <3>1, GotoGoes DEF BootstrapUndo, At, Statements
      <4>. QED  BY <3>1, <4>1 DEF Goes, At, BootInv, Booting
    <3>2. CASE At(r, "bootstrap", "undo_key")
      <4>1. Goes(r, "undo_human") /\ UNCHANGED <<humans, services>>
        BY <2>5, <3>2, GotoGoes DEF BootstrapUndo, At, Statements
      <4>2. \A q \in Requests \ {r} : apiKeys'[q] = apiKeys[q]
        BY <2>5, <3>2, <1>0 DEF BootstrapUndo, At, DeleteKey
      <4>. QED  BY <3>2, <4>1, <4>2 DEF Goes, At, BootInv, Booting
    <3>3. CASE At(r, "bootstrap", "undo_human")
      <4>1. Goes(r, "failed") /\ UNCHANGED <<apiKeys, services>>
        BY <2>5, <3>3, GotoGoes DEF BootstrapUndo, At, Statements
      <4>. QED  BY <3>3, <4>1 DEF Goes, At, BootInv, Booting
    <3>. QED  BY <2>5, <3>1, <3>2, <3>3 DEF BootstrapUndo
  <2>6. ASSUME NEW i \in Invites, RedeemInviteRead(r, i) PROVE BootInv'
    BY <2>6, <1>f, AccountReads DEF Begins, Serves, AccountOps, RedeemInviteRead, accountVars
  <2>7. CASE RedeemInviteHuman(r) \/ RedeemInviteClaim(r) \/ RedeemInviteKey(r) \/ RedeemInviteUndo(r)
    <3>1. Serves(r, AccountOps \ {"bootstrap"})
      BY <2>7, GotoGoes, GoesFits DEF RedeemInviteHuman, RedeemInviteClaim, RedeemInviteKey,
           RedeemInviteUndo, At, Statements, AccountOps
    <3>2. /\ humans'[Admin] = humans[Admin] /\ UNCHANGED services
          /\ \A q \in Requests \ {r} : apiKeys'[q] = apiKeys[q]
      BY <2>7, <1>0 DEF RedeemInviteHuman, RedeemInviteClaim, RedeemInviteKey, RedeemInviteUndo,
           InsertKey, DeleteHuman
    <3>. QED  BY <1>f, <3>1, <3>2
  <2>8. ASSUME NEW g \in Subjects, CallbackRead(r, g) \/ RedeemPassRead(r, g) PROVE BootInv'
    <3>1. PICK op, pc, by, seen : op \in {"callback", "pass"} /\ Begins(r, op, pc, by, g, seen)
      BY <2>8, AccountReads
    <3>. QED  BY <1>f, <3>1, <2>8 DEF Begins, Serves, AccountOps, CallbackRead, RedeemPassRead, accountVars
  <2>9. CASE \/ CallbackInsert(r) \/ CallbackReissue(r)
             \/ RedeemPassExpire(r) \/ RedeemPassHuman(r) \/ RedeemPassClaim(r)
             \/ RedeemPassKey(r) \/ RedeemPassUndo(r)
    <3>1. Serves(r, AccountOps \ {"bootstrap"})
      BY <2>9, GotoGoes, GoesFits DEF CallbackInsert, CallbackReissue, RedeemPassExpire, RedeemPassHuman,
           RedeemPassClaim, RedeemPassKey, RedeemPassUndo, At, Statements, AccountOps
    <3>2. /\ humans'[Admin] = humans[Admin] /\ UNCHANGED services
          /\ \A q \in Requests \ {r} : apiKeys'[q] = apiKeys[q]
      BY <2>9, <1>0 DEF CallbackInsert, CallbackReissue, RedeemPassExpire, RedeemPassHuman,
           RedeemPassClaim, RedeemPassKey, RedeemPassUndo, InsertKey, DeleteHuman
    <3>. QED  BY <1>f, <3>1, <3>2
  <2>10. ASSUME NEW h \in Humans, CreateApiKey(r, h) PROVE BootInv'
    <3>1. Serves(r, AccountOps \ {"bootstrap"})
      BY <2>10, AccountReads DEF Begins, Serves, AccountOps
    <3>2. UNCHANGED <<humans, services>> /\ \A q \in Requests \ {r} : apiKeys'[q] = apiKeys[q]
      BY <2>10, <1>0 DEF CreateApiKey, InsertKey
    <3>. QED  BY <1>f, <3>1, <3>2
  <2>11. CASE CreateServiceRead(r) \/ \E s \in Services : RotateServiceRead(r, s)
    <3>1. Serves(r, AccountOps \ {"bootstrap"})
      BY <2>11, AccountReads DEF Begins, Serves, AccountOps
    <3>. QED  BY <1>f, <2>11, <3>1 DEF CreateServiceRead, RotateServiceRead, accountVars
  <2>12. CASE CreateServiceInsert(r) \/ RotateServiceWrite(r)
    <3>1. Serves(r, AccountOps \ {"bootstrap"})
      BY <2>12, GotoGoes, GoesFits DEF CreateServiceInsert, RotateServiceWrite, At, Statements, AccountOps
    <3>2. UNCHANGED <<humans, apiKeys>> /\ (services'[Svc] = None => services[Svc] = None)
      BY <2>12 DEF CreateServiceInsert, RotateServiceWrite, At, RowFits, Services
    <3>. QED  BY <1>f, <3>1, <3>2
  <2>. QED
    BY <1>1, <2>1, <2>2, <2>3, <2>4, <2>5, <2>6, <2>7, <2>8, <2>9, <2>10, <2>11, <2>12 DEF AccountStep
<1>2. ASSUME NEW i \in Invites, CreateInvite(i) PROVE BootInv'
  BY <1>2 DEF CreateInvite, BootInv, Booting
<1>3. ASSUME NEW k \in Keys, RevokeApiKey(k) PROVE BootInv'
  BY <1>3, <1>0 DEF RevokeApiKey, BootInv, Booting, KeyRow
<1>. QED  BY <1>1, <1>2, <1>3 DEF AccountNext

(* Requests are finite in number: what they add to or take from a set      *)
(* changes its size by one.                                                *)
LEMMA Sizes ==
    ASSUME NEW S \in SUBSET Requests, NEW T \in SUBSET Requests
    PROVE  /\ IsFiniteSet(S) /\ Cardinality(S) \in Nat
           /\ T \subseteq S => Cardinality(T) <= Cardinality(S)
           /\ \A r : T \subseteq S \cup {r} => Cardinality(T) <= Cardinality(S) + 1
           /\ \A r \in S : T \subseteq S \ {r} => Cardinality(T) <= Cardinality(S) - 1
<1>1. /\ IsFiniteSet(S) /\ IsFiniteSet(T) /\ Cardinality(S) \in Nat /\ Cardinality(T) \in Nat
  BY RequestsAssumption, FS_Subset, FS_CardinalityType
<1>2. ASSUME T \subseteq S PROVE Cardinality(T) <= Cardinality(S)
  BY <1>1, <1>2, FS_Subset
<1>3. ASSUME NEW r, T \subseteq S \cup {r} PROVE Cardinality(T) <= Cardinality(S) + 1
  <2>0. /\ IsFiniteSet(S \cup {r})
        /\ Cardinality(S \cup {r}) = IF r \in S THEN Cardinality(S) ELSE Cardinality(S) + 1
    BY <1>1, FS_AddElement
  <2>1. IsFiniteSet(S \cup {r}) /\ Cardinality(S \cup {r}) <= Cardinality(S) + 1
    BY <1>1, <2>0
  <2>2. Cardinality(T) <= Cardinality(S \cup {r}) /\ Cardinality(S \cup {r}) \in Nat
    BY <2>1, <1>3, FS_Subset, FS_CardinalityType
  <2>. QED  BY <1>1, <2>1, <2>2
<1>4. ASSUME NEW r \in S, T \subseteq S \ {r} PROVE Cardinality(T) <= Cardinality(S) - 1
  <2>1. IsFiniteSet(S \ {r}) /\ Cardinality(S \ {r}) = Cardinality(S) - 1
    BY <1>1, FS_RemoveElement
  <2>2. Cardinality(T) <= Cardinality(S \ {r})
    BY <2>1, <1>4, FS_Subset
  <2>. QED  BY <2>1, <2>2
<1>. QED  BY <1>1, <1>2, <1>3, <1>4

LEMMA PassesSame ==
    ASSUME PassInv, UNCHANGED <<passes, reissued>>, reissued \in [Subjects -> Nat],
           \A g \in Subjects : Claimed(g)' \subseteq Claimed(g)
    PROVE  PassInv'
<1>1. ASSUME NEW g \in Subjects PROVE Cardinality(Claimed(g)') <= Cardinality(Claimed(g))
  BY Sizes DEF Claimed
<1>2. ASSUME NEW g \in Subjects
      PROVE  Cardinality(Claimed(g)') \in Nat /\ Cardinality(Claimed(g)) \in Nat
  BY Sizes DEF Claimed
<1>. QED  BY <1>1, <1>2 DEF PassInv

LEMMA PassStep ==
    ASSUME TypeInv, TypeInv', PassInv, AccountNext
    PROVE  PassInv'
<1>. USE RequestsAssumption DEF TypeInv, RequestsInv
<1>t. passes \in [Subjects -> PassRow] /\ reissued \in [Subjects -> Nat]
  BY DEF AccountsTypeOK
<1>n. ASSUME NEW g \in Subjects
      PROVE  Cardinality(Claimed(g)') \in Nat /\ Cardinality(Claimed(g)) \in Nat
  BY Sizes DEF Claimed
(* A request that claims no pass leaves the claims as they are. *)
<1>f. ASSUME NEW r \in Requests, Serves(r, AccountOps), UNCHANGED <<passes, reissued>>,
             req'[r].op = "pass" => req'[r].pc \notin {"key", "undo_claim", "done"}
      PROVE  PassInv'
  <2>1. \A g \in Subjects : Claimed(g)' \subseteq Claimed(g)
    BY <1>f DEF Serves, Claimed
  <2>. QED  BY <1>f, <1>t, <2>1, PassesSame
<1>1. ASSUME NEW r \in Requests, AccountStep(r) PROVE PassInv'
  <2>s. Serves(r, AccountOps)
    BY <1>1, AccountTypes
  <2>1. CASE BootstrapRead(r)
    <3>1. Begins(r, "bootstrap", "human", Admin, None, None)
      BY <2>1, AccountReads
    <3>. QED  BY <1>f, <2>s, <3>1, <2>1 DEF Begins, BootstrapRead, accountVars
  <2>2. CASE BootstrapHuman(r) \/ BootstrapKey(r) \/ BootstrapService(r) \/ BootstrapUndo(r)
    <3>1. PICK pc : Goes(r, pc)
      BY <2>2, GotoGoes DEF BootstrapHuman, BootstrapKey, BootstrapService, BootstrapUndo, Statements
    <3>2. req[r].op = "bootstrap" /\ UNCHANGED <<passes, reissued>>
      BY <2>2 DEF BootstrapHuman, BootstrapKey, BootstrapService, BootstrapUndo, At
    <3>. QED  BY <1>f, <2>s, <3>1, <3>2 DEF Goes
  <2>3. ASSUME NEW i \in Invites, RedeemInviteRead(r, i) PROVE PassInv'
    <3>1. Begins(r, "invite", "human", r, i, None)
      BY <2>3, AccountReads
    <3>. QED  BY <1>f, <2>s, <3>1, <2>3 DEF Begins, RedeemInviteRead, accountVars
  <2>4. CASE RedeemInviteHuman(r) \/ RedeemInviteClaim(r) \/ RedeemInviteKey(r) \/ RedeemInviteUndo(r)
    <3>1. PICK pc : Goes(r, pc)
      BY <2>4, GotoGoes DEF RedeemInviteHuman, RedeemInviteClaim, RedeemInviteKey, RedeemInviteUndo, Statements
    <3>2. req[r].op = "invite" /\ UNCHANGED <<passes, reissued>>
      BY <2>4 DEF RedeemInviteHuman, RedeemInviteClaim, RedeemInviteKey, RedeemInviteUndo, At
    <3>. QED  BY <1>f, <2>s, <3>1, <3>2 DEF Goes
  <2>5. ASSUME NEW g \in Subjects, CallbackRead(r, g) PROVE PassInv'
    <3>1. PICK pc : Begins(r, "callback", pc, None, g, None)
      BY <2>5, AccountReads
    <3>. QED  BY <1>f, <2>s, <3>1, <2>5 DEF Begins, CallbackRead, accountVars
  <2>6. ASSUME NEW g \in Subjects, RedeemPassRead(r, g) PROVE PassInv'
    <3>1. PICK pc \in {"expire", "human", "failed"} : Begins(r, "pass", pc, r, g, passes[g].code)
      BY <2>6, AccountReads
    <3>. QED  BY <1>f, <2>s, <3>1, <2>6 DEF Begins, RedeemPassRead, accountVars
  <2>7. CASE RedeemPassHuman(r)
    <3>1. Goes(r, "claim") \/ Goes(r, "failed")
      BY <2>7, GotoGoes DEF RedeemPassHuman, Statements
    <3>. QED  BY <1>f, <2>s, <3>1, <2>7 DEF Goes, RedeemPassHuman
  <2>8. CASE RedeemPassKey(r)
    <3>1. At(r, "pass", "key") /\ (Goes(r, "done") \/ Goes(r, "undo_claim"))
      BY <2>8, GotoGoes DEF RedeemPassKey, Statements
    <3>2. \A g \in Subjects : Claimed(g)' \subseteq Claimed(g)
      BY <3>1 DEF Goes, At, Claimed
    <3>. QED  BY <1>t, <2>8, <3>2, PassesSame DEF RedeemPassKey
  <2>9. CASE CallbackInsert(r) \/ CallbackReissue(r) \/ RedeemPassExpire(r)
    <3>1. Goes(r, "done") \/ Goes(r, "failed")
      BY <2>9, GotoGoes DEF CallbackInsert, CallbackReissue, RedeemPassExpire, Statements
    <3>2. /\ At(r, "callback", "insert") \/ At(r, "callback", "reissue") \/ At(r, "pass", "expire")
          /\ req[r].on \in Subjects
      BY <2>9 DEF CallbackInsert, CallbackReissue, RedeemPassExpire, At, RowFits
    <3>3. \A g \in Subjects : Claimed(g)' \subseteq Claimed(g)
      <4>1. req[r].op = "pass" => req'[r].pc = "failed"
        BY <2>9, GotoGoes DEF CallbackInsert, CallbackReissue, RedeemPassExpire, At, Statements, Goes
      <4>. QED  BY <3>1, <4>1 DEF Goes, Claimed
    <3>4. ASSUME NEW g \in Subjects
          PROVE  /\ passes'[g].status = "absent" => passes'[g].by = None
                 /\ Cardinality(Claimed(g)') <= reissued'[g] + (IF passes'[g].by = None THEN 0 ELSE 1)
      <4>1. Cardinality(Claimed(g)') <= Cardinality(Claimed(g))
        BY <3>3, Sizes DEF Claimed
      <4>2. CASE CallbackInsert(r)
        <5>1. \/ passes'[g] = passes[g]
              \/ passes[g].status = "absent" /\ passes'[g].status = "active" /\ passes'[g].by = None
          BY <4>2, <3>2, <1>t DEF CallbackInsert, NewPass
        <5>2. reissued'[g] = reissued[g]
          BY <4>2 DEF CallbackInsert
        <5>. QED  BY <4>1, <5>1, <5>2, <1>n, <1>t DEF PassInv
      <4>3. CASE CallbackReissue(r)
        <5>1. \/ passes'[g] = passes[g] /\ reissued'[g] = reissued[g]
              \/ passes'[g].status = "active" /\ passes'[g].by = None /\ reissued'[g] = reissued[g] + 1
          BY <4>3, <3>2, <1>t DEF CallbackReissue, NewPass
        <5>. QED  BY <4>1, <5>1, <1>n, <1>t DEF PassInv
      <4>4. CASE RedeemPassExpire(r)
        <5>1. /\ passes'[g].by = passes[g].by /\ reissued'[g] = reissued[g]
              /\ passes'[g].status \in {passes[g].status, "expired"}
          BY <4>4, <3>2, <1>t DEF RedeemPassExpire, PassRow
        <5>. QED  BY <4>1, <5>1, <1>n, <1>t DEF PassInv
      <4>. QED  BY <2>9, <4>2, <4>3, <4>4
    <3>. QED  BY <3>4 DEF PassInv
  <2>10. CASE RedeemPassClaim(r)
    <3>1. At(r, "pass", "claim") /\ req[r].on \in Subjects
      BY <2>10 DEF RedeemPassClaim, At, RowFits
    <3>2. CASE Goes(r, "undo_human") /\ UNCHANGED passes
      <4>1. \A g \in Subjects : Claimed(g)' \subseteq Claimed(g)
        BY <3>2 DEF Goes, Claimed
      <4>. QED  BY <1>t, <2>10, <3>2, <4>1, PassesSame DEF RedeemPassClaim
    <3>3. CASE /\ Goes(r, "key") /\ passes[req[r].on].by = None
               /\ passes' = [passes EXCEPT ![req[r].on].status = "redeemed", ![req[r].on].by = r]
      <4>1. ASSUME NEW g \in Subjects
            PROVE  /\ passes'[g].status = "absent" => passes'[g].by = None
                   /\ Cardinality(Claimed(g)') <= reissued'[g] + (IF passes'[g].by = None THEN 0 ELSE 1)
        <5>0. reissued'[g] = reissued[g]
          BY <2>10 DEF RedeemPassClaim
        <5>1. CASE g = req[r].on
          <6>1. passes[g].by = None /\ passes'[g].by = r /\ passes'[g].status = "redeemed"
            BY <3>3, <5>1, <1>t DEF PassRow
          <6>2. Claimed(g)' \subseteq Claimed(g) \cup {r}
            BY <3>3 DEF Goes, Claimed
          <6>3. Cardinality(Claimed(g)') <= Cardinality(Claimed(g)) + 1
            BY <6>2, Sizes DEF Claimed
          <6>. QED  BY <5>0, <6>1, <6>3, <1>n, <1>t DEF PassInv
        <5>2. CASE g # req[r].on
          <6>1. passes'[g] = passes[g]
            BY <3>3, <5>2, <1>t
          <6>2. Claimed(g)' \subseteq Claimed(g)
            BY <3>3, <5>2 DEF Goes, Claimed
          <6>3. Cardinality(Claimed(g)') <= Cardinality(Claimed(g))
            BY <6>2, Sizes DEF Claimed
          <6>. QED  BY <5>0, <6>1, <6>3, <1>n, <1>t DEF PassInv
        <5>. QED  BY <5>1, <5>2
      <4>. QED  BY <4>1 DEF PassInv
    <3>4. \/ Goes(r, "undo_human") /\ UNCHANGED passes
          \/ /\ Goes(r, "key") /\ passes[req[r].on].by = None
             /\ passes' = [passes EXCEPT ![req[r].on].status = "redeemed", ![req[r].on].by = r]
      BY <2>10, GotoGoes DEF RedeemPassClaim, Statements
    <3>. QED  BY <3>2, <3>3, <3>4
  <2>11. CASE RedeemPassUndo(r)
    <3>1. req[r].op = "pass" /\ req[r].on \in Subjects /\ UNCHANGED reissued
      BY <2>11 DEF RedeemPassUndo, At, RowFits
    <3>2. CASE UNCHANGED passes
      <4>1. Goes(r, "undo_human") \/ Goes(r, "failed")
        BY <2>11, GotoGoes DEF RedeemPassUndo, Statements
      <4>2. \A g \in Subjects : Claimed(g)' \subseteq Claimed(g)
        BY <4>1 DEF Goes, Claimed
      <4>. QED  BY <1>t, <3>1, <3>2, <4>2, PassesSame
    <3>3. CASE /\ At(r, "pass", "undo_claim") /\ Goes(r, "undo_human") /\ passes[req[r].on].by = r
               /\ passes' = [passes EXCEPT ![req[r].on].status = "active", ![req[r].on].by = None]
      <4>1. ASSUME NEW g \in Subjects
            PROVE  /\ passes'[g].status = "absent" => passes'[g].by = None
                   /\ Cardinality(Claimed(g)') <= reissued'[g] + (IF passes'[g].by = None THEN 0 ELSE 1)
        <5>1. CASE g = req[r].on
          <6>1. passes[g].by = r /\ passes'[g].by = None /\ passes'[g].status = "active"
            BY <3>3, <5>1, <1>t DEF PassRow
          <6>2. r \in Claimed(g) /\ Claimed(g)' \subseteq Claimed(g) \ {r}
            BY <3>3, <5>1 DEF Goes, At, Claimed
          <6>3. Cardinality(Claimed(g)') <= Cardinality(Claimed(g)) - 1
            BY <6>2, Sizes DEF Claimed
          <6>. QED  BY <3>1, <6>1, <6>3, <1>n, <1>t DEF PassInv
        <5>2. CASE g # req[r].on
          <6>1. passes'[g] = passes[g]
            BY <3>3, <5>2, <1>t
          <6>2. Claimed(g)' \subseteq Claimed(g)
            BY <3>3 DEF Goes, Claimed
          <6>3. Cardinality(Claimed(g)') <= Cardinality(Claimed(g))
            BY <6>2, Sizes DEF Claimed
          <6>. QED  BY <3>1, <6>1, <6>3, <1>n, <1>t DEF PassInv
        <5>. QED  BY <5>1, <5>2
      <4>. QED  BY <4>1 DEF PassInv
    <3>4. \/ UNCHANGED passes
          \/ /\ At(r, "pass", "undo_claim") /\ Goes(r, "undo_human") /\ passes[req[r].on].by = r
             /\ passes' = [passes EXCEPT ![req[r].on].status = "active", ![req[r].on].by = None]
      BY <2>11, GotoGoes DEF RedeemPassUndo, Statements
    <3>. QED  BY <3>2, <3>3, <3>4
  <2>12. ASSUME NEW h \in Humans, CreateApiKey(r, h) PROVE PassInv'
    <3>1. Begins(r, "key", "done", h, None, None)
      BY <2>12, AccountReads
    <3>. QED  BY <1>f, <2>s, <3>1, <2>12 DEF Begins, CreateApiKey
  <2>13. CASE CreateServiceRead(r) \/ \E s \in Services : RotateServiceRead(r, s)
    <3>1. PICK op, pc, by, on, seen : op \in {"service", "rotate"} /\ Begins(r, op, pc, by, on, seen)
      BY <2>13, AccountReads
    <3>. QED  BY <1>f, <2>s, <3>1, <2>13 DEF Begins, CreateServiceRead, RotateServiceRead, accountVars
  <2>14. CASE CreateServiceInsert(r) \/ RotateServiceWrite(r)
    <3>1. PICK pc : Goes(r, pc)
      BY <2>14, GotoGoes DEF CreateServiceInsert, RotateServiceWrite, Statements
    <3>2. req[r].op \in {"service", "rotate"} /\ UNCHANGED <<passes, reissued>>
      BY <2>14 DEF CreateServiceInsert, RotateServiceWrite, At
    <3>. QED  BY <1>f, <2>s, <3>1, <3>2 DEF Goes
  <2>. QED
    BY <1>1, <2>1, <2>2, <2>3, <2>4, <2>5, <2>6, <2>7, <2>8, <2>9, <2>10, <2>11, <2>12, <2>13, <2>14
       DEF AccountStep
<1>2. CASE (\E i \in Invites : CreateInvite(i)) \/ (\E k \in Keys : RevokeApiKey(k))
  <2>1. UNCHANGED <<req, passes, reissued>>
    BY <1>2 DEF CreateInvite, RevokeApiKey
  <2>2. \A g \in Subjects : Claimed(g)' \subseteq Claimed(g)
    BY <2>1 DEF Claimed
  <2>. QED  BY <1>t, <2>1, <2>2, PassesSame
<1>. QED  BY <1>1, <1>2 DEF AccountNext

(* Requests for other operations leave the accounts' invariant alone. *)
LEMMA AccountsAlone ==
    ASSUME TypeInv, AccountInv, Steady(AccountOps), UNCHANGED accountVars
    PROVE  AccountInv'
<1>1. UNCHANGED <<humans, apiKeys, services, invites, passes, reissued>>
  BY DEF accountVars
<1>2. InviteInv'
  BY <1>1 DEF AccountInv, InviteInv, Steady, AccountOps
<1>3. BootInv'
  BY <1>1 DEF AccountInv, BootInv, Booting, Steady, AccountOps
<1>4. \A g \in Subjects : Claimed(g)' \subseteq Claimed(g)
  BY DEF Steady, AccountOps, Claimed
<1>5. PassInv'
  BY <1>1, <1>4, PassesSame DEF AccountInv, TypeInv, AccountsTypeOK
<1>. QED  BY <1>2, <1>3, <1>5 DEF AccountInv

LEMMA AccountsAtFirst == Init => AccountInv
<1>. SUFFICES ASSUME Init PROVE AccountInv
  OBVIOUS
<1>1. \A r \in Requests : req[r].op = "none"
  BY DEF Init, Idle
<1>2. /\ passes = [g \in Subjects |-> [status |-> "absent", code |-> None, by |-> None]]
      /\ reissued = [g \in Subjects |-> 0]
  BY DEF Init, AccountsInit
<1>3. \A g \in Subjects : Cardinality(Claimed(g)) = 0
  <2>1. \A g \in Subjects : Claimed(g) = {}
    BY <1>1 DEF Claimed
  <2>. QED  BY <2>1, FS_EmptySet
<1>4. PassInv
  BY <1>2, <1>3 DEF PassInv
<1>. QED  BY <1>1, <1>4 DEF AccountInv, InviteInv, BootInv, Booting

LEMMA Accounts == Spec => []AccountInv
<1>1. TypeInv /\ AccountInv /\ [Next]_vars => AccountInv'
  <2>. SUFFICES ASSUME TypeInv, AccountInv, [Next]_vars PROVE AccountInv'
    OBVIOUS
  <2>1. TypeInv' /\ (AccountNext \/ (Steady(AccountOps) /\ UNCHANGED accountVars))
    BY Families
  <2>2. CASE AccountNext
    BY <2>1, <2>2, InvitesStep, BootStep, PassStep DEF AccountInv
  <2>3. CASE Steady(AccountOps) /\ UNCHANGED accountVars
    BY <2>3, AccountsAlone
  <2>. QED  BY <2>1, <2>2, <2>3
<1>. QED  BY <1>1, Types, AccountsAtFirst, PTL DEF Spec

(* Whatever bootstraps overlap, fail and undo, the one that was answered   *)
(* with success is the only one, and its administrator, its key and its    *)
(* service are there.                                                      *)
THEOREM RegistryBootstrapStands == Spec => []BootstrapStands
<1>1. AccountInv => BootstrapStands
  BY DEF AccountInv, BootInv, Booting, BootstrapStands, Succeeded
<1>. QED  BY <1>1, Accounts, PTL

LEMMA InvitesBounded == AccountInv => InviteOnce
  BY DEF AccountInv, InviteInv, InviteOnce, Succeeded

LEMMA PassesBounded == TypeInv /\ AccountInv => PassRedemptionsBounded
<1>. SUFFICES ASSUME TypeInv, AccountInv, NEW g \in Subjects
              PROVE  Cardinality({r \in Succeeded("pass") : req[r].on = g}) <= 1 + reissued[g]
  BY DEF PassRedemptionsBounded
<1>. DEFINE S == {r \in Succeeded("pass") : req[r].on = g}
<1>1. S \subseteq Claimed(g) /\ S \in SUBSET Requests /\ Claimed(g) \in SUBSET Requests
  BY DEF Succeeded, Claimed
<1>. HIDE DEF S
<1>2. Cardinality(S) <= Cardinality(Claimed(g)) /\ Cardinality(S) \in Nat /\ Cardinality(Claimed(g)) \in Nat
  BY <1>1, Sizes
<1>3. Cardinality(Claimed(g)) <= reissued[g] + (IF passes[g].by = None THEN 0 ELSE 1)
  BY DEF AccountInv, PassInv
<1>4. reissued[g] \in Nat
  BY DEF TypeInv, AccountsTypeOK
<1>5. Cardinality(S) <= 1 + reissued[g]
  BY <1>2, <1>3, <1>4
<1>. QED  BY <1>5 DEF S

(***************************************************************************)
(* Agents                                                                  *)
(***************************************************************************)
(* A request that has begun and moves was not answered yet; a registration *)
(* never goes back.                                                        *)
LEMMA AgentMoves ==
    ASSUME TypeInv, NEW r \in Requests, AgentStep(r), req[r].op # "none"
    PROVE  /\ \E pc : Goes(r, pc)
           /\ req[r].pc \notin {"done", "failed"}
           /\ req[r].op = "register" =>
                 /\ req[r].pc \notin {"claim", "count", "agent"} =>
                       req'[r].pc \notin {"claim", "count", "agent"}
                 /\ req[r].pc \notin {"claim", "count", "agent", "session"} =>
                       req'[r].pc \notin {"claim", "count", "agent", "session"}
<1>. USE DEF TypeInv
<1>1. CASE \/ RegisterClaim(r) \/ RegisterCount(r) \/ RegisterAgent(r)
           \/ RegisterSession(r) \/ RegisterEvent(r) \/ RegisterUndo(r)
  <2>1. CASE RegisterClaim(r)
    BY <2>1, GotoGoes DEF RegisterClaim, At, Statements, Goes
  <2>2. CASE RegisterCount(r)
    BY <2>2, GotoGoes DEF RegisterCount, At, Statements, Goes
  <2>3. CASE RegisterAgent(r)
    BY <2>3, GotoGoes DEF RegisterAgent, At, Statements, Goes
  <2>4. CASE RegisterSession(r)
    BY <2>4, GotoGoes DEF RegisterSession, At, Statements, Goes
  <2>5. CASE RegisterEvent(r)
    BY <2>5, GotoGoes DEF RegisterEvent, At, Statements, Goes
  <2>6. CASE RegisterUndo(r)
    BY <2>6, GotoGoes DEF RegisterUndo, At, Statements, Goes
  <2>. QED  BY <1>1, <2>1, <2>2, <2>3, <2>4, <2>5, <2>6
<1>2. CASE \/ RevokeAgent(r) \/ RevokeList(r) \/ RevokeSession(r) \/ RevokeEvent(r)
           \/ ReissueAgent(r) \/ ReissueList(r)
           \/ RefreshExpire(r) \/ RefreshRotate(r) \/ RefreshEvent(r)
           \/ ValidateTouch(r) \/ AuthRevokeSession(r)
  <2>1. \E pc : Goes(r, pc)
    BY <1>2, GotoGoes
       DEF RevokeAgent, RevokeList, RevokeSession, RevokeEvent, ReissueAgent, ReissueList,
           RefreshExpire, RefreshRotate, RefreshEvent, ValidateTouch, AuthRevokeSession, Statements
  <2>2. req[r].op # "register" /\ req[r].pc \notin {"done", "failed"}
    BY <1>2 DEF RevokeAgent, RevokeList, RevokeSession, RevokeEvent, ReissueAgent, ReissueList,
         RefreshExpire, RefreshRotate, RefreshEvent, ValidateTouch, AuthRevokeSession, At
  <2>. QED  BY <2>1, <2>2
<1>3. CASE \/ \E c \in Challenges, h \in Humans : RegisterRead(r, c, h)
           \/ \E a \in Agents : RevokeRead(r, a) \/ ReissueRead(r, a) \/ AuthRevokeRead(r, a)
           \/ \E a, t \in Agents : RefreshRead(r, a, t) \/ ValidateRead(r, a, t)
  <2>1. PICK op, pc, by, on, seen : Begins(r, op, pc, by, on, seen)
    BY <1>3, AgentReads
  <2>. QED  BY <2>1 DEF Begins
<1>. QED  BY <1>1, <1>2, <1>3 DEF AgentStep

(* What was made stays made. *)
LEMMA MadeKept ==
    ASSUME TypeInv, NEW a, AgentNext \/ Steady(AgentOps)
    PROVE  (AgentMade(a) => AgentMade(a)') /\ (SessionMade(a) => SessionMade(a)')
<1>1. ASSUME NEW r \in Requests, AgentStep(r)
      PROVE  (AgentMade(a) => AgentMade(a)') /\ (SessionMade(a) => SessionMade(a)')
  <2>1. CASE a # r
    BY <1>1, <2>1, AgentTypes DEF Serves, AgentMade, SessionMade
  <2>2. CASE a = r /\ req[r].op # "none"
    BY <1>1, <2>2, AgentMoves DEF Goes, AgentMade, SessionMade
  <2>3. CASE a = r /\ req[r].op = "none" /\ r \notin Seeds
    BY <2>3 DEF AgentMade, SessionMade
  <2>. QED  BY <2>1, <2>2, <2>3, RequestsAssumption
<1>2. CASE Steady(AgentOps)
  BY <1>2 DEF Steady, AgentOps, AgentMade, SessionMade
<1>3. CASE UNCHANGED req
  BY <1>3 DEF AgentMade, SessionMade
<1>. QED  BY <1>1, <1>2, <1>3 DEF AgentNext, CreateChallenge

LEMMA MadeStep ==
    ASSUME TypeInv, TypeInv', MadeInv, AgentNext
    PROVE  MadeInv'
<1>. USE RequestsAssumption DEF TypeInv, RequestsInv, AgentsTypeOK
<1>a. Requests \subseteq Agents
  BY DEF Agents
<1>k. \A a : (AgentMade(a) => AgentMade(a)') /\ (SessionMade(a) => SessionMade(a)')
  BY MadeKept
<1>1. ASSUME NEW r \in Requests, AgentStep(r) PROVE MadeInv'
  <2>s. \A q \in Requests \ {r} : req'[q] = req[q]
    BY <1>1, AgentTypes DEF Serves
  <2>m. ASSUME NEW q \in Requests, req'[q].op = req[q].op, req'[q].on = req[q].on, req'[q].has = req[q].has
        PROVE  RequestMade(q)'
    BY <2>m, <1>k DEF MadeInv, RequestMade, AgentMade, SessionMade
  (* Rows that were there stay or go, and what the request names was made. *)
  <2>f. ASSUME \A a \in Agents : agents'[a].status # "absent" => AgentMade(a)',
               \A a \in Agents : sessions'[a].status # "absent" => SessionMade(a)',
               RequestMade(r)'
        PROVE  MadeInv'
    <3>1. ASSUME NEW q \in Requests \ {r}
          PROVE  RequestMade(q)'
      BY <2>m, <2>s
    <3>. QED  BY <2>f, <3>1 DEF MadeInv
  <2>g. ASSUME req[r].op # "none",
               \A a \in Agents : agents'[a].status # "absent" => agents[a].status # "absent" \/ AgentMade(a)',
               \A a \in Agents : sessions'[a].status # "absent" => sessions[a].status # "absent" \/ SessionMade(a)'
        PROVE  MadeInv'
    <3>1. /\ req'[r].op = req[r].op /\ req'[r].on = req[r].on /\ req'[r].has = req[r].has
      BY <1>1, <2>g, AgentMoves DEF Goes
    <3>2. RequestMade(r)'
      BY <3>1, <2>m
    <3>3. /\ \A a \in Agents : agents'[a].status # "absent" => AgentMade(a)'
          /\ \A a \in Agents : sessions'[a].status # "absent" => SessionMade(a)'
      BY <2>g, <1>k DEF MadeInv
    <3>. QED  BY <2>f, <3>2, <3>3
  <2>h. ASSUME UNCHANGED <<agents, sessions>>
        PROVE  /\ \A a \in Agents : agents'[a].status # "absent" => AgentMade(a)'
               /\ \A a \in Agents : sessions'[a].status # "absent" => SessionMade(a)'
    BY <2>h, <1>k DEF MadeInv
  <2>1. ASSUME NEW c \in Challenges, NEW h \in Humans, RegisterRead(r, c, h) PROVE MadeInv'
    <3>1. Begins(r, "register", "claim", h, c, None)
      BY <2>1, AgentReads
    <3>2. RequestMade(r)'
      BY <3>1 DEF Begins, RequestMade
    <3>. QED  BY <2>f, <2>h, <3>2, <2>1 DEF RegisterRead, agentVars
  <2>2. ASSUME NEW a \in Agents, RevokeRead(r, a) PROVE MadeInv'
    <3>1. PICK pc : /\ Begins(r, "revoke", pc, agents[a].owner, a, agents[a].jti)
                    /\ req'[r].has => sessions[a].status = "active"
                    /\ agents[a].status # "absent"
      BY <2>2, AgentReads
    <3>2. AgentMade(a)' /\ (sessions[a].status = "active" => SessionMade(a)')
      BY <3>1, <1>k DEF MadeInv
    <3>3. RequestMade(r)'
      BY <3>1, <3>2 DEF Begins, RequestMade, AgentMade, SessionMade
    <3>. QED  BY <2>f, <2>h, <3>3, <2>2 DEF RevokeRead, agentVars
  <2>3. ASSUME NEW a \in Agents, ReissueRead(r, a) PROVE MadeInv'
    <3>1. /\ Begins(r, "reissue", "agent", agents[a].owner, a, agents[a].jti)
          /\ agents[a].status = "active"
      BY <2>3, AgentReads
    <3>2. AgentMade(a)'
      BY <3>1, <1>k DEF MadeInv
    <3>3. RequestMade(r)'
      BY <3>1, <3>2 DEF Begins, RequestMade, AgentMade, SessionMade
    <3>. QED  BY <2>f, <2>h, <3>3, <2>3 DEF ReissueRead, agentVars
  <2>4. ASSUME NEW a \in Agents, AuthRevokeRead(r, a) PROVE MadeInv'
    <3>1. PICK pc : Begins(r, "authRevoke", pc, agents[a].owner, a, None)
      BY <2>4, AgentReads
    <3>2. RequestMade(r)'
      BY <3>1 DEF Begins, RequestMade
    <3>. QED  BY <2>f, <2>h, <3>2, <2>4 DEF AuthRevokeRead, agentVars
  <2>5. ASSUME NEW a \in Agents, NEW t \in Agents, RefreshRead(r, a, t) PROVE MadeInv'
    <3>1. PICK pc : Begins(r, "refresh", pc, a, a, t) /\ sessions[a].status = "active"
      BY <2>5, AgentReads
    <3>2. SessionMade(a)'
      BY <3>1, <1>k DEF MadeInv
    <3>3. RequestMade(r)'
      BY <3>1, <3>2 DEF Begins, RequestMade, AgentMade, SessionMade
    <3>. QED  BY <2>f, <2>h, <3>3, <2>5 DEF RefreshRead, agentVars
  <2>6. ASSUME NEW a \in Agents, NEW t \in Agents, ValidateRead(r, a, t) PROVE MadeInv'
    <3>1. Begins(r, "validate", "touch", a, a, t)
      BY <2>6, AgentReads
    <3>2. RequestMade(r)'
      BY <3>1 DEF Begins, RequestMade
    <3>. QED  BY <2>f, <2>h, <3>2, <2>6 DEF ValidateRead, agentVars
  <2>7. CASE \/ RegisterClaim(r) \/ RegisterCount(r) \/ RegisterEvent(r)
             \/ RevokeList(r) \/ RevokeEvent(r) \/ ReissueList(r) \/ RefreshEvent(r) \/ ValidateTouch(r)
    <3>1. req[r].op # "none" /\ UNCHANGED <<agents, sessions>>
      BY <2>7 DEF RegisterClaim, RegisterCount, RegisterEvent, RevokeList, RevokeEvent, ReissueList,
           RefreshEvent, ValidateTouch, At, agentVars
    <3>. QED  BY <2>g, <3>1
  <2>8. CASE RegisterAgent(r)
    <3>1. req[r].op = "register" /\ (agents' = agents \/ req'[r].pc = "session")
      BY <2>8, GotoGoes DEF RegisterAgent, At, Statements, Goes
    <3>2. agents' = agents \/ AgentMade(r)'
      BY <1>1, <3>1, AgentMoves DEF Goes, AgentMade
    <3>3. UNCHANGED sessions /\ \A a \in Agents \ {r} : agents'[a] = agents[a]
      BY <2>8 DEF RegisterAgent
    <3>. QED  BY <2>g, <3>1, <3>2, <3>3
  <2>9. CASE RegisterSession(r)
    <3>1. req[r].op = "register" /\ (sessions' = sessions \/ req'[r].pc = "event")
      BY <2>9, GotoGoes DEF RegisterSession, At, Statements, Goes
    <3>2. sessions' = sessions \/ SessionMade(r)'
      BY <1>1, <3>1, AgentMoves DEF Goes, SessionMade
    <3>3. UNCHANGED agents /\ \A a \in Agents \ {r} : sessions'[a] = sessions[a]
      BY <2>9 DEF RegisterSession
    <3>. QED  BY <2>g, <3>1, <3>2, <3>3
  <2>10. CASE RegisterUndo(r)
    <3>1. /\ req[r].op # "none"
          /\ \A a \in Agents : agents'[a].status # "absent" => agents[a].status # "absent"
          /\ \A a \in Agents : sessions'[a].status # "absent" => sessions[a].status # "absent"
      BY <2>10, <1>a DEF RegisterUndo, At, AgentRow, SessionRow
    <3>. QED  BY <2>g, <3>1
  <2>11. CASE RevokeAgent(r) \/ ReissueAgent(r)
    <3>1. /\ req[r].op # "none" /\ UNCHANGED sessions
          /\ \A a \in Agents : agents'[a].status # "absent" => agents[a].status # "absent"
      <4>1. CASE RevokeAgent(r)
        BY <4>1 DEF RevokeAgent, At, AgentRow
      <4>2. CASE ReissueAgent(r)
        BY <4>2 DEF ReissueAgent, At, Reissued, AgentRow
      <4>. QED  BY <2>11, <4>1, <4>2
    <3>. QED  BY <2>g, <3>1
  <2>12. CASE RevokeSession(r) \/ RefreshRotate(r) \/ AuthRevokeSession(r)
    <3>1. /\ req[r].op # "none" /\ UNCHANGED agents
          /\ \A a \in Agents : sessions'[a].status # "absent" => sessions[a].status # "absent"
      BY <2>12 DEF RevokeSession, RefreshRotate, AuthRevokeSession, At, SessionRow
    <3>. QED  BY <2>g, <3>1
  <2>13. CASE RefreshExpire(r)
    <3>1. /\ req[r].op = "refresh" /\ UNCHANGED agents
          /\ \A a \in Agents : sessions'[a] = sessions[a] \/ a = req[r].on
      BY <2>13 DEF RefreshExpire, At
    <3>2. \A a \in Agents : a = req[r].on => SessionMade(a)'
      BY <3>1, <1>k DEF MadeInv, RequestMade, SessionMade
    <3>. QED  BY <2>g, <3>1, <3>2
  <2>. QED
    BY <1>1, <2>1, <2>2, <2>3, <2>4, <2>5, <2>6, <2>7, <2>8, <2>9, <2>10, <2>11, <2>12, <2>13
       DEF AgentStep
<1>2. ASSUME NEW c \in Challenges, NEW h \in Humans, CreateChallenge(c, h) PROVE MadeInv'
  <2>1. UNCHANGED <<req, agents, sessions>>
    BY <1>2 DEF CreateChallenge
  <2>. QED  BY <2>1 DEF MadeInv, RequestMade, AgentMade, SessionMade
<1>. QED  BY <1>1, <1>2 DEF AgentNext

(* An agent or a session that was made and is closed is not opened again. *)
LEMMA StayClosed ==
    ASSUME TypeInv, TypeInv', NEW a \in Agents, AgentNext \/ UNCHANGED agentVars
    PROVE  /\ AgentMade(a) /\ agents[a].status # "active" => agents'[a].status # "active"
           /\ SessionMade(a) /\ sessions[a].status # "active" => sessions'[a].status # "active"
<1>. DEFINE Goal == /\ AgentMade(a) /\ agents[a].status # "active" => agents'[a].status # "active"
                    /\ SessionMade(a) /\ sessions[a].status # "active" => sessions'[a].status # "active"
<1>. USE RequestsAssumption DEF TypeInv, RequestsInv, AgentsTypeOK
<1>1. ASSUME NEW r \in Requests, AgentStep(r) PROVE Goal
  <2>0. r \in Agents
    BY DEF Agents
  <2>1. CASE \/ \E c \in Challenges, h \in Humans : RegisterRead(r, c, h)
             \/ \E b \in Agents : RevokeRead(r, b) \/ ReissueRead(r, b) \/ AuthRevokeRead(r, b)
             \/ \E b, t \in Agents : RefreshRead(r, b, t) \/ ValidateRead(r, b, t)
    BY <2>1 DEF RegisterRead, RevokeRead, ReissueRead, AuthRevokeRead, RefreshRead, ValidateRead, agentVars
  <2>2. CASE \/ RegisterClaim(r) \/ RegisterCount(r) \/ RegisterEvent(r)
             \/ RevokeList(r) \/ RevokeEvent(r) \/ ReissueList(r) \/ RefreshEvent(r) \/ ValidateTouch(r)
    BY <2>2 DEF RegisterClaim, RegisterCount, RegisterEvent, RevokeList, RevokeEvent, ReissueList,
           RefreshEvent, ValidateTouch, agentVars
  <2>3. CASE RegisterAgent(r)
    BY <2>3, <2>0 DEF RegisterAgent, At, AgentMade
  <2>4. CASE RegisterSession(r)
    BY <2>4, <2>0 DEF RegisterSession, At, SessionMade
  <2>5. CASE RegisterUndo(r)
    BY <2>5, <2>0 DEF RegisterUndo, AgentRow, SessionRow
  <2>6. CASE RevokeAgent(r)
    BY <2>6 DEF RevokeAgent, AgentRow
  <2>7. CASE ReissueAgent(r)
    BY <2>7 DEF ReissueAgent, Reissued, AgentRow
  <2>8. CASE RevokeSession(r) \/ AuthRevokeSession(r) \/ RefreshExpire(r) \/ RefreshRotate(r)
    BY <2>8 DEF RevokeSession, AuthRevokeSession, RefreshExpire, RefreshRotate, SessionRow
  <2>. QED  BY <1>1, <2>1, <2>2, <2>3, <2>4, <2>5, <2>6, <2>7, <2>8 DEF AgentStep
<1>2. CASE UNCHANGED <<agents, sessions>>
  BY <1>2
<1>. QED  BY <1>1, <1>2 DEF AgentNext, CreateChallenge, agentVars

(* What the revocation r has done, and what it has published. *)
Revoked(r) ==
    req[r].op = "revoke" =>
        /\ req[r].pc \in {"list", "session", "event", "done"} => agents[req[r].on].status # "active"
        /\ req[r].pc \in {"session", "event"} => req[r].has
        /\ req[r].has /\ req[r].pc \in {"event", "done"} => sessions[req[r].on].status # "active"

LEMMA RevokeStep ==
    ASSUME TypeInv, TypeInv', MadeInv, RevokeInv, AgentNext
    PROVE  RevokeInv'
<1>. USE DEF TypeInv, RequestsInv
<1>c. \A a \in Agents : /\ AgentMade(a) /\ agents[a].status # "active" => agents'[a].status # "active"
                        /\ SessionMade(a) /\ sessions[a].status # "active" => sessions'[a].status # "active"
  BY StayClosed
<1>k. \A a : SessionMade(a) => SessionMade(a)'
  BY MadeKept
<1>m. \A q \in Requests : RequestMade(q) /\ RowFits(req[q])
  BY DEF MadeInv
<1>q. \A q \in Requests : Revoked(q)
  BY DEF RevokeInv, Revoked
(* A request that stays where it is. *)
<1>r. ASSUME NEW q \in Requests, req'[q] = req[q] PROVE Revoked(q)'
  BY <1>r, <1>c, <1>m, <1>q DEF Revoked, RequestMade, RowFits
(* The other requests, and what was published before. *)
<1>f. ASSUME NEW r \in Requests, \A q \in Requests \ {r} : req'[q] = req[q], Revoked(r)',
             \A a \in published' \ published :
                a \in Agents /\ SessionMade(a) /\ agents[a].status # "active" /\ sessions[a].status # "active"
      PROVE  RevokeInv'
  <2>1. \A q \in Requests : Revoked(q)'
    BY <1>f, <1>r
  <2>2. ASSUME NEW a \in published'
        PROVE  SessionMade(a)' /\ agents'[a].status # "active" /\ sessions'[a].status # "active"
    <3>1. a \in Agents /\ SessionMade(a) /\ agents[a].status # "active" /\ sessions[a].status # "active"
      BY <1>f DEF RevokeInv, AgentsTypeOK
    <3>2. AgentMade(a)
      BY <3>1 DEF AgentMade, SessionMade
    <3>. QED  BY <1>c, <1>k, <3>1, <3>2
  <2>. QED  BY <2>1, <2>2 DEF RevokeInv, Revoked
<1>1. ASSUME NEW r \in Requests, AgentStep(r) PROVE RevokeInv'
  <2>s. \A q \in Requests \ {r} : req'[q] = req[q]
    BY <1>1, AgentTypes DEF Serves
  <2>1. CASE \/ \E c \in Challenges, h \in Humans : RegisterRead(r, c, h)
             \/ \E a \in Agents : ReissueRead(r, a) \/ AuthRevokeRead(r, a)
             \/ \E a, t \in Agents : RefreshRead(r, a, t) \/ ValidateRead(r, a, t)
    <3>1. PICK op, pc, by, on, seen : op \in AgentOps \ {"revoke"} /\ Begins(r, op, pc, by, on, seen)
      BY <2>1, AgentReads DEF AgentOps
    <3>2. UNCHANGED published
      BY <2>1 DEF RegisterRead, ReissueRead, AuthRevokeRead, RefreshRead, ValidateRead, agentVars
    <3>3. Revoked(r)'
      BY <3>1 DEF Begins, Revoked
    <3>. QED  BY <1>f, <2>s, <3>2, <3>3
  <2>2. ASSUME NEW a \in Agents, RevokeRead(r, a) PROVE RevokeInv'
    <3>1. PICK pc \in {"noop", "agent"} :
             Begins(r, "revoke", pc, agents[a].owner, a, agents[a].jti)
      BY <2>2, AgentReads
    <3>2. Revoked(r)'
      BY <3>1 DEF Begins, Revoked
    <3>. QED  BY <1>f, <2>s, <2>2, <3>2 DEF RevokeRead, agentVars
  <2>3. CASE \/ RegisterClaim(r) \/ RegisterCount(r) \/ RegisterAgent(r)
             \/ RegisterSession(r) \/ RegisterEvent(r) \/ RegisterUndo(r)
             \/ ReissueAgent(r) \/ ReissueList(r)
             \/ RefreshExpire(r) \/ RefreshRotate(r) \/ RefreshEvent(r)
             \/ ValidateTouch(r) \/ AuthRevokeSession(r)
    <3>1. req[r].op \notin {"none", "revoke"} /\ UNCHANGED published
      BY <2>3 DEF RegisterClaim, RegisterCount, RegisterAgent, RegisterSession, RegisterEvent, RegisterUndo,
           ReissueAgent, ReissueList, RefreshExpire, RefreshRotate, RefreshEvent, ValidateTouch,
           AuthRevokeSession, At, agentVars
    <3>2. req'[r].op = req[r].op
      BY <1>1, <3>1, AgentMoves DEF Goes
    <3>3. Revoked(r)'
      BY <3>1, <3>2 DEF Revoked
    <3>. QED  BY <1>f, <2>s, <3>1, <3>3
  <2>4. CASE RevokeAgent(r)
    <3>1. Goes(r, "list") /\ At(r, "revoke", "agent") /\ UNCHANGED published
      BY <2>4, GotoGoes DEF RevokeAgent, Statements
    <3>2. req[r].on \in Agents /\ agents'[req[r].on].status # "active"
      BY <2>4, <3>1, <1>m DEF RevokeAgent, At, RowFits, AgentsTypeOK, AgentRow
    <3>3. Revoked(r)'
      BY <3>1, <3>2 DEF Goes, At, Revoked
    <3>. QED  BY <1>f, <2>s, <3>1, <3>3
  <2>5. CASE RevokeList(r)
    <3>1. /\ At(r, "revoke", "list") /\ UNCHANGED <<agents, sessions, published>>
          /\ (req[r].has /\ Goes(r, "session")) \/ (~req[r].has /\ Goes(r, "done"))
      BY <2>5, GotoGoes DEF RevokeList, Statements
    <3>2. Revoked(r)'
      BY <3>1, <1>q DEF Goes, At, Revoked
    <3>. QED  BY <1>f, <2>s, <3>1, <3>2
  <2>6. CASE RevokeSession(r)
    <3>1. Goes(r, "event") /\ At(r, "revoke", "session") /\ UNCHANGED <<agents, published>>
      BY <2>6, GotoGoes DEF RevokeSession, Statements
    <3>2. req[r].on \in Agents /\ sessions'[req[r].on].status # "active"
      BY <2>6, <3>1, <1>m DEF RevokeSession, At, RowFits, AgentsTypeOK, SessionRow
    <3>3. Revoked(r)'
      BY <3>1, <3>2, <1>q DEF Goes, At, Revoked
    <3>. QED  BY <1>f, <2>s, <3>1, <3>3
  <2>7. CASE RevokeEvent(r)
    <3>1. /\ At(r, "revoke", "event") /\ UNCHANGED <<agents, sessions>>
          /\ Goes(r, "done") \/ Goes(r, "failed")
          /\ published' \subseteq published \cup {req[r].on}
      BY <2>7, GotoGoes DEF RevokeEvent, Statements
    <3>2. /\ req[r].on \in Agents /\ SessionMade(req[r].on)
          /\ agents[req[r].on].status # "active" /\ sessions[req[r].on].status # "active"
      BY <3>1, <1>m, <1>q DEF At, RowFits, RequestMade, Revoked
    <3>3. Revoked(r)'
      BY <3>1, <1>q DEF Goes, At, Revoked
    <3>. QED  BY <1>f, <2>s, <3>1, <3>2, <3>3
  <2>. QED  BY <1>1, <2>1, <2>2, <2>3, <2>4, <2>5, <2>6, <2>7 DEF AgentStep
<1>2. ASSUME NEW c \in Challenges, NEW h \in Humans, CreateChallenge(c, h) PROVE RevokeInv'
  <2>1. UNCHANGED <<req, agents, sessions, published>>
    BY <1>2 DEF CreateChallenge
  <2>. QED  BY <2>1 DEF RevokeInv, SessionMade
<1>. QED  BY <1>1, <1>2 DEF AgentNext

LEMMA IssuedStep ==
    ASSUME TypeInv, TypeInv', MadeInv, IssuedInv, AgentNext
    PROVE  IssuedInv'
<1>. USE RequestsAssumption DEF TypeInv, RequestsInv, AgentsTypeOK
<1>a. Requests \subseteq Agents
  BY DEF Agents
(* No AIT is made, and those waiting to be listed still wait. *)
<1>f. ASSUME \A a \in Agents : agents'[a].status # "absent" =>
                agents[a].status # "absent" /\ agents'[a].jti = agents[a].jti,
             crl \subseteq crl',
             \A a \in Agents : Issued(a)' \subseteq Issued(a),
             \A j : Listing(j) => Listing(j)' \/ j \in crl'
      PROVE  IssuedInv'
  BY <1>f DEF IssuedInv
<1>1. ASSUME NEW r \in Requests, AgentStep(r) PROVE IssuedInv'
  <2>s. \A q \in Requests \ {r} : req'[q] = req[q]
    BY <1>1, AgentTypes DEF Serves
  <2>1. CASE \/ \E c \in Challenges, h \in Humans : RegisterRead(r, c, h)
             \/ \E a \in Agents : RevokeRead(r, a) \/ AuthRevokeRead(r, a)
             \/ \E a, t \in Agents : RefreshRead(r, a, t) \/ ValidateRead(r, a, t)
    <3>1. PICK op, pc, by, on, seen : op \in AgentOps \ {"reissue"} /\ Begins(r, op, pc, by, on, seen)
      BY <2>1, AgentReads DEF AgentOps
    <3>2. UNCHANGED <<agents, crl>>
      BY <2>1 DEF RegisterRead, RevokeRead, AuthRevokeRead, RefreshRead, ValidateRead, agentVars
    <3>3. /\ \A a \in Agents : Issued(a)' \subseteq Issued(a)
          /\ \A j : Listing(j) => Listing(j)'
      BY <3>1 DEF Begins, Issued, Listing
    <3>. QED  BY <1>f, <3>2, <3>3
  <2>2. CASE \/ RegisterClaim(r) \/ RegisterCount(r) \/ RegisterSession(r) \/ RegisterEvent(r)
             \/ RegisterUndo(r) \/ RevokeAgent(r) \/ RevokeList(r) \/ RevokeSession(r) \/ RevokeEvent(r)
             \/ RefreshExpire(r) \/ RefreshRotate(r) \/ RefreshEvent(r)
             \/ ValidateTouch(r) \/ AuthRevokeSession(r)
    <3>1. req[r].op \notin {"none", "reissue"}
      BY <2>2 DEF RegisterClaim, RegisterCount, RegisterSession, RegisterEvent, RegisterUndo, RevokeAgent,
           RevokeList, RevokeSession, RevokeEvent, RefreshExpire, RefreshRotate, RefreshEvent, ValidateTouch,
           AuthRevokeSession, At
    <3>2. /\ crl \subseteq crl'
          /\ \A a \in Agents : agents'[a].status # "absent" =>
                agents[a].status # "absent" /\ agents'[a].jti = agents[a].jti
      <4>1. CASE RegisterUndo(r)
        BY <4>1, <1>a DEF RegisterUndo, AgentRow
      <4>2. CASE RevokeAgent(r)
        BY <4>2 DEF RevokeAgent, AgentRow
      <4>3. CASE UNCHANGED agents /\ crl \subseteq crl'
        BY <4>3
      <4>. QED
        BY <2>2, <4>1, <4>2, <4>3 DEF RegisterClaim, RegisterCount, RegisterSession, RegisterEvent, RevokeList,
           RevokeSession, RevokeEvent, RefreshExpire, RefreshRotate, RefreshEvent, ValidateTouch,
           AuthRevokeSession, agentVars
    <3>3. req'[r].op = req[r].op
      BY <1>1, <3>1, AgentMoves DEF Goes
    <3>4. /\ \A a \in Agents : Issued(a)' \subseteq Issued(a)
          /\ \A j : Listing(j) => Listing(j)'
      BY <2>s, <3>1, <3>3 DEF Issued, Listing
    <3>. QED  BY <1>f, <3>2, <3>4
  <2>3. CASE RegisterAgent(r)
    <3>1. PICK pc : Goes(r, pc)
      BY <2>3, GotoGoes DEF RegisterAgent, Statements
    <3>2. At(r, "register", "agent") /\ UNCHANGED crl
      BY <2>3 DEF RegisterAgent
    <3>3. /\ \A a \in Agents : Issued(a)' \subseteq Issued(a)
          /\ \A j : Listing(j) => Listing(j)'
      BY <3>1, <3>2 DEF Goes, At, Issued, Listing
    <3>4. CASE UNCHANGED agents
      BY <1>f, <3>2, <3>3, <3>4
    <3>5. CASE agents' = [agents EXCEPT ![r] = NewAgent(r, req[r].by)]
      <4>1. Issued(r)' \subseteq {r}
        <5>1. \A q \in Requests : req[q].op = "reissue" => req[q].on # r
          BY <3>2 DEF At, MadeInv, RequestMade, AgentMade
        <5>. QED  BY <3>3, <5>1, <1>a DEF Issued
      <4>2. agents'[r].jti = r /\ \A a \in Agents \ {r} : agents'[a] = agents[a]
        BY <3>5, <1>a DEF NewAgent
      <4>. QED  BY <3>2, <3>3, <4>1, <4>2 DEF IssuedInv
    <3>. QED  BY <2>3, <3>4, <3>5 DEF RegisterAgent
  <2>4. CASE ReissueAgent(r)
    <3>1. At(r, "reissue", "agent") /\ UNCHANGED crl /\ req[r].on \in Agents
      BY <2>4 DEF ReissueAgent, At, RowFits
    <3>2. CASE Goes(r, "failed") /\ UNCHANGED agents
      <4>1. /\ \A a \in Agents : Issued(a)' \subseteq Issued(a)
            /\ \A j : Listing(j) => Listing(j)'
        BY <3>1, <3>2 DEF Goes, At, Issued, Listing
      <4>. QED  BY <1>f, <3>1, <3>2, <4>1
    <3>3. CASE /\ Goes(r, "list") /\ agents[req[r].on].jti = req[r].seen
               /\ agents[req[r].on].status = "active"
               /\ agents' = [agents EXCEPT ![req[r].on] = Reissued(@, r)]
      <4>1. /\ \A a \in Agents : Issued(a)' \subseteq Issued(a) \cup {r}
            /\ \A a \in Agents : a # req[r].on => Issued(a)' \subseteq Issued(a)
            /\ \A j : Listing(j) => Listing(j)'
        BY <3>1, <3>3 DEF Goes, At, Issued, Listing
      <4>2. /\ agents'[req[r].on].jti = r
            /\ \A a \in Agents : a # req[r].on => agents'[a] = agents[a]
        BY <3>1, <3>3 DEF Reissued, AgentRow
      <4>3. \A j : j = req[r].seen => Listing(j)'
        BY <3>1, <3>3 DEF Goes, At, Listing
      <4>4. ASSUME NEW a \in Agents, agents'[a].status # "absent", NEW j \in Issued(a)'
            PROVE  j = agents'[a].jti \/ j \in crl' \/ Listing(j)'
        <5>1. CASE a = req[r].on
          <6>1. j = r \/ j = req[r].seen \/ j \in crl \/ Listing(j)
            BY <3>3, <4>1, <4>4, <5>1 DEF IssuedInv
          <6>. QED  BY <3>1, <4>1, <4>2, <4>3, <5>1, <6>1
        <5>2. CASE a # req[r].on
          BY <3>1, <4>1, <4>2, <4>4, <5>2 DEF IssuedInv
        <5>. QED  BY <5>1, <5>2
      <4>. QED  BY <4>4 DEF IssuedInv
    <3>. QED  BY <2>4, <3>2, <3>3, GotoGoes DEF ReissueAgent, Statements
  <2>5. CASE ReissueList(r)
    <3>1. /\ At(r, "reissue", "list") /\ Goes(r, "done") /\ UNCHANGED agents
          /\ crl' = crl \cup {req[r].seen}
      BY <2>5, GotoGoes DEF ReissueList, Statements
    <3>2. /\ \A a \in Agents : Issued(a)' \subseteq Issued(a)
          /\ \A j : Listing(j) => Listing(j)' \/ j \in crl'
      BY <3>1 DEF Goes, At, Issued, Listing
    <3>. QED  BY <1>f, <3>1, <3>2
  <2>6. ASSUME NEW a \in Agents, ReissueRead(r, a) PROVE IssuedInv'
    <3>1. Begins(r, "reissue", "agent", agents[a].owner, a, agents[a].jti) /\ UNCHANGED <<agents, crl>>
      BY <2>6, AgentReads DEF ReissueRead, agentVars
    <3>2. /\ \A b \in Agents : Issued(b)' \subseteq Issued(b)
          /\ \A j : Listing(j) => Listing(j)'
      BY <3>1 DEF Begins, Issued, Listing
    <3>. QED  BY <1>f, <3>1, <3>2
  <2>. QED  BY <1>1, <2>1, <2>2, <2>3, <2>4, <2>5, <2>6 DEF AgentStep
<1>2. ASSUME NEW c \in Challenges, NEW h \in Humans, CreateChallenge(c, h) PROVE IssuedInv'
  <2>1. UNCHANGED <<req, agents, crl>>
    BY <1>2 DEF CreateChallenge
  <2>. QED  BY <2>1 DEF IssuedInv, Issued, Listing
<1>. QED  BY <1>1, <1>2 DEF AgentNext

(* What is known of the refresh r and the token it presented. *)
Presenting(r) ==
    req[r].op = "refresh" =>
        /\ \/ req[r].seen \in Seeds
           \/ /\ req[r].seen \in Requests /\ req[req[r].seen].pc = "done"
              /\ req[req[r].seen].op \in {"register", "refresh"}
        /\ req[r].pc # "failed" => TokenOf(req[r].seen, req[r].on)

(* The token that the refresh r exchanged is gone. *)
Spent(r) ==
    req[r].op = "refresh" /\ req[r].pc \in {"event", "done"} => sessions[req[r].on].token # req[r].seen

LEMMA RefreshStep ==
    ASSUME TypeInv, TypeInv', MadeInv, RefreshInv, AgentNext
    PROVE  RefreshInv'
<1>. USE RequestsAssumption DEF TypeInv, RequestsInv
<1>a. Requests \subseteq Agents
  BY DEF Agents
<1>p. /\ \A r \in Requests : Presenting(r) /\ Spent(r)
      /\ \A a \in Agents : TokenOf(sessions[a].token, a)
      /\ \A r, q \in Requests : /\ req[r].op = "refresh" /\ req[r].pc \in {"event", "done"}
                                /\ req[q].op = "refresh" /\ req[q].pc \in {"event", "done"}
                                /\ req[r].seen = req[q].seen
                                => r = q
  BY DEF RefreshInv, Presenting, Spent, RefreshOnce, Rotations
<1>i. ASSUME \A r \in Requests : Presenting(r)' /\ Spent(r)',
             \A a \in Agents : TokenOf(sessions[a].token, a)',
             \A r, q \in Requests : /\ req'[r].op = "refresh" /\ req'[r].pc \in {"event", "done"}
                                    /\ req'[q].op = "refresh" /\ req'[q].pc \in {"event", "done"}
                                    /\ req'[r].seen = req'[q].seen
                                    => r = q
      PROVE  RefreshInv'
  BY <1>i DEF RefreshInv, Presenting, Spent, RefreshOnce, Rotations
<1>1. ASSUME NEW r \in Requests, AgentStep(r) PROVE RefreshInv'
  <2>s. \A q \in Requests \ {r} : req'[q] = req[q]
    BY <1>1, AgentTypes DEF Serves
  (* An answered request stays answered. *)
  <2>d. /\ \A q \in Requests : req[q].pc = "done" /\ req[q].op # "none" => req'[q] = req[q]
        /\ \A q \in Requests : req[q].op # "none" =>
              req'[q].op = req[q].op /\ req'[q].on = req[q].on /\ req'[q].seen = req[q].seen
    BY <1>1, <2>s, AgentMoves DEF Goes
  <2>t. \A t, a : TokenOf(t, a) => TokenOf(t, a)'
    BY <2>d DEF TokenOf
  <2>q. ASSUME NEW q \in Requests, req'[q].op = "refresh" => req[q].op = "refresh",
               req'[q].op = "refresh" /\ req'[q].pc # "failed" => req[q].pc # "failed"
        PROVE  Presenting(q)'
    <3>1. Presenting(q)
      BY <1>p
    <3>2. CASE req'[q].op = "refresh"
      <4>1. req[q].op = "refresh" /\ req'[q].on = req[q].on /\ req'[q].seen = req[q].seen
        BY <2>q, <2>d, <3>2
      <4>2. req'[q].pc # "failed" => TokenOf(req[q].seen, req[q].on)
        BY <2>q, <3>1, <3>2, <4>1 DEF Presenting
      <4>3. req'[q].pc # "failed" => TokenOf(req[q].seen, req[q].on)'
        BY <2>d, <4>1, <4>2 DEF TokenOf
      <4>4. \/ req[q].seen \in Seeds
            \/ /\ req[q].seen \in Requests /\ req'[req[q].seen].pc = "done"
               /\ req'[req[q].seen].op \in {"register", "refresh"}
        BY <2>d, <3>1, <4>1 DEF Presenting
      <4>. QED  BY <4>1, <4>3, <4>4 DEF Presenting
    <3>3. CASE req'[q].op # "refresh"
      BY <3>3 DEF Presenting
    <3>. QED  BY <3>2, <3>3
  (* No token is exchanged: a session gets the first token it ever has, if any. *)
  <2>f. ASSUME Presenting(r)',
               req'[r].op = "refresh" /\ req'[r].pc \in {"event", "done"} =>
                  req[r].op = "refresh" /\ req[r].pc \in {"event", "done"},
               \A a \in Agents : \/ sessions'[a].token = sessions[a].token
                                 \/ sessions'[a].token = a /\ ~SessionMade(a)
        PROVE  RefreshInv'
    <3>1. \A q \in Requests : Presenting(q)'
      BY <2>f, <2>q, <2>s
    <3>2. ASSUME NEW q \in Requests PROVE Spent(q)'
      <4>1. CASE req'[q].op = "refresh" /\ req'[q].pc \in {"event", "done"}
        <5>1. /\ req[q].op = "refresh" /\ req[q].pc \in {"event", "done"}
              /\ req'[q].on = req[q].on /\ req'[q].seen = req[q].seen
          BY <2>f, <2>s, <2>d, <4>1
        <5>2. SessionMade(req[q].on) /\ req[q].on \in Agents
          BY <5>1 DEF MadeInv, RequestMade, RowFits
        <5>. QED  BY <1>p, <2>f, <5>1, <5>2 DEF Spent
      <4>. QED  BY <4>1 DEF Spent
    <3>3. ASSUME NEW a \in Agents PROVE TokenOf(sessions[a].token, a)'
      BY <1>p, <2>f, <2>d DEF TokenOf
    <3>4. \A q \in Requests : req'[q].op = "refresh" /\ req'[q].pc \in {"event", "done"} =>
             req[q].op = "refresh" /\ req[q].pc \in {"event", "done"} /\ req'[q].seen = req[q].seen
      BY <2>f, <2>s, <2>d
    <3>. QED  BY <1>i, <1>p, <3>1, <3>2, <3>3, <3>4
  <2>1. CASE \/ \E c \in Challenges, h \in Humans : RegisterRead(r, c, h)
             \/ \E a \in Agents : RevokeRead(r, a) \/ ReissueRead(r, a) \/ AuthRevokeRead(r, a)
             \/ \E a, t \in Agents : ValidateRead(r, a, t)
    <3>1. PICK op, pc, by, on, seen : op \in AgentOps \ {"refresh"} /\ Begins(r, op, pc, by, on, seen)
      BY <2>1, AgentReads DEF AgentOps
    <3>2. UNCHANGED sessions
      BY <2>1 DEF RegisterRead, RevokeRead, ReissueRead, AuthRevokeRead, ValidateRead, agentVars
    <3>3. req'[r].op # "refresh"
      BY <3>1 DEF Begins
    <3>. QED  BY <2>f, <2>q, <3>2, <3>3
  <2>2. ASSUME NEW a \in Agents, NEW t \in Agents, RefreshRead(r, a, t) PROVE RefreshInv'
    <3>1. PICK pc \in {"failed", "expire", "rotate"} :
             /\ Begins(r, "refresh", pc, a, a, t)
             /\ Known(t) /\ (pc # "failed" => sessions[a].token = t)
      BY <2>2, AgentReads
    <3>2. pc # "failed" => TokenOf(t, a)
      BY <3>1, <1>p
    <3>3. \/ t \in Seeds
          \/ t \in Requests /\ req'[t].pc = "done" /\ req'[t].op \in {"register", "refresh"}
      BY <3>1, <2>d DEF Known, Succeeded
    <3>4. pc # "failed" => TokenOf(t, a)'
      BY <3>2, <2>t
    <3>5. Presenting(r)'
      BY <3>1, <3>3, <3>4 DEF Begins, Presenting, TokenOf
    <3>. QED  BY <2>f, <2>2, <3>1, <3>5 DEF Begins, RefreshRead, agentVars
  <2>3. CASE \/ RegisterClaim(r) \/ RegisterCount(r) \/ RegisterAgent(r) \/ RegisterSession(r)
             \/ RegisterEvent(r) \/ RegisterUndo(r)
             \/ RevokeAgent(r) \/ RevokeList(r) \/ RevokeSession(r) \/ RevokeEvent(r)
             \/ ReissueAgent(r) \/ ReissueList(r) \/ ValidateTouch(r) \/ AuthRevokeSession(r)
    <3>1. req[r].op \notin {"none", "refresh"}
      BY <2>3 DEF RegisterClaim, RegisterCount, RegisterAgent, RegisterSession, RegisterEvent, RegisterUndo,
           RevokeAgent, RevokeList, RevokeSession, RevokeEvent, ReissueAgent, ReissueList, ValidateTouch,
           AuthRevokeSession, At
    <3>2. req'[r].op # "refresh"
      BY <2>d, <3>1
    <3>3. \A a \in Agents : \/ sessions'[a].token = sessions[a].token
                            \/ sessions'[a].token = a /\ ~SessionMade(a)
      <4>1. CASE RegisterSession(r)
        BY <4>1, <1>a DEF RegisterSession, NewSession, At, SessionMade, AgentsTypeOK
      <4>2. CASE RegisterUndo(r) \/ RevokeSession(r) \/ AuthRevokeSession(r)
        BY <4>2, <1>a DEF RegisterUndo, RevokeSession, AuthRevokeSession, AgentsTypeOK, SessionRow
      <4>. QED
        BY <2>3, <4>1, <4>2 DEF RegisterClaim, RegisterCount, RegisterAgent, RegisterEvent, RevokeAgent,
           RevokeList, RevokeEvent, ReissueAgent, ReissueList, ValidateTouch, agentVars
    <3>. QED  BY <2>f, <2>q, <3>2, <3>3
  <2>4. CASE RefreshExpire(r)
    <3>1. Goes(r, "failed") /\ At(r, "refresh", "expire")
      BY <2>4, GotoGoes DEF RefreshExpire, Statements
    <3>2. \A a \in Agents : sessions'[a].token = sessions[a].token
      BY <2>4 DEF RefreshExpire, AgentsTypeOK, SessionRow
    <3>. QED  BY <2>f, <2>q, <3>1, <3>2 DEF Goes, At
  <2>5. CASE RefreshEvent(r)
    <3>1. (Goes(r, "done") \/ Goes(r, "failed")) /\ At(r, "refresh", "event") /\ UNCHANGED sessions
      BY <2>5, GotoGoes DEF RefreshEvent, Statements, agentVars
    <3>. QED  BY <2>f, <2>q, <3>1 DEF Goes, At
  <2>6. CASE RefreshRotate(r)
    <3>0. At(r, "refresh", "rotate")
      BY <2>6 DEF RefreshRotate
    <3>1. CASE Goes(r, "failed") /\ UNCHANGED sessions
      BY <2>f, <2>q, <3>0, <3>1 DEF Goes, At
    <3>2. CASE /\ Goes(r, "event") /\ sessions[req[r].on].token = req[r].seen
               /\ sessions' = [sessions EXCEPT ![req[r].on].token = r]
      <4>1. /\ req[r].on \in Agents /\ SessionMade(req[r].on)
            /\ TokenOf(req[r].seen, req[r].on)
        BY <3>0, <1>p DEF At, RowFits, MadeInv, RequestMade, Presenting
      <4>2. /\ sessions'[req[r].on].token = r
            /\ \A a \in Agents : a # req[r].on => sessions'[a] = sessions[a]
        BY <3>2, <4>1 DEF AgentsTypeOK, SessionRow
      <4>3. \A q \in Requests : Presenting(q)'
        BY <2>q, <2>s, <3>0, <3>2 DEF Goes, At
      (* Nobody has presented the token named after r. *)
      <4>4. \A q \in Requests : req[q].op = "refresh" => req[q].seen # r
        BY <3>0, <1>p DEF At, Presenting
      <4>5. ASSUME NEW q \in Requests PROVE Spent(q)'
        <5>1. CASE q = r
          BY <3>0, <3>2, <4>2, <4>4, <5>1 DEF Goes, At, Spent
        <5>2. CASE q # r /\ req[q].op = "refresh"
          <6>1. req'[q] = req[q] /\ req[q].on \in Agents /\ Spent(q)
            BY <2>s, <1>p, <5>2 DEF RowFits
          <6>. QED  BY <4>2, <4>4, <5>2, <6>1 DEF Spent
        <5>3. CASE q # r /\ req[q].op # "refresh"
          BY <2>s, <5>3 DEF Spent
        <5>. QED  BY <5>1, <5>2, <5>3
      <4>6. ASSUME NEW a \in Agents PROVE TokenOf(sessions[a].token, a)'
        <5>1. CASE a = req[r].on
          BY <3>0, <3>2, <4>2, <5>1 DEF Goes, At, TokenOf
        <5>2. CASE a # req[r].on
          BY <1>p, <2>d, <4>2, <5>2 DEF TokenOf
        <5>. QED  BY <5>1, <5>2
      (* A token belongs to one agent, so whoever exchanged r's token before *)
      (* would have taken it from the session r finds it in.                 *)
      <4>7. ASSUME NEW q \in Requests, req[q].op = "refresh", req[q].pc \in {"event", "done"}
            PROVE  req[q].seen # req[r].seen
        <5>1. SUFFICES ASSUME req[q].seen = req[r].seen PROVE FALSE
          OBVIOUS
        <5>2. TokenOf(req[q].seen, req[q].on) /\ SessionMade(req[q].on)
          BY <4>7, <1>p DEF Presenting, MadeInv, RequestMade
        <5>3. req[q].on = req[r].on
          BY <4>1, <5>1, <5>2 DEF TokenOf, SessionMade
        <5>. QED  BY <1>p, <3>2, <4>7, <5>1, <5>3 DEF Spent
      <4>8. \A q \in Requests : q # r /\ req'[q].op = "refresh" /\ req'[q].pc \in {"event", "done"} =>
               req'[q].seen # req'[r].seen
        BY <2>s, <2>d, <3>0, <4>7 DEF At
      <4>9. \A q, p \in Requests : /\ req'[q].op = "refresh" /\ req'[q].pc \in {"event", "done"}
                                   /\ req'[p].op = "refresh" /\ req'[p].pc \in {"event", "done"}
                                   /\ req'[q].seen = req'[p].seen
                                   => q = p
        BY <1>p, <2>s, <4>8
      <4>. QED  BY <1>i, <4>3, <4>5, <4>6, <4>9
    <3>. QED  BY <2>6, <3>1, <3>2, GotoGoes DEF RefreshRotate, Statements
  <2>. QED  BY <1>1, <2>1, <2>2, <2>3, <2>4, <2>5, <2>6 DEF AgentStep
<1>2. ASSUME NEW c \in Challenges, NEW h \in Humans, CreateChallenge(c, h) PROVE RefreshInv'
  <2>1. UNCHANGED <<req, sessions>>
    BY <1>2 DEF CreateChallenge
  <2>. QED  BY <2>1 DEF RefreshInv, RefreshOnce, Rotations, TokenOf
<1>. QED  BY <1>1, <1>2 DEF AgentNext

(* Requests for other operations leave the agents' invariant alone. *)
LEMMA AgentsAlone ==
    ASSUME TypeInv, AgentInv, Steady(AgentOps), UNCHANGED agentVars
    PROVE  AgentInv'
<1>1. UNCHANGED <<agents, sessions, crl, published>>
  BY DEF agentVars
<1>2. \A a : (AgentMade(a) => AgentMade(a)') /\ (SessionMade(a) => SessionMade(a)')
  BY MadeKept
<1>3. ASSUME NEW r \in Requests, req[r].op \in AgentOps \/ req'[r].op \in AgentOps
      PROVE  /\ req'[r].op = req[r].op /\ req'[r].pc = req[r].pc /\ req'[r].by = req[r].by
             /\ req'[r].on = req[r].on /\ req'[r].seen = req[r].seen /\ req'[r].has = req[r].has
  BY <1>3 DEF Steady
<1>4. MadeInv'
  <2>1. ASSUME NEW r \in Requests PROVE RequestMade(r)'
    <3>1. CASE req'[r].op \in AgentOps
      BY <3>1, <1>2, <1>3 DEF AgentInv, MadeInv, RequestMade, AgentMade, SessionMade
    <3>2. CASE req'[r].op \notin AgentOps
      BY <3>2 DEF RequestMade, AgentOps
    <3>. QED  BY <3>1, <3>2
  <2>. QED  BY <1>1, <1>2, <2>1 DEF AgentInv, MadeInv
<1>5. IssuedInv'
  <2>1. /\ \A a \in Agents : Issued(a)' \subseteq Issued(a)
        /\ \A j : Listing(j) => Listing(j)'
    BY <1>3 DEF Issued, Listing, AgentOps
  <2>. QED  BY <1>1, <2>1 DEF AgentInv, IssuedInv
<1>6. RevokeInv'
  BY <1>1, <1>2, <1>3 DEF AgentInv, RevokeInv, AgentOps
<1>7. RefreshInv'
  <2>1. /\ \A r \in Requests : Presenting(r)
        /\ \A a \in Agents : TokenOf(sessions[a].token, a)
        /\ \A r \in Requests : Spent(r)
        /\ RefreshOnce
    BY DEF AgentInv, RefreshInv, Presenting, Spent
  <2>2. \A r \in Requests : Presenting(r)'
    BY <1>3, <2>1 DEF Presenting, TokenOf, AgentOps
  <2>3. \A a \in Agents : TokenOf(sessions[a].token, a)'
    BY <1>1, <1>3, <2>1 DEF TokenOf, AgentOps
  <2>4. \A r \in Requests : Spent(r)'
    BY <1>1, <1>3, <2>1 DEF Spent, AgentOps
  <2>5. RefreshOnce'
    BY <1>3, <2>1 DEF RefreshOnce, Rotations, AgentOps
  <2>. QED  BY <2>2, <2>3, <2>4, <2>5 DEF RefreshInv, Presenting, Spent
<1>. QED  BY <1>4, <1>5, <1>6, <1>7 DEF AgentInv

LEMMA AgentsAtFirst == Init => AgentInv
<1>. SUFFICES ASSUME Init PROVE AgentInv
  OBVIOUS
<1>1. \A r \in Requests : req[r].op = "none"
  BY DEF Init, Idle
<1>2. PICK live \in SUBSET Seeds :
        /\ agents = [a \in Agents |-> [status |-> IF a \in live THEN "active" ELSE "absent",
                                       jti |-> a, owner |-> Owner]]
        /\ sessions = [a \in Agents |-> [status |-> IF a \in live THEN "active" ELSE "absent",
                                         token |-> a]]
        /\ crl = {} /\ published = {}
  BY DEF Init, AgentsInit
<1>3. MadeInv
  BY <1>1, <1>2 DEF MadeInv, RequestMade, AgentMade, SessionMade
<1>4. IssuedInv
  BY <1>1, <1>2 DEF IssuedInv, Issued
<1>5. RevokeInv /\ RefreshInv
  BY <1>1, <1>2 DEF RevokeInv, RefreshInv, TokenOf, RefreshOnce, Rotations
<1>. QED  BY <1>3, <1>4, <1>5 DEF AgentInv

LEMMA AgentsHold == Spec => []AgentInv
<1>1. TypeInv /\ AgentInv /\ [Next]_vars => AgentInv'
  <2>. SUFFICES ASSUME TypeInv, AgentInv, [Next]_vars PROVE AgentInv'
    OBVIOUS
  <2>1. TypeInv' /\ (AgentNext \/ (Steady(AgentOps) /\ UNCHANGED agentVars))
    BY Families
  <2>2. CASE AgentNext
    BY <2>1, <2>2, MadeStep, IssuedStep, RevokeStep, RefreshStep DEF AgentInv
  <2>3. CASE Steady(AgentOps) /\ UNCHANGED agentVars
    BY <2>3, AgentsAlone
  <2>. QED  BY <2>1, <2>2, <2>3
<1>. QED  BY <1>1, Types, AgentsAtFirst, PTL DEF Spec

(* However many reissues and revocations of an agent overlap or stop, an   *)
(* AIT that was handed out and is no longer the agent's is on the          *)
(* revocation list, or its reissue has yet to put it there.                *)
THEOREM RegistrySupersededListed == Spec => []SupersededListed
<1>1. AgentInv => SupersededListed
  <2>. SUFFICES ASSUME AgentInv, NEW a \in Agents, agents[a].status # "absent",
                       NEW j \in HandedOut(a) \ {agents[a].jti}
                PROVE  j \in crl \/ Listing(j)
    BY DEF SupersededListed, Listing
  <2>1. j \in Issued(a)
    BY DEF HandedOut, Succeeded, Issued
  <2>. QED  BY <2>1 DEF AgentInv, IssuedInv
<1>. QED  BY <1>1, AgentsHold, PTL

(* When the proxy is told that an agent is revoked, the agent and its      *)
(* session are closed, and nothing under way opens them again.             *)
THEOREM RegistryEventsBacked == Spec => []EventsBacked
<1>1. AgentInv => EventsBacked
  BY DEF AgentInv, RevokeInv, EventsBacked
<1>. QED  BY <1>1, AgentsHold, PTL

(* A step that grants access finds the session open. *)
LEMMA GrantsOpen ==
    ASSUME TypeInv, NEW p \in Requests, AgentStep(p), NEW r \in Requests,
           r \in Rotations' \ Rotations \/ r \in Succeeded("validate")' \ Succeeded("validate")
    PROVE  sessions[req[r].on].status = "active"
<1>. USE DEF TypeInv
<1>1. r = p
  BY AgentTypes DEF Serves, Rotations, Succeeded
<1>2. \/ /\ req'[r].op = "refresh" /\ req'[r].pc \in {"event", "done"}
         /\ ~(req[r].op = "refresh" /\ req[r].pc \in {"event", "done"})
      \/ /\ req'[r].op = "validate" /\ req'[r].pc = "done"
         /\ ~(req[r].op = "validate" /\ req[r].pc = "done")
  BY DEF Rotations, Succeeded
<1>3. CASE \/ \E c \in Challenges, h \in Humans : RegisterRead(r, c, h)
           \/ \E a \in Agents : RevokeRead(r, a) \/ ReissueRead(r, a) \/ AuthRevokeRead(r, a)
           \/ \E a, t \in Agents : ValidateRead(r, a, t)
  <2>1. PICK op, pc, by, on, seen :
           /\ op \in AgentOps \ {"refresh"}
           /\ Begins(r, op, pc, by, on, seen) /\ (op = "validate" => pc = "touch")
    BY <1>3, AgentReads DEF AgentOps
  <2>. QED  BY <1>2, <2>1 DEF Begins
<1>4. ASSUME NEW a \in Agents, NEW t \in Agents, RefreshRead(r, a, t) PROVE FALSE
  <2>1. PICK pc \in {"failed", "expire", "rotate"} : Begins(r, "refresh", pc, a, a, t)
    BY <1>4, AgentReads
  <2>. QED  BY <1>2, <2>1 DEF Begins
<1>5. CASE \/ RegisterClaim(r) \/ RegisterCount(r) \/ RegisterAgent(r) \/ RegisterSession(r)
           \/ RegisterEvent(r) \/ RegisterUndo(r)
           \/ RevokeAgent(r) \/ RevokeList(r) \/ RevokeSession(r) \/ RevokeEvent(r)
           \/ ReissueAgent(r) \/ ReissueList(r) \/ AuthRevokeSession(r)
  <2>1. req[r].op \notin {"none", "refresh", "validate"}
    BY <1>5 DEF RegisterClaim, RegisterCount, RegisterAgent, RegisterSession, RegisterEvent, RegisterUndo,
         RevokeAgent, RevokeList, RevokeSession, RevokeEvent, ReissueAgent, ReissueList,
         AuthRevokeSession, At
  <2>. QED  BY <1>1, <1>2, <2>1, AgentMoves DEF Goes
<1>6. CASE RefreshExpire(r) \/ RefreshEvent(r)
  <2>1. Goes(r, "failed") \/ (At(r, "refresh", "event") /\ Goes(r, "done"))
    BY <1>6, GotoGoes DEF RefreshExpire, RefreshEvent, Statements
  <2>. QED  BY <1>2, <2>1 DEF Goes, At
<1>7. CASE RefreshRotate(r)
  <2>1. Goes(r, "failed") \/ sessions[req[r].on].status = "active"
    BY <1>7, GotoGoes DEF RefreshRotate, Statements
  <2>. QED  BY <1>2, <2>1 DEF Goes
<1>8. CASE ValidateTouch(r)
  <2>1. Goes(r, "failed") \/ sessions[req[r].on] = [status |-> "active", token |-> req[r].seen]
    BY <1>8, GotoGoes DEF ValidateTouch, Statements
  <2>. QED  BY <1>2, <2>1 DEF Goes
<1>. QED  BY <1>1, <1>3, <1>4, <1>5, <1>6, <1>7, <1>8 DEF AgentStep

(* No step gives tokens or a valid access check for an agent whose         *)
(* revocation, which found a session, was answered: however early the      *)
(* request began, its last statement finds the session closed.             *)
THEOREM RegistryNoAccessAfterRevoke == Spec => NoAccessAfterRevoke
<1>1. ASSUME TypeInv, AgentInv, [Next]_vars, NEW r \in Requests,
             r \in Rotations' \ Rotations \/ r \in Succeeded("validate")' \ Succeeded("validate"),
             NEW q \in Succeeded("revoke"), req[q].has
      PROVE  req[q].on # req[r].on
  <2>1. sessions[req[q].on].status # "active"
    BY <1>1 DEF Succeeded, AgentInv, RevokeInv
  <2>2. AgentNext \/ Steady(AgentOps)
    BY <1>1, Families
  <2>3. CASE Steady(AgentOps) \/ UNCHANGED req
    BY <1>1, <2>3 DEF Steady, AgentOps, Rotations, Succeeded
  <2>4. ASSUME NEW p \in Requests, AgentStep(p) PROVE sessions[req[r].on].status = "active"
    BY <1>1, <2>4, GrantsOpen
  <2>. QED  BY <2>1, <2>2, <2>3, <2>4 DEF AgentNext, CreateChallenge
<1>2. TypeInv /\ AgentInv /\ [Next]_vars =>
        [\A r \in Requests :
          /\ r \in Rotations' \ Rotations \/ r \in Succeeded("validate")' \ Succeeded("validate")
          => \A q \in Succeeded("revoke") : req[q].has => req[q].on # req[r].on]_<<req, sessions>>
  BY <1>1
<1>. QED  BY <1>2, Types, AgentsHold, PTL DEF Spec, NoAccessAfterRevoke

(***************************************************************************)
(* Groups and join tokens                                                  *)
(***************************************************************************)
(* What a statement may do to a join token: nothing, make it, delete it.   *)
Kept(t) ==
    \/ joinTokens'[t] = joinTokens[t]
    \/ /\ joinTokens[t].status = "unused" /\ joinTokens'[t].status = "live"
       /\ joinTokens'[t].used = 0 /\ joinTokens'[t].max \in 1 .. MaxUses
    \/ /\ joinTokens[t].status = "live" /\ joinTokens'[t].status = "deleted"
       /\ joinTokens'[t].used = joinTokens[t].used /\ joinTokens'[t].max = joinTokens[t].max

(* Or count a use, in the statement that ends a join with success. *)
Counted(r, t) ==
    /\ joinTokens[t].status = "live" /\ joinTokens'[t].status = "live"
    /\ joinTokens[t].used < joinTokens[t].max
    /\ joinTokens'[t].used = joinTokens[t].used + 1 /\ joinTokens'[t].max = joinTokens[t].max
    /\ Joined(t)' \subseteq Joined(t) \cup {r}

(* A join was begun with a token that was made. *)
Brought(r) == req[r].op = "join" => joinTokens[req[r].seen].status # "unused"

Uses(t) == Cardinality(Joined(t)) <= joinTokens[t].used /\ joinTokens[t].used <= joinTokens[t].max

LEMMA TokenMoves ==
    ASSUME TypeInv, NEW r \in Requests, GroupStep(r)
    PROVE  /\ \A t \in Tokens : \/ Kept(t) /\ Joined(t)' \subseteq Joined(t)
                                \/ Counted(r, t)
           /\ \/ req'[r].op # "join"
              \/ req'[r].op = req[r].op /\ req'[r].seen = req[r].seen
              \/ joinTokens[req'[r].seen].status = "live"
<1>. DEFINE Moves == \A t \in Tokens : (Kept(t) /\ Joined(t)' \subseteq Joined(t)) \/ Counted(r, t)
            Asks == \/ req'[r].op # "join"
                    \/ req'[r].op = req[r].op /\ req'[r].seen = req[r].seen
                    \/ joinTokens[req'[r].seen].status = "live"
<1>. USE DEF TypeInv
<1>t. joinTokens \in [Tokens -> TokenRow]
  BY DEF GroupsTypeOK
<1>s. \A q \in Requests \ {r} : req'[q] = req[q]
  BY GroupTypes DEF Serves
<1>n. ASSUME req'[r].op = "join" => req'[r].pc # "done", NEW t \in Tokens PROVE Joined(t)' \subseteq Joined(t)
  BY <1>n, <1>s DEF Joined
<1>1. ASSUME NEW g \in Groups, IssueTokenRead(r, g) \/ DeleteGroupRead(r, g) PROVE Moves /\ Asks
  <2>1. PICK op, pc : op \in {"token", "deleteGroup"} /\ Begins(r, op, pc, None, g, None)
    BY <1>1, GroupReads
  <2>2. UNCHANGED joinTokens
    BY <1>1 DEF IssueTokenRead, DeleteGroupRead, groupVars
  <2>3. req'[r].op # "join"
    BY <2>1 DEF Begins
  <2>. QED  BY <1>n, <2>2, <2>3 DEF Kept
<1>2. ASSUME NEW g \in Groups, NEW a \in Agents, RemoveMemberRead(r, g, a) PROVE Moves /\ Asks
  <2>1. Begins(r, "remove", "write", a, g, None)
    BY <1>2, GroupReads
  <2>2. UNCHANGED joinTokens
    BY <1>2 DEF RemoveMemberRead, groupVars
  <2>3. req'[r].op # "join"
    BY <2>1 DEF Begins
  <2>. QED  BY <1>n, <2>2, <2>3 DEF Kept
<1>3. ASSUME NEW a \in Agents, NEW u \in Tokens, JoinRead(r, a, u) PROVE Moves /\ Asks
  <2>1. PICK pc \in {"noop", "insert"} : /\ Begins(r, "join", pc, a, joinTokens[u].group, u)
                                         /\ joinTokens[u].status = "live"
    BY <1>3, GroupReads
  <2>2. UNCHANGED joinTokens
    BY <1>3 DEF JoinRead, groupVars
  <2>3. req'[r].pc # "done" /\ req'[r].seen = u
    BY <2>1 DEF Begins
  <2>. QED  BY <1>n, <2>1, <2>2, <2>3 DEF Kept
<1>4. CASE IssueTokenInsert(r)
  <2>1. req[r].op = "token" /\ (Goes(r, "done") \/ Goes(r, "failed"))
    BY <1>4, GotoGoes DEF IssueTokenInsert, At, Statements
  <2>2. req'[r].op # "join"
    BY <2>1 DEF Goes
  <2>3. ASSUME NEW t \in Tokens PROVE Kept(t)
    <3>1. \/ UNCHANGED joinTokens
          \/ \E u \in Tokens, row \in NewTokens(req[r].on) :
                joinTokens[u].status = "unused" /\ joinTokens' = [joinTokens EXCEPT ![u] = row]
      BY <1>4 DEF IssueTokenInsert
    <3>. QED  BY <3>1, <1>t DEF Kept, NewTokens
  <2>. QED  BY <1>n, <2>2, <2>3
<1>5. CASE JoinInsert(r) \/ JoinUndo(r) \/ RemoveMemberWrite(r)
  <2>1. /\ \E pc \in Statements : Goes(r, pc) /\ (req[r].op = "join" => pc # "done")
        /\ UNCHANGED joinTokens
    BY <1>5, GotoGoes DEF JoinInsert, JoinUndo, RemoveMemberWrite, At, Statements
  <2>2. (req'[r].op = "join" => req'[r].pc # "done") /\ Asks
    BY <2>1 DEF Goes
  <2>. QED  BY <1>n, <2>1, <2>2 DEF Kept
<1>6. CASE JoinUse(r)
  <2>1. PICK u \in Tokens : At(r, "join", "use") /\ u = req[r].seen
    BY <1>6 DEF JoinUse, At, RequestsInv, RowFits
  <2>2. CASE /\ joinTokens[u].status = "live" /\ joinTokens[u].used < joinTokens[u].max
             /\ joinTokens' = [joinTokens EXCEPT ![u].used = @ + 1]
             /\ Goto(r, "done")
    <3>1. Goes(r, "done")
      BY <2>2, GotoGoes DEF Statements
    <3>2. Asks
      BY <3>1 DEF Goes
    <3>3. Counted(r, u)
      <4>1. Joined(u)' \subseteq Joined(u) \cup {r}
        BY <1>s DEF Joined
      <4>. QED  BY <4>1, <1>t, <2>1, <2>2 DEF Counted, TokenRow
    <3>4. ASSUME NEW t \in Tokens \ {u} PROVE Kept(t) /\ Joined(t)' \subseteq Joined(t)
      <4>1. Kept(t)
        BY <2>2, <1>t DEF Kept
      <4>2. Joined(t)' \subseteq Joined(t)
        BY <3>1, <2>1, <1>s DEF Joined, Goes
      <4>. QED  BY <4>1, <4>2
    <3>. QED  BY <3>2, <3>3, <3>4
  <2>3. CASE Goto(r, "undo") /\ UNCHANGED joinTokens
    <3>1. Goes(r, "undo")
      BY <2>3, GotoGoes DEF Statements
    <3>2. req'[r].pc # "done" /\ Asks
      BY <3>1 DEF Goes
    <3>. QED  BY <1>n, <2>3, <3>2 DEF Kept
  <2>. QED  BY <1>6, <2>1, <2>2, <2>3 DEF JoinUse
<1>7. CASE DeleteGroupWrite(r)
  <2>1. req[r].op = "deleteGroup" /\ \E pc \in Statements : Goes(r, pc)
    BY <1>7, GotoGoes DEF DeleteGroupWrite, At, Statements
  <2>2. req'[r].op # "join"
    BY <2>1 DEF Goes
  <2>3. ASSUME NEW t \in Tokens PROVE Kept(t)
    <3>1. \/ UNCHANGED joinTokens
          \/ joinTokens' = [v \in Tokens |-> IF v \in TokensOf(req[r].on)
                               THEN [joinTokens[v] EXCEPT !.status = "deleted"]
                               ELSE joinTokens[v]]
      BY <1>7 DEF DeleteGroupWrite
    <3>2. CASE UNCHANGED joinTokens \/ t \notin TokensOf(req[r].on)
      BY <3>1, <3>2 DEF Kept
    <3>3. CASE t \in TokensOf(req[r].on) /\ joinTokens'[t] = [joinTokens[t] EXCEPT !.status = "deleted"]
      BY <3>3, <1>t DEF Kept, TokenRow, TokensOf
    <3>. QED  BY <3>1, <3>2, <3>3
  <2>. QED  BY <1>n, <2>2, <2>3
<1>. QED  BY <1>1, <1>2, <1>3, <1>4, <1>5, <1>6, <1>7 DEF GroupStep

LEMMA UsesStep ==
    ASSUME TypeInv, TypeInv', GroupInv, GroupNext
    PROVE  /\ \A r \in Requests : Brought(r)'
           /\ \A t \in Tokens : Uses(t)'
<1>. USE DEF TypeInv
<1>t. joinTokens \in [Tokens -> TokenRow]
  BY DEF GroupsTypeOK
<1>i. (\A r \in Requests : Brought(r)) /\ (\A t \in Tokens : Uses(t))
  BY DEF GroupInv, Brought, Uses
<1>1. ASSUME NEW r \in Requests, GroupStep(r)
      PROVE  (\A q \in Requests : Brought(q)') /\ (\A t \in Tokens : Uses(t)')
  <2>m. \A t \in Tokens : (Kept(t) /\ Joined(t)' \subseteq Joined(t)) \/ Counted(r, t)
    BY <1>1, TokenMoves
  <2>1. ASSUME NEW q \in Requests, req'[q].op = "join" PROVE joinTokens'[req'[q].seen].status # "unused"
    <3>1. req'[q].seen \in Tokens
      BY <2>1 DEF RequestsInv, RowFits
    <3>2. joinTokens[req'[q].seen].status # "unused"
      <4>1. CASE q = r
        BY <4>1, <2>1, <1>1, <1>i, TokenMoves DEF Brought
      <4>2. CASE q # r
        BY <4>2, <2>1, <1>1, <1>i, GroupTypes DEF Brought, Serves
      <4>. QED  BY <4>1, <4>2
    <3>. QED  BY <3>1, <3>2, <2>m DEF Kept, Counted
  <2>2. ASSUME NEW t \in Tokens PROVE Uses(t)'
    <3>n. Cardinality(Joined(t)) \in Nat /\ Cardinality(Joined(t)') \in Nat
      BY Sizes DEF Joined
    <3>u. joinTokens[t].used \in Nat /\ joinTokens[t].max \in Nat
      BY <1>t, GroupsAssumption DEF TokenRow
    <3>1. CASE Counted(r, t)
      <4>1. Cardinality(Joined(t)') <= Cardinality(Joined(t)) + 1
        BY <3>1, Sizes DEF Counted, Joined
      <4>. QED  BY <4>1, <3>1, <3>n, <3>u, <1>i DEF Counted, Uses
    <3>2. CASE Kept(t) /\ Joined(t)' \subseteq Joined(t)
      <4>1. Cardinality(Joined(t)') <= Cardinality(Joined(t))
        BY <3>2, Sizes DEF Joined
      <4>2. CASE joinTokens[t].status # "unused"
        BY <4>1, <4>2, <3>2, <3>n, <3>u, <1>i DEF Kept, Uses
      <4>3. CASE joinTokens[t].status = "unused"
        <5>1. Joined(t) = {}
          BY <4>3, <1>i DEF Joined, Brought
        <5>2. Cardinality(Joined(t)') = 0
          BY <5>1, <3>2, FS_EmptySet
        <5>. QED  BY <4>3, <5>2, <3>2, <3>u, <1>i, GroupsAssumption DEF Kept, Uses
      <4>. QED  BY <4>2, <4>3
    <3>. QED  BY <3>1, <3>2, <2>m
  <2>. QED  BY <2>1, <2>2 DEF Brought
<1>2. ASSUME NEW g \in Groups, NEW h \in Humans, CreateGroup(g, h)
      PROVE  (\A q \in Requests : Brought(q)') /\ (\A t \in Tokens : Uses(t)')
  <2>1. UNCHANGED <<req, joinTokens>>
    BY <1>2 DEF CreateGroup
  <2>2. \A t \in Tokens : Joined(t)' = Joined(t)
    BY <2>1 DEF Joined
  <2>. QED  BY <2>1, <2>2, <1>i DEF Brought, Uses
<1>. QED  BY <1>1, <1>2 DEF GroupNext

(* Sets of agents are finite; one agent more makes a set one larger. *)
LEMMA AgentSizes ==
    ASSUME NEW S \in SUBSET Agents, NEW T \in SUBSET Agents
    PROVE  /\ Cardinality(S) \in Nat
           /\ T \subseteq S => Cardinality(T) <= Cardinality(S)
           /\ \A a : T \subseteq S \cup {a} => Cardinality(T) <= Cardinality(S) + 1
<1>0. IsFiniteSet(Agents)
  BY RequestsAssumption, FS_Union DEF Agents
<1>1. /\ IsFiniteSet(S) /\ IsFiniteSet(T) /\ Cardinality(S) \in Nat /\ Cardinality(T) \in Nat
  BY <1>0, FS_Subset, FS_CardinalityType
<1>2. ASSUME T \subseteq S PROVE Cardinality(T) <= Cardinality(S)
  BY <1>1, <1>2, FS_Subset
<1>3. ASSUME NEW a, T \subseteq S \cup {a} PROVE Cardinality(T) <= Cardinality(S) + 1
  <2>0. /\ IsFiniteSet(S \cup {a})
        /\ Cardinality(S \cup {a}) = IF a \in S THEN Cardinality(S) ELSE Cardinality(S) + 1
    BY <1>1, FS_AddElement
  <2>1. IsFiniteSet(S \cup {a}) /\ Cardinality(S \cup {a}) <= Cardinality(S) + 1
    BY <1>1, <2>0
  <2>2. Cardinality(T) <= Cardinality(S \cup {a}) /\ Cardinality(S \cup {a}) \in Nat
    BY <2>1, <1>3, FS_Subset, FS_CardinalityType
  <2>. QED  BY <1>1, <2>1, <2>2
<1>. QED  BY <1>1, <1>2, <1>3

(* Only the statement that counts the members lets one in. *)
LEMMA MembersStep ==
    ASSUME TypeInv, MembersBounded, GroupNext
    PROVE  MembersBounded'
<1>. USE GroupsAssumption DEF TypeInv
<1>t. members \in [Groups -> [Agents -> Roles \cup {None}]]
  BY DEF GroupsTypeOK
(* A step after which every group has at most the members it had. *)
<1>f. ASSUME \A g \in Groups : MembersOf(g)' \subseteq MembersOf(g) PROVE MembersBounded'
  <2>1. ASSUME NEW g \in Groups PROVE Cardinality(MembersOf(g)') <= MaxMembers
    <3>1. /\ Cardinality(MembersOf(g)') <= Cardinality(MembersOf(g))
          /\ Cardinality(MembersOf(g)') \in Nat /\ Cardinality(MembersOf(g)) \in Nat
      BY <1>f, AgentSizes DEF MembersOf
    <3>. QED  BY <3>1 DEF MembersBounded
  <2>. QED  BY <2>1 DEF MembersBounded
<1>u. ASSUME UNCHANGED members PROVE MembersBounded'
  BY <1>f, <1>u DEF MembersOf
<1>1. ASSUME NEW r \in Requests, GroupStep(r) PROVE MembersBounded'
  <2>1. CASE \/ \E g \in Groups : IssueTokenRead(r, g) \/ DeleteGroupRead(r, g)
             \/ \E g \in Groups, a \in Agents : RemoveMemberRead(r, g, a)
             \/ \E a \in Agents, t \in Tokens : JoinRead(r, a, t)
             \/ IssueTokenInsert(r) \/ JoinUse(r)
    <3>1. UNCHANGED members
      BY <2>1 DEF IssueTokenRead, DeleteGroupRead, RemoveMemberRead, JoinRead, IssueTokenInsert, JoinUse,
           groupVars
    <3>. QED  BY <3>1, <1>u
  <2>2. CASE JoinUndo(r) \/ RemoveMemberWrite(r)
    <3>1. req[r].on \in Groups /\ req[r].by \in Agents
      BY <2>2 DEF JoinUndo, RemoveMemberWrite, At, RequestsInv, RowFits
    <3>2. \/ members' = [members EXCEPT ![req[r].on][req[r].by] = None]
          \/ UNCHANGED members
      BY <2>2 DEF JoinUndo, RemoveMemberWrite, SetMember
    <3>3. \A g \in Groups : MembersOf(g)' \subseteq MembersOf(g)
      BY <3>1, <3>2, <1>t DEF MembersOf
    <3>. QED  BY <3>3, <1>f
  <2>3. CASE DeleteGroupWrite(r)
    <3>1. req[r].on \in Groups
      BY <2>3 DEF DeleteGroupWrite, At, RequestsInv, RowFits
    <3>2. \/ members' = [members EXCEPT ![req[r].on] = [a \in Agents |-> None]]
          \/ UNCHANGED members
      BY <2>3 DEF DeleteGroupWrite
    <3>3. \A g \in Groups : MembersOf(g)' \subseteq MembersOf(g)
      BY <3>1, <3>2, <1>t DEF MembersOf
    <3>. QED  BY <3>3, <1>f
  <2>4. CASE JoinInsert(r)
    <3>1. PICK h \in Groups, b \in Agents : h = req[r].on /\ b = req[r].by
      BY <2>4 DEF JoinInsert, At, RequestsInv, RowFits
    <3>2. \/ UNCHANGED members
          \/ /\ Cardinality(MembersOf(h)) < MaxMembers
             /\ \E role : members' = [members EXCEPT ![h][b] = role]
      BY <2>4, <3>1 DEF JoinInsert, SetMember
    <3>3. CASE UNCHANGED members
      BY <3>3, <1>u
    <3>4. ASSUME Cardinality(MembersOf(h)) < MaxMembers,
                 NEW role, members' = [members EXCEPT ![h][b] = role],
                 NEW g \in Groups
          PROVE  Cardinality(MembersOf(g)') <= MaxMembers
      <4>n. Cardinality(MembersOf(g)') \in Nat /\ Cardinality(MembersOf(g)) \in Nat
        BY AgentSizes DEF MembersOf
      <4>1. CASE g = h
        <5>1. MembersOf(g)' \subseteq MembersOf(g) \cup {b}
          BY <3>4, <4>1, <1>t DEF MembersOf
        <5>2. Cardinality(MembersOf(g)') <= Cardinality(MembersOf(g)) + 1
          BY <5>1, AgentSizes DEF MembersOf
        <5>. QED  BY <5>2, <4>n, <3>4, <4>1
      <4>2. CASE g # h
        <5>1. MembersOf(g)' \subseteq MembersOf(g)
          BY <3>4, <4>2, <1>t DEF MembersOf
        <5>2. Cardinality(MembersOf(g)') <= Cardinality(MembersOf(g))
          BY <5>1, AgentSizes DEF MembersOf
        <5>. QED  BY <5>2, <4>n DEF MembersBounded
      <4>. QED  BY <4>1, <4>2
    <3>. QED  BY <3>2, <3>3, <3>4 DEF MembersBounded
  <2>. QED  BY <1>1, <2>1, <2>2, <2>3, <2>4 DEF GroupStep
<1>2. CASE \E g \in Groups, h \in Humans : CreateGroup(g, h)
  BY <1>2, <1>u DEF CreateGroup
<1>. QED  BY <1>1, <1>2 DEF GroupNext

LEMMA GroupsAtFirst == Init => GroupInv
<1>. SUFFICES ASSUME Init PROVE GroupInv
  OBVIOUS
<1>1. \A r \in Requests : req[r].op = "none"
  BY DEF Init, Idle
<1>2. \A t \in Tokens : joinTokens[t].used = 0 /\ joinTokens[t].max = 1
  BY DEF Init, GroupsInit
<1>3. \A t \in Tokens : Cardinality(Joined(t)) = 0
  <2>1. \A t \in Tokens : Joined(t) = {}
    BY <1>1 DEF Joined
  <2>. QED  BY <2>1, FS_EmptySet
<1>4. MembersBounded
  BY DEF Init, GroupsInit, MembersBounded
<1>. QED  BY <1>1, <1>2, <1>3, <1>4 DEF GroupInv

LEMMA GroupsHold == Spec => []GroupInv
<1>1. TypeInv /\ GroupInv /\ [Next]_vars => GroupInv'
  <2>. SUFFICES ASSUME TypeInv, GroupInv, [Next]_vars PROVE GroupInv'
    OBVIOUS
  <2>1. TypeInv' /\ (GroupNext \/ (Steady(GroupOps) /\ UNCHANGED groupVars))
    BY Families
  <2>2. CASE GroupNext
    <3>1. (\A r \in Requests : Brought(r)') /\ (\A t \in Tokens : Uses(t)')
      BY <2>1, <2>2, UsesStep
    <3>2. MembersBounded'
      BY <2>2, MembersStep DEF GroupInv
    <3>. QED  BY <3>1, <3>2 DEF GroupInv, Brought, Uses
  <2>3. CASE Steady(GroupOps) /\ UNCHANGED groupVars
    <3>1. UNCHANGED <<members, joinTokens>>
      BY <2>3 DEF groupVars
    <3>2. \A t \in Tokens : Joined(t)' = Joined(t)
      BY <2>3 DEF Joined, Steady, GroupOps
    <3>3. \A r \in Requests : Brought(r) => Brought(r)'
      BY <2>3, <3>1 DEF Brought, Steady, GroupOps
    <3>4. MembersBounded'
      BY <3>1 DEF GroupInv, MembersBounded, MembersOf
    <3>. QED  BY <3>1, <3>2, <3>3, <3>4 DEF GroupInv, Brought
  <2>. QED  BY <2>1, <2>2, <2>3
<1>. QED  BY <1>1, Types, GroupsAtFirst, PTL DEF Spec

LEMMA TokensBounded == TypeInv /\ GroupInv => TokenUsesBounded
<1>. SUFFICES ASSUME TypeInv, GroupInv, NEW t \in Tokens
              PROVE  Cardinality({r \in Succeeded("join") : req[r].seen = t}) <= joinTokens[t].max
  BY DEF TokenUsesBounded
<1>1. {r \in Succeeded("join") : req[r].seen = t} = Joined(t)
  BY DEF Succeeded, Joined
<1>2. Cardinality(Joined(t)) \in Nat
  BY Sizes DEF Joined
<1>3. joinTokens[t].used \in Nat /\ joinTokens[t].max \in Nat
  BY GroupsAssumption DEF TypeInv, GroupsTypeOK, TokenRow
<1>4. Cardinality(Joined(t)) <= joinTokens[t].used /\ joinTokens[t].used <= joinTokens[t].max
  BY DEF GroupInv
<1>5. Cardinality(Joined(t)) <= joinTokens[t].max
  BY <1>2, <1>3, <1>4
<1>. QED  BY <1>1, <1>5

(* What may be used a limited number of times is used no more often,       *)
(* however many requests overlap and wherever workers stop: invites,       *)
(* starter passes, places in a group, join tokens and refresh tokens.      *)
THEOREM RegistryLimitsKept == Spec => []LimitsKept
<1>1. TypeInv /\ AccountInv /\ AgentInv /\ GroupInv => LimitsKept
  <2>. SUFFICES ASSUME TypeInv, AccountInv, AgentInv, GroupInv PROVE LimitsKept
    OBVIOUS
  <2>1. InviteOnce /\ PassRedemptionsBounded /\ TokenUsesBounded
    BY InvitesBounded, PassesBounded, TokensBounded
  <2>2. MembersBounded
    BY DEF GroupInv
  <2>3. RefreshOnce
    BY DEF AgentInv, RefreshInv
  <2>. QED  BY <2>1, <2>2, <2>3 DEF LimitsKept
<1>. QED  BY <1>1, Types, Accounts, AgentsHold, GroupsHold, PTL
=============================================================================
