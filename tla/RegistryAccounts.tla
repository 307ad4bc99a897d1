-------------------------- MODULE RegistryAccounts --------------------------
(***************************************************************************)
(* Humans, API keys, internal services, and the three ways to become a     *)
(* human: the administrator's bootstrap, an invite, a GitHub starter pass. *)
(***************************************************************************)
EXTENDS RegistryRequests

CONSTANTS
    Invites,    \* invite codes
    Subjects,   \* GitHub accounts
    Svc         \* the configured id of the bootstrap internal service

ASSUME AccountsAssumption == Svc \notin Requests

VARIABLES
    humans,     \* human -> how the account was made, "absent" without a row
    apiKeys,    \* key -> [human, status]
    services,   \* internal service -> its secret
    invites,    \* invite -> [live, by]
    passes,     \* GitHub account -> its starter pass
    reissued    \* history: how often a pass was issued again

accountVars == <<humans, apiKeys, services, invites, passes, reissued>>

Humans == Requests \cup {Owner, Admin}
Keys == Requests \cup {Owner, Admin}
Services == Requests \cup {Svc}
Source == {"admin_bootstrap", "invite", "github_starter_pass"}

KeyRow == [human : Humans, status : {"absent", "active", "revoked"}]
InviteRow == [live : BOOLEAN, by : Humans \cup {None}]
PassRow == [status : {"absent", "active", "redeemed", "expired"},
            code : Requests \cup {None}, by : Humans \cup {None}]

AccountsTypeOK ==
    /\ humans \in [Humans -> Source \cup {"absent"}]
    /\ apiKeys \in [Keys -> KeyRow]
    /\ services \in [Services -> Requests \cup {Admin, None}]
    /\ invites \in [Invites -> InviteRow]
    /\ passes \in [Subjects -> PassRow]
    /\ reissued \in [Subjects -> Nat]

(* agent_limit of a human: one for a starter pass, else none. *)
AgentLimit(h) == IF humans[h] = "github_starter_pass" THEN 1 ELSE None

(* A key is in somebody's hands once the request that made it was answered. *)
Presented(k) == k \in Requests => req[k].pc = "done"

(* createApiKeyAuth: the key is active and its human exists. *)
Authenticated ==
    {h \in Humans : /\ humans[h] # "absent"
                    /\ \E k \in Keys : /\ apiKeys[k] = [human |-> h, status |-> "active"]
                                       /\ Presented(k)}

IsAdmin(h) == humans[h] = "admin_bootstrap"

InsertKey(r, h) == apiKeys' = [apiKeys EXCEPT ![r] = [human |-> h, status |-> "active"]]
DeleteKey(r) == apiKeys' = [apiKeys EXCEPT ![r].status = "absent"]

(* A human's row can go only when no row refers to it. *)
Referenced(h) ==
    \/ \E k \in Keys : apiKeys[k].human = h /\ apiKeys[k].status # "absent"
    \/ \E i \in Invites : invites[i].by = h
    \/ \E g \in Subjects : passes[g].by = h
    \/ h = Admin /\ \/ \E s \in Services : services[s] # None
                    \/ \E i \in Invites : invites[i].live

DeleteHuman(h) == ~Referenced(h) /\ humans' = [humans EXCEPT ![h] = "absent"]

(***************************************************************************)
(* POST /v1/admin/bootstrap                                                *)
(***************************************************************************)
BootstrapRead(r) ==
    /\ \A h \in Humans : ~IsAdmin(h)
    /\ Begin(r, "bootstrap", "human", Admin, None, None, FALSE)
    /\ UNCHANGED accountVars

(* Slip: the conflict is found inside the block whose failure is undone. *)
BootstrapHumanUndone(r) ==
    /\ At(r, "bootstrap", "human")
    /\ IF humans[Admin] = "absent"
       THEN humans' = [humans EXCEPT ![Admin] = "admin_bootstrap"] /\ Goto(r, "key")
       ELSE Goto(r, "undo_service") /\ UNCHANGED humans
    /\ UNCHANGED <<apiKeys, services, invites, passes, reissued>>

(* onConflictDoNothing: the second of two bootstraps inserts no row, and   *)
(* answers before it has anything to undo.                                 *)
BootstrapHuman(r) ==
    /\ At(r, "bootstrap", "human")
    /\ IF humans[Admin] = "absent"
       THEN humans' = [humans EXCEPT ![Admin] = "admin_bootstrap"] /\ Goto(r, "key")
       ELSE Goto(r, "failed") /\ UNCHANGED humans
    /\ UNCHANGED <<apiKeys, services, invites, passes, reissued>>

BootstrapKey(r) ==
    /\ At(r, "bootstrap", "key")
    /\ \/ InsertKey(r, Admin) /\ Goto(r, "service")
       \/ Goto(r, "undo_service") /\ UNCHANGED apiKeys
    /\ UNCHANGED <<humans, services, invites, passes, reissued>>

BootstrapService(r) ==
    /\ At(r, "bootstrap", "service")
    /\ \/ /\ services[Svc] = None
          /\ services' = [services EXCEPT ![Svc] = r]
          /\ Goto(r, "done")
       \/ Goto(r, "undo_service") /\ UNCHANGED services
    /\ UNCHANGED <<humans, apiKeys, invites, passes, reissued>>

(* rollbackBootstrapMutation: three deletes; one that fails is passed over. *)
BootstrapUndo(r) ==
    /\ \/ /\ At(r, "bootstrap", "undo_service")
          /\ services' \in {services, [services EXCEPT ![Svc] = None]}
          /\ Goto(r, "undo_key")
          /\ UNCHANGED <<humans, apiKeys>>
       \/ /\ At(r, "bootstrap", "undo_key")
          /\ DeleteKey(r) \/ UNCHANGED apiKeys
          /\ Goto(r, "undo_human")
          /\ UNCHANGED <<humans, services>>
       \/ /\ At(r, "bootstrap", "undo_human")
          /\ DeleteHuman(Admin) \/ UNCHANGED humans
          /\ Goto(r, "failed")
          /\ UNCHANGED <<apiKeys, services>>
    /\ UNCHANGED <<invites, passes, reissued>>

(***************************************************************************)
(* POST /v1/invites and /v1/invites/redeem                                 *)
(***************************************************************************)
(* parseInviteCreatePayload: an invite may have an end, in the future. *)
NewInvite == [live |-> TRUE, by |-> None]

CreateInvite(i) ==
    /\ \E h \in Authenticated : IsAdmin(h)
    /\ ~invites[i].live
    /\ invites' = [invites EXCEPT ![i] = NewInvite]
    /\ UNCHANGED <<req, humans, apiKeys, services, passes, reissued>>

(* resolveInviteRedeemStateError finds nothing to say against the invite. *)
Redeemable(i) == invites[i] = NewInvite /\ ~Expired("invite", i)

RedeemInviteRead(r, i) ==
    /\ Redeemable(i)
    /\ Begin(r, "invite", "human", r, i, None, FALSE)
    /\ UNCHANGED accountVars

RedeemInviteHuman(r) ==
    /\ At(r, "invite", "human")
    /\ \/ humans' = [humans EXCEPT ![r] = "invite"] /\ Goto(r, "claim")
       \/ Goto(r, "failed") /\ UNCHANGED humans
    /\ UNCHANGED <<apiKeys, services, invites, passes, reissued>>

(* Slip: the update does not ask that nobody has redeemed the invite. *)
RedeemInviteClaimAny(r) ==
    /\ At(r, "invite", "claim")
    /\ invites' = [invites EXCEPT ![req[r].on].by = r]
    /\ Goto(r, "key")
    /\ UNCHANGED <<humans, apiKeys, services, passes, reissued>>

(* The guarded update decides between two requests that both read the      *)
(* invite as free; the loser deletes the human it made.                    *)
RedeemInviteClaim(r) ==
    /\ At(r, "invite", "claim")
    /\ \/ /\ invites[req[r].on].by = None
          /\ invites' = [invites EXCEPT ![req[r].on].by = r]
          /\ Goto(r, "key")
       \/ Goto(r, "undo_human") /\ UNCHANGED invites
    /\ UNCHANGED <<humans, apiKeys, services, passes, reissued>>

RedeemInviteKey(r) ==
    /\ At(r, "invite", "key")
    /\ \/ InsertKey(r, r) /\ Goto(r, "done")
       \/ Goto(r, "undo_claim") /\ UNCHANGED apiKeys
    /\ UNCHANGED <<humans, services, invites, passes, reissued>>

(* The invite is given back only if it is still this human's. *)
RedeemInviteUndo(r) ==
    /\ \/ /\ At(r, "invite", "undo_claim")
          /\ \/ /\ invites[req[r].on].by = r
                /\ invites' = [invites EXCEPT ![req[r].on].by = None]
             \/ UNCHANGED invites
          /\ Goto(r, "undo_human")
          /\ UNCHANGED humans
       \/ /\ At(r, "invite", "undo_human")
          /\ DeleteHuman(r) \/ UNCHANGED humans
          /\ Goto(r, "failed")
          /\ UNCHANGED invites
    /\ UNCHANGED <<apiKeys, services, passes, reissued>>

(***************************************************************************)
(* GitHub onboarding: the callback issues a pass, POST redeem uses it.     *)
(***************************************************************************)
(* normalizeStarterPassStatus *)
PassStatus(p) == IF p.status = "active" /\ Expired("pass", p.code) THEN "expired" ELSE p.status

(* generateStarterPassCode, computeStarterPassExpiry *)
NewPass(r) == [status |-> "active", code |-> r, by |-> None]

(* The callback answers with the active pass, or goes on to write one; an  *)
(* account whose pass was redeemed is turned away.                         *)
CallbackRead(r, g) ==
    /\ LET status == PassStatus(passes[g])
       IN  Begin(r, "callback",
                 CASE status = "absent" -> "insert" [] status = "expired" -> "reissue"
                   [] status = "active" -> "noop" [] OTHER -> "failed",
                 None, g, None, FALSE)
    /\ UNCHANGED accountVars

(* The subject is unique: the second insert fails. *)
CallbackInsert(r) ==
    /\ At(r, "callback", "insert")
    /\ LET g == req[r].on
       IN \/ /\ passes[g].status = "absent"
             /\ passes' = [passes EXCEPT ![g] = NewPass(r)]
             /\ Goto(r, "done")
          \/ Goto(r, "failed") /\ UNCHANGED passes
    /\ UNCHANGED <<humans, apiKeys, services, invites, reissued>>

(* The pass is issued again whatever happened to it since it was read. *)
CallbackReissue(r) ==
    /\ At(r, "callback", "reissue")
    /\ passes' = [passes EXCEPT ![req[r].on] = NewPass(r)]
    /\ reissued' = [reissued EXCEPT ![req[r].on] = @ + 1]
    /\ Goto(r, "done")
    /\ UNCHANGED <<humans, apiKeys, services, invites>>

(* resolveStarterPassRedeemStateError: active, and nobody's yet. *)
PassRedeemable(g) == PassStatus(passes[g]) = "active" /\ passes[g].by = None

(* parseStarterPassRedeemPayload: the caller has the code of a pass. *)
CodePresented(g) == passes[g].code # None

RedeemPassRead(r, g) ==
    /\ CodePresented(g)
    /\ Begin(r, "pass",
             CASE PassStatus(passes[g]) # passes[g].status -> "expire"
               [] PassRedeemable(g) -> "human"
               [] OTHER -> "failed",
             r, g, passes[g].code, FALSE)
    /\ UNCHANGED accountVars

(* An expired pass is marked so whatever happened to it since it was read. *)
RedeemPassExpire(r) ==
    /\ At(r, "pass", "expire")
    /\ passes' = [passes EXCEPT ![req[r].on].status = "expired"]
    /\ Goto(r, "failed")
    /\ UNCHANGED <<humans, apiKeys, services, invites, reissued>>

RedeemPassHuman(r) ==
    /\ At(r, "pass", "human")
    /\ \/ humans' = [humans EXCEPT ![r] = "github_starter_pass"] /\ Goto(r, "claim")
       \/ Goto(r, "failed") /\ UNCHANGED humans
    /\ UNCHANGED <<apiKeys, services, invites, passes, reissued>>

(* Slip: the update asks for an active pass of that code only when it reads. *)
RedeemPassClaimAny(r) ==
    /\ At(r, "pass", "claim")
    /\ passes' = [passes EXCEPT ![req[r].on].status = "redeemed", ![req[r].on].by = r]
    /\ Goto(r, "key")
    /\ UNCHANGED <<humans, apiKeys, services, invites, reissued>>

RedeemPassClaim(r) ==
    /\ At(r, "pass", "claim")
    /\ LET g == req[r].on
       IN \/ /\ passes[g].status = "active" /\ passes[g].by = None
             /\ passes' = [passes EXCEPT ![g].status = "redeemed", ![g].by = r]
             /\ Goto(r, "key")
          \/ Goto(r, "undo_human") /\ UNCHANGED passes
    /\ UNCHANGED <<humans, apiKeys, services, invites, reissued>>

RedeemPassKey(r) ==
    /\ At(r, "pass", "key")
    /\ \/ InsertKey(r, r) /\ Goto(r, "done")
       \/ Goto(r, "undo_claim") /\ UNCHANGED apiKeys
    /\ UNCHANGED <<humans, services, invites, passes, reissued>>

(* Unlike the invite's, this undo stops at its first failure. *)
RedeemPassUndo(r) ==
    /\ \/ /\ At(r, "pass", "undo_claim")
          /\ LET g == req[r].on
             IN \/ /\ passes' = IF passes[g].by = r
                                 THEN [passes EXCEPT ![g].status = "active", ![g].by = None]
                                 ELSE passes
                   /\ Goto(r, "undo_human")
                \/ Goto(r, "failed") /\ UNCHANGED passes
          /\ UNCHANGED humans
       \/ /\ At(r, "pass", "undo_human")
          /\ DeleteHuman(r) \/ UNCHANGED humans
          /\ Goto(r, "failed")
          /\ UNCHANGED passes
    /\ UNCHANGED <<apiKeys, services, invites, reissued>>

(***************************************************************************)
(* API keys and internal services                                          *)
(***************************************************************************)
CreateApiKey(r, h) ==
    /\ h \in Authenticated
    /\ Begin(r, "key", "done", h, None, None, FALSE)
    /\ InsertKey(r, h)
    /\ UNCHANGED <<humans, services, invites, passes, reissued>>

(* A key is revoked by any active key of the same human, itself included. *)
RevokeApiKey(k) ==
    /\ apiKeys[k].status = "active"
    /\ apiKeys[k].human \in Authenticated
    /\ apiKeys' = [apiKeys EXCEPT ![k].status = "revoked"]
    /\ UNCHANGED <<req, humans, services, invites, passes, reissued>>

(* Two administrators' requests for one name: the second insert fails. *)
CreateServiceRead(r) ==
    /\ \E h \in Authenticated : IsAdmin(h)
    /\ \A s \in Requests : services[s] = None
    /\ Begin(r, "service", "insert", Admin, r, None, FALSE)
    /\ UNCHANGED accountVars

CreateServiceInsert(r) ==
    /\ At(r, "service", "insert")
    /\ IF \A s \in Requests : services[s] = None
       THEN services' = [services EXCEPT ![r] = r] /\ Goto(r, "done")
       ELSE Goto(r, "failed") /\ UNCHANGED services
    /\ UNCHANGED <<humans, apiKeys, invites, passes, reissued>>

RotateServiceRead(r, s) ==
    /\ \E h \in Authenticated : IsAdmin(h)
    /\ services[s] # None
    /\ Begin(r, "rotate", "write", Admin, s, None, FALSE)
    /\ UNCHANGED accountVars

RotateServiceWrite(r) ==
    /\ At(r, "rotate", "write")
    /\ services' = [services EXCEPT ![req[r].on] = IF @ = None THEN None ELSE r]
    /\ Goto(r, "done")
    /\ UNCHANGED <<humans, apiKeys, invites, passes, reissued>>

(* One human with a key; the administrator may have been made already. *)
AccountsInit ==
    \E source \in {"invite", "github_starter_pass"}, booted \in BOOLEAN :
        /\ humans = [h \in Humans |-> CASE h = Owner -> source
                                       [] h = Admin /\ booted -> "admin_bootstrap"
                                       [] OTHER -> "absent"]
        /\ apiKeys = [k \in Keys |->
              [human |-> IF k = Admin THEN Admin ELSE Owner,
               status |-> IF k = Owner \/ (k = Admin /\ booted) THEN "active" ELSE "absent"]]
        /\ services = [s \in Services |-> IF s = Svc /\ booted THEN Admin ELSE None]
        /\ invites = [i \in Invites |-> [live |-> FALSE, by |-> None]]
        /\ passes = [g \in Subjects |-> [status |-> "absent", code |-> None, by |-> None]]
        /\ reissued = [g \in Subjects |-> 0]

AccountStep(r) ==
    \/ BootstrapRead(r) \/ BootstrapHuman(r) \/ BootstrapKey(r)
    \/ BootstrapService(r) \/ BootstrapUndo(r)
    \/ \E i \in Invites : RedeemInviteRead(r, i)
    \/ RedeemInviteHuman(r) \/ RedeemInviteClaim(r) \/ RedeemInviteKey(r) \/ RedeemInviteUndo(r)
    \/ \E g \in Subjects : CallbackRead(r, g) \/ RedeemPassRead(r, g)
    \/ CallbackInsert(r) \/ CallbackReissue(r)
    \/ RedeemPassExpire(r) \/ RedeemPassHuman(r) \/ RedeemPassClaim(r)
    \/ RedeemPassKey(r) \/ RedeemPassUndo(r)
    \/ \E h \in Humans : CreateApiKey(r, h)
    \/ CreateServiceRead(r) \/ CreateServiceInsert(r)
    \/ \E s \in Services : RotateServiceRead(r, s)
    \/ RotateServiceWrite(r)

(***************************************************************************)
(* Properties                                                              *)
(***************************************************************************)
(* An invite makes one account: of the requests that read it as free, one  *)
(* is answered with success, and its human stays the one the invite names, *)
(* although the others undo what they wrote (invites.ts, applyRedeemMutation). *)
InviteOnce ==
    \A r \in Succeeded("invite") : invites[req[r].on].by = r /\ humans[r] = "invite"

(* The administrator is made once and for good: what a bootstrap answered  *)
(* with is there, whatever other bootstraps undo (admin.ts; the comment at *)
(* server/constants.ts:163 promises one-time creation under races).        *)
BootstrapStands ==
    \A r \in Succeeded("bootstrap") :
        /\ humans[Admin] = "admin_bootstrap"
        /\ apiKeys[r].human = Admin /\ apiKeys[r].status # "absent"
        /\ services[Svc] # None
        /\ Succeeded("bootstrap") = {r}

(* A GitHub account gets one human, and one more for each time its pass    *)
(* was issued again: two redemptions that overlap do not both succeed, and *)
(* the undo of one does not free a pass that is another's.  (The pass may  *)
(* be issued again after it was redeemed: CallbackReissue does not look.)  *)
PassRedemptionsBounded ==
    \A g \in Subjects :
        Cardinality({r \in Succeeded("pass") : req[r].on = g}) <= 1 + reissued[g]
=============================================================================
