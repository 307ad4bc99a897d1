-------------------------- MODULE RegistryRequests --------------------------
(***************************************************************************)
(* Requests served by the registry over one D1 database.                   *)
(*                                                                         *)
(* D1 has no interactive transactions: the driver's `begin` fails, the     *)
(* handlers notice it (isUnsupportedLocalTransactionError) and run their   *)
(* statements one by one, undoing by hand what they can.  So a request is  *)
(* a sequence of statements, and other requests run between any two of     *)
(* them.  The reads in front of the first write are one step.              *)
(*                                                                         *)
(* A request makes its own identifiers (row ids, token ids, secrets): they *)
(* are random, so the model names them after the request.                  *)
(***************************************************************************)
EXTENDS Naturals, FiniteSets

CONSTANTS
    Requests,   \* the requests that may ever be made
    Owner,      \* a human who has an account from the start
    Admin,      \* the fixed id of the bootstrap administrator
    Seeds,      \* agents that may be registered from the start
    None,       \* no value
    MaxStops    \* how many workers stop

(* What is made is named after the request that makes it, and so differs   *)
(* from what was there at the start.                                       *)
ASSUME RequestsAssumption ==
    /\ IsFiniteSet(Requests) /\ IsFiniteSet(Seeds) /\ Requests \cap Seeds = {}
    /\ Owner \notin Requests /\ Admin \notin Requests /\ Owner # Admin
    /\ None \notin Requests \cup Seeds \cup {Owner, Admin}

VARIABLES
    req,        \* the requests, with what each has read
    expired     \* the codes and tokens whose time is over

(* A request that has not been made.  by: the human or agent who makes it; *)
(* on: the row it is about; seen: what it read there; has: whether a       *)
(* session was active when it looked; up: its worker still runs it.        *)
Idle == [op |-> "none", pc |-> "idle", up |-> TRUE,
         by |-> None, on |-> None, seen |-> None, has |-> FALSE]

(* The first step of request r of kind op ends before statement pc. *)
Begin(r, op, pc, by, on, seen, has) ==
    /\ req[r] = Idle
    /\ req' = [req EXCEPT ![r] = [op |-> op, pc |-> pc, up |-> TRUE, by |-> by,
                                  on |-> on, seen |-> seen, has |-> has]]

(* Request r is about to run statement pc of operation op. *)
At(r, op, pc) == req[r].op = op /\ req[r].pc = pc /\ req[r].up

Goto(r, pc) == req' = [req EXCEPT ![r].pc = pc]

(* Answered "done" (success), "noop" (success, nothing to do) or "failed". *)
Ended(r) == req[r].pc \in {"idle", "done", "noop", "failed"}

(* The requests of kind op that were answered with success. *)
Succeeded(op) == {r \in Requests : req[r].op = op /\ req[r].pc = "done"}

(* The worker stops: nothing after the last statement happens. *)
WorkerStops(r) ==
    /\ ~Ended(r) /\ req[r].up
    /\ Cardinality({q \in Requests : ~req[q].up}) < MaxStops
    /\ req' = [req EXCEPT ![r].up = FALSE]

(* A row of kind `kind` reaches its expires_at. *)
Expires(kind, id) ==
    /\ <<kind, id>> \notin expired
    /\ expired' = expired \cup {<<kind, id>>}

Expired(kind, id) == <<kind, id>> \in expired
=============================================================================
