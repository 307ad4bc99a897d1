---------------------------- MODULE ReplayGuard ----------------------------
(***************************************************************************)
(* What a nonce store promises the proxy: while an accepted nonce is       *)
(* remembered it is not accepted again, and it is remembered until its      *)
(* lifetime is over.  Both stores behind tryAcceptNonce implement this: the *)
(* NonceReplayGuard durable object (NonceReplay) and the in-process cache   *)
(* of the SDK (NonceCache).                                                 *)
(***************************************************************************)
EXTENDS Integers

CONSTANTS Keys,   \* (agentDid, nonce) pairs
          Ttl     \* the lifetime of an accepted nonce

VARIABLES now,    \* the store's clock
          until   \* when each remembered nonce may be accepted again; 0: not remembered

vars == <<now, until>>

Init == now = 0 /\ until = [k \in Keys |-> 0]

\* A nonce that is not remembered is accepted.  Its lifetime is counted from
\* the caller's reading of the clock, so it may be partly, or wholly, over.
Accept(k) ==
    /\ until[k] = 0
    /\ \E t \in 1 .. (now + Ttl) :
          until' = [until EXCEPT ![k] = IF t > now THEN t ELSE 0]
    /\ UNCHANGED now

\* Time passes, and the nonces whose lifetime ends are forgotten.
Tick ==
    /\ now' = now + 1
    /\ until' = [k \in Keys |-> IF until[k] > now' THEN until[k] ELSE 0]

Next == Tick \/ \E k \in Keys : Accept(k)

Spec == Init /\ [][Next]_vars
=============================================================================
