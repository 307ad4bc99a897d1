----------------------------- MODULE ProxyAuth ------------------------------
(***************************************************************************)
(* What a request passes in the proxy before its route runs                 *)
(* (apps/proxy/src/server.ts): the limit per client address, the            *)
(* authentication middleware, and the limit per agent.  The middleware      *)
(* waits for the registry, the signature check and the trust store, and     *)
(* requests overlap at every wait; the nonce cache and the buckets of the   *)
(* limits belong to one process.  A request is in a slot while it runs, at  *)
(* the stage it waits for.                                                  *)
(***************************************************************************)
EXTENDS ProxyTrust, Sequences

CONSTANTS
    Slots,          \* requests running at once
    Signed,         \* the signed requests that clients send, once or more
    SigningKeys,    \* kids of the registry's signing keys
    Skew,           \* maxTimestampSkewSeconds
    KeysTtl,        \* registryKeysCacheTtlMs
    Window,         \* the window of both rate limits
    MaxPerAddress,  \* publicIpMaxRequests
    MaxPerAgent,    \* agentRateLimitRequestsPerMinute
    MaxLag,         \* bound: time between a clock reading and its use
    MaxArrivals     \* bound: requests received

PairingPaths == {"start", "confirm", "status"}

LimitedPaths == {"hook", "connect"}

ValidatedPaths == {"hook", "connect", "receipt"}

\* The nonce cache is made with the skew as the lifetime of a nonce.
ASSUME AuthAssumption ==
    /\ Skew \in Nat /\ Ttl = Skew * Second
    /\ Signed \subseteq [path : PairingPaths \cup ValidatedPaths, agent : Agents, nonce : Nonces,
                         ts : Nat, key : SigningKeys, to : Agents \cup {Anyone}, group : BOOLEAN]
    /\ {KeysTtl, MaxLag, MaxArrivals} \subseteq Nat
    /\ {Window, MaxPerAddress, MaxPerAgent} \subseteq Nat \ {0}

VARIABLES
    slot,           \* the request in each slot
    keysCache,      \* registryKeysCache: the kids, and fetchedAtMs
    addressBucket,  \* path -> bucket, for the one client address
    agentBucket,    \* agent -> bucket
    published,      \* the registry: the kids it publishes as active
    arrivals,       \* requests received so far
    taken,          \* history: signed request -> when its nonce was taken first, how often
    passed,         \* history: agent -> when its requests passed the limit, in order
    marked          \* history: agent -> the lifetime of its last revocation marker

authVars == <<slot, keysCache, addressBucket, agentBucket, published, arrivals,
              taken, passed, marked>>

Free == [stage |-> "free"]

NoBucket == [start |-> 0, count |-> 0]

NeverTaken == [at |-> 0, times |-> 0]

\* The request in slot s moves to a stage; its response leaves the slot free.
Goto(s, stage) == slot' = [slot EXCEPT ![s].stage = stage]

Answer(s) == slot' = [slot EXCEPT ![s] = Free]

At(s, stage) == slot[s].stage = stage

Request(s) == slot[s].request

-----------------------------------------------------------------------------
(* Rate limits: fixed windows, swept by every request that is counted. *)

Over(b) == b.count = 0 \/ now - b.start >= Window

\* Slip: the sweep forgets the windows that are not over too.
SweptAll(buckets) == [x \in DOMAIN buckets |-> NoBucket]

Swept(buckets) == [x \in DOMAIN buckets |-> IF Over(buckets[x]) THEN NoBucket ELSE buckets[x]]

Counted(buckets, x) ==
    [Swept(buckets) EXCEPT ![x] = IF Over(buckets[x]) THEN [start |-> now, count |-> 1]
                                  ELSE [start |-> @.start, count |-> @.count + 1]]

Allows(buckets, x, max) == Over(buckets[x]) \/ buckets[x].count < max

-----------------------------------------------------------------------------
(* The registry's signing keys *)

KeysAreFresh == keysCache.keys # {} /\ now - keysCache.fetchedAt <= KeysTtl

\* createPublicRateLimitMiddleware, then the authorization header, then
\* getActiveRegistryKeys: the cached keys, or a fetch.
Arrive(s, r) ==
    LET limited == r.path \in LimitedPaths IN
    /\ At(s, "free")
    /\ arrivals < MaxArrivals
    /\ r.key \in published
    /\ arrivals' = arrivals + 1
    /\ IF limited /\ ~Allows(addressBucket, r.path, MaxPerAddress)
       THEN /\ addressBucket' = Swept(addressBucket)
            /\ UNCHANGED slot
       ELSE /\ addressBucket' = IF limited THEN Counted(addressBucket, r.path)
                                ELSE addressBucket
            /\ slot' = [slot EXCEPT ![s] =
                  [stage |-> IF KeysAreFresh THEN "token" ELSE "fetch",
                   request |-> r, forced |-> FALSE, keys |-> keysCache.keys,
                   readAt |-> 0, promised |-> marked[r.agent]]]
    /\ UNCHANGED <<vars, trustVars, keysCache, agentBucket, published, taken, passed, marked>>

\* The registry answers the fetch with the keys it publishes, or fails (503).
KeysAnswered(s) ==
    /\ At(s, "fetch")
    /\ \/ slot' = [slot EXCEPT ![s] = [@ EXCEPT !.stage = "fetched", !.keys = published]]
       \/ Answer(s)
    /\ UNCHANGED <<vars, trustVars, keysCache, addressBucket, agentBucket, published,
                   arrivals, taken, passed, marked>>

\* The answer arrives, and replaces what was cached meanwhile.
KeysCached(s) ==
    /\ At(s, "fetched")
    /\ keysCache' = [keys |-> slot[s].keys, fetchedAt |-> now]
    /\ Goto(s, "token")
    /\ UNCHANGED <<vars, trustVars, addressBucket, agentBucket, published,
                   arrivals, taken, passed, marked>>

\* Slip: the window of timestamps is one second wider than the nonce lifetime.
WithinSkewWider(ts) ==
    LET seconds == now \div Second IN
    ts <= seconds + Skew /\ seconds <= ts + Skew + 1

\* assertTimestampWithinSkew
WithinSkew(ts) ==
    LET seconds == now \div Second IN
    ts <= seconds + Skew /\ seconds <= ts + Skew

\* verifyAitClaims: an unknown kid is looked up once more in fetched keys.  Then
\* the clock is read and the timestamp compared; the proof is checked next.
VerifyToken(s) ==
    /\ At(s, "token")
    /\ \/ /\ Request(s).key \in slot[s].keys
          /\ IF WithinSkew(Request(s).ts)
             THEN slot' = [slot EXCEPT ![s] = [@ EXCEPT !.stage = "nonce", !.readAt = now]]
             ELSE Answer(s)
       \/ /\ Request(s).key \notin slot[s].keys
          /\ IF slot[s].forced THEN Answer(s)
             ELSE slot' = [slot EXCEPT ![s] = [@ EXCEPT !.stage = "fetch", !.forced = TRUE]]
    /\ UNCHANGED <<vars, trustVars, keysCache, addressBucket, agentBucket, published,
                   arrivals, taken, passed, marked>>

-----------------------------------------------------------------------------
(* Replays, revocations and trust *)

\* The proof holds, and the nonce cache decides by its own reading of the clock.
CheckNonce(s) ==
    LET r == Request(s)
        fresh == Purged[<<r.agent, r.nonce>>] = 0
    IN  /\ At(s, "nonce")
        /\ TryAcceptNonce(r.agent, r.nonce)
        /\ IF fresh
           THEN /\ Goto(s, "revoked")
                /\ taken' = [taken EXCEPT ![r] =
                      [at |-> IF @.times = 0 THEN now ELSE @.at, times |-> @.times + 1]]
           ELSE Answer(s) /\ UNCHANGED taken
        /\ UNCHANGED <<trustVars, keysCache, addressBucket, agentBucket, published,
                       arrivals, passed, marked>>

\* callDurableState: the trust state does not answer, or not with success (503).
TrustFails(s) == Answer(s)

\* fetchLatestCrlClaims fails, and the list in the cache is too old (503).
CrlFails(s) == Answer(s)

\* Slip: the paths that need no known agent skip this check too.
CheckRevokedUnlessPairing(s) ==
    /\ At(s, "revoked")
    /\ \/ /\ ~IsAgentRevoked(Request(s).agent) \/ Request(s).path \in PairingPaths
          /\ Goto(s, "crl")
       \/ Answer(s)
    /\ SweepForCheck
    /\ UNCHANGED <<vars, keysCache, addressBucket, agentBucket, published, arrivals,
                   taken, passed, marked>>

\* The trust store answers that the agent is revoked (401), or not, or fails (503).
CheckRevoked(s) ==
    /\ At(s, "revoked")
    /\ \/ ~IsAgentRevoked(Request(s).agent) /\ Goto(s, "crl")
       \/ IsAgentRevoked(Request(s).agent) /\ Answer(s)
       \/ TrustFails(s)
    /\ SweepForCheck
    /\ UNCHANGED <<vars, keysCache, addressBucket, agentBucket, published, arrivals,
                   taken, passed, marked>>

\* The revocation list (CrlCache): not listed, listed (401) or unavailable.
CheckCrl(s) ==
    /\ At(s, "crl")
    /\ \/ Goto(s, IF Request(s).path \in PairingPaths \cup {"connect"} THEN "session" ELSE "known")
       \/ Answer(s)
       \/ CrlFails(s)
    /\ UNCHANGED <<vars, trustVars, keysCache, addressBucket, agentBucket, published,
                   arrivals, taken, passed, marked>>

\* assertKnownTrustedAgent: unknown (403) and unavailable (503) end the request.
CheckKnown(s) ==
    /\ At(s, "known")
    /\ \/ IsAgentKnown(Request(s).agent) /\ Goto(s, "session")
       \/ ~IsAgentKnown(Request(s).agent) /\ Answer(s)
       \/ TrustFails(s)
    /\ UNCHANGED <<vars, trustVars, keysCache, addressBucket, agentBucket, published,
                   arrivals, taken, passed, marked>>

\* The registry validates the agent's session, where the path asks for it (401
\* or 503 otherwise), and createAgentRateLimitMiddleware counts the request.
CheckSession(s) ==
    LET r == Request(s) IN
    /\ At(s, "session")
    /\ \/ /\ r.path \in ValidatedPaths
          /\ Answer(s)
          /\ UNCHANGED <<agentBucket, passed>>
       \/ /\ ~Allows(agentBucket, r.agent, MaxPerAgent)
          /\ agentBucket' = Swept(agentBucket)
          /\ Answer(s)
          /\ UNCHANGED passed
       \/ /\ Allows(agentBucket, r.agent, MaxPerAgent)
          /\ agentBucket' = Counted(agentBucket, r.agent)
          /\ passed' = [passed EXCEPT ![r.agent] = Append(@, now)]
          /\ Goto(s, r.path)
    /\ UNCHANGED <<vars, trustVars, keysCache, addressBucket, published, arrivals, taken, marked>>

-----------------------------------------------------------------------------
(* The environment *)

\* The registry starts to sign with another key, which it publishes first.
RotateKey(k) ==
    /\ k \notin published
    /\ published' = published \cup {k}
    /\ UNCHANGED <<vars, trustVars, slot, keysCache, addressBucket, agentBucket,
                   arrivals, taken, passed, marked>>

\* A request is not held up for long after it read the clock.
InTime == \A s \in Slots : slot[s].stage \in {"nonce", "ticket"} =>
              now < slot[s].readAt + MaxLag

AuthInit ==
    /\ slot = [s \in Slots |-> Free]
    /\ keysCache = [keys |-> {}, fetchedAt |-> 0]
    /\ addressBucket = [p \in LimitedPaths |-> NoBucket]
    /\ agentBucket = [a \in Agents |-> NoBucket]
    /\ \E k \in SigningKeys : published = {k}
    /\ arrivals = 0
    /\ taken = [r \in Signed |-> NeverTaken]
    /\ passed = [a \in Agents |-> <<>>]
    /\ marked = [a \in Agents |-> 0]

AuthNext ==
    \/ \E s \in Slots :
          \/ \E r \in Signed : Arrive(s, r)
          \/ KeysAnswered(s) \/ KeysCached(s) \/ VerifyToken(s) \/ CheckNonce(s)
          \/ CheckRevoked(s) \/ CheckCrl(s) \/ CheckKnown(s) \/ CheckSession(s)
    \/ \E k \in SigningKeys : RotateKey(k)

-----------------------------------------------------------------------------
(* Properties *)

\* A signed request that was first accepted late enough for the rest of its
\* timestamp's window to lie within the lifetime of its nonce is accepted only
\* once, however many copies arrive and however their checks overlap.  (A record
\* lives for the skew from its acceptance, the window is the skew to both sides
\* of the timestamp: one that came early outlives its nonce.)
AcceptedOnce ==
    \A r \in Signed :
        taken[r].times > 0 /\ (taken[r].at + Ttl - MaxLag) \div Second > r.ts + Skew
            => taken[r].times = 1

\* In any interval of one window an agent's requests pass less than twice as often
\* as the limit says, however the windows lie: of that many in a row the last one
\* is a window later than the first.  The sweep for other agents and the requests
\* that are refused do not start a window early.
RateKept ==
    \A a \in Agents : \A i, j \in 1 .. Len(passed[a]) :
        j - i >= 2 * MaxPerAgent - 1 => passed[a][j] - passed[a][i] >= Window

\* What a proxy lets through: AcceptedOnce and RateKept.
AdmissionBounded == AcceptedOnce /\ RateKept

\* A request that arrived after its agent was marked as revoked gets no further
\* than the trust check while that marker lasts, on whatever path, and whatever
\* sweeps the markers while it waits.
RevokedKeptOut ==
    \A s \in Slots :
        slot[s].stage \notin {"free", "fetch", "fetched", "token", "nonce", "revoked"}
            => slot[s].promised <= now
=============================================================================
