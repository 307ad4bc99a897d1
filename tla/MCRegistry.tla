----------------------------- MODULE MCRegistry -----------------------------
(***************************************************************************)
(* Small instances of the registry.  The three families of requests share  *)
(* rows but write different tables, so each behaviour runs the requests of *)
(* one family, the "scene", from states that the others may leave; agents  *)
(* are registered from nothing or, in a scene of its own, one is there and *)
(* no challenge is asked for.                                              *)
(***************************************************************************)
EXTENDS Registry, TLC

CONSTANTS
    r1, r2, r3,     \* requests
    a1, a2, a3,     \* agents registered earlier
    Scenes          \* the scenes that are played

VARIABLE scene

MCRequests == {r1, r2, r3}
MCSeeds == {a1, a2, a3}

(* Requests are interchangeable, and so are the agents that start alike. *)
Symmetry == Permutations(MCRequests) \cup Permutations({a1, a2})

mcVars == <<scene, vars>>

MCInit ==
    /\ Init
    /\ scene \in Scenes
    /\ LET live == {a \in Seeds : agents[a].status = "active"}
           limited == humans[Owner] = "github_starter_pass"
           booted == humans[Admin] # "absent"
       IN  CASE scene = "accounts" -> ~limited /\ live = {} /\ groups = [g \in Groups |-> None]
             [] scene = "register" -> limited /\ ~booted /\ live = {} /\ groups = [g \in Groups |-> None]
             [] scene = "agents" -> ~limited /\ ~booted /\ live = {a3} /\ groups = [g \in Groups |-> None]
             [] scene = "groups" -> /\ booted /\ ~limited /\ live = Seeds
                                    /\ \A g \in Groups : MembersOf(g) \subseteq {a3}

MCNext ==
    /\ \/ scene = "accounts" /\ AccountNext
       \/ scene \in {"register", "agents"} /\ AgentNext
       \/ scene = "groups" /\ GroupNext
       \/ TimePasses
       \/ WorkersStop
    /\ UNCHANGED scene
    /\ scene = "agents" => UNCHANGED challenges

MCSpec == MCInit /\ [][MCNext]_mcVars
=============================================================================
