------------------------ MODULE MCConnectorDelivery -------------------------
(***************************************************************************)
(* Small instances: messages and notifications share the two loops and     *)
(* nothing else, so a behaviour has the one or the other (the "scene").    *)
(***************************************************************************)
EXTENDS ConnectorDelivery

CONSTANTS
    Scenes,         \* the scenes that are played
    MaxTroubles     \* faults, crashes and requests in one behaviour

VARIABLE scene

mcVars == <<scene, deliveryVars>>

MCInit == DeliveryInit /\ scene \in Scenes

MCNext ==
    /\ DeliveryNext
    /\ UNCHANGED scene
    /\ scene = "messages" => arrived' = {}
    /\ scene = "notes" => spent'.frames + spent'.faults = 0
    /\ spent'.faults + spent'.crashes + spent'.replays <= MaxTroubles

MCSpec == MCInit /\ [][MCNext]_mcVars /\ DeliveryFairness
=============================================================================
