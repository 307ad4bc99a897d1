------------------------- MODULE MCConnectorRelay -------------------------
(* ConnectorRelay for TLC: the .cfg files give the constants their values. *)
EXTENDS ConnectorRelay
=============================================================================
