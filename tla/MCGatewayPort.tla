--------------------------- MODULE MCGatewayPort ---------------------------
(* Model-checking instances of GatewayPort. *)
EXTENDS GatewayPort
=============================================================================
