---------------------------- MODULE MCUiSettings ----------------------------
(* The settings page with two ports and one service besides the gateway. *)
EXTENDS UiSettings

CONSTANTS p, q, core
=============================================================================
