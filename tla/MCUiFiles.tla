----------------------------- MODULE MCUiFiles -----------------------------
(* The files page with two directories and one file at first.               *)
EXTENDS UiFiles

CONSTANTS d, e, x, y

HeldPaths == {<<d, x>>}
=============================================================================
