----------------------------- MODULE MCUiShell -----------------------------
(* The shell with two versions of PowerLab. *)
EXTENDS UiShell
=============================================================================
