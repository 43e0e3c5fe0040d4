----------------------------- MODULE MCTaskLog -----------------------------
(* Model-checking instances of TaskLog. *)
EXTENDS TaskLog
=============================================================================
