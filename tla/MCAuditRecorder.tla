-------------------------- MODULE MCAuditRecorder --------------------------
(* Model-checking instances of AuditRecorder. *)
EXTENDS AuditRecorder
=============================================================================
