--------------------------- MODULE MCAppLifecycle ---------------------------
(* Model-checking instances of AppLifecycle. *)
EXTENDS AppLifecycle, TLC

Symmetry == Permutations(Reqs)
=============================================================================
