----------------------------- MODULE MCEventBus -----------------------------
(* Model values of EventBus for TLC; connections are interchangeable.      *)
EXTENDS EventBus, TLC

Symmetry == Permutations(Subs \ Boot) \cup Permutations(Names)
=============================================================================
