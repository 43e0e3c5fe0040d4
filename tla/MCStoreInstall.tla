--------------------------- MODULE MCStoreInstall ---------------------------
(* The store page on a small catalog.                                       *)
EXTENDS StoreInstall
=============================================================================
