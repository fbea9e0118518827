--------------------------- MODULE MC_ApplicationPair ---------------------------
(***************************************************************************)
(* As many attempts as the code makes, and more faults than one round of   *)
(* attempts survives.                                                      *)
(***************************************************************************)
EXTENDS ApplicationPair
================================================================================
