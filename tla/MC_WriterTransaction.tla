------------------------ MODULE MC_WriterTransaction ------------------------
(***************************************************************************)
(* One caller that waits and one correction that does not, a queue of one  *)
(* command and every fault: the model values come from the cfg.            *)
(***************************************************************************)
EXTENDS WriterTransaction
=============================================================================
