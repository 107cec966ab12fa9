--------------------------- MODULE MC_WriteQueue ---------------------------
(***************************************************************************)
(* Small instances of WriteQueue for TLC.                                   *)
(***************************************************************************)
EXTENDS WriteQueue, TLC
=============================================================================
