--------------------------- MODULE MCDurableReAct ---------------------------
(***************************************************************************)
(* DurableReAct for TLC.  The constants are given by the .cfg files.       *)
(***************************************************************************)
EXTENDS DurableReAct
=============================================================================
