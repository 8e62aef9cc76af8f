----------------------------- MODULE MCTaskLoop -----------------------------
(***************************************************************************)
(* TaskLoop for TLC.  The constants are given by the .cfg files.           *)
(***************************************************************************)
EXTENDS TaskLoop
=============================================================================
