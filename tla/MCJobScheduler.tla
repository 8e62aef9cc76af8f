--------------------------- MODULE MCJobScheduler ---------------------------
(***************************************************************************)
(* JobScheduler for TLC.  The constants are given by the .cfg files.       *)
(***************************************************************************)
EXTENDS JobScheduler
=============================================================================
