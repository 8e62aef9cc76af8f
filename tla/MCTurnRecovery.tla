--------------------------- MODULE MCTurnRecovery ---------------------------
(***************************************************************************)
(* TurnRecovery for TLC: its constants are numbers and strings.            *)
(***************************************************************************)
EXTENDS TurnRecovery
=============================================================================
