---------------------------- MODULE MCCommandDoor ----------------------------
(***************************************************************************)
(* CommandDoor for TLC: one command for each way through the gate and      *)
(* each style of handler.                                                  *)
(***************************************************************************)
EXTENDS CommandDoor

Cmd(severity, reversible, requester, grant, sends) ==
  [severity |-> severity, reversible |-> reversible, requester |-> requester,
   grant |-> grant, sends |-> sends]

\* An owl pauses a job, which has to be approved; a job delivers its brief under
\* a standing authority.
SomeCommands ==
  {Cmd("write", TRUE, "owl", FALSE, FALSE),
   Cmd("write", FALSE, "autonomous", TRUE, TRUE)}
=============================================================================
