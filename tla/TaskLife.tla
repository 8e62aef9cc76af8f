------------------------------ MODULE TaskLife ------------------------------
(***************************************************************************)
(* What the durable tasks promise to whoever gives one                     *)
(* (pipeline/durable/store.py, loop.py, turn_task.py), without leases,     *)
(* attempts, ticks or drives: a task is open from its acceptance until it  *)
(* is closed or given up, and neither is ever taken back.  A task somebody *)
(* waits for is closed only over an answer, and given up only without one  *)
(* on its way; a second answer goes out only if the record of the first    *)
(* was lost.                                                               *)
(*                                                                         *)
(* Several tasks may move in one step: a statement of the store rewrites   *)
(* every row that its WHERE selects, and a crash hits all at once.         *)
(***************************************************************************)
EXTENDS Naturals

CONSTANT Tasks

VARIABLES
  life,       \* where each task is in its life
  addressed,  \* whether somebody can be sent its answer
  answers,    \* how many answers went out
  lost        \* how many of them were never recorded

\* pruned: closed, and forgotten since.
Lives == {"none", "open", "closed", "dead", "pruned"}

Init ==
  /\ life \in [Tasks -> {"none", "open"}]
  /\ addressed \in [Tasks -> BOOLEAN]
  /\ answers = [t \in Tasks |-> 0]
  /\ lost = [t \in Tasks |-> 0]

\* Every answer that went out was lost; or one is out and may still be recorded.
Unanswered(t) == answers[t] = lost[t]
OnItsWay(t) == answers[t] = lost[t] + 1

same(t) == addressed'[t] = addressed[t]
quiet(t) == answers'[t] = answers[t] /\ lost'[t] = lost[t]

Accept(t) == life[t] = "none" /\ life'[t] = "open" /\ quiet(t)

Answer(t) ==
  /\ life[t] = "open" /\ Unanswered(t)
  /\ answers'[t] = answers[t] + 1 /\ lost'[t] = lost[t]
  /\ life'[t] = "open" /\ same(t)

Lose(t) ==
  /\ life[t] = "open" /\ OnItsWay(t)
  /\ answers'[t] = answers[t] /\ lost'[t] = lost[t] + 1
  /\ life'[t] = "open" /\ same(t)

\* The answer is recorded; or there was nobody to send one to.
Close(t) ==
  /\ life[t] = "open"
  /\ OnItsWay(t) \/ (Unanswered(t) /\ ~addressed[t])
  /\ life'[t] = "closed" /\ same(t) /\ quiet(t)

GiveUp(t) ==
  /\ life[t] = "open" /\ Unanswered(t)
  /\ life'[t] = "dead" /\ same(t) /\ quiet(t)

Forget(t) == life[t] = "closed" /\ life'[t] = "pruned" /\ quiet(t)

Rest(t) == life'[t] = life[t] /\ same(t) /\ quiet(t)

Step(t) ==
  \/ Accept(t) \/ Answer(t) \/ Lose(t) \/ Close(t) \/ GiveUp(t) \/ Forget(t)
  \/ Rest(t)

Next ==
  /\ life' \in [Tasks -> Lives] /\ addressed' \in [Tasks -> BOOLEAN]
  /\ answers' \in [Tasks -> Nat] /\ lost' \in [Tasks -> Nat]
  /\ \A t \in Tasks : Step(t)

Spec == Init /\ [][Next]_<<life, addressed, answers, lost>>
=============================================================================
