----------------------------- MODULE AtMostOnce -----------------------------
(***************************************************************************)
(* What the side-effect ledger promises (pipeline/durable/ledger.py): "a    *)
(* side-effecting tool call must run AT MOST ONCE even though the durable   *)
(* executor may replay a step after a crash", and a recorded result is the  *)
(* result of a run.  Nothing is said of who calls, how often, or when.      *)
(***************************************************************************)
EXTENDS Naturals

CONSTANT Keys     \* idempotency keys

VARIABLES
  row,            \* the ledger row of a key
  ran             \* how often the effect of a key has happened

Init ==
  /\ row = [k \in Keys |-> "none"]
  /\ ran = [k \in Keys |-> 0]

\* The intent is recorded before anything happens.
Intend(k) ==
  /\ row[k] = "none"
  /\ row' = [row EXCEPT ![k] = "intent"]
  /\ UNCHANGED ran

\* The effect happens: under an intent, and only if it has not happened.
Happen(k) ==
  /\ row[k] = "intent" /\ ran[k] = 0
  /\ ran' = [ran EXCEPT ![k] = 1]
  /\ UNCHANGED row

\* The result is recorded: of an effect that happened.
Record(k) ==
  /\ row[k] = "intent" /\ ran[k] = 1
  /\ row' = [row EXCEPT ![k] = "committed"]
  /\ UNCHANGED ran

Next == \E k \in Keys : Intend(k) \/ Happen(k) \/ Record(k)

Spec == Init /\ [][Next]_<<row, ran>>
=============================================================================
