-------------------------- MODULE CommandDoorProofs --------------------------
(***************************************************************************)
(* Proofs about CommandDoor, for every set of commands, number of          *)
(* submitters, ceiling and number of faults.                               *)
(*                                                                         *)
(* The safety properties need to be strengthened with what each stage of a *)
(* worker knows (Knows), where an approval comes from (Decided), and, as   *)
(* long as no live worker has lost its lease and recovery has not taken    *)
(* the row, with whose the row is (Undisturbed).                           *)
(***************************************************************************)
EXTENDS CommandDoor, TLAPS

\* A worker past its claim, which has the row in hand.
Holds(task) == task.stage \notin {"idle", "claim"}

\* The gate has let the command through.
Cleared == RunsAtOnce(command) \/ granted

\* What a worker knows: it is past the gate, in the handler of its command, and
\* a send that is out is among the n effects; so is a handler that has succeeded,
\* unless v says that nothing was ever done.
Knows(task, n, v) ==
  /\ task.stage \in {"apply", "check", "send", "receipt"} => Cleared
  /\ task.stage = "apply" => ~command.sends
  /\ task.stage \in {"check", "send", "receipt"} => command.sends
  /\ task.sent => task.stage = "receipt" /\ n > 0
  /\ task.stage = "ok" => n > 0 \/ v
  /\ task.approved => granted

WorkersKnow == \A w \in Workers : Knows(worker[w], effects, void)

\* An approval that somebody will act on was given by the owner.
Decided ==
  /\ verdict = "approved" => granted
  /\ item = "approved" => granted
  /\ sweep.stage = "approve" => granted

\* What the count of effects says, and who has seen it.
Counted ==
  /\ effects > 0 => Cleared
  /\ ~command.sends /\ effects > 0 => effects = 1 /\ receipt
  /\ ~command.sends /\ receipt => effects > 0 \/ void
  /\ row.status = "completed" => effects > 0 \/ void \/ rescued
  /\ \A s \in Submitters : reply[s] = "ok" => effects > 0 \/ void \/ rescued

\* Only recovery drives a command, and a drive that ends knows how.
Undriven ==
  /\ ~rescued => drive = NoDrive /\ rescue # "claimed"
  /\ drive.stage = "close" => drive.ending # "none"

\* Nobody has lost the row to somebody else: a worker that holds it is alone
\* and finds it running, the sweep finds it parked, and a send that counts has
\* its receipt or is about to write it.
Undisturbed ==
  ~exposed /\ ~rescued =>
    /\ \A w \in Workers : Holds(worker[w]) => row.status = "running"
    /\ \A v, w \in Workers : Holds(worker[v]) /\ Holds(worker[w]) => v = w
    /\ sweep.stage # "idle" => row.status = "parked"
    /\ effects <= 1
    /\ \A w \in Workers : worker[w].stage = "send" => ~receipt
    /\ command.sends /\ effects > 0 => receipt \/ \E w \in Workers : worker[w].sent

IInv == CommandTypeOK /\ WorkersKnow /\ Decided /\ Counted /\ Undriven /\ Undisturbed

(***************************************************************************)
(* What the writes make of the row.                                        *)
(***************************************************************************)
\* The values that the writes use are in their columns' types.
LEMMA Constants ==
  /\ 0 \in 0..OldTicks
  /\ NoLease \in NoLease..LeaseTicks /\ 0 \in NoLease..LeaseTicks
  /\ LeaseTicks \in NoLease..LeaseTicks
  /\ {"absent", "pending", "running", "recovering", "parked", "completed",
      "dead_letter"} \subseteq Statuses
  /\ {"none", "lease_expired", "reclaimed_stale"} \subseteq RowClasses
  /\ FailureClasses \subseteq RowClasses
  /\ {"transient", "permanent"} \subseteq FailureClasses
  /\ NoParent \in NoParent..MaxTask
  /\ "none" \in Destinations
  /\ {} \in SUBSET Tasks
  BY StoreAssumption DEF NoLease, NoParent, Statuses, RowClasses, FailureClasses,
     Destinations

\* Forgetting the row's clocks leaves its status.
LEMMA TimelessFacts ==
  ASSUME NEW r \in Row
  PROVE  Timeless(r) \in Row /\ Timeless(r).status = r.status
  <1> DEFINE n == IF r.attempts > MaxAttempts THEN MaxAttempts ELSE r.attempts
             l == IF r.lease = NoLease THEN NoLease ELSE 0
  <1>1. n \in Nat /\ l \in NoLease..LeaseTicks
    BY Constants, StoreAssumption DEF Row
  <1>2. Timeless(r) = [r EXCEPT !.attempts = n, !.class = "none", !.answered = FALSE,
                                !.age = 0, !.backoff = FALSE, !.lease = l]
    BY DEF Timeless
  <1> HIDE DEF n, l
  <1> QED  BY <1>1, <1>2, Constants DEF Row

\* The rows that submit_command and prune_completed leave.
LEMMA NewRowFacts ==
  /\ NoRow \in Row /\ NoRow.status = "absent"
  /\ NewRow("pending", "none", {}, NoParent) \in Row
  /\ NewRow("pending", "none", {}, NoParent).status = "pending"
  BY Constants DEF NoRow, NewRow, Row

\* claim, and the handing back of a recovered row.
LEMMA RunningFacts ==
  ASSUME NEW r \in Row
  PROVE  /\ Claimed(r) \in Row /\ Claimed(r).status = "running"
         /\ ReturnedToRunning(r) \in Row /\ ReturnedToRunning(r).status = "running"
  BY Constants DEF Claimed, ReturnedToRunning, Row

\* park_for_decision, resume_command_after_answer, update_status and the
\* checkpoint callback write a status.
LEMMA StatusFacts ==
  ASSUME NEW r \in Row, NEW st \in Statuses
  PROVE  /\ [r EXCEPT !.status = st, !.lease = NoLease, !.age = 0] \in Row
         /\ [r EXCEPT !.status = st, !.lease = NoLease, !.age = 0].status = st
         /\ [r EXCEPT !.status = st, !.age = 0] \in Row
         /\ [r EXCEPT !.status = st, !.age = 0].status = st
  BY Constants DEF Row

\* mark_delivered
LEMMA DeliveredFacts ==
  ASSUME NEW r \in Row
  PROVE  Delivered(r) \in Row /\ Delivered(r).status = "completed"
  BY Constants DEF Delivered, Row

\* fail_and_requeue
LEMMA FailedFacts ==
  ASSUME NEW r \in Row, NEW n \in Nat, NEW c \in FailureClasses
  PROVE  /\ FailedAttempt(r, n, c) \in Row
         /\ FailedAttempt(r, n, c).status \in {"pending", "dead_letter"}
  <1>1. n + 1 \in Nat /\ c \in RowClasses  BY Constants
  <1>2. CASE StopsForGood(r, n, c)
    BY <1>1, <1>2, Constants DEF FailedAttempt, Row
  <1>3. CASE ~StopsForGood(r, n, c)
    BY <1>1, <1>3, Constants DEF FailedAttempt, Row
  <1> QED  BY <1>2, <1>3

\* reclaim_expired
LEMMA ReclaimedFacts ==
  ASSUME NEW r \in Row
  PROVE  Reclaimed(r) \in Row /\ Reclaimed(r).status \in {"pending", "dead_letter"}
  <1>1. r.attempts + 1 \in Nat  BY DEF Row
  <1>2. CASE CeilingReached(r)
    BY <1>1, <1>2, Constants DEF Reclaimed, Row
  <1>3. CASE ~CeilingReached(r)
    BY <1>1, <1>3, Constants DEF Reclaimed, Row
  <1> QED  BY <1>2, <1>3

\* claim_for_recovery
LEMMA RecoveryFacts ==
  ASSUME NEW r \in Row, NEW charged \in BOOLEAN
  PROVE  /\ ClaimedForRecovery(r, charged) \in Row
         /\ ClaimedForRecovery(r, charged).status \in {"recovering", "dead_letter"}
  <1>1. r.attempts + 1 \in Nat  BY DEF Row
  <1>2. CASE ~charged
    BY <1>2, Constants DEF ClaimedForRecovery, Row
  <1>3. CASE charged /\ CeilingReached(r)
    BY <1>1, <1>3, Constants DEF ClaimedForRecovery, Row
  <1>4. CASE charged /\ ~CeilingReached(r)
    BY <1>1, <1>4, Constants DEF ClaimedForRecovery, Row
  <1> QED  BY <1>2, <1>3, <1>4

\* An UPDATE by id leaves an absent row absent.
LEMMA PutFacts ==
  ASSUME NEW r \in Row, NEW new \in Row
  PROVE  /\ Timeless(Write(r, new)) \in Row
         /\ Timeless(Write(r, new)).status =
              IF r.status = "absent" THEN "absent" ELSE new.status
  <1>1. Write(r, new) \in Row  BY DEF Write
  <1>2. Timeless(Write(r, new)) \in Row
        /\ Timeless(Write(r, new)).status = Write(r, new).status
    BY <1>1, TimelessFacts
  <1> QED  BY <1>2 DEF Write

(***************************************************************************)
(* What a step of one worker leaves to the others.                         *)
(***************************************************************************)
\* A fresh task is in its stage, has not sent and carries no approval.
LEMMA TaskFacts ==
  ASSUME NEW st \in Stages
  PROVE  /\ Task(st) \in Work
         /\ Task(st).stage = st
         /\ Task(st).approved = FALSE /\ Task(st).sent = FALSE
  BY Constants DEF Task, Work

\* A worker at rest.
LEMMA IdleFacts ==
  Idle \in Work /\ Idle.stage = "idle" /\ Idle.approved = FALSE /\ Idle.sent = FALSE
  BY TaskFacts DEF Idle, Stages

\* A call that returns answers its own submitter and nobody else.
LEMMA ReturnsFacts ==
  ASSUME reply \in [Submitters -> Replies], NEW w, NEW r \in Replies, Returns(w, r)
  PROVE  /\ worker' = [worker EXCEPT ![w] = Idle]
         /\ reply' \in [Submitters -> Replies]
         /\ \A s \in Submitters : reply'[s] = reply[s] \/ reply'[s] = r
  BY DEF Returns

\* While nothing was disturbed, a worker that holds the row is alone, and a row
\* that is absent or pending is in nobody's hands.
LEMMA Exclusive ==
  ASSUME IInv, NEW w \in Workers, ~exposed, ~rescued,
         Holds(worker[w]) \/ row.status \in {"absent", "pending"}
  PROVE  /\ \A v \in Workers : v # w => ~Holds(worker[v]) /\ ~worker[v].sent
         /\ sweep.stage = "idle"
         /\ effects <= 1
         /\ worker[w].stage = "send" => ~receipt
         /\ command.sends /\ effects > 0 => receipt \/ worker[w].sent
  BY DEF IInv, Undisturbed, WorkersKnow, Knows, Holds

\* What is to be shown of a step in which w, which has the row to itself, goes on
\* with task.
Alone(w, task) ==
  /\ worker' = [worker EXCEPT ![w] = task]
  /\ row' \in Row /\ verdict' \in {"none", "asked", "approved"}
  /\ receipt' \in BOOLEAN /\ item' \in {"none", "open", "approved", "denied"}
  /\ reply' \in [Submitters -> Replies]
  /\ effects' \in Nat /\ exposed' \in BOOLEAN /\ faults' \in 0..MaxFaults
  /\ effects' >= effects /\ (exposed => exposed')
  /\ void' \in BOOLEAN /\ (void => void' \/ effects' > 0)
  /\ verdict' = "approved" => granted
  /\ item' = "approved" => granted
  /\ effects' > 0 => Cleared
  /\ ~command.sends /\ effects' > 0 => effects' = 1 /\ receipt'
  /\ ~command.sends /\ receipt' => effects' > 0 \/ void'
  /\ row'.status = "completed" => effects' > 0 \/ void' \/ rescued
  /\ \A s \in Submitters :
       reply'[s] = "ok" => reply[s] = "ok" \/ effects' > 0 \/ void'
  /\ ~exposed' /\ ~rescued =>
       /\ Holds(task) => row'.status = "running"
       /\ effects' <= 1
       /\ task.stage = "send" => ~receipt'
       /\ command.sends /\ effects' > 0 => receipt' \/ task.sent

\* Such a step keeps the invariant.
LEMMA AloneKeeps ==
  ASSUME IInv, NEW w \in Workers, NEW task \in Work, handlerFrame,
         Holds(worker[w]) \/ row.status \in {"absent", "pending"},
         Knows(task, effects', void'), Alone(w, task)
  PROVE  IInv'
  <1>0. CommandTypeOK /\ worker \in [Workers -> Work] /\ effects \in Nat
    BY DEF IInv, CommandTypeOK
  <1>1. /\ worker' \in [Workers -> Work] /\ worker'[w] = task
        /\ \A v \in Workers : v # w => worker'[v] = worker[v]
    BY <1>0 DEF Alone
  <1>2. CommandTypeOK'
    BY <1>0, <1>1 DEF CommandTypeOK, Alone, handlerFrame
  <1>3. WorkersKnow'
    BY <1>0, <1>1 DEF IInv, WorkersKnow, Knows, Cleared, Alone, handlerFrame
  <1>4. Decided' /\ Undriven'
    BY DEF IInv, Decided, Undriven, Alone, handlerFrame
  <1>5. Counted'
    BY <1>0 DEF IInv, Counted, Cleared, Alone, handlerFrame
  <1>6. Undisturbed'
    <2> SUFFICES ASSUME ~exposed', ~rescued' PROVE Undisturbed'
      BY DEF Undisturbed
    <2>1. ~exposed /\ ~rescued /\ rescued' = rescued /\ sweep' = sweep /\ command' = command
      BY DEF Alone, handlerFrame
    <2>2. /\ \A v \in Workers : v # w => ~Holds(worker[v]) /\ ~worker[v].sent
          /\ sweep.stage = "idle"
      BY <2>1, Exclusive
    <2>3. \A v \in Workers : Holds(worker'[v]) => v = w
      BY <1>1, <2>2
    <2>4. \A v \in Workers : worker'[v].stage = "send" => v = w
      BY <2>3 DEF Holds
    <2> QED  BY <1>1, <2>1, <2>2, <2>3, <2>4 DEF Alone, Undisturbed
  <1> QED  BY <1>2, <1>3, <1>4, <1>5, <1>6 DEF IInv

\* A worker that has nothing in hand and leaves the row alone.
LEMMA BystanderKeeps ==
  ASSUME IInv, NEW w \in Workers, NEW task \in Work,
         worker' = [worker EXCEPT ![w] = task], workFrame,
         UNCHANGED <<row, verdict, receipt, item, effects, exposed>>,
         worker[w].stage \in {"idle", "claim"}, task.stage \in {"idle", "claim"},
         ~task.sent, task.approved => granted,
         reply' \in [Submitters -> Replies], faults' \in 0..MaxFaults,
         \A s \in Submitters :
           reply'[s] = "ok" => reply[s] = "ok" \/ effects > 0 \/ void \/ rescued
  PROVE  IInv'
  <1>0. CommandTypeOK /\ worker \in [Workers -> Work] /\ effects \in Nat
    BY DEF IInv, CommandTypeOK
  <1>1. /\ worker' \in [Workers -> Work] /\ worker'[w] = task
        /\ \A v \in Workers : v # w => worker'[v] = worker[v]
    BY <1>0
  <1>2. CommandTypeOK'
    BY <1>0, <1>1 DEF CommandTypeOK, workFrame, handlerFrame
  <1>3. WorkersKnow'
    BY <1>0, <1>1 DEF IInv, WorkersKnow, Knows, Cleared, workFrame, handlerFrame
  <1>4. Decided' /\ Undriven' /\ Counted'
    BY DEF IInv, Decided, Undriven, Counted, Cleared, workFrame, handlerFrame
  <1>5. ~worker[w].sent
    BY DEF IInv, WorkersKnow, Knows
  <1>6. Undisturbed'
    BY <1>1, <1>5 DEF IInv, Undisturbed, Holds, workFrame, handlerFrame
  <1> QED  BY <1>2, <1>3, <1>4, <1>6 DEF IInv

\* What execute_command_task begins with, past the gate or before parking.
LEMMA GateFacts ==
  ASSUME NEW a \in BOOLEAN, a => granted, NEW n, NEW v
  PROVE  /\ Gate(a) \in Work /\ Knows(Gate(a), n, v)
         /\ Holds(Gate(a)) /\ Gate(a).stage # "send"
         /\ ~Gate(a).sent
  <1>0. {"park", "check", "apply"} \subseteq Stages  BY DEF Stages
  <1>1. CASE ~a /\ ~RunsAtOnce(command)
    <2>1. Gate(a) = Task("park")  BY <1>1 DEF Gate
    <2> QED  BY <1>0, <2>1, TaskFacts DEF Knows, Holds
  <1>2. CASE (a \/ RunsAtOnce(command)) /\ command.sends
    <2>1. Gate(a) = Task("check")  BY <1>2 DEF Gate
    <2> QED  BY <1>0, <1>2, <2>1, TaskFacts DEF Knows, Holds, Cleared
  <1>3. CASE (a \/ RunsAtOnce(command)) /\ ~command.sends
    <2>1. Gate(a) = Task("apply")  BY <1>3 DEF Gate
    <2> QED  BY <1>0, <1>3, <2>1, TaskFacts DEF Knows, Holds, Cleared
  <1> QED  BY <1>1, <1>2, <1>3

\* A worker goes on with a row that stays as it is, and without an effect.
LEMMA GoesOnKeeps ==
  ASSUME IInv, NEW w \in Workers, NEW task \in Work, Goes(w, task), workFrame,
         UNCHANGED <<row, verdict, receipt, item, effects, exposed, faults>>,
         Holds(worker[w]), ~worker[w].sent, Knows(task, effects, void),
         task.stage = "send" => ~receipt
  PROVE  IInv'
  <1>1. CommandTypeOK /\ Decided /\ Counted  BY DEF IInv
  <1>2. ~exposed /\ ~rescued =>
          /\ row.status = "running" /\ effects <= 1
          /\ command.sends /\ effects > 0 => receipt
    BY Exclusive DEF IInv, Undisturbed
  <1>3. worker' = [worker EXCEPT ![w] = task] /\ reply' = reply  BY DEF Goes
  <1>4. Alone(w, task)
    BY <1>1, <1>2, <1>3 DEF Alone, CommandTypeOK, Decided, Counted, workFrame
  <1> QED  BY <1>4, AloneKeeps DEF workFrame

\* A worker puts down a row that it holds: nobody has it then.
LEMMA PutsDownKeeps ==
  ASSUME IInv, NEW w \in Workers, NEW r \in Replies, Returns(w, r), workFrame,
         UNCHANGED <<receipt, effects, exposed>>,
         Holds(worker[w]), ~worker[w].sent,
         row' \in Row, verdict' \in {"none", "asked", "approved"},
         item' \in {"none", "open", "approved", "denied"}, faults' \in 0..MaxFaults,
         verdict' = "approved" => granted, item' = "approved" => granted,
         row'.status = "completed" => effects > 0 \/ void \/ rescued,
         r = "ok" => effects > 0 \/ void
  PROVE  IInv'
  <1>1. CommandTypeOK /\ Counted  BY DEF IInv
  <1>2. ~exposed /\ ~rescued =>
          effects <= 1 /\ (command.sends /\ effects > 0 => receipt)
    BY Exclusive
  <1>3. /\ worker' = [worker EXCEPT ![w] = Idle]
        /\ reply' \in [Submitters -> Replies]
        /\ \A s \in Submitters : reply'[s] = reply[s] \/ reply'[s] = r
    BY <1>1, ReturnsFacts DEF CommandTypeOK
  <1>4. Idle \in Work /\ ~Holds(Idle) /\ Idle.stage # "send" /\ Knows(Idle, effects, void)
    BY IdleFacts DEF Holds, Knows
  <1>5. Alone(w, Idle)
    BY <1>1, <1>2, <1>3, <1>4 DEF Alone, CommandTypeOK, Counted, workFrame
  <1> QED  BY <1>4, <1>5, AloneKeeps DEF workFrame

(***************************************************************************)
(* The steps of the workers.                                               *)
(***************************************************************************)
\* In a stage where nothing has been sent.
LEMMA Unsent ==
  ASSUME IInv, NEW w \in Workers, worker[w].stage # "receipt"
  PROVE  ~worker[w].sent
  BY DEF IInv, WorkersKnow, Knows

\* The INSERT, or the lookup of the row that is there.
LEMMA SubmitKeeps == ASSUME IInv, NEW s \in Submitters, Submit(s) PROVE IInv'
  <1>0. /\ CommandTypeOK /\ Decided /\ Counted /\ s \in Workers
        /\ "claim" \in Stages /\ "other" \in Replies
        /\ worker[s].stage = "idle"
    BY IdleFacts DEF IInv, Submit, Workers, Stages, Replies
  <1>1. CASE row.status = "absent"
    <2>1. row' \in Row /\ row'.status = "pending"
      BY <1>1, NewRowFacts, TimelessFacts DEF Submit, Put
    <2>2. ~exposed /\ ~rescued =>
            effects <= 1 /\ (command.sends /\ effects > 0 => receipt)
      BY <1>0, <1>1, Exclusive, Unsent
    <2>3. /\ verdict' = "none" /\ workFrame
          /\ UNCHANGED <<receipt, item, effects, exposed, faults>>
          /\ Goes(s, Task("claim")) \/ Returns(s, "other")
      BY <1>1 DEF Submit
    <2>4. CASE Goes(s, Task("claim"))
      <3>1. /\ Task("claim") \in Work /\ ~Holds(Task("claim"))
            /\ Task("claim").stage # "send" /\ Knows(Task("claim"), effects, void)
        BY <1>0, TaskFacts DEF Holds, Knows
      <3>2. worker' = [worker EXCEPT ![s] = Task("claim")] /\ reply' = reply
        BY <2>4 DEF Goes
      <3>3. Alone(s, Task("claim"))
        BY <1>0, <2>1, <2>2, <2>3, <3>1, <3>2
        DEF Alone, CommandTypeOK, Decided, Counted, workFrame
      <3> QED  BY <1>0, <1>1, <2>3, <3>1, <3>3, AloneKeeps DEF workFrame
    <2>5. CASE Returns(s, "other")
      <3>1. /\ Idle \in Work /\ ~Holds(Idle)
            /\ Idle.stage # "send" /\ Knows(Idle, effects, void)
        BY IdleFacts DEF Holds, Knows
      <3>2. /\ worker' = [worker EXCEPT ![s] = Idle]
            /\ reply' \in [Submitters -> Replies]
            /\ \A q \in Submitters : reply'[q] = reply[q] \/ reply'[q] = "other"
        BY <1>0, <2>5, ReturnsFacts DEF CommandTypeOK
      <3>3. Alone(s, Idle)
        BY <1>0, <2>1, <2>2, <2>3, <3>1, <3>2
        DEF Alone, CommandTypeOK, Decided, Counted, workFrame
      <3> QED  BY <1>0, <1>1, <2>3, <3>1, <3>3, AloneKeeps DEF workFrame
    <2> QED  BY <2>3, <2>4, <2>5
  <1>2. CASE row.status # "absent"
    <2>1. OutcomeOf(row) \in Replies
          /\ (OutcomeOf(row) = "ok" => row.status = "completed")
      BY DEF OutcomeOf, Replies
    <2>2. /\ Returns(s, OutcomeOf(row)) /\ workFrame
          /\ UNCHANGED <<row, verdict, receipt, item, effects, exposed, faults>>
      BY <1>2 DEF Submit
    <2>3. /\ worker' = [worker EXCEPT ![s] = Idle]
          /\ reply' \in [Submitters -> Replies]
          /\ \A q \in Submitters : reply'[q] = reply[q] \/ reply'[q] = OutcomeOf(row)
      BY <1>0, <2>1, <2>2, ReturnsFacts DEF CommandTypeOK
    <2> QED
      BY <1>0, <2>1, <2>2, <2>3, IdleFacts, BystanderKeeps DEF CommandTypeOK, Counted
  <1> QED  BY <1>1, <1>2

\* The claim, won or lost.
LEMMA ClaimKeeps == ASSUME IInv, NEW w \in Workers, Claim(w) PROVE IInv'
  <1>0. /\ CommandTypeOK /\ Decided /\ Counted /\ worker[w].stage = "claim"
        /\ {"fetch", "claim"} \subseteq Stages /\ "other" \in Replies
        /\ ~worker[w].sent
    BY Unsent DEF IInv, Claim, Stages, Replies
  <1>1. CASE row.status = "pending"
    <2> DEFINE task == IF w = Loop THEN Gate(worker[w].approved) ELSE Task("fetch")
    <2>1. row' \in Row /\ row'.status = "running"
      BY <1>0, <1>1, RunningFacts, TimelessFacts DEF Claim, Put, CommandTypeOK
    <2>2. worker[w].approved \in BOOLEAN /\ (worker[w].approved => granted)
      BY DEF IInv, CommandTypeOK, Work, WorkersKnow, Knows
    <2>3. /\ Task("fetch") \in Work /\ Knows(Task("fetch"), effects, void)
          /\ Task("fetch").stage # "send"
      BY <1>0, TaskFacts DEF Knows
    <2>4. task \in Work /\ Knows(task, effects, void) /\ task.stage # "send"
      BY <2>2, <2>3, GateFacts
    <2>5. /\ worker' = [worker EXCEPT ![w] = task] /\ reply' = reply
          /\ workFrame /\ UNCHANGED <<verdict, receipt, item, effects, exposed, faults>>
      BY <1>1 DEF Claim, Goes
    <2> HIDE DEF task
    <2>6. ~exposed /\ ~rescued =>
            effects <= 1 /\ (command.sends /\ effects > 0 => receipt)
      BY <1>0, <1>1, Exclusive
    <2>7. Alone(w, task)
      BY <1>0, <2>1, <2>4, <2>5, <2>6
      DEF Alone, CommandTypeOK, Decided, Counted, workFrame
    <2> QED  BY <1>1, <2>4, <2>5, <2>7, AloneKeeps DEF workFrame
  <1>2. CASE row.status # "pending"
    <2>1. /\ Returns(w, "other") /\ workFrame
          /\ UNCHANGED <<row, verdict, receipt, item, effects, exposed, faults>>
      BY <1>2 DEF Claim
    <2>2. /\ worker' = [worker EXCEPT ![w] = Idle]
          /\ reply' \in [Submitters -> Replies]
          /\ \A q \in Submitters : reply'[q] = reply[q] \/ reply'[q] = "other"
      BY <1>0, <2>1, ReturnsFacts DEF CommandTypeOK
    <2>3. faults' \in 0..MaxFaults  BY <1>0, <2>1 DEF CommandTypeOK
    <2> QED  BY <1>0, <2>1, <2>2, <2>3, IdleFacts, BystanderKeeps
  <1> QED  BY <1>1, <1>2

\* A submitter reads the row it has claimed.
LEMMA FetchKeeps == ASSUME IInv, NEW s \in Submitters, Fetch(s) PROVE IInv'
  <1>1. (verdict = "approved") \in BOOLEAN /\ (verdict = "approved" => granted)
    BY DEF IInv, Decided
  <1>2. /\ Gate(verdict = "approved") \in Work
        /\ Knows(Gate(verdict = "approved"), effects, void)
        /\ Gate(verdict = "approved").stage # "send"
    BY <1>1, GateFacts
  <1>3. s \in Workers /\ Holds(worker[s]) /\ ~worker[s].sent
    BY Unsent DEF Fetch, Workers, Holds
  <1> QED  BY <1>2, <1>3, GoesOnKeeps DEF Fetch

\* park_for_decision.
LEMMA ParkKeeps == ASSUME IInv, NEW w \in Workers, Park(w) PROVE IInv'
  <1>1. /\ CommandTypeOK /\ Decided /\ Holds(worker[w]) /\ ~worker[w].sent
        /\ "other" \in Replies /\ "parked" \in Statuses
    BY Unsent, Constants DEF IInv, Park, Holds, Replies
  <1>2. row' \in Row /\ row'.status = "parked"
    <2> DEFINE new == [row EXCEPT !.status = "parked", !.lease = NoLease, !.age = 0]
    <2>1. row \in Row /\ row' = Timeless(new)  BY <1>1 DEF Park, Put, CommandTypeOK
    <2>2. new \in Row /\ new.status = "parked"  BY <1>1, <2>1, StatusFacts
    <2> HIDE DEF new
    <2> QED  BY <2>1, <2>2, TimelessFacts
  <1>3. faults' \in 0..MaxFaults  BY <1>1 DEF Park, CommandTypeOK
  <1> QED  BY <1>1, <1>2, <1>3, PutsDownKeeps DEF Park

\* The stages that a handler's worker goes through.
LEMMA StageFacts ==
  ASSUME NEW n, NEW v, NEW st \in {"fail", "send", "receipt", "ok"},
         st \in {"send", "receipt"} => Cleared /\ command.sends,
         st = "ok" => n > 0 \/ v
  PROVE  Task(st) \in Work /\ Knows(Task(st), n, v) /\ Task(st).stage = st
  <1>1. st \in Stages  BY DEF Stages
  <1> QED  BY <1>1, TaskFacts DEF Knows

\* A mutator's transaction: the receipt decides whether it counts, and a success
\* that finds nothing to do is recorded in void.
LEMMA ApplyKeeps == ASSUME IInv, NEW w \in Workers, Apply(w) PROVE IInv'
  <1>0. /\ CommandTypeOK /\ Decided /\ Counted
        /\ Holds(worker[w]) /\ ~worker[w].sent /\ ~command.sends /\ Cleared
        /\ effects \in {0, 1} /\ void \in BOOLEAN /\ receipt \in BOOLEAN
        /\ handlerFrame /\ UNCHANGED <<row, verdict, item, exposed, faults>>
    BY Unsent DEF IInv, Apply, WorkersKnow, Knows, Holds, Counted, CommandTypeOK
  <1>1. ~exposed /\ ~rescued => row.status = "running"
    BY <1>0 DEF IInv, Undisturbed
  <1>2. ASSUME Goes(w, Task("ok")), receipt' \in BOOLEAN, effects' \in {0, 1},
               effects' >= effects, effects' > 0 => receipt', receipt => receipt',
               void' \in BOOLEAN, effects' > 0 \/ void'
        PROVE  IInv'
    <2>1. Task("ok") \in Work /\ Knows(Task("ok"), effects', void')
          /\ Task("ok").stage = "ok"
      BY <1>2, StageFacts, Zenon
    <2>2. worker' = [worker EXCEPT ![w] = Task("ok")] /\ reply' = reply
      BY <1>2 DEF Goes
    <2>3. Alone(w, Task("ok"))
      BY <1>0, <1>1, <1>2, <2>1, <2>2 DEF Alone, CommandTypeOK, Decided, Counted
    <2> QED  BY <1>0, <2>1, <2>3, AloneKeeps
  <1>3. CASE /\ receipt' = TRUE /\ effects' = Applied
             /\ void' = (void /\ effects' = 0) /\ Goes(w, Task("ok"))
    <2>1. /\ effects' \in {0, 1} /\ effects' >= effects
          /\ effects' = 0 => void
          /\ effects' > 0 \/ effects' = 0
      BY <1>0, <1>3 DEF Applied, Counted
    <2>2. void' \in BOOLEAN /\ (effects' > 0 \/ void')  BY <1>3, <2>1, Zenon
    <2> QED  BY <1>0, <1>2, <1>3, <2>1, <2>2
  <1>4. CASE /\ receipt' \in {receipt, TRUE} /\ void' = (effects = 0)
             /\ Goes(w, Task("ok")) /\ UNCHANGED effects
    <2>1. receipt' \in BOOLEAN /\ (receipt => receipt')
      <3>1. receipt' = receipt \/ receipt' = TRUE  BY <1>4
      <3>2. CASE receipt' = receipt  BY <1>0, <3>2
      <3>3. CASE receipt' = TRUE  BY <3>3
      <3> QED  BY <3>1, <3>2, <3>3
    <2>2. effects' > 0 => receipt'  BY <1>0, <1>4, <2>1 DEF Counted
    <2>3. effects' > 0 \/ effects' = 0  BY <1>0, <1>4
    <2>4. void' \in BOOLEAN /\ (effects' > 0 \/ void')  BY <1>4, <2>3, Zenon
    <2>5. effects' \in {0, 1} /\ effects' >= effects  BY <1>0, <1>4
    <2> QED  BY <1>2, <1>4, <2>1, <2>2, <2>4, <2>5
  <1>5. CASE Goes(w, Task("fail")) /\ UNCHANGED <<receipt, effects, void>>
    <2>1. Task("fail") \in Work /\ Knows(Task("fail"), effects, void)
          /\ Task("fail").stage = "fail"
      BY StageFacts
    <2>2. workFrame  BY <1>0, <1>5 DEF workFrame
    <2> QED  BY <1>0, <1>5, <2>1, <2>2, GoesOnKeeps
  <1> QED  BY <1>3, <1>4, <1>5 DEF Apply

\* A sender looks for its receipt.
LEMMA CheckKeeps == ASSUME IInv, NEW w \in Workers, Check(w) PROVE IInv'
  <1> DEFINE st == IF receipt THEN "fail" ELSE "send"
  <1>1. Holds(worker[w]) /\ ~worker[w].sent /\ command.sends /\ Cleared
    BY Unsent DEF IInv, Check, WorkersKnow, Knows, Holds
  <1>2. Task(st) \in Work /\ Knows(Task(st), effects, void) /\ Task(st).stage = st
    BY <1>1, StageFacts
  <1>3. Goes(w, Task(st)) /\ workFrame
        /\ UNCHANGED <<row, verdict, receipt, item, effects, exposed, faults>>
    BY DEF Check
  <1>4. st = "send" => ~receipt  OBVIOUS
  <1> HIDE DEF st
  <1> QED  BY <1>1, <1>2, <1>3, <1>4, GoesOnKeeps

\* The send: undisturbed, it finds no effect before its own.
LEMMA SendKeeps == ASSUME IInv, NEW w \in Workers, Send(w) PROVE IInv'
  <1>0. /\ CommandTypeOK /\ Decided /\ Counted /\ worker[w].stage = "send"
        /\ Holds(worker[w]) /\ ~worker[w].sent /\ command.sends /\ Cleared
        /\ handlerFrame /\ UNCHANGED <<row, verdict, receipt, item, exposed, faults>>
        /\ effects \in Nat /\ void \in BOOLEAN
    BY Unsent DEF IInv, Send, WorkersKnow, Knows, Holds, CommandTypeOK
  <1>1. ASSUME NEW sent \in BOOLEAN, NEW well \in BOOLEAN,
               effects' = IF sent THEN effects + 1 ELSE effects,
               void' = (void /\ ~sent),
               Goes(w, [Task("receipt") EXCEPT !.sent = sent, !.well = well])
        PROVE  IInv'
    <2> DEFINE task == [Task("receipt") EXCEPT !.sent = sent, !.well = well]
    <2>1. /\ task \in Work /\ task.stage = "receipt" /\ task.sent = sent
          /\ task.approved = FALSE
      BY Constants DEF Task, Work, Stages
    <2>2. worker' = [worker EXCEPT ![w] = task] /\ reply' = reply /\ Goes(w, task)
      BY <1>1 DEF Goes
    <2> HIDE DEF task
    <2>3. CASE sent
      <3>0. void' = FALSE /\ task.sent  BY <1>1, <2>1, <2>3, Zenon
      <3>1. effects' = effects + 1 /\ effects' \in Nat /\ effects' > 0
        BY <1>0, <1>1, <2>3
      <3>2. Knows(task, effects', void')
        BY <1>0, <2>1, <3>0, <3>1 DEF Knows
      <3>3. ~exposed /\ ~rescued => row.status = "running" /\ effects' <= 1
        <4> SUFFICES ASSUME ~exposed, ~rescued
                     PROVE  row.status = "running" /\ effects' <= 1
          OBVIOUS
        <4>1. row.status = "running"  BY <1>0 DEF IInv, Undisturbed
        <4>2. ~(effects > 0)  BY <1>0, Exclusive
        <4> QED  BY <1>0, <3>1, <4>1, <4>2
      <3>4. void' \in BOOLEAN  BY <3>0, Zenon
      <3>5. ~exposed' /\ ~rescued =>
              /\ Holds(task) => row'.status = "running"
              /\ effects' <= 1
              /\ task.stage = "send" => ~receipt'
              /\ command.sends /\ effects' > 0 => receipt' \/ task.sent
        BY <1>0, <2>1, <3>0, <3>3
      <3>6. Alone(w, task)
        BY <1>0, <2>2, <3>1, <3>4, <3>5 DEF Alone, CommandTypeOK, Decided, Counted
      <3> QED  BY <1>0, <2>1, <3>2, <3>6, AloneKeeps
    <2>4. CASE ~sent
      <3>1. effects' = effects /\ void' = void /\ workFrame
        BY <1>0, <1>1, <2>4 DEF workFrame
      <3>2. Knows(task, effects, void)  BY <1>0, <2>1, <2>4 DEF Knows
      <3> QED  BY <1>0, <2>1, <2>2, <3>1, <3>2, GoesOnKeeps
    <2> QED  BY <2>3, <2>4
  <1>2. ASSUME Goes(w, Task("fail")), UNCHANGED <<effects, void>> PROVE IInv'
    <2>1. Task("fail") \in Work /\ Knows(Task("fail"), effects, void)
          /\ Task("fail").stage = "fail"
      BY StageFacts
    <2>2. workFrame  BY <1>0, <1>2 DEF workFrame
    <2> QED  BY <1>0, <1>2, <2>1, <2>2, GoesOnKeeps
  <1> QED  BY <1>1, <1>2 DEF Send

\* A sender's receipt, written or lost.
LEMMA WriteReceiptKeeps ==
  ASSUME IInv, NEW w \in Workers, WriteReceipt(w) PROVE IInv'
  <1>0. /\ CommandTypeOK /\ Decided /\ Counted
        /\ Holds(worker[w]) /\ command.sends
        /\ worker[w].sent \in BOOLEAN /\ worker[w].well \in BOOLEAN
        /\ void \in BOOLEAN /\ effects \in Nat
        /\ handlerFrame /\ UNCHANGED <<row, verdict, item, effects>>
    BY DEF IInv, WriteReceipt, WorkersKnow, Knows, Holds, CommandTypeOK, Work
  <1>1. ~exposed /\ ~rescued =>
          /\ row.status = "running" /\ effects <= 1
          /\ effects > 0 => receipt \/ worker[w].sent
    BY <1>0, Exclusive DEF IInv, Undisturbed
  <1>2. ASSUME NEW st \in {"ok", "fail"}, Goes(w, Task(st)),
               void' \in BOOLEAN, void => void', st = "ok" => effects > 0 \/ void',
               receipt' \in BOOLEAN, exposed' \in BOOLEAN, faults' \in 0..MaxFaults,
               exposed => exposed', receipt => receipt',
               ~receipt' => exposed' \/ ~worker[w].sent
        PROVE  IInv'
    <2>1. Task(st) \in Work /\ Knows(Task(st), effects', void') /\ Task(st).stage = st
      BY <1>0, <1>2, StageFacts
    <2>2. worker' = [worker EXCEPT ![w] = Task(st)] /\ reply' = reply
      BY <1>2 DEF Goes
    <2>3. Alone(w, Task(st))
      BY <1>0, <1>1, <1>2, <2>1, <2>2 DEF Alone, CommandTypeOK, Decided, Counted
    <2> QED  BY <1>0, <2>1, <2>3, AloneKeeps
  <1>3. CASE /\ receipt' = TRUE /\ Goes(w, Task(IF worker[w].well THEN "ok" ELSE "fail"))
             /\ void' = (void \/ (worker[w].well /\ effects = 0))
             /\ UNCHANGED <<exposed, faults>>
    <2>1. /\ void' \in BOOLEAN /\ (void => void')
          /\ worker[w].well => effects > 0 \/ void'
      BY <1>0, <1>3
    <2>2. exposed' \in BOOLEAN /\ faults' \in 0..MaxFaults
      BY <1>0, <1>3 DEF CommandTypeOK
    <2> QED  BY <1>0, <1>2, <1>3, <2>1, <2>2
  <1>4. CASE /\ Fault /\ Goes(w, Task("fail")) /\ exposed' = (exposed \/ worker[w].sent)
             /\ UNCHANGED <<receipt, void>>
    <2>1. faults' \in 0..MaxFaults
      BY <1>0, <1>4, CommandAssumption DEF Fault, CommandTypeOK
    <2> QED  BY <1>0, <1>2, <1>4, <2>1 DEF CommandTypeOK
  <1> QED  BY <1>3, <1>4 DEF WriteReceipt

\* mark_delivered, after the handler has succeeded.
LEMMA FinishKeeps == ASSUME IInv, NEW w \in Workers, Finish(w) PROVE IInv'
  <1>1. /\ CommandTypeOK /\ Decided /\ Holds(worker[w]) /\ ~worker[w].sent
        /\ "ok" \in Replies /\ (effects > 0 \/ void)
    BY Unsent DEF IInv, Finish, WorkersKnow, Knows, Holds, Replies
  <1>2. row' \in Row
    BY <1>1, DeliveredFacts, PutFacts DEF Finish, Put, CommandTypeOK
  <1>3. /\ verdict' \in {"none", "asked", "approved"}
        /\ item' \in {"none", "open", "approved", "denied"} /\ faults' \in 0..MaxFaults
        /\ verdict' = "approved" => granted
        /\ item' = "approved" => granted
    BY <1>1 DEF Finish, CommandTypeOK, Decided
  <1> QED  BY <1>1, <1>2, <1>3, PutsDownKeeps DEF Finish

\* fail_and_requeue reads the row.
LEMMA ReadAttemptsKeeps ==
  ASSUME IInv, NEW w \in Workers, ReadAttempts(w) PROVE IInv'
  <1>1. /\ CommandTypeOK /\ Holds(worker[w]) /\ ~worker[w].sent /\ row.attempts \in Nat
    BY Unsent DEF IInv, ReadAttempts, Holds, CommandTypeOK, Row
  <1>2. PICK c \in {"transient", "permanent"} :
          Goes(w, [Task("failing") EXCEPT !.seen = row.attempts, !.class = c])
    BY DEF ReadAttempts
  <1> DEFINE task == [Task("failing") EXCEPT !.seen = row.attempts, !.class = c]
  <1>3. /\ task \in Work /\ task.stage = "failing" /\ ~task.sent
        /\ ~task.approved
    BY <1>1, Constants DEF Task, Work, Stages
  <1>4. Goes(w, task)  BY <1>2
  <1> HIDE DEF task
  <1>5. Knows(task, effects, void)  BY <1>3 DEF Knows
  <1> QED  BY <1>1, <1>3, <1>4, <1>5, GoesOnKeeps DEF ReadAttempts

\* fail_and_requeue writes the row.
LEMMA RequeueKeeps == ASSUME IInv, NEW w \in Workers, Requeue(w) PROVE IInv'
  <1>1. /\ CommandTypeOK /\ Decided /\ Holds(worker[w]) /\ ~worker[w].sent
        /\ "other" \in Replies /\ row \in Row
        /\ worker[w].seen \in Nat /\ worker[w].class \in FailureClasses
    BY Unsent DEF IInv, Requeue, Holds, Replies, CommandTypeOK, Work
  <1>2. row' \in Row /\ row'.status # "completed"
    BY <1>1, FailedFacts, PutFacts DEF Requeue, Put
  <1>3. /\ verdict' \in {"none", "asked", "approved"}
        /\ item' \in {"none", "open", "approved", "denied"} /\ faults' \in 0..MaxFaults
        /\ verdict' = "approved" => granted
        /\ item' = "approved" => granted
    BY <1>1 DEF Requeue, CommandTypeOK, Decided
  <1> QED  BY <1>1, <1>2, <1>3, PutsDownKeeps DEF Requeue

\* A fault stays within the bound.
LEMMA FaultFacts == ASSUME CommandTypeOK, Fault PROVE faults' \in 0..MaxFaults
  BY CommandAssumption DEF Fault, CommandTypeOK

\* A store call raises, with the row in hand or not.
LEMMA StoreRaisesKeeps ==
  ASSUME IInv, NEW w \in Workers, StoreRaises(w) PROVE IInv'
  <1>1. /\ CommandTypeOK /\ Decided /\ Counted /\ ~worker[w].sent
        /\ "other" \in Replies /\ Returns(w, "other") /\ workFrame
        /\ UNCHANGED <<row, verdict, receipt, item, effects, exposed>>
        /\ faults' \in 0..MaxFaults
    BY Unsent, FaultFacts DEF IInv, StoreRaises, Replies
  <1>2. CASE worker[w].stage = "claim"
    <2>1. /\ worker' = [worker EXCEPT ![w] = Idle]
          /\ reply' \in [Submitters -> Replies]
          /\ \A q \in Submitters : reply'[q] = reply[q] \/ reply'[q] = "other"
      BY <1>1, ReturnsFacts DEF CommandTypeOK
    <2> QED  BY <1>1, <1>2, <2>1, IdleFacts, BystanderKeeps
  <1>3. CASE worker[w].stage # "claim"
    <2>1. Holds(worker[w])  BY <1>3 DEF StoreRaises, Holds
    <2>2. /\ row' \in Row /\ verdict' \in {"none", "asked", "approved"}
          /\ item' \in {"none", "open", "approved", "denied"}
          /\ verdict' = "approved" => granted
          /\ item' = "approved" => granted
          /\ row'.status = "completed" => effects > 0 \/ void \/ rescued
      BY <1>1 DEF CommandTypeOK, Decided, Counted
    <2> QED  BY <1>1, <2>1, <2>2, PutsDownKeeps
  <1> QED  BY <1>2, <1>3

\* claimable: the copy that the loop keeps carries a true approval.
LEMMA LoopSelectsKeeps == ASSUME IInv, LoopSelects PROVE IInv'
  <1> DEFINE task == [Task("claim") EXCEPT !.approved = (verdict = "approved")]
  <1>1. CommandTypeOK /\ Decided /\ Loop \in Workers /\ worker[Loop].stage = "idle"
    BY IdleFacts DEF IInv, LoopSelects, LoopIdle, Workers
  <1>2. /\ task \in Work /\ task.stage = "claim" /\ ~task.sent
        /\ task.approved = (verdict = "approved")
    BY Constants DEF Task, Work, Stages
  <1>3. worker' = [worker EXCEPT ![Loop] = task] /\ reply' = reply /\ workFrame
        /\ UNCHANGED <<row, verdict, receipt, item, effects, exposed, faults>>
    BY DEF LoopSelects, Goes
  <1> HIDE DEF task
  <1>4. /\ task.approved => granted
        /\ reply' \in [Submitters -> Replies] /\ faults' \in 0..MaxFaults
    BY <1>1, <1>2, <1>3 DEF Decided, CommandTypeOK
  <1> QED  BY <1>1, <1>2, <1>3, <1>4, BystanderKeeps

(***************************************************************************)
(* The steps of the owner, the loop, the sweep, the rescuers and the drive.*)
(***************************************************************************)
\* What is to be shown of a step in which the workers do not move.
Aside ==
  /\ UNCHANGED <<command, receipt, worker, reply, effects, void>>
  /\ CommandTypeOK'
  /\ Decided' /\ Undriven'
  /\ granted => granted'
  /\ rescued => rescued'
  /\ exposed => exposed'
  /\ row'.status = "completed" => row.status = "completed" \/ rescued'
  /\ ~exposed' /\ ~rescued' =>
       /\ row'.status = "running" \/ \A w \in Workers : ~Holds(worker[w])
       /\ sweep'.stage # "idle" => row'.status = "parked"

\* Such a step keeps the invariant.
LEMMA AsideKeeps == ASSUME IInv, Aside PROVE IInv'
  <1>1. WorkersKnow'
    BY DEF IInv, WorkersKnow, Knows, Cleared, Aside
  <1>2. Counted'
    BY DEF IInv, Counted, Cleared, Aside
  <1>3. Undisturbed'
    BY DEF IInv, Undisturbed, Aside
  <1> QED  BY <1>1, <1>2, <1>3 DEF IInv, Aside

\* What Aside asks for when the row stays as it is.
LEMMA RowStays ==
  ASSUME IInv, row' = row, rescued' = rescued, exposed' = exposed
  PROVE  /\ row'.status = "completed" => row.status = "completed" \/ rescued'
         /\ ~exposed' /\ ~rescued' =>
              row'.status = "running" \/ \A w \in Workers : ~Holds(worker[w])
  BY DEF IInv, Undisturbed

\* needs_you.resolve.
LEMMA AnswerKeeps ==
  ASSUME IInv, NEW a \in {"approved", "denied"}, Answer(a) PROVE IInv'
  <1>1. /\ UNCHANGED <<command, receipt, worker, reply, effects, void>>
        /\ item' = a /\ granted' = (granted \/ a = "approved")
        /\ UNCHANGED <<row, verdict, sweep, rescue, drive, phase, rescued, exposed, faults>>
    BY DEF Answer, doorFrame
  <1>2. CommandTypeOK'  BY <1>1 DEF IInv, CommandTypeOK
  <1>3. Decided' /\ Undriven'  BY <1>1 DEF IInv, Decided, Undriven
  <1>4. ~exposed /\ ~rescued => (sweep.stage # "idle" => row.status = "parked")
    BY DEF IInv, Undisturbed
  <1>5. Aside  BY <1>1, <1>2, <1>3, <1>4, RowStays DEF Aside
  <1> QED  BY <1>5, AsideKeeps

\* reclaim_expired: a live worker that loses the row is recorded in exposed.
LEMMA LoopReclaimsKeeps == ASSUME IInv, LoopReclaims PROVE IInv'
  <1>1. /\ UNCHANGED <<command, receipt, worker, reply, effects, void>>
        /\ UNCHANGED <<verdict, item, sweep, rescue, drive, phase, granted, rescued, faults>>
        /\ exposed' = (exposed \/ \E w \in Workers : worker[w].stage \in Slow)
        /\ row.status = "running" /\ Silent
    BY DEF LoopReclaims, workFrame, handlerFrame, LeaseExpired
  <1>2. row' \in Row /\ row'.status # "completed"
    <2>1. row \in Row  BY DEF IInv, CommandTypeOK
    <2>2. row' = Timeless(Reclaimed(row))  BY DEF LoopReclaims, Put
    <2> QED  BY <2>1, <2>2, ReclaimedFacts, TimelessFacts
  <1>3. CommandTypeOK'  BY <1>1, <1>2 DEF IInv, CommandTypeOK
  <1>4. Decided' /\ Undriven'  BY <1>1 DEF IInv, Decided, Undriven
  <1>5. ~exposed' /\ ~rescued =>
          sweep.stage = "idle" /\ \A w \in Workers : ~Holds(worker[w])
    BY <1>1 DEF IInv, Undisturbed, Silent, Holds
  <1>6. Aside  BY <1>1, <1>2, <1>3, <1>4, <1>5 DEF Aside
  <1> QED  BY <1>6, AsideKeeps

\* prune_completed.
LEMMA PruneKeeps == ASSUME IInv, Prune PROVE IInv'
  <1>1. /\ UNCHANGED <<command, receipt, worker, reply, effects, void>>
        /\ UNCHANGED <<verdict, item, sweep, rescue, drive, phase, granted, rescued,
                      exposed, faults>>
        /\ row' = NoRow /\ sweep.stage = "idle"
        /\ \A w \in Workers : worker[w] = Idle
    BY DEF Prune, workFrame, handlerFrame, NoSweep
  <1>2. CommandTypeOK'  BY <1>1, NewRowFacts DEF IInv, CommandTypeOK
  <1>3. Decided' /\ Undriven'  BY <1>1 DEF IInv, Decided, Undriven
  <1>4. \A w \in Workers : ~Holds(worker[w])  BY <1>1, IdleFacts DEF Holds
  <1>5. Aside  BY <1>1, <1>2, <1>3, <1>4, NewRowFacts DEF Aside
  <1> QED  BY <1>5, AsideKeeps

\* The stages of the resume sweep.
SweepStages == {"idle", "listed", "approve", "deny", "denying"}

\* A step of the sweep that only reads.
LEMMA SweepLooksKeeps ==
  ASSUME IInv, sweepFrame, UNCHANGED <<row, verdict>>,
         phase' \in Phases, faults' \in 0..MaxFaults,
         sweep' \in [stage : SweepStages, seen : Nat],
         sweep'.stage = "approve" => granted,
         sweep'.stage # "idle" => sweep.stage # "idle" \/ row.status = "parked"
  PROVE  IInv'
  <1>1. /\ UNCHANGED <<command, receipt, worker, reply, effects, void>>
        /\ UNCHANGED <<item, rescue, drive, granted, rescued, exposed>>
    BY DEF sweepFrame, doorFrame
  <1>2. CommandTypeOK'  BY <1>1 DEF IInv, CommandTypeOK, SweepStages
  <1>3. Decided' /\ Undriven'  BY <1>1 DEF IInv, Decided, Undriven
  <1>4. ~exposed /\ ~rescued => (sweep'.stage # "idle" => row.status = "parked")
    BY DEF IInv, Undisturbed
  <1>5. Aside  BY <1>1, <1>2, <1>3, <1>4, RowStays DEF Aside
  <1> QED  BY <1>5, AsideKeeps

\* A step with which the sweep is done.
LEMMA SweepWritesKeeps ==
  ASSUME IInv, sweepFrame, UNCHANGED <<phase, faults>>, sweep' = NoSweep,
         sweep.stage # "idle", row' \in Row, row'.status # "completed",
         verdict' \in {"none", "asked", "approved"}, verdict' = "approved" => granted
  PROVE  IInv'
  <1>1. /\ UNCHANGED <<command, receipt, worker, reply, effects, void>>
        /\ UNCHANGED <<item, rescue, drive, granted, rescued, exposed>>
        /\ sweep' \in [stage : SweepStages, seen : Nat] /\ sweep'.stage = "idle"
    BY DEF sweepFrame, doorFrame, NoSweep, SweepStages
  <1>2. CommandTypeOK'  BY <1>1 DEF IInv, CommandTypeOK, SweepStages
  <1>3. Decided' /\ Undriven'  BY <1>1 DEF IInv, Decided, Undriven
  <1>4. ~exposed /\ ~rescued => \A w \in Workers : ~Holds(worker[w])
    BY DEF IInv, Undisturbed
  <1>5. Aside  BY <1>1, <1>2, <1>3, <1>4 DEF Aside
  <1> QED  BY <1>5, AsideKeeps

\* The steps of resume_resolved_parked_commands.
LEMMA SweepKeeps == ASSUME IInv, SweepStep \/ SweepRaises PROVE IInv'
  <1>0. CommandTypeOK /\ Decided  BY DEF IInv
  <1>1. /\ row \in Row /\ row.attempts \in Nat /\ phase \in Phases
        /\ faults \in 0..MaxFaults
        /\ sweep \in [stage : SweepStages, seen : Nat]
        /\ {"transient"} \subseteq FailureClasses /\ "pending" \in Statuses
        /\ verdict \in {"none", "asked", "approved"}
    BY <1>0, Constants DEF CommandTypeOK, SweepStages, Row
  <1>2. CASE SweepLists
    <2>1. sweep' \in [stage : SweepStages, seen : Nat] /\ sweep'.stage = "listed"
      BY <1>2 DEF SweepLists, NoSweep, SweepStages
    <2> QED  BY <1>1, <1>2, <2>1, SweepLooksKeeps DEF SweepLists
  <1>3. CASE SweepReads
    <2> DEFINE st == CASE item = "approved" -> "approve"
                       [] item = "denied"   -> "deny"
                       [] OTHER             -> "idle"
    <2>1. st \in SweepStages  BY Zenon DEF SweepStages
    <2>2. st = "approve" => item = "approved"  BY Zenon
    <2>3. sweep' = [NoSweep EXCEPT !.stage = st]  BY <1>3 DEF SweepReads
    <2> HIDE DEF st
    <2>4. sweep' \in [stage : SweepStages, seen : Nat] /\ sweep'.stage = st
      BY <2>1, <2>3 DEF NoSweep
    <2>5. sweep'.stage = "approve" => granted  BY <1>0, <2>2, <2>4 DEF Decided
    <2>6. sweep.stage # "idle" /\ sweepFrame /\ UNCHANGED <<row, verdict, phase, faults>>
      BY <1>3 DEF SweepReads
    <2> QED  BY <1>1, <2>4, <2>5, <2>6, SweepLooksKeeps
  <1>4. CASE Approve
    <2> DEFINE new == [row EXCEPT !.status = "pending", !.lease = NoLease, !.age = 0]
    <2>1. new \in Row /\ new.status = "pending"  BY <1>1, StatusFacts
    <2>2. row' = Timeless(Write(row, new))  BY <1>4 DEF Approve, Put
    <2> HIDE DEF new
    <2>3. row' \in Row /\ row'.status # "completed"  BY <1>1, <2>1, <2>2, PutFacts
    <2> QED  BY <1>0, <1>4, <2>3, SweepWritesKeeps DEF Approve, Decided
  <1>5. CASE Deny
    <2>1. /\ sweep' \in [stage : SweepStages, seen : Nat] /\ sweep'.stage = "denying"
      BY <1>1, <1>5 DEF Deny, SweepStages
    <2> QED  BY <1>1, <1>5, <2>1, SweepLooksKeeps DEF Deny
  <1>6. CASE RequeueDenied
    <2>1. sweep.seen \in Nat  BY <1>1
    <2>2. row' \in Row /\ row'.status # "completed"
      BY <1>1, <1>6, <2>1, FailedFacts, PutFacts DEF RequeueDenied, Put
    <2> QED  BY <1>0, <1>1, <1>6, <2>2, SweepWritesKeeps DEF RequeueDenied, Decided
  <1>7. CASE SweepRaises
    <2>1. sweep' \in [stage : SweepStages, seen : Nat] /\ sweep'.stage = "idle"
      BY <1>7 DEF SweepRaises, NoSweep, SweepStages
    <2>2. faults' \in 0..MaxFaults  BY <1>0, <1>7, FaultFacts DEF SweepRaises
    <2> QED  BY <1>1, <1>7, <2>1, <2>2, SweepLooksKeeps DEF SweepRaises
  <1> QED  BY <1>2, <1>3, <1>4, <1>5, <1>6, <1>7 DEF SweepStep

Drives == [stage : {"idle", "run", "close", "failing"}, seen : Nat,
           ending : {"none", "completed", "parked"}, class : FailureClasses]

\* No drive is a drive at rest.
LEMMA NoDriveFacts == NoDrive \in Drives /\ NoDrive.stage = "idle"
  BY Constants DEF NoDrive, Drives

\* A step of the start, of a rescuer or of a drive that leaves the row alone.
LEMMA BootLooksKeeps ==
  ASSUME IInv, bootFrame, UNCHANGED <<row, rescued, exposed>>,
         sweep' \in [stage : SweepStages, seen : Nat],
         rescue' \in {"idle", "listed", "claimed"}, drive' \in Drives,
         phase' \in Phases, faults' \in 0..MaxFaults,
         sweep' = sweep \/ sweep'.stage = "idle"
           \/ (sweep'.stage = "listed" /\ row.status = "parked"),
         drive' = drive \/ drive' = NoDrive \/ drive # NoDrive,
         drive'.stage = "close" => drive'.ending # "none",
         rescue' = "claimed" => rescue = "claimed"
  PROVE  IInv'
  <1>1. /\ UNCHANGED <<command, receipt, worker, reply, effects, void>>
        /\ UNCHANGED <<verdict, item, granted>>
    BY DEF bootFrame, doorFrame
  <1>2. CommandTypeOK'  BY <1>1 DEF IInv, CommandTypeOK, SweepStages, Drives
  <1>3. Decided' /\ Undriven'  BY <1>1 DEF IInv, Decided, Undriven
  <1>4. ~exposed /\ ~rescued => (sweep'.stage # "idle" => row.status = "parked")
    BY DEF IInv, Undisturbed
  <1>5. Aside  BY <1>1, <1>2, <1>3, <1>4, RowStays DEF Aside
  <1> QED  BY <1>5, AsideKeeps

\* Once recovery has taken the row, only its type matters.
LEMMA RescuedKeeps ==
  ASSUME IInv, bootFrame, UNCHANGED <<sweep, phase, exposed, faults>>, rescued' = TRUE,
         row' \in Row, rescue' \in {"idle", "listed", "claimed"}, drive' \in Drives,
         drive'.stage = "close" => drive'.ending # "none"
  PROVE  IInv'
  <1>1. /\ UNCHANGED <<command, receipt, worker, reply, effects, void>>
        /\ UNCHANGED <<verdict, item, granted>>
    BY DEF bootFrame, doorFrame
  <1>2. CommandTypeOK'  BY <1>1 DEF IInv, CommandTypeOK, Drives
  <1>3. Decided' /\ Undriven'  BY <1>1 DEF IInv, Decided, Undriven
  <1>4. Aside  BY <1>1, <1>2, <1>3 DEF Aside
  <1> QED  BY <1>4, AsideKeeps

\* The parts of the state that these steps leave or set.
LEMMA BootTypes ==
  ASSUME IInv
  PROVE  /\ CommandTypeOK /\ row \in Row /\ row.attempts \in Nat
         /\ sweep \in [stage : SweepStages, seen : Nat]
         /\ rescue \in {"idle", "listed", "claimed"} /\ drive \in Drives
         /\ drive.stage = "close" => drive.ending # "none"
         /\ phase \in Phases /\ faults \in 0..MaxFaults
         /\ rescued \in BOOLEAN
         /\ {"starting", "serving", "claiming", "up"} \subseteq Phases
  BY DEF IInv, CommandTypeOK, Undriven, SweepStages, Drives, Phases, Row

\* The start of the process, and the liveness sweep's search.
LEMMA BootKeeps == ASSUME IInv, BootStep \/ FindStale PROVE IInv'
  <1>1. CASE Start
    <2> DEFINE st == IF row.status = "parked" THEN "listed" ELSE "idle"
    <2>1. st \in SweepStages /\ (st = "idle" \/ (st = "listed" /\ row.status = "parked"))
      BY DEF SweepStages
    <2>2. sweep' = [NoSweep EXCEPT !.stage = st]  BY <1>1 DEF Start
    <2> HIDE DEF st
    <2>3. sweep' \in [stage : SweepStages, seen : Nat] /\ sweep'.stage = st
      BY <2>1, <2>2 DEF NoSweep
    <2> QED  BY <1>1, <2>1, <2>3, BootTypes, BootLooksKeeps DEF Start
  <1>2. CASE Serve
    BY <1>2, BootTypes, BootLooksKeeps DEF Serve
  <1>3. CASE ListOrphans
    <2>1. rescue' \in {"listed", "idle"}  BY <1>3 DEF ListOrphans
    <2> QED  BY <1>3, <2>1, BootTypes, BootLooksKeeps DEF ListOrphans
  <1>4. CASE StartScheduler
    BY <1>4, BootTypes, BootLooksKeeps DEF StartScheduler
  <1>5. CASE FindStale
    BY <1>5, BootTypes, BootLooksKeeps DEF FindStale
  <1> QED  BY <1>1, <1>2, <1>3, <1>4, <1>5 DEF BootStep

\* Whoever drives the row, or is about to, does so for recovery.
LEMMA DrivenIsRescued ==
  ASSUME IInv, rescue = "claimed" \/ drive.stage # "idle" PROVE rescued = TRUE
  BY NoDriveFacts, BootTypes DEF IInv, Undriven

\* recovery.py takes a row, rebuilds its turn or fails to.
LEMMA RescueKeeps == ASSUME IInv, RescueStep \/ RebuildFails PROVE IInv'
  <1>1. CASE RescueClaims /\ row.status \in {"running", "recovering"}
    <2>1. (phase = "up") \in BOOLEAN  OBVIOUS
    <2>2. row' = Timeless(ClaimedForRecovery(row, phase = "up"))
      BY <1>1 DEF RescueClaims, Put
    <2>3. row' \in Row
      BY <2>1, <2>2, BootTypes, RecoveryFacts, TimelessFacts
    <2>4. rescue' = "claimed" /\ rescued' = TRUE /\ drive' = drive
      BY <1>1 DEF RescueClaims
    <2> QED  BY <1>1, <2>3, <2>4, BootTypes, RescuedKeeps DEF RescueClaims
  <1>2. CASE RescueClaims /\ row.status \notin {"running", "recovering"}
    BY <1>2, BootTypes, BootLooksKeeps DEF RescueClaims
  <1>3. CASE Rebuilt
    <2>1. rescued' = TRUE /\ rescue' = "idle"  BY <1>3, DrivenIsRescued DEF Rebuilt
    <2>2. row' \in Row
      BY <1>3, BootTypes, RunningFacts, PutFacts DEF Rebuilt, Put
    <2>3. drive' \in Drives /\ drive'.stage = "run"
      BY <1>3, Constants DEF Rebuilt, NoDrive, Drives
    <2> QED  BY <1>3, <2>1, <2>2, <2>3, RescuedKeeps DEF Rebuilt
  <1>4. CASE RebuildFails
    <2>1. faults' \in 0..MaxFaults  BY <1>4, BootTypes, FaultFacts DEF RebuildFails
    <2> QED  BY <1>4, <2>1, BootTypes, BootLooksKeeps DEF RebuildFails
  <1> QED  BY <1>1, <1>2, <1>3, <1>4 DEF RescueStep

\* The resumed drive of a row that recovery took.
LEMMA DriveKeeps == ASSUME IInv, DriveStep \/ Checkpoint PROVE IInv'
  <1>0. rescued = TRUE
    BY DrivenIsRescued DEF DriveStep, DriveEnds, DriveWrites, Checkpoint
  <1>1. CASE Checkpoint
    <2> DEFINE new == [row EXCEPT !.status = "running", !.age = 0]
    <2>1. new \in Row  BY BootTypes, Constants, StatusFacts
    <2>2. row' = Timeless(Write(row, new))  BY <1>1 DEF Checkpoint, Put
    <2> HIDE DEF new
    <2>3. row' \in Row  BY <2>1, <2>2, BootTypes, PutFacts
    <2> QED  BY <1>0, <1>1, <2>3, BootTypes, RescuedKeeps DEF Checkpoint, driveFrame
  <1>2. CASE DriveEnds
    <2>1. drive' \in Drives /\ (drive'.stage = "close" => drive'.ending # "none")
      <3>1. CASE row.status # "running"
        BY <1>2, <3>1, NoDriveFacts DEF DriveEnds
      <3>2. ASSUME NEW e \in {"completed", "parked"},
                   drive' = [NoDrive EXCEPT !.stage = "close", !.ending = e]
            PROVE  drive' \in Drives /\ drive'.ending # "none"
        BY <3>2, Constants DEF NoDrive, Drives
      <3>3. ASSUME NEW c \in {"transient", "permanent"},
                   drive' = [NoDrive EXCEPT !.stage = "failing", !.seen = row.attempts,
                                            !.class = c]
            PROVE  drive' \in Drives /\ drive'.stage # "close"
        BY <3>3, BootTypes, Constants DEF NoDrive, Drives
      <3> QED  BY <1>2, <3>1, <3>2, <3>3 DEF DriveEnds
    <2>2. drive # NoDrive  BY <1>2, NoDriveFacts DEF DriveEnds
    <2> QED  BY <1>2, <2>1, <2>2, BootTypes, BootLooksKeeps DEF DriveEnds, driveFrame
  <1>3. CASE DriveWrites
    <2>1. drive.ending \in {"none", "completed", "parked"} /\ drive.seen \in Nat
          /\ drive.class \in FailureClasses
          /\ drive' = NoDrive
      BY <1>3, BootTypes DEF DriveWrites, Drives
    <2>2. row' \in Row
      <3>1. CASE drive.stage = "close"
        <4> DEFINE new == [row EXCEPT !.status = drive.ending, !.age = 0]
        <4>1. drive.ending \in Statuses  BY <2>1, <3>1, BootTypes, Constants
        <4>2. new \in Row  BY <4>1, BootTypes, StatusFacts
        <4>3. row' = Timeless(Write(row, new))  BY <1>3, <3>1 DEF DriveWrites, Put
        <4> HIDE DEF new
        <4> QED  BY <4>2, <4>3, BootTypes, PutFacts
      <3>2. CASE drive.stage # "close"
        BY <1>3, <2>1, <3>2, BootTypes, FailedFacts, PutFacts DEF DriveWrites, Put
      <3> QED  BY <3>1, <3>2
    <2> QED
      BY <1>0, <1>3, <2>1, <2>2, NoDriveFacts, BootTypes, RescuedKeeps
      DEF DriveWrites, driveFrame
  <1> QED  BY <1>1, <1>2, <1>3 DEF DriveStep

\* A crash: a send without its receipt is recorded in exposed.
LEMMA CrashKeeps == ASSUME IInv, Crash PROVE IInv'
  <1>0. /\ CommandTypeOK /\ Decided /\ Counted /\ Undriven
        /\ UNCHANGED <<command, row, verdict, receipt, item, effects, void, granted, rescued>>
        /\ sweep' = NoSweep /\ rescue' = "idle" /\ drive' = NoDrive
        /\ worker' = [w \in Workers |-> Idle]
        /\ exposed' = (exposed \/ \E w \in Workers : worker[w].sent)
    BY DEF IInv, Crash
  <1>1. /\ reply' \in [Submitters -> Replies]
        /\ \A s \in Submitters : reply'[s] = "ok" => reply[s] = "ok"
    BY <1>0 DEF Crash, CommandTypeOK, Replies
  <1>2. \A w \in Workers : worker'[w] = Idle  BY <1>0
  <1>3. CommandTypeOK'
    <2>1. worker' \in [Workers -> Work]  BY <1>0, IdleFacts
    <2>2. sweep' \in [stage : {"idle", "listed", "approve", "deny", "denying"}, seen : Nat]
      BY <1>0 DEF NoSweep
    <2>3. drive' \in Drives /\ phase' \in Phases /\ faults' \in 0..MaxFaults
      BY <1>0, NoDriveFacts, FaultFacts DEF Crash, Phases
    <2>4. exposed' \in BOOLEAN  BY <1>0 DEF CommandTypeOK
    <2> QED  BY <1>0, <1>1, <2>1, <2>2, <2>3, <2>4 DEF CommandTypeOK, Drives
  <1>4. WorkersKnow'  BY <1>2, IdleFacts DEF WorkersKnow, Knows
  <1>5. Decided'  BY <1>0 DEF Decided, NoSweep
  <1>6. Counted'  BY <1>0, <1>1 DEF Counted, Cleared
  <1>7. Undriven'  BY <1>0, NoDriveFacts DEF Undriven
  <1>8. Undisturbed'
    <2>1. \A w \in Workers : ~Holds(worker'[w]) /\ worker'[w].stage # "send"
      BY <1>2, IdleFacts DEF Holds
    <2>2. sweep'.stage = "idle"  BY <1>0 DEF NoSweep
    <2>3. ~exposed' /\ ~rescued' =>
            effects <= 1 /\ (command.sends /\ effects > 0 => receipt)
      BY <1>0 DEF IInv, Undisturbed
    <2> QED  BY <1>0, <2>1, <2>2, <2>3 DEF Undisturbed
  <1> QED  BY <1>3, <1>4, <1>5, <1>6, <1>7, <1>8 DEF IInv

(***************************************************************************)
(* The invariant.                                                          *)
(***************************************************************************)
\* It holds at the start.
LEMMA InitIInv == Init => IInv
  <1> SUFFICES ASSUME Init PROVE IInv  OBVIOUS
  <1>0. \A w \in Workers : worker[w] = Idle  BY DEF Init
  <1>1. CommandTypeOK
    <2>1. worker \in [Workers -> Work] /\ reply \in [Submitters -> Replies]
      BY IdleFacts DEF Init, Replies
    <2>2. drive \in Drives  BY NoDriveFacts DEF Init
    <2>3. sweep \in [stage : {"idle", "listed", "approve", "deny", "denying"}, seen : Nat]
      BY DEF Init, NoSweep
    <2>4. /\ command \in Commands /\ row \in Row
          /\ verdict \in {"none", "asked", "approved"}
          /\ receipt \in BOOLEAN /\ item \in {"none", "open", "approved", "denied"}
          /\ rescue \in {"idle", "listed", "claimed"} /\ phase \in Phases
      BY NewRowFacts DEF Init, Phases
    <2>5. effects \in Nat /\ faults \in 0..MaxFaults
      BY CommandAssumption DEF Init
    <2>6. {void, granted, rescued, exposed} \subseteq BOOLEAN
      BY DEF Init
    <2> QED  BY <2>1, <2>2, <2>3, <2>4, <2>5, <2>6 DEF CommandTypeOK, Drives
  <1>2. WorkersKnow  BY <1>0, IdleFacts DEF WorkersKnow, Knows
  <1>3. Decided /\ Undriven  BY NoDriveFacts DEF Init, Decided, Undriven, NoSweep
  <1>4. Counted  BY NewRowFacts DEF Init, Counted
  <1>5. Undisturbed
    <2>1. \A w \in Workers : ~Holds(worker[w]) /\ worker[w].stage # "send"
      BY <1>0, IdleFacts DEF Holds
    <2> QED  BY <2>1 DEF Init, Undisturbed, NoSweep
  <1> QED  BY <1>1, <1>2, <1>3, <1>4, <1>5 DEF IInv

\* Every step keeps it.
LEMMA Inductive == IInv /\ [Next]_vars => IInv'
  <1> SUFFICES ASSUME IInv, [Next]_vars PROVE IInv'  OBVIOUS
  <1>1. ASSUME NEW s \in Submitters, Submit(s) PROVE IInv'  BY <1>1, SubmitKeeps
  <1>2. ASSUME NEW w \in Workers, WorkStep(w) PROVE IInv'
    BY <1>2, FetchKeeps, ClaimKeeps, ParkKeeps, ApplyKeeps, CheckKeeps, SendKeeps,
       WriteReceiptKeeps, FinishKeeps, ReadAttemptsKeeps, RequeueKeeps DEF WorkStep
  <1>3. ASSUME NEW w \in Workers, StoreRaises(w) PROVE IInv'  BY <1>3, StoreRaisesKeeps
  <1>4. ASSUME NEW a \in {"approved", "denied"}, Answer(a) PROVE IInv'
    BY <1>4, AnswerKeeps
  <1>5. CASE LoopStep  BY <1>5, LoopSelectsKeeps, LoopReclaimsKeeps DEF LoopStep
  <1>6. CASE Prune  BY <1>6, PruneKeeps
  <1>7. CASE SweepStep \/ SweepRaises  BY <1>7, SweepKeeps
  <1>8. CASE BootStep \/ FindStale  BY <1>8, BootKeeps
  <1>9. CASE RescueStep \/ RebuildFails  BY <1>9, RescueKeeps
  <1>10. CASE DriveStep \/ Checkpoint  BY <1>10, DriveKeeps
  <1>11. CASE Crash  BY <1>11, CrashKeeps
  <1>12. CASE UNCHANGED vars
    BY <1>12 DEF vars, IInv, CommandTypeOK, WorkersKnow, Knows, Cleared, Decided, Counted,
       Undriven, Undisturbed
  <1> QED
    BY <1>1, <1>2, <1>3, <1>4, <1>5, <1>6, <1>7, <1>8, <1>9, <1>10, <1>11, <1>12 DEF Next

\* The invariant that carries the others holds of every state of the door.
THEOREM IInvHolds == Spec => []IInv
  BY InitIInv, Inductive, PTL DEF Spec

\* The row, the receipt, the item and every coroutine's state hold what the code
\* writes there, whatever is submitted and whoever crashes.
THEOREM CommandTypes == Spec => []CommandTypeOK
  <1>1. IInv => CommandTypeOK  BY DEF IInv
  <1> QED  BY <1>1, IInvHolds, PTL

\* record_command_execution: a command takes effect at most once, but for a send
\* whose lease expired under it, whose receipt was lost or whose row recovery took.
THEOREM AppliedOnceHolds == Spec => []AppliedOnce
  <1>1. IInv => AppliedOnce
    <2> SUFFICES ASSUME IInv PROVE AppliedOnce  OBVIOUS
    <2>1. CASE ~command.sends
      BY <2>1 DEF IInv, CommandTypeOK, Counted, AppliedOnce
    <2>2. CASE command.sends
      BY <2>2 DEF IInv, Undisturbed, AppliedOnce
    <2> QED  BY <2>1, <2>2
  <1> QED  BY <1>1, IInvHolds, PTL

\* The action-policy gate: what action_policy.py reserves for the owner has taken
\* effect only after he approved it.
THEOREM ApprovedFirstHolds == Spec => []ApprovedFirst
  <1>1. IInv => ApprovedFirst
    <2> SUFFICES ASSUME IInv, effects > 0, OwnersToDecide(command) PROVE granted
      BY DEF ApprovedFirst
    <2>1. Cleared  BY DEF IInv, Counted
    <2>2. command \in Command  BY CommandAssumption DEF IInv, CommandTypeOK
    <2>3. ~RunsAtOnce(command)
      BY <2>2 DEF Command, RunsAtOnce, OwnersToDecide
    <2> QED  BY <2>1, <2>3 DEF Cleared
  <1> QED  BY <1>1, IInvHolds, PTL

\* submit_command answers ok, inline or for a retry, only when the command has
\* taken effect, when its handler ended well with nothing to do, or when recovery
\* has handed its row to the model.
THEOREM HonestOutcomeHolds == Spec => []HonestOutcome
  <1>1. IInv => HonestOutcome  BY DEF IInv, Counted, HonestOutcome
  <1> QED  BY <1>1, IInvHolds, PTL
=============================================================================
