--------------------------- MODULE TaskLoopProofs ---------------------------
(***************************************************************************)
(* Proofs about TaskLoop, for every table size, ceiling, lease and bound.  *)
(*                                                                         *)
(* The safety properties of TaskLoop are not inductive by themselves.      *)
(* IInv strengthens them with what every drive knows of its row (TaskInv), *)
(* when the loop has work in flight (WorkOnlyInDispatch), which ids are    *)
(* fresh (FreshIds) and what a selected row waits for (DepsHeld).          *)
(***************************************************************************)
EXTENDS TaskLoop, TLAPS

\* A drive that holds its row: it will still write to it.
Busy == {"start", "split", "link", "run", "sent", "fail"}

\* The statuses of a row that is not yet answered.
Unanswered == {"pending", "running", "failed", "dead_letter"}

\* What one task's row, its dispatch w, its chat turn u, and the counts of its
\* answers and of its lost proofs of delivery have to do with each other.
TaskInv(r, w, u, a, l) ==
  /\ u.pc \in {"idle", "run", "sent", "fail", "tell"}
  /\ w.pc \in Busy => r.status = "running" /\ r.lease # NoLease
  /\ u.pc \in Busy => r.status = "running" /\ r.lease = NoLease
  /\ (w.pc = "tell" \/ u.pc = "tell") => r.status = "dead_letter"
  /\ r.status # "running" => r.lease = NoLease
  /\ r.attempts <= MaxAttempts
  /\ r.status \in {"pending", "running", "failed"} => r.attempts < MaxAttempts
  /\ w.pc = "fail" => w.seen = r.attempts
  /\ u.pc = "fail" => u.seen = r.attempts
  /\ (w.pc = "sent" \/ u.pc = "sent") => a = l + 1
  /\ (r.status \in Unanswered /\ w.pc # "sent" /\ u.pc # "sent") => a = l
  /\ a <= l + 1

EveryTask ==
  \A t \in Tasks : TaskInv(rows[t], work[t], turn[t], answers[t], lost[t])

WorkOnlyInDispatch ==
  /\ loop \notin {"claim", "gather"} => \A t \in Tasks : work[t].pc = "idle"
  /\ loop = "claim" => \A t \in Tasks : work[t].pc \in {"idle", "start"}

FreshIds ==
  /\ \A t \in Tasks : t > born =>
       /\ rows[t].status = "absent"
       /\ work[t].pc = "idle" /\ turn[t].pc = "idle"
       /\ answers[t] = 0 /\ lost[t] = 0
  /\ \A t \in Tasks : \A d \in rows[t].deps : d <= born
  /\ \A t \in Tasks : \A d \in work[t].kids : d <= born

Done(d) == rows[d].status \in {"completed", "absent"}

DepsHeld ==
  \A t \in Tasks :
    (work[t].pc # "idle" \/ (loop = "claim" /\ t \in batch)) =>
      \A d \in rows[t].deps : Done(d)

IInv == TypeOK /\ EveryTask /\ WorkOnlyInDispatch /\ FreshIds /\ DepsHeld

\* An announcement is one more notice of its task.
LEMMA AnnouncedFacts ==
  ASSUME TypeOK, NEW t \in Tasks, NEW n \in Notices
  PROVE  Announced(t, n) \in [Tasks -> SUBSET Notices]
  BY DEF TypeOK, Announced

(***************************************************************************)
(* What the writes of the store do to a row: it stays a row, and the       *)
(* fields that the invariant reads are the following.                      *)
(***************************************************************************)
\* The constants that the writes put into a row are of the right type.
LEMMA WrittenConstants ==
  /\ 0 \in 0..OldTicks
  /\ NoLease \in NoLease..LeaseTicks
  /\ LeaseTicks \in NoLease..LeaseTicks /\ LeaseTicks # NoLease
  /\ {"absent", "pending", "running", "completed", "dead_letter"} \subseteq Statuses
  /\ {"none", "lease_expired", "dependency_failed"} \subseteq RowClasses
  /\ FailureClasses \subseteq RowClasses
  /\ NoParent \in NoParent..MaxTask /\ Tasks \subseteq NoParent..MaxTask
  BY StoreAssumption DEF NoLease, NoParent, Statuses, RowClasses, Tasks

\* The fields of a row that the invariant does arithmetic with.
LEMMA RowFields ==
  ASSUME NEW r \in Row
  PROVE  /\ r.attempts \in Nat
         /\ r.lease \in Int /\ r.lease >= NoLease
         /\ r.deps \subseteq Tasks
         /\ r.status \in Statuses
         /\ r.destination \in Destinations
  BY StoreAssumption DEF Row, NoLease

\* enqueue
LEMMA NewRowFacts ==
  ASSUME NEW st \in Statuses, NEW d \in Destinations,
         NEW deps \in SUBSET Tasks, NEW p \in NoParent..MaxTask
  PROVE  LET r == NewRow(st, d, deps, p) IN
         /\ r \in Row
         /\ r.status = st /\ r.lease = NoLease /\ r.attempts = 0 /\ r.deps = deps
  BY WrittenConstants DEF NewRow, Row

\* The absent row that prune_completed leaves.
LEMMA NoRowFacts ==
  /\ NoRow \in Row
  /\ NoRow.status = "absent" /\ NoRow.lease = NoLease /\ NoRow.attempts = 0
  /\ NoRow.deps = {}
  <1>1. "none" \in Destinations  BY DEF Destinations
  <1>2. "absent" \in Statuses /\ NoParent \in NoParent..MaxTask  BY WrittenConstants
  <1> QED  BY <1>1, <1>2, NewRowFacts DEF NoRow

\* claim
LEMMA ClaimedFacts ==
  ASSUME NEW r \in Row
  PROVE  /\ Claimed(r) \in Row
         /\ Claimed(r).status = "running" /\ Claimed(r).lease = LeaseTicks
         /\ Claimed(r).attempts = r.attempts /\ Claimed(r).deps = r.deps
  BY WrittenConstants DEF Claimed, Row

\* reclaim_expired
LEMMA ReclaimedFacts ==
  ASSUME NEW r \in Row
  PROVE  /\ Reclaimed(r) \in Row
         /\ Reclaimed(r).status =
              IF r.attempts + 1 >= MaxAttempts THEN "dead_letter" ELSE "pending"
         /\ Reclaimed(r).lease = NoLease
         /\ Reclaimed(r).attempts = r.attempts + 1
         /\ Reclaimed(r).deps = r.deps
  <1> DEFINE st == IF CeilingReached(r) THEN "dead_letter" ELSE "pending"
             n == r.attempts + 1
  <1>1. st \in Statuses /\ n \in Nat  BY WrittenConstants, RowFields
  <1>2. "lease_expired" \in RowClasses  BY WrittenConstants
  <1>3. Reclaimed(r) = [r EXCEPT !.status = st, !.lease = NoLease, !.attempts = n,
                                 !.class = "lease_expired", !.age = 0]
    BY DEF Reclaimed
  <1> HIDE DEF st, n
  <1>4. /\ Reclaimed(r) \in Row
        /\ Reclaimed(r).status = st /\ Reclaimed(r).lease = NoLease
        /\ Reclaimed(r).attempts = n /\ Reclaimed(r).deps = r.deps
    BY <1>1, <1>2, <1>3, WrittenConstants DEF Row
  <1> QED  BY <1>4 DEF st, n, CeilingReached

\* fail_and_requeue
LEMMA FailedFacts ==
  ASSUME NEW r \in Row, NEW n \in Nat, NEW c \in FailureClasses
  PROVE  LET new == FailedAttempt(r, n, c) IN
         /\ new \in Row
         /\ new.status = IF StopsForGood(r, n, c) THEN "dead_letter" ELSE "pending"
         /\ new.lease = NoLease
         /\ new.attempts = n + 1
         /\ new.deps = r.deps
  <1> DEFINE m == n + 1
  <1>1. m \in Nat /\ c \in RowClasses  BY WrittenConstants
  <1>2. FailedAttempt(r, n, c) =
          IF StopsForGood(r, n, c)
          THEN [r EXCEPT !.status = "dead_letter", !.attempts = m,
                         !.class = c, !.lease = NoLease, !.age = 0]
          ELSE [r EXCEPT !.status = "pending", !.attempts = m,
                         !.class = c, !.lease = NoLease, !.backoff = TRUE, !.age = 0]
    BY DEF FailedAttempt
  <1> HIDE DEF m
  <1>3. CASE StopsForGood(r, n, c)
    <2>1. /\ FailedAttempt(r, n, c) \in Row
          /\ FailedAttempt(r, n, c).status = "dead_letter"
          /\ FailedAttempt(r, n, c).lease = NoLease
          /\ FailedAttempt(r, n, c).attempts = m
          /\ FailedAttempt(r, n, c).deps = r.deps
      BY <1>1, <1>2, <1>3, WrittenConstants DEF Row
    <2> QED  BY <1>3, <2>1 DEF m
  <1>4. CASE ~StopsForGood(r, n, c)
    <2>1. /\ FailedAttempt(r, n, c) \in Row
          /\ FailedAttempt(r, n, c).status = "pending"
          /\ FailedAttempt(r, n, c).lease = NoLease
          /\ FailedAttempt(r, n, c).attempts = m
          /\ FailedAttempt(r, n, c).deps = r.deps
      BY <1>1, <1>2, <1>4, WrittenConstants DEF Row
    <2> QED  BY <1>4, <2>1 DEF m
  <1> QED  BY <1>3, <1>4

\* A failure that does not stop for good leaves budget on the row.
LEMMA BudgetLeft ==
  ASSUME NEW r, NEW n \in Nat, NEW c, ~StopsForGood(r, n, c)
  PROVE  n + 1 < MaxAttempts
  BY StoreAssumption DEF StopsForGood, Ceiling

\* mark_delivered
LEMMA DeliveredFacts ==
  ASSUME NEW r \in Row
  PROVE  /\ Delivered(r) \in Row
         /\ Delivered(r).status = "completed" /\ Delivered(r).lease = NoLease
         /\ Delivered(r).attempts = r.attempts /\ Delivered(r).deps = r.deps
  BY WrittenConstants DEF Delivered, Row

\* mark_completed_unaddressed
LEMMA UnaddressedFacts ==
  ASSUME NEW r \in Row
  PROVE  LET new == CompletedUnaddressed(r) IN
         /\ new \in Row
         /\ new.status = "completed" /\ new.lease = NoLease
         /\ new.attempts = r.attempts /\ new.deps = r.deps
  BY WrittenConstants DEF CompletedUnaddressed, Row

\* The dependency cascade of _deps_satisfied.
LEMMA CascadeFacts ==
  ASSUME NEW r \in Row
  PROVE  LET new == DependencyFailed(r) IN
         /\ new \in Row
         /\ new.status = "dead_letter" /\ new.lease = r.lease
         /\ new.attempts = r.attempts /\ new.deps = r.deps
  BY WrittenConstants DEF DependencyFailed, Row

\* revive_undelivered_failures
LEMMA RevivedFacts ==
  ASSUME NEW r \in Row
  PROVE  /\ Revived(r) \in Row
         /\ Revived(r).status = "pending" /\ Revived(r).lease = NoLease
         /\ Revived(r).attempts = r.attempts /\ Revived(r).deps = r.deps
  BY WrittenConstants DEF Revived, Row

\* set_dependencies
LEMMA WaitingFacts ==
  ASSUME NEW r \in Row, NEW ds \in SUBSET Tasks
  PROVE  LET new == Waiting(r, ds) IN
         /\ new \in Row
         /\ new.status = r.status /\ new.lease = r.lease
         /\ new.attempts = r.attempts /\ new.deps = ds
  BY WrittenConstants DEF Waiting, Row

\* The acknowledgement of a dead letter, and the end of a backoff.
LEMMA SameStatusFacts ==
  ASSUME NEW r \in Row, NEW new,
         new = Acknowledged(r) \/ new = [r EXCEPT !.backoff = FALSE]
  PROVE  /\ new \in Row
         /\ new.status = r.status /\ new.lease = r.lease
         /\ new.attempts = r.attempts /\ new.deps = r.deps
  BY DEF Acknowledged, Row

\* The passage of time: a lease runs down to 0 and no lease stays none.
LEMMA OlderFacts ==
  ASSUME NEW r \in Row
  PROVE  /\ Older(r) \in Row
         /\ Older(r).status = r.status
         /\ Older(r).lease = NoLease <=> r.lease = NoLease
         /\ Older(r).attempts = r.attempts /\ Older(r).deps = r.deps
  <1> DEFINE l == IF r.lease > 0 THEN r.lease - 1 ELSE r.lease
             a == IF r.status \in {"running", "completed"} /\ r.age < OldTicks
                  THEN r.age + 1 ELSE r.age
  <1>1. /\ l \in NoLease..LeaseTicks
        /\ l = NoLease <=> r.lease = NoLease
    BY StoreAssumption DEF Row, NoLease
  <1>2. a \in 0..OldTicks  BY StoreAssumption DEF Row
  <1>3. Older(r) = [r EXCEPT !.lease = l, !.age = a]  BY DEF Older
  <1> HIDE DEF l, a
  <1>4. /\ Older(r) \in Row
        /\ Older(r).status = r.status /\ Older(r).lease = l
        /\ Older(r).attempts = r.attempts /\ Older(r).deps = r.deps
    BY <1>1, <1>2, <1>3 DEF Row
  <1> QED  BY <1>1, <1>4

(***************************************************************************)
(* The drives that the actions start.                                      *)
(***************************************************************************)
\* A drive at a phase has no sub-tasks yet.
LEMMA AtFacts ==
  ASSUME NEW pc \in DrivePhases
  PROVE  /\ At(pc) \in Drive /\ At(pc).pc = pc /\ At(pc).kids = {}
         /\ \A ks \in SUBSET Tasks :
              LET d == [At(pc) EXCEPT !.kids = ks] IN
              d \in Drive /\ d.pc = pc /\ d.kids = ks
  <1>1. At(pc) = [pc |-> pc, seen |-> 0, class |-> "transient", kids |-> {}]
    BY DEF At, Idle
  <1>2. "transient" \in FailureClasses  BY DEF FailureClasses
  <1> QED  BY <1>1, <1>2 DEF Drive

\* A drive that is over.
LEMMA IdleFacts == Idle \in Drive /\ Idle.pc = "idle" /\ Idle.kids = {}
  <1>1. "transient" \in FailureClasses /\ "idle" \in DrivePhases
    BY DEF FailureClasses, DrivePhases
  <1> QED  BY <1>1 DEF Drive, Idle

(***************************************************************************)
(* How a step keeps IInv.                                                  *)
(***************************************************************************)
\* A step that inserts no row and adds no dependency: it keeps IInv if it keeps
\* every TaskInv, revives no delivered row and starts only selected rows.
LEMMA QuietStep ==
  ASSUME IInv, TypeOK', EveryTask', WorkOnlyInDispatch', born' = born,
         \A v \in Tasks :
           /\ rows'[v].deps \subseteq rows[v].deps
           /\ work'[v].kids \subseteq work[v].kids
           /\ Done(v) => Done(v)'
           /\ (work'[v].pc # "idle" \/ (loop' = "claim" /\ v \in batch')) =>
                (work[v].pc # "idle" \/ (loop = "claim" /\ v \in batch))
           /\ v > born => /\ rows'[v].status = "absent"
                          /\ work'[v].pc = "idle" /\ turn'[v].pc = "idle"
                          /\ answers'[v] = 0 /\ lost'[v] = 0
  PROVE  IInv'
  <1>1. FreshIds'  BY DEF IInv, FreshIds
  <1>2. DepsHeld'
    <2> SUFFICES ASSUME NEW v \in Tasks,
                        work'[v].pc # "idle" \/ (loop' = "claim" /\ v \in batch'),
                        NEW d \in rows'[v].deps
                 PROVE  Done(d)'
      BY DEF DepsHeld
    <2>1. d \in rows[v].deps  OBVIOUS
    <2>2. d \in Tasks  BY <2>1, RowFields DEF IInv, TypeOK
    <2>3. Done(d)  BY <2>1 DEF IInv, DepsHeld
    <2> QED  BY <2>2, <2>3
  <1> QED  BY <1>1, <1>2 DEF IInv

\* A step of one drive of task t.
LEMMA OneTaskStep ==
  ASSUME IInv, TypeOK', NEW t \in Tasks, t <= born, born' = born,
         \A v \in Tasks \ {t} :
           /\ rows'[v] = rows[v] /\ work'[v] = work[v] /\ turn'[v] = turn[v]
           /\ answers'[v] = answers[v] /\ lost'[v] = lost[v],
         TaskInv(rows'[t], work'[t], turn'[t], answers'[t], lost'[t]),
         rows'[t].deps = rows[t].deps,
         work'[t].kids \subseteq work[t].kids,
         Done(t) => Done(t)',
         work'[t].pc # "idle" => work[t].pc # "idle",
         loop = "gather" \/ work'[t] = work[t],
         loop' = loop, batch' = batch
  PROVE  IInv'
  <1>1. EveryTask'  BY DEF IInv, EveryTask
  <1>2. WorkOnlyInDispatch'  BY DEF IInv, WorkOnlyInDispatch
  <1>3. \A v \in Tasks :
           /\ rows'[v].deps \subseteq rows[v].deps
           /\ work'[v].kids \subseteq work[v].kids
           /\ Done(v) => Done(v)'
           /\ (work'[v].pc # "idle" \/ (loop' = "claim" /\ v \in batch')) =>
                (work[v].pc # "idle" \/ (loop = "claim" /\ v \in batch))
    BY DEF Done
  <1>4. \A v \in Tasks : v > born =>
           /\ rows'[v].status = "absent"
           /\ work'[v].pc = "idle" /\ turn'[v].pc = "idle"
           /\ answers'[v] = 0 /\ lost'[v] = 0
    <2> SUFFICES ASSUME NEW v \in Tasks, v > born
                 PROVE  /\ rows'[v].status = "absent"
                        /\ work'[v].pc = "idle" /\ turn'[v].pc = "idle"
                        /\ answers'[v] = 0 /\ lost'[v] = 0
      OBVIOUS
    <2>1. v # t  BY DEF IInv, TypeOK, Tasks
    <2> QED  BY <2>1 DEF IInv, FreshIds
  <1> QED  BY <1>1, <1>2, <1>3, <1>4, QuietStep

\* A drive that is not idle belongs to a task that was created.
LEMMA DrivenIsBorn ==
  ASSUME IInv, NEW t \in Tasks, work[t].pc # "idle" \/ turn[t].pc # "idle"
  PROVE  t <= born
  BY DEF IInv, TypeOK, FreshIds, Tasks

\* What IInv says of one task.
LEMMA TaskFacts ==
  ASSUME IInv, NEW t \in Tasks
  PROVE  /\ rows[t] \in Row /\ work[t] \in Drive /\ turn[t] \in Drive
         /\ answers[t] \in Nat /\ lost[t] \in Nat /\ told[t] \subseteq Notices
         /\ TaskInv(rows[t], work[t], turn[t], answers[t], lost[t])
  BY DEF IInv, TypeOK, EveryTask

\* The record that fail_and_requeue's read leaves in a drive.
LEMMA FailingFacts ==
  ASSUME IInv, NEW t \in Tasks, NEW c \in FailureClasses
  PROVE  LET d == Failing(t, c) IN
         /\ d \in Drive /\ d.pc = "fail" /\ d.seen = rows[t].attempts /\ d.kids = {}
  <1>1. rows[t].attempts \in Nat  BY TaskFacts, RowFields
  <1>2. "fail" \in DrivePhases  BY DEF DrivePhases
  <1> QED  BY <1>1, <1>2 DEF Failing, Drive

\* fail_and_requeue's UPDATE by the drive d that holds the running row of t, with
\* the attempt count it read still current.
LEMMA RecordFailureFacts ==
  ASSUME IInv, NEW t \in Tasks, NEW d \in Drive, rows[t].status = "running",
         d.seen = rows[t].attempts, RecordFailure(t, d)
  PROVE  /\ rows' \in [Tasks -> Row]
         /\ \A v \in Tasks \ {t} : rows'[v] = rows[v]
         /\ rows'[t].lease = NoLease /\ rows'[t].deps = rows[t].deps
         /\ AfterFailure(t, d) \in Drive /\ AfterFailure(t, d).kids = {}
         /\ \/ /\ AfterFailure(t, d).pc = "tell"
               /\ rows'[t].status = "dead_letter"
               /\ rows'[t].attempts = rows[t].attempts + 1
            \/ /\ AfterFailure(t, d).pc = "idle"
               /\ rows'[t].status = "pending"
               /\ rows'[t].attempts = rows[t].attempts + 1
               /\ rows[t].attempts + 1 < MaxAttempts
  <1> DEFINE new == FailedAttempt(rows[t], d.seen, d.class)
  <1>1. rows[t] \in Row /\ d.seen \in Nat /\ d.class \in FailureClasses
    BY TaskFacts DEF Drive
  <1>2. /\ new \in Row /\ new.lease = NoLease /\ new.deps = rows[t].deps
        /\ new.attempts = d.seen + 1
        /\ new.status = IF StopsForGood(rows[t], d.seen, d.class)
                        THEN "dead_letter" ELSE "pending"
    BY <1>1, FailedFacts
  <1>3. rows' = [rows EXCEPT ![t] = new]
    BY DEF RecordFailure, Write, IInv, TypeOK
  <1>4. rows' \in [Tasks -> Row] /\ rows'[t] = new
        /\ \A v \in Tasks \ {t} : rows'[v] = rows[v]
    BY <1>2, <1>3 DEF IInv, TypeOK
  <1>5. /\ Idle \in Drive /\ Idle.pc = "idle" /\ Idle.kids = {}
        /\ At("tell") \in Drive /\ At("tell").pc = "tell" /\ At("tell").kids = {}
    BY IdleFacts, AtFacts DEF DrivePhases
  <1>6. CASE StopsForGood(rows[t], d.seen, d.class)
    BY <1>2, <1>4, <1>5, <1>6 DEF AfterFailure
  <1>7. CASE ~StopsForGood(rows[t], d.seen, d.class)
    <2>1. d.seen + 1 < MaxAttempts  BY <1>1, <1>7, BudgetLeft
    <2> QED  BY <1>2, <1>4, <1>5, <1>7, <2>1 DEF AfterFailure
  <1> QED  BY <1>6, <1>7

\* mark_delivered by a drive that holds the running row of t.
LEMMA RecordDeliveryFacts ==
  ASSUME IInv, NEW t \in Tasks, rows[t].status = "running", RecordDelivery(t)
  PROVE  /\ rows' \in [Tasks -> Row]
         /\ \A v \in Tasks \ {t} : rows'[v] = rows[v]
         /\ rows'[t].status = "completed" /\ rows'[t].lease = NoLease
         /\ rows'[t].attempts = rows[t].attempts /\ rows'[t].deps = rows[t].deps
  <1>1. rows[t] \in Row  BY TaskFacts
  <1>2. rows' = [rows EXCEPT ![t] = Delivered(rows[t])]
    BY DEF RecordDelivery, Write, IInv, TypeOK
  <1> QED  BY <1>1, <1>2, DeliveredFacts DEF IInv, TypeOK

(***************************************************************************)
(* The chat turn.                                                          *)
(***************************************************************************)
\* No step of a chat turn breaks IInv: while the turn runs, the row is running
\* without a lease, so neither the loop nor a reclaim can touch it.
LEMMA TurnStepKeeps ==
  ASSUME IInv, NEW t \in Tasks, TurnStep(t) \/ TurnLosesWrite(t)
  PROVE  IInv'
  <1> DEFINE Kept == TaskInv(rows'[t], work'[t], turn'[t], answers'[t], lost'[t])
  <1>1. /\ rows[t] \in Row /\ turn[t] \in Drive
        /\ answers[t] \in Nat /\ lost[t] \in Nat /\ told[t] \subseteq Notices
        /\ TaskInv(rows[t], work[t], turn[t], answers[t], lost[t])
    BY TaskFacts
  <1>2. rows[t].attempts \in Nat  BY <1>1, RowFields
  <1>3. /\ Idle \in Drive /\ Idle.pc = "idle"
        /\ At("sent") \in Drive /\ At("sent").pc = "sent"
    BY IdleFacts, AtFacts DEF DrivePhases
  <1>4. CASE TurnReplies(t)
    <2>1. TypeOK'
      BY <1>1, <1>3, <1>4 DEF IInv, TypeOK, turnFrame, TurnReplies, SendAnswer
    <2>2. Kept
      BY <1>1, <1>2, <1>3, <1>4
      DEF IInv, TypeOK, turnFrame, TurnReplies, SendAnswer, TaskInv, Busy, Unanswered
    <2>3. t <= born  BY <1>4, DrivenIsBorn DEF TurnReplies
    <2> QED
      BY <1>4, <2>1, <2>2, <2>3, OneTaskStep
      DEF IInv, TypeOK, turnFrame, TurnReplies, SendAnswer, Done
  <1>5. CASE TurnUnachieved(t)
    <2>a. Failing(t, "small") \in Drive /\ Failing(t, "small").pc = "fail"
          /\ Failing(t, "small").seen = rows[t].attempts
      BY FailingFacts DEF FailureClasses
    <2>1. TypeOK'
      BY <1>1, <1>3, <1>5, <2>a DEF IInv, TypeOK, turnFrame, TurnUnachieved
    <2>2. Kept
      BY <1>1, <1>2, <1>3, <1>5, <2>a
      DEF IInv, TypeOK, turnFrame, TurnUnachieved, TaskInv, Busy, Unanswered
    <2>3. t <= born  BY <1>5, DrivenIsBorn DEF TurnUnachieved
    <2> QED
      BY <1>5, <2>1, <2>2, <2>3, <2>a, OneTaskStep
      DEF IInv, TypeOK, turnFrame, TurnUnachieved, Done
  <1>6. CASE TurnSilent(t)
    <2>1. TypeOK'
      BY <1>1, <1>3, <1>6 DEF IInv, TypeOK, turnFrame, TurnSilent
    <2>2. Kept
      BY <1>1, <1>2, <1>3, <1>6
      DEF IInv, TypeOK, turnFrame, TurnSilent, TaskInv, Busy, Unanswered
    <2>3. t <= born  BY <1>6, DrivenIsBorn DEF TurnSilent
    <2> QED
      BY <1>6, <2>1, <2>2, <2>3, OneTaskStep
      DEF IInv, TypeOK, turnFrame, TurnSilent, Done
  <1>7. CASE TurnRecords(t)
    <2>a. rows[t].status = "running"  BY <1>1, <1>7 DEF TurnRecords, TaskInv, Busy
    <2>b. /\ rows' \in [Tasks -> Row]
          /\ \A v \in Tasks \ {t} : rows'[v] = rows[v]
          /\ rows'[t].status = "completed" /\ rows'[t].lease = NoLease
          /\ rows'[t].attempts = rows[t].attempts /\ rows'[t].deps = rows[t].deps
      BY <1>7, <2>a, RecordDeliveryFacts DEF TurnRecords
    <2>1. TypeOK'
      BY <1>1, <1>3, <1>7, <2>a, <2>b DEF IInv, TypeOK, turnFrame, TurnRecords, RecordDelivery
    <2>2. Kept
      BY <1>1, <1>2, <1>3, <1>7, <2>a, <2>b
      DEF IInv, TypeOK, turnFrame, TurnRecords, RecordDelivery, TaskInv, Busy, Unanswered
    <2>3. t <= born  BY <1>7, DrivenIsBorn DEF TurnRecords
    <2> QED
      BY <1>7, <2>1, <2>2, <2>3, <2>a, <2>b, OneTaskStep
      DEF IInv, TypeOK, turnFrame, TurnRecords, RecordDelivery, Done
  <1>8. CASE TurnRequeues(t)
    <2>a. rows[t].status = "running" /\ turn[t].seen = rows[t].attempts
      BY <1>1, <1>8 DEF TurnRequeues, TaskInv, Busy
    <2>b. /\ rows' \in [Tasks -> Row]
          /\ \A v \in Tasks \ {t} : rows'[v] = rows[v]
          /\ rows'[t].lease = NoLease /\ rows'[t].deps = rows[t].deps
          /\ AfterFailure(t, turn[t]) \in Drive
          /\ \/ /\ AfterFailure(t, turn[t]).pc = "tell"
                /\ rows'[t].status = "dead_letter"
                /\ rows'[t].attempts = rows[t].attempts + 1
             \/ /\ AfterFailure(t, turn[t]).pc = "idle"
                /\ rows'[t].status = "pending"
                /\ rows'[t].attempts = rows[t].attempts + 1
                /\ rows[t].attempts + 1 < MaxAttempts
      BY <1>1, <1>8, <2>a, RecordFailureFacts DEF TurnRequeues
    <2>c. /\ UNCHANGED <<answers, lost, told, faults, born, loop, batch, work>>
          /\ turn' = [turn EXCEPT ![t] = AfterFailure(t, turn[t])]
          /\ turn[t].pc = "fail"
      BY <1>8 DEF TurnRequeues, RecordFailure, turnFrame
    <2>1. TypeOK'
      BY <2>b, <2>c DEF IInv, TypeOK
    <2>2. Kept
      BY <1>1, <1>2, <2>a, <2>b, <2>c, StoreAssumption
      DEF IInv, TypeOK, TaskInv, Busy, Unanswered
    <2>3. t <= born  BY <1>8, DrivenIsBorn DEF TurnRequeues
    <2> QED
      BY <2>1, <2>2, <2>3, <2>a, <2>b, <2>c, OneTaskStep
      DEF IInv, TypeOK, Done
  <1>9. CASE TurnEscalates(t)
    <2>0. told' \in [Tasks -> SUBSET Notices]
      BY <1>9, AnnouncedFacts DEF TurnEscalates, Escalate, Notices, IInv, TypeOK
    <2>1. TypeOK'
      BY <1>1, <1>3, <1>9, <2>0 DEF IInv, TypeOK, turnFrame, TurnEscalates, Escalate
    <2>2. Kept
      BY <1>1, <1>2, <1>3, <1>9
      DEF IInv, TypeOK, turnFrame, TurnEscalates, Escalate, TaskInv, Busy, Unanswered
    <2>3. t <= born  BY <1>9, DrivenIsBorn DEF TurnEscalates
    <2> QED
      BY <1>9, <2>1, <2>2, <2>3, OneTaskStep
      DEF IInv, TypeOK, turnFrame, TurnEscalates, Escalate, Done
  <1>10. CASE TurnLosesWrite(t)
    <2>1. TypeOK'
      BY <1>1, <1>3, <1>10 DEF IInv, TypeOK, turnFrame, TurnLosesWrite, LoseWrite, Fault
    <2>2. Kept
      BY <1>1, <1>2, <1>3, <1>10
      DEF IInv, TypeOK, turnFrame, TurnLosesWrite, LoseWrite, Fault, TaskInv, Busy, Unanswered
    <2>3. t <= born  BY <1>10, DrivenIsBorn DEF TurnLosesWrite, LoseWrite
    <2> QED
      BY <1>10, <2>1, <2>2, <2>3, OneTaskStep
      DEF IInv, TypeOK, turnFrame, TurnLosesWrite, LoseWrite, Fault, Done
  <1> QED  BY <1>4, <1>5, <1>6, <1>7, <1>8, <1>9, <1>10 DEF TurnStep

(***************************************************************************)
(* The dispatch of a claimed task.                                         *)
(***************************************************************************)
\* No step of a dispatch that only touches its own row breaks IInv: the row is
\* running under its lease, and reclaim_expired does not run during the gather.
LEMMA WorkStepKeeps ==
  ASSUME IInv, NEW t \in Tasks,
         \/ WorkBegins(t) \/ WorkDelivers(t) \/ WorkRecords(t) \/ WorkUnaddressed(t)
         \/ \E c \in FailureClasses : WorkFails(t, c)
         \/ WorkRequeues(t) \/ WorkEscalates(t) \/ WorkLosesWrite(t) \/ SplitFails(t)
  PROVE  IInv'
  <1> DEFINE Kept == TaskInv(rows'[t], work'[t], turn'[t], answers'[t], lost'[t])
  <1>1. /\ rows[t] \in Row /\ work[t] \in Drive
        /\ answers[t] \in Nat /\ lost[t] \in Nat /\ told[t] \subseteq Notices
        /\ TaskInv(rows[t], work[t], turn[t], answers[t], lost[t])
    BY TaskFacts
  <1>2. rows[t].attempts \in Nat  BY <1>1, RowFields
  <1>3. /\ Idle \in Drive /\ Idle.pc = "idle" /\ Idle.kids = {}
        /\ At("sent") \in Drive /\ At("sent").pc = "sent" /\ At("sent").kids = {}
        /\ At("run") \in Drive /\ At("run").pc = "run" /\ At("run").kids = {}
    BY IdleFacts, AtFacts DEF DrivePhases
  <1>4. CASE WorkBegins(t)
    <2>1. TypeOK'
      BY <1>1, <1>3, <1>4 DEF IInv, TypeOK, workFrame, WorkBegins, tableVars, historyVars
    <2>2. Kept
      BY <1>1, <1>2, <1>3, <1>4
      DEF IInv, TypeOK, workFrame, WorkBegins, tableVars, historyVars, TaskInv, Busy, Unanswered
    <2>3. t <= born  BY <1>4, DrivenIsBorn DEF WorkBegins
    <2> QED
      BY <1>3, <1>4, <2>1, <2>2, <2>3, OneTaskStep
      DEF IInv, TypeOK, workFrame, WorkBegins, tableVars, historyVars, Done
  <1>5. CASE WorkDelivers(t)
    <2>1. TypeOK'
      BY <1>1, <1>3, <1>5 DEF IInv, TypeOK, workFrame, WorkDelivers, SendAnswer
    <2>2. Kept
      BY <1>1, <1>2, <1>3, <1>5
      DEF IInv, TypeOK, workFrame, WorkDelivers, SendAnswer, TaskInv, Busy, Unanswered
    <2>3. t <= born  BY <1>5, DrivenIsBorn DEF WorkDelivers
    <2> QED
      BY <1>3, <1>5, <2>1, <2>2, <2>3, OneTaskStep
      DEF IInv, TypeOK, workFrame, WorkDelivers, SendAnswer, Done
  <1>6. CASE WorkRecords(t)
    <2>a. rows[t].status = "running" /\ work[t].pc = "sent"
      BY <1>1, <1>6 DEF WorkRecords, TaskInv, Busy
    <2>b. /\ rows' \in [Tasks -> Row]
          /\ \A v \in Tasks \ {t} : rows'[v] = rows[v]
          /\ rows'[t].status = "completed" /\ rows'[t].lease = NoLease
          /\ rows'[t].attempts = rows[t].attempts /\ rows'[t].deps = rows[t].deps
      BY <1>6, <2>a, RecordDeliveryFacts DEF WorkRecords
    <2>c. /\ UNCHANGED <<answers, lost, told, faults, born, loop, batch, turn>>
          /\ loop = "gather"
          /\ work' = [work EXCEPT ![t] = Idle]
      BY <1>6 DEF WorkRecords, RecordDelivery, workFrame
    <2>1. TypeOK'
      BY <1>3, <2>a, <2>b, <2>c DEF IInv, TypeOK
    <2>2. Kept
      BY <1>1, <1>2, <1>3, <2>a, <2>b, <2>c, StoreAssumption DEF IInv, TypeOK, TaskInv, Busy, Unanswered
    <2>3. t <= born  BY <1>6, DrivenIsBorn DEF WorkRecords
    <2> QED
      BY <2>1, <2>2, <2>3, <1>3, <2>a, <2>b, <2>c, OneTaskStep DEF IInv, TypeOK, Done
  <1>7. CASE WorkUnaddressed(t)
    <2>a. rows[t].status = "running" /\ work[t].pc = "run"
      BY <1>1, <1>7 DEF WorkUnaddressed, TaskInv, Busy
    <2>b. rows' = [rows EXCEPT ![t] = CompletedUnaddressed(rows[t])]
      BY <1>7, <2>a DEF WorkUnaddressed, Write, IInv, TypeOK
    <2>c. /\ rows' \in [Tasks -> Row]
          /\ \A v \in Tasks \ {t} : rows'[v] = rows[v]
          /\ rows'[t].status = "completed" /\ rows'[t].lease = NoLease
          /\ rows'[t].attempts = rows[t].attempts /\ rows'[t].deps = rows[t].deps
      BY <1>1, <2>b, UnaddressedFacts DEF IInv, TypeOK
    <2>d. /\ UNCHANGED <<answers, lost, told, faults, born, loop, batch, turn>>
          /\ loop = "gather"
          /\ work' = [work EXCEPT ![t] = Idle]
      BY <1>7 DEF WorkUnaddressed, workFrame, historyVars
    <2>1. TypeOK'
      BY <1>3, <2>a, <2>c, <2>d DEF IInv, TypeOK
    <2>2. Kept
      BY <1>1, <1>2, <1>3, <2>a, <2>c, <2>d, StoreAssumption DEF IInv, TypeOK, TaskInv, Busy, Unanswered
    <2>3. t <= born  BY <1>7, DrivenIsBorn DEF WorkUnaddressed
    <2> QED
      BY <2>1, <2>2, <2>3, <1>3, <2>a, <2>c, <2>d, OneTaskStep DEF IInv, TypeOK, Done
  <1>8. ASSUME NEW c \in FailureClasses, WorkFails(t, c)
       PROVE  IInv'
    <2>a. Failing(t, c) \in Drive /\ Failing(t, c).pc = "fail"
          /\ Failing(t, c).seen = rows[t].attempts /\ Failing(t, c).kids = {}
      BY FailingFacts
    <2>b. /\ UNCHANGED <<rows, answers, lost, told, faults, born, loop, batch, turn>>
          /\ loop = "gather"
          /\ work' = [work EXCEPT ![t] = Failing(t, c)]
          /\ work[t].pc = "run"
      BY <1>8 DEF WorkFails, workFrame, tableVars, historyVars
    <2>1. TypeOK'
      BY <2>a, <2>b DEF IInv, TypeOK
    <2>2. Kept
      BY <1>1, <1>2, <2>a, <2>b, StoreAssumption DEF IInv, TypeOK, TaskInv, Busy, Unanswered
    <2>3. t <= born  BY <1>8, DrivenIsBorn DEF WorkFails
    <2> QED
      BY <2>1, <2>2, <2>3, <2>a, <2>b, OneTaskStep DEF IInv, TypeOK, Done
  <1>9. CASE WorkRequeues(t)
    <2>a. rows[t].status = "running" /\ work[t].seen = rows[t].attempts
      BY <1>1, <1>9 DEF WorkRequeues, TaskInv, Busy
    <2>b. /\ rows' \in [Tasks -> Row]
          /\ \A v \in Tasks \ {t} : rows'[v] = rows[v]
          /\ rows'[t].lease = NoLease /\ rows'[t].deps = rows[t].deps
          /\ AfterFailure(t, work[t]) \in Drive /\ AfterFailure(t, work[t]).kids = {}
          /\ \/ /\ AfterFailure(t, work[t]).pc = "tell"
                /\ rows'[t].status = "dead_letter"
                /\ rows'[t].attempts = rows[t].attempts + 1
             \/ /\ AfterFailure(t, work[t]).pc = "idle"
                /\ rows'[t].status = "pending"
                /\ rows'[t].attempts = rows[t].attempts + 1
                /\ rows[t].attempts + 1 < MaxAttempts
      BY <1>1, <1>9, <2>a, RecordFailureFacts DEF WorkRequeues
    <2>c. /\ UNCHANGED <<answers, lost, told, faults, born, loop, batch, turn>>
          /\ loop = "gather"
          /\ work' = [work EXCEPT ![t] = AfterFailure(t, work[t])]
          /\ work[t].pc = "fail"
      BY <1>9 DEF WorkRequeues, RecordFailure, workFrame
    <2>1. TypeOK'
      BY <2>a, <2>b, <2>c DEF IInv, TypeOK
    <2>2. Kept
      BY <1>1, <1>2, <2>a, <2>b, <2>c, StoreAssumption DEF IInv, TypeOK, TaskInv, Busy, Unanswered
    <2>3. t <= born  BY <1>9, DrivenIsBorn DEF WorkRequeues
    <2> QED
      BY <2>1, <2>2, <2>3, <2>a, <2>b, <2>c, OneTaskStep DEF IInv, TypeOK, Done
  <1>10. CASE WorkEscalates(t)
    <2>0. told' \in [Tasks -> SUBSET Notices]
      BY <1>10, AnnouncedFacts DEF WorkEscalates, Escalate, Notices, IInv, TypeOK
    <2>1. TypeOK'
      BY <1>1, <1>3, <1>10, <2>0 DEF IInv, TypeOK, workFrame, WorkEscalates, Escalate
    <2>2. Kept
      BY <1>1, <1>2, <1>3, <1>10
      DEF IInv, TypeOK, workFrame, WorkEscalates, Escalate, TaskInv, Busy, Unanswered
    <2>3. t <= born  BY <1>10, DrivenIsBorn DEF WorkEscalates
    <2> QED
      BY <1>3, <1>10, <2>1, <2>2, <2>3, OneTaskStep
      DEF IInv, TypeOK, workFrame, WorkEscalates, Escalate, Done
  <1>11. CASE WorkLosesWrite(t)
    <2>1. TypeOK'
      BY <1>1, <1>3, <1>11 DEF IInv, TypeOK, workFrame, WorkLosesWrite, LoseWrite, Fault
    <2>2. Kept
      BY <1>1, <1>2, <1>3, <1>11
      DEF IInv, TypeOK, workFrame, WorkLosesWrite, LoseWrite, Fault, TaskInv, Busy, Unanswered
    <2>3. t <= born  BY <1>11, DrivenIsBorn DEF WorkLosesWrite, LoseWrite
    <2> QED
      BY <1>3, <1>11, <2>1, <2>2, <2>3, OneTaskStep
      DEF IInv, TypeOK, workFrame, WorkLosesWrite, LoseWrite, Fault, Done
  <1>12. CASE SplitFails(t)
    <2>1. TypeOK'
      BY <1>1, <1>3, <1>12 DEF IInv, TypeOK, workFrame, SplitFails, Fault, tableVars, historyVars
    <2>2. Kept
      BY <1>1, <1>2, <1>3, <1>12
      DEF IInv, TypeOK, workFrame, SplitFails, Fault, tableVars, historyVars, TaskInv, Busy, Unanswered
    <2>3. t <= born  BY <1>12, DrivenIsBorn DEF SplitFails
    <2> QED
      BY <1>3, <1>12, <2>1, <2>2, <2>3, OneTaskStep
      DEF IInv, TypeOK, workFrame, SplitFails, Fault, tableVars, historyVars, Done
  <1> QED
    BY <1>4, <1>5, <1>6, <1>7, <1>8, <1>9, <1>10, <1>11, <1>12

\* A step that inserts the next row keeps IInv: nobody depends on, drives or has
\* answered an id that has not been given out.
LEMMA InsertStep ==
  ASSUME IInv, TypeOK', EveryTask', NEW c \in Tasks, c = born + 1, born' = c,
         \A d \in rows'[c].deps : d <= born,
         loop = "claim" => rows'[c].deps = {},
         \A v \in Tasks \ {c} : rows'[v] = rows[v],
         \A v \in Tasks : /\ work'[v].pc # "idle" => work[v].pc # "idle"
                          /\ \A d \in work'[v].kids : d <= c
                          /\ v # c => turn'[v] = turn[v]
                          /\ loop = "gather" \/ work'[v] = work[v],
         answers' = answers, lost' = lost, loop' = loop, batch' = batch
  PROVE  IInv'
  <1>1. WorkOnlyInDispatch'  BY DEF IInv, WorkOnlyInDispatch
  <1>2. FreshIds'
    <2>1. born \in Int  BY DEF IInv, TypeOK
    <2>2. \A v \in Tasks : v > c =>
            /\ rows'[v].status = "absent"
            /\ work'[v].pc = "idle" /\ turn'[v].pc = "idle"
            /\ answers'[v] = 0 /\ lost'[v] = 0
      BY <2>1 DEF IInv, FreshIds, Tasks
    <2>3. \A v \in Tasks : \A d \in rows'[v].deps : d <= c
      <3> SUFFICES ASSUME NEW v \in Tasks, NEW d \in rows'[v].deps  PROVE d <= c
        OBVIOUS
      <3>1. d <= born  BY DEF IInv, FreshIds
      <3>2. d \in Int  BY RowFields DEF TypeOK, Tasks
      <3> QED  BY <2>1, <3>1, <3>2
    <2> QED  BY <2>2, <2>3 DEF FreshIds
  <1>3. DepsHeld'
    <2> SUFFICES ASSUME NEW v \in Tasks,
                        work'[v].pc # "idle" \/ (loop' = "claim" /\ v \in batch'),
                        NEW d \in rows'[v].deps
                 PROVE  Done(d)'
      BY DEF DepsHeld
    <2>1. work[c].pc = "idle"
      BY DEF IInv, TypeOK, FreshIds, Tasks
    <2>2. v # c  BY <2>1
    <2>3. d \in rows[v].deps  BY <2>2
    <2>4. d \in Tasks /\ d <= born
      BY <2>3, RowFields DEF IInv, TypeOK, FreshIds
    <2>5. d # c  BY <2>4 DEF IInv, TypeOK, Tasks
    <2>6. Done(d)  BY <2>3 DEF IInv, DepsHeld
    <2> QED  BY <2>4, <2>5, <2>6 DEF Done
  <1> QED  BY <1>1, <1>2, <1>3 DEF IInv

\* The two enqueues of a split, in the middle of the dispatch of t.
LEMMA SplitKeeps ==
  ASSUME IInv, NEW t \in Tasks, NEW c \in Tasks,
         \/ SplitFirst(t, c)
         \/ \E after \in SUBSET work[t].kids : SplitSecond(t, c, after)
  PROVE  IInv'
  <1>1. /\ rows[t] \in Row /\ work[t] \in Drive
        /\ TaskInv(rows[t], work[t], turn[t], answers[t], lost[t])
    BY TaskFacts
  <1>2. PICK after \in SUBSET work[t].kids, pc \in {"split", "link"} :
          /\ work[t].pc \in {"start", "split"}
          /\ c = born + 1 /\ born' = c
          /\ rows' = [rows EXCEPT ![c] = NewRow("pending", rows[t].destination, after, t)]
          /\ work' = [work EXCEPT ![t] = [At(pc) EXCEPT !.kids = work'[t].kids]]
          /\ work'[t].kids \subseteq work[t].kids \cup {c}
          /\ loop = "gather"
          /\ UNCHANGED <<loop, batch, turn, answers, lost, told, faults>>
    <2>1. "split" \in DrivePhases /\ "link" \in DrivePhases  BY DEF DrivePhases
    <2>2. work[t].kids \subseteq Tasks  BY <1>1 DEF Drive
    <2>3. CASE SplitFirst(t, c)
      <3>1. [At("split") EXCEPT !.kids = {c}].kids = {c}  BY <2>1, AtFacts
      <3>2. work'[t].kids = {c}
        BY <2>3, <3>1 DEF SplitFirst, IInv, TypeOK
      <3>3. {} \in SUBSET work[t].kids  OBVIOUS
      <3> QED  BY <2>3, <3>2, <3>3 DEF SplitFirst, workFrame, historyVars
    <2>4. ASSUME NEW after \in SUBSET work[t].kids, SplitSecond(t, c, after)
          PROVE  \E a \in SUBSET work[t].kids, pc \in {"split", "link"} :
                   /\ work[t].pc \in {"start", "split"}
                   /\ c = born + 1 /\ born' = c
                   /\ rows' = [rows EXCEPT ![c] = NewRow("pending", rows[t].destination, a, t)]
                   /\ work' = [work EXCEPT ![t] = [At(pc) EXCEPT !.kids = work'[t].kids]]
                   /\ work'[t].kids \subseteq work[t].kids \cup {c}
                   /\ loop = "gather"
                   /\ UNCHANGED <<loop, batch, turn, answers, lost, told, faults>>
      <3>1. [At("link") EXCEPT !.kids = work[t].kids \cup {c}].kids = work[t].kids \cup {c}
        BY <2>1, <2>2, AtFacts
      <3>2. work'[t].kids = work[t].kids \cup {c}
        BY <2>4, <3>1 DEF SplitSecond, IInv, TypeOK
      <3> QED  BY <2>4, <3>2 DEF SplitSecond, workFrame, historyVars
    <2> QED  BY <2>3, <2>4
  <1> DEFINE new == NewRow("pending", rows[t].destination, after, t)
             kids == work'[t].kids
             drive == [At(pc) EXCEPT !.kids = kids]
  <1>3. work[t].kids \subseteq Tasks /\ kids \subseteq Tasks
    BY <1>1, <1>2 DEF Drive
  <1>4. /\ new \in Row /\ new.status = "pending" /\ new.lease = NoLease
        /\ new.attempts = 0 /\ new.deps = after
    BY <1>1, <1>2, <1>3, NewRowFacts, WrittenConstants, RowFields
  <1>5. drive \in Drive /\ drive.pc = pc /\ drive.kids = kids
    <2>1. pc \in DrivePhases  BY DEF DrivePhases
    <2>2. kids \in SUBSET Tasks  BY <1>3
    <2> HIDE DEF kids
    <2> QED  BY <2>1, <2>2, AtFacts
  <1>6. TypeOK'
    <2>1. born' \in 0..MaxTask  BY <1>2 DEF Tasks
    <2> QED  BY <1>2, <1>4, <1>5, <2>1 DEF IInv, TypeOK
  <1>7. t <= born  BY <1>2, DrivenIsBorn
  <1>8. c # t  BY <1>2, <1>7 DEF IInv, TypeOK, Tasks
  <1>9. /\ rows[c].status = "absent" /\ work[c].pc = "idle" /\ turn[c].pc = "idle"
        /\ answers[c] = 0 /\ lost[c] = 0
    BY <1>2 DEF IInv, TypeOK, FreshIds, Tasks
  <1>10. EveryTask'
    <2> SUFFICES ASSUME NEW v \in Tasks
                 PROVE  TaskInv(rows'[v], work'[v], turn'[v], answers'[v], lost'[v])
      BY DEF EveryTask
    <2>1. TaskInv(rows[v], work[v], turn[v], answers[v], lost[v])
      BY DEF IInv, EveryTask
    <2>2. CASE v = c
      <3>1. rows'[v] = new /\ work'[v] = work[v] /\ turn'[v] = turn[v]
            /\ answers'[v] = 0 /\ lost'[v] = 0
        BY <1>2, <1>8, <1>9, <2>2 DEF IInv, TypeOK
      <3> QED  BY <1>4, <1>9, <2>2, <3>1, StoreAssumption DEF TaskInv, Busy, Unanswered
    <2>3. CASE v = t
      <3>1. rows'[v] = rows[v] /\ work'[v] = drive /\ turn'[v] = turn[v]
            /\ answers'[v] = answers[v] /\ lost'[v] = lost[v]
        BY <1>2, <1>8, <2>3 DEF IInv, TypeOK
      <3> QED  BY <1>2, <1>5, <2>1, <2>3, <3>1 DEF TaskInv, Busy, Unanswered
    <2>4. CASE v # c /\ v # t
      BY <1>2, <2>1, <2>4 DEF IInv, TypeOK
    <2> QED  BY <2>2, <2>3, <2>4
  <1>11. \A d \in rows'[c].deps : d <= born
    BY <1>2, <1>4 DEF IInv, TypeOK, FreshIds
  <1>12. \A v \in Tasks : /\ work'[v].pc # "idle" => work[v].pc # "idle"
                          /\ \A d \in work'[v].kids : d <= c
    <2>1. born \in Int /\ c \in Int /\ c <= c  BY DEF IInv, TypeOK, Tasks
    <2>2. \A v \in Tasks : \A d \in work[v].kids : d \in Int /\ d <= born
      BY TaskFacts DEF IInv, TypeOK, FreshIds, Drive, Tasks
    <2> QED  BY <1>2, <2>1, <2>2 DEF IInv, TypeOK
  <1> QED  BY <1>2, <1>6, <1>10, <1>11, <1>12, InsertStep DEF IInv, TypeOK

\* set_dependencies: the parent is no longer driven, and waits for rows that exist.
LEMMA LinkKeeps ==
  ASSUME IInv, NEW t \in Tasks, LinkChildren(t)
  PROVE  IInv'
  <1>1. /\ rows[t] \in Row /\ work[t] \in Drive
        /\ TaskInv(rows[t], work[t], turn[t], answers[t], lost[t])
    BY TaskFacts
  <1>2. work[t].kids \in SUBSET Tasks  BY <1>1 DEF Drive
  <1>3. rows[t].status = "running" /\ work[t].pc = "link"
    BY <1>1 DEF LinkChildren, TaskInv, Busy
  <1>4. /\ rows' = [rows EXCEPT ![t] = Waiting(rows[t], work[t].kids)]
        /\ work' = [work EXCEPT ![t] = Idle]
        /\ UNCHANGED <<loop, batch, turn, born, answers, lost, told, faults>>
        /\ loop = "gather"
    BY <1>3 DEF LinkChildren, Write, workFrame, historyVars, IInv, TypeOK
  <1>5. /\ Waiting(rows[t], work[t].kids) \in Row
        /\ Waiting(rows[t], work[t].kids).status = rows[t].status
        /\ Waiting(rows[t], work[t].kids).lease = rows[t].lease
        /\ Waiting(rows[t], work[t].kids).attempts = rows[t].attempts
        /\ Waiting(rows[t], work[t].kids).deps = work[t].kids
    BY <1>1, <1>2, WaitingFacts
  <1>6. Idle \in Drive /\ Idle.pc = "idle" /\ Idle.kids = {}  BY IdleFacts
  <1>7. TypeOK'  BY <1>4, <1>5, <1>6 DEF IInv, TypeOK
  <1>8. /\ rows'[t] = Waiting(rows[t], work[t].kids) /\ work'[t] = Idle
        /\ \A v \in Tasks \ {t} : rows'[v] = rows[v] /\ work'[v] = work[v]
    BY <1>4 DEF IInv, TypeOK
  <1>9. EveryTask'
    <2>1. TaskInv(rows'[t], work'[t], turn'[t], answers'[t], lost'[t])
      BY <1>1, <1>3, <1>4, <1>5, <1>6, <1>8 DEF TaskInv, Busy, Unanswered
    <2> QED  BY <1>4, <1>8, <2>1 DEF IInv, EveryTask
  <1>10. WorkOnlyInDispatch'  BY <1>4 DEF WorkOnlyInDispatch
  <1>11. FreshIds'
    <2>1. t <= born  BY <1>3, DrivenIsBorn
    <2>2. \A v \in Tasks : v > born => v # t
      BY <2>1 DEF IInv, TypeOK, Tasks
    <2> QED  BY <1>4, <1>5, <1>6, <1>8, <2>2 DEF IInv, FreshIds
  <1>12. DepsHeld'
    <2> SUFFICES ASSUME NEW v \in Tasks, work'[v].pc # "idle", NEW d \in rows'[v].deps
                 PROVE  Done(d)'
      BY <1>4 DEF DepsHeld
    <2>1. v # t  BY <1>6, <1>8
    <2>2. Done(d) /\ d \in Tasks
      BY <1>8, <2>1, RowFields DEF IInv, TypeOK, DepsHeld
    <2> QED  BY <1>5, <1>8, <2>2 DEF Done
  <1> QED  BY <1>7, <1>9, <1>10, <1>11, <1>12 DEF IInv

(***************************************************************************)
(* Ingress.                                                                *)
(***************************************************************************)
\* A new row, with the chat turn that answers it if there is one.
LEMMA IngressKeeps ==
  ASSUME IInv, NEW c \in Tasks, NEW d \in Inbound,
         TurnArrives(c, d) \/ TaskEnqueued(c, d)
  PROVE  IInv'
  <1> DEFINE new(st) == NewRow(st, d, {}, NoParent)
  <1>1. d \in Destinations  BY LoopAssumption
  <1>2. \A st \in {"pending", "running"} :
          /\ new(st) \in Row /\ new(st).status = st /\ new(st).lease = NoLease
          /\ new(st).attempts = 0 /\ new(st).deps = {}
    BY <1>1, NewRowFacts, WrittenConstants
  <1>3. At("run") \in Drive /\ At("run").pc = "run"
    BY AtFacts DEF DrivePhases
  <1>4. PICK st \in {"pending", "running"} :
          /\ c = born + 1 /\ born' = c
          /\ rows' = [rows EXCEPT ![c] = new(st)]
          /\ turn' = IF st = "running" THEN [turn EXCEPT ![c] = At("run")] ELSE turn
          /\ UNCHANGED <<loop, batch, work, answers, lost, told, faults>>
    BY DEF TurnArrives, TaskEnqueued
  <1>5. TypeOK'
    <2>1. born' \in 0..MaxTask  BY <1>4 DEF Tasks
    <2>2. rows' \in [Tasks -> Row]  BY <1>2, <1>4 DEF IInv, TypeOK
    <2>3. turn' \in [Tasks -> Drive]  BY <1>3, <1>4 DEF IInv, TypeOK
    <2> QED  BY <1>4, <2>1, <2>2, <2>3 DEF IInv, TypeOK
  <1>6. /\ work[c].pc = "idle" /\ turn[c].pc = "idle"
        /\ answers[c] = 0 /\ lost[c] = 0
    BY <1>4 DEF IInv, TypeOK, FreshIds, Tasks
  <1>7. /\ rows'[c] = new(st)
        /\ turn'[c].pc = IF st = "running" THEN "run" ELSE "idle"
        /\ \A v \in Tasks \ {c} : rows'[v] = rows[v] /\ turn'[v] = turn[v]
    BY <1>3, <1>4, <1>6 DEF IInv, TypeOK
  <1>8. EveryTask'
    <2>1. TaskInv(rows'[c], work'[c], turn'[c], answers'[c], lost'[c])
      BY <1>2, <1>4, <1>6, <1>7, StoreAssumption DEF TaskInv, Busy, Unanswered
    <2> QED  BY <1>4, <1>7, <2>1 DEF IInv, EveryTask
  <1>9. \A v \in Tasks : \A k \in work'[v].kids : k <= c
    <2>1. born \in Int /\ c = born + 1  BY <1>4 DEF IInv, TypeOK
    <2>2. \A v \in Tasks : \A k \in work[v].kids : k \in Int /\ k <= born
      <3>1. work \in [Tasks -> Drive]  BY DEF IInv, TypeOK
      <3>2. \A v \in Tasks : work[v].kids \subseteq Tasks  BY <3>1 DEF Drive
      <3>3. \A v \in Tasks : \A k \in work[v].kids : k <= born  BY DEF IInv, FreshIds
      <3> QED  BY <3>2, <3>3, TaskFacts DEF Tasks
    <2> QED  BY <1>4, <2>1, <2>2
  <1> QED  BY <1>2, <1>4, <1>5, <1>7, <1>8, <1>9, InsertStep

(***************************************************************************)
(* The tick, time and the death of the process.                            *)
(***************************************************************************)
\* A step that rewrites rows in bulk and leaves every drive as it is.
LEMMA BulkStep ==
  ASSUME IInv, rows' \in [Tasks -> Row],
         UNCHANGED <<born, work, turn, answers, lost>>,
         loop' \in LoopPhases, batch' \subseteq Tasks,
         told' \in [Tasks -> SUBSET Notices], faults' \in Nat,
         \A v \in Tasks :
           /\ rows'[v].deps \subseteq rows[v].deps
           /\ Done(v) => Done(v)'
           /\ v > born => rows'[v].status = "absent"
           /\ TaskInv(rows'[v], work[v], turn[v], answers[v], lost[v]),
         loop' = "claim" => loop = "claim" /\ batch' \subseteq batch,
         loop' \in {"claim", "gather"} \/ \A v \in Tasks : work[v].pc = "idle"
  PROVE  IInv'
  <1>1. TypeOK'  BY DEF IInv, TypeOK
  <1>2. EveryTask'  BY DEF EveryTask
  <1>3. WorkOnlyInDispatch'  BY DEF IInv, WorkOnlyInDispatch
  <1>4. \A v \in Tasks : v > born =>
          /\ work'[v].pc = "idle" /\ turn'[v].pc = "idle"
          /\ answers'[v] = 0 /\ lost'[v] = 0
    BY DEF IInv, FreshIds
  <1> QED  BY <1>1, <1>2, <1>3, <1>4, QuietStep

\* LoopStart: a revived row was failed, so nobody drives it.
LEMMA LoopStartKeeps == ASSUME IInv, LoopStart PROVE IInv'
  <1>1. \A v \in Tasks :
          /\ rows[v] \in Row
          /\ TaskInv(rows[v], work[v], turn[v], answers[v], lost[v])
          /\ rows'[v] = IF Stranded(rows[v]) THEN Revived(rows[v]) ELSE rows[v]
    BY TaskFacts DEF LoopStart
  <1>2. \A v \in Tasks :
          /\ rows'[v] \in Row /\ rows'[v].deps \subseteq rows[v].deps
          /\ Done(v) => Done(v)'
          /\ v > born => rows'[v].status = "absent"
          /\ TaskInv(rows'[v], work[v], turn[v], answers[v], lost[v])
    <2> SUFFICES ASSUME NEW v \in Tasks
                 PROVE  /\ rows'[v] \in Row /\ rows'[v].deps \subseteq rows[v].deps
                        /\ Done(v) => Done(v)'
                        /\ v > born => rows'[v].status = "absent"
                        /\ TaskInv(rows'[v], work[v], turn[v], answers[v], lost[v])
      OBVIOUS
    <2>1. v > born => rows[v].status = "absent"  BY DEF IInv, FreshIds
    <2>2. CASE Stranded(rows[v])
      BY <1>1, <2>1, <2>2, RevivedFacts DEF Stranded, TaskInv, Busy, Unanswered, Done
    <2>3. CASE ~Stranded(rows[v])
      BY <1>1, <2>1, <2>3 DEF Done
    <2> QED  BY <2>2, <2>3
  <1>3. rows' \in [Tasks -> Row]  BY <1>2 DEF LoopStart
  <1> QED
    BY <1>2, <1>3, BulkStep
    DEF IInv, TypeOK, WorkOnlyInDispatch, LoopStart, tickFrame, LoopPhases

\* ReclaimExpired: the row has a lease, so no chat turn holds it, and no dispatch
\* is in flight at this point of the tick.
LEMMA ReclaimKeeps == ASSUME IInv, ReclaimExpired PROVE IInv'
  <1>1. \A v \in Tasks :
          /\ rows[v] \in Row /\ rows[v].attempts \in Nat
          /\ TaskInv(rows[v], work[v], turn[v], answers[v], lost[v])
          /\ work[v].pc = "idle"
          /\ rows'[v] = IF LeaseExpired(rows[v]) THEN Reclaimed(rows[v]) ELSE rows[v]
    BY TaskFacts, RowFields DEF ReclaimExpired, IInv, WorkOnlyInDispatch
  <1>2. \A v \in Tasks :
          /\ rows'[v] \in Row /\ rows'[v].deps \subseteq rows[v].deps
          /\ Done(v) => Done(v)'
          /\ v > born => rows'[v].status = "absent"
          /\ TaskInv(rows'[v], work[v], turn[v], answers[v], lost[v])
    <2> SUFFICES ASSUME NEW v \in Tasks
                 PROVE  /\ rows'[v] \in Row /\ rows'[v].deps \subseteq rows[v].deps
                        /\ Done(v) => Done(v)'
                        /\ v > born => rows'[v].status = "absent"
                        /\ TaskInv(rows'[v], work[v], turn[v], answers[v], lost[v])
      OBVIOUS
    <2>1. v > born => rows[v].status = "absent"  BY DEF IInv, FreshIds
    <2>2. CASE LeaseExpired(rows[v])
      <3>1. rows[v].status = "running" /\ rows[v].lease # NoLease
        BY <2>2 DEF LeaseExpired, NoLease
      <3> QED
        BY <1>1, <2>1, <2>2, <3>1, ReclaimedFacts, StoreAssumption
        DEF TaskInv, Busy, Unanswered, Done
    <2>3. CASE ~LeaseExpired(rows[v])
      BY <1>1, <2>1, <2>3 DEF Done
    <2> QED  BY <2>2, <2>3
  <1>3. rows' \in [Tasks -> Row]  BY <1>2 DEF ReclaimExpired
  <1> QED
    BY <1>1, <1>2, <1>3, BulkStep
    DEF IInv, TypeOK, ReclaimExpired, tickFrame, LoopPhases

\* Select: what it puts in the batch has its dependencies delivered, and the
\* cascade hits only pending rows, which nobody drives.
LEMMA SelectKeeps == ASSUME IInv, Select PROVE IInv'
  <1> DEFINE hit(v) == v \in Window /\ DepFailed(rows, v)
  <1>1. \A v \in Tasks :
          /\ rows[v] \in Row
          /\ TaskInv(rows[v], work[v], turn[v], answers[v], lost[v])
          /\ work[v].pc = "idle"
          /\ rows'[v] = IF hit(v) THEN DependencyFailed(rows[v]) ELSE rows[v]
    BY TaskFacts DEF Select, IInv, WorkOnlyInDispatch
  <1>2. \A v \in Tasks : v \in Window => rows[v].status = "pending"
    BY DEF Window, Claimable
  <1>3. \A v \in Tasks :
          /\ rows'[v] \in Row /\ rows'[v].deps = rows[v].deps
          /\ Done(v) => Done(v)'
          /\ v > born => rows'[v].status = "absent"
          /\ TaskInv(rows'[v], work[v], turn[v], answers[v], lost[v])
    <2> SUFFICES ASSUME NEW v \in Tasks
                 PROVE  /\ rows'[v] \in Row /\ rows'[v].deps = rows[v].deps
                        /\ Done(v) => Done(v)'
                        /\ v > born => rows'[v].status = "absent"
                        /\ TaskInv(rows'[v], work[v], turn[v], answers[v], lost[v])
      OBVIOUS
    <2>1. v > born => rows[v].status = "absent"  BY DEF IInv, FreshIds
    <2>2. CASE hit(v)
      BY <1>1, <1>2, <2>1, <2>2, CascadeFacts DEF TaskInv, Busy, Unanswered, Done
    <2>3. CASE ~hit(v)
      BY <1>1, <2>1, <2>3 DEF Done
    <2> QED  BY <2>2, <2>3
  <1>4. TypeOK'
    <2>1. rows' \in [Tasks -> Row]  BY <1>3 DEF Select
    <2>2. batch' \subseteq Tasks  BY DEF Select, Window
    <2> QED  BY <2>1, <2>2 DEF Select, tickFrame, IInv, TypeOK, LoopPhases
  <1>5. EveryTask'  BY <1>3 DEF EveryTask, Select, tickFrame
  <1>6. WorkOnlyInDispatch'  BY <1>1 DEF WorkOnlyInDispatch, Select, tickFrame
  <1>7. FreshIds'  BY <1>3 DEF IInv, FreshIds, Select, tickFrame
  <1>8. DepsHeld'
    <2> SUFFICES ASSUME NEW v \in Tasks, work'[v].pc # "idle" \/ v \in batch',
                        NEW d \in rows'[v].deps
                 PROVE  Done(d)'
      BY DEF DepsHeld
    <2>1. DepsDone(rows, v)  BY <1>1 DEF Select, tickFrame
    <2>2. d \in rows[v].deps /\ d \in Tasks  BY <1>1, <1>3, RowFields
    <2>3. Done(d)  BY <2>1, <2>2 DEF DepsDone, Done
    <2> QED  BY <1>3, <2>2, <2>3
  <1> QED  BY <1>4, <1>5, <1>6, <1>7, <1>8 DEF IInv

\* Claim: the row was pending, so nobody drives it.
LEMMA ClaimKeeps == ASSUME IInv, NEW t \in Tasks, Claim(t) PROVE IInv'
  <1>1. /\ rows[t] \in Row
        /\ TaskInv(rows[t], work[t], turn[t], answers[t], lost[t])
    BY TaskFacts
  <1>2. CASE rows[t].status # "pending"
    BY <1>2, BulkStep
    DEF Claim, tickFrame, IInv, TypeOK, LoopPhases, EveryTask, FreshIds, Done
  <1>3. CASE rows[t].status = "pending"
    <2>1. /\ rows' = [rows EXCEPT ![t] = Claimed(rows[t])]
          /\ work' = [work EXCEPT ![t] = At("start")]
          /\ batch' = batch \ {t} /\ t \in batch
          /\ loop = "claim"
          /\ UNCHANGED <<loop, born, turn, answers, lost, told, faults>>
      BY <1>3 DEF Claim, tickFrame, IInv, TypeOK
    <2>2. At("start") \in Drive /\ At("start").pc = "start" /\ At("start").kids = {}
      BY AtFacts DEF DrivePhases
    <2>3. /\ Claimed(rows[t]) \in Row
          /\ Claimed(rows[t]).status = "running"
          /\ Claimed(rows[t]).lease # NoLease
          /\ Claimed(rows[t]).attempts = rows[t].attempts
          /\ Claimed(rows[t]).deps = rows[t].deps
      BY <1>1, ClaimedFacts, WrittenConstants
    <2>4. TypeOK'  BY <2>1, <2>2, <2>3 DEF IInv, TypeOK
    <2>5. /\ rows'[t] = Claimed(rows[t]) /\ work'[t] = At("start")
          /\ \A v \in Tasks \ {t} : rows'[v] = rows[v] /\ work'[v] = work[v]
      BY <2>1 DEF IInv, TypeOK
    <2>6. TaskInv(rows'[t], work'[t], turn'[t], answers'[t], lost'[t])
      BY <1>1, <1>3, <2>1, <2>2, <2>3, <2>5 DEF TaskInv, Busy, Unanswered
    <2>7. EveryTask'  BY <2>1, <2>5, <2>6 DEF IInv, EveryTask
    <2>8. WorkOnlyInDispatch'  BY <2>1, <2>2, <2>5 DEF IInv, WorkOnlyInDispatch
    <2>9. \A v \in Tasks : v > born => v # t
      BY <1>3 DEF IInv, FreshIds
    <2>10. \A v \in Tasks :
             /\ rows'[v].deps \subseteq rows[v].deps
             /\ work'[v].kids \subseteq work[v].kids
             /\ Done(v) => Done(v)'
      BY <1>3, <2>2, <2>3, <2>5 DEF Done
    <2>11. \A v \in Tasks :
             /\ (work'[v].pc # "idle" \/ (loop' = "claim" /\ v \in batch')) =>
                  (work[v].pc # "idle" \/ (loop = "claim" /\ v \in batch))
             /\ v > born => /\ rows'[v].status = "absent"
                            /\ work'[v].pc = "idle" /\ turn'[v].pc = "idle"
                            /\ answers'[v] = 0 /\ lost'[v] = 0
      BY <2>1, <2>5, <2>9 DEF IInv, FreshIds
    <2> QED  BY <2>1, <2>4, <2>7, <2>8, <2>10, <2>11, QuietStep
  <1> QED  BY <1>2, <1>3

\* PruneCompleted: a pruned row was delivered, so nobody drives it.
LEMMA PruneKeeps == ASSUME IInv, PruneCompleted PROVE IInv'
  <1>1. \A v \in Tasks :
          /\ rows[v] \in Row
          /\ TaskInv(rows[v], work[v], turn[v], answers[v], lost[v])
          /\ work[v].pc = "idle"
          /\ rows'[v] = IF Prunable(rows[v]) THEN NoRow ELSE rows[v]
    BY TaskFacts DEF PruneCompleted, IInv, WorkOnlyInDispatch
  <1>2. \A v \in Tasks :
          /\ rows'[v] \in Row /\ rows'[v].deps \subseteq rows[v].deps
          /\ Done(v) => Done(v)'
          /\ v > born => rows'[v].status = "absent"
          /\ TaskInv(rows'[v], work[v], turn[v], answers[v], lost[v])
    <2> SUFFICES ASSUME NEW v \in Tasks
                 PROVE  /\ rows'[v] \in Row /\ rows'[v].deps \subseteq rows[v].deps
                        /\ Done(v) => Done(v)'
                        /\ v > born => rows'[v].status = "absent"
                        /\ TaskInv(rows'[v], work[v], turn[v], answers[v], lost[v])
      OBVIOUS
    <2>1. v > born => rows[v].status = "absent"  BY DEF IInv, FreshIds
    <2>2. CASE Prunable(rows[v])
      BY <1>1, <2>1, <2>2, NoRowFacts, StoreAssumption
      DEF Prunable, TaskInv, Busy, Unanswered, Done
    <2>3. CASE ~Prunable(rows[v])
      BY <1>1, <2>1, <2>3 DEF Done
    <2> QED  BY <2>2, <2>3
  <1>3. rows' \in [Tasks -> Row]  BY <1>2 DEF PruneCompleted
  <1> QED
    BY <1>1, <1>2, <1>3, BulkStep
    DEF IInv, TypeOK, PruneCompleted, tickFrame, LoopPhases

\* The acknowledgement, the end of a backoff and the passage of time change no
\* status, no attempt count, and not whether a row has a lease.
LEMMA SameStatusKeeps ==
  ASSUME IInv,
         \/ \E t \in Tasks : ResolveAck(t) \/ BackoffElapses(t)
         \/ TimePasses
  PROVE  IInv'
  <1>1. \A v \in Tasks :
          /\ rows[v] \in Row /\ rows[v].lease \in Int
          /\ TaskInv(rows[v], work[v], turn[v], answers[v], lost[v])
    BY TaskFacts, RowFields
  <1>2. \A v \in Tasks :
          /\ rows'[v] \in Row
          /\ rows'[v].status = rows[v].status /\ rows'[v].deps = rows[v].deps
          /\ rows'[v].attempts = rows[v].attempts
          /\ rows'[v].lease = NoLease <=> rows[v].lease = NoLease
    <2>1. CASE \E t \in Tasks : ResolveAck(t)
      BY <1>1, <2>1, SameStatusFacts DEF ResolveAck, Write, IInv, TypeOK
    <2>2. CASE \E t \in Tasks : BackoffElapses(t)
      BY <1>1, <2>2, SameStatusFacts DEF BackoffElapses, IInv, TypeOK
    <2>3. CASE TimePasses
      BY <1>1, <2>3, OlderFacts DEF TimePasses
    <2> QED  BY <2>1, <2>2, <2>3
  <1>3. rows' \in [Tasks -> Row]
    BY <1>2 DEF ResolveAck, BackoffElapses, TimePasses, IInv, TypeOK
  <1>4. \A v \in Tasks :
          /\ Done(v) => Done(v)'
          /\ v > born => rows'[v].status = "absent"
          /\ TaskInv(rows'[v], work[v], turn[v], answers[v], lost[v])
    BY <1>1, <1>2 DEF TaskInv, Done, IInv, FreshIds
  <1>5. /\ UNCHANGED <<born, work, turn, answers, lost, told, faults>>
        /\ batch' \subseteq batch
        /\ \/ loop' = loop
           \/ loop = "ack" /\ loop' = "resolve"
    BY DEF ResolveAck, BackoffElapses, TimePasses, tickFrame, historyVars
  <1> QED
    BY <1>2, <1>3, <1>4, <1>5, BulkStep DEF IInv, TypeOK, WorkOnlyInDispatch, LoopPhases

\* The steps of the tick that only move it on.
LEMMA TickMovesKeep ==
  ASSUME IInv,
         \/ StartsUnrevived \/ ClaimsDone \/ Gathered \/ ListUnannounced \/ TickEnds
         \/ \E t \in Tasks : ResolveTell(t) \/ ResolveFails(t)
  PROVE  IInv'
  <1>1. /\ UNCHANGED <<rows, born, work, turn, answers, lost>>
        /\ batch' \subseteq Tasks
        /\ told' \in [Tasks -> SUBSET Notices] /\ faults' \in Nat
        /\ loop' \in LoopPhases /\ loop' # "claim"
        /\ loop' = "gather" \/ \A v \in Tasks : work[v].pc = "idle"
    <2> USE DEF IInv, TypeOK, WorkOnlyInDispatch, LoopPhases, tickFrame, Fault,
                tableVars, historyVars
    <2>1. CASE StartsUnrevived  BY <2>1 DEF StartsUnrevived
    <2>2. CASE ClaimsDone  BY <2>2 DEF ClaimsDone
    <2>3. CASE Gathered  BY <2>3 DEF Gathered
    <2>4. CASE ListUnannounced  BY <2>4 DEF ListUnannounced
    <2>5. CASE TickEnds  BY <2>5 DEF TickEnds
    <2>6. CASE \E t \in Tasks : ResolveTell(t)
      <3>1. told' \in [Tasks -> SUBSET Notices]
        BY <2>6, AnnouncedFacts DEF ResolveTell
      <3> QED  BY <2>6, <3>1 DEF ResolveTell
    <2>7. CASE \E t \in Tasks : ResolveFails(t)  BY <2>7 DEF ResolveFails
    <2> QED  BY <2>1, <2>2, <2>3, <2>4, <2>5, <2>6, <2>7
  <1> QED  BY <1>1, BulkStep DEF IInv, TypeOK, EveryTask, FreshIds, Done

\* A failed tick or the death of the process drops the drives in flight; a row
\* whose answer was out keeps no proof of it.
LEMMA DropsKeep == ASSUME IInv, TickFails \/ Crash PROVE IInv'
  <1>1. \A v \in Tasks :
          /\ rows[v] \in Row /\ answers[v] \in Nat /\ lost[v] \in Nat
          /\ TaskInv(rows[v], work[v], turn[v], answers[v], lost[v])
    BY TaskFacts
  <1>2. Idle \in Drive /\ Idle.pc = "idle" /\ Idle.kids = {}  BY IdleFacts
  <1>3. /\ UNCHANGED <<rows, born, answers, told>>
        /\ faults' \in Nat
        /\ work' = [v \in Tasks |-> Idle]
        /\ batch' = {}
        /\ loop' \in {"off", "reclaim"}
    BY DEF TickFails, Crash, Fault, tableVars, historyVars, IInv, TypeOK
  <1>4. \A v \in Tasks :
          \/ /\ turn'[v] = turn[v] /\ lost'[v] = lost[v]
             /\ work[v].pc # "sent"
          \/ /\ turn'[v] = Idle
             /\ lost'[v] = IF work[v].pc = "sent" \/ turn[v].pc = "sent"
                           THEN lost[v] + 1 ELSE lost[v]
    <2>1. CASE Crash  BY <2>1 DEF Crash
    <2>2. CASE TickFails
      BY <2>2 DEF TickFails, historyVars, IInv, WorkOnlyInDispatch
    <2> QED  BY <2>1, <2>2
  <1>5. turn' \in [Tasks -> Drive] /\ lost' \in [Tasks -> Nat]
    BY <1>1, <1>2 DEF TickFails, Crash, historyVars, IInv, TypeOK
  <1>6. TypeOK'  BY <1>2, <1>3, <1>5 DEF IInv, TypeOK, LoopPhases
  <1>7. EveryTask'
    <2> SUFFICES ASSUME NEW v \in Tasks
                 PROVE  TaskInv(rows'[v], work'[v], turn'[v], answers'[v], lost'[v])
      BY DEF EveryTask
    <2>1. rows'[v] = rows[v] /\ answers'[v] = answers[v] /\ work'[v] = Idle
      BY <1>3
    <2> QED  BY <1>1, <1>2, <1>4, <2>1 DEF TaskInv, Busy, Unanswered
  <1>8. WorkOnlyInDispatch'  BY <1>2, <1>3 DEF WorkOnlyInDispatch
  <1>9. \A v \in Tasks :
          /\ rows'[v].deps \subseteq rows[v].deps
          /\ work'[v].kids \subseteq work[v].kids
          /\ Done(v) => Done(v)'
          /\ ~(work'[v].pc # "idle" \/ (loop' = "claim" /\ v \in batch'))
    BY <1>2, <1>3 DEF Done
  <1>10. \A v \in Tasks : v > born =>
          /\ rows'[v].status = "absent"
          /\ work'[v].pc = "idle" /\ turn'[v].pc = "idle"
          /\ answers'[v] = 0 /\ lost'[v] = 0
    BY <1>2, <1>3, <1>4 DEF IInv, FreshIds
  <1> QED  BY <1>3, <1>6, <1>7, <1>8, <1>9, <1>10, QuietStep

(***************************************************************************)
(* The invariant, and what follows from it.                                *)
(***************************************************************************)
\* The boot state: nobody drives anything, and a row an earlier release left
\* behind is failed and unanswered.
LEMMA InitInv == Init => IInv
  <1> SUFFICES ASSUME Init PROVE IInv  OBVIOUS
  <1>1. PICK d \in Inbound :
          rows = [t \in Tasks |-> IF t <= born THEN NewRow("failed", d, {}, NoParent)
                                               ELSE NoRow]
    BY DEF Init
  <1>2. "failed" \in Statuses /\ d \in Destinations /\ {} \in SUBSET Tasks
        /\ NoParent \in NoParent..MaxTask
    BY LoopAssumption, WrittenConstants DEF Statuses
  <1> DEFINE old == NewRow("failed", d, {}, NoParent)
  <1>3. /\ old \in Row
        /\ old.status = "failed" /\ old.lease = NoLease /\ old.attempts = 0 /\ old.deps = {}
    BY <1>2, NewRowFacts
  <1>4. \A t \in Tasks : rows[t] = IF t <= born THEN old ELSE NoRow  BY <1>1
  <1> HIDE DEF old
  <1>5. \A t \in Tasks :
          /\ work[t] = Idle /\ turn[t] = Idle /\ answers[t] = 0 /\ lost[t] = 0
    BY DEF Init
  <1>6. TypeOK
    <2>1. rows \in [Tasks -> Row]  BY <1>1, <1>3, NoRowFacts DEF old
    <2>2. born \in 0..MaxTask  BY StoreAssumption DEF Init
    <2>3. /\ work \in [Tasks -> Drive] /\ turn \in [Tasks -> Drive]
          /\ answers \in [Tasks -> Nat] /\ lost \in [Tasks -> Nat]
          /\ told \in [Tasks -> SUBSET Notices] /\ faults \in Nat
          /\ loop \in LoopPhases /\ batch \subseteq Tasks
      BY IdleFacts DEF Init, LoopPhases
    <2> QED  BY <2>1, <2>2, <2>3 DEF TypeOK
  <1>7. EveryTask
    BY <1>3, <1>4, <1>5, NoRowFacts, IdleFacts, StoreAssumption
    DEF EveryTask, TaskInv, Busy, Unanswered
  <1>8. WorkOnlyInDispatch  BY <1>5, IdleFacts DEF WorkOnlyInDispatch
  <1>9. FreshIds
    <2>1. \A t \in Tasks : rows[t].deps = {} /\ work[t].kids = {}
      BY <1>3, <1>4, <1>5, NoRowFacts, IdleFacts
    <2>2. \A t \in Tasks : t > born => rows[t].status = "absent"
      BY <1>4, NoRowFacts DEF Init, Tasks
    <2> QED  BY <1>5, <2>1, <2>2, IdleFacts DEF FreshIds
  <1>10. DepsHeld  BY <1>3, <1>4, NoRowFacts DEF DepsHeld
  <1> QED  BY <1>6, <1>7, <1>8, <1>9, <1>10 DEF IInv

LEMMA TickStepKeeps == ASSUME IInv, TickStep PROVE IInv'
  <1>1. CASE LoopStart  BY <1>1, LoopStartKeeps
  <1>2. CASE ReclaimExpired  BY <1>2, ReclaimKeeps
  <1>3. CASE Select  BY <1>3, SelectKeeps
  <1>4. CASE ClaimsDone \/ Gathered \/ ListUnannounced \/ TickEnds
    BY <1>4, TickMovesKeep
  <1>5. CASE PruneCompleted  BY <1>5, PruneKeeps
  <1>6. CASE \E t \in Tasks : Claim(t)  BY <1>6, ClaimKeeps
  <1>7. CASE \E t \in Tasks : ResolveTell(t)  BY <1>7, TickMovesKeep
  <1>8. CASE \E t \in Tasks : ResolveAck(t)  BY <1>8, SameStatusKeeps
  <1> QED  BY <1>1, <1>2, <1>3, <1>4, <1>5, <1>6, <1>7, <1>8 DEF TickStep

LEMMA NextKeeps == IInv /\ [Next]_vars => IInv'
  <1> SUFFICES ASSUME IInv, [Next]_vars PROVE IInv'  OBVIOUS
  <1>1. CASE TickStep  BY <1>1, TickStepKeeps
  <1>2. CASE StartsUnrevived  BY <1>2, TickMovesKeep
  <1>3. CASE TickFails \/ Crash  BY <1>3, DropsKeep
  <1>4. CASE TimePasses  BY <1>4, SameStatusKeeps
  <1>5. ASSUME NEW t \in Tasks, NEW d \in Inbound, TurnArrives(t, d) \/ TaskEnqueued(t, d)
        PROVE  IInv'
    BY <1>5, IngressKeeps
  <1>6. ASSUME NEW t \in Tasks, TurnStep(t) \/ TurnLosesWrite(t) PROVE IInv'
    BY <1>6, TurnStepKeeps
  <1>7. ASSUME NEW t \in Tasks, WorkStep(t) PROVE IInv'
    <2>1. CASE LinkChildren(t)  BY <2>1, LinkKeeps
    <2>2. CASE \E c \in Tasks : SplitFirst(t, c)  BY <2>2, SplitKeeps
    <2>3. CASE \E c \in Tasks : \E after \in SUBSET work[t].kids : SplitSecond(t, c, after)
      BY <2>3, SplitKeeps
    <2>4. CASE \/ WorkBegins(t) \/ WorkDelivers(t) \/ WorkRecords(t)
               \/ WorkUnaddressed(t) \/ WorkRequeues(t) \/ WorkEscalates(t)
               \/ \E c \in FailureClasses : WorkFails(t, c)
      BY <2>4, WorkStepKeeps
    <2> QED  BY <1>7, <2>1, <2>2, <2>3, <2>4 DEF WorkStep
  <1>8. ASSUME NEW t \in Tasks, WorkLosesWrite(t) \/ SplitFails(t) PROVE IInv'
    BY <1>8, WorkStepKeeps
  <1>9. ASSUME NEW t \in Tasks, ResolveFails(t) PROVE IInv'
    BY <1>9, TickMovesKeep
  <1>10. ASSUME NEW t \in Tasks, BackoffElapses(t) PROVE IInv'
    BY <1>10, SameStatusKeeps
  <1>11. CASE UNCHANGED vars
    BY <1>11 DEF vars, IInv, TypeOK, EveryTask, WorkOnlyInDispatch, FreshIds, DepsHeld, Done
  <1> QED
    BY <1>1, <1>2, <1>3, <1>4, <1>5, <1>6, <1>7, <1>8, <1>9, <1>10, <1>11 DEF Next

\* IInv is an invariant of the loop and the chat fast path.
THEOREM Invariance == Spec => []IInv
  BY InitInv, NextKeeps, PTL DEF Spec

\* Every store call, tick and drive keeps the table and the drives well typed.
THEOREM TypeCorrect == Spec => []TypeOK
  <1>1. IInv => TypeOK  BY DEF IInv
  <1> QED  BY <1>1, Invariance, PTL

\* Whatever the ceilings and the lease, a row that claim's compare-and-set can
\* take is a row nobody is still working on.
THEOREM NobodyOwnsClaimable == Spec => []ClaimableIsUnowned
  <1>1. IInv => ClaimableIsUnowned
    <2> SUFFICES ASSUME IInv, NEW t \in Tasks, rows[t].status = "pending"
                 PROVE  work[t].pc = "idle" /\ turn[t].pc = "idle" /\ rows[t].lease = NoLease
      BY DEF ClaimableIsUnowned
    <2>1. /\ TaskInv(rows[t], work[t], turn[t], answers[t], lost[t])
          /\ work[t] \in Drive /\ turn[t] \in Drive
      BY DEF IInv, EveryTask, TypeOK
    <2>2. work[t].pc \in DrivePhases /\ turn[t].pc \in DrivePhases
      BY <2>1 DEF Drive
    <2> QED  BY <2>1, <2>2 DEF TaskInv, Busy, DrivePhases
  <1> QED  BY <1>1, Invariance, PTL

\* The ceilings of fail_and_requeue and reclaim_expired together bound the
\* attempts of a row, wherever the process dies.
THEOREM BudgetRespected == Spec => []AttemptBudget
  <1>1. IInv => AttemptBudget
    BY DEF IInv, EveryTask, TaskInv, AttemptBudget
  <1> QED  BY <1>1, Invariance, PTL

\* A second answer needs a proof of delivery that was lost: requeueing,
\* reclaiming, splitting and reviving never make one by themselves.
THEOREM AnswersBounded == Spec => []AnsweredOnce
  <1>1. IInv => AnsweredOnce
    BY DEF IInv, EveryTask, TaskInv, AnsweredOnce
  <1> QED  BY <1>1, Invariance, PTL

\* A split task is dispatched again only after what it waits for.
THEOREM SplitWaits == Spec => []ChildrenFirst
  <1>1. IInv => ChildrenFirst
    BY DEF IInv, DepsHeld, Done, ChildrenFirst
  <1> QED  BY <1>1, Invariance, PTL

\* One drive of task t writes its row, which is running and so not terminal.
LEMMA DriveWrites ==
  ASSUME IInv, NEW t \in Tasks,
         \/ TurnStep(t) \/ TurnLosesWrite(t)
         \/ WorkStep(t) \/ WorkLosesWrite(t) \/ SplitFails(t)
  PROVE  TerminalKept
  <1> DEFINE Others == \A v \in Tasks \ {t} : rows'[v] = rows[v]
  <1>1. rows[t] \in Row /\ TaskInv(rows[t], work[t], turn[t], answers[t], lost[t])
    BY TaskFacts
  <1>2. ASSUME UNCHANGED rows PROVE TerminalKept  BY <1>2 DEF TerminalKept
  <1>3. ASSUME rows[t].status = "running", Others PROVE TerminalKept
    BY <1>3 DEF TerminalKept
  <1>4. CASE \/ TurnRecords(t) \/ TurnRequeues(t)
    BY <1>1, <1>3, <1>4
    DEF TurnRecords, TurnRequeues, RecordDelivery, RecordFailure, TaskInv, Busy, IInv, TypeOK
  <1>5. CASE WorkRecords(t) \/ WorkRequeues(t) \/ WorkUnaddressed(t) \/ LinkChildren(t)
    BY <1>1, <1>3, <1>5
    DEF WorkRecords, WorkRequeues, WorkUnaddressed, LinkChildren, RecordDelivery,
        RecordFailure, TaskInv, Busy, IInv, TypeOK
  <1>6. ASSUME NEW c \in Tasks, c = born + 1, \A v \in Tasks \ {c} : rows'[v] = rows[v]
        PROVE  TerminalKept
    <2>1. rows[c].status = "absent"  BY <1>6 DEF IInv, TypeOK, FreshIds, Tasks
    <2> QED  BY <1>6, <2>1 DEF TerminalKept
  <1>7. CASE \E c \in Tasks : SplitFirst(t, c)
    BY <1>6, <1>7 DEF SplitFirst, IInv, TypeOK
  <1>8. CASE \E c \in Tasks : \E after \in SUBSET work[t].kids : SplitSecond(t, c, after)
    BY <1>6, <1>8 DEF SplitSecond, IInv, TypeOK
  <1>9. CASE \/ TurnReplies(t) \/ TurnUnachieved(t) \/ TurnSilent(t) \/ TurnEscalates(t)
             \/ TurnLosesWrite(t)
    BY <1>2, <1>9
    DEF TurnReplies, TurnUnachieved, TurnSilent, TurnEscalates, TurnLosesWrite,
        SendAnswer, Escalate, LoseWrite
  <1>10. CASE \/ WorkBegins(t) \/ WorkDelivers(t) \/ WorkEscalates(t)
              \/ WorkLosesWrite(t) \/ SplitFails(t)
              \/ \E c \in FailureClasses : WorkFails(t, c)
    BY <1>2, <1>10
    DEF WorkBegins, WorkDelivers, WorkEscalates, WorkLosesWrite, SplitFails, WorkFails,
        SendAnswer, Escalate, LoseWrite, tableVars
  <1> QED
    BY <1>4, <1>5, <1>7, <1>8, <1>9, <1>10 DEF TurnStep, WorkStep

\* The statements of the tick that rewrite rows in bulk select by status.
LEMMA TickWrites ==
  ASSUME IInv,
         \/ TickStep \/ TimePasses
         \/ \E t \in Tasks : BackoffElapses(t)
  PROVE  TerminalKept
  <1>1. \A v \in Tasks : rows[v] \in Row  BY TaskFacts
  <1>2. ASSUME UNCHANGED rows PROVE TerminalKept  BY <1>2 DEF TerminalKept
  <1>3. CASE LoopStart
    BY <1>3 DEF LoopStart, Stranded, TerminalKept
  <1>4. CASE ReclaimExpired
    BY <1>4 DEF ReclaimExpired, LeaseExpired, TerminalKept
  <1>5. CASE Select
    BY <1>5 DEF Select, Window, Claimable, TerminalKept
  <1>6. CASE PruneCompleted
    BY <1>6, NoRowFacts DEF PruneCompleted, Prunable, TerminalKept
  <1>7. CASE \E t \in Tasks : Claim(t)
    BY <1>7 DEF Claim, TerminalKept, IInv, TypeOK
  <1>8. CASE \E t \in Tasks : ResolveAck(t)
    BY <1>1, <1>8, SameStatusFacts DEF ResolveAck, Write, TerminalKept, IInv, TypeOK
  <1>9. CASE \E t \in Tasks : BackoffElapses(t)
    BY <1>1, <1>9, SameStatusFacts DEF BackoffElapses, TerminalKept, IInv, TypeOK
  <1>10. CASE TimePasses
    BY <1>1, <1>10, OlderFacts DEF TimePasses, TerminalKept
  <1>11. CASE ClaimsDone \/ Gathered \/ ListUnannounced \/ TickEnds
    BY <1>2, <1>11 DEF ClaimsDone, Gathered, ListUnannounced, TickEnds
  <1>12. CASE \E t \in Tasks : ResolveTell(t)
    BY <1>2, <1>12 DEF ResolveTell
  <1> QED
    BY <1>3, <1>4, <1>5, <1>6, <1>7, <1>8, <1>9, <1>10, <1>11, <1>12 DEF TickStep

\* A delivered or dead-lettered row is final for the loop and the fast path:
\* no requeue, reclaim, cascade, revival, split or crash brings it back.
THEOREM TerminalIsFinal == Spec => TerminalStays
  <1>1. IInv /\ [Next]_vars => [TerminalKept]_vars
    <2> SUFFICES ASSUME IInv, Next PROVE TerminalKept  OBVIOUS
    <2>1. ASSUME UNCHANGED rows PROVE TerminalKept  BY <2>1 DEF TerminalKept
    <2>2. CASE TickStep \/ TimePasses \/ \E t \in Tasks : BackoffElapses(t)
      BY <2>2, TickWrites
    <2>3. CASE StartsUnrevived \/ TickFails \/ Crash
      BY <2>1, <2>3 DEF StartsUnrevived, TickFails, Crash, tableVars
    <2>4. ASSUME NEW t \in Tasks, NEW d \in Inbound,
                 TurnArrives(t, d) \/ TaskEnqueued(t, d)
          PROVE  TerminalKept
      <3>1. rows[t].status = "absent"
        BY <2>4 DEF TurnArrives, TaskEnqueued, IInv, TypeOK, FreshIds, Tasks
      <3> QED
        BY <2>4, <3>1 DEF TurnArrives, TaskEnqueued, TerminalKept, IInv, TypeOK
    <2>5. ASSUME NEW t \in Tasks,
                 \/ TurnStep(t) \/ TurnLosesWrite(t)
                 \/ WorkStep(t) \/ WorkLosesWrite(t) \/ SplitFails(t)
          PROVE  TerminalKept
      BY <2>5, DriveWrites
    <2>6. ASSUME NEW t \in Tasks, ResolveFails(t) PROVE TerminalKept
      BY <2>1, <2>6 DEF ResolveFails
    <2> QED  BY <2>2, <2>3, <2>4, <2>5, <2>6 DEF Next
  <1> QED  BY <1>1, Invariance, PTL DEF Spec, TerminalStays

(***************************************************************************)
(* TaskLoop keeps the contract of TaskLife.                                *)
(***************************************************************************)
\* No write of the store touches the destination.
LEMMA DestinationKept ==
  ASSUME NEW r \in Row
  PROVE  /\ Claimed(r).destination = r.destination
         /\ Reclaimed(r).destination = r.destination
         /\ \A n, c : FailedAttempt(r, n, c).destination = r.destination
         /\ Delivered(r).destination = r.destination
         /\ CompletedUnaddressed(r).destination = r.destination
         /\ DependencyFailed(r).destination = r.destination
         /\ \A k : Waiting(r, k).destination = r.destination
         /\ Revived(r).destination = r.destination
         /\ Acknowledged(r).destination = r.destination
         /\ [r EXCEPT !.backoff = FALSE].destination = r.destination
         /\ Older(r).destination = r.destination
  BY DEF Row, Claimed, Reclaimed, FailedAttempt, Delivered, CompletedUnaddressed,
         DependencyFailed, Waiting, Revived, Acknowledged, Older

\* The statuses of an open task.
OpenStatuses == {"pending", "running", "recovering", "parked", "failed"}

\* What a row's status says of the life of its task.
LEMMA LifeFacts ==
  ASSUME NEW r \in Row, NEW fresh \in BOOLEAN
  PROVE  /\ LifeOf(r, fresh) \in {"none", "open", "closed", "dead", "pruned"}
         /\ r.status = "absent" /\ fresh => LifeOf(r, fresh) = "none"
         /\ r.status = "absent" /\ ~fresh => LifeOf(r, fresh) = "pruned"
         /\ r.status = "completed" => LifeOf(r, fresh) = "closed"
         /\ r.status = "dead_letter" => LifeOf(r, fresh) = "dead"
         /\ r.status \in OpenStatuses => LifeOf(r, fresh) = "open"
  BY RowFields DEF LifeOf, OpenStatuses, Statuses

\* The step of one task, told from its row: who was accepted, answered, closed, given
\* up or pruned, or kept its life.
Lived(v) ==
  LET s == rows[v].status  s2 == rows'[v].status
      kept == rows'[v].destination = rows[v].destination
      calm == answers'[v] = answers[v] /\ lost'[v] = lost[v]
      settled == answers[v] = lost[v]
      out == answers[v] = lost[v] + 1
  IN  \/ s = "absent" /\ v > born /\ s2 \in OpenStatuses /\ calm
      \/ /\ s \in OpenStatuses /\ s2 \in OpenStatuses /\ kept
         /\ \/ calm
            \/ settled /\ answers'[v] = answers[v] + 1 /\ lost'[v] = lost[v]
            \/ out /\ answers'[v] = answers[v] /\ lost'[v] = lost[v] + 1
      \/ /\ s \in OpenStatuses /\ s2 = "completed" /\ kept /\ calm
         /\ out \/ (settled /\ rows[v].destination # "addressed")
      \/ s \in OpenStatuses /\ s2 = "dead_letter" /\ kept /\ calm /\ settled
      \/ s = "completed" /\ s2 = "absent" /\ v <= born /\ v <= born' /\ calm
      \/ s2 = s /\ kept /\ calm /\ (v > born <=> v > born')

\* Such a step is one that the contract allows.
LEMMA LivedIsAllowed ==
  ASSUME NEW v \in Tasks, rows[v] \in Row, rows'[v] \in Row, born \in Nat, born' \in Nat,
         Lived(v)
  PROVE  Contract!Step(v)
  <1> DEFINE l == LifeOf(rows[v], v > born)
             m == LifeOf(rows'[v], v > born')
  <1>0. v \in Nat /\ (v > born) \in BOOLEAN /\ (v > born') \in BOOLEAN
    BY DEF Tasks
  <1>1. /\ rows[v].status = "absent" /\ v > born => l = "none"
        /\ rows[v].status = "completed" => l = "closed"
        /\ rows[v].status \in OpenStatuses => l = "open"
    BY <1>0, LifeFacts
  <1>2. /\ rows'[v].status = "absent" /\ ~(v > born') => m = "pruned"
        /\ rows'[v].status = "completed" => m = "closed"
        /\ rows'[v].status = "dead_letter" => m = "dead"
        /\ rows'[v].status \in OpenStatuses => m = "open"
    BY <1>0, LifeFacts
  <1>3. rows'[v].status = rows[v].status /\ (v > born <=> v > born') => l = m
    BY <1>0 DEF LifeOf
  <1>4. /\ [t \in Tasks |-> LifeOf(rows[t], t > born)][v] = l
        /\ [t \in Tasks |-> LifeOf(rows[t], t > born)]'[v] = m
        /\ [t \in Tasks |-> rows[t].destination = "addressed"][v]
             = (rows[v].destination = "addressed")
        /\ [t \in Tasks |-> rows[t].destination = "addressed"]'[v]
             = (rows'[v].destination = "addressed")
    OBVIOUS
  <1>5. v <= born' => ~(v > born')  BY <1>0
  <1> HIDE DEF l, m
  <1> QED
    BY <1>1, <1>2, <1>3, <1>4, <1>5
    DEF Lived, Contract!Step, Contract!Accept, Contract!Answer, Contract!Lose,
        Contract!Close, Contract!GiveUp, Contract!Forget, Contract!Rest,
        Contract!Unanswered, Contract!OnItsWay, Contract!same, Contract!quiet

\* Between its proof and the next answer a task counts as many answers as lost proofs,
\* and one more while an answer is out; only a drive that sends knows of it.
LEMMA AnswersOut ==
  ASSUME IInv, NEW v \in Tasks
  PROVE  /\ answers[v] \in Nat /\ lost[v] \in Nat
         /\ work[v].pc = "sent" \/ turn[v].pc = "sent" =>
              rows[v].status = "running" /\ answers[v] = lost[v] + 1
         /\ rows[v].status \in Unanswered /\ work[v].pc # "sent" /\ turn[v].pc # "sent"
              => answers[v] = lost[v]
         /\ work[v].pc \in Busy => rows[v].status = "running" /\ turn[v].pc # "sent"
         /\ turn[v].pc \in Busy => rows[v].status = "running" /\ work[v].pc # "sent"
         /\ v > born => rows[v].status = "absent"
  <1>1. /\ TaskInv(rows[v], work[v], turn[v], answers[v], lost[v])
        /\ answers[v] \in Nat /\ lost[v] \in Nat
    BY TaskFacts
  <1>2. v > born => rows[v].status = "absent"  BY DEF IInv, FreshIds
  <1> QED  BY <1>1, <1>2 DEF TaskInv, Busy

\* A task of which only the clocks, the lease or the acknowledgement change.
LEMMA RestLives ==
  ASSUME NEW v \in Tasks, born' = born, rows'[v].status = rows[v].status,
         rows'[v].destination = rows[v].destination,
         answers'[v] = answers[v], lost'[v] = lost[v]
  PROVE  Lived(v)
  BY DEF Lived

\* A drive of t that leaves the other tasks alone.
LEMMA DriveLives ==
  ASSUME IInv, NEW t \in Tasks,
         \/ TurnStep(t) \/ TurnLosesWrite(t)
         \/ WorkStep(t) \/ WorkLosesWrite(t) \/ SplitFails(t)
  PROVE  \A v \in Tasks : Lived(v)
  <1> DEFINE Others == \A v \in Tasks \ {t} : /\ rows'[v] = rows[v]
                                              /\ answers'[v] = answers[v]
                                              /\ lost'[v] = lost[v]
  <1>0. /\ rows \in [Tasks -> Row] /\ answers \in [Tasks -> Nat] /\ lost \in [Tasks -> Nat]
        /\ born \in Nat /\ rows[t] \in Row /\ Tasks \subseteq Nat
    BY TaskFacts, StoreAssumption DEF IInv, TypeOK, Tasks
  <1>1. ASSUME born' = born, Others, Lived(t) PROVE \A v \in Tasks : Lived(v)
    BY <1>1, RestLives
  <1>2. ASSUME UNCHANGED <<rows, born, answers, lost>> PROVE \A v \in Tasks : Lived(v)
    BY <1>2, RestLives
  <1>3. CASE TurnReplies(t) \/ WorkDelivers(t)
    <2>1. /\ born' = born /\ rows' = rows /\ lost' = lost
          /\ answers' = [answers EXCEPT ![t] = @ + 1]
          /\ turn[t].pc = "run" \/ work[t].pc = "run"
      BY <1>3 DEF TurnReplies, WorkDelivers, SendAnswer, turnFrame, workFrame
    <2>2. rows[t].status = "running" /\ answers[t] = lost[t]
      BY <2>1, AnswersOut DEF Busy, Unanswered
    <2>3. Others /\ answers'[t] = answers[t] + 1  BY <1>0, <2>1
    <2>4. Lived(t)  BY <2>1, <2>2, <2>3 DEF Lived, OpenStatuses
    <2> QED  BY <1>1, <2>1, <2>3, <2>4
  <1>4. CASE TurnRecords(t) \/ WorkRecords(t)
    <2>1. /\ born' = born /\ answers' = answers /\ lost' = lost /\ RecordDelivery(t)
          /\ turn[t].pc = "sent" \/ work[t].pc = "sent"
      BY <1>4 DEF TurnRecords, WorkRecords, RecordDelivery, turnFrame, workFrame
    <2>2. rows[t].status = "running" /\ answers[t] = lost[t] + 1  BY <2>1, AnswersOut
    <2>3. rows' = [rows EXCEPT ![t] = Delivered(rows[t])]
      BY <1>0, <2>1, <2>2 DEF RecordDelivery, Write
    <2>4. /\ Others /\ rows'[t].status = "completed"
          /\ rows'[t].destination = rows[t].destination
      BY <1>0, <2>1, <2>3, DeliveredFacts, DestinationKept
    <2>5. Lived(t)  BY <2>1, <2>2, <2>4 DEF Lived, OpenStatuses
    <2> QED  BY <1>1, <2>1, <2>4, <2>5
  <1>5. ASSUME NEW d \in Drive, d.pc = "fail", d = turn[t] \/ d = work[t],
               RecordFailure(t, d), born' = born
        PROVE  \A v \in Tasks : Lived(v)
    <2>1. rows[t].status = "running" /\ answers[t] = lost[t]
      BY <1>5, AnswersOut DEF Busy, Unanswered
    <2>2. /\ rows' = [rows EXCEPT ![t] = FailedAttempt(rows[t], d.seen, d.class)]
          /\ answers' = answers /\ lost' = lost
      BY <1>0, <1>5, <2>1 DEF RecordFailure, Write
    <2>3. d.seen \in Nat /\ d.class \in FailureClasses  BY DEF Drive
    <2>4. /\ Others /\ rows'[t].status \in {"dead_letter", "pending"}
          /\ rows'[t].destination = rows[t].destination
      <3> DEFINE new == FailedAttempt(rows[t], d.seen, d.class)
      <3>1. new.status \in {"dead_letter", "pending"}  BY <1>0, <2>3, FailedFacts
      <3>2. new.destination = rows[t].destination  BY <1>0, DestinationKept
      <3> HIDE DEF new
      <3>3. rows' = [rows EXCEPT ![t] = new]  BY <2>2 DEF new
      <3> QED  BY <1>0, <2>2, <3>1, <3>2, <3>3
    <2>5. Lived(t)  BY <2>1, <2>2, <2>4 DEF Lived, OpenStatuses
    <2> QED  BY <1>1, <1>5, <2>4, <2>5
  <1>6. CASE TurnRequeues(t) \/ WorkRequeues(t)
    <2>1. turn[t] \in Drive /\ work[t] \in Drive  BY TaskFacts
    <2> QED
      BY <1>5, <1>6, <2>1 DEF TurnRequeues, WorkRequeues, turnFrame, workFrame
  <1>7. CASE WorkUnaddressed(t)
    <2>1. /\ work[t].pc = "run" /\ rows[t].destination # "addressed" /\ born' = born
          /\ answers' = answers /\ lost' = lost
          /\ rows' = [rows EXCEPT ![t] = Write(@, CompletedUnaddressed(@))]
      BY <1>7 DEF WorkUnaddressed, historyVars
    <2>2. rows[t].status = "running" /\ answers[t] = lost[t]
      BY <2>1, AnswersOut DEF Busy, Unanswered
    <2>3. /\ Others /\ rows'[t].status = "completed"
          /\ rows'[t].destination = rows[t].destination
      BY <1>0, <2>1, <2>2, UnaddressedFacts, DestinationKept DEF Write
    <2>4. Lived(t)  BY <2>1, <2>2, <2>3 DEF Lived, OpenStatuses
    <2> QED  BY <1>1, <2>1, <2>3, <2>4
  <1>8. CASE LinkChildren(t)
    <2>1. /\ work[t].pc = "link" /\ born' = born /\ answers' = answers /\ lost' = lost
          /\ rows' = [rows EXCEPT ![t] = Write(@, Waiting(@, work[t].kids))]
      BY <1>8 DEF LinkChildren, historyVars
    <2>2. /\ Others /\ rows'[t].status = rows[t].status
          /\ rows'[t].destination = rows[t].destination
      BY <1>0, <2>1, DestinationKept DEF Write, Waiting, Row
    <2> QED  BY <1>1, <2>1, <2>2, RestLives
  <1>9. CASE TurnLosesWrite(t) \/ WorkLosesWrite(t)
    <2>1. PICK d \in {turn[t], work[t]} : LoseWrite(t, d)
      BY <1>9 DEF TurnLosesWrite, WorkLosesWrite
    <2>2. /\ born' = born /\ rows' = rows /\ answers' = answers
          /\ lost' = [lost EXCEPT ![t] = IF d.pc = "sent" THEN @ + 1 ELSE @]
      BY <1>9, <2>1 DEF TurnLosesWrite, WorkLosesWrite, LoseWrite, turnFrame, workFrame
    <2>3. CASE d.pc = "sent"
      <3>1. rows[t].status = "running" /\ answers[t] = lost[t] + 1
        BY <2>3, AnswersOut
      <3>2. Others /\ lost'[t] = lost[t] + 1  BY <1>0, <2>2, <2>3
      <3>3. Lived(t)  BY <2>2, <3>1, <3>2 DEF Lived, OpenStatuses
      <3> QED  BY <1>1, <2>2, <3>2, <3>3
    <2>4. CASE d.pc # "sent"
      <3>1. Others /\ lost'[t] = lost[t]  BY <1>0, <2>2, <2>4
      <3> QED  BY <1>1, <2>2, <3>1, RestLives
    <2> QED  BY <2>3, <2>4
  <1>10. ASSUME NEW c \in Tasks, c = born + 1, born' = c, answers' = answers, lost' = lost,
                NEW r \in Row, r.status = "pending", rows' = [rows EXCEPT ![c] = r]
         PROVE  \A v \in Tasks : Lived(v)
    <2>1. rows[c].status = "absent" /\ c > born  BY <1>0, <1>10, AnswersOut
    <2>2. rows'[c].status \in OpenStatuses  BY <1>0, <1>10 DEF OpenStatuses
    <2>3. Lived(c)  BY <1>10, <2>1, <2>2 DEF Lived
    <2>4. ASSUME NEW v \in Tasks \ {c} PROVE Lived(v)
      <3>1. rows'[v] = rows[v] /\ (v > born <=> v > born')  BY <1>0, <1>10
      <3> QED  BY <1>10, <3>1 DEF Lived
    <2> QED  BY <2>3, <2>4
  <1>11. CASE \E c \in Tasks : SplitFirst(t, c)
    <2>1. PICK c \in Tasks : SplitFirst(t, c)  BY <1>11
    <2> DEFINE r == NewRow("pending", rows[t].destination, {}, t)
    <2>2. r \in Row /\ r.status = "pending"
      BY <1>0, NewRowFacts, RowFields, WrittenConstants
    <2> HIDE DEF r
    <2>3. /\ c = born + 1 /\ born' = c /\ rows' = [rows EXCEPT ![c] = r]
          /\ answers' = answers /\ lost' = lost
      BY <2>1 DEF SplitFirst, historyVars, r
    <2> QED  BY <1>10, <2>2, <2>3
  <1>12. CASE \E c \in Tasks : \E after \in SUBSET work[t].kids : SplitSecond(t, c, after)
    <2>1. PICK c \in Tasks, after \in SUBSET work[t].kids : SplitSecond(t, c, after)
      BY <1>12
    <2> DEFINE r == NewRow("pending", rows[t].destination, after, t)
    <2>2. r \in Row /\ r.status = "pending"
      <3>1. after \subseteq Tasks  BY TaskFacts DEF Drive
      <3> QED  BY <1>0, <3>1, NewRowFacts, RowFields, WrittenConstants
    <2> HIDE DEF r
    <2>3. /\ c = born + 1 /\ born' = c /\ rows' = [rows EXCEPT ![c] = r]
          /\ answers' = answers /\ lost' = lost
      BY <2>1 DEF SplitSecond, historyVars, r
    <2> QED  BY <1>10, <2>2, <2>3
  <1>13. CASE TurnUnachieved(t) \/ TurnSilent(t) \/ TurnEscalates(t)
    BY <1>2, <1>13 DEF TurnUnachieved, TurnSilent, TurnEscalates, Escalate, turnFrame
  <1>14. CASE \/ WorkBegins(t) \/ WorkEscalates(t) \/ SplitFails(t)
              \/ \E c \in FailureClasses : WorkFails(t, c)
    BY <1>2, <1>14
    DEF WorkBegins, WorkEscalates, SplitFails, WorkFails, Escalate, tableVars, historyVars
  <1> QED
    BY <1>3, <1>4, <1>6, <1>7, <1>8, <1>9, <1>11, <1>12, <1>13, <1>14
    DEF TurnStep, WorkStep

\* The tick, time, and the crash: what is given up has no answer on its way.
LEMMA TickLives ==
  ASSUME IInv,
         \/ TickStep \/ StartsUnrevived \/ TickFails \/ TimePasses \/ Crash
         \/ \E t \in Tasks : ResolveFails(t) \/ BackoffElapses(t)
  PROVE  \A v \in Tasks : Lived(v)
  <1> SUFFICES ASSUME NEW v \in Tasks PROVE Lived(v)  OBVIOUS
  <1>0. /\ rows \in [Tasks -> Row] /\ lost \in [Tasks -> Nat] /\ rows[v] \in Row
        /\ born \in Nat /\ v \in Nat
    BY TaskFacts DEF IInv, TypeOK, Tasks
  <1>1. CASE LoopStart
    <2>1. /\ rows'[v] = IF Stranded(rows[v]) THEN Revived(rows[v]) ELSE rows[v]
          /\ UNCHANGED <<born, answers, lost>>
      BY <1>1 DEF LoopStart, tickFrame
    <2>2. Stranded(rows[v]) => rows[v].status = "failed"  BY DEF Stranded
    <2>3. Revived(rows[v]).status = "pending"  BY <1>0, RevivedFacts
    <2> QED  BY <1>0, <2>1, <2>2, <2>3, DestinationKept DEF Lived, OpenStatuses
  <1>2. CASE ReclaimExpired
    <2>1. /\ rows'[v] = IF LeaseExpired(rows[v]) THEN Reclaimed(rows[v]) ELSE rows[v]
          /\ UNCHANGED <<born, answers, lost>> /\ loop = "reclaim"
      BY <1>2 DEF ReclaimExpired, tickFrame
    <2>2. CASE ~LeaseExpired(rows[v])  BY <2>1, <2>2 DEF Lived
    <2>3. CASE LeaseExpired(rows[v])
      <3>1. rows[v].status = "running" /\ rows[v].lease = 0  BY <2>3 DEF LeaseExpired
      <3>2. work[v].pc # "sent"  BY <2>1 DEF IInv, WorkOnlyInDispatch
      <3>3. turn[v].pc # "sent"  BY <3>1, TaskFacts DEF TaskInv, Busy, NoLease
      <3>4. answers[v] = lost[v]  BY <3>1, <3>2, <3>3, AnswersOut DEF Unanswered
      <3>5. rows'[v].status \in {"dead_letter", "pending"}
        BY <1>0, <2>1, <2>3, ReclaimedFacts
      <3>6. rows'[v].destination = rows[v].destination
        BY <1>0, <2>1, <2>3, DestinationKept
      <3> QED  BY <2>1, <3>1, <3>4, <3>5, <3>6 DEF Lived, OpenStatuses
    <2> QED  BY <2>2, <2>3
  <1>3. CASE Select
    <2>1. /\ rows'[v] = IF v \in Window /\ DepFailed(rows, v)
                        THEN DependencyFailed(rows[v]) ELSE rows[v]
          /\ UNCHANGED <<born, answers, lost>>
      BY <1>3 DEF Select, tickFrame
    <2>2. CASE ~(v \in Window /\ DepFailed(rows, v))  BY <2>1, <2>2 DEF Lived
    <2>3. CASE v \in Window /\ DepFailed(rows, v)
      <3>1. rows[v].status = "pending"  BY <2>3 DEF Window, Claimable
      <3>2. answers[v] = lost[v]  BY <3>1, AnswersOut DEF Unanswered
      <3>3. rows'[v].status = "dead_letter" /\ rows'[v].destination = rows[v].destination
        BY <1>0, <2>1, <2>3, CascadeFacts, DestinationKept
      <3> QED  BY <2>1, <3>1, <3>2, <3>3 DEF Lived, OpenStatuses
    <2> QED  BY <2>2, <2>3
  <1>4. CASE \E t \in Tasks : Claim(t)
    <2>1. PICK t \in Tasks : Claim(t)  BY <1>4
    <2>2. UNCHANGED <<born, answers, lost>>  BY <2>1 DEF Claim, tickFrame
    <2>3. CASE rows'[v] = rows[v]  BY <2>2, <2>3, RestLives
    <2>4. CASE rows[v].status = "pending" /\ rows'[v] = Claimed(rows[v])
      <3>1. rows'[v].status = "running" /\ rows'[v].destination = rows[v].destination
        BY <1>0, <2>4, ClaimedFacts, DestinationKept
      <3> QED  BY <2>2, <2>4, <3>1 DEF Lived, OpenStatuses
    <2> QED  BY <1>0, <2>1, <2>3, <2>4 DEF Claim
  <1>5. CASE PruneCompleted
    <2>1. /\ rows'[v] = IF Prunable(rows[v]) THEN NoRow ELSE rows[v]
          /\ UNCHANGED <<born, answers, lost>>
      BY <1>5 DEF PruneCompleted, tickFrame
    <2>2. CASE ~Prunable(rows[v])  BY <2>1, <2>2 DEF Lived
    <2>3. CASE Prunable(rows[v])
      <3>1. rows[v].status = "completed"  BY <2>3 DEF Prunable
      <3>2. v <= born  BY <1>0, <3>1, AnswersOut
      <3>3. rows'[v].status = "absent"  BY <2>1, <2>3, NoRowFacts
      <3> QED  BY <2>1, <3>1, <3>2, <3>3 DEF Lived
    <2> QED  BY <2>2, <2>3
  <1>6. CASE \E t \in Tasks : ResolveAck(t)
    <2>1. /\ UNCHANGED <<born, answers, lost>>
          /\ rows'[v] \in {rows[v], Acknowledged(rows[v])}
      BY <1>0, <1>6 DEF ResolveAck, tickFrame, Write
    <2> QED  BY <1>0, <2>1, RestLives, SameStatusFacts, DestinationKept
  <1>7. CASE \E t \in Tasks : BackoffElapses(t)
    <2>1. /\ UNCHANGED <<born, answers, lost>>
          /\ rows'[v] \in {rows[v], [rows[v] EXCEPT !.backoff = FALSE]}
      BY <1>0, <1>7 DEF BackoffElapses, historyVars
    <2> QED  BY <1>0, <2>1, RestLives, SameStatusFacts, DestinationKept
  <1>8. CASE TimePasses
    <2>1. rows'[v] = Older(rows[v]) /\ UNCHANGED <<born, answers, lost>>
      BY <1>8 DEF TimePasses, historyVars
    <2> QED  BY <1>0, <2>1, RestLives, OlderFacts, DestinationKept
  <1>9. CASE Crash
    <2>1. /\ UNCHANGED <<rows, born, answers>>
          /\ lost'[v] = IF "sent" \in {work[v].pc, turn[v].pc} THEN lost[v] + 1 ELSE lost[v]
      BY <1>9 DEF Crash, tableVars
    <2>2. CASE "sent" \in {work[v].pc, turn[v].pc}
      <3>1. rows[v].status = "running" /\ answers[v] = lost[v] + 1  BY <2>2, AnswersOut
      <3> QED  BY <2>1, <2>2, <3>1 DEF Lived, OpenStatuses
    <2>3. CASE ~("sent" \in {work[v].pc, turn[v].pc})  BY <2>1, <2>3 DEF Lived
    <2> QED  BY <2>2, <2>3
  <1>10. CASE \/ ClaimsDone \/ Gathered \/ ListUnannounced \/ TickEnds
              \/ StartsUnrevived \/ TickFails
              \/ \E t \in Tasks : ResolveTell(t) \/ ResolveFails(t)
    <2>1. UNCHANGED <<rows, born, answers, lost>>
      BY <1>10
      DEF ClaimsDone, Gathered, ListUnannounced, TickEnds, StartsUnrevived, TickFails,
          ResolveTell, ResolveFails, tickFrame, tableVars, historyVars
    <2> QED  BY <2>1, RestLives
  <1> QED
    BY <1>1, <1>2, <1>3, <1>4, <1>5, <1>6, <1>7, <1>8, <1>9, <1>10 DEF TickStep

\* enqueue and enqueue_turn_task take a fresh id.
LEMMA IngressLives ==
  ASSUME IInv, NEW t \in Tasks, NEW d \in Inbound, TurnArrives(t, d) \/ TaskEnqueued(t, d)
  PROVE  \A v \in Tasks : Lived(v)
  <1>0. rows \in [Tasks -> Row] /\ born \in Nat /\ Tasks \subseteq Nat
    BY DEF IInv, TypeOK, Tasks
  <1>1. PICK st \in {"running", "pending"} : rows' = [rows EXCEPT ![t] = NewRow(st, d, {}, NoParent)]
    BY DEF TurnArrives, TaskEnqueued
  <1>2. t = born + 1 /\ born' = t /\ answers' = answers /\ lost' = lost
    BY DEF TurnArrives, TaskEnqueued
  <1>3. rows[t].status = "absent" /\ t > born  BY <1>0, <1>2, AnswersOut
  <1>4. rows'[t].status \in OpenStatuses
    BY <1>0, <1>1 DEF NewRow, OpenStatuses
  <1>5. Lived(t)  BY <1>2, <1>3, <1>4 DEF Lived
  <1>6. ASSUME NEW v \in Tasks \ {t} PROVE Lived(v)
    <2>1. rows'[v] = rows[v] /\ (v > born <=> v > born')  BY <1>0, <1>1, <1>2
    <2> QED  BY <1>2, <2>1 DEF Lived
  <1> QED  BY <1>5, <1>6

\* TaskLoop implements TaskLife, for every number of tasks, attempts, slots and faults:
\* no interleaving of ticks, dispatches, chat turns, reclaims, splits, prunes and
\* crashes closes a task that somebody waits for without an answer, gives one up with
\* an answer on its way, answers again without a lost record, or reopens a task.
THEOREM LoopKeepsContract == Spec => KeepsContract
  <1>1. Init => Contract!Init
    <2> SUFFICES ASSUME Init PROVE Contract!Init  OBVIOUS
    <2>0. Inbound \subseteq Destinations /\ "failed" \in Statuses
      BY LoopAssumption DEF Statuses
    <2>1. ASSUME NEW t \in Tasks
          PROVE  LifeOf(rows[t], t > born) \in {"none", "open"}
      <3>1. CASE t > born
        <4>1. rows[t] = NoRow  BY <3>1 DEF Init, Tasks
        <4> QED  BY <3>1, <4>1, NoRowFacts, LifeFacts
      <3>2. CASE ~(t > born)
        <4>1. PICK d \in Inbound : rows[t] = NewRow("failed", d, {}, NoParent)
          BY <3>2 DEF Init, Tasks
        <4>2. rows[t] \in Row /\ rows[t].status = "failed"
          BY <2>0, <4>1, NewRowFacts, WrittenConstants
        <4>3. (t > born) \in BOOLEAN /\ rows[t].status \in OpenStatuses
          BY <3>2, <4>2 DEF OpenStatuses
        <4> QED  BY <4>2, <4>3, LifeFacts
      <3> QED  BY <3>1, <3>2
    <2> QED  BY <2>1 DEF Init, Contract!Init
  <1>2. IInv /\ IInv' /\ [Next]_vars =>
          [Contract!Next]_<<[t \in Tasks |-> LifeOf(rows[t], t > born)],
                            [t \in Tasks |-> rows[t].destination = "addressed"],
                            answers, lost>>
    <2> SUFFICES ASSUME IInv, IInv', Next PROVE Contract!Next
      BY DEF vars
    <2>1. \A v \in Tasks : Lived(v)
      BY DriveLives, TickLives, IngressLives DEF Next
    <2>2. /\ rows \in [Tasks -> Row] /\ rows' \in [Tasks -> Row] /\ born \in Nat /\ born' \in Nat
          /\ answers' \in [Tasks -> Nat] /\ lost' \in [Tasks -> Nat]
      BY DEF IInv, TypeOK
    <2>3. \A v \in Tasks : Contract!Step(v)  BY <2>1, <2>2, LivedIsAllowed
    <2>4. ASSUME NEW v \in Tasks
          PROVE  LifeOf(rows'[v], v > born') \in {"none", "open", "closed", "dead", "pruned"}
      <3>1. rows'[v] \in Row /\ (v > born') \in BOOLEAN  BY <2>2 DEF Tasks
      <3> QED  BY <3>1, LifeFacts
    <2> QED  BY <2>2, <2>3, <2>4 DEF Contract!Next, Contract!Lives
  <1> QED
    BY <1>1, <1>2, Invariance, PTL DEF Spec, KeepsContract, Contract!Spec
=============================================================================
