---------------------------- MODULE DurableStore ----------------------------
(***************************************************************************)
(* The `tasks` table of StackOwl (pipeline/durable/store.py): one record   *)
(* per row, and one operator per SQL statement that the durable task store *)
(* issues on a row.  The operators are pure; the modules that EXTEND this  *)
(* one say who issues them and when.                                       *)
(*                                                                         *)
(* Time is counted down instead of stamped: a lease is the number of ticks *)
(* until lease_expires_at, age the number of ticks since updated_at, and   *)
(* backoff says whether next_attempt_at still lies in the future.          *)
(***************************************************************************)
EXTENDS Integers, FiniteSets

CONSTANTS
  MaxTask,       \* task ids are 1..MaxTask, in the order of created_at
  MaxAttempts,   \* max_attempts of every row
  SmallCeiling,  \* _UNACHIEVED_EFFECT_MAX_ATTEMPTS
  ReshapeAfter,  \* DECOMPOSE_AFTER_ATTEMPTS
  LeaseTicks,    \* DEFAULT_LEASE_SECONDS
  OldTicks       \* prune_completed's window; ages are counted up to it

ASSUME StoreAssumption ==
  /\ MaxTask \in Nat \ {0}
  /\ MaxAttempts \in Nat \ {0}
  /\ SmallCeiling \in Nat \ {0}
  /\ ReshapeAfter \in Nat
  /\ LeaseTicks \in Nat \ {0}
  /\ OldTicks \in Nat \ {0}
  /\ LeaseTicks < OldTicks

Tasks == 1..MaxTask

\* task.py TaskStatus, and "absent" for an id that has no row (never
\* created, or pruned).
Statuses == {"absent", "pending", "running", "recovering", "parked",
             "completed", "failed", "dead_letter"}

\* destination: NULL, a channel without an address, or channel:address.
Destinations == {"none", "bare", "addressed"}

\* What fail_and_requeue tells apart: SMALL_CEILING_CLASSES, the permanent
\* classes, the one that wants reshaping, and every other class.
FailureClasses == {"transient", "small", "permanent", "budget"}

\* last_failure_class: NULL, a failure class, or what the store itself writes.
RowClasses == FailureClasses \cup
              {"none", "lease_expired", "reclaimed_stale", "dependency_failed"}

NoLease  == -1   \* lease_expires_at IS NULL
NoParent == 0    \* parent_task_id IS NULL

\* The columns that some decision of the store or the loop reads.
Row == [status       : Statuses,
        destination  : Destinations,
        delivered    : BOOLEAN,        \* delivered_at IS NOT NULL
        acknowledged : BOOLEAN,        \* acknowledged_at IS NOT NULL
        answered     : BOOLEAN,        \* result holds a non-blank text
        attempts     : Nat,            \* attempt_count
        class        : RowClasses,     \* last_failure_class
        lease        : NoLease..LeaseTicks,
        backoff      : BOOLEAN,
        age          : 0..OldTicks,
        deps         : SUBSET Tasks,   \* depends_on
        parent       : NoParent..MaxTask]

NewRow(status, destination, deps, parent) ==
  [status |-> status, destination |-> destination, delivered |-> FALSE,
   acknowledged |-> FALSE, answered |-> FALSE, attempts |-> 0,
   class |-> "none", lease |-> NoLease, backoff |-> FALSE, age |-> 0,
   deps |-> deps, parent |-> parent]

NoRow == NewRow("absent", "none", {}, NoParent)

\* An UPDATE of a row that is not there changes nothing.
Write(r, new) == IF r.status = "absent" THEN r ELSE new

(***************************************************************************)
(* The reads that decide what the loop may run.                            *)
(***************************************************************************)
\* CLAIMABLE_WHERE: pending, past its backoff, and its parent (if any) is not
\* terminal.
Claimable(rows, t) ==
  /\ rows[t].status = "pending"
  /\ ~rows[t].backoff
  /\ \/ rows[t].parent = NoParent
     \/ rows[rows[t].parent].status \notin {"completed", "dead_letter"}

\* The first two outcomes of _deps_satisfied; the third is "still waiting".
DepFailed(rows, t) ==
  \E d \in rows[t].deps : rows[d].status \in {"dead_letter", "failed"}

\* Slip: waiting for no dependency to have failed instead of for all to deliver.
DepsNotFailed(rows, t) == ~DepFailed(rows, t)

DepsDone(rows, t) ==
  \A d \in rows[t].deps : rows[d].status = "completed"

(***************************************************************************)
(* The writes.                                                             *)
(***************************************************************************)
\* Slip: a claim that stamps no lease.
ClaimedForever(r) == [r EXCEPT !.status = "running", !.age = 0]

\* claim: the SET of the compare-and-set (its WHERE is the caller's guard).
Claimed(r) ==
  [r EXCEPT !.status = "running", !.lease = LeaseTicks, !.age = 0]

\* Slip: the ceiling compared with the count before this failure.
CeilingPassed(r) == r.attempts >= MaxAttempts

\* _CEILING_REACHED_SQL, evaluated on the row the UPDATE is changing.
CeilingReached(r) == r.attempts + 1 >= MaxAttempts

\* _EXPIRED_LEASE_WHERE
LeaseExpired(r) == r.status = "running" /\ r.lease = 0

\* reclaim_expired, on one row its WHERE selects.
Reclaimed(r) ==
  [r EXCEPT !.status = IF CeilingReached(r) THEN "dead_letter" ELSE "pending",
            !.lease = NoLease, !.attempts = r.attempts + 1,
            !.class = "lease_expired", !.age = 0]

\* The ceiling fail_and_requeue applies: the small one for an unachieved turn
\* and for a destination that has no addressee.
Ceiling(r, class) ==
  IF (class = "small" \/ r.destination = "bare") /\ SmallCeiling < MaxAttempts
  THEN SmallCeiling
  ELSE MaxAttempts

\* fail_and_requeue stops for good.  seen is the attempt_count read before.
StopsForGood(r, seen, class) ==
  class = "permanent" \/ seen + 1 >= Ceiling(r, class)

\* Slip: the failure gives the attempt back instead of charging it.
FailedRefunded(r, seen, class) ==
  [r EXCEPT !.status = IF StopsForGood(r, seen, class) THEN "dead_letter"
                                                       ELSE "pending",
            !.attempts = seen - 1, !.class = class, !.lease = NoLease, !.age = 0]

\* fail_and_requeue's UPDATE: it writes seen + 1 whatever the row now holds,
\* and has no guard on the row's status.
FailedAttempt(r, seen, class) ==
  IF StopsForGood(r, seen, class)
  THEN [r EXCEPT !.status = "dead_letter", !.attempts = seen + 1,
                 !.class = class, !.lease = NoLease, !.age = 0]
  ELSE [r EXCEPT !.status = "pending", !.attempts = seen + 1,
                 !.class = class, !.lease = NoLease, !.backoff = TRUE,
                 !.age = 0]

\* claim_for_recovery: the sweep charges an attempt, which at the ceiling sends
\* the row to dead_letter and still counts as claimed; the lease is left alone.
ClaimedForRecovery(r, charged) ==
  IF charged
  THEN [r EXCEPT !.status = IF CeilingReached(r) THEN "dead_letter"
                                                 ELSE "recovering",
                 !.attempts = r.attempts + 1, !.class = "reclaimed_stale",
                 !.age = 0]
  ELSE [r EXCEPT !.status = "recovering", !.age = 0]

\* Slip: the row is not returned to running before its drive is launched.
SlipReturnedToRunning(r) == r

\* _return_to_running: an update_status guarded by nothing but the id.
ReturnedToRunning(r) == [r EXCEPT !.status = "running", !.age = 0]

\* Slip: the proof of delivery is written, the status and the lease are not.
DeliveredStampOnly(r) == [r EXCEPT !.answered = TRUE, !.delivered = TRUE, !.age = 0]

\* mark_delivered
Delivered(r) ==
  [r EXCEPT !.status = "completed", !.answered = TRUE, !.delivered = TRUE,
            !.lease = NoLease, !.age = 0]

\* mark_completed_unaddressed
CompletedUnaddressed(r) ==
  [r EXCEPT !.status = "completed", !.answered = TRUE, !.acknowledged = TRUE,
            !.lease = NoLease, !.age = 0]

\* The cascade of _deps_satisfied (the lease columns are not in its SET).
DependencyFailed(r) ==
  [r EXCEPT !.status = "dead_letter", !.class = "dependency_failed", !.age = 0]

\* set_dependencies: the status and the lease are not in its SET.
Waiting(r, children) ==
  [r EXCEPT !.deps = children, !.backoff = FALSE, !.age = 0]

\* Slip: the revival picks up dead letters too.
StrandedOrDead(r) ==
  r.status \in {"failed", "dead_letter"} /\ r.destination # "none" /\ ~r.delivered

\* revive_undelivered_failures: the rows its WHERE selects, and its UPDATE
\* (the class it reads in a legacy error text is taken to be none).
Stranded(r) ==
  r.status = "failed" /\ r.destination # "none" /\ ~r.delivered

Revived(r) ==
  [r EXCEPT !.status = "pending", !.backoff = FALSE, !.lease = NoLease,
            !.age = 0]

\* Slip: only the dead letters somebody can be told of are reviewed.
UnannouncedAddressed(r) ==
  /\ r.status = "dead_letter" /\ ~r.delivered /\ ~r.acknowledged
  /\ r.destination = "addressed"

\* resolve_unannounced_dead_letters: the rows it selects, and its UPDATE.
Unannounced(r) ==
  r.status = "dead_letter" /\ ~r.delivered /\ ~r.acknowledged

Acknowledged(r) == [r EXCEPT !.acknowledged = TRUE]

\* prune_completed's WHERE.
Prunable(r) == r.status = "completed" /\ r.age = OldTicks

\* One tick of wall-clock time on a row.  Only running and completed rows
\* have their updated_at read, so only theirs is counted.
Older(r) ==
  [r EXCEPT !.lease = IF r.lease > 0 THEN r.lease - 1 ELSE r.lease,
            !.age = IF r.status \in {"running", "completed"} /\ r.age < OldTicks
                    THEN r.age + 1 ELSE r.age]

\* For the modules that do not count time: the columns they read, with the row's
\* clocks run down and its attempts counted up to the ceiling.
Timeless(r) ==
  [r EXCEPT !.attempts = IF @ > MaxAttempts THEN MaxAttempts ELSE @,
            !.class = "none", !.answered = FALSE, !.age = 0, !.backoff = FALSE,
            !.lease = IF r.lease = NoLease THEN NoLease ELSE 0]
=============================================================================
