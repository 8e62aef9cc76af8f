---------------------------- MODULE JobScheduler ----------------------------
(***************************************************************************)
(* The job scheduler of StackOwl (scheduler/scheduler.py with its helpers  *)
(* and mutations): one row of the `jobs` table, everybody who dispatches   *)
(* it (overlapping poll cycles, run_now, the replay at boot), everybody    *)
(* who frees it (the settling of a run, the two reapers) and the owner's   *)
(* commands.  Jobs share nothing but the poll loop, so one row is enough.  *)
(*                                                                         *)
(* A scheduled instant is an identity, because job_runs keys the completed *)
(* runs by `idempotency_key@next_run_at`.  An instant is named after the   *)
(* first of its holders (the row, the wall clock, the dispatches), so only *)
(* the instants that somebody still holds are kept, without a horizon.     *)
(* All else about time is whether an instant has come yet.                 *)
(***************************************************************************)
EXTENDS Integers, FiniteSets

CONSTANTS
  MaxPolls,     \* poll cycles that may be in flight together
  MaxRetries,   \* _MAX_RETRIES
  MaxFaults,    \* bound on crashes and failed statements
  MaxEdits      \* bound on the owner's commands

ASSUME JobAssumption ==
  /\ MaxPolls \in Nat \ {0}
  /\ MaxRetries \in Nat \ {0}
  /\ MaxFaults \in Nat /\ MaxEdits \in Nat

Now == 3                     \* the dispatcher of the run_now command
Pollers == 4..(3 + MaxPolls) \* the dispatchers of the poll cycles
Dispatchers == {Now} \cup Pollers

\* The names of instants: the row's, the wall clock's, the dispatchers'.
RowSlot == 1
DaySlot == 2
Slots == {RowSlot, DaySlot} \cup Dispatchers
NoSlot == 0
NewSlot == 4 + MaxPolls      \* an instant that nobody holds yet

\* How compute_next_run places the next run: "daily" (daily@ and cron) at a
\* fixed wall-clock instant, "every" at now + interval, "once" (params
\* run_once) not at all.
Kinds == {"daily", "every", "once"}

Row == [status  : {"absent", "pending", "running", "failed"},
        enabled : BOOLEAN,
        slot    : Slots \cup {NoSlot},         \* next_run_at
        retry   : {"none", "wait", "due"},     \* retry_at
        retries : 0..(MaxRetries - 1),         \* retry_count
        claim   : {"none", "fresh", "stale"}]  \* claimed_at

NoRow == [status |-> "absent", enabled |-> FALSE, slot |-> NoSlot,
          retry |-> "none", retries |-> 0, claim |-> "none"]

\* An instant: whether it has come, and whether job_runs holds a completed run
\* for it, written before ("early") or after ("due") it came.
Instant == [when : {"free", "future", "past"},
            done : {"no", "early", "due"}]
Unused == [when |-> "free", done |-> "no"]
Coming == [when |-> "future", done |-> "no"]

\* One dispatch: the Job object it read (slot, retries) and how far it is.
Dispatch == [pc : {"idle", "dedup", "skip", "claim", "run", "record", "settle"},
             slot    : Slots \cup {NoSlot},
             retries : 0..(MaxRetries - 1),
             outcome : {"none", "ok", "transient", "permanent"}]
Idle == [pc |-> "idle", slot |-> NoSlot, retries |-> 0, outcome |-> "none"]

VARIABLES
  kind,      \* the job's schedule and params, which do not change kind
  row,       \* its row
  instants,  \* [Slots -> Instant]
  cadence,   \* the coming wall-clock instant of a "daily" schedule
  audited,   \* audit_log holds job_failed_terminal for the job
  disp,      \* [Dispatchers -> Dispatch]
  reaper,    \* a poll cycle has the row in its list of stale claims
  sched,     \* "down", "boot", "replay", "replaying" (recover), "up"
  faults, edits,
  finished,  \* job_runs holds a completed run of this one-shot
  strays,    \* what goes on of handlers that were given up at their timeout:
             \* "held" while the row is still running for one of them, "freed"
             \* once the row has been given back although it goes on
  overruled  \* history: the owner changed the row during a dispatch or after a
             \* one-shot had finished, a reaper freed the row although its
             \* dispatch was alive or its claim was not the stale one, or a
             \* dispatch claimed the row on a copy it read before a re-arm

vars == <<kind, row, instants, cadence, audited, disp, reaper, sched,
          faults, edits, finished, strays, overruled>>

Init ==
  /\ kind \in Kinds
  /\ row = [NoRow EXCEPT !.status = "pending", !.enabled = TRUE,
                     !.slot = RowSlot]
  /\ instants = [s \in Slots |-> IF s = RowSlot THEN Coming ELSE Unused]
  /\ cadence = IF kind = "daily" THEN RowSlot ELSE NoSlot
  /\ audited = FALSE
  /\ disp = [d \in Dispatchers |-> Idle]
  /\ reaper = FALSE
  /\ sched = "up"
  /\ faults = 0 /\ edits = 0
  /\ finished = FALSE /\ strays = {} /\ overruled = FALSE

(***************************************************************************)
(* Instants.                                                               *)
(***************************************************************************)
Recurring == kind # "once"
Arrived(s) == instants[s].when = "past"

\* compute_next_run for a recurring job: strictly in the future.
NextSlot == IF kind = "daily" THEN cadence ELSE NewSlot

\* instants, with a new one that has not come yet.
Opened == [s \in Slots \cup {NewSlot} |->
             IF s = NewSlot THEN Coming ELSE instants[s]]

\* Who holds which instant, when the row is r, the dispatches are ds and the
\* coming wall-clock instant is c.
Holding(r, ds, c) ==
  [h \in Slots |-> IF h = RowSlot THEN r.slot
                   ELSE IF h = DaySlot THEN c ELSE ds[h].slot]

\* The name of s is its first holder.
First(held, s) ==
  CHOOSE h \in Slots : held[h] = s /\ \A k \in 1..(h - 1) : held[k] # s

Named(held, s) == IF s = NoSlot THEN NoSlot ELSE First(held, s)

\* The next state of the table: row r, dispatches ds, coming wall-clock instant
\* c and instants f, every instant under the name of its first holder.
\* Deleting the row deletes its job_runs (ON DELETE CASCADE).  claimed_at is
\* only read while the row is running.
Renames(r, ds, c, f) ==
  LET held == Holding(r, ds, c)
  IN /\ row' = [r EXCEPT !.slot = Named(held, r.slot),
                         !.claim = IF r.status = "running" THEN r.claim ELSE "none"]
     /\ disp' = [d \in Dispatchers |->
                   [ds[d] EXCEPT !.slot = Named(held, ds[d].slot)]]
     /\ cadence' = Named(held, c)
     /\ instants' = [h \in Slots |->
          IF Named(held, held[h]) # h THEN Unused
          ELSE IF r.status = "absent" THEN [f[held[h]] EXCEPT !.done = "no"]
          ELSE f[held[h]]]
     /\ finished' = (/\ ~Recurring /\ r.status # "absent"
                     /\ finished \/ \E h \in Slots : f[h].done # "no")

\* Whoever gives the row back does not stop what a timed-out handler has spawned.
GivenBack == IF "held" \in strays THEN {"freed"} ELSE strays

Becomes(r, ds, c, f) ==
  /\ Renames(r, ds, c, f)
  /\ strays' = IF row'.status = "running" THEN strays ELSE GivenBack

\* INSERT INTO job_runs ... 'completed' under the occurrence key of s.
Recorded(f, s) ==
  [f EXCEPT ![s].done = IF f[s].when = "future" THEN "early" ELSE "due"]

\* UPDATE jobs SET ... WHERE job_id = ?: a deleted row stays deleted.
Write(new) == IF row.status = "absent" THEN row ELSE new

AtWork == {d \in Dispatchers : disp[d].pc \in {"run", "record", "settle"}}

Stop(d)  == [disp EXCEPT ![d] = Idle]
Go(d, p) == [disp EXCEPT ![d].pc = p]

\* Either a statement of the step fails, which the bound pays for, or not.
Fault   == faults < MaxFaults /\ faults' = faults + 1
NoFault == UNCHANGED faults

RowOnly == UNCHANGED <<kind, audited, reaper, sched, edits, overruled>>

(***************************************************************************)
(* A dispatch: _poll and _run_job, run_now, recover's replay.              *)
(***************************************************************************)
\* _poll's SELECT: retry_at alone governs when it is set.
Due == /\ row.status = "pending" /\ row.enabled
       /\ IF row.retry = "none" THEN Arrived(row.slot) ELSE row.retry = "due"

\* row_to_job: the dispatch works on this copy from here on.
ReadsRow(d, p) ==
  [disp EXCEPT ![d] = [pc |-> p, slot |-> row.slot, retries |-> row.retries,
                       outcome |-> "none"]]

PollSelects(d) ==
  /\ sched = "up" /\ disp[d].pc = "idle" /\ Due
  /\ Becomes(row, ReadsRow(d, "dedup"), cadence, instants)
  /\ NoFault /\ RowOnly

\* run_now: refuses a disabled job; only for a one-shot does it ask whether
\* the occurrence is already recorded.
NowReads ==
  /\ sched # "down" /\ disp[Now].pc = "idle"
  /\ row.status # "absent" /\ row.enabled
  /\ edits < MaxEdits /\ edits' = edits + 1
  /\ Becomes(row, ReadsRow(Now, IF Recurring THEN "claim" ELSE "dedup"),
             cadence, instants)
  /\ NoFault /\ UNCHANGED <<kind, audited, reaper, sched, overruled>>

\* The SELECT on job_runs under the occurrence key that was read.
Dedup(d) ==
  /\ disp[d].pc = "dedup"
  /\ Becomes(row, Go(d, IF instants[disp[d].slot].done = "no"
                          THEN "claim" ELSE "skip"), cadence, instants)
  /\ NoFault /\ RowOnly

SlipSkip(d) ==
  /\ disp[d].pc = "skip" /\ Becomes(row, Stop(d), cadence, instants)
  /\ NoFault /\ RowOnly

\* _advance_past_serviced_occurrence, and run_now's refusal of a finished
\* one-shot: a recurring row goes to its next slot if the slot that was read
\* has come, a one-shot is deleted.  Neither looks at the status again.
Skip(d) ==
  /\ disp[d].pc = "skip"
  /\ \/ /\ Recurring /\ Arrived(disp[d].slot)
        /\ Becomes(Write([row EXCEPT !.slot = NextSlot]), Stop(d), cadence,
                   Opened)
        /\ NoFault
     \/ /\ Recurring /\ ~Arrived(disp[d].slot)
        /\ Becomes(row, Stop(d), cadence, instants) /\ NoFault
     \/ ~Recurring /\ Becomes(NoRow, Stop(d), cadence, instants) /\ NoFault
     \/ Becomes(row, Stop(d), cadence, instants) /\ Fault
  /\ RowOnly

SlipUnstamped(r) == [r EXCEPT !.status = "running"]

\* The claim stamps claimed_at in the same statement.
Claimed(r) == [r EXCEPT !.status = "running", !.claim = "fresh"]

SlipClaimable == row.status \in {"pending", "running"}

\* WHERE status = 'pending'
Claimable == row.status = "pending"

\* The compare-and-swap.  A dispatch that loses it stops; one that wins goes on
\* with the Job it read before, even if the row was re-armed since.
Claim(d) ==
  /\ disp[d].pc = "claim"
  /\ IF Claimable
       THEN /\ Becomes(Claimed(row), Go(d, "run"), cadence, instants)
            /\ overruled' = (overruled \/ disp[d].slot # row.slot)
       ELSE Becomes(row, Stop(d), cadence, instants) /\ UNCHANGED overruled
  /\ NoFault /\ UNCHANGED <<kind, audited, reaper, sched, edits>>

\* _restore_after_run: what run_now does with a recurring row.
Restored == [row EXCEPT !.status = "pending", !.slot = NextSlot]

\* No handler is registered under the job's name: the claim is released.
HandlerMissing(d) ==
  /\ disp[d].pc = "run" /\ Fault
  /\ IF d = Now /\ Recurring
       THEN Becomes(Write(Restored), Stop(d), cadence, Opened)
       ELSE Becomes(Write([row EXCEPT !.status = "pending"]), Stop(d),
                    cadence, instants)
  /\ RowOnly

\* The handler returns or raises.  Whether a failure is permanent is
\* classify_failure's reading of its text.
HandlerEnds(d, o) ==
  /\ disp[d].pc = "run"
  /\ Becomes(row, [disp EXCEPT ![d].pc = IF d = Now THEN "record" ELSE "settle",
                                ![d].outcome = o], cadence, instants)
  /\ NoFault /\ RowOnly

\* A poll cycle gives its handler up (asyncio.wait_for, _HANDLER_TIMEOUT_SEC).
\* That cancels the coroutine, not the tasks it has spawned: they may go on
\* while _settle gives the row back.  A timeout is no permanent failure.
HandlerTimesOut(d) ==
  /\ d \in Pollers /\ disp[d].pc = "run"
  /\ Renames(row, [disp EXCEPT ![d].pc = "settle", ![d].outcome = "transient"],
             cadence, instants)
  /\ \/ UNCHANGED strays
     \/ strays' = strays \cup {IF row.status = "running" THEN "held" ELSE "freed"}
  /\ NoFault /\ RowOnly

\* What was left behind comes to its end; nobody waits for it.
StrayEnds ==
  /\ \E k \in strays : strays' = strays \ {k}
  /\ UNCHANGED <<row, instants, finished, cadence, disp, faults>> /\ RowOnly

\* _record_run of run_now.  With the row gone the INSERT fails on its key.
Record ==
  /\ disp[Now].pc = "record"
  /\ \/ /\ row.status # "absent" /\ NoFault
        /\ Becomes(row, Go(Now, "settle"), cadence,
                   IF disp[Now].outcome = "ok"
                     THEN Recorded(instants, disp[Now].slot) ELSE instants)
     \/ /\ row.status = "absent" /\ NoFault
        /\ Becomes(row, Stop(Now), cadence, instants)
     \/ Becomes(row, Stop(Now), cadence, instants) /\ Fault
  /\ RowOnly

(***************************************************************************)
(* Settling a run.  No statement looks at the status the row has by then.  *)
(***************************************************************************)
\* _mark_completed
CompleteRecurring(d) ==
  /\ Becomes(Write([row EXCEPT !.status = "pending", !.slot = NextSlot,
                               !.retry = "none", !.retries = 0]),
             Stop(d), cadence,
             IF row.status = "absent" THEN instants
             ELSE Recorded(Opened, disp[d].slot))
  /\ NoFault /\ UNCHANGED audited

\* _retire_completed_one_shot: delete; if that fails, record the run; if that
\* fails too, the row stays as it is.
RetireOneShot(d) ==
  /\ \/ Becomes(NoRow, Stop(d), cadence, instants) /\ NoFault
     \/ /\ row.status # "absent" /\ Fault
        /\ \/ Becomes(row, Stop(d), cadence, Recorded(instants, disp[d].slot))
           \/ Becomes(row, Stop(d), cadence, instants)
  /\ UNCHANGED audited

SlipMayRetry(d) == disp[d].retries + 1 <= MaxRetries

\* new_retries < _MAX_RETRIES (_may_retry agrees for every scheduled job)
MayRetry(d) == disp[d].retries + 1 < MaxRetries

\* The retry arm of _settle: retry_at is set, next_run_at is not touched.
RetryLater(d) ==
  /\ Becomes(Write([row EXCEPT !.status = "pending", !.retry = "wait",
                               !.retries = disp[d].retries + 1]),
             Stop(d), cadence, instants)
  /\ NoFault /\ UNCHANGED audited

\* _mark_failed of a one-shot that cannot work: audit and delete in one
\* transaction, else status failed (or not even that).
GiveUpOneShot(d) ==
  \/ /\ Becomes(NoRow, Stop(d), cadence, instants) /\ NoFault
     /\ audited' = TRUE
  \/ /\ Fault /\ audited' \in {audited, TRUE}
     /\ \/ Becomes(Write([row EXCEPT !.status = "failed"]), Stop(d), cadence,
                   instants)
        \/ Becomes(row, Stop(d), cadence, instants)

SlipRearm(d) ==
  /\ Becomes(Write([row EXCEPT !.status = "failed"]), Stop(d), cadence, instants)
  /\ NoFault /\ UNCHANGED audited

\* _rearm_one_shot (a back-off instant of its own) and the recurring branch of
\* _mark_failed (the next slot, and for a failure that may pass a retry_at
\* that comes earlier).
Rearm(d) ==
  /\ \E retry \in IF Recurring /\ disp[d].outcome = "transient"
                     THEN {"none", "wait"} ELSE {"none"} :
       LET s == IF Recurring THEN NextSlot ELSE NewSlot IN
       Becomes(Write([row EXCEPT !.status = "pending", !.slot = s,
                                 !.retry = retry, !.retries = 0]),
               Stop(d), cadence, Opened)
  /\ NoFault /\ UNCHANGED audited

\* run_now hands a one-shot to _settle and restores a recurring job itself.
Settle(d) ==
  /\ disp[d].pc = "settle"
  /\ \/ /\ d = Now /\ Recurring
        /\ Becomes(Write(Restored), Stop(d), cadence, Opened)
        /\ NoFault /\ UNCHANGED audited
     \/ /\ ~(d = Now /\ Recurring)
        /\ \/ disp[d].outcome = "ok" /\ Recurring /\ CompleteRecurring(d)
           \/ disp[d].outcome = "ok" /\ ~Recurring /\ RetireOneShot(d)
           \/ /\ disp[d].outcome # "ok"
              /\ \/ MayRetry(d) /\ RetryLater(d)
                 \/ /\ ~MayRetry(d)
                    /\ IF ~Recurring /\ disp[d].outcome = "permanent"
                         THEN GiveUpOneShot(d) ELSE Rearm(d)
     \/ Becomes(row, Stop(d), cadence, instants) /\ Fault /\ UNCHANGED audited
  /\ UNCHANGED <<kind, reaper, sched, edits, overruled>>

(***************************************************************************)
(* Freeing rows that nobody settles: the first two steps of a poll cycle.  *)
(***************************************************************************)
Rest == UNCHANGED <<kind, audited, edits>>

\* reap_timed_out_running reads the stale claims, then writes row by row,
\* guarded by the status alone.  A NULL claimed_at is never stale.
ReapSelects ==
  /\ sched = "up" /\ ~reaper
  /\ row.status = "running" /\ row.claim = "stale"
  /\ reaper' = TRUE
  /\ UNCHANGED <<row, instants, finished, strays, cadence, disp, sched, faults, overruled>> /\ Rest

ReapWrites ==
  /\ reaper /\ reaper' = FALSE
  /\ IF row.status = "running"
       THEN /\ Becomes([row EXCEPT !.status = "pending"], disp, cadence, instants)
            /\ overruled' = (overruled \/ AtWork # {} \/ row.claim = "fresh")
       ELSE UNCHANGED <<row, instants, finished, strays, cadence, disp, overruled>>
  /\ UNCHANGED <<sched, faults>> /\ Rest

\* _retire_recorded_terminal_one_shots: the failure is recorded first where it
\* was not; a paused one-shot is not touched.
RetireTerminal ==
  /\ sched = "up" /\ ~Recurring
  /\ row.status = "failed" /\ row.enabled
  /\ \/ audited' = TRUE /\ NoFault /\ Becomes(NoRow, disp, cadence, instants)
     \/ audited' \in {audited, TRUE} /\ Fault
        /\ UNCHANGED <<row, instants, finished, strays, cadence, disp>>
  /\ UNCHANGED <<kind, reaper, sched, edits, overruled>>

(***************************************************************************)
(* The owner's commands.  Each is an unconditional UPDATE or DELETE.       *)
(***************************************************************************)
\* pause, resume and snooze write the status too, whoever runs the job.
Command(r, f) ==
  /\ sched # "down" /\ row.status # "absent"
  /\ edits < MaxEdits /\ edits' = edits + 1
  /\ Becomes(r, disp, cadence, f)
  /\ overruled' = (\/ overruled \/ row.status = "running" \/ finished
                   \/ \E d \in Dispatchers : disp[d].pc # "idle")
  /\ UNCHANGED <<kind, audited, reaper, sched, faults>>

Pause == Command([row EXCEPT !.status = "failed", !.enabled = FALSE], instants)

\* A recurring job resumes at its next slot, a one-shot at its own.  Neither
\* resume nor snooze clears retry_at.
Resume ==
  IF Recurring
    THEN Command([row EXCEPT !.status = "pending", !.enabled = TRUE,
                             !.slot = NextSlot], Opened)
    ELSE Command([row EXCEPT !.status = "pending", !.enabled = TRUE], instants)

Snooze ==
  Command([row EXCEPT !.status = "pending", !.enabled = TRUE,
                      !.slot = NewSlot], Opened)

\* update_job with a new schedule of the same kind.
Edit ==
  Command([row EXCEPT !.slot = IF Recurring THEN NextSlot ELSE NewSlot], Opened)

StopJob == Command(NoRow, instants)

(***************************************************************************)
(* Restart.  recover() runs before the poll loop, but after the ingress    *)
(* that carries the owner's commands.                                      *)
(***************************************************************************)
Crash ==
  /\ sched # "down" /\ Fault
  /\ sched' = "down" /\ reaper' = FALSE
  /\ Renames(row, [d \in Dispatchers |-> Idle], cadence, instants)
  /\ strays' = {}
  /\ UNCHANGED <<kind, audited, edits, overruled>>

Starts ==
  /\ sched = "down" /\ sched' = "boot"
  /\ UNCHANGED <<row, instants, finished, strays, cadence, disp, reaper, faults, overruled>> /\ Rest

SlipReaped == [row EXCEPT !.status = "pending", !.slot = NewSlot]

\* A one-shot keeps its own slot.
Reaped == IF Recurring THEN Restored ELSE [row EXCEPT !.status = "pending"]

\* reap_stale_running: every running row, whoever set it.
BootReap ==
  /\ sched = "boot" /\ sched' = "replay"
  /\ IF row.status # "running"
     THEN UNCHANGED <<row, instants, finished, strays, cadence, disp, overruled>>
     ELSE /\ Becomes(Reaped, disp, cadence, Opened)
          /\ overruled' = (overruled \/ AtWork # {})
  /\ UNCHANGED <<reaper, faults>> /\ Rest

\* recover's own SELECT: pending and overdue, enabled or not.
Missed == row.status = "pending" /\ Arrived(row.slot)

\* Replayed through _run_job.  Whether the instant is inside the window, and
\* whether an "every" job has replay_missed, is left open.
BootReplays(d) ==
  /\ sched = "replay" /\ Missed
  /\ sched' = "replaying"
  /\ Becomes(row, ReadsRow(d, "dedup"), cadence, instants)
  /\ UNCHANGED <<reaper, faults, overruled>> /\ Rest

\* Outside the window: a recurring row goes to its next slot.
BootDrops ==
  /\ sched = "replay" /\ Missed /\ sched' = "up"
  /\ IF Recurring
       THEN Becomes([row EXCEPT !.slot = NextSlot], disp, cadence, Opened)
       ELSE UNCHANGED <<row, instants, finished, strays, cadence, disp>>
  /\ UNCHANGED <<reaper, faults, overruled>> /\ Rest

\* Nothing missed, a replay that is deferred, or one that has come back.
BootEnds ==
  /\ \/ sched = "replay"
     \/ sched = "replaying" /\ \A d \in Pollers : disp[d].pc = "idle"
  /\ sched' = "up"
  /\ UNCHANGED <<row, instants, finished, strays, cadence, disp, reaper, faults, overruled>> /\ Rest

\* recover raises; the orchestrator starts the scheduler anyway.
BootFails ==
  /\ sched \in {"boot", "replay"} /\ Fault /\ sched' = "up"
  /\ UNCHANGED <<row, instants, finished, strays, cadence, disp, reaper, overruled>> /\ Rest

(***************************************************************************)
(* Time.  Instants come in any order, except that the wall-clock           *)
(* ones of a daily schedule follow each other.                             *)
(***************************************************************************)
Tick == UNCHANGED <<kind, audited, reaper, sched, faults, edits, overruled>>

InstantPasses(s) ==
  /\ instants[s].when = "future" /\ s # cadence
  /\ instants' = [instants EXCEPT ![s].when = "past"]
  /\ UNCHANGED <<row, cadence, disp, finished, strays>> /\ Tick

DayPasses ==
  /\ kind = "daily" /\ row.status # "absent"
  /\ Becomes(row, disp, NewSlot, [Opened EXCEPT ![cadence].when = "past"])
  /\ Tick

\* Nobody is between two statements of one dispatch or of one reaping: what
\* takes minutes happens only then.
Unhurried == ~reaper /\ \A d \in Dispatchers : disp[d].pc \in {"idle", "run"}

RetryArrives ==
  /\ row.retry = "wait" /\ Unhurried /\ row' = [row EXCEPT !.retry = "due"]
  /\ UNCHANGED <<instants, cadence, disp, finished, strays>> /\ Tick

\* Forty minutes after the claim: a poll cycle has given up its handler after
\* twenty, run_now has no timeout.
GoesStale ==
  /\ row.status = "running" /\ row.claim = "fresh" /\ Unhurried
  /\ \A d \in Pollers : disp[d].pc = "idle"
  /\ row' = [row EXCEPT !.claim = "stale"]
  /\ UNCHANGED <<instants, cadence, disp, finished, strays>> /\ Tick

(***************************************************************************)
(* The specification.                                                      *)
(***************************************************************************)
DispatchStep(d) ==
  \/ Dedup(d) \/ Skip(d) \/ Claim(d) \/ Settle(d)
  \/ d = Now /\ Record

RunEnds(d) ==
  \/ \E o \in {"ok", "transient", "permanent"} : HandlerEnds(d, o)
  \/ HandlerTimesOut(d)

Boot == \/ Starts \/ BootReap \/ BootDrops \/ BootEnds
        \/ \E d \in Pollers : BootReplays(d)

Time == \/ \E s \in Slots : InstantPasses(s)
        \/ DayPasses \/ RetryArrives \/ GoesStale

Next ==
  \/ \E d \in Pollers : PollSelects(d)
  \/ \E d \in Dispatchers : DispatchStep(d) \/ RunEnds(d) \/ HandlerMissing(d)
  \/ StrayEnds
  \/ ReapSelects \/ ReapWrites \/ RetireTerminal
  \/ NowReads \/ Pause \/ Resume \/ Snooze \/ Edit \/ StopJob
  \/ Boot \/ BootFails \/ Crash
  \/ Time

Spec == Init /\ [][Next]_vars

\* The event loop runs every coroutine that is ready, the poll loop ticks for
\* ever, a poll cycle's handler ends or is given up at _HANDLER_TIMEOUT_SEC (what
\* it leaves behind need not end), the supervisor
\* starts the process again, and time passes, whoever else is at work.
\* run_now's handler may hang.
\* A heavy job that yields to an active turn is passed over only until it is
\* overdue by max_defer_sec (_should_defer_under_load).
Fairness ==
  /\ \A d \in Pollers : WF_vars(PollSelects(d)) /\ WF_vars(RunEnds(d))
  /\ \A d \in Dispatchers : WF_vars(DispatchStep(d))
  /\ WF_vars(ReapSelects \/ ReapWrites \/ RetireTerminal)
  /\ WF_vars(Boot)
  /\ WF_vars(InstantPasses(RowSlot)) /\ WF_vars(DayPasses)
  /\ SF_vars(RetryArrives) /\ SF_vars(GoesStale)

FairSpec == Spec /\ Fairness

(***************************************************************************)
(* Properties.                                                             *)
(***************************************************************************)
\* Every variable has its type, a row that exists has an instant that is kept,
\* and a dispatch that is under way remembers one.
JobTypeOK ==
  /\ kind \in Kinds /\ row \in Row /\ instants \in [Slots -> Instant]
  /\ cadence \in Slots \cup {NoSlot} /\ audited \in BOOLEAN
  /\ disp \in [Dispatchers -> Dispatch] /\ reaper \in BOOLEAN
  /\ sched \in {"down", "boot", "replay", "replaying", "up"}
  /\ finished \in BOOLEAN /\ strays \subseteq {"held", "freed"}
  /\ overruled \in BOOLEAN
  /\ faults \in 0..MaxFaults /\ edits \in 0..MaxEdits
  /\ row.status # "absent" => instants[row.slot].when # "free"
  /\ \A d \in Dispatchers :
       disp[d].pc # "idle" => instants[disp[d].slot].when # "free"

\* Overlapping poll cycles, run_now and the replay at boot never run the
\* handler of one job at the same time, as long as nobody takes a running row
\* away from its dispatch: what _run_job's compare-and-swap is for.  What a
\* timed-out handler leaves behind is not overlapped either as long as the row
\* is running; once _settle or the reaper has given the row back ("freed"), the
\* next run may start beside it.
NoOverlap ==
  ~overruled =>
    /\ Cardinality(AtWork) <= 1
    /\ "held" \in strays => \A d \in Dispatchers : disp[d].pc # "run"

\* A one-shot with a completed run on record is never started again, whatever
\* failed after its handler returned: its delete, the settling, the process.
\* The dedup of _run_job, run_now's refusal and the slot that both reapers keep
\* work together for it.
FinishedNotRerun ==
  [][\A d \in Dispatchers :
       disp[d].pc = "claim" /\ disp'[d].pc = "run" => overruled \/ ~finished]_vars

\* A job that is enabled and waits (also after failures, after a run was
\* skipped as already recorded, or after a restart) is dispatched again, retired
\* or paused: no job is left behind by _poll's SELECT.
JobFires ==
  row.enabled /\ row.status \in {"pending", "failed"}
    ~> row.status \in {"running", "absent"} \/ ~row.enabled

\* A claimed row is always given up again, by its settling or, when that failed
\* or the handler never returns, by one of the two reapers.
ClaimReleased == row.status = "running" ~> row.status # "running"

\* A one-shot that has finished does not stay in the table: its completed run
\* was recorded, or its failure made it terminal, and a later poll retires it.
OneShotFinished ==
  /\ kind = "once" /\ row.enabled
  /\ \/ row.status = "failed"
     \/ row.status # "absent" /\ instants[row.slot].done # "no"
OneShotRetires == OneShotFinished ~> ~OneShotFinished

\* An occurrence of a daily job is skipped as already run only when a run was
\* recorded for it once its instant had come.
NextOccurrenceFires ==
  \A d \in Dispatchers :
    kind = "daily" /\ disp[d].pc = "skip"
      => instants[disp[d].slot].done = "due"
=============================================================================
