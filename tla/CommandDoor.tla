----------------------------- MODULE CommandDoor -----------------------------
(***************************************************************************)
(* The command door (commands/spec/): one command, that is one row of      *)
(* kind 'command' in the tasks table, from its submission to its receipt.  *)
(* submit_command inserts the row and runs it inline; the one loop runs it *)
(* when nobody did; the action-policy gate parks it until the owner has    *)
(* answered its Needs-you item; the resume sweep brings it back.  Callers  *)
(* that pass the same command_id share the row.                            *)
(*                                                                         *)
(* Boot recovery and the liveness sweep are here too, because neither      *)
(* looks at the kind of the rows it takes.                                 *)
(*                                                                         *)
(* The process is one event loop: a step is the code between two awaits.   *)
(* Time is not counted.  What a handler does may take any time, so that    *)
(* the lease of its row expires or the row counts as stale; a call of the  *)
(* store takes less than either.                                           *)
(***************************************************************************)
EXTENDS DurableStore

CONSTANTS
  Commands,     \* what may be submitted
  MaxSubmits,   \* bound: calls of submit_command with this command_id
  MaxFaults     \* bound: crashes of the process, and calls that raise

\* What a CommandSpec declares, who asks, and whether submit_command found a
\* standing authority.  sends: the handler sends something and cannot undo it
\* (notifications/commands.py); the others change tables of the same database.
Command == [severity : {"write", "consequential"}, reversible : BOOLEAN,
            requester : {"owner", "owl", "autonomous"}, grant : BOOLEAN,
            sends : BOOLEAN]

ASSUME CommandAssumption ==
  /\ Commands \subseteq Command
  /\ MaxSubmits \in Nat \ {0}
  /\ MaxFaults \in Nat

VARIABLES
  command,   \* the command that the command_id stands for
  row,       \* its row in the tasks table
  verdict,   \* gate_verdict
  receipt,   \* command_receipts has the command_id
  item,      \* the latest Needs-you item bound to the row
  worker,    \* each submitter's call, and the loop's dispatch
  reply,     \* what each submitter was told
  sweep,     \* the resume sweep
  rescue,    \* boot recovery, later the liveness sweep
  drive,     \* a resumed drive of the row, in which the model runs
  phase,     \* how far this process is with its start
  effects,   \* history: how often the command took effect
  void,      \* history: a handler reported success and nothing was ever done
  granted,   \* history: the owner has approved
  rescued,   \* history: recovery took the row
  exposed,   \* history: the lease of a live worker expired, or a send has lost
             \* its receipt
  faults

vars == <<command, row, verdict, receipt, item, worker, reply, sweep, rescue,
          drive, phase, effects, void, granted, rescued, exposed, faults>>

\* The calls of submit_command, in the order in which they come; Loop is the
\* dispatch of the one loop.
Submitters == 1..MaxSubmits
Loop == 0
Workers == Submitters \cup {Loop}

\* claim, fetch: the row is still to be claimed, or claimed and not yet read.
\* apply: in the handler of a mutator.  check, send, receipt: in the handler of
\* a sender.  ok, fail: the handler has returned.  failing: fail_and_requeue has
\* read the row.
Stages == {"idle", "claim", "fetch", "park", "apply", "check", "send",
           "receipt", "ok", "fail", "failing"}

\* approved: the gate_verdict of the copy the loop selected.  sent: the message
\* went out, or into a batch that will.  well: the deliverer's status counts as
\* a success.  seen, class: fail_and_requeue's.
Work == [stage : Stages, approved : BOOLEAN, sent : BOOLEAN, well : BOOLEAN,
         seen : Nat, class : FailureClasses]

Task(stage) == [stage |-> stage, approved |-> FALSE, sent |-> FALSE, well |-> FALSE,
                seen |-> 0, class |-> "transient"]

Idle == Task("idle")

\* other: failed, not known yet, or an exception, which nothing tells apart.
Replies == {"none", "ok", "other"}

\* starting: the boot pass of the resume sweep.  serving: the loop runs and
\* commands come in.  claiming: boot recovery.  up: the scheduler runs.
Phases == {"off", "starting", "serving", "claiming", "up"}

\* The columns of the row, the receipt and the item hold what the code writes
\* there, callers hear one of submit_command's outcomes, and the bound on faults
\* is kept.
CommandTypeOK ==
  /\ command \in Commands
  /\ row \in Row
  /\ verdict \in {"none", "asked", "approved"}
  /\ receipt \in BOOLEAN
  /\ item \in {"none", "open", "approved", "denied"}
  /\ worker \in [Workers -> Work]
  /\ reply \in [Submitters -> Replies]
  /\ sweep \in [stage : {"idle", "listed", "approve", "deny", "denying"}, seen : Nat]
  /\ rescue \in {"idle", "listed", "claimed"}
  /\ drive \in [stage : {"idle", "run", "close", "failing"}, seen : Nat,
                ending : {"none", "completed", "parked"}, class : FailureClasses]
  /\ phase \in Phases
  /\ effects \in Nat
  /\ {void, granted, rescued, exposed} \subseteq BOOLEAN
  /\ faults \in 0..MaxFaults

NoSweep == [stage |-> "idle", seen |-> 0]
NoDrive == [stage |-> "idle", seen |-> 0, ending |-> "none", class |-> "transient"]

Init ==
  /\ command \in Commands
  /\ row = NoRow
  /\ verdict = "none" /\ receipt = FALSE /\ item = "none"
  /\ worker = [w \in Workers |-> Idle]
  /\ reply = [s \in Submitters |-> "none"]
  /\ sweep = NoSweep /\ rescue = "idle" /\ drive = NoDrive
  /\ phase = "up"
  /\ effects = 0
  /\ void = FALSE /\ granted = FALSE /\ rescued = FALSE /\ exposed = FALSE
  /\ faults = 0

Put(r) == row' = Timeless(r)

Fault == faults < MaxFaults /\ faults' = faults + 1

\* Nobody but the workers moves; in workFrame, no handler ends.
handlerFrame == UNCHANGED <<command, sweep, rescue, drive, phase, granted, rescued>>
workFrame == handlerFrame /\ UNCHANGED void

Goes(w, task) == worker' = [worker EXCEPT ![w] = task] /\ UNCHANGED reply

\* The call returns, or the dispatch is over.
Returns(w, r) ==
  /\ worker' = [worker EXCEPT ![w] = Idle]
  /\ reply' = [s \in Submitters |-> IF s = w THEN r ELSE reply[s]]

(***************************************************************************)
(* submit_command, up to the execution.                                    *)
(***************************************************************************)
\* Slip: the caller is told the status of the row.
SlipStatusOf(r) == r.status

\* Slip: whatever has not failed has run.
SlipOutcomeOf(r) ==
  IF r.status \in {"failed", "dead_letter"} THEN "other" ELSE "ok"

\* What a retry of a command_id is told of the row that is there.
OutcomeOf(r) == IF r.status = "completed" THEN "ok" ELSE "other"

\* The INSERT.  A caller in the core goes on to run the row; one in a gateway
\* (run_inline=False) only leaves it there.  An INSERT that collides changes
\* nothing, so the lookup that follows it is the same step.
Submit(s) ==
  /\ worker[s] = Idle /\ reply[s] = "none"
  /\ s > 1 => worker[s - 1] # Idle \/ reply[s - 1] # "none"
  /\ \/ /\ row.status = "absent"
        /\ Put(NewRow("pending", "none", {}, NoParent))
        /\ verdict' = "none"
        /\ \/ phase \notin {"off", "starting"} /\ Goes(s, Task("claim"))
           \/ Returns(s, "other")
     \/ /\ row.status # "absent"
        /\ Returns(s, OutcomeOf(row))
        /\ UNCHANGED <<row, verdict>>
  /\ workFrame /\ UNCHANGED <<receipt, item, effects, exposed, faults>>

(***************************************************************************)
(* execute_command_task.                                                   *)
(***************************************************************************)
\* Slip: what can be undone runs at once, whoever asks.
SlipRunsAtOnce(c) ==
  /\ c.severity # "consequential"
  /\ c.reversible \/ (c.requester = "autonomous" /\ c.grant)

\* decide answers run_at_once.
RunsAtOnce(c) ==
  /\ c.severity # "consequential"
  /\ \/ c.reversible /\ c.requester # "owl"
     \/ ~c.reversible /\ c.requester = "autonomous" /\ c.grant

\* The gate is skipped when the copy of the row says approved.
Gate(approved) ==
  Task(IF ~approved /\ ~RunsAtOnce(command) THEN "park"
       ELSE IF command.sends THEN "check" ELSE "apply")

\* The loop claims what it selected and dispatches that copy; a submitter reads
\* the row again.  A lost claim is left to whoever won it.
Claim(w) ==
  /\ worker[w].stage = "claim"
  /\ \/ /\ row.status = "pending"
        /\ Put(Claimed(row))
        /\ Goes(w, IF w = Loop THEN Gate(worker[w].approved) ELSE Task("fetch"))
     \/ /\ row.status # "pending"
        /\ Returns(w, "other")
        /\ UNCHANGED row
  /\ workFrame /\ UNCHANGED <<verdict, receipt, item, effects, exposed, faults>>

Fetch(s) ==
  /\ worker[s].stage = "fetch"
  /\ Goes(s, Gate(verdict = "approved"))
  /\ workFrame
  /\ UNCHANGED <<row, verdict, receipt, item, effects, exposed, faults>>

\* park_for_decision: one transaction, whatever the row holds.  It opens an
\* item, or finds the one that is open.
Park(w) ==
  /\ worker[w].stage = "park"
  /\ Put([row EXCEPT !.status = "parked", !.lease = NoLease, !.age = 0])
  /\ verdict' = "asked"
  /\ item' = "open"
  /\ Returns(w, "other")
  /\ workFrame /\ UNCHANGED <<receipt, effects, exposed, faults>>

\* Slip: the mutation is applied whatever record_command_execution answered.
SlipApplied == effects + 1

\* A mutator's transaction records the receipt and applies the change, unless
\* the receipt was there.
Applied == IF receipt THEN effects ELSE effects + 1

\* The third outcome is a success with nothing to do, with a receipt (the job to
\* delete is gone, the job to run is running) or without one (the job to resume
\* is gone).
Apply(w) ==
  /\ worker[w].stage = "apply"
  /\ \/ /\ receipt' = TRUE
        /\ effects' = Applied
        /\ void' = (void /\ effects' = 0)
        /\ Goes(w, Task("ok"))
     \/ /\ Goes(w, Task("fail"))          \* it raised, and was rolled back
        /\ UNCHANGED <<receipt, effects, void>>
     \/ /\ receipt' \in {receipt, TRUE}
        /\ void' = (effects = 0)
        /\ Goes(w, Task("ok"))
        /\ UNCHANGED effects
  /\ handlerFrame /\ UNCHANGED <<row, verdict, item, exposed, faults>>

\* _already_executed: a sender that finds a receipt reports a failure.
Check(w) ==
  /\ worker[w].stage = "check"
  /\ Goes(w, Task(IF receipt THEN "fail" ELSE "send"))
  /\ workFrame
  /\ UNCHANGED <<row, verdict, receipt, item, effects, exposed, faults>>

\* deliver, to one channel or to all of a job's.  Delivered or batched: sent and
\* well.  Suppressed, a replay, or without an address: well, and nothing sent.
\* Failed: not well, and nothing sent, but for a job that failed on one channel
\* and was batched on another.
Send(w) ==
  /\ worker[w].stage = "send"
  /\ \/ \E sent, well \in BOOLEAN :
          /\ effects' = IF sent THEN effects + 1 ELSE effects
          /\ void' = (void /\ ~sent)
          /\ Goes(w, [Task("receipt") EXCEPT !.sent = sent, !.well = well])
     \/ /\ Goes(w, Task("fail"))           \* deliver raised
        /\ UNCHANGED <<effects, void>>
  /\ handlerFrame /\ UNCHANGED <<row, verdict, receipt, item, exposed, faults>>

\* The receipt is written last, whatever became of the send; if that raises, the
\* handler does.
WriteReceipt(w) ==
  LET sent == worker[w].sent  well == worker[w].well
  IN  /\ worker[w].stage = "receipt"
      /\ \/ /\ receipt' = TRUE
            /\ Goes(w, Task(IF well THEN "ok" ELSE "fail"))
            /\ void' = (void \/ (well /\ effects = 0))
            /\ UNCHANGED <<exposed, faults>>
         \/ /\ Fault
            /\ Goes(w, Task("fail"))
            /\ exposed' = (exposed \/ sent)
            /\ UNCHANGED <<receipt, void>>
      /\ handlerFrame /\ UNCHANGED <<row, verdict, item, effects>>

(***************************************************************************)
(* What the caller of execute_command_task records.                        *)
(***************************************************************************)
Finish(w) ==
  /\ worker[w].stage = "ok"
  /\ Put(Write(row, Delivered(row)))
  /\ Returns(w, "ok")
  /\ workFrame /\ UNCHANGED <<verdict, receipt, item, effects, exposed, faults>>

ReadAttempts(w) ==
  /\ worker[w].stage = "fail"
  /\ \E c \in {"transient", "permanent"} :
       Goes(w, [Task("failing") EXCEPT !.seen = row.attempts, !.class = c])
  /\ workFrame
  /\ UNCHANGED <<row, verdict, receipt, item, effects, exposed, faults>>

Requeue(w) ==
  /\ worker[w].stage = "failing"
  /\ Put(Write(row, FailedAttempt(row, worker[w].seen, worker[w].class)))
  /\ Returns(w, "other")
  /\ workFrame /\ UNCHANGED <<verdict, receipt, item, effects, exposed, faults>>

\* A call of the store raises: out of submit_command, or into the loop's log.
\* The row stays as it is.
StoreRaises(w) ==
  /\ worker[w].stage \in {"claim", "fetch", "park", "ok", "fail", "failing"}
  /\ Fault
  /\ Returns(w, "other")
  /\ workFrame /\ UNCHANGED <<row, verdict, receipt, item, effects, exposed>>

(***************************************************************************)
(* The one loop: its tick waits for its dispatch.                          *)
(***************************************************************************)
LoopIdle == phase \notin {"off", "starting"} /\ worker[Loop] = Idle

\* claimable, whose copy of the row is what the dispatch will run.
LoopSelects ==
  /\ LoopIdle
  /\ row.status = "pending"
  /\ Goes(Loop, [Task("claim") EXCEPT !.approved = (verdict = "approved")])
  /\ workFrame
  /\ UNCHANGED <<row, verdict, receipt, item, effects, exposed, faults>>

\* Nobody has the row in hand, or only a handler that takes its time.
Slow == {"apply", "send"}
Silent == \A w \in Workers : worker[w].stage \in {"idle", "claim"} \cup Slow

LoopReclaims ==
  /\ LoopIdle
  /\ LeaseExpired(row) /\ Silent
  /\ Put(Reclaimed(row))
  /\ exposed' = (exposed \/ \E w \in Workers : worker[w].stage \in Slow)
  /\ workFrame
  /\ UNCHANGED <<worker, reply, verdict, receipt, item, effects, faults>>

\* prune_completed, long after everybody is done with the row; the receipt and
\* the item stay.
Prune ==
  /\ LoopIdle
  /\ row.status = "completed"
  /\ \A w \in Workers : worker[w] = Idle
  /\ sweep = NoSweep /\ rescue = "idle" /\ drive = NoDrive
  /\ row' = NoRow
  /\ workFrame
  /\ UNCHANGED <<worker, reply, verdict, receipt, item, effects, exposed, faults>>

(***************************************************************************)
(* The owner, and the resume sweep.                                        *)
(***************************************************************************)
\* Only the rescuers, the sweep and the owner move.
doorFrame == UNCHANGED <<command, receipt, worker, reply, effects, void>>

\* needs_you.resolve; anything but "approved" is a denial.
Answer(a) ==
  /\ item = "open"
  /\ item' = a
  /\ granted' = (granted \/ a = "approved")
  /\ doorFrame
  /\ UNCHANGED <<row, verdict, sweep, rescue, drive, phase, rescued, exposed, faults>>

sweepFrame ==
  doorFrame /\ UNCHANGED <<item, rescue, drive, granted, rescued, exposed>>

\* resume_resolved_parked_commands lists the parked rows: the scheduler's job,
\* and once at boot, before the loop starts.
SweepLists ==
  /\ phase = "up" /\ sweep = NoSweep
  /\ row.status = "parked"
  /\ sweep' = [NoSweep EXCEPT !.stage = "listed"]
  /\ sweepFrame /\ UNCHANGED <<row, verdict, phase, faults>>

\* get_item_by_waiter
SweepReads ==
  /\ sweep.stage = "listed"
  /\ sweep' = [NoSweep EXCEPT !.stage = CASE item = "approved" -> "approve"
                                          [] item = "denied"   -> "deny"
                                          [] OTHER             -> "idle"]
  /\ sweepFrame /\ UNCHANGED <<row, verdict, phase, faults>>

\* resume_command_after_answer, approved: guarded by nothing but the id.
Approve ==
  /\ sweep.stage = "approve"
  /\ Put(Write(row, [row EXCEPT !.status = "pending", !.lease = NoLease, !.age = 0]))
  /\ verdict' = "approved"
  /\ sweep' = NoSweep
  /\ sweepFrame /\ UNCHANGED <<phase, faults>>

\* Slip: a denial leaves the row where it is.
SlipDeny ==
  /\ sweep.stage = "deny"
  /\ sweep' = NoSweep
  /\ sweepFrame /\ UNCHANGED <<row, verdict, phase, faults>>

\* Denied: fail_and_requeue(command_denied), its read and its UPDATE.
Deny ==
  /\ sweep.stage = "deny"
  /\ sweep' = [stage |-> "denying", seen |-> row.attempts]
  /\ sweepFrame /\ UNCHANGED <<row, verdict, phase, faults>>

RequeueDenied ==
  /\ sweep.stage = "denying"
  /\ Put(Write(row, FailedAttempt(row, sweep.seen, "transient")))
  /\ sweep' = NoSweep
  /\ sweepFrame /\ UNCHANGED <<verdict, phase, faults>>

\* A row that fails to resume is left for the next pass.
SweepRaises ==
  /\ sweep # NoSweep
  /\ Fault
  /\ sweep' = NoSweep
  /\ sweepFrame /\ UNCHANGED <<row, verdict, phase>>

(***************************************************************************)
(* The process, and the two rescuers of running rows.                      *)
(***************************************************************************)
bootFrame == doorFrame /\ UNCHANGED <<verdict, item, granted>>

Start ==
  /\ phase = "off" /\ phase' = "starting"
  /\ sweep' = [NoSweep EXCEPT !.stage = IF row.status = "parked" THEN "listed"
                                                                 ELSE "idle"]
  /\ bootFrame /\ UNCHANGED <<row, rescue, drive, rescued, exposed, faults>>

Serve ==
  /\ phase = "starting" /\ sweep = NoSweep /\ phase' = "serving"
  /\ bootFrame /\ UNCHANGED <<row, sweep, rescue, drive, rescued, exposed, faults>>

\* Rows of any kind, unless attempts_exhausted.
Orphaned(statuses) == row.status \in statuses /\ row.attempts < MaxAttempts

ListOrphans ==
  /\ phase = "serving" /\ phase' = "claiming"
  /\ rescue' = IF Orphaned({"running", "recovering"}) THEN "listed" ELSE "idle"
  /\ bootFrame /\ UNCHANGED <<row, sweep, drive, rescued, exposed, faults>>

StartScheduler ==
  /\ phase = "claiming" /\ rescue = "idle" /\ phase' = "up"
  /\ bootFrame /\ UNCHANGED <<row, sweep, rescue, drive, rescued, exposed, faults>>

\* _find_stale.  The row of a slow drive is left to module TurnRecovery.
FindStale ==
  /\ phase = "up" /\ rescue = "idle"
  /\ Orphaned({"running"}) /\ Silent /\ drive = NoDrive
  /\ rescue' = "listed"
  /\ bootFrame /\ UNCHANGED <<row, sweep, drive, phase, rescued, exposed, faults>>

\* reclaim_one: the compare-and-set, on the status alone.
RescueClaims ==
  /\ rescue = "listed"
  /\ \/ /\ row.status \in {"running", "recovering"}
        /\ Put(ClaimedForRecovery(row, phase = "up"))
        /\ rescue' = "claimed"
        /\ rescued' = TRUE
     \/ /\ row.status \notin {"running", "recovering"}
        /\ rescue' = "idle"
        /\ UNCHANGED <<row, rescued>>
  /\ bootFrame /\ UNCHANGED <<sweep, drive, phase, exposed, faults>>

\* The row's goal, "command:<type>", becomes the input of a turn.
Rebuilt ==
  /\ rescue = "claimed" /\ rescue' = "idle"
  /\ drive = NoDrive
  /\ drive' = [NoDrive EXCEPT !.stage = "run"]
  /\ Put(Write(row, ReturnedToRunning(row)))
  /\ bootFrame /\ UNCHANGED <<sweep, phase, rescued, exposed, faults>>

RebuildFails ==
  /\ rescue = "claimed" /\ rescue' = "idle"
  /\ Fault
  /\ bootFrame /\ UNCHANGED <<row, sweep, drive, phase, rescued, exposed>>

driveFrame == bootFrame /\ UNCHANGED <<sweep, rescue, phase, rescued, exposed, faults>>

\* The drive's checkpoint callback.
Checkpoint ==
  /\ drive.stage = "run"
  /\ Put(Write(row, [row EXCEPT !.status = "running", !.age = 0]))
  /\ row' # row
  /\ driveFrame /\ UNCHANGED drive

\* _finalize reads the row.  A command owes no delivery.
DriveEnds ==
  /\ drive.stage = "run"
  /\ \/ /\ row.status # "running"
        /\ drive' = NoDrive
     \/ /\ row.status = "running"
        /\ \/ \E e \in {"completed", "parked"} :
                drive' = [NoDrive EXCEPT !.stage = "close", !.ending = e]
           \/ \E c \in {"transient", "permanent"} :
                drive' = [NoDrive EXCEPT !.stage = "failing", !.seen = row.attempts,
                                         !.class = c]
  /\ driveFrame /\ UNCHANGED row

\* update_status, or fail_and_requeue.
DriveWrites ==
  /\ drive.stage \in {"close", "failing"}
  /\ Put(Write(row, IF drive.stage = "close"
                    THEN [row EXCEPT !.status = drive.ending, !.age = 0]
                    ELSE FailedAttempt(row, drive.seen, drive.class)))
  /\ drive' = NoDrive
  /\ driveFrame

\* Everything in memory is gone.
Crash ==
  /\ phase # "off" /\ phase' = "off"
  /\ Fault
  /\ worker' = [w \in Workers |-> Idle]
  /\ reply' = [s \in Submitters |-> IF worker[s] = Idle THEN reply[s] ELSE "other"]
  /\ sweep' = NoSweep /\ rescue' = "idle" /\ drive' = NoDrive
  /\ exposed' = (exposed \/ \E w \in Workers : worker[w].sent)
  /\ UNCHANGED <<command, row, verdict, receipt, item, effects, void, granted, rescued>>

(***************************************************************************)
(* The specification.                                                      *)
(***************************************************************************)
WorkStep(w) ==
  \/ w \in Submitters /\ Fetch(w)
  \/ Claim(w) \/ Park(w) \/ Apply(w) \/ Check(w) \/ Send(w) \/ WriteReceipt(w)
  \/ Finish(w) \/ ReadAttempts(w) \/ Requeue(w)

LoopStep == LoopSelects \/ LoopReclaims

SweepStep == SweepLists \/ SweepReads \/ Approve \/ Deny \/ RequeueDenied

BootStep == Start \/ Serve \/ ListOrphans \/ StartScheduler

RescueStep == RescueClaims \/ Rebuilt

DriveStep == DriveEnds \/ DriveWrites

Next ==
  \/ \E s \in Submitters : Submit(s)
  \/ \E w \in Workers : WorkStep(w) \/ StoreRaises(w)
  \/ \E a \in {"approved", "denied"} : Answer(a)
  \/ LoopStep \/ Prune
  \/ SweepStep \/ SweepRaises
  \/ BootStep \/ FindStale \/ RescueStep \/ RebuildFails
  \/ DriveStep \/ Checkpoint
  \/ Crash

Spec == Init /\ [][Next]_vars

\* Every coroutine that can go on does; the loop ticks; the supervisor restarts
\* the process; the resume sweep's job comes round.  The owner need not answer.
Fairness ==
  /\ \A w \in Workers : WF_vars(WorkStep(w))
  /\ WF_vars(LoopStep) /\ WF_vars(SweepStep) /\ WF_vars(BootStep)
  /\ WF_vars(RescueStep) /\ WF_vars(DriveStep)

FairSpec == Spec /\ Fairness

(***************************************************************************)
(* Properties.                                                             *)
(***************************************************************************)
\* record_command_execution's "a lease-reclaim re-run is a no-op": however
\* often a command is submitted, claimed, reclaimed or approved, it takes
\* effect once; only a send may be repeated, when its lease expired under it, its
\* receipt was lost or recovery took its row.
AppliedOnce == effects <= 1 \/ (command.sends /\ (exposed \/ rescued))

\* What action_policy.py's docstring reserves for the owner's decision.
OwnersToDecide(c) ==
  \/ c.severity = "consequential" \/ c.requester = "owl"
  \/ ~c.reversible /\ ~(c.requester = "autonomous" /\ c.grant)

\* The gate of execute_command_task cannot be got round: a command that is the
\* owner's to decide has taken effect only after he approved one of its items,
\* whichever copy of the row its worker held and however it came back.
ApprovedFirst == effects > 0 /\ OwnersToDecide(command) => granted

\* submit_command reports success, inline or for a row it looks up, only of a
\* command that was carried out: it took effect, or its handler ran to a success
\* of its own with nothing to do (a job already gone, a message suppressed or
\* without an address), or recovery handed its row to the model.
HonestOutcome ==
  (\E s \in Submitters : reply[s] = "ok") => effects > 0 \/ void \/ rescued

\* A submitted command does not get stuck: it ends, or waits for an answer of
\* the owner that the resume sweep will act on, or recovery has taken it.
CommandSettles ==
  row.status \in {"pending", "running", "parked"}
    ~> \/ row.status \in {"absent", "completed", "dead_letter"}
       \/ row.status = "parked" /\ item = "open"
       \/ rescued

\* execute.py's "no model call, ever", and mark_delivered as the only way a
\* command completes: the handler of a completed command has run to a success.
CompletedWasExecuted == row.status = "completed" => effects > 0 \/ void
=============================================================================
