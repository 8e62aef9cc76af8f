# StackOwl: TLA+ models of the durable core

StackOwl is a self-hosted personal AI assistant: one long-lived Python process
(`src/src/stackowl`, plus a thin gateway process) that turns messages,
schedules and commands into tasks, drives a model with tools until a task is
answered, and promises that accepted work is neither lost nor done twice across
crashes, restarts, hangs and retries.  These modules model the parts of the
code that carry that promise.

Paths below are relative to `src/src/stackowl` unless they begin with `src/` or
`docs/`.

## 1. Inventory

| Component | State | Operations | Hard behaviour | What makes it correct | Module |
|---|---|---|---|---|---|
| Durable task store (`pipeline/durable/store.py`) | table `tasks` | enqueue, claim, reclaim_expired, fail_and_requeue, mark_delivered, set_dependencies, revive, prune, claim_for_recovery, update_status, park_for_decision, resume_command_after_answer | reads and writes in separate statements, several writers of one column | a terminal row stays terminal; ceilings hold; a claimable row is nobody's | `DurableStore` |
| The one loop (`loop.py`, `task_loop_runner.py`, `decompose.py`) | tick in progress, dispatches | start, tick, _dispatch, _maybe_reshape | crash between any two statements, swallowed store errors, parallel dispatches | every queued task settles; a split task waits for its children | `TaskLoop` |
| Chat fast path (`turn_task.py`, `pipeline/steps/deliver.py`, `turn_persist.py`) | the turn | enqueue_turn_task, persist_turn, the push, complete_turn_task | produces the reply outside the loop, on a row without a lease | one answer per task unless the proof of delivery was lost | `TaskLoop`, `TurnRecovery` |
| Message ledger (`memory/message_ledger_store.py`) | table `message_ledger` | insert_pending, the flips, get_pending | closed by one party while another still owes the reply | no message is forgotten | `TurnRecovery` |
| Boot recovery, liveness sweep (`recovery.py`, `scheduler/handlers/task_liveness_sweep.py`) | none of its own | recover, reclaim_one, redrive | runs beside the loop and beside live drives | orphans are rescued; nothing is left `recovering` | `TurnRecovery`, `DurableReAct` |
| Side-effect ledger (`ledger.py`, `ledger_guard.py`) | table `side_effect_ledger` | begin, commit | SELECT then INSERT, deadline and crash around the effect | an effect happens at most once per key | `AtMostOnce`, `DurableReAct` |
| Durable drive (`task_runner.py`, `session.py`, `checkpoint_callback.py`, `providers/anthropic_provider.py`, `iteration_budget.py`, `pipeline/steps/execute.py`) | context, budget, transcript, checkpoint | run, resume, the ReAct loop, finalize | resume after a crash, refunds, timeouts | a resumed drive recognises what was done; a drive ends | `DurableReAct` |
| Command door (`commands/spec/*`, `authz/action_policy.py`, `command_resume_sweep.py`) | command rows, receipts, Needs-you items | submit, gate, park, answer, resume, handler | inline claim against the loop, duplicate command ids, stale verdicts | one effect per command id, never before its approval | `CommandDoor` |
| Scheduler (`scheduler/scheduler.py` and helpers) | tables `jobs`, `job_runs` | poll, claim, run, settle, retry, re-arm, reap, run_now, pause | overlapping dispatchers, crash in mid-run | no overlap; a job fires again; a finished one-shot does not | `JobScheduler` |
| Provider resilience (`providers/circuit_breaker.py`, `rate_limiter.py`, `_resilient_round.py`) | breaker, bucket | admit, record, promote, acquire, penalize, reload | concurrent callers, cancellation, one probe | one probe at a time; the breaker heals | `ProviderResilience` |
| Clarify gateway (`interaction/clarify_gateway.py`, `gateway/clarify_pump.py`, `journal/needs_you.py`) | pending questions, Needs-you rows | ask, wait_for_answer, resolve, sweep, teardown | a timeout racing a reply, pops while turns wait | no waiter is lost; one outcome per question and per reply | `ClarifyGateway` |
| Notifications (`notifications/*`) | delivery ledger, outbox | deliver, digest, surface | crash between send and record | nothing undelivered is forgotten | not modelled (a send of a command: `CommandDoor`) |
| Gateway/core link, supervisor (`runtime/*`, `ipc/*`, `supervisor/*`) | connections, back-off | hello, drain, reconnect, restart | two processes | drain loses no turn; restarts are bounded | not modelled |
| Objectives, budget governor, events, webhooks | small | drive, charge, publish, receive | leases, ceilings | | not modelled |
| Memory, owls, skills, tools, channels, TUI, CLI, startup | text and I/O | | | | out of scope |

Components interact through the `tasks` table (the loop, the chat path,
recovery, the sweep and the command door all write it), through the
side-effect ledger (every side-effecting tool call of a durable drive), through
`needs_you` (questions of turns and decisions on commands), and by direct calls
(a drive calls the provider, the provider the tool dispatcher and the checkpoint
callback; the scheduler's poll runs both sweeps).  `PROJECT.json` lists all components
with their status and, under `hazards`, what can go wrong at which line.

## 2. Plan

Done: the store, the loop and the chat path, with the contract `TaskLife`; the
durable drive and its ledger, with the contract `AtMostOnce`; the scheduler;
provider resilience; the clarify gateway with its Needs-you rows; messages,
recovery and the sweep; the command door.  Every safety property of their
passing runs is also proved (section 5).

Left, in this order: the notification outbox, the gateway/core link with drain
and reconnect, undo of commands, objectives.

## 3. Modules

| Module | Models | State |
|---|---|---|
| `DurableStore` | one operator per SQL statement of `store.py` on a row, and the predicates of its WHERE clauses | pure |
| `TaskLoop`, `MCTaskLoop`, `TaskLoopProofs` | the loop and the chat path over the table | `rows`, `loop` and `batch` (where the tick is), `work[t]`, `turn[t]` (the dispatch and the chat turn of a task), histories `answers`, `lost`, `told` |
| `TaskLife` | what the durable tasks promise to whoever gives one | per task: where it is in its life, whether somebody waits for it, answers sent, proofs lost |
| `AtMostOnce` | what the side-effect ledger promises | a ledger row and a count per key |
| `DurableReAct`, `MCDurableReAct`, `DurableReActProofs` | one durable task: its drives, ledger, checkpoint, resume | `status`, `blob` (the row), `ledger`, `drive[d]`, histories |
| `JobScheduler`, `MCJobScheduler`, `JobSchedulerProofs` | one row of `jobs`, all who dispatch, free or edit it | `row`, `instants` and `cadence` (scheduled instants), `disp[d]`, `strays` (what timed-out handlers left behind), `reaper`, `sched` |
| `ProviderResilience`, `MCProviderResilience`, `ProviderResilienceProofs` | one provider's breaker, bucket and callers | `state`, `window`, `failures`, `probing`, `tokens`, `caller[c]` |
| `ClarifyGateway`, `MCClarifyGateway`, `ClarifyGatewayProofs` | questions, replies, the registry, `needs_you` rows | `pending`, `pc[q]`, the entry's event and answer, `dropping`/`left` (loops of whoever pops entries), `item`, `recorded`, `msg` |
| `TurnRecovery`, `MCTurnRecovery`, `TurnRecoveryProofs` | message ledger, turn, loop, boot recovery, sweep and redrive on one table | `rows`, `ledger`, `intake`, `drive[m][kind]`, `phase`, `pass`, histories |
| `CommandDoor`, `MCCommandDoor`, `CommandDoorProofs` | one command_id: submitters, the loop, the gate, the owner, the resume sweep, the rescuers | `row`, `verdict`, `receipt`, `item`, `worker[w]`, `reply[s]`, `sweep`, `rescue`, `drive`, `phase` |

`TaskLoop`, `TurnRecovery` and `CommandDoor` are three views of the same table
through the same operators of `DurableStore`: the loop at length, the parties
that meet on a chat turn's row, and those that meet on a command's row.

How code becomes actions:

* A step ends at an await where somebody else can run.  `fail_and_requeue` is
  two steps (its `get`, its UPDATE), `ledger_guard` four (SELECT, INSERT, effect,
  commit), the checkpoint callback two, the settling of a job several.  SQL
  statements and transactions are atomic; code between two awaits is, because
  the process is one asyncio loop.
* In `TaskLoop` time is counted down on the row: `lease` in ticks to
  `lease_expires_at`, `age` in ticks since `updated_at`.  `TurnRecovery` and
  `CommandDoor` do not count it (`Timeless` keeps one value of each): a lease may be
  expired and a row stale whenever somebody looks.  `CommandDoor` excludes that
  only while nothing but a store call is under way, which takes less than the
  600 s of the sweep and the 900 s of a lease.
* `JobScheduler` names a scheduled instant after the first who holds it (the
  row, the wall clock, a dispatch); `job_runs` is what it says of those instants.
  There is no horizon.
* `ClarifyGateway` has one session on one channel, which is what every match in
  the code is by; `ProviderResilience` one provider, since providers share
  neither breaker nor bucket; `CommandDoor` one `command_id`.
* Every swallowed exception of the code is an action or a disjunct of one
  (`TickFails`, `WorkLosesWrite`, `CheckpointFails`, `RebuildFails`, `StoreRaises`,
  `SweepRaises`, ...), and `Crash` is the death of the process: volatile state is
  lost, the tables stay.
* A handler that a poll cycle gives up at its timeout is cancelled, but the tasks
  it spawned are not (`scheduler.py:593-604`).  `HandlerTimesOut` may leave them behind
  in `strays`: "held" while the row is still running for that dispatch, "freed" once
  `_settle` or a reaper has given the row back although they go on.
* In `TurnRecovery` a message in the intake queue is "queued" if its raw message is
  parked, and "late" if it is a steer that `try_steer` turned into a queued turn, for
  which nothing is parked.  `DropLate` is the drain that takes such a one off the
  queue.  The drain then returns (`Stalled`), so what waits behind it is reached only
  when another turn ends.
* What became of an announcement is in `told`: `_escalate` reached the deliverer
  ("sent"), or the review made one that `_escalate` swallowed ("swallowed").
* In `CommandDoor` a handler may succeed with nothing to do: a job that is gone, a
  message that is suppressed, a replay, or without an address.  The history `void`
  says that one did and that nothing has been done for this command.
* What the model answers, whether a tool fails, whether a turn is judged
  unachieved, how a reply is classified, is nondeterministic.
* In `DurableReAct` a *logical call* is the pair of the transcript's round and
  the call.  The code has no such notion; it is a history variable that says
  what the key of the ledger is meant to identify.
* A durable drive calls the provider without `can_escalate`
  (`pipeline/steps/execute.py`, `_call_durable`), so the tier escalations of the
  provider's loop do not occur in it.
* History variables say when a promise was put out of reach by something the
  code documents or cannot help: `lost` (a proof of delivery), `overruled` (a reaper
  or the owner took a running row), `crossed` and `orphaned` (a late round, a
  probe cancelled in the queue), `strays` and `unlogged` of `ClarifyGateway` (a
  transaction failed),
  `lapse` (which exception gave a message up), `exposed` and `rescued` (a send lost
  its receipt or its lease; recovery took a command).

Definitions headed "Slip" are wrong versions of the definition below them; they
are used only to show that a property notices the mistake (`mutants`).

## 4. Runs

Bounds are named constants.  `MaxFaults`, `MaxCrashes`, `MaxEdits`, `MaxStarts`,
`MaxRounds`, `MaxRoots`, `MaxTask`, `MaxSubmits`, `MaxOutages` and `MaxInterrupts`
bound the environment; `MaxAttempts`, `SmallCeiling`, `ReshapeAfter`, `LeaseTicks`,
`OldTicks`, `MaxParallel`, `MaxIter`, `MaxRetries`, `Threshold`, `Base` and
`BackoffCap` are small values of constants of the code.

| Run | Instance | Checks |
|---|---|---|
| `loop` | two roots, with and without an addressee, one slot, two attempts, one fault, fair | `TypeOK`, `ClaimableIsUnowned`, `AttemptBudget`, `AnsweredOnce`, `KeepsContract` (refinement of `TaskLife`), `TerminalStays`, `RootSettles`, `DeadLettersReviewed` |
| `loop_reshape` | a root and its two children, two slots, three attempts, one fault | `ChildrenFirst` |
| `react` | two drives at a time, two starts, a crash, one iteration with refunds, fair | `TypeOK`, `EffectOnce` (refinement of `AtMostOnce`), `CallOnce`, `DriveEnds` |
| `jobs` | a poll cycle, run_now, both reapers, two retries, one command of the owner, two faults, fair | `JobTypeOK`, `NoOverlap`, `FinishedNotRerun`, `JobFires`, `ClaimReleased`, `OneShotRetires` |
| `provider` | three callers, threshold 2, cooldowns of 0 and beyond the cap, with and without a bucket, one outage, one interrupt, fair | `ProviderTypeOK`, `BreakerCoherent`, `OneProbe`, `Heals` |
| `clarify` | two questions, one reply of any kind, one fault, fair | `ClarifyTypeOK`, `NoOrphanWaiter`, `RecordMatchesTurn`, `NoStrandedItem`, `ReplyUsedOnce`, `WaitEnds`, `ItemSettles` |
| `recovery` | one message, with and without an address, two drives at a time, two attempts, one fault, fair | `TurnTypeOK`, `CompletedHasProof`, `RecoveringIsOwned`, `OrphanRescued`, `SenderHears` |
| `commands` | a command_id submitted twice, a mutator that must be approved or a send under a standing authority, two attempts, one fault, fair | `CommandTypeOK`, `AppliedOnce`, `ApprovedFirst`, `HonestOutcome`, `CommandSettles` |

Why these bounds are enough.  *Loop:* two tasks make the tick's steps interleave
on different rows and compete for a slot; a lease of one tick expires while a
worker runs; the small ceiling differs from the ordinary one; one fault is
placed by TLC at every step.  *React:* two drives of the same task meet at each
of the guard's four steps; a refund and a resume make a step index repeat; a
drive has at most `MaxIter` rounds and `MaxIter` refunded ones, so `MaxRounds` =
2 * `MaxIter` * `MaxStarts` never binds.  *Jobs:* jobs share only the poll loop;
a poll cycle, run_now and the boot's replay are three parties on one row,
two faults make a reaper meet a run whose settling failed, and any poll may time
out and leave work behind.  *Provider:* with
three callers one can be the probe, one late from before the opening, one
newly refused; 4 > cap makes the doubling rule cut a cooldown.  *Clarify:* a
second question replaces the first while the first's turn waits and the reply is
being classified.  *Recovery:* the parties meet on the row of one message;
messages share nothing but the passes and the drain (with one message, nothing waits
behind a dropped steer).  *Commands:* two calls of submit and the loop are
three workers; two attempts allow one failure, denial or reclaim before the dead
letter.  The theorems of section 5 remove the bounds where there are any.

Deadlock is checked in the loop's and the provider's runs, which never stop; the
others may end (a drive finishes, a job is deleted, a row is dead-lettered) and
say `CHECK_DEADLOCK FALSE`.

Four runs state what the repository says of itself and show a behaviour of the
code that differs (`findings` quotes both sides):

| Run | Property | What happens |
|---|---|---|
| `react_replay` | `NoFalseReplay` | the step index repeats after a refunded round, and a later call is answered with an older round's result |
| `jobs_slot` | `NextOccurrenceFires` | a run_now or an early retry of a daily job is recorded under the coming slot, which is then skipped |
| `recovery_lost` | `NothingForgotten` | a late steer is queued without its raw message while its ledger row is closed; the drain drops it (a crash would lose it too) |
| `commands_driven` | `CompletedWasExecuted` | a command left `running` is taken by the sweep, handed to the model as a goal and closed as completed without its handler having run |

### Fairness

* `TaskLoop`: weak fairness of the tick (`_run_forever` catches everything), of a
  dispatched attempt (rounds and tools run under `asyncio.wait_for`) and of
  time.  Nothing is assumed of arrivals, the chat turn or faults.  `RootSettles` is
  about roots: a child whose parent is terminal is deliberately never claimed
  again (`CLAIMABLE_WHERE`).
* `DurableReAct`: a live drive goes on; no failure is relied on to end it.
* `JobScheduler`: polls, dispatch steps, the handlers a poll awaits (under the
  job's timeout), reapers, the restart and the wall clock; strong fairness of a
  retry's delay and a claim's age passing, since each run sets them back.
  run_now's handler may hang, and what a timed-out handler leaves behind need not end.
* `ProviderResilience`: windows elapse, the bucket refills (`penalize` keeps the
  rate above a twentieth), requests time out, and somebody always asks.
* `ClarifyGateway`: awaits return, time passes, the expiry sweep is a scheduled
  job, the supervisor restarts the process.  The owner need not reply.
* `TurnRecovery`: a drive ends, a pass goes on, a queued message is dispatched as
  long as no drain has dropped a late steer (a drain that did returns without the
  next one), the boot proceeds, the sweep's job and the loop's tick come round.
* `CommandDoor`: a worker's coroutine goes on, the loop ticks, the resume sweep's
  job runs, the boot, the rescuers and a resumed drive proceed.  The owner need
  not answer.

## 5. Proofs

The proof modules assume only the named assumptions on constants
(`StoreAssumption`, `LoopAssumption`, `ReActAssumption`, `ProviderAssumption`,
`ClarifyAssumption`, `CommandAssumption`, `JobAssumption`, `RecoveryAssumption`:
positive sizes, a lease shorter than the prune window, a base window not above
the cap, names that differ, a finite set of questions, commands that are
commands).

`TaskLoopProofs`: the properties are not inductive.  `IInv` adds what each party
knows about its row:

* `TaskInv`: a dispatch that will still write holds a running row *with* a
  lease, a chat turn a running row *without* one, so they never hold the same
  row; the attempt count that `fail_and_requeue` read is still the row's; an
  answer that is out and not recorded accounts for the difference between
  `answers` and `lost`;
* `WorkOnlyInDispatch`: work exists only while the tick claims or gathers, which
  is why `reclaim_expired` cannot meet a live worker of its own loop;
* `FreshIds`: ids not given out name no row and no dependency;
* `DepsHeld`: what a selected or dispatched row depends on is done.

From `Spec => []IInv` follow `TypeCorrect`, `NobodyOwnsClaimable`,
`BudgetRespected`, `AnswersBounded`, `SplitWaits` and `TerminalIsFinal`.

`LoopKeepsContract` is the refinement of `TaskLife`.  The mapping (`LifeOf`) reads a
task's life off its row: an id that is not fresh and has no row was pruned,
`completed` is closed, `dead_letter` is dead, every other status is open (`failed`
too, since `start` revives such a row).  `Lived` says for one task, in terms of
its row, that it was accepted, answered, closed, given up, forgotten or left
alone, and `LivedIsAllowed` that this is a step of the contract.  The bulk
statements (`reclaim_expired`, `prune_completed`, the revival) are then one case per
row.  What the contract needs and no single statement says is in `AnswersOut`, from
`TaskInv`: an answer that is out is some live drive's, on a running row, so no
requeue, reclaim or cascade gives a task up between its answer and the proof.
The properties about answers and terminal rows each see one side of this:
`TerminalStays` allows closing a task nobody was told about, and `AnsweredOnce`
giving one up over a proof on its way.

`DurableReActProofs`: `IInv` adds

* `CountersFit`: a drive inside a round was charged for it, so `used - 1` is a
  step index;
* `IntentHeldOnce`: at most one drive is between the INSERT and the commit of a
  key, and the effect has then not happened (before it) or happened once;
* `Lineage`: while drives do not overlap, the only drive's step and round are
  those the checkpoint gives to a resumed drive, and what it did in this round
  is in the ledger under the present step.

From it follow `TypeCorrect`, `CallsOnce`, and `LedgerKeepsPromise`: every step
of `DurableReAct` is a step of `AtMostOnce` or leaves the ledger and the
effects alone, with any number of overlapping drives and crashes.

`ProviderResilienceProofs`: the three invariants are inductive together; the
flag, the state and the callers' `probe` marks have to be known at once.
`ProviderTypeCorrect`, `BreakerStaysCoherent`, `ProbeIsAlone`, for any number of
callers and any threshold, window and cooldown.

`ClarifyGatewayProofs`: `IInv` adds `Staged` (a question that is not registered yet has
neither entry nor row; only a blocking one has a row; an answered turn is done)
and `OneUser` (no two entries hold the same reply, and a reply that is held was
consumed), which is `ReplyUsedOnce` without counting.  `ClarifyTypeCorrect`,
`WaitersAreFound`, `RowAgreesWithTurn`, `ItemsHaveSettlers`, `RepliesUsedOnce`, for
any number of questions, replies and faults.

`CommandDoorProofs`: `IInv` adds

* `WorkersKnow`: a worker in a handler is past the gate, a handler that has
  succeeded has an effect or is the `void` one, a send that is out is among the effects, and the approval in the
  loop's copy of the row was given;
* `Decided`: the verdict on the row, the item and the sweep's decision name an
  approval the owner gave;
* `Counted`: a mutator's effect has its receipt, and a receipt stands for an effect
  or a success with nothing to do; a completed row and an `ok` that somebody
  heard stand for an effect, for such a success, or for recovery;
* `Undisturbed`: as long as no live worker has lost its lease and recovery has not
  taken the row, whoever holds the row is alone and finds it running, the sweep
  finds it parked, and an effect of a sender has its receipt or a worker that is
  about to write it.

The last one is what a send needs; for a mutator the receipt alone suffices, which
is why `AppliedOnce` has no exception for it.  `CommandTypes`, `AppliedOnceHolds`,
`ApprovedFirstHolds`, `HonestOutcomeHolds`, for any commands, submitters and faults.

`JobSchedulerProofs`: every step names the instants anew, so `RenamesFacts` first
shows what a renaming leaves alone (whether an instant has come, whether a run is
on record for it, who shares one), and no later step looks inside it.  `IInv` adds

* `Slotted`: the row, and every dispatch under way, really stands for an instant;
* `Stamped`: a running row has its `claimed_at`, a stale claim is nobody's but
  run_now's, and before the poll loop starts nobody but run_now dispatches;
* `Exclusive`: whoever is past the claim is alone and the row is running or gone,
  which is `NoOverlap` without counting;
* `OneShot`: the run under way is that of the row's own instant, and once it is on
  record whoever does not know of it faces a running row with a fresh claim, which
  neither reaper frees (unless `overruled` says so) before he has lost the claim.

`Left` is inductive on top of it: while something of a timed-out handler is "held",
the row is running and, unless `overruled`, no handler runs (the row has to be given
back before it can be claimed).

`JobTypes`, `NoOverlapHolds` and `FinishedNotRerunHolds` follow, for any number of
poll cycles, retries, faults and commands.

`TurnRecoveryProofs`: neither `CompletedHasProof` nor `RecoveringIsOwned` is inductive.
`IInv` says, of each message,

* `Born`: a row belongs to a dispatched message and its address, and no drive of the
  loop or of recovery and no rescuer holds a message without one (they write the
  row without looking whether it is there);
* `Shown`: a drive past its push, and a row with its proof, have told the sender; a
  `_finalize` that is about to write `completed` over an answer has seen the
  proof, or failed to read whether it was owed, before its await, and nothing
  takes a proof off a row meanwhile;
* `Budget`: a row that waits or is being recovered has attempts left, and nobody
  resumes a row that boot recovery has listed and not claimed; without it a crash could
  leave a recovering row at its ceiling, which the next boot would not list;
* `Owned`: a recovering row is in a rescuer's hands, or still on the list of this
  boot's pass, or that list is not made yet;

and `Phased` of the process: the boot pass works only while it claims, the sweep only
once the process is up, and before recovery nobody has resumed anything.
`TurnInvariant`, `TurnTypes`, `CompletedHasProofHolds`, `RecoveringIsOwnedHolds`, for any
number of messages, drives and faults.

Only model-checked: all liveness properties, since fairness is out of the
prover's reach.  `TurnRecovery` does not implement `TaskLife`: recovery, the
checkpoint callback and a resumed drive write the row's status without a guard, so
a dead letter (section 6), or a row completed between boot recovery's claim and
its rebuild, is brought back; `CompletedHasProof` is what is left of the contract
there.

## 6. Limits

* `TaskLoop` has neither boot recovery nor the sweep.  Its theorems say what the
  loop and the chat path guarantee by themselves; `TurnRecovery` says what is left
  of it when the other writers join, and `DurableReAct` what remains true of side
  effects when they start a second drive.
* A plan has two children and its edges point backwards; all rows are taken to
  have the same goal in `PriorFailures` (a split is never forced, so tables whose
  goals differ are included).
* `CallOnce` speaks of one transcript.  When resume validation rejects a
  checkpoint, `fail_and_requeue` drops it and the calls of the next transcript
  are other calls.
* The provider's loop is the Anthropic one; that of `openai_provider.py` has the
  same callback protocol and is not modelled separately.
* In `CommandDoor` a resumed drive is one at a time and what it does through tools
  is not followed; command rows are not reshaped (a row in it never carries the
  failure class that asks for it).  `AppliedOnce` and `HonestOutcome` say nothing
  of a send, or of an outcome, once recovery has taken the row.  `HonestOutcome`
  counts a success with nothing to do as carried out, as the code does.
* `NoOverlap` speaks of what a timed-out handler left behind only as long as the row
  is running for it; after that the code lets the next run start beside it.
* The database is external: single writer, atomic statements, transactions all
  or nothing.

### Known divergences without a run of their own

Met while modelling; the models contain them, and the properties above are
worded so as not to deny them.

* A parent whose completed child was pruned before its sibling completed is
  blocked for ever (`store.py:1909` reads a missing row as not completed), where
  `store.py:1848-1851` says a row is dead-lettered "rather than leaving it
  blocked".
* A probe cancelled while it waits for a token leaves the in-flight flag up
  (`_resilient_round.py:417`, before the `try`), against `_resilient_round.py:24-25`
  "so a failed/cancelled probe never wedges the breaker OPEN"; `Heals` excludes it
  by `orphaned`.
* A handler that timed out goes on in the tasks it spawned while `_settle` gives the
  row back for a retry in five minutes (`scheduler.py:649-650`, `684-688`), where the
  message at `scheduler.py:605-608` says "its row stays 'running' until reaped" and
  `scheduler_helpers.py:366-369` gives a reason for not doing so: it would free "a row
  whose work is definitely still going, guaranteeing two concurrent runs of the same
  handler".  `NoOverlap` excludes that case by "freed".
* A drain that dropped a late steer does not go on to the next queued message
  (`orchestrator.py:3214-3219`, `3295-3301`); `SenderHears` excludes what waits behind it.
* A reply whose event is set as the wait's timeout fires is consumed and lost
  (`clarify_gateway.py:478`): the turn and the row agree on the timeout.
* `resolve_unannounced_dead_letters` acknowledges a row although `_escalate` told nobody
  (escalation off, no deliverer, a deliverer that raised: `store.py:2551-2594`,
  `2277-2281`), and nobody tries again; `DeadLettersReviewed` lets a swallowed
  announcement pass.
* A command is reported as successful although it changed nothing: a message that
  was suppressed or has no address (`notifications/commands.py:194-206`,
  `proactive_job.py:372-385`), a job to resume, delete or run that is gone or running
  (`scheduler.py:1622-1625`, `scheduler/commands.py:289-296`).
* A dead letter is announced by `fail_and_requeue` (`store.py:2504`) and, since
  that does not stamp the row, again by the tick's review (`store.py:2211`).
* A fault between the children's rows and `set_dependencies` leaves a half-written
  graph (`loop.py:502`), which `decompose.py:128` says cannot be.
* The sweep dead-letters a row at its ceiling and takes that for a successful
  claim (`recovery.py:374`, `store.py:1021`): the row is driven again.
* `recover()` of the scheduler replays a paused job: its SELECT has no filter on
  `enabled`.
* `ask()` cancelled while it sends the question leaves an entry that no turn
  waits for (`clarify_gateway.py:384-405`, against the cleanup at 490-496).
* The recovery of a turn's row and the redrive of its pending message are both
  launched at boot (`orchestrator.py:5063` calls them "unrelated tables, no shared
  identity"; they share the trace id).
* A reply consumed by a question leaves its ledger row pending
  (`orchestrator.py:3610`) and is redriven as a turn at the next boot.
* A command that was denied and is decided again opens a second Needs-you item,
  against `needs_you.py:1063-1065` "at most one"; the loop's older copy of a row
  can park a command that has been approved since.
* `loop.py:466-467` says of a failed park "its lease will expire and the sweep
  will recover it"; the sweep (600 s) comes before the lease (900 s) and hands the
  command to the model.

## 7. Not modelled

`PROJECT.json` gives the reason for each component.  The repository has some
236 000 lines in 942 files, most of them prompt assembly, retrieval, tools,
channels, user interfaces and wiring, whose state is text or somebody else's
service and which hold little control that several parties could disagree
about; the share of lines that the map covers is therefore small.  The parts
that do have such control and are still missing are those under "Left" in
section 2.
