---------------------------- MODULE DurableReAct ----------------------------
(***************************************************************************)
(* A durable agent task: the provider's ReAct loop driven under the side-  *)
(* effect ledger and the per-iteration checkpoint (pipeline/durable/       *)
(* ledger.py, ledger_guard.py, checkpoint_callback.py, session.py,         *)
(* task_runner.py; providers/anthropic_provider.py; the dispatch seam of   *)
(* pipeline/steps/execute.py), and its resumption by recovery.py after the *)
(* process died, or while a slow drive is still alive (the liveness sweep). *)
(*                                                                         *)
(* One task.  A drive is one execution of DurableTaskRunner._drive.  Each   *)
(* await of the code that another drive, a timeout or a crash can come     *)
(* between is a step of its own.                                           *)
(***************************************************************************)
EXTENDS Integers, FiniteSets

CONSTANTS
  MaxDrives,   \* bound: drives that can be alive at the same time
  Calls,       \* side-effecting calls: a tool and its arguments
  MaxCalls,    \* bound: tool calls in one answer of the model
  MaxIter,     \* max_total of the IterationBudget
  MaxStarts,   \* bound: times the task is driven (run and resume)
  MaxRounds,   \* bound: rounds of the transcript
  MaxCrashes   \* bound: deaths of the process

ASSUME ReActAssumption ==
  /\ Calls # {}
  /\ MaxDrives \in Nat /\ MaxCalls \in Nat /\ MaxIter \in Nat \ {0}
  /\ MaxStarts \in Nat /\ MaxRounds \in Nat /\ MaxCrashes \in Nat

VARIABLES
  status,      \* the task row's status
  blob,        \* its checkpoint_blob
  ledger,      \* side_effect_ledger: key -> status of the row
  drive,       \* the drives
  starts,      \* how often the task was driven
  crashes,     \* how often the process died
  ran,         \* history: how often the effect of a key happened
  madeIn,      \* history: the round in which it happened (-1: it did not)
  did,         \* history: the logical calls <<round, call>> of the present
               \* transcript that happened
  twice,       \* history: the logical calls that happened again
  skipped,     \* history: logical calls answered with another round's result
  overlap      \* history: a drive was started while another was alive

rowVars  == <<status, blob>>
history  == <<ran, madeIn, did, twice, skipped>>
counters == <<starts, crashes, overlap>>
vars == <<status, blob, ledger, drive, starts, crashes, ran, madeIn, did, twice,
          skipped, overlap>>

Drives == 1..MaxDrives

\* idempotency_key: the step index and the call (task and owner are fixed).
Keys == (0..MaxIter) \X Calls

\* "pending" is the loop's, "ended" stands for completed and dead_letter.
TaskStatuses == {"none", "running", "recovering", "pending", "parked", "ended"}

NoBlob == [iteration |-> -1, rounds |-> 0]

\* Where a drive is: claimed (recovery holds the row, the checkpoint is not yet
\* loaded); top of the loop; think (the model's answer is awaited); act (between
\* tool calls); select, insert, exec, commit (inside ledger_guard); save, mark
\* (inside the checkpoint callback); end, write (inside _finalize).
DrivePhases == {"idle", "claimed", "top", "think", "act", "select", "insert",
                "exec", "commit", "save", "mark", "end", "write"}

\* How a drive ends; corrupt is failed, with the checkpoint to blame.
Verdicts == {"completed", "failed", "corrupt", "parked"}

Drive == [pc      : DrivePhases,
          step    : 0..MaxIter,        \* ctx.iteration
          used    : 0..MaxIter,        \* IterationBudget._used
          refunds : 0..MaxIter,        \* IterationBudget._refunded
          round   : 0..MaxRounds,      \* rounds completed in its transcript
          left    : 0..MaxCalls,       \* tool calls of this answer to dispatch
          text    : BOOLEAN,           \* a call written as text, not natively
          call    : Calls,             \* the call being dispatched
          draft   : BOOLEAN,           \* this round's answer has no call
          verdict : Verdicts]

Fresh == [pc |-> "idle", step |-> 0, used |-> 0, refunds |-> 0, round |-> 0,
          left |-> 0, text |-> FALSE, call |-> CHOOSE c \in Calls : TRUE,
          draft |-> FALSE, verdict |-> "failed"]

Live(d) == drive[d].pc # "idle"

\* A new drive takes the first slot that is free.
Free(d) == ~Live(d) /\ \A e \in Drives : e < d => Live(e)

\* The key and the logical identity of the call that d is dispatching.
KeyOf(d)  == <<drive[d].step, drive[d].call>>
CallOf(d) == <<drive[d].round, drive[d].call>>

TypeOK ==
  /\ status \in TaskStatuses
  /\ blob \in [iteration : -1..(MaxIter - 1), rounds : 0..MaxRounds]
  /\ ledger \in [Keys -> {"none", "intent", "committed"}]
  /\ drive \in [Drives -> Drive]
  /\ starts \in 0..MaxStarts
  /\ crashes \in 0..MaxCrashes
  /\ ran \in [Keys -> Nat]
  /\ madeIn \in [Keys -> -1..MaxRounds]
  /\ did \subseteq (0..MaxRounds) \X Calls
  /\ twice \subseteq (0..MaxRounds) \X Calls
  /\ skipped \subseteq (0..MaxRounds) \X Calls
  /\ overlap \in BOOLEAN

Init ==
  /\ status = "none" /\ blob = NoBlob
  /\ ledger = [k \in Keys |-> "none"]
  /\ drive = [d \in Drives |-> Fresh]
  /\ starts = 0 /\ crashes = 0
  /\ ran = [k \in Keys |-> 0]
  /\ madeIn = [k \in Keys |-> -1]
  /\ did = {} /\ twice = {} /\ skipped = {}
  /\ overlap = FALSE

Goto(d, pc) == drive' = [drive EXCEPT ![d].pc = pc]

Leave(d) == drive' = [drive EXCEPT ![d] = Fresh]

\* The drive's loop is left, and _finalize is entered with this verdict.
EndWith(d, v) == drive' = [drive EXCEPT ![d].pc = "end", ![d].verdict = v]

(***************************************************************************)
(* Starting and resuming.                                                  *)
(***************************************************************************)
\* DurableTaskRunner.run: the row is created running, ctx.iteration = 0.
Run(d) ==
  /\ status = "none" /\ Free(d) /\ starts < MaxStarts
  /\ status' = "running"
  /\ starts' = starts + 1
  /\ drive' = [drive EXCEPT ![d] = [Fresh EXCEPT !.pc = "top"]]
  /\ UNCHANGED <<blob, ledger, history, crashes, overlap>>

\* claim_for_recovery: by the liveness sweep on a running row (stale or only
\* slow), which charges an attempt and so may dead-letter the row it claims; or
\* at boot, when nothing is alive, on a recovering one too.
RecoveryClaims(d) ==
  /\ Free(d) /\ starts < MaxStarts
  /\ \/ status = "running" /\ status' \in {"recovering", "ended"}
     \/ /\ status = "recovering" /\ \A e \in Drives : ~Live(e)
        /\ status' = "recovering"
  /\ starts' = starts + 1
  /\ overlap' = (overlap \/ \E e \in Drives : Live(e))
  /\ drive' = [drive EXCEPT ![d] = [Fresh EXCEPT !.pc = "claimed"]]
  /\ UNCHANGED <<blob, ledger, history, crashes>>

\* Slip: a resumed drive is seeded with step 0 whatever the checkpoint says.
ResumeSeed == 0

\* session.py: seed_iteration, from durable_resume_iteration = cp.iteration + 1
\* when there is a checkpoint, else 0.
SeedIteration == blob.iteration + 1

\* _reconstruct_state and _return_to_running; the provider restarts its own
\* iteration count at 0.
RecoveryResumes(d) ==
  /\ drive[d].pc = "claimed"
  /\ status' = "running"
  /\ drive' = [drive EXCEPT ![d] = [Fresh EXCEPT !.pc = "top",
                                                 !.step = SeedIteration,
                                                 !.round = blob.rounds]]
  /\ UNCHANGED <<blob, ledger, history, counters>>

\* The same, but the provider rejects the transcript (validate_resume_transcript)
\* before its first request.
RecoveryRejected(d) ==
  /\ drive[d].pc = "claimed" /\ blob # NoBlob
  /\ status' = "running"
  /\ EndWith(d, "corrupt")
  /\ UNCHANGED <<blob, ledger, history, counters>>

\* reclaim_one's except: the row is left recovering.
RecoveryFails(d) ==
  /\ drive[d].pc = "claimed"
  /\ Leave(d)
  /\ UNCHANGED <<rowVars, ledger, history, counters>>

(***************************************************************************)
(* The provider's loop.                                                    *)
(***************************************************************************)
\* while iter_budget.consume()
Consume(d) ==
  /\ drive[d].pc = "top" /\ drive[d].used < MaxIter
  /\ drive' = [drive EXCEPT ![d].pc = "think", ![d].used = @ + 1]
  /\ UNCHANGED <<rowVars, ledger, history, counters>>

\* The budget is spent: the wrap-up answers without tools, and never raises.
WrapUp(d) ==
  /\ drive[d].pc = "top" /\ drive[d].used = MaxIter
  /\ EndWith(d, "completed")
  /\ UNCHANGED <<rowVars, ledger, history, counters>>

\* The model answers with n native tool calls, or with one written as text.
AnswerCalls(d, n, text) ==
  /\ drive[d].pc = "think"
  /\ text => n = 1
  /\ drive' = [drive EXCEPT ![d].pc = "act", ![d].left = n, ![d].text = text]
  /\ UNCHANGED <<rowVars, ledger, history, counters>>

\* The model answers with no call: a draft of the final answer.
AnswerDraft(d) ==
  /\ drive[d].pc = "think"
  /\ drive' = [drive EXCEPT ![d].pc = "save", ![d].draft = TRUE]
  /\ UNCHANGED <<rowVars, ledger, history, counters>>

\* The round's request fails or exceeds its deadline: ProviderError.
RoundFails(d) ==
  /\ drive[d].pc = "think"
  /\ EndWith(d, "failed")
  /\ UNCHANGED <<rowVars, ledger, history, counters>>

DispatchCall(d, c) ==
  /\ drive[d].pc = "act" /\ drive[d].left > 0
  /\ drive' = [drive EXCEPT ![d].pc = "select", ![d].left = @ - 1, ![d].call = c]
  /\ UNCHANGED <<rowVars, ledger, history, counters>>

RoundDone(d) ==
  /\ drive[d].pc = "act" /\ drive[d].left = 0
  /\ drive' = [drive EXCEPT ![d].pc = "save", ![d].text = FALSE]
  /\ UNCHANGED <<rowVars, ledger, history, counters>>

(***************************************************************************)
(* ledger_guard.                                                           *)
(***************************************************************************)
\* begin's SELECT found no row; its INSERT comes next.
BeginProceeds(d) ==
  /\ drive[d].pc = "select" /\ ledger[KeyOf(d)] = "none"
  /\ Goto(d, "insert")
  /\ UNCHANGED <<rowVars, ledger, history, counters>>

\* "already_committed": the recorded result is returned, nothing runs.
BeginReplays(d) ==
  /\ drive[d].pc = "select" /\ ledger[KeyOf(d)] = "committed"
  /\ skipped' = IF madeIn[KeyOf(d)] # drive[d].round
                THEN skipped \cup {CallOf(d)} ELSE skipped
  /\ Goto(d, "act")
  /\ UNCHANGED <<rowVars, ledger, ran, madeIn, did, twice, counters>>

\* Slip: INSERT OR REPLACE, which the primary key does not refuse.
BeginReplaces(d) ==
  /\ drive[d].pc = "insert"
  /\ ledger' = [ledger EXCEPT ![KeyOf(d)] = "intent"]
  /\ Goto(d, "exec")
  /\ UNCHANGED <<rowVars, history, counters>>

\* The INSERT of the intent.
BeginInserts(d) ==
  /\ drive[d].pc = "insert" /\ ledger[KeyOf(d)] = "none"
  /\ ledger' = [ledger EXCEPT ![KeyOf(d)] = "intent"]
  /\ Goto(d, "exec")
  /\ UNCHANGED <<rowVars, history, counters>>

\* execute_fn: the effect happens in the world.
Execute(d) ==
  /\ drive[d].pc = "exec"
  /\ ran' = [ran EXCEPT ![KeyOf(d)] = @ + 1]
  /\ madeIn' = [madeIn EXCEPT ![KeyOf(d)] = drive[d].round]
  /\ did' = did \cup {CallOf(d)}
  /\ twice' = twice \cup ({CallOf(d)} \cap did)
  /\ Goto(d, "commit")
  /\ UNCHANGED <<rowVars, ledger, skipped, counters>>

Commit(d) ==
  /\ drive[d].pc = "commit"
  /\ ledger' = [ledger EXCEPT ![KeyOf(d)] = "committed"]
  /\ Goto(d, "act")
  /\ UNCHANGED <<rowVars, history, counters>>

\* asyncio.wait_for(ledger_guard(...)) cancels the call wherever it is; the
\* model is told that it "did not complete", and the loop goes on.
TimesOut(d) ==
  /\ drive[d].pc \in {"select", "insert", "exec", "commit"}
  /\ Goto(d, "act")
  /\ UNCHANGED <<rowVars, ledger, history, counters>>

\* begin's verdict "uncertain" (an intent without a commit), the primary key
\* refusing the INSERT, the tool or the commit raising.
Raises(d) ==
  \/ drive[d].pc = "select" /\ ledger[KeyOf(d)] = "intent"
  \/ drive[d].pc = "insert" /\ ledger[KeyOf(d)] # "none"
  \/ drive[d].pc \in {"exec", "commit"}

\* DurableReplayUncertain parks the task, anything else fails it.
CallRaises(d) ==
  /\ Raises(d) /\ ~drive[d].text
  /\ EndWith(d, IF drive[d].pc = "select" THEN "parked" ELSE "failed")
  /\ UNCHANGED <<rowVars, ledger, history, counters>>

\* The text protocol's dispatch shows the error to the model and keeps looping.
TextCallRaises(d) ==
  /\ Raises(d) /\ drive[d].text
  /\ Goto(d, "act")
  /\ UNCHANGED <<rowVars, ledger, history, counters>>

(***************************************************************************)
(* The checkpoint callback, at the end of a round and of a draft.           *)
(***************************************************************************)
\* Slip: the checkpoint holds the next iteration, not the completed one.
NextIteration(d) == drive[d].used

\* _iter_idx, what the provider reports as state.iteration.
IterIdx(d) == drive[d].used - 1

SaveCheckpoint(d) ==
  /\ drive[d].pc = "save" /\ drive[d].round < MaxRounds
  /\ blob' = [iteration |-> IterIdx(d), rounds |-> drive[d].round + 1]
  /\ Goto(d, "mark")
  /\ UNCHANGED <<status, ledger, history, counters>>

\* update_status(running, current_step) and ctx.iteration = next_step.  What
\* follows is the next round, or the end: the loop guard tripped, the draft was
\* accepted, or a callback after this one (budget, steering) raised.
Marked(d) ==
  [drive[d] EXCEPT !.step = IterIdx(d) + 1, !.round = @ + 1, !.draft = FALSE]

MarkNextRound(d) ==
  /\ drive[d].pc = "mark" /\ ~drive[d].draft
  /\ status' = "running"
  /\ drive' = [drive EXCEPT ![d] = [Marked(d) EXCEPT !.pc = "top"]]
  /\ UNCHANGED <<blob, ledger, history, counters>>

\* Slip: every corrected round is given back.
RefundedAlways(r) == [r EXCEPT !.used = @ - 1]

\* IterationBudget.refund, bounded by max_total refunds.
Refunded(r) ==
  IF r.refunds < MaxIter THEN [r EXCEPT !.used = @ - 1, !.refunds = @ + 1] ELSE r

\* The draft is corrected (a steer, a format fix, a give-up directive).
MarkCorrected(d) ==
  /\ drive[d].pc = "mark" /\ drive[d].draft
  /\ status' = "running"
  /\ drive' = [drive EXCEPT ![d] = [Refunded(Marked(d)) EXCEPT !.pc = "top"]]
  /\ UNCHANGED <<blob, ledger, history, counters>>

MarkLast(d, v) ==
  /\ drive[d].pc = "mark"
  /\ v \in {"completed", "failed"}
  /\ status' = "running"
  /\ drive' = [drive EXCEPT ![d] = [Marked(d) EXCEPT !.pc = "end", !.verdict = v]]
  /\ UNCHANGED <<blob, ledger, history, counters>>

\* save_checkpoint or update_status raises, and the callback lets it.
CheckpointFails(d) ==
  /\ drive[d].pc \in {"save", "mark"}
  /\ EndWith(d, "failed")
  /\ UNCHANGED <<rowVars, ledger, history, counters>>

(***************************************************************************)
(* _finalize.                                                              *)
(***************************************************************************)
\* It reads the status, and writes only over running.
FinalizeReads(d) ==
  /\ drive[d].pc = "end"
  /\ IF status = "running" THEN Goto(d, "write") ELSE Leave(d)
  /\ UNCHANGED <<rowVars, ledger, history, counters>>

\* update_status: a completion whose answer is still owed to a destination is
\* held at running; a failure goes back to the loop, or is dead-lettered.
Written(v) ==
  CASE v = "completed" -> {"ended", "running"}
    [] v = "failed"    -> {"pending", "ended"}
    [] v = "corrupt"   -> {"pending", "ended"}
    [] v = "parked"    -> {"parked"}

\* fail_and_requeue drops a checkpoint that cannot be resumed; the next drive
\* begins a new transcript.
Drops(d, s) == drive[d].verdict = "corrupt" /\ s = "pending"

FinalizeWrites(d, s) ==
  /\ drive[d].pc = "write" /\ s \in Written(drive[d].verdict)
  /\ status' = s
  /\ blob' = IF Drops(d, s) THEN NoBlob ELSE blob
  /\ did' = IF Drops(d, s) THEN {} ELSE did
  /\ Leave(d)
  /\ UNCHANGED <<ledger, ran, madeIn, twice, skipped, counters>>

(***************************************************************************)
(* The rest of the system.                                                 *)
(***************************************************************************)
\* The one loop claims the row (see TaskLoop); while it works, the row is
\* running and the liveness sweep may find it stale.
LoopClaims ==
  /\ status = "pending"
  /\ status' = "running"
  /\ UNCHANGED <<blob, ledger, drive, history, counters>>

Crash ==
  /\ crashes < MaxCrashes /\ \E d \in Drives : Live(d)
  /\ crashes' = crashes + 1
  /\ drive' = [d \in Drives |-> Fresh]
  /\ UNCHANGED <<rowVars, ledger, history, starts, overlap>>

GuardStep(d) ==
  \/ BeginProceeds(d) \/ BeginReplays(d) \/ BeginInserts(d) \/ Execute(d)
  \/ Commit(d) \/ TimesOut(d) \/ CallRaises(d) \/ TextCallRaises(d)

\* What a drive does by itself.
Advance(d) ==
  \/ RecoveryResumes(d) \/ RecoveryRejected(d)
  \/ Consume(d) \/ WrapUp(d) \/ AnswerDraft(d) \/ RoundDone(d)
  \/ \E n \in 1..MaxCalls, text \in BOOLEAN : AnswerCalls(d, n, text)
  \/ \E c \in Calls : DispatchCall(d, c)
  \/ GuardStep(d)
  \/ SaveCheckpoint(d) \/ MarkNextRound(d) \/ MarkCorrected(d)
  \/ \E v \in Verdicts : MarkLast(d, v)
  \/ FinalizeReads(d) \/ \E s \in TaskStatuses : FinalizeWrites(d, s)

DriveStep(d) == Advance(d) \/ RecoveryFails(d) \/ RoundFails(d) \/ CheckpointFails(d)

Next ==
  \/ \E d \in Drives : Run(d) \/ RecoveryClaims(d) \/ DriveStep(d)
  \/ LoopClaims \/ Crash

Spec == Init /\ [][Next]_vars

(***************************************************************************)
(* Fairness: a drive that is alive goes on.  The model's answers and the   *)
(* tools have deadlines (wait_for), so every await comes to an end.  That  *)
(* the store or the provider fails is never relied on.                     *)
(***************************************************************************)
FairSpec == Spec /\ \A d \in Drives : WF_vars(Advance(d))

(***************************************************************************)
(* Properties.                                                             *)
(***************************************************************************)
\* The ledger's promise, per key, with drives overlapping and the process dying
\* anywhere: see AtMostOnce.  begin's SELECT-then-INSERT is safe because the key
\* is the primary key.
Promise == INSTANCE AtMostOnce WITH row <- ledger

EffectOnce == Promise!Spec

\* What the user cares about: as long as drives do not overlap, the same logical
\* call (the same call in the same round of the transcript) happens at most once,
\* however often the task is resumed.  It needs every resumed drive to compute
\* the key that the dead one computed.  Nothing is said across a checkpoint that
\* was dropped: the calls of a new transcript are other calls.
CallOnce == ~overlap => twice = {}

\* A drive comes to an end: the iteration budget drains although corrected
\* rounds are given back.  (MaxRounds must leave room for every drive: a drive
\* that outgrew it would wait at its checkpoint for ever.)
DriveEnds == \A d \in Drives : Live(d) ~> ~Live(d)

(***************************************************************************)
(* What the repository says and the code does not do (see the findings in  *)
(* PROJECT.json).                                                          *)
(***************************************************************************)
\* checkpoint_callback.py: "during iteration N, ctx.iteration == N", so that a
\* recorded result answers only a replay of the call that made it.
NoFalseReplay == skipped = {}
=============================================================================
