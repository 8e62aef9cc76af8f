------------------------------ MODULE TaskLoop ------------------------------
(***************************************************************************)
(* "The ONE loop" (pipeline/durable/loop.py) and the chat fast path        *)
(* (turn_task.py) over the tasks table.                                    *)
(*                                                                         *)
(* One process holds one TaskLoop, whose tick is sequential: reclaim       *)
(* expired leases, select claimable rows, claim each with a compare-and-   *)
(* set, dispatch the claimed ones in parallel and wait for all of them,    *)
(* prune, announce dead letters.  A chat turn inserts its row already      *)
(* running and produces the reply outside the loop.  The process may die   *)
(* at any step and start again; the table survives.  Boot recovery and the *)
(* liveness sweep, which also write these rows, are not in this module.    *)
(***************************************************************************)
EXTENDS DurableStore

CONSTANTS
  Inbound,     \* the kinds of destination that inserted rows have
  MaxRoots,    \* bound: rows inserted by ingress (the rest are sub-tasks)
  MaxParallel, \* max_parallel of the loop
  MaxFaults    \* bound: crashes, failed store calls and failed ticks

ASSUME LoopAssumption ==
  /\ Inbound \subseteq Destinations
  /\ MaxRoots \in Nat /\ MaxParallel \in Nat \ {0} /\ MaxFaults \in Nat

VARIABLES
  rows,     \* the tasks table
  born,     \* how many ids have been given out
  loop,     \* where the tick is
  batch,    \* the row ids the current step of the tick iterates over
  work,     \* the loop's dispatch of each task
  turn,     \* the fast path's drive of each chat task
  answers,  \* history: answers sent to the user per task
  lost,     \* history: sent answers whose delivered_at was never written
  told,     \* history: what became of a task's "I stopped working on" messages
  faults    \* faults so far

tableVars   == <<rows, born>>
historyVars == <<answers, lost, told>>
vars == <<rows, born, loop, batch, work, turn, answers, lost, told, faults>>

LoopPhases == {"off", "reclaim", "select", "claim", "gather", "prune",
               "announce", "resolve", "ack"}

\* A drive of one task: idle; start (claimed, not yet dispatched); split and
\* link (inside _maybe_reshape); run; sent (the answer is out, delivered_at is
\* not yet written); fail (inside fail_and_requeue, between its read and its
\* UPDATE); tell (dead-lettered, _escalate still to run).
DrivePhases == {"idle", "start", "split", "link", "run", "sent", "fail", "tell"}

Drive == [pc : DrivePhases, seen : Nat, class : FailureClasses,
          kids : SUBSET Tasks]

\* An announcement went to the deliverer, or the review of dead letters made one
\* that _escalate swallowed.
Notices == {"sent", "swallowed"}

Idle == [pc |-> "idle", seen |-> 0, class |-> "transient", kids |-> {}]

At(pc) == [Idle EXCEPT !.pc = pc]

TypeOK ==
  /\ rows \in [Tasks -> Row]
  /\ born \in 0..MaxTask
  /\ loop \in LoopPhases
  /\ batch \subseteq Tasks
  /\ work \in [Tasks -> Drive]
  /\ turn \in [Tasks -> Drive]
  /\ answers \in [Tasks -> Nat]
  /\ lost \in [Tasks -> Nat]
  /\ told \in [Tasks -> SUBSET Notices]
  /\ faults \in Nat

\* The table at boot may hold one row that an earlier release left failed with
\* its answer undelivered (the rows revive_undelivered_failures exists for).
Init ==
  /\ born \in {0, 1}
  /\ \E d \in Inbound :
       rows = [t \in Tasks |-> IF t <= born
                               THEN NewRow("failed", d, {}, NoParent)
                               ELSE NoRow]
  /\ loop = "off"
  /\ batch = {}
  /\ work = [t \in Tasks |-> Idle]
  /\ turn = [t \in Tasks |-> Idle]
  /\ answers = [t \in Tasks |-> 0]
  /\ lost = [t \in Tasks |-> 0]
  /\ told = [t \in Tasks |-> {}]
  /\ faults = 0

Fault == faults < MaxFaults /\ faults' = faults + 1

(***************************************************************************)
(* Ingress.                                                                *)
(***************************************************************************)
\* enqueue_turn_task on the fast path: the row is born running and the turn
\* produces the reply.  enqueue writes no lease_expires_at.
TurnArrives(t, d) ==
  /\ loop # "off"
  /\ t = born + 1 /\ born < MaxRoots
  /\ d # "none"
  /\ born' = t
  /\ rows' = [rows EXCEPT ![t] = NewRow("running", d, {}, NoParent)]
  /\ turn' = [turn EXCEPT ![t] = At("run")]
  /\ UNCHANGED <<loop, batch, work, answers, lost, told, faults>>

\* enqueue of a pending row: a loop-produced turn, an objective, a retry.
TaskEnqueued(t, d) ==
  /\ loop # "off"
  /\ t = born + 1 /\ born < MaxRoots
  /\ born' = t
  /\ rows' = [rows EXCEPT ![t] = NewRow("pending", d, {}, NoParent)]
  /\ UNCHANGED <<loop, batch, work, turn, answers, lost, told, faults>>

(***************************************************************************)
(* What a drive does to the table when it ends, whoever runs it.           *)
(***************************************************************************)
SendAnswer(t) ==
  /\ answers' = [answers EXCEPT ![t] = @ + 1]
  /\ UNCHANGED <<rows, lost, told, faults>>

RecordDelivery(t) ==
  /\ rows' = [rows EXCEPT ![t] = Write(@, Delivered(@))]
  /\ UNCHANGED <<answers, lost, told, faults>>

\* The first half of fail_and_requeue: get() reads attempt_count.
Failing(t, c) ==
  [pc |-> "fail", seen |-> rows[t].attempts, class |-> c, kids |-> {}]

\* The second half: the UPDATE, and then _escalate if it stopped for good.
RecordFailure(t, d) ==
  /\ rows' = [rows EXCEPT ![t] = Write(@, FailedAttempt(@, d.seen, d.class))]
  /\ UNCHANGED <<answers, lost, told, faults>>

AfterFailure(t, d) ==
  IF StopsForGood(rows[t], d.seen, d.class) THEN At("tell") ELSE Idle

Announced(t, n) == [told EXCEPT ![t] = @ \cup {n}]

\* _escalate never raises: with dead-letter escalation switched off, no deliverer
\* wired, or a deliverer that raises, it returns and nobody has been told.
Escalate(t) ==
  /\ told' \in {Announced(t, "sent"), told}
  /\ UNCHANGED <<rows, answers, lost, faults>>

\* A store call raises: it is logged and swallowed, and the drive is over
\* without its write.
LoseWrite(t, d) ==
  /\ d.pc \in {"run", "sent", "fail"}
  /\ Fault
  /\ lost' = [lost EXCEPT ![t] = IF d.pc = "sent" THEN @ + 1 ELSE @]
  /\ UNCHANGED <<rows, answers, told>>

(***************************************************************************)
(* The chat turn (deliver.py calls complete_turn_task).                    *)
(***************************************************************************)
turnFrame == UNCHANGED <<born, loop, batch, work>>

TurnReplies(t) ==
  /\ turn[t].pc = "run"
  /\ SendAnswer(t)
  /\ turn' = [turn EXCEPT ![t] = At("sent")]
  /\ turnFrame

\* A floored, blocked or unachieved turn returns its row to the loop (the
\* apology the user sees is not an answer).
TurnUnachieved(t) ==
  /\ turn[t].pc = "run"
  /\ turn' = [turn EXCEPT ![t] = Failing(t, "small")]
  /\ turnFrame /\ UNCHANGED <<rows, answers, lost, told, faults>>

\* No reply, or the turn raises before it delivers: the row is left open.
TurnSilent(t) ==
  /\ turn[t].pc = "run"
  /\ turn' = [turn EXCEPT ![t] = Idle]
  /\ turnFrame /\ UNCHANGED <<rows, answers, lost, told, faults>>

TurnRecords(t) ==
  /\ turn[t].pc = "sent"
  /\ RecordDelivery(t)
  /\ turn' = [turn EXCEPT ![t] = Idle]
  /\ turnFrame

TurnRequeues(t) ==
  /\ turn[t].pc = "fail"
  /\ RecordFailure(t, turn[t])
  /\ turn' = [turn EXCEPT ![t] = AfterFailure(t, turn[t])]
  /\ turnFrame

TurnEscalates(t) ==
  /\ turn[t].pc = "tell"
  /\ Escalate(t)
  /\ turn' = [turn EXCEPT ![t] = Idle]
  /\ turnFrame

TurnLosesWrite(t) ==
  /\ LoseWrite(t, turn[t])
  /\ turn' = [turn EXCEPT ![t] = Idle]
  /\ turnFrame

TurnStep(t) ==
  \/ TurnReplies(t) \/ TurnUnachieved(t) \/ TurnSilent(t)
  \/ TurnRecords(t) \/ TurnRequeues(t) \/ TurnEscalates(t)

(***************************************************************************)
(* The tick.                                                               *)
(***************************************************************************)
tickFrame == UNCHANGED <<born, turn, answers, lost, faults>>

\* TaskLoop.start, once per process: revive, then begin ticking.
LoopStart ==
  /\ loop = "off"
  /\ loop' = "reclaim"
  /\ rows' = [t \in Tasks |-> IF Stranded(rows[t]) THEN Revived(rows[t])
                                                   ELSE rows[t]]
  /\ tickFrame /\ UNCHANGED <<batch, work, told>>

\* The revival raises: "starting anyway".
StartsUnrevived ==
  /\ loop = "off"
  /\ Fault
  /\ loop' = "reclaim"
  /\ UNCHANGED <<tableVars, batch, work, turn, historyVars>>

ReclaimExpired ==
  /\ loop = "reclaim"
  /\ loop' = "select"
  /\ rows' = [t \in Tasks |-> IF LeaseExpired(rows[t]) THEN Reclaimed(rows[t])
                                                       ELSE rows[t]]
  /\ tickFrame /\ UNCHANGED <<batch, work, told>>

\* The LIMIT of claimable's query, over ORDER BY created_at.
Window ==
  LET open == {t \in Tasks : Claimable(rows, t)}
  IN  {t \in open : Cardinality({u \in open : u < t}) < MaxParallel}

\* claimable: the dependency check runs after the LIMIT, and dead-letters a row
\* whose dependency will never land.
Select ==
  /\ loop = "select"
  /\ loop' = "claim"
  /\ batch' = {t \in Window : DepsDone(rows, t)}
  /\ rows' = [t \in Tasks |-> IF t \in Window /\ DepFailed(rows, t)
                              THEN DependencyFailed(rows[t]) ELSE rows[t]]
  /\ tickFrame /\ UNCHANGED <<work, told>>

\* claim: WHERE status = 'pending' decides whether this worker won.
Claim(t) ==
  /\ loop = "claim" /\ t \in batch
  /\ batch' = batch \ {t}
  /\ \/ /\ rows[t].status = "pending"
        /\ rows' = [rows EXCEPT ![t] = Claimed(@)]
        /\ work' = [work EXCEPT ![t] = At("start")]
     \/ /\ rows[t].status # "pending"
        /\ UNCHANGED <<rows, work>>
  /\ tickFrame /\ UNCHANGED <<loop, told>>

ClaimsDone ==
  /\ loop = "claim" /\ batch = {}
  /\ loop' = "gather"
  /\ tickFrame /\ UNCHANGED <<rows, batch, work, told>>

\* Slip: the dispatches are started and not awaited.
NotAwaited ==
  /\ loop = "gather"
  /\ loop' = "prune"
  /\ tickFrame /\ UNCHANGED <<rows, batch, work, told>>

\* asyncio.gather returns when every dispatch has returned.
Gathered ==
  /\ loop = "gather"
  /\ \A t \in Tasks : work[t].pc = "idle"
  /\ loop' = "prune"
  /\ tickFrame /\ UNCHANGED <<rows, batch, work, told>>

PruneCompleted ==
  /\ loop = "prune"
  /\ loop' = "announce"
  /\ rows' = [t \in Tasks |-> IF Prunable(rows[t]) THEN NoRow ELSE rows[t]]
  /\ tickFrame /\ UNCHANGED <<batch, work, told>>

\* resolve_unannounced_dead_letters: its SELECT, then per row, one at a time, a
\* message (only when the row has an addressee) and the stamp.  The rows are
\* independent, so they are taken in the order of their ids.
ListUnannounced ==
  /\ loop = "announce"
  /\ loop' = "resolve"
  /\ batch' = {t \in Tasks : Unannounced(rows[t])}
  /\ tickFrame /\ UNCHANGED <<rows, work, told>>

IsNext(t) == t \in batch /\ \A u \in batch : t <= u

\* The stamp follows whether or not _escalate told anybody.
ResolveTell(t) ==
  /\ loop = "resolve" /\ IsNext(t)
  /\ loop' = "ack"
  /\ IF rows[t].destination = "addressed"
       THEN \E n \in Notices : told' = Announced(t, n)
       ELSE UNCHANGED told
  /\ tickFrame /\ UNCHANGED <<rows, batch, work>>

ResolveAck(t) ==
  /\ loop = "ack" /\ IsNext(t)
  /\ loop' = "resolve"
  /\ batch' = batch \ {t}
  /\ rows' = [rows EXCEPT ![t] = Write(@, Acknowledged(@))]
  /\ tickFrame /\ UNCHANGED <<work, told>>

\* The per-row except of resolve_unannounced_dead_letters: its get or its
\* UPDATE raised.
ResolveFails(t) ==
  /\ loop \in {"resolve", "ack"} /\ IsNext(t)
  /\ Fault
  /\ loop' = "resolve"
  /\ batch' = batch \ {t}
  /\ UNCHANGED <<rows, born, work, turn, historyVars>>

TickEnds ==
  /\ loop = "resolve" /\ batch = {}
  /\ loop' = "reclaim"
  /\ tickFrame /\ UNCHANGED <<rows, batch, work, told>>

\* A store call of the tick raises: the pass is abandoned, and rows it had
\* already claimed stay running under their lease with nobody working on them.
\* (A failed SELECT of dead letters ends the pass without one.)
TickFails ==
  /\ loop \in {"reclaim", "select", "claim", "prune", "announce"}
  /\ Fault
  /\ loop' = "reclaim"
  /\ batch' = {}
  /\ work' = [t \in Tasks |-> Idle]
  /\ UNCHANGED <<rows, born, turn, historyVars>>

TickStep ==
  \/ LoopStart \/ ReclaimExpired \/ Select \/ ClaimsDone \/ Gathered
  \/ PruneCompleted \/ ListUnannounced \/ TickEnds
  \/ \E t \in Tasks : Claim(t) \/ ResolveTell(t) \/ ResolveAck(t)

(***************************************************************************)
(* _dispatch of one claimed task.                                          *)
(***************************************************************************)
workFrame == loop = "gather" /\ UNCHANGED <<loop, batch, turn>>

\* _maybe_reshape said no (or found nothing to split).
WorkBegins(t) ==
  /\ work[t].pc = "start"
  /\ work' = [work EXCEPT ![t] = At("run")]
  /\ workFrame /\ UNCHANGED <<tableVars, historyVars, faults>>

\* count_prior_reshaping_failures, when all rows have the same goal (a split is
\* never forced, so this includes the tables whose goals differ).
PriorFailures ==
  Cardinality({u \in Tasks : /\ rows[u].class = "budget"
                             /\ rows[u].status \in {"failed", "completed", "dead_letter"}})

\* wants_reshaping, should_decompose and a plan of two children, whose edges
\* point to children enqueued before.
SplitFirst(t, c) ==
  /\ work[t].pc = "start"
  /\ rows[t].class = "budget" /\ rows[t].attempts + PriorFailures >= ReshapeAfter
  /\ rows[t].deps = {} /\ rows[t].parent = NoParent
  /\ c = born + 1 /\ born + 2 <= MaxTask
  /\ born' = c
  /\ rows' = [rows EXCEPT ![c] = NewRow("pending", rows[t].destination, {}, t)]
  /\ work' = [work EXCEPT ![t] = [At("split") EXCEPT !.kids = {c}]]
  /\ workFrame /\ UNCHANGED <<historyVars, faults>>

SplitSecond(t, c, after) ==
  /\ work[t].pc = "split"
  /\ c = born + 1 /\ born < MaxTask
  /\ born' = c
  /\ rows' = [rows EXCEPT ![c] = NewRow("pending", rows[t].destination, after, t)]
  /\ work' = [work EXCEPT ![t] = [At("link") EXCEPT !.kids = work[t].kids \cup {c}]]
  /\ workFrame /\ UNCHANGED <<historyVars, faults>>

\* set_dependencies; the task is not run in this pass.
LinkChildren(t) ==
  /\ work[t].pc = "link"
  /\ rows' = [rows EXCEPT ![t] = Write(@, Waiting(@, work[t].kids))]
  /\ work' = [work EXCEPT ![t] = Idle]
  /\ workFrame /\ UNCHANGED <<born, historyVars, faults>>

\* A store call of _maybe_reshape raises: "it stays retryable in its original
\* form", and is run in this pass.
SplitFails(t) ==
  /\ work[t].pc \in {"split", "link"}
  /\ Fault
  /\ work' = [work EXCEPT ![t] = At("run")]
  /\ workFrame /\ UNCHANGED <<tableVars, historyVars>>

WorkDelivers(t) ==
  /\ work[t].pc = "run"
  /\ SendAnswer(t)
  /\ work' = [work EXCEPT ![t] = At("sent")]
  /\ workFrame /\ UNCHANGED born

WorkRecords(t) ==
  /\ work[t].pc = "sent"
  /\ RecordDelivery(t)
  /\ work' = [work EXCEPT ![t] = Idle]
  /\ workFrame /\ UNCHANGED born

\* Slip: the attempt that ran is completed without asking who waits for it.
SlipUnaddressed(t) ==
  /\ work[t].pc = "run"
  /\ rows' = [rows EXCEPT ![t] = Write(@, CompletedUnaddressed(@))]
  /\ work' = [work EXCEPT ![t] = Idle]
  /\ workFrame /\ UNCHANGED <<born, historyVars, faults>>

\* NoAddresseeCompletion
WorkUnaddressed(t) ==
  /\ work[t].pc = "run"
  /\ rows[t].destination # "addressed"
  /\ rows' = [rows EXCEPT ![t] = Write(@, CompletedUnaddressed(@))]
  /\ work' = [work EXCEPT ![t] = Idle]
  /\ workFrame /\ UNCHANGED <<born, historyVars, faults>>

WorkFails(t, c) ==
  /\ work[t].pc = "run"
  /\ work' = [work EXCEPT ![t] = Failing(t, c)]
  /\ workFrame /\ UNCHANGED <<tableVars, historyVars, faults>>

WorkRequeues(t) ==
  /\ work[t].pc = "fail"
  /\ RecordFailure(t, work[t])
  /\ work' = [work EXCEPT ![t] = AfterFailure(t, work[t])]
  /\ workFrame /\ UNCHANGED born

WorkEscalates(t) ==
  /\ work[t].pc = "tell"
  /\ Escalate(t)
  /\ work' = [work EXCEPT ![t] = Idle]
  /\ workFrame /\ UNCHANGED born

WorkLosesWrite(t) ==
  /\ LoseWrite(t, work[t])
  /\ work' = [work EXCEPT ![t] = Idle]
  /\ workFrame /\ UNCHANGED born

WorkStep(t) ==
  \/ WorkBegins(t) \/ LinkChildren(t) \/ WorkDelivers(t) \/ WorkRecords(t)
  \/ WorkUnaddressed(t) \/ WorkRequeues(t) \/ WorkEscalates(t)
  \/ \E c \in FailureClasses : WorkFails(t, c)
  \/ \E c \in Tasks : SplitFirst(t, c)
  \/ \E c \in Tasks : \E after \in SUBSET work[t].kids : SplitSecond(t, c, after)

(***************************************************************************)
(* Time, and the death of the process.                                     *)
(***************************************************************************)
TimePasses ==
  /\ rows' = [t \in Tasks |-> Older(rows[t])]
  /\ rows' # rows
  /\ UNCHANGED <<born, loop, batch, work, turn, historyVars, faults>>

BackoffElapses(t) ==
  /\ rows[t].backoff
  /\ rows' = [rows EXCEPT ![t].backoff = FALSE]
  /\ UNCHANGED <<born, loop, batch, work, turn, historyVars, faults>>

Crash ==
  /\ loop # "off"
  /\ Fault
  /\ loop' = "off"
  /\ batch' = {}
  /\ work' = [t \in Tasks |-> Idle]
  /\ turn' = [t \in Tasks |-> Idle]
  /\ lost' = [t \in Tasks |-> IF "sent" \in {work[t].pc, turn[t].pc}
                              THEN lost[t] + 1 ELSE lost[t]]
  /\ UNCHANGED <<tableVars, answers, told>>

Next ==
  \/ TickStep \/ StartsUnrevived \/ TickFails \/ TimePasses \/ Crash
  \/ \E t \in Tasks :
       \/ \E d \in Inbound : TurnArrives(t, d) \/ TaskEnqueued(t, d)
       \/ TurnStep(t) \/ TurnLosesWrite(t)
       \/ WorkStep(t) \/ WorkLosesWrite(t) \/ SplitFails(t)
       \/ ResolveFails(t)
       \/ BackoffElapses(t)

Spec == Init /\ [][Next]_vars
(***************************************************************************)
(* Fairness: the loop ticks for ever ("The loop never ends"), a dispatched  *)
(* attempt returns (its provider and tool calls have timeouts), and time    *)
(* passes.  Nothing is assumed of ingress, of the chat turn, or of faults.  *)
(***************************************************************************)
FairSpec ==
  /\ Spec
  /\ WF_vars(TickStep)
  /\ WF_vars(TimePasses)
  /\ WF_vars(\E t \in Tasks : WorkStep(t))
  /\ WF_vars(\E t \in Tasks : BackoffElapses(t))

(***************************************************************************)
(* Safety.                                                                 *)
(***************************************************************************)
\* A row the loop may claim is nobody's: no dispatch and no chat turn is still
\* at work on a pending row, so claiming it cannot run the task twice.  claim's
\* compare-and-set protects the row; this is what protects the work.
ClaimableIsUnowned ==
  \A t \in Tasks : rows[t].status = "pending" =>
    work[t].pc = "idle" /\ turn[t].pc = "idle" /\ rows[t].lease = NoLease

\* The three writers of attempt_count together respect max_attempts, and a row
\* that may still run has budget left (fail_and_requeue, reclaim_expired).
AttemptBudget ==
  \A t \in Tasks :
    /\ rows[t].attempts <= MaxAttempts
    /\ rows[t].status \in {"pending", "running"} => rows[t].attempts < MaxAttempts

\* A task is answered twice only if the proof of an earlier answer was lost (a
\* crash or a failed mark_delivered between the send and the write).
AnsweredOnce ==
  \A t \in Tasks : answers[t] <= lost[t] + 1

\* A task that was split runs again only after every sub-task it waits for
\* has delivered: nobody answers with information it does not have yet.
ChildrenFirst ==
  \A t \in Tasks : work[t].pc # "idle" =>
    \A d \in rows[t].deps : rows[d].status \in {"completed", "absent"}

TerminalKept ==
  \A t \in Tasks :
    /\ rows[t].status = "dead_letter" => rows'[t].status = "dead_letter"
    /\ rows[t].status = "completed" => rows'[t].status \in {"completed", "absent"}

\* No step brings a delivered or a dead-lettered task back to life (a delivered
\* row may only be pruned): fail_and_requeue, whose UPDATE has no guard on the
\* status, only ever finds a running row.
TerminalStays == [][TerminalKept]_vars

\* What the row of a task says of its life: an id that is not fresh any more and has
\* no row was pruned.
LifeOf(r, fresh) ==
  CASE r.status = "absent"      -> IF fresh THEN "none" ELSE "pruned"
    [] r.status = "completed"   -> "closed"
    [] r.status = "dead_letter" -> "dead"
    [] OTHER                    -> "open"

Contract == INSTANCE TaskLife WITH
  life <- [t \in Tasks |-> LifeOf(rows[t], t > born)],
  addressed <- [t \in Tasks |-> rows[t].destination = "addressed"]

\* The loop and the chat path together keep what TaskLife promises: with leases
\* expiring, rows reclaimed, split, revived and pruned in bulk, and the process
\* dying between any two statements, a task somebody waits for is closed only over
\* an answer and given up only without one on its way, for good either way.
KeepsContract == Contract!Spec

(***************************************************************************)
(* Liveness, of FairSpec.                                                  *)
(***************************************************************************)
Settled(t) == rows[t].status \in {"completed", "dead_letter", "absent"}

\* A row the loop owns comes to an end whatever its attempts do and whenever the
\* process dies: it is delivered, dead-lettered, or turned into sub-tasks.
RootSettles ==
  \A t \in Tasks :
    (rows[t].status = "pending" /\ rows[t].parent = NoParent)
      ~> (Settled(t) \/ rows[t].deps # {})

\* Every dead letter is reviewed, whenever the process dies: retired if nobody is
\* waiting, and if somebody is, announced to him unless _escalate swallowed the
\* announcement that resolve_unannounced_dead_letters made (it acknowledges the
\* row all the same, and nobody tries again).
DeadLettersReviewed ==
  \A t \in Tasks :
    rows[t].status = "dead_letter"
      ~> /\ rows[t].acknowledged
         /\ \/ rows[t].destination # "addressed"
            \/ "sent" \in told[t] \/ "swallowed" \in told[t]
=============================================================================
