---------------------------- MODULE TurnRecovery ----------------------------
(***************************************************************************)
(* What becomes of a chat message when the process dies: the message       *)
(* ledger (memory/message_ledger_store.py), the turn's row in the tasks    *)
(* table, and the parts that pick either up again                          *)
(* (pipeline/durable/recovery.py, handlers/task_liveness_sweep.py, the one *)
(* loop), in the order startup/orchestrator.py starts them.                *)
(*                                                                         *)
(* A message and its tasks row share one id, the trace id.  A drive is one *)
(* run of the pipeline for a message: the turn itself, the redrive of a    *)
(* pending ledger row, the resume of a tasks row (by boot recovery or by   *)
(* the sweep), or the loop's retry.  Every await of a drive or of a        *)
(* recovery pass that writes one of the two tables, or that reads one for  *)
(* a later write, is a step of its own.  The loop's tick is reduced to the *)
(* store calls it makes here (module TaskLoop has its order), with one     *)
(* dispatch at a time.                                                     *)
(*                                                                         *)
(* Time is not counted: a step takes as long as it likes, so a running row *)
(* may be stale, a lease expired and a backoff over whenever the sweep or  *)
(* the loop looks.                                                         *)
(***************************************************************************)
EXTENDS DurableStore

CONSTANTS
  MaxDrives,   \* bound: drives that may be alive at once
  Inbound,     \* the kinds of destination that messages come with
  MaxFaults    \* bound: crashes of the process, and store calls, pushes and
               \* pipelines that raise

ASSUME RecoveryAssumption ==
  /\ MaxDrives \in Nat \ {0}
  /\ Inbound \subseteq {"bare", "addressed"}
  /\ MaxFaults \in Nat

VARIABLES
  rows,     \* the tasks table
  ledger,   \* message_ledger.status of each message, "none" without a row
  reply,    \* where each message's answer belongs
  intake,   \* how far _handle_ingress got with the message
  drive,    \* each message's drives, one of each kind at most
  phase,    \* how far this process is with its start
  pass,     \* boot recovery and the sweep, each iterating over a list it read
  told,     \* history: messages whose sender was sent an answer or an apology
  quiet,    \* history: messages a drive finished with nothing to say
  lapse,    \* history: the exceptions that gave each message up
  faults

vars == <<rows, ledger, reply, intake, drive, phase, pass, told, quiet,
          lapse, faults>>

Messages == Tasks

\* late: a steer that came too late for its turn and waits in the queue without
\* its raw message.  dropped: the drain took a late one.  gone: received or
\* waiting in memory when the process died, or lost by a drain that raised.
IntakeStages == {"new", "received", "queued", "late", "dispatched", "consumed",
                 "folded", "refused", "dropped", "gone"}

\* closed: completed, failed or absorbed, which nothing tells apart.
LedgerStates == {"none", "pending", "closed"}

\* The start of a core process: the loop and the receive loops run (serving),
\* and only then are the orphans listed and claimed (claiming) and the pending
\* messages redriven; up: the scheduler runs, and with it the sweep.
Phases == {"off", "serving", "claiming", "up"}

Rescuers == {"boot", "sweep"}

\* resume: DurableTaskRunner.resume, which either rescuer launches.  Two of them
\* at once for one row are module DurableReAct's subject.
Kinds == {"turn", "redrive", "loop", "resume"}

\* run: inside the pipeline's steps.  gated: persist_turn is done.  sent: the
\* user has the answer, the row has no proof.  fail and refail: between the
\* read and the UPDATE of fail_and_requeue, asked for by the delivery or by
\* _finalize.  say: the floor is still to be sent.  net: the producer's
\* done-callback is still to flip the ledger.  final, close: between the
\* pipeline and _finalize's reads, and between those and the UPDATE.
DrivePhases == {"idle", "run", "gated", "sent", "fail", "refail", "say", "net",
                "final", "close"}

\* What the pipeline made of the message: an answer, an honest floor, a reply
\* whose effect was measured absent, nothing, or an exception.
Outcomes == {"answer", "floor", "unachieved", "blank"}

\* unlogged: enqueue_turn_task could not insert the row of the turn.
\* unproved: _owes_delivery could not read the row.  unbuilt: the state of a
\* claimed row could not be reconstructed.
Lapses == {"unlogged", "unproved", "unbuilt"}

\* seen: the attempt_count fail_and_requeue read.  verdict: the status _finalize
\* is about to write.
Drive == [pc : DrivePhases, outcome : Outcomes \cup {"none", "error"}, seen : Nat,
          class : FailureClasses, verdict : {"none", "completed", "parked", "running"}]

\* A drive at pc, which remembers nothing that its next steps do not read.
At(pc, o) == [pc |-> pc, outcome |-> o, seen |-> 0, class |-> "transient",
              verdict |-> "none"]

NoDrive == At("idle", "none")

\* fail_and_requeue has read the row.
Failing(pc, o, r, c) ==
  [At(pc, IF o = "floor" THEN o ELSE "none") EXCEPT !.seen = r.attempts, !.class = c]

\* The rows of the list that are still to be claimed, and the row claimed.
Pass == [todo : SUBSET Messages, cur : 0..MaxTask]
NoPass == [todo |-> {}, cur |-> 0]

\* The ledger only ever holds a state its CHECK names, a row one of its columns'
\* values, and the bounds on crashes and faults are kept.
TurnTypeOK ==
  /\ rows \in [Messages -> Row]
  /\ ledger \in [Messages -> LedgerStates]
  /\ reply \in [Messages -> Inbound]
  /\ intake \in [Messages -> IntakeStages]
  /\ drive \in [Messages -> [Kinds -> Drive]]
  /\ phase \in Phases
  /\ pass \in [Rescuers -> Pass]
  /\ told \subseteq Messages /\ quiet \subseteq Messages
  /\ lapse \in [Messages -> SUBSET Lapses]
  /\ faults \in 0..MaxFaults

Init ==
  /\ rows = [m \in Messages |-> NoRow]
  /\ ledger = [m \in Messages |-> "none"]
  /\ reply \in [Messages -> Inbound]
  /\ intake = [m \in Messages |-> "new"]
  /\ drive = [m \in Messages |-> [k \in Kinds |-> NoDrive]]
  /\ phase = "off"
  /\ pass = [a \in Rescuers |-> NoPass]
  /\ told = {} /\ quiet = {}
  /\ lapse = [m \in Messages |-> {}]
  /\ faults = 0

\* A call that raises, and one after which the code gives the message up.
Fault == faults < MaxFaults /\ faults' = faults + 1 /\ UNCHANGED lapse

Lapse(m, l) ==
  /\ faults < MaxFaults
  /\ faults' = faults + 1
  /\ lapse' = [lapse EXCEPT ![m] = @ \cup {l}]

noFault == UNCHANGED <<faults, lapse>>

Live(m) == {k \in Kinds : drive[m][k].pc # "idle"}

Put(m, r) == rows' = [rows EXCEPT ![m] = Timeless(r)]

Launches(m, k) ==
  /\ drive[m][k] = NoDrive
  /\ Cardinality({x \in Messages \X Kinds : drive[x[1]][x[2]].pc # "idle"}) < MaxDrives
  /\ drive' = [drive EXCEPT ![m][k] = At("run", "none")]

\* Slip: the row of a turn that ended well is given a state of its own.
SlipFlip(old, new) == IF new = "closed" THEN "delivered" ELSE new

\* _flip: the UPDATE is guarded by status = 'pending'.
Flip(old, new) == IF old = "pending" THEN new ELSE old

(***************************************************************************)
(* Ingress.                                                                *)
(***************************************************************************)
\* insert_pending, before the message touches anything in memory.
Receive(m) ==
  /\ phase # "off"
  /\ intake[m] = "new"
  /\ intake' = [intake EXCEPT ![m] = "received"]
  /\ \/ /\ ledger' = [ledger EXCEPT ![m] = "pending"]
        /\ noFault
     \/ /\ Fault
        /\ UNCHANGED ledger
  /\ UNCHANGED <<rows, reply, drive, phase, pass, told, quiet>>

\* The message answers a waiting question, when it arrives or when the queue
\* drains: no turn starts, and the ledger row stays pending.
AnswersClarify(m) ==
  /\ intake[m] \in {"received", "queued"}
  /\ intake' = [intake EXCEPT ![m] = "consumed"]
  /\ UNCHANGED <<rows, ledger, reply, drive, phase, pass, told, quiet, lapse,
                 faults>>

\* _intake, when it does not dispatch: the message waits in memory; or the
\* queue is full; or it steers or stops the running turn.  A steer that came
\* too late for its turn is queued, but nothing keeps its raw message, and its
\* ledger row is closed all the same.
TakeIn(m) ==
  /\ intake[m] = "received"
  /\ \E to \in {<<"queued", "pending">>, <<"refused", "closed">>,
                <<"folded", "closed">>, <<"late", "closed">>} :
       /\ intake' = [intake EXCEPT ![m] = to[1]]
       /\ \/ /\ ledger' = [ledger EXCEPT ![m] = Flip(@, to[2])]
             /\ noFault
          \/ /\ to[2] # "pending" /\ Fault
             /\ UNCHANGED ledger
  /\ UNCHANGED <<rows, reply, drive, phase, pass, told, quiet>>

\* _dispatch_turn, now or when the queue drains: enqueue_turn_task inserts the
\* row already running and without a lease (or raises, and the turn goes on),
\* then the turn starts.
Dispatch(m) ==
  /\ intake[m] \in {"received", "queued"}
  /\ intake' = [intake EXCEPT ![m] = "dispatched"]
  /\ \/ /\ Put(m, NewRow("running", reply[m], {}, NoParent))
        /\ noFault
     \/ /\ Lapse(m, "unlogged")
        /\ UNCHANGED rows
  /\ Launches(m, "turn")
  /\ UNCHANGED <<ledger, reply, phase, pass, told, quiet>>

\* _drain_next and _wake_global_held find no raw message for a late steer: they
\* drop it and return.
DropLate(m) ==
  /\ intake[m] = "late"
  /\ intake' = [intake EXCEPT ![m] = "dropped"]
  /\ UNCHANGED <<rows, ledger, reply, drive, phase, pass, told, quiet, lapse,
                 faults>>

\* The drain raises once it has taken the message off the queue: its ledger
\* row is left for the next boot.
DrainFails(m) ==
  /\ intake[m] = "queued"
  /\ intake' = [intake EXCEPT ![m] = "gone"]
  /\ Fault
  /\ UNCHANGED <<rows, ledger, reply, drive, phase, pass, told, quiet>>

(***************************************************************************)
(* A drive.                                                                *)
(***************************************************************************)
driveFrame == UNCHANGED <<reply, intake, phase, pass>>

Moves(m, k, d) == drive' = [drive EXCEPT ![m][k] = d]

\* Where a drive goes on once its delivery is over: all that is left to know
\* is whether it raised or had nothing to say.  The done-callback of a turn
\* does nothing to a ledger row that is already closed.
Afterwards(m, k, o) ==
  LET rest == IF o \in {"error", "blank"} THEN o ELSE "answer"
  IN  CASE k = "turn" /\ ledger[m] = "pending" -> At("net", rest)
        [] k = "resume"                        -> At("final", rest)
        [] OTHER                               -> NoDrive

\* persist_turn flips the row named by the drive's own trace id; a resume and
\* a retry run under a trace id of their own.
KeyedByMessage(k) == k \in {"turn", "redrive"}

\* run_delivery_gate, whose last call is persist_turn: the ledger is flipped
\* before anything is delivered.
Persist(m, k, o) ==
  /\ drive[m][k].pc = "run" /\ k # "loop"
  /\ Moves(m, k, At("gated", o))
  /\ IF KeyedByMessage(k) /\ ledger[m] = "pending"
     THEN \/ /\ ledger' = [ledger EXCEPT ![m] = Flip(@, "closed")]
             /\ noFault
          \/ /\ Fault
             /\ UNCHANGED ledger
     ELSE UNCHANGED <<ledger, faults, lapse>>
  /\ driveFrame /\ UNCHANGED <<rows, told, quiet>>

\* The checkpoint callback of a durable drive: update_status(running).
Checkpoint(m) ==
  /\ drive[m]["resume"].pc = "run"
  /\ Put(m, [rows[m] EXCEPT !.status = "running", !.age = 0])
  /\ rows' # rows
  /\ driveFrame
  /\ UNCHANGED <<drive, ledger, told, quiet, lapse, faults>>

\* The pipeline raises.  A redrive leaves its ledger row for the next boot.
Raises(m, k) ==
  /\ drive[m][k].pc = "run" /\ k # "loop"
  /\ Fault
  /\ Moves(m, k, Afterwards(m, k, "error"))
  /\ driveFrame /\ UNCHANGED <<rows, ledger, told, quiet>>

\* The live stream of the turn reaches its user; every other drive is pushed
\* to the message's address, if it has one.
Reaches(m, k) == k = "turn" \/ reply[m] = "addressed"

\* deliver.run, an answer: it reaches the user, or the push finds no address.
Send(m, k) ==
  LET d == drive[m][k]
  IN  /\ d.pc = "gated" /\ d.outcome \in {"answer", "unachieved"}
      /\ \/ /\ Reaches(m, k)
            /\ told' = told \cup {m}
            /\ Moves(m, k, At("sent", d.outcome))
         \/ /\ ~Reaches(m, k)
            /\ Moves(m, k, Afterwards(m, k, d.outcome))
            /\ UNCHANGED told
      /\ driveFrame /\ UNCHANGED <<rows, ledger, quiet, lapse, faults>>

\* The push fails: no proof is written, and the row stays as it is.
SendFails(m, k) ==
  LET d == drive[m][k]
  IN  /\ \/ d.pc = "gated" /\ d.outcome \in {"answer", "unachieved"}
         \/ d.pc = "say"
      /\ Fault
      /\ Moves(m, k, Afterwards(m, k, d.outcome))
      /\ driveFrame /\ UNCHANGED <<rows, ledger, told, quiet>>

\* Nothing to deliver: complete_turn_task leaves the row open.
Silent(m, k) ==
  /\ drive[m][k].pc = "gated" /\ drive[m][k].outcome = "blank"
  /\ Moves(m, k, Afterwards(m, k, "blank"))
  /\ driveFrame /\ UNCHANGED <<rows, ledger, told, quiet, lapse, faults>>

\* complete_turn_task of a floored turn before anything is sent, and of an
\* unachieved one after it: fail_and_requeue reads the row.
ReadAttempts(m, k) ==
  LET d == drive[m][k]
  IN  /\ \/ d.pc = "gated" /\ d.outcome = "floor"
         \/ d.pc = "sent" /\ d.outcome = "unachieved"
      /\ Moves(m, k, Failing("fail", d.outcome, rows[m], "small"))
      /\ driveFrame /\ UNCHANGED <<rows, ledger, told, quiet, lapse, faults>>

\* _suppress_floor_while_the_loop_retries: the floor is held back only when
\* the requeue answered pending and a later answer has an address.
Holds(r, m) == r.status = "pending" /\ reply[m] = "addressed"

\* fail_and_requeue's UPDATE.  A missing row makes it raise: requeue_failed.
\* The floor of a blocked or unachieved turn is never held.
Requeue(m, k) ==
  LET d == drive[m][k]
      r == Write(rows[m], FailedAttempt(rows[m], d.seen, d.class))
  IN  /\ d.pc = "fail"
      /\ Put(m, r)
      /\ \/ /\ d.outcome = "floor" /\ Reaches(m, k)
            /\ Moves(m, k, At("say", "floor"))
         \/ /\ d.outcome = "floor" => Holds(r, m) \/ ~Reaches(m, k)
            /\ Moves(m, k, Afterwards(m, k, d.outcome))
      /\ driveFrame /\ UNCHANGED <<ledger, told, quiet, lapse, faults>>

\* It raises for another reason: the row is as it was, the floor is sent.
RequeueFails(m, k) ==
  LET d == drive[m][k]
  IN  /\ d.pc = "fail" /\ k # "loop"
      /\ Fault
      /\ Moves(m, k, IF d.outcome = "floor" /\ Reaches(m, k)
                     THEN At("say", "floor") ELSE Afterwards(m, k, d.outcome))
      /\ driveFrame /\ UNCHANGED <<rows, ledger, told, quiet>>

\* The floor reaches its user.
SaysFloor(m, k) ==
  /\ drive[m][k].pc = "say"
  /\ told' = told \cup {m}
  /\ Moves(m, k, Afterwards(m, k, "floor"))
  /\ driveFrame /\ UNCHANGED <<rows, ledger, quiet, lapse, faults>>

\* mark_delivered, or its exception ("mark_failed").
RecordDelivery(m, k) ==
  /\ drive[m][k].pc = "sent" /\ drive[m][k].outcome = "answer"
  /\ \/ /\ Put(m, Write(rows[m], Delivered(rows[m])))
        /\ noFault
     \/ /\ Fault
        /\ UNCHANGED rows
  /\ Moves(m, k, Afterwards(m, k, "answer"))
  /\ driveFrame /\ UNCHANGED <<ledger, told, quiet>>

\* _finalize_message_ledger, the done-callback of the turn's task.
SafetyNet(m) ==
  /\ drive[m]["turn"].pc = "net"
  /\ ledger' = [ledger EXCEPT ![m] = Flip(@, "closed")]
  /\ Moves(m, "turn", NoDrive)
  /\ driveFrame /\ UNCHANGED <<rows, told, quiet, lapse, faults>>

(***************************************************************************)
(* DurableTaskRunner finalizes a resumed row.                              *)
(***************************************************************************)
\* Slip: a proof is only owed once an attempt failed.
SlipOwesDelivery(r) == r.destination # "none" /\ ~r.delivered /\ r.attempts > 0

\* _owes_delivery
OwesDelivery(r) == r.destination # "none" /\ ~r.delivered

\* _finalize reads the row and goes on only over running; update_status reads
\* it again (one step with the first read: whatever is written in between, its
\* UPDATE is unguarded).  A failure goes to fail_and_requeue; a completion with
\* an answer that has not arrived is held at running; a failed read counts as
\* nothing owed.
Finalize(m) ==
  LET d == drive[m]["resume"]  r == rows[m]
      Closing(v) == Moves(m, "resume", [At("close", IF d.outcome = "blank" THEN "blank"
                                             ELSE "answer")
                                 EXCEPT !.verdict = v])
  IN  /\ d.pc = "final"
      /\ \/ /\ r.status # "running"
            /\ Moves(m, "resume", NoDrive) /\ noFault
         \/ /\ r.status = "running"
            /\ \E c \in {"transient", "permanent"} :
                 Moves(m, "resume", Failing("refail", "none", r, c))
            /\ noFault
         \/ /\ r.status = "running" /\ d.outcome # "error"
            /\ \/ Closing("parked") /\ noFault
               \/ /\ Closing(IF d.outcome # "blank" /\ OwesDelivery(r)
                             THEN "running" ELSE "completed")
                  /\ noFault
               \/ /\ d.outcome # "blank" /\ Lapse(m, "unproved")
                  /\ Closing("completed")
      /\ driveFrame /\ UNCHANGED <<rows, ledger, told, quiet>>

\* fail_and_requeue's UPDATE, reached through update_status.
RequeueResumed(m) ==
  LET d == drive[m]["resume"]
  IN  /\ d.pc = "refail"
      /\ Put(m, FailedAttempt(rows[m], d.seen, d.class))
      /\ Moves(m, "resume", NoDrive)
      /\ driveFrame /\ UNCHANGED <<ledger, told, quiet, lapse, faults>>

\* update_status's UPDATE: it is guarded by nothing but the id.
Close(m) ==
  LET d == drive[m]["resume"]
  IN  /\ d.pc = "close"
      /\ Put(m, [rows[m] EXCEPT !.status = d.verdict, !.age = 0])
      /\ quiet' = IF d.verdict = "completed" /\ d.outcome = "blank"
                  THEN quiet \cup {m} ELSE quiet
      /\ Moves(m, "resume", NoDrive)
      /\ driveFrame /\ UNCHANGED <<ledger, told, lapse, faults>>

(***************************************************************************)
(* The one loop, as far as these rows see it.                              *)
(***************************************************************************)
\* asyncio.gather: the next tick waits for the dispatch.
LoopIdle == phase # "off" /\ \A m \in Messages : drive[m]["loop"] = NoDrive

LoopClaims(m) ==
  /\ LoopIdle
  /\ m \in {n \in Messages : Claimable(rows, n)}
  /\ Put(m, Claimed(rows[m]))
  /\ Launches(m, "loop")
  /\ driveFrame /\ UNCHANGED <<ledger, told, quiet, lapse, faults>>

LoopReclaims ==
  /\ LoopIdle
  /\ \E m \in Messages : LeaseExpired(rows[m])
  /\ rows' = [m \in Messages |-> IF LeaseExpired(rows[m])
                                 THEN Timeless(Reclaimed(rows[m])) ELSE rows[m]]
  /\ driveFrame /\ UNCHANGED <<drive, ledger, told, quiet, lapse, faults>>

\* The actuator delivers by itself and the loop writes the proof; an answer
\* with no addressee completes the row without one.
LoopAnswers(m) ==
  /\ drive[m]["loop"].pc = "run"
  /\ \/ /\ reply[m] = "addressed"
        /\ told' = told \cup {m}
        /\ Moves(m, "loop", At("sent", "answer"))
        /\ UNCHANGED rows
     \/ /\ reply[m] = "bare"
        /\ Put(m, CompletedUnaddressed(rows[m]))
        /\ Moves(m, "loop", NoDrive)
        /\ UNCHANGED told
  /\ driveFrame /\ UNCHANGED <<ledger, quiet, lapse, faults>>

LoopFails(m) ==
  /\ drive[m]["loop"].pc = "run"
  /\ \E c \in {"transient", "permanent"} :
       Moves(m, "loop", Failing("fail", "none", rows[m], c))
  /\ driveFrame /\ UNCHANGED <<rows, ledger, told, quiet, lapse, faults>>

(***************************************************************************)
(* The process starts; boot recovery; the liveness sweep.                  *)
(***************************************************************************)
bootFrame == UNCHANGED <<ledger, reply, intake, told, quiet>>

\* TaskLoop.start and the receive loops, before the recovery of this boot.
StartServing ==
  /\ phase = "off" /\ phase' = "serving"
  /\ bootFrame /\ UNCHANGED <<rows, drive, pass, lapse, faults>>

\* attempts_exhausted looks at the copy of the row that the list was read with.
Listed(statuses) ==
  {m \in Messages : rows[m].status \in statuses /\ rows[m].attempts < MaxAttempts}

\* recover reads the running rows and then the recovering ones: only recovery
\* itself moves a row from one to the other, so this is one step.
ListOrphans ==
  /\ phase = "serving" /\ phase' = "claiming"
  /\ pass' = [pass EXCEPT !["boot"].todo = Listed({"running", "recovering"})]
  /\ bootFrame /\ UNCHANGED <<rows, drive, lapse, faults>>

\* Slip: only the rows that hold a lease can be stale.
SlipStale == {m \in Listed({"running"}) : rows[m].lease # NoLease}

\* _find_stale, and attempts_exhausted of each row.
Stale == Listed({"running"})

SweepLists ==
  /\ phase = "up"
  /\ pass["sweep"] = NoPass
  /\ Stale # {}
  /\ pass' = [pass EXCEPT !["sweep"].todo = Stale]
  /\ bootFrame /\ UNCHANGED <<rows, drive, phase, lapse, faults>>

\* reclaim_one, up to the claim: a compare-and-set on the status alone.
Reclaim(a, m) ==
  /\ pass[a].cur = 0 /\ m \in pass[a].todo
  /\ \/ /\ rows[m].status \in {"running", "recovering"}
        /\ Put(m, ClaimedForRecovery(rows[m], a = "sweep"))
        /\ pass' = [pass EXCEPT ![a] = [todo |-> @.todo \ {m}, cur |-> m]]
     \/ /\ rows[m].status \notin {"running", "recovering"}
        /\ pass' = [pass EXCEPT ![a].todo = @ \ {m}]
        /\ UNCHANGED rows
  /\ bootFrame /\ UNCHANGED <<drive, phase, lapse, faults>>

\* The state is rebuilt, the row is running again, its drive is launched.
Rebuilt(a) ==
  LET m == pass[a].cur
  IN  /\ m # 0
      /\ Put(m, ReturnedToRunning(rows[m]))
      /\ Launches(m, "resume")
      /\ pass' = [pass EXCEPT ![a].cur = 0]
      /\ bootFrame /\ UNCHANGED <<phase, lapse, faults>>

\* reclaim_one swallows the exception; the row is left as the claim wrote it.
RebuildFails(a) ==
  /\ pass[a].cur # 0
  /\ Lapse(pass[a].cur, "unbuilt")
  /\ pass' = [pass EXCEPT ![a].cur = 0]
  /\ bootFrame /\ UNCHANGED <<rows, drive, phase>>

\* get_pending
Pending == {m \in Messages : ledger[m] = "pending"}

\* recover_durable_tasks is over.  recover_pending_messages launches every
\* redrive at once; then the scheduler (and with it the sweep) starts.
RedriveMessages ==
  /\ phase = "claiming" /\ pass["boot"] = NoPass
  /\ phase' = "up"
  /\ Cardinality(Pending) + Cardinality({x \in Messages \X Kinds :
                                drive[x[1]][x[2]].pc # "idle"}) <= MaxDrives
  /\ drive' = [m \in Messages |->
                 IF m \in Pending THEN [drive[m] EXCEPT !["redrive"] = At("run", "none")]
                                  ELSE drive[m]]
  /\ bootFrame /\ UNCHANGED <<rows, pass, lapse, faults>>

\* The process dies: drives, passes and queues are memory.
Crash ==
  /\ phase # "off"
  /\ faults < MaxFaults /\ faults' = faults + 1
  /\ phase' = "off"
  /\ drive' = [m \in Messages |-> [k \in Kinds |-> NoDrive]]
  /\ pass' = [a \in Rescuers |-> NoPass]
  /\ intake' = [m \in Messages |-> IF intake[m] \in {"received", "queued", "late"}
                                   THEN "gone" ELSE intake[m]]
  /\ UNCHANGED <<rows, ledger, reply, told, quiet, lapse>>

(***************************************************************************)
(* The specification.                                                      *)
(***************************************************************************)
ResumeEnds(m) == Finalize(m) \/ RequeueResumed(m) \/ Close(m)

DriveEnds(m, k) ==
  \/ \E o \in Outcomes : Persist(m, k, o)
  \/ Send(m, k) \/ Silent(m, k) \/ ReadAttempts(m, k) \/ Requeue(m, k)
  \/ SaysFloor(m, k) \/ RecordDelivery(m, k)
  \/ k = "turn" /\ SafetyNet(m)
  \/ k = "resume" /\ ResumeEnds(m)
  \/ k = "loop" /\ (LoopAnswers(m) \/ LoopFails(m))

DriveStep(m, k) ==
  \/ DriveEnds(m, k)
  \/ k = "resume" /\ Checkpoint(m)
  \/ Raises(m, k) \/ SendFails(m, k) \/ RequeueFails(m, k)

PassStep(a) ==
  \/ \E m \in pass[a].todo : Reclaim(a, m)
  \/ Rebuilt(a)

BootStep == StartServing \/ ListOrphans \/ RedriveMessages

IngressStep(m) ==
  \/ AnswersClarify(m) \/ TakeIn(m) \/ Dispatch(m)
  \/ DropLate(m) \/ DrainFails(m)

\* A drain that dropped a steer takes nothing more off the queues: what waits
\* there is only reached when another turn ends.
Stalled == \E m \in Messages : intake[m] = "dropped"

LoopStep == LoopReclaims \/ \E m \in Messages : LoopClaims(m)

Next ==
  \/ \E m \in Messages : Receive(m) \/ IngressStep(m)
  \/ \E m \in Messages, k \in Kinds : DriveStep(m, k)
  \/ \E a \in Rescuers : PassStep(a) \/ RebuildFails(a)
  \/ BootStep \/ SweepLists \/ LoopStep \/ Crash

Spec == Init /\ [][Next]_vars

\* Every coroutine that can go on does; the supervisor restarts the process;
\* the sweep's job and the loop's tick come round; the queues drain as long as
\* no drain has dropped a steer.
Fairness ==
  /\ \A m \in Messages, k \in Kinds : WF_vars(DriveEnds(m, k))
  /\ \A a \in Rescuers : WF_vars(PassStep(a))
  /\ \A m \in Messages : WF_vars(~Stalled /\ Dispatch(m))
  /\ WF_vars(BootStep) /\ WF_vars(SweepLists) /\ WF_vars(LoopStep)

FairSpec == Spec /\ Fairness

(***************************************************************************)
(* Properties.                                                             *)
(***************************************************************************)
\* A message with an address that somebody is owed an answer to: it waits in
\* the intake queue, was dropped from it, has been dispatched, or was logged
\* when the process died.
Owed(m) ==
  /\ reply[m] = "addressed"
  /\ intake[m] \in {"queued", "late", "dispatched", "dropped", "gone"}
  /\ ledger[m] # "none"

\* update_status's delivery rule ("a task is complete when its outcome reached
\* its DESTINATION"), with several drives, the loop and recovery writing the
\* same row: a completed row was answered and has the proof, or its answer had
\* no addressee, or a drive of it had nothing to say, or whether a proof was
\* owed could not be read.
CompletedHasProof ==
  \A m \in Messages :
    rows[m].status = "completed"
      => \/ rows[m].delivered /\ m \in told
         \/ rows[m].acknowledged
         \/ m \in quiet
         \/ "unproved" \in lapse[m]

\* Once this boot's recovery is over, a recovering row is in the hands of a
\* pass: nobody else selects that status, so any other one would wait for the
\* next restart (only a reconstruction that raised leaves one).
RecoveringIsOwned ==
  \A m \in Messages :
    phase = "up" /\ rows[m].status = "recovering" /\ "unbuilt" \notin lapse[m]
      => \E a \in Rescuers : pass[a].cur = m

\* The liveness sweep does its work: a running row that nobody drives and that
\* has attempts left does not stay so.
OrphanRescued ==
  \A m \in Messages :
    (phase = "up" /\ rows[m].status = "running" /\ Live(m) = {}
       /\ rows[m].attempts < MaxAttempts)
      ~> (rows[m].status # "running" \/ Live(m) # {}
            \/ rows[m].attempts >= MaxAttempts)

\* The sender of a dispatched message, or of one queued with its raw message,
\* eventually hears something, or the row ends where the operator sees it (dead
\* letter, parked), at its ceiling, or quietly.  A crash or an exception may
\* lose the queue, a queued message may turn out to answer a question, and a
\* drain that dropped a steer need not come back for it.  Nothing of the kind
\* is true of the dropped steer itself: see NothingForgotten.
SenderHears ==
  \A m \in Messages :
    (Owed(m) /\ intake[m] \in {"queued", "dispatched"})
      ~> \/ m \in told \cup quiet
         \/ lapse[m] # {}
         \/ rows[m].status \in {"dead_letter", "parked"}
         \/ rows[m].attempts >= MaxAttempts
         \/ intake[m] \in {"gone", "consumed"}
         \/ intake[m] = "queued" /\ Stalled

\* mark_completed's "a reply was delivered": an owed message whose sender has
\* heard nothing is still pending in the ledger, open in the tasks table,
\* waiting in the queue or being driven, unless a drive finished it with
\* nothing to say or one of its own steps raised.
NothingForgotten ==
  \A m \in Messages :
    Owed(m) /\ m \notin told \cup quiet /\ lapse[m] = {}
      => \/ ledger[m] = "pending"
         \/ rows[m].status \in {"running", "recovering", "pending", "parked",
                                "dead_letter"}
         \/ intake[m] \in {"queued", "late"}
         \/ Live(m) # {}
=============================================================================
