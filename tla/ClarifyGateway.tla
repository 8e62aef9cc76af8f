---------------------------- MODULE ClarifyGateway ----------------------------
(***************************************************************************)
(* The questions a turn puts to the owner and the replies that answer      *)
(* them: interaction/clarify_gateway.py (ask, wait_for_answer and the      *)
(* operations on its registry _pending), the typed-reply router            *)
(* gateway/clarify_pump.py, the inline-button path, and the durable        *)
(* needs_you item each blocking question opens (journal/needs_you.py).     *)
(*                                                                         *)
(* All of it runs on one asyncio loop, so a step here is what a coroutine  *)
(* does between two awaits, and the steps of the askers, the messages and  *)
(* the sweeps interleave.  One session on one channel is modelled: every   *)
(* match in the code is by that pair.  A question stands for one call of   *)
(* ask with its freshly minted clarify_id, a message for one typed reply   *)
(* or button tap; the answer a message carries is the message itself.  A   *)
(* question ask answers by itself (a one-item menu or a safe default) is   *)
(* registered, collected and popped without an await, so nobody sees it    *)
(* and it has no action here.                                              *)
(***************************************************************************)
EXTENDS Naturals, FiniteSets

CONSTANTS Questions,   \* the calls of ask, by clarify_id
          Messages,    \* the owner's replies, typed or tapped
          None,        \* Python's None: no answer, no entry
          Janitor,     \* the sweep job and the shutdown teardown
          MaxFaults    \* bound on crashes, cancellations and failed writes

ASSUME ClarifyAssumption ==
    /\ IsFiniteSet(Questions) /\ IsFiniteSet(Messages)
    /\ None \notin Messages \cup Questions
    /\ Questions \cap Messages = {}
    /\ Janitor \notin Questions \cup Messages
    /\ MaxFaults \in Nat

VARIABLES
    up,         \* the process is running and has finished its boot expiry
    pending,    \* the keys of _pending
    earlier,    \* <<p, q>>: p was in _pending when q was inserted
    pc,         \* where the coroutine of each question stands
    blocking,   \* the entry of the question has an asyncio.Event
    event,      \* that event is set
    answer,     \* PendingClarify.answer
    cancelled,  \* PendingClarify.cancelled
    due,        \* questions older than CLARIFY_TTL_SECONDS
    dropping,   \* per actor, the entry it popped and whose settle it awaits
    left,       \* per actor, the ids its loop collected and has not reached
    item,       \* needs_you: none, open or settled
    recorded,   \* needs_you.answer, None for NULL
    outcome,    \* what wait_for_answer returned
    got,        \* the answer it returned
    msg,        \* what became of each message
    unlogged,   \* questions whose resolve() failed: the raw answer was used
    strays,     \* questions whose open item lost its settler to a fault
    faults      \* faults so far

vars == <<up, pending, earlier, pc, blocking, event, answer, cancelled, due,
          dropping, left, item, recorded, outcome, got, msg, unlogged, strays, faults>>

registry   == <<pending, earlier>>
entryVars  == <<blocking, event, answer, cancelled>>
dropVars   == <<dropping, left>>
itemVars   == <<item, recorded>>
resultVars == <<outcome, got>>
ghostVars  == <<unlogged, strays>>

Actors == Questions \cup Messages \cup {Janitor}

Places   == {"idle", "replacing", "raising", "delivering", "parked",
             "resolving", "settling", "done"}
Outcomes == {"none", "answered", "cancelled", "timed_out", "yielded", "killed"}
Fates    == {"unsent", "classifying", "cancelling", "consumed", "fresh",
             "folded", "ignored", "lost"}

\* _pending.pop(clarify_id, None).
Pop(q) ==
    /\ pending' = pending \ {q}
    /\ earlier' = {e \in earlier : e[1] # q /\ e[2] # q}

(* _pending is a dict, iterated in insertion order: next(...) is the first of a *)
(* set of registered entries.                                                   *)
First(q, S) == q \in S /\ \A p \in S : <<p, q>> \notin earlier

\* A fault happens within the bound of the instance.
Fault == faults < MaxFaults /\ faults' = faults + 1

-----------------------------------------------------------------------------
(* The needs_you row: _expire_item and the winning branch of resolve() are  *)
(* both one UPDATE ... WHERE resolved_cursor IS NULL, so a settled row never *)
(* changes again.                                                            *)

Expired(q) == IF item[q] = "open" THEN [item EXCEPT ![q] = "settled"] ELSE item

\* _resolve_entry on a blocking entry: hand over the answer and wake, no pop.
Resolve(q, m) ==
    /\ answer' = [answer EXCEPT ![q] = m]
    /\ event' = [event EXCEPT ![q] = TRUE]

(* _abandon_waiter wakes a waiter whose event is still unset; an event that  *)
(* is set keeps the answer it has.                                           *)
SlipWake(q) == event' = [event EXCEPT ![q] = event[q] /\ answer[q] # None]

Wake(q) == event' = [event EXCEPT ![q] = blocking[q]]

(* The loops of ask (cap one), clear_session, clear_all, sweep_expired and   *)
(* cancel_pending: the ids are collected, then each entry still registered   *)
(* is popped, woken and its item settled in a transaction of its own.        *)
Drop(a, S) ==
    \E q \in S :
        /\ First(q, S)
        /\ Pop(q)
        /\ Wake(q)
        /\ dropping' = [dropping EXCEPT ![a] = q]
        /\ left' = [left EXCEPT ![a] = S \ {q}]

\* The collected ids that are still there when the loop of a gets to them.
Remaining(a) == left[a] \cap pending

DropsDone(a) ==
    /\ Remaining(a) = {}
    /\ dropping' = [dropping EXCEPT ![a] = None]
    /\ left' = [left EXCEPT ![a] = {}]

\* The settle of the entry just dropped has returned: the next one, or the end.
ContinueDrop(a) ==
    \/ Drop(a, Remaining(a))
    \/ DropsDone(a) /\ UNCHANGED <<registry, event>>

(* settle_or_abandon never raises: a failed transaction leaves the item open *)
(* for the expiry sweep.                                                     *)
SlipSettleOrAbandon(q) ==
    UNCHANGED <<item, strays, faults>>

SettleOrAbandon(q) ==
    \/ item' = Expired(q) /\ UNCHANGED <<strays, faults>>
    \/ Fault /\ strays' = strays \cup {q} /\ UNCHANGED item

-----------------------------------------------------------------------------
(* ask *)

\* The entry is stored in _pending.
Register(q) ==
    /\ pending' = pending \cup {q}
    /\ earlier' = earlier \cup (pending \X {q})

(* What follows the cap-one loop: a blocking ask awaits record_clarify_raised; *)
(* ask with blocking=False, from _maybe_clarify, registers an entry without an *)
(* event, and the turn ends with the question as its streamed response.        *)
Open(q, b) ==
    \/ /\ b
       /\ pc' = [pc EXCEPT ![q] = "raising"]
       /\ UNCHANGED <<registry, outcome>>
    \/ /\ ~b
       /\ Register(q)
       /\ pc' = [pc EXCEPT ![q] = "done"]
       /\ outcome' = [outcome EXCEPT ![q] = "yielded"]

(* ask: cap one per session.  The prior entries are dropped first; with none  *)
(* to drop a blocking ask goes straight to record_clarify_raised.             *)
Ask(q, b) ==
    /\ up /\ pc[q] = "idle"
    /\ blocking' = [blocking EXCEPT ![q] = b]
    /\ \/ /\ Drop(q, pending)
          /\ pc' = [pc EXCEPT ![q] = "replacing"]
          /\ UNCHANGED outcome
       \/ /\ pending = {}
          /\ Open(q, b)
          /\ UNCHANGED <<dropVars, event>>
    /\ UNCHANGED <<up, answer, cancelled, due, itemVars, got, msg, ghostVars,
                   faults>>

\* The cap-one loop of ask, one settle at a time.
Replace(q) ==
    /\ up /\ pc[q] = "replacing"
    /\ SettleOrAbandon(dropping[q])
    /\ \/ Drop(q, Remaining(q)) /\ UNCHANGED <<pc, outcome>>
       \/ DropsDone(q) /\ Open(q, blocking[q]) /\ UNCHANGED event
    /\ UNCHANGED <<up, blocking, answer, cancelled, due, recorded, got, msg,
                   unlogged>>

(* record_clarify_raised opens the item and binds the waiter in one           *)
(* transaction, or fails and leaves the question without one; only then is    *)
(* the entry registered and delivery awaited.                                 *)
Raise(q) ==
    /\ up /\ pc[q] = "raising"
    /\ \/ item' = [item EXCEPT ![q] = "open"] /\ UNCHANGED faults
       \/ Fault /\ UNCHANGED item
    /\ Register(q)
    /\ pc' = [pc EXCEPT ![q] = "delivering"]
    /\ UNCHANGED <<up, entryVars, due, dropVars, recorded, resultVars, msg, ghostVars>>

-----------------------------------------------------------------------------
(* wait_for_answer *)

(* The waiter pops its entry and reads the answer from the reference it holds. *)
(* With an answer and an item it goes through needs_you.resolve; with an       *)
(* answer and no item it returns the answer; otherwise it settles the item.    *)
Collect(q) ==
    /\ Pop(q)
    /\ IF answer[q] # None
       THEN IF item[q] = "none"
            THEN /\ pc' = [pc EXCEPT ![q] = "done"]
                 /\ outcome' = [outcome EXCEPT ![q] = "answered"]
                 /\ got' = [got EXCEPT ![q] = answer[q]]
            ELSE pc' = [pc EXCEPT ![q] = "resolving"] /\ UNCHANGED resultVars
       ELSE /\ pc' = [pc EXCEPT ![q] = "settling"]
            /\ outcome' = [outcome EXCEPT ![q] =
                   IF cancelled[q] THEN "cancelled" ELSE "timed_out"]
            /\ UNCHANGED got

(* send_clarify returns or fails, ask returns and the caller enters           *)
(* wait_for_answer with no await between: an entry already gone ends the wait *)
(* at once, an event already set is collected, anything else parks.           *)
Deliver(q) ==
    /\ up /\ pc[q] = "delivering"
    /\ CASE ~q \in pending ->
              /\ pc' = [pc EXCEPT ![q] = "done"]
              /\ outcome' = [outcome EXCEPT ![q] = "timed_out"]
              /\ UNCHANGED <<registry, got>>
         [] q \in pending /\ event[q] -> Collect(q)
         [] OTHER ->
              /\ pc' = [pc EXCEPT ![q] = "parked"]
              /\ UNCHANGED <<registry, resultVars>>
    /\ UNCHANGED <<up, entryVars, due, dropVars, itemVars, msg, ghostVars, faults>>

\* The event was set: the parked waiter runs.
Woken(q) ==
    /\ up /\ pc[q] = "parked" /\ event[q]
    /\ Collect(q)
    /\ UNCHANGED <<up, entryVars, due, dropVars, itemVars, msg, ghostVars, faults>>

(* wait_for's timeout.  The except branch pops and settles without looking at  *)
(* entry.answer, and the timeout can fire after the event was set and before   *)
(* the waiter ran.                                                             *)
SlipTimeout(q) ==
    /\ up /\ pc[q] = "parked" /\ q \in pending
    /\ Pop(q)
    /\ UNCHANGED <<up, pc, entryVars, due, dropVars, itemVars, resultVars, msg,
                   ghostVars, faults>>

Timeout(q) ==
    /\ up /\ pc[q] = "parked"
    /\ Pop(q)
    /\ pc' = [pc EXCEPT ![q] = "settling"]
    /\ outcome' = [outcome EXCEPT ![q] = "timed_out"]
    /\ UNCHANGED <<up, entryVars, due, dropVars, itemVars, got, msg, ghostVars, faults>>

\* _settle_needs_you_item, then return (or re-raise) with the outcome fixed.
Settle(q) ==
    /\ up /\ pc[q] = "settling"
    /\ SettleOrAbandon(q)
    /\ pc' = [pc EXCEPT ![q] = "done"]
    /\ UNCHANGED <<up, registry, entryVars, due, dropVars, recorded, resultVars, msg,
                   unlogged>>

(* needs_you.resolve: a settled row returns its own answer, a row past its     *)
(* expires_at expires, an open row takes this answer.                          *)
Claims(q) == item[q] = "open" /\ q \notin due

(* Whatever the row says is what the turn acts on, except that a failed        *)
(* transaction returns the raw local answer.                                   *)
SlipFinish(q) ==
    /\ up /\ pc[q] = "resolving"
    /\ pc' = [pc EXCEPT ![q] = "done"]
    /\ outcome' = [outcome EXCEPT ![q] = "answered"]
    /\ got' = [got EXCEPT ![q] = answer[q]]
    /\ item' = [item EXCEPT ![q] = "settled"]
    /\ recorded' = [recorded EXCEPT ![q] =
           IF Claims(q) THEN answer[q] ELSE recorded[q]]
    /\ UNCHANGED <<up, registry, entryVars, due, dropVars, msg, unlogged, strays, faults>>

SlipClaim(q) ==
    /\ up /\ pc[q] = "resolving"
    /\ pc' = [pc EXCEPT ![q] = "done"]
    /\ outcome' = [outcome EXCEPT ![q] = "answered"]
    /\ recorded' = [recorded EXCEPT ![q] = answer[q]]
    /\ got' = [got EXCEPT ![q] = answer[q]]
    /\ UNCHANGED <<up, registry, entryVars, due, dropVars, item, msg, ghostVars, faults>>

Finish(q) ==
    /\ up /\ pc[q] = "resolving"
    /\ pc' = [pc EXCEPT ![q] = "done"]
    /\ outcome' = [outcome EXCEPT ![q] = "answered"]
    /\ \/ /\ recorded' = [recorded EXCEPT ![q] =
                 IF Claims(q) THEN answer[q] ELSE recorded[q]]
          /\ item' = [item EXCEPT ![q] = "settled"]
          /\ got' = [got EXCEPT ![q] = recorded'[q]]
          /\ UNCHANGED <<unlogged, strays, faults>>
       \/ /\ Fault
          /\ got' = [got EXCEPT ![q] = answer[q]]
          /\ unlogged' = unlogged \cup {q}
          /\ strays' = strays \cup {q}
          /\ UNCHANGED itemVars
    /\ UNCHANGED <<up, registry, entryVars, due, dropVars, msg>>

(* The turn's task is cancelled at one of its awaits.  Parked: the entry is    *)
(* popped and its item settled before the re-raise.  While a transaction is    *)
(* awaited its write may or may not have happened.  While delivery is awaited  *)
(* ask handles only Exception: the entry stays registered.                     *)
Cancel(q) ==
    /\ up /\ Fault
    /\ pc[q] \in Places \ {"idle", "done"}
    /\ pc' = [pc EXCEPT ![q] = IF pc[q] = "parked" THEN "settling" ELSE "done"]
    /\ outcome' = [outcome EXCEPT ![q] = "killed"]
    /\ IF pc[q] = "parked" THEN Pop(q) ELSE UNCHANGED registry
    /\ dropping' = [dropping EXCEPT ![q] = None]
    /\ left' = [left EXCEPT ![q] = {}]
    /\ strays' = CASE pc[q] = "replacing" -> strays \cup {dropping[q]}
                   [] pc[q] \in {"raising", "resolving", "settling"} -> strays \cup {q}
                   [] OTHER -> strays
    /\ \/ UNCHANGED itemVars
       \/ /\ pc[q] = "raising"
          /\ item' = [item EXCEPT ![q] = "open"] /\ UNCHANGED recorded
       \/ /\ pc[q] = "settling"
          /\ item' = Expired(q) /\ UNCHANGED recorded
       \/ /\ pc[q] = "replacing"
          /\ item' = Expired(dropping[q]) /\ UNCHANGED recorded
       \/ /\ pc[q] = "resolving" /\ Claims(q)
          /\ item' = Expired(q)
          /\ recorded' = [recorded EXCEPT ![q] = answer[q]]
    /\ UNCHANGED <<up, entryVars, due, got, msg, unlogged>>

-----------------------------------------------------------------------------
(* The replies *)

(* resolve_or_rewrite: nothing pending makes the message a fresh turn; with a  *)
(* question pending the classifier is awaited.                                 *)
Typed(m) ==
    /\ up /\ msg[m] = "unsent"
    /\ msg' = [msg EXCEPT ![m] = IF pending = {} THEN "fresh" ELSE "classifying"]
    /\ UNCHANGED <<up, registry, pc, entryVars, due, dropVars, itemVars, resultVars,
                   ghostVars, faults>>

(* Classified as an answer: try_resolve takes the first entry of the session   *)
(* as it stands now, not the one that was classified.  A blocking entry        *)
(* consumes the message; a turn-yield entry is popped and folded into a fresh  *)
(* turn; nothing left makes it an ordinary message.                            *)
SlipFateOf(q) == IF blocking[q] /\ pc[q] = "parked" THEN "consumed" ELSE "fresh"

FateOf(q) == IF blocking[q] THEN "consumed" ELSE "folded"

Answers(m) ==
    /\ up /\ msg[m] = "classifying"
    /\ \/ /\ pending = {}
          /\ msg' = [msg EXCEPT ![m] = "fresh"]
          /\ UNCHANGED <<registry, event, answer>>
       \/ \E q \in pending :
             /\ First(q, pending)
             /\ msg' = [msg EXCEPT ![m] = FateOf(q)]
             /\ \/ blocking[q] /\ Resolve(q, m) /\ UNCHANGED registry
                \/ ~blocking[q] /\ Pop(q) /\ UNCHANGED <<event, answer>>
    /\ UNCHANGED <<up, pc, blocking, cancelled, due, dropVars, itemVars,
                   resultVars, ghostVars, faults>>

(* Classified as a new request: cancel_pending marks the first entry cancelled, *)
(* pops and wakes it, and settles its item.                                     *)
Pivots(m) ==
    /\ up /\ msg[m] = "classifying"
    /\ \/ /\ pending = {}
          /\ msg' = [msg EXCEPT ![m] = "fresh"]
          /\ UNCHANGED <<registry, event, cancelled, dropVars>>
       \/ \E q \in pending :
             /\ First(q, pending)
             /\ msg' = [msg EXCEPT ![m] = "cancelling"]
             /\ cancelled' = [cancelled EXCEPT ![q] = TRUE]
             /\ Drop(m, {q})
    /\ UNCHANGED <<up, pc, blocking, answer, due, itemVars, resultVars,
                   ghostVars, faults>>

\* The /reset command: clear_session, then the command runs as usual.
Reset(m) ==
    /\ up /\ msg[m] = "unsent" /\ pending # {}
    /\ msg' = [msg EXCEPT ![m] = "cancelling"]
    /\ Drop(m, pending)
    /\ UNCHANGED <<up, pc, blocking, answer, cancelled, due, itemVars, resultVars,
                   ghostVars, faults>>

\* A settle of cancel_pending or clear_session returns; the last one ends it.
Dropped(m) ==
    /\ up /\ msg[m] = "cancelling"
    /\ SettleOrAbandon(dropping[m])
    /\ ContinueDrop(m)
    /\ msg' = [msg EXCEPT ![m] = IF Remaining(m) = {} THEN "fresh" ELSE "cancelling"]
    /\ UNCHANGED <<up, pc, blocking, answer, cancelled, due, recorded, resultVars,
                   unlogged>>

(* A button tap: peek and try_resolve_by_id run in one step.  A tap on an entry *)
(* that is gone is told so and ignored; only a blocking question has buttons.   *)
Tap(m, q) ==
    /\ up /\ msg[m] = "unsent" /\ blocking[q]
    /\ pc[q] \notin {"idle", "replacing", "raising"}
    /\ IF q \in pending
       THEN Resolve(q, m) /\ msg' = [msg EXCEPT ![m] = "consumed"]
       ELSE msg' = [msg EXCEPT ![m] = "ignored"] /\ UNCHANGED <<event, answer>>
    /\ UNCHANGED <<up, registry, pc, blocking, cancelled, due, dropVars, itemVars,
                   resultVars, ghostVars, faults>>

-----------------------------------------------------------------------------
(* Sweeps, teardown, crash and boot *)

\* A question outlives CLARIFY_TTL_SECONDS, the item's expires_at with it.
Age(q) ==
    /\ up /\ pc[q] # "idle" /\ q \notin due
    /\ due' = due \cup {q}
    /\ UNCHANGED <<up, registry, pc, entryVars, dropVars, itemVars, resultVars, msg,
                   ghostVars, faults>>

\* clarify_sweep -> sweep_expired dropVars the entries past the TTL.
SweepEntries ==
    /\ up /\ dropping[Janitor] = None
    /\ Drop(Janitor, pending \cap due)
    /\ UNCHANGED <<up, pc, blocking, answer, cancelled, due, itemVars, resultVars,
                   msg, ghostVars, faults>>

\* clear_all, the shutdown teardown, dropVars every entry.
ClearAll ==
    /\ up /\ dropping[Janitor] = None
    /\ Drop(Janitor, pending)
    /\ UNCHANGED <<up, pc, blocking, answer, cancelled, due, itemVars, resultVars,
                   msg, ghostVars, faults>>

JanitorStep ==
    /\ up /\ dropping[Janitor] # None
    /\ SettleOrAbandon(dropping[Janitor])
    /\ ContinueDrop(Janitor)
    /\ UNCHANGED <<up, pc, blocking, answer, cancelled, due, recorded, resultVars,
                   msg, unlogged>>

\* sweep_expired_items expires one open item past its expires_at.
SlipExpireItem(q) ==
    /\ up /\ item[q] = "open" /\ q \in due /\ q \in pending
    /\ item' = Expired(q)
    /\ UNCHANGED <<up, registry, pc, entryVars, due, dropVars, recorded, resultVars, msg,
                   ghostVars, faults>>

ExpireItem(q) ==
    /\ up /\ item[q] = "open" /\ q \in due
    /\ item' = Expired(q)
    /\ UNCHANGED <<up, registry, pc, entryVars, due, dropVars, recorded, resultVars, msg,
                   ghostVars, faults>>

\* The process dies: the registry, the coroutines and the loops are gone.
Crash ==
    /\ up /\ Fault
    /\ up' = FALSE
    /\ pending' = {} /\ earlier' = {}
    /\ outcome' = [q \in Questions |->
           IF pc[q] \in {"idle", "done"} THEN outcome[q] ELSE "killed"]
    /\ pc' = [q \in Questions |-> IF pc[q] = "idle" THEN "idle" ELSE "done"]
    /\ dropping' = [a \in Actors |-> None]
    /\ left' = [a \in Actors |-> {}]
    /\ msg' = [m \in Messages |->
           IF msg[m] \in {"classifying", "cancelling"} THEN "lost" ELSE msg[m]]
    /\ UNCHANGED <<entryVars, due, itemVars, got, ghostVars>>

(* Boot: expire_stranded_turn_waiters expires every open item of a turn         *)
(* whatever its expires_at, before the gateway accepts a turn; a row whose      *)
(* transaction fails is skipped.                                                *)
Boot ==
    /\ ~up /\ up' = TRUE
    /\ \E skipped \in SUBSET {q \in Questions : item[q] = "open"} :
          /\ item' = [q \in Questions |->
                 IF item[q] = "open" /\ q \notin skipped THEN "settled" ELSE item[q]]
          /\ strays' = strays \cup skipped
    /\ UNCHANGED <<registry, pc, entryVars, due, dropVars, recorded, resultVars, msg,
                   unlogged, faults>>

-----------------------------------------------------------------------------

Init ==
    /\ up = TRUE
    /\ pending = {}
    /\ earlier = {}
    /\ pc = [q \in Questions |-> "idle"]
    /\ blocking = [q \in Questions |-> FALSE]
    /\ event = [q \in Questions |-> FALSE]
    /\ answer = [q \in Questions |-> None]
    /\ cancelled = [q \in Questions |-> FALSE]
    /\ due = {}
    /\ dropping = [a \in Actors |-> None]
    /\ left = [a \in Actors |-> {}]
    /\ item = [q \in Questions |-> "none"]
    /\ recorded = [q \in Questions |-> None]
    /\ outcome = [q \in Questions |-> "none"]
    /\ got = [q \in Questions |-> None]
    /\ msg = [m \in Messages |-> "unsent"]
    /\ unlogged = {}
    /\ strays = {}
    /\ faults = 0

\* What the coroutine of a question does by itself, awaits returning.
AskerStep(q) ==
    \/ Replace(q)
    \/ Raise(q)
    \/ Deliver(q)
    \/ Woken(q)
    \/ Timeout(q)
    \/ Settle(q)
    \/ Finish(q)

\* What the handling of a message does by itself.
MessageStep(m) == Answers(m) \/ Pivots(m) \/ Dropped(m)

Next ==
    \/ \E q \in Questions :
          \/ \E b \in BOOLEAN : Ask(q, b)
          \/ AskerStep(q)
          \/ Cancel(q)
          \/ Age(q)
          \/ ExpireItem(q)
    \/ \E m \in Messages :
          \/ Typed(m)
          \/ Reset(m)
          \/ MessageStep(m)
          \/ \E q \in Questions : Tap(m, q)
    \/ SweepEntries
    \/ ClearAll
    \/ JanitorStep
    \/ Crash
    \/ Boot

Spec == Init /\ [][Next]_vars

(* The awaits of a coroutine return (delivery, transactions, the wait's own     *)
(* timeout), time passes, the needs_you expiry sweep keeps running as a         *)
(* scheduled job, and a dead process is restarted by its supervisor.            *)
Fairness ==
    /\ \A q \in Questions : WF_vars(AskerStep(q))
    /\ \A q \in Questions : WF_vars(Age(q)) /\ WF_vars(ExpireItem(q))
    /\ \A m \in Messages : WF_vars(MessageStep(m))
    /\ WF_vars(JanitorStep)
    /\ WF_vars(Boot)

FairSpec == Spec /\ Fairness

-----------------------------------------------------------------------------
(* Properties *)

(* The state has its type; the coroutine that drops entries is the one awaiting *)
(* a settle; and an answer is recorded only on a row that is settled.           *)
ClarifyTypeOK ==
    /\ up \in BOOLEAN
    /\ pending \subseteq Questions
    /\ earlier \subseteq Questions \X Questions
    /\ pc \in [Questions -> Places]
    /\ blocking \in [Questions -> BOOLEAN]
    /\ event \in [Questions -> BOOLEAN]
    /\ answer \in [Questions -> Messages \cup {None}]
    /\ cancelled \in [Questions -> BOOLEAN]
    /\ due \subseteq Questions
    /\ dropping \in [Actors -> Questions \cup {None}]
    /\ left \in [Actors -> SUBSET Questions]
    /\ item \in [Questions -> {"none", "open", "settled"}]
    /\ recorded \in [Questions -> Messages \cup {None}]
    /\ outcome \in [Questions -> Outcomes]
    /\ got \in [Questions -> Messages \cup {None}]
    /\ msg \in [Messages -> Fates]
    /\ unlogged \subseteq Questions
    /\ strays \subseteq Questions
    /\ faults \in 0..MaxFaults
    /\ \A q \in Questions : pc[q] = "replacing" <=> dropping[q] # None
    /\ \A m \in Messages : msg[m] = "cancelling" <=> dropping[m] # None
    /\ \A q \in Questions : recorded[q] # None => item[q] = "settled"

(* A turn parked on an unset event is still in the registry, where a reply, a   *)
(* sweep or a newer question can find it: whoever pops an entry wakes its       *)
(* waiter (_abandon_waiter, "cannot leak forever").                             *)
NoOrphanWaiter ==
    \A q \in Questions : pc[q] = "parked" /\ ~event[q] => q \in pending

(* The first answer wins: what the turn acted on is what the needs_you row      *)
(* records, also when a sweep, a newer question or a pivot settled the row      *)
(* between the wake and needs_you.resolve.  Only a failed transaction, which    *)
(* the code logs, lets the two differ.                                          *)
RecordMatchesTurn ==
    \A q \in Questions :
        outcome[q] = "answered" /\ item[q] # "none" /\ q \notin unlogged =>
            item[q] = "settled" /\ got[q] = recorded[q]

(* An open item always has somebody who will settle it at once: its entry is    *)
(* registered, its turn is on the way to it, or the loop that popped it is      *)
(* awaiting the settle.  Only a fault leaves it to the expiry sweep.            *)
NoStrandedItem ==
    \A q \in Questions :
        up /\ item[q] = "open" /\ q \notin strays =>
            \/ q \in pending
            \/ pc[q] \in {"resolving", "settling"}
            \/ pc[q] = "parked" /\ event[q]
            \/ \E a \in Actors : dropping[a] = q

(* A reply is used once: it answers at most one question, and a message that    *)
(* ran as a turn of its own was nobody's answer.                                *)
ReplyUsedOnce ==
    \A m \in Messages :
        LET users == {q \in Questions : answer[q] = m} IN
        /\ Cardinality(users) <= 1
        /\ users # {} => msg[m] = "consumed"

(* Every wait ends: a turn that asked is not left hanging, whatever becomes of  *)
(* the entry it waits on.                                                       *)
WaitEnds == \A q \in Questions : pc[q] = "raising" ~> pc[q] = "done"

(* Every durable question is settled in the end, also one whose turn was killed *)
(* or whose process died: the owner's list does not keep it for ever.           *)
ItemSettles == \A q \in Questions : item[q] = "open" ~> item[q] = "settled"
=============================================================================
