------------------------- MODULE TurnRecoveryProofs -------------------------
(***************************************************************************)
(* Proofs about TurnRecovery, for any number of messages, drives, faults   *)
(* and attempts.                                                           *)
(*                                                                         *)
(* IInv says of each message what its row, its drives and the two rescuers *)
(* know of one another, and of the process which rescuer may be at work.   *)
(***************************************************************************)
EXTENDS TurnRecovery, TLAPS

\* A row is born when its message is dispatched, and belongs to its address; a
\* drive or a rescuer that writes without looking finds a row.
Born(m) ==
  /\ rows[m].status # "absent" =>
       intake[m] = "dispatched" /\ rows[m].destination = reply[m]
  /\ rows[m].status = "absent" =>
       /\ drive[m]["resume"].pc = "idle" /\ drive[m]["loop"].pc = "idle"
       /\ \A a \in Rescuers : m \notin pass[a].todo /\ pass[a].cur # m

\* _finalize is about to complete the row of a drive that had something to say.
Completing(d) == d.pc = "close" /\ d.verdict = "completed" /\ d.outcome # "blank"

\* The UPDATE of update_status has a status to write.
Decided(d) == d.pc = "close" => d.verdict # "none"

\* Whoever has, or is about to write, the proof of delivery has reached the sender,
\* and a verdict of completion over an answer knows why nothing is owed.
Shown(m) ==
  /\ rows[m].delivered => m \in told
  /\ \A k \in Kinds : drive[m][k].pc = "sent" => m \in told
  /\ Completing(drive[m]["resume"]) => rows[m].delivered \/ "unproved" \in lapse[m]
  /\ Decided(drive[m]["resume"])
  /\ rows[m].status = "completed" =>
       \/ rows[m].delivered \/ rows[m].acknowledged
       \/ m \in quiet \/ "unproved" \in lapse[m]

\* What waits, or is being recovered, has attempts left; so boot recovery still
\* lists what a crash has left recovering.  Nobody resumes a row that boot recovery
\* has yet to claim, so nothing lifts it over the ceiling meanwhile.
Budget(m) ==
  /\ rows[m].status \in {"pending", "recovering"} => rows[m].attempts < MaxAttempts
  /\ m \in pass["boot"].todo =>
       /\ rows[m].status = "running" => rows[m].attempts < MaxAttempts
       /\ drive[m]["resume"].pc = "idle"
       /\ pass["boot"].cur # m

\* A recovering row is claimed, or boot recovery is still to claim it, or this
\* process is still to list it.
Owned(m) ==
  rows[m].status = "recovering" /\ "unbuilt" \notin lapse[m] =>
    \/ phase \in {"off", "serving"}
    \/ \E a \in Rescuers : pass[a].cur = m
    \/ phase = "claiming" /\ m \in pass["boot"].todo

\* Which rescuer may be at work, and when nobody can have resumed a row yet.
Phased ==
  /\ phase # "claiming" => pass["boot"] = NoPass
  /\ phase # "up" => pass["sweep"] = NoPass
  /\ phase \in {"off", "serving"} => \A m \in Messages : drive[m]["resume"].pc = "idle"

Sound(m) == Born(m) /\ Shown(m) /\ Budget(m) /\ Owned(m)

IInv == TurnTypeOK /\ Phased /\ \A m \in Messages : Sound(m)

(***************************************************************************)
(* What the writes of the store do to a row.                               *)
(***************************************************************************)
\* The columns that only the proof of delivery and the acknowledgement change.
Carried(r, new) ==
  /\ new \in Row
  /\ new.destination = r.destination
  /\ new.delivered = r.delivered
  /\ new.acknowledged = r.acknowledged

\* The constants that the writes put into a row are of the right type.
LEMMA WrittenConstants ==
  /\ 0 \in 0..OldTicks
  /\ NoLease \in NoLease..LeaseTicks /\ 0 \in NoLease..LeaseTicks
  /\ LeaseTicks \in NoLease..LeaseTicks
  /\ {"absent", "pending", "running", "recovering", "parked", "completed",
      "dead_letter"} \subseteq Statuses
  /\ {"none", "lease_expired", "reclaimed_stale"} \subseteq RowClasses
  /\ FailureClasses \subseteq RowClasses
  /\ NoParent \in NoParent..MaxTask
  BY StoreAssumption DEF NoLease, NoParent, Statuses, RowClasses

\* A row's attempts are a number.
LEMMA AttemptsNat == ASSUME NEW r \in Row PROVE r.attempts \in Nat /\ r.status \in Statuses
  BY DEF Row

\* Forgetting the clocks keeps all that the invariant reads.
LEMMA TimelessFacts ==
  ASSUME NEW r \in Row
  PROVE  /\ Carried(r, Timeless(r)) /\ Timeless(r).status = r.status
         /\ Timeless(r).attempts < MaxAttempts <=> r.attempts < MaxAttempts
  <1> DEFINE n == IF r.attempts > MaxAttempts THEN MaxAttempts ELSE r.attempts
             l == IF r.lease = NoLease THEN NoLease ELSE 0
             x == [r EXCEPT !.attempts = n, !.class = "none", !.answered = FALSE]
  <1>1. n \in Nat /\ (n < MaxAttempts <=> r.attempts < MaxAttempts)
    BY StoreAssumption DEF Row
  <1>2. l \in NoLease..LeaseTicks  BY WrittenConstants
  <1>3. Timeless(r) = [x EXCEPT !.age = 0, !.backoff = FALSE, !.lease = l]
    BY DEF Timeless
  <1> HIDE DEF n, l
  <1>4. /\ x \in Row /\ x.attempts = n /\ x.status = r.status
        /\ x.destination = r.destination /\ x.delivered = r.delivered
        /\ x.acknowledged = r.acknowledged
    BY <1>1, WrittenConstants DEF Row
  <1> HIDE DEF x
  <1>5. /\ Timeless(r) \in Row /\ Timeless(r).attempts = n /\ Timeless(r).status = x.status
        /\ Timeless(r).destination = x.destination /\ Timeless(r).delivered = x.delivered
        /\ Timeless(r).acknowledged = x.acknowledged
    BY <1>2, <1>3, <1>4, WrittenConstants DEF Row
  <1> QED  BY <1>1, <1>4, <1>5 DEF Carried

\* update_status, of a checkpoint, of _return_to_running and of _finalize.
LEMMA StatusFacts ==
  ASSUME NEW r \in Row, NEW st \in Statuses
  PROVE  LET new == [r EXCEPT !.status = st, !.age = 0] IN
         Carried(r, new) /\ new.status = st /\ new.attempts = r.attempts
  BY WrittenConstants DEF Carried, Row

\* claim
LEMMA ClaimedFacts ==
  ASSUME NEW r \in Row
  PROVE  /\ Carried(r, Claimed(r)) /\ Claimed(r).status = "running"
         /\ Claimed(r).attempts = r.attempts
  BY WrittenConstants DEF Claimed, Carried, Row

\* reclaim_expired
LEMMA ReclaimedFacts ==
  ASSUME NEW r \in Row
  PROVE  /\ Carried(r, Reclaimed(r)) /\ Reclaimed(r).status \in {"dead_letter", "pending"}
         /\ Reclaimed(r).status = "pending" => Reclaimed(r).attempts < MaxAttempts
  <1> DEFINE st == IF CeilingReached(r) THEN "dead_letter" ELSE "pending"
             n == r.attempts + 1
  <1>1. /\ st \in Statuses /\ st \in {"dead_letter", "pending"} /\ n \in Nat
        /\ st = "pending" => n < MaxAttempts
    BY StoreAssumption, WrittenConstants, AttemptsNat DEF CeilingReached
  <1>2. Reclaimed(r) = [r EXCEPT !.status = st, !.lease = NoLease, !.attempts = n,
                                 !.class = "lease_expired", !.age = 0]
    BY DEF Reclaimed
  <1> HIDE DEF st, n
  <1>3. Carried(r, Reclaimed(r)) /\ Reclaimed(r).status = st /\ Reclaimed(r).attempts = n
    BY <1>1, <1>2, WrittenConstants DEF Carried, Row
  <1> QED  BY <1>1, <1>3

\* fail_and_requeue: what waits for a retry has attempts left.
LEMMA FailedFacts ==
  ASSUME NEW r \in Row, NEW n \in Nat, NEW c \in FailureClasses
  PROVE  LET new == FailedAttempt(r, n, c) IN
         /\ Carried(r, new) /\ new.status \in {"dead_letter", "pending"}
         /\ new.status = "pending" => new.attempts < MaxAttempts
  <1> DEFINE k == n + 1
             x == FailedAttempt(r, n, c)
  <1>1. k \in Nat /\ c \in RowClasses  BY WrittenConstants
  <1>2. ~StopsForGood(r, n, c) => k < MaxAttempts
    BY StoreAssumption DEF StopsForGood, Ceiling
  <1>3. x = IF StopsForGood(r, n, c)
            THEN [r EXCEPT !.status = "dead_letter", !.attempts = k,
                           !.class = c, !.lease = NoLease, !.age = 0]
            ELSE [r EXCEPT !.status = "pending", !.attempts = k, !.class = c,
                           !.lease = NoLease, !.backoff = TRUE, !.age = 0]
    BY DEF FailedAttempt
  <1> HIDE DEF k, x
  <1>4. CASE StopsForGood(r, n, c)
    <2>1. Carried(r, x) /\ x.status = "dead_letter"
      BY <1>1, <1>3, <1>4, WrittenConstants DEF Carried, Row
    <2> QED  BY <2>1 DEF x
  <1>5. CASE ~StopsForGood(r, n, c)
    <2>1. Carried(r, x) /\ x.status = "pending" /\ x.attempts = k
      BY <1>1, <1>3, <1>5, WrittenConstants DEF Carried, Row
    <2> QED  BY <1>2, <1>5, <2>1 DEF x
  <1> QED  BY <1>4, <1>5

\* claim_for_recovery: only the sweep charges, and it leaves no recovering row
\* without attempts.
LEMMA ClaimedForRecoveryFacts ==
  ASSUME NEW r \in Row, NEW charged \in BOOLEAN
  PROVE  LET new == ClaimedForRecovery(r, charged) IN
         /\ Carried(r, new) /\ new.status \in {"dead_letter", "recovering"}
         /\ charged /\ new.status = "recovering" => new.attempts < MaxAttempts
         /\ ~charged => new.attempts = r.attempts
  <1> DEFINE st == IF CeilingReached(r) THEN "dead_letter" ELSE "recovering"
             n == r.attempts + 1
             x == ClaimedForRecovery(r, charged)
  <1>1. /\ st \in Statuses /\ st \in {"dead_letter", "recovering"} /\ n \in Nat
        /\ st = "recovering" => n < MaxAttempts
    BY StoreAssumption, WrittenConstants, AttemptsNat DEF CeilingReached
  <1>2. x = IF charged
            THEN [r EXCEPT !.status = st, !.attempts = n, !.class = "reclaimed_stale",
                           !.age = 0]
            ELSE [r EXCEPT !.status = "recovering", !.age = 0]
    BY DEF ClaimedForRecovery
  <1> HIDE DEF st, n, x
  <1>3. CASE charged
    <2>1. Carried(r, x) /\ x.status = st /\ x.attempts = n
      BY <1>1, <1>2, <1>3, WrittenConstants DEF Carried, Row
    <2> QED  BY <1>1, <1>3, <2>1 DEF x
  <1>4. CASE ~charged
    <2>1. Carried(r, x) /\ x.status = "recovering" /\ x.attempts = r.attempts
      BY <1>2, <1>4, WrittenConstants DEF Carried, Row
    <2> QED  BY <1>4, <2>1 DEF x
  <1> QED  BY <1>3, <1>4

\* mark_delivered
LEMMA DeliveredFacts ==
  ASSUME NEW r \in Row
  PROVE  LET new == Delivered(r) IN
         /\ new \in Row /\ new.status = "completed" /\ new.delivered
         /\ new.destination = r.destination /\ new.acknowledged = r.acknowledged
  BY WrittenConstants DEF Delivered, Row

\* mark_completed_unaddressed
LEMMA UnaddressedFacts ==
  ASSUME NEW r \in Row
  PROVE  LET new == CompletedUnaddressed(r) IN
         /\ new \in Row /\ new.status = "completed" /\ new.acknowledged
         /\ new.destination = r.destination /\ new.delivered = r.delivered
  BY WrittenConstants DEF CompletedUnaddressed, Row

\* The row of a turn.
LEMMA NewRowFacts ==
  ASSUME NEW st \in Statuses, NEW d \in Destinations
  PROVE  LET r == NewRow(st, d, {}, NoParent) IN
         /\ r \in Row /\ r.status = st /\ r.destination = d /\ r.attempts = 0
         /\ ~r.delivered /\ ~r.acknowledged
  BY WrittenConstants DEF NewRow, Row

(***************************************************************************)
(* The drives that the actions leave.                                      *)
(***************************************************************************)
\* A drive at pc.
LEMMA AtFacts ==
  ASSUME NEW pc \in DrivePhases, NEW o \in Outcomes \cup {"none", "error"}
  PROVE  /\ At(pc, o) \in Drive /\ At(pc, o).pc = pc /\ At(pc, o).outcome = o
         /\ ~Completing(At(pc, o))
         /\ pc # "close" => Decided(At(pc, o))
  <1>1. "transient" \in FailureClasses  BY DEF FailureClasses
  <1> QED  BY <1>1 DEF At, Drive, Completing, Decided

\* A drive that is over.
LEMMA NoDriveFacts == NoDrive \in Drive /\ NoDrive.pc = "idle"
  BY AtFacts DEF NoDrive, DrivePhases

\* The drive that has read the row for fail_and_requeue.
LEMMA FailingFacts ==
  ASSUME NEW pc \in {"fail", "refail"}, NEW o, NEW r \in Row, NEW c \in FailureClasses
  PROVE  Failing(pc, o, r, c) \in Drive /\ Failing(pc, o, r, c).pc = pc
  <1> DEFINE q == IF o = "floor" THEN o ELSE "none"
  <1>1. q \in Outcomes \cup {"none", "error"} /\ pc \in DrivePhases
    BY DEF Outcomes, DrivePhases
  <1>2. Failing(pc, o, r, c) = [At(pc, q) EXCEPT !.seen = r.attempts, !.class = c]
    BY DEF Failing
  <1> HIDE DEF q
  <1>3. At(pc, q) \in Drive /\ At(pc, q).pc = pc /\ r.attempts \in Nat
    BY <1>1, AtFacts, AttemptsNat
  <1> QED  BY <1>2, <1>3 DEF Drive

\* The drive of _finalize's verdict.
LEMMA ClosingFacts ==
  ASSUME NEW o \in {"blank", "answer"}, NEW v \in {"completed", "parked", "running"}
  PROVE  LET d == [At("close", o) EXCEPT !.verdict = v] IN
         d \in Drive /\ d.pc = "close" /\ d.outcome = o /\ d.verdict = v
  <1>1. At("close", o) \in Drive /\ At("close", o).pc = "close" /\ At("close", o).outcome = o
    BY AtFacts DEF Outcomes, DrivePhases
  <1> QED  BY <1>1 DEF Drive

\* Where a drive goes on after its delivery: never to a proof or to a verdict.
LEMMA AfterwardsFacts ==
  ASSUME NEW m, NEW k, NEW o
  PROVE  /\ Afterwards(m, k, o) \in Drive
         /\ Afterwards(m, k, o).pc \in {"net", "final", "idle"}
  <1> DEFINE rest == IF o \in {"error", "blank"} THEN o ELSE "answer"
  <1>1. rest \in Outcomes \cup {"none", "error"}  BY DEF Outcomes
  <1>2. Afterwards(m, k, o) \in {At("net", rest), At("final", rest), NoDrive}
    BY DEF Afterwards
  <1> HIDE DEF rest
  <1>3. /\ At("net", rest) \in Drive /\ At("net", rest).pc = "net"
        /\ At("final", rest) \in Drive /\ At("final", rest).pc = "final"
    BY <1>1, AtFacts DEF DrivePhases
  <1> QED  BY <1>2, <1>3, NoDriveFacts

(***************************************************************************)
(* How a step keeps the invariant.                                         *)
(***************************************************************************)
\* What the invariant says of one message.
LEMMA MessageFacts ==
  ASSUME IInv, NEW m \in Messages
  PROVE  /\ rows[m] \in Row /\ rows \in [Messages -> Row]
         /\ drive \in [Messages -> [Kinds -> Drive]]
         /\ \A k \in Kinds : drive[m][k] \in Drive
         /\ lapse[m] \subseteq Lapses
         /\ Born(m) /\ Shown(m) /\ Budget(m) /\ Owned(m)
  BY DEF IInv, TurnTypeOK, Sound

\* The ledger and the bound keep their types, and the histories only grow.
Grows ==
  /\ ledger' \in [Messages -> LedgerStates] /\ faults' \in 0..MaxFaults
  /\ told \subseteq told' /\ told' \subseteq Messages
  /\ quiet \subseteq quiet' /\ quiet' \subseteq Messages
  /\ lapse' \in [Messages -> SUBSET Lapses]
  /\ \A n \in Messages : lapse[n] \subseteq lapse'[n]

\* A message whose row, drives and intake are left alone while no rescuer moves.
LEMMA OtherKeeps ==
  ASSUME NEW m \in Messages, Sound(m), rows'[m] = rows[m], drive'[m] = drive[m],
         intake'[m] = intake[m], reply'[m] = reply[m], UNCHANGED <<phase, pass>>,
         told \subseteq told', quiet \subseteq quiet', lapse[m] \subseteq lapse'[m]
  PROVE  Sound(m)'
  <1>1. Born(m)'  BY DEF Sound, Born
  <1>2. Shown(m)'  BY DEF Sound, Shown
  <1>3. Budget(m)'  BY DEF Sound, Budget
  <1>4. Owned(m)'  BY DEF Sound, Owned
  <1> QED  BY <1>1, <1>2, <1>3, <1>4 DEF Sound

\* A step of one drive of m, which leaves its row as r and itself as d.
LEMMA DriveKeeps ==
  ASSUME IInv, NEW m \in Messages, NEW k \in Kinds, NEW r \in Row, NEW d \in Drive,
         drive[m][k].pc # "idle",
         rows' = [rows EXCEPT ![m] = r],
         drive' = [drive EXCEPT ![m][k] = d],
         UNCHANGED <<reply, intake, phase, pass>>,
         Grows,
         \* The row is there as before, belongs to whom it did and loses no proof.
         r.status = "absent" <=> rows[m].status = "absent",
         r.destination = rows[m].destination,
         rows[m].delivered => r.delivered,
         r.delivered => rows[m].delivered \/ m \in told',
         r.status = "completed" =>
           \/ r.delivered \/ r.acknowledged \/ m \in quiet' \/ "unproved" \in lapse'[m]
           \/ rows[m].status = "completed" /\ r.acknowledged = rows[m].acknowledged,
         r.status = "pending" => r.attempts < MaxAttempts,
         r.status = "recovering" => r = rows[m],
         r.status = "running" => r = rows[m] \/ k = "resume",
         d.pc = "sent" => m \in told',
         k = "resume" /\ Completing(d) => r.delivered \/ "unproved" \in lapse'[m],
         Decided(d)
  PROVE  IInv'
  <1>0. /\ rows[m] \in Row /\ rows \in [Messages -> Row]
        /\ drive \in [Messages -> [Kinds -> Drive]]
        /\ Born(m) /\ Shown(m) /\ Budget(m) /\ Owned(m)
    BY MessageFacts
  <1>1. /\ rows' \in [Messages -> Row] /\ rows'[m] = r
        /\ \A n \in Messages \ {m} : rows'[n] = rows[n]
    BY <1>0
  <1>2. /\ drive' \in [Messages -> [Kinds -> Drive]] /\ drive'[m][k] = d
        /\ \A j \in Kinds \ {k} : drive'[m][j] = drive[m][j]
        /\ \A n \in Messages \ {m} : drive'[n] = drive[n]
    BY <1>0
  <1>3. TurnTypeOK'  BY <1>1, <1>2 DEF IInv, TurnTypeOK, Grows
  <1>4. \A n \in Messages : drive[n]["resume"].pc = "idle" => drive'[n]["resume"].pc = "idle"
    BY <1>2 DEF Kinds
  <1>5. Phased'  BY <1>4 DEF IInv, Phased
  <1>6. \A n \in Messages \ {m} : Sound(n)'
    BY <1>1, <1>2, OtherKeeps DEF IInv, Grows
  <1>7. Born(m)'
    <2>1. /\ drive[m]["resume"].pc = "idle" => drive'[m]["resume"].pc = "idle"
          /\ drive[m]["loop"].pc = "idle" => drive'[m]["loop"].pc = "idle"
      BY <1>2 DEF Kinds
    <2> QED  BY <1>0, <1>1, <2>1 DEF Born
  <1>8. Shown(m)'
    <2>0. told \subseteq told' /\ quiet \subseteq quiet' /\ lapse[m] \subseteq lapse'[m]
      BY DEF Grows
    <2>1. rows'[m].delivered => m \in told'  BY <1>0, <1>1, <2>0 DEF Shown
    <2>2. \A j \in Kinds : drive'[m][j].pc = "sent" => m \in told'
      BY <1>0, <1>2, <2>0 DEF Shown
    <2>3. Completing(drive'[m]["resume"]) => rows'[m].delivered \/ "unproved" \in lapse'[m]
      <3>1. "resume" \in Kinds  BY DEF Kinds
      <3> QED  BY <1>0, <1>1, <1>2, <2>0, <3>1 DEF Shown
    <2>4. rows'[m].status = "completed" =>
            \/ rows'[m].delivered \/ rows'[m].acknowledged
            \/ m \in quiet' \/ "unproved" \in lapse'[m]
      BY <1>0, <1>1, <2>0 DEF Shown
    <2>5. Decided(drive'[m]["resume"])
      <3>1. "resume" \in Kinds  BY DEF Kinds
      <3> QED  BY <1>0, <1>2, <3>1 DEF Shown
    <2> QED  BY <2>1, <2>2, <2>3, <2>4, <2>5 DEF Shown
  <1>9. Budget(m)'
    <2>1. rows'[m].status \in {"pending", "recovering"} => rows'[m].attempts < MaxAttempts
      BY <1>0, <1>1 DEF Budget
    <2>2. ASSUME m \in pass["boot"].todo
          PROVE  /\ rows'[m].status = "running" => rows'[m].attempts < MaxAttempts
                 /\ drive'[m]["resume"].pc = "idle"
      <3>1. drive[m]["resume"].pc = "idle" /\ k # "resume"  BY <1>0, <2>2 DEF Budget
      <3> QED  BY <1>0, <1>1, <1>4, <2>2, <3>1 DEF Budget
    <2> QED  BY <1>0, <2>1, <2>2 DEF Budget
  <1>10. Owned(m)'  BY <1>0, <1>1 DEF Owned, Grows
  <1> QED  BY <1>3, <1>5, <1>6, <1>7, <1>8, <1>9, <1>10 DEF IInv, Sound

(***************************************************************************)
(* The steps of a drive.                                                   *)
(***************************************************************************)
\* Nothing is recorded, or an exception is.
LEMMA FaultsGrow ==
  ASSUME IInv, ledger' \in [Messages -> LedgerStates],
         told \subseteq told', told' \subseteq Messages,
         quiet \subseteq quiet', quiet' \subseteq Messages,
         \/ noFault \/ Fault \/ UNCHANGED <<lapse, faults>>
         \/ \E m \in Messages, l \in Lapses : Lapse(m, l)
  PROVE  Grows
  <1>0. lapse \in [Messages -> SUBSET Lapses] /\ faults \in 0..MaxFaults
    BY DEF IInv, TurnTypeOK
  <1>1. faults' \in 0..MaxFaults
    BY <1>0, RecoveryAssumption DEF noFault, Fault, Lapse
  <1>2. /\ lapse' \in [Messages -> SUBSET Lapses]
        /\ \A n \in Messages : lapse[n] \subseteq lapse'[n]
    BY <1>0 DEF noFault, Fault, Lapse
  <1> QED  BY <1>1, <1>2 DEF Grows

\* A ledger row is flipped.
LEMMA FlipTypes ==
  ASSUME IInv, NEW m \in Messages, NEW new \in LedgerStates,
         ledger' = [ledger EXCEPT ![m] = Flip(@, new)]
  PROVE  ledger' \in [Messages -> LedgerStates]
  BY DEF IInv, TurnTypeOK, Flip

\* A drive goes on and leaves its row alone.
LEMMA MovesKeeps ==
  ASSUME IInv, NEW m \in Messages, NEW k \in Kinds, NEW d \in Drive,
         drive[m][k].pc # "idle", Moves(m, k, d), rows' = rows, driveFrame, Grows,
         d.pc = "sent" => m \in told',
         k = "resume" /\ Completing(d) => rows[m].delivered \/ "unproved" \in lapse'[m],
         Decided(d)
  PROVE  IInv'
  <1>1. rows[m] \in Row /\ rows' = [rows EXCEPT ![m] = rows[m]] /\ Budget(m) /\ Shown(m)
    BY MessageFacts
  <1>2. drive' = [drive EXCEPT ![m][k] = d] /\ UNCHANGED <<reply, intake, phase, pass>>
    BY DEF Moves, driveFrame
  <1>3. rows[m].status = "pending" => rows[m].attempts < MaxAttempts  BY <1>1 DEF Budget
  <1> QED  BY <1>1, <1>2, <1>3, DriveKeeps

\* A drive that is not about to prove or to complete anything.
LEMMA PlainMoveKeeps ==
  ASSUME IInv, NEW m \in Messages, NEW k \in Kinds, NEW d \in Drive,
         drive[m][k].pc # "idle", Moves(m, k, d), rows' = rows, driveFrame, Grows,
         d.pc \notin {"sent", "close"}
  PROVE  IInv'
  BY MovesKeeps DEF Completing, Decided

\* persist_turn
LEMMA PersistKeeps ==
  ASSUME IInv, NEW m \in Messages, NEW k \in Kinds, NEW o \in Outcomes, Persist(m, k, o)
  PROVE  IInv'
  <1>1. At("gated", o) \in Drive /\ At("gated", o).pc = "gated"
    BY AtFacts DEF DrivePhases
  <1>2. /\ drive[m][k].pc # "idle" /\ Moves(m, k, At("gated", o)) /\ rows' = rows
        /\ driveFrame /\ told' = told /\ quiet' = quiet
        /\ noFault \/ Fault \/ UNCHANGED <<lapse, faults>>
        /\ ledger' = ledger \/ ledger' = [ledger EXCEPT ![m] = Flip(@, "closed")]
    BY DEF Persist
  <1>3. Grows
    <2>1. ledger' \in [Messages -> LedgerStates]
      BY <1>2, FlipTypes DEF LedgerStates, IInv, TurnTypeOK
    <2> QED  BY <1>2, <2>1, FaultsGrow DEF IInv, TurnTypeOK
  <1> QED  BY <1>1, <1>2, <1>3, PlainMoveKeeps

\* The steps after which a drive goes on with its delivery behind it, or still ahead.
LEMMA DeliveryKeeps ==
  ASSUME IInv, NEW m \in Messages, NEW k \in Kinds,
         \/ Raises(m, k) \/ Send(m, k) \/ SendFails(m, k) \/ Silent(m, k)
         \/ ReadAttempts(m, k) \/ RequeueFails(m, k) \/ SaysFloor(m, k)
  PROVE  IInv'
  <1>1. /\ rows' = rows /\ ledger' = ledger /\ driveFrame /\ quiet' = quiet
        /\ told \subseteq told' /\ told' \subseteq told \cup {m}
        /\ Fault \/ UNCHANGED <<lapse, faults>>
        /\ drive[m][k].pc # "idle"
    BY DEF Raises, Send, SendFails, Silent, ReadAttempts, RequeueFails, SaysFloor
  <1>2. Grows
    <2>1. ledger' \in [Messages -> LedgerStates] /\ told' \subseteq Messages
          /\ quiet' \subseteq Messages
      BY <1>1 DEF IInv, TurnTypeOK
    <2> QED  BY <1>1, <2>1, FaultsGrow
  <1>3. ASSUME NEW o, Moves(m, k, Afterwards(m, k, o)) PROVE IInv'
    <2>1. /\ Afterwards(m, k, o) \in Drive
          /\ Afterwards(m, k, o).pc \notin {"sent", "close"}
      BY AfterwardsFacts
    <2> QED  BY <1>1, <1>2, <1>3, <2>1, PlainMoveKeeps
  <1>4. CASE \E o \in Outcomes : m \in told' /\ Moves(m, k, At("sent", o))
    <2>1. PICK o \in Outcomes : m \in told' /\ Moves(m, k, At("sent", o))  BY <1>4
    <2>2. At("sent", o) \in Drive /\ ~Completing(At("sent", o)) /\ Decided(At("sent", o))
      BY AtFacts DEF DrivePhases
    <2> QED  BY <1>1, <1>2, <2>1, <2>2, MovesKeeps
  <1>5. CASE Moves(m, k, At("say", "floor"))
    <2>1. At("say", "floor") \in Drive /\ At("say", "floor").pc = "say"
      BY AtFacts DEF DrivePhases, Outcomes
    <2> QED  BY <1>1, <1>2, <1>5, <2>1, PlainMoveKeeps
  <1>6. CASE Moves(m, k, Failing("fail", drive[m][k].outcome, rows[m], "small"))
    <2> DEFINE d == Failing("fail", drive[m][k].outcome, rows[m], "small")
    <2>1. rows[m] \in Row /\ "small" \in FailureClasses
      BY MessageFacts DEF FailureClasses
    <2>2. d \in Drive /\ d.pc = "fail"  BY <2>1, FailingFacts
    <2> HIDE DEF d
    <2>3. Moves(m, k, d)  BY <1>6 DEF d
    <2> QED  BY <1>1, <1>2, <2>2, <2>3, PlainMoveKeeps
  <1>7. \/ \E o : Moves(m, k, Afterwards(m, k, o))
        \/ \E o \in Outcomes : m \in told' /\ Moves(m, k, At("sent", o))
        \/ Moves(m, k, At("say", "floor"))
        \/ Moves(m, k, Failing("fail", drive[m][k].outcome, rows[m], "small"))
    <2>1. CASE Raises(m, k)  BY <2>1 DEF Raises
    <2>2. CASE Send(m, k)  BY <2>2 DEF Send, Outcomes
    <2>3. CASE SendFails(m, k)  BY <2>3 DEF SendFails
    <2>4. CASE Silent(m, k)  BY <2>4 DEF Silent
    <2>5. CASE ReadAttempts(m, k)  BY <2>5 DEF ReadAttempts
    <2>6. CASE RequeueFails(m, k)
      <3>1. \/ Moves(m, k, At("say", "floor"))
            \/ Moves(m, k, Afterwards(m, k, drive[m][k].outcome))
        BY <2>6 DEF RequeueFails
      <3> QED  BY <3>1
    <2>7. CASE SaysFloor(m, k)  BY <2>7 DEF SaysFloor
    <2> QED  BY <2>1, <2>2, <2>3, <2>4, <2>5, <2>6, <2>7
  <1> QED  BY <1>3, <1>4, <1>5, <1>6, <1>7

\* A drive writes its row, without its clocks.
LEMMA PutKeeps ==
  ASSUME IInv, NEW m \in Messages, NEW k \in Kinds, NEW x \in Row, NEW d \in Drive,
         drive[m][k].pc # "idle", Put(m, x), Moves(m, k, d), driveFrame, Grows,
         x.status = "absent" <=> rows[m].status = "absent",
         x.destination = rows[m].destination,
         rows[m].delivered => x.delivered,
         x.delivered => rows[m].delivered \/ m \in told',
         x.status = "completed" =>
           x.delivered \/ x.acknowledged \/ m \in quiet' \/ "unproved" \in lapse'[m],
         x.status = "pending" => x.attempts < MaxAttempts,
         x.status # "recovering",
         x.status = "running" => k = "resume",
         d.pc \notin {"sent", "close"}
  PROVE  IInv'
  <1> DEFINE r == Timeless(x)
  <1>1. /\ r \in Row /\ r.status = x.status /\ r.destination = x.destination
        /\ r.delivered = x.delivered /\ r.acknowledged = x.acknowledged
        /\ r.attempts < MaxAttempts <=> x.attempts < MaxAttempts
    BY TimelessFacts DEF Carried
  <1>2. /\ rows' = [rows EXCEPT ![m] = r] /\ drive' = [drive EXCEPT ![m][k] = d]
        /\ UNCHANGED <<reply, intake, phase, pass>>
    BY DEF Put, Moves, driveFrame
  <1>3. ~Completing(d) /\ Decided(d)  BY DEF Completing, Decided
  <1> HIDE DEF r
  <1> QED  BY <1>1, <1>2, <1>3, DriveKeeps

\* fail_and_requeue, of a delivery.
LEMMA RequeueKeeps ==
  ASSUME IInv, NEW m \in Messages, NEW k \in Kinds, Requeue(m, k)
  PROVE  IInv'
  <1> DEFINE f == FailedAttempt(rows[m], drive[m][k].seen, drive[m][k].class)
             x == Write(rows[m], f)
  <1>1. rows[m] \in Row /\ drive[m][k] \in Drive  BY MessageFacts
  <1>2. drive[m][k].seen \in Nat /\ drive[m][k].class \in FailureClasses
    BY <1>1 DEF Drive
  <1>3. /\ Carried(rows[m], f) /\ f.status \in {"dead_letter", "pending"}
        /\ f.status = "pending" => f.attempts < MaxAttempts
    BY <1>1, <1>2, FailedFacts
  <1>4. /\ drive[m][k].pc # "idle" /\ Put(m, x) /\ driveFrame
        /\ UNCHANGED <<ledger, told, quiet, lapse, faults>>
        /\ \/ Moves(m, k, At("say", "floor"))
           \/ Moves(m, k, Afterwards(m, k, drive[m][k].outcome))
    BY DEF Requeue
  <1>5. Grows
    BY <1>4, FaultsGrow DEF IInv, TurnTypeOK
  <1>6. PICK d \in Drive : Moves(m, k, d) /\ d.pc \notin {"sent", "close"}
    <2>1. At("say", "floor") \in Drive /\ At("say", "floor").pc = "say"
      BY AtFacts DEF DrivePhases, Outcomes
    <2>2. /\ Afterwards(m, k, drive[m][k].outcome) \in Drive
          /\ Afterwards(m, k, drive[m][k].outcome).pc \notin {"sent", "close"}
      BY AfterwardsFacts
    <2> QED  BY <1>4, <2>1, <2>2
  <1> HIDE DEF f
  <1>7. /\ x \in Row /\ x.destination = rows[m].destination
        /\ x.delivered = rows[m].delivered
        /\ x.status \in {"absent", "dead_letter", "pending"}
        /\ x.status = "absent" <=> rows[m].status = "absent"
        /\ x.status = "pending" => x.attempts < MaxAttempts
    BY <1>1, <1>3 DEF Write, Carried
  <1> HIDE DEF x
  <1> QED  BY <1>4, <1>5, <1>6, <1>7, PutKeeps

\* mark_delivered: the sender has the answer.
LEMMA RecordDeliveryKeeps ==
  ASSUME IInv, NEW m \in Messages, NEW k \in Kinds, RecordDelivery(m, k)
  PROVE  IInv'
  <1> DEFINE x == Write(rows[m], Delivered(rows[m]))
             d == Afterwards(m, k, "answer")
  <1>1. rows[m] \in Row /\ Shown(m)  BY MessageFacts
  <1>2. /\ drive[m][k].pc = "sent" /\ Moves(m, k, d) /\ driveFrame
        /\ UNCHANGED <<ledger, told, quiet>>
        /\ noFault \/ Fault
        /\ Put(m, x) \/ rows' = rows
    BY DEF RecordDelivery
  <1>3. m \in told  BY <1>1, <1>2 DEF Shown
  <1>4. Grows  BY <1>2, FaultsGrow DEF IInv, TurnTypeOK
  <1>5. d \in Drive /\ d.pc \notin {"sent", "close"}  BY AfterwardsFacts
  <1>6. /\ x \in Row /\ x.destination = rows[m].destination
        /\ x.status \in {"absent", "completed"}
        /\ x.status = "absent" <=> rows[m].status = "absent"
        /\ rows[m].delivered => x.delivered
        /\ x.status = "completed" => x.delivered
    BY <1>1, DeliveredFacts DEF Write
  <1> HIDE DEF x, d
  <1>7. CASE rows' = rows  BY <1>2, <1>4, <1>5, <1>7, PlainMoveKeeps
  <1>8. CASE Put(m, x)  BY <1>2, <1>3, <1>4, <1>5, <1>6, <1>8, PutKeeps
  <1> QED  BY <1>2, <1>7, <1>8

\* _finalize_message_ledger
LEMMA SafetyNetKeeps ==
  ASSUME IInv, NEW m \in Messages, SafetyNet(m)
  PROVE  IInv'
  <1>1. /\ drive[m]["turn"].pc # "idle" /\ Moves(m, "turn", NoDrive) /\ driveFrame
        /\ ledger' = [ledger EXCEPT ![m] = Flip(@, "closed")]
        /\ UNCHANGED <<rows, told, quiet, lapse, faults>>
    BY DEF SafetyNet
  <1>2. "turn" \in Kinds /\ "closed" \in LedgerStates  BY DEF Kinds, LedgerStates
  <1>3. Grows
    <2>1. ledger' \in [Messages -> LedgerStates]  BY <1>1, <1>2, FlipTypes
    <2> QED  BY <1>1, <2>1, FaultsGrow DEF IInv, TurnTypeOK
  <1> QED  BY <1>1, <1>2, <1>3, NoDriveFacts, PlainMoveKeeps

\* _finalize decides.  A completion over an answer has the proof: the row belongs to
\* its address, so only a proof lets _owes_delivery say that nothing is owed.
LEMMA FinalizeKeeps ==
  ASSUME IInv, NEW m \in Messages, Finalize(m)
  PROVE  IInv'
  <1> DEFINE o == IF drive[m]["resume"].outcome = "blank" THEN "blank" ELSE "answer"
             Closing(v) == [At("close", o) EXCEPT !.verdict = v]
             Says(v) == o # "blank" /\ v = "completed"
                          => rows[m].delivered \/ "unproved" \in lapse'[m]
  <1>0. /\ "resume" \in Kinds /\ "transient" \in FailureClasses
        /\ "permanent" \in FailureClasses /\ "unproved" \in Lapses
        /\ o \in {"blank", "answer"}
    BY DEF Kinds, FailureClasses, Lapses
  <1>1. /\ rows[m] \in Row /\ Born(m) /\ lapse \in [Messages -> SUBSET Lapses]
        /\ reply[m] \in {"bare", "addressed"}
    BY MessageFacts, RecoveryAssumption DEF IInv, TurnTypeOK
  <1>2. /\ drive[m]["resume"].pc # "idle" /\ driveFrame
        /\ UNCHANGED <<rows, ledger, told, quiet>>
        /\ noFault \/ Lapse(m, "unproved")
    BY DEF Finalize
  <1>3. Grows  BY <1>0, <1>2, FaultsGrow DEF IInv, TurnTypeOK
  <1>4. \/ Moves(m, "resume", NoDrive)
        \/ \E c \in {"transient", "permanent"} :
             Moves(m, "resume", Failing("refail", "none", rows[m], c))
        \/ \E v \in {"completed", "parked", "running"} :
             Moves(m, "resume", Closing(v)) /\ Says(v)
    <2>1. CASE rows[m].status # "running" /\ Moves(m, "resume", NoDrive)  BY <2>1
    <2>2. CASE \E c \in {"transient", "permanent"} :
                 Moves(m, "resume", Failing("refail", "none", rows[m], c))
      BY <2>2
    <2>3. CASE Moves(m, "resume", Closing("parked"))  BY <2>3
    <2>4. CASE /\ rows[m].status = "running"
               /\ Moves(m, "resume",
                    Closing(IF drive[m]["resume"].outcome # "blank"
                                 /\ OwesDelivery(rows[m])
                            THEN "running" ELSE "completed"))
      <3>1. rows[m].destination = reply[m]  BY <1>1, <2>4 DEF Born
      <3>2. CASE drive[m]["resume"].outcome # "blank" /\ OwesDelivery(rows[m])
        BY <2>4, <3>2
      <3>3. CASE ~(drive[m]["resume"].outcome # "blank" /\ OwesDelivery(rows[m]))
        <4>1. Moves(m, "resume", Closing("completed"))  BY <2>4, <3>3
        <4>2. Says("completed")  BY <1>1, <3>1, <3>3 DEF OwesDelivery
        <4> QED  BY <4>1, <4>2
      <3> QED  BY <3>2, <3>3
    <2>5. CASE Lapse(m, "unproved") /\ Moves(m, "resume", Closing("completed"))
      <3>1. "unproved" \in lapse'[m]  BY <1>1, <2>5 DEF Lapse
      <3> QED  BY <2>5, <3>1
    <2> QED  BY <2>1, <2>2, <2>3, <2>4, <2>5 DEF Finalize
  <1>5. CASE Moves(m, "resume", NoDrive)
    BY <1>0, <1>2, <1>3, <1>5, NoDriveFacts, PlainMoveKeeps
  <1>6. CASE \E c \in {"transient", "permanent"} :
               Moves(m, "resume", Failing("refail", "none", rows[m], c))
    <2>1. PICK c \in FailureClasses : Moves(m, "resume", Failing("refail", "none", rows[m], c))
      BY <1>0, <1>6
    <2>2. /\ Failing("refail", "none", rows[m], c) \in Drive
          /\ Failing("refail", "none", rows[m], c).pc = "refail"
      BY <1>1, FailingFacts
    <2> QED  BY <1>0, <1>2, <1>3, <2>1, <2>2, PlainMoveKeeps
  <1>7. CASE \E v \in {"completed", "parked", "running"} :
               Moves(m, "resume", Closing(v)) /\ Says(v)
    <2>1. PICK v \in {"completed", "parked", "running"} :
                 Moves(m, "resume", Closing(v)) /\ Says(v)
      BY <1>7
    <2> HIDE DEF o
    <2>2. /\ Closing(v) \in Drive /\ Closing(v).pc = "close"
          /\ Closing(v).outcome = o /\ Closing(v).verdict = v
      BY <1>0, ClosingFacts
    <2> HIDE DEF Closing
    <2>3. /\ Completing(Closing(v)) => rows[m].delivered \/ "unproved" \in lapse'[m]
          /\ Decided(Closing(v))
      BY <2>1, <2>2 DEF Completing, Decided
    <2> QED  BY <1>0, <1>2, <1>3, <2>1, <2>2, <2>3, MovesKeeps
  <1> QED  BY <1>4, <1>5, <1>6, <1>7

\* fail_and_requeue, of _finalize.
LEMMA RequeueResumedKeeps ==
  ASSUME IInv, NEW m \in Messages, RequeueResumed(m)
  PROVE  IInv'
  <1> DEFINE x == FailedAttempt(rows[m], drive[m]["resume"].seen,
                                drive[m]["resume"].class)
  <1>0. "resume" \in Kinds  BY DEF Kinds
  <1>1. rows[m] \in Row /\ drive[m]["resume"] \in Drive /\ Born(m)
    BY <1>0, MessageFacts
  <1>2. drive[m]["resume"].seen \in Nat /\ drive[m]["resume"].class \in FailureClasses
    BY <1>1 DEF Drive
  <1>3. /\ x \in Row /\ x.destination = rows[m].destination
        /\ x.delivered = rows[m].delivered
        /\ x.status \in {"dead_letter", "pending"}
        /\ x.status = "pending" => x.attempts < MaxAttempts
    BY <1>1, <1>2, FailedFacts DEF Carried
  <1>4. /\ drive[m]["resume"].pc # "idle" /\ Put(m, x) /\ Moves(m, "resume", NoDrive)
        /\ driveFrame /\ UNCHANGED <<ledger, told, quiet, lapse, faults>>
    BY DEF RequeueResumed
  <1>5. Grows  BY <1>4, FaultsGrow DEF IInv, TurnTypeOK
  <1>6. rows[m].status # "absent"  BY <1>1, <1>4 DEF Born
  <1> HIDE DEF x
  <1> QED  BY <1>0, <1>3, <1>4, <1>5, <1>6, NoDriveFacts, PutKeeps

\* update_status writes the verdict, whatever the row has become meanwhile.
LEMMA CloseKeeps ==
  ASSUME IInv, NEW m \in Messages, Close(m)
  PROVE  IInv'
  <1> DEFINE d == drive[m]["resume"]
             x == [rows[m] EXCEPT !.status = d.verdict, !.age = 0]
  <1>0. "resume" \in Kinds  BY DEF Kinds
  <1>1. rows[m] \in Row /\ d \in Drive /\ Born(m) /\ Shown(m)  BY <1>0, MessageFacts
  <1>2. /\ d.pc = "close" /\ Put(m, x) /\ Moves(m, "resume", NoDrive) /\ driveFrame
        /\ UNCHANGED <<ledger, told, lapse, faults>>
        /\ quiet' = IF d.verdict = "completed" /\ d.outcome = "blank"
                    THEN quiet \cup {m} ELSE quiet
    BY DEF Close
  <1>3. d.verdict \in {"completed", "parked", "running"}
    BY <1>1, <1>2 DEF Shown, Decided, Drive
  <1>4. d.verdict \in Statuses  BY <1>3 DEF Statuses
  <1>5. /\ x \in Row /\ x.destination = rows[m].destination
        /\ x.delivered = rows[m].delivered /\ x.status = d.verdict
    BY <1>1, <1>4, StatusFacts DEF Carried
  <1>6. Grows
    <2>1. quiet \subseteq quiet' /\ quiet' \subseteq Messages
      BY <1>2 DEF IInv, TurnTypeOK
    <2> QED  BY <1>2, <2>1, FaultsGrow DEF IInv, TurnTypeOK
  <1>7. rows[m].status # "absent"  BY <1>1, <1>2 DEF Born
  <1>8. x.status = "completed" => x.delivered \/ m \in quiet' \/ "unproved" \in lapse'[m]
    <2>1. CASE d.outcome = "blank"  BY <1>2, <1>5, <2>1
    <2>2. CASE d.outcome # "blank"
      <3>1. d.verdict = "completed" => rows[m].delivered \/ "unproved" \in lapse[m]
        BY <1>1, <1>2, <2>2 DEF Shown, Completing
      <3> QED  BY <1>2, <1>5, <3>1
    <2> QED  BY <2>1, <2>2
  <1> HIDE DEF x
  <1>9. drive[m]["resume"].pc # "idle"  BY <1>2
  <1> HIDE DEF d
  <1> QED
    BY <1>0, <1>2, <1>3, <1>5, <1>6, <1>7, <1>8, <1>9, NoDriveFacts, PutKeeps

\* The checkpoint of a resumed drive.
LEMMA CheckpointKeeps ==
  ASSUME IInv, NEW m \in Messages, Checkpoint(m)
  PROVE  IInv'
  <1> DEFINE x == [rows[m] EXCEPT !.status = "running", !.age = 0]
             d == drive[m]["resume"]
  <1>0. "resume" \in Kinds  BY DEF Kinds
  <1>1. /\ rows[m] \in Row /\ d \in Drive /\ Born(m)
        /\ drive \in [Messages -> [Kinds -> Drive]]
    BY <1>0, MessageFacts
  <1>2. /\ d.pc = "run" /\ Put(m, x) /\ driveFrame
        /\ UNCHANGED <<drive, ledger, told, quiet, lapse, faults>>
    BY DEF Checkpoint
  <1>3. Moves(m, "resume", d)
    BY <1>0, <1>1, <1>2 DEF Moves
  <1>4. /\ x \in Row /\ x.destination = rows[m].destination
        /\ x.delivered = rows[m].delivered /\ x.status = "running"
    BY <1>1, StatusFacts, WrittenConstants DEF Carried
  <1>5. Grows  BY <1>2, FaultsGrow DEF IInv, TurnTypeOK
  <1>6. rows[m].status # "absent"  BY <1>1, <1>2 DEF Born
  <1>7. drive[m]["resume"].pc # "idle"  BY <1>2
  <1> HIDE DEF x, d
  <1> QED  BY <1>0, <1>1, <1>2, <1>3, <1>4, <1>5, <1>6, <1>7, PutKeeps

\* The loop's actuator answers.
LEMMA LoopAnswersKeeps ==
  ASSUME IInv, NEW m \in Messages, LoopAnswers(m)
  PROVE  IInv'
  <1> DEFINE x == CompletedUnaddressed(rows[m])
  <1>0. "loop" \in Kinds /\ At("sent", "answer") \in Drive
        /\ ~Completing(At("sent", "answer")) /\ Decided(At("sent", "answer"))
    BY AtFacts DEF Kinds, DrivePhases, Outcomes
  <1>1. rows[m] \in Row /\ Born(m)  BY MessageFacts
  <1>2. /\ drive[m]["loop"].pc # "idle" /\ driveFrame
        /\ UNCHANGED <<ledger, quiet, lapse, faults>>
        /\ \/ /\ told' = told \cup {m} /\ rows' = rows
              /\ Moves(m, "loop", At("sent", "answer"))
           \/ told' = told /\ Put(m, x) /\ Moves(m, "loop", NoDrive)
    BY DEF LoopAnswers
  <1>3. Grows
    <2>1. told \subseteq told' /\ told' \subseteq Messages
      BY <1>2 DEF IInv, TurnTypeOK
    <2> QED  BY <1>2, <2>1, FaultsGrow DEF IInv, TurnTypeOK
  <1>4. CASE m \in told' /\ rows' = rows /\ Moves(m, "loop", At("sent", "answer"))
    BY <1>0, <1>2, <1>3, <1>4, MovesKeeps
  <1>5. CASE Put(m, x) /\ Moves(m, "loop", NoDrive)
    <2>1. /\ x \in Row /\ x.destination = rows[m].destination /\ x.status = "completed"
          /\ x.delivered = rows[m].delivered /\ x.acknowledged
      BY <1>1, UnaddressedFacts
    <2>2. rows[m].status # "absent"  BY <1>1, <1>2 DEF Born
    <2> HIDE DEF x
    <2> QED  BY <1>0, <1>2, <1>3, <1>5, <2>1, <2>2, NoDriveFacts, PutKeeps
  <1> QED  BY <1>2, <1>4, <1>5

\* The loop's actuator fails.
LEMMA LoopFailsKeeps ==
  ASSUME IInv, NEW m \in Messages, LoopFails(m)
  PROVE  IInv'
  <1>0. "loop" \in Kinds /\ {"transient", "permanent"} \subseteq FailureClasses
    BY DEF Kinds, FailureClasses
  <1>1. rows[m] \in Row  BY MessageFacts
  <1>2. /\ drive[m]["loop"].pc # "idle" /\ driveFrame
        /\ UNCHANGED <<rows, ledger, told, quiet, lapse, faults>>
    BY DEF LoopFails
  <1>3. PICK c \in FailureClasses : Moves(m, "loop", Failing("fail", "none", rows[m], c))
    BY <1>0 DEF LoopFails
  <1>4. Grows  BY <1>2, FaultsGrow DEF IInv, TurnTypeOK
  <1>5. /\ Failing("fail", "none", rows[m], c) \in Drive
        /\ Failing("fail", "none", rows[m], c).pc = "fail"
    BY <1>1, FailingFacts
  <1> QED  BY <1>0, <1>2, <1>3, <1>4, <1>5, PlainMoveKeeps

\* Every step of a drive.
LEMMA DriveStepKeeps ==
  ASSUME IInv, NEW m \in Messages, NEW k \in Kinds, DriveStep(m, k)
  PROVE  IInv'
  <1>1. CASE \E o \in Outcomes : Persist(m, k, o)  BY <1>1, PersistKeeps
  <1>2. CASE \/ Raises(m, k) \/ Send(m, k) \/ SendFails(m, k) \/ Silent(m, k)
             \/ ReadAttempts(m, k) \/ RequeueFails(m, k) \/ SaysFloor(m, k)
    BY <1>2, DeliveryKeeps
  <1>3. CASE Requeue(m, k)  BY <1>3, RequeueKeeps
  <1>4. CASE RecordDelivery(m, k)  BY <1>4, RecordDeliveryKeeps
  <1>5. CASE SafetyNet(m)  BY <1>5, SafetyNetKeeps
  <1>6. CASE ResumeEnds(m)
    BY <1>6, FinalizeKeeps, RequeueResumedKeeps, CloseKeeps DEF ResumeEnds
  <1>7. CASE LoopAnswers(m) \/ LoopFails(m)  BY <1>7, LoopAnswersKeeps, LoopFailsKeeps
  <1>8. CASE Checkpoint(m)  BY <1>8, CheckpointKeeps
  <1> QED
    BY <1>1, <1>2, <1>3, <1>4, <1>5, <1>6, <1>7, <1>8 DEF DriveStep, DriveEnds

(***************************************************************************)
(* Ingress and the loop.                                                   *)
(***************************************************************************)
\* Before its dispatch a message has no row, and the ledger is all that changes.
LEMMA IntakeKeeps ==
  ASSUME IInv, NEW m \in Messages, NEW s \in IntakeStages,
         intake[m] # "dispatched", intake' = [intake EXCEPT ![m] = s],
         ledger' \in [Messages -> LedgerStates], noFault \/ Fault,
         UNCHANGED <<rows, reply, drive, phase, pass, told, quiet>>
  PROVE  IInv'
  <1>0. intake \in [Messages -> IntakeStages]  BY DEF IInv, TurnTypeOK
  <1>1. Grows  BY FaultsGrow DEF IInv, TurnTypeOK
  <1>2. /\ intake' \in [Messages -> IntakeStages]
        /\ \A n \in Messages \ {m} : intake'[n] = intake[n]
    BY <1>0
  <1>3. TurnTypeOK'  BY <1>1, <1>2 DEF IInv, TurnTypeOK, Grows
  <1>4. Phased'  BY DEF IInv, Phased
  <1>5. \A n \in Messages \ {m} : Sound(n)'
    BY <1>1, <1>2, OtherKeeps DEF IInv, Grows
  <1>6. Sound(m)'
    <2>0. Born(m) /\ Shown(m) /\ Budget(m) /\ Owned(m)  BY MessageFacts
    <2>1. Born(m)'  BY <2>0 DEF Born
    <2>2. Shown(m)'  BY <1>1, <2>0 DEF Shown, Grows
    <2>3. Budget(m)'  BY <2>0 DEF Budget
    <2>4. Owned(m)'  BY <1>1, <2>0 DEF Owned, Grows
    <2> QED  BY <2>1, <2>2, <2>3, <2>4 DEF Sound
  <1> QED  BY <1>3, <1>4, <1>5, <1>6 DEF IInv

\* insert_pending; the clarify answer; _intake without a dispatch; a drain that
\* drops or loses what it took off the queue.
LEMMA ReceiveKeeps ==
  ASSUME IInv, NEW m \in Messages,
         Receive(m) \/ AnswersClarify(m) \/ TakeIn(m) \/ DropLate(m) \/ DrainFails(m)
  PROVE  IInv'
  <1>0. /\ {"received", "consumed", "queued", "late", "refused", "folded",
            "dropped", "gone"} \subseteq IntakeStages
        /\ "pending" \in LedgerStates /\ "closed" \in LedgerStates
        /\ ledger \in [Messages -> LedgerStates]
    BY DEF IntakeStages, LedgerStates, IInv, TurnTypeOK
  <1>1. CASE Receive(m)
    <2>1. /\ intake[m] # "dispatched" /\ intake' = [intake EXCEPT ![m] = "received"]
          /\ ledger' \in [Messages -> LedgerStates]
          /\ noFault \/ Fault
          /\ UNCHANGED <<rows, reply, drive, phase, pass, told, quiet>>
      BY <1>0, <1>1 DEF Receive
    <2> QED  BY <1>0, <2>1, IntakeKeeps
  <1>2. CASE AnswersClarify(m)
    <2>1. /\ intake[m] # "dispatched" /\ intake' = [intake EXCEPT ![m] = "consumed"]
          /\ ledger' \in [Messages -> LedgerStates] /\ noFault
          /\ UNCHANGED <<rows, reply, drive, phase, pass, told, quiet>>
      BY <1>0, <1>2 DEF AnswersClarify, noFault
    <2> QED  BY <1>0, <2>1, IntakeKeeps
  <1>3. CASE TakeIn(m)
    <2>1. PICK to \in {<<"queued", "pending">>, <<"refused", "closed">>,
                       <<"folded", "closed">>, <<"late", "closed">>} :
            /\ intake' = [intake EXCEPT ![m] = to[1]]
            /\ \/ ledger' = [ledger EXCEPT ![m] = Flip(@, to[2])] /\ noFault
               \/ ledger' = ledger /\ Fault
      BY <1>3 DEF TakeIn
    <2>2. to[1] \in IntakeStages /\ to[2] \in LedgerStates  BY <1>0, <2>1
    <2>3. ledger' \in [Messages -> LedgerStates]  BY <1>0, <2>1, <2>2, FlipTypes
    <2>4. /\ intake[m] # "dispatched"
          /\ UNCHANGED <<rows, reply, drive, phase, pass, told, quiet>>
      BY <1>3 DEF TakeIn
    <2> QED  BY <2>1, <2>2, <2>3, <2>4, IntakeKeeps
  <1>4. CASE DropLate(m)
    <2>1. /\ intake[m] # "dispatched" /\ intake' = [intake EXCEPT ![m] = "dropped"]
          /\ ledger' \in [Messages -> LedgerStates] /\ noFault
          /\ UNCHANGED <<rows, reply, drive, phase, pass, told, quiet>>
      BY <1>0, <1>4 DEF DropLate, noFault
    <2> QED  BY <1>0, <2>1, IntakeKeeps
  <1>5. CASE DrainFails(m)
    <2>1. /\ intake[m] # "dispatched" /\ intake' = [intake EXCEPT ![m] = "gone"]
          /\ ledger' \in [Messages -> LedgerStates] /\ Fault
          /\ UNCHANGED <<rows, reply, drive, phase, pass, told, quiet>>
      BY <1>0, <1>5 DEF DrainFails
    <2> QED  BY <1>0, <2>1, IntakeKeeps
  <1> QED  BY <1>1, <1>2, <1>3, <1>4, <1>5

\* A turn or a retry starts, and its row is running or was never written.
LEMMA LaunchKeeps ==
  ASSUME IInv, NEW m \in Messages, NEW k \in {"turn", "loop"}, NEW r \in Row,
         rows' = [rows EXCEPT ![m] = r],
         drive' = [drive EXCEPT ![m][k] = At("run", "none")],
         UNCHANGED <<reply, phase, pass>>,
         intake' = [intake EXCEPT ![m] = "dispatched"], Grows,
         r.status = "absent" => rows[m].status = "absent" /\ k = "turn",
         r.status # "absent" => r.destination = reply[m],
         r.delivered => rows[m].delivered,
         rows[m].delivered => r.delivered \/ drive[m]["resume"].pc = "idle",
         r.status \in {"absent", "running"},
         r.status = "running" => r.attempts < MaxAttempts
  PROVE  IInv'
  <1>0. /\ rows[m] \in Row /\ rows \in [Messages -> Row] /\ k \in Kinds
        /\ drive \in [Messages -> [Kinds -> Drive]]
        /\ intake \in [Messages -> IntakeStages] /\ "dispatched" \in IntakeStages
        /\ Born(m) /\ Shown(m) /\ Budget(m) /\ Owned(m)
    BY MessageFacts DEF IInv, TurnTypeOK, IntakeStages, Kinds
  <1>1. /\ rows' \in [Messages -> Row] /\ rows'[m] = r
        /\ \A n \in Messages \ {m} : rows'[n] = rows[n]
    BY <1>0
  <1>2. At("run", "none") \in Drive /\ At("run", "none").pc = "run"
    BY AtFacts DEF DrivePhases
  <1>3. /\ drive' \in [Messages -> [Kinds -> Drive]] /\ drive'[m][k] = At("run", "none")
        /\ \A j \in Kinds \ {k} : drive'[m][j] = drive[m][j]
        /\ \A n \in Messages \ {m} : drive'[n] = drive[n]
    BY <1>0, <1>2
  <1>4. /\ intake' \in [Messages -> IntakeStages] /\ intake'[m] = "dispatched"
        /\ \A n \in Messages \ {m} : intake'[n] = intake[n]
    BY <1>0
  <1>5. TurnTypeOK'  BY <1>1, <1>3, <1>4 DEF IInv, TurnTypeOK, Grows
  <1>6. \A n \in Messages : drive'[n]["resume"] = drive[n]["resume"]
    BY <1>3 DEF Kinds
  <1>7. Phased'  BY <1>6 DEF IInv, Phased
  <1>8. \A n \in Messages \ {m} : Sound(n)'
    BY <1>1, <1>3, <1>4, OtherKeeps DEF IInv, Grows
  <1>9. Sound(m)'
    <2>1. Born(m)'
      <3>1. k = "turn" => drive'[m]["loop"] = drive[m]["loop"]  BY <1>3 DEF Kinds
      <3> QED  BY <1>0, <1>1, <1>4, <1>6, <3>1 DEF Born
    <2>2. Shown(m)'
      <3>1. \A j \in Kinds : drive'[m][j].pc = "sent" => m \in told'
        BY <1>0, <1>2, <1>3 DEF Shown, Grows
      <3>2. rows'[m].delivered => m \in told'  BY <1>0, <1>1 DEF Shown, Grows
      <3>3. Completing(drive'[m]["resume"]) => rows'[m].delivered \/ "unproved" \in lapse'[m]
        BY <1>0, <1>1, <1>6 DEF Shown, Grows, Completing
      <3>4. Decided(drive'[m]["resume"])  BY <1>0, <1>6 DEF Shown
      <3> QED  BY <1>1, <3>1, <3>2, <3>3, <3>4 DEF Shown
    <2>3. Budget(m)'  BY <1>0, <1>1, <1>6 DEF Budget
    <2>4. Owned(m)'  BY <1>1 DEF Owned
    <2> QED  BY <2>1, <2>2, <2>3, <2>4 DEF Sound
  <1> QED  BY <1>5, <1>7, <1>8, <1>9 DEF IInv

\* _dispatch_turn
LEMMA DispatchKeeps ==
  ASSUME IInv, NEW m \in Messages, Dispatch(m)
  PROVE  IInv'
  <1> DEFINE x == NewRow("running", reply[m], {}, NoParent)
             r == Timeless(x)
  <1>1. /\ rows[m] \in Row /\ rows \in [Messages -> Row] /\ Born(m)
        /\ reply[m] \in Destinations
    BY MessageFacts, RecoveryAssumption DEF IInv, TurnTypeOK, Destinations
  <1>2. /\ intake[m] # "dispatched" /\ intake' = [intake EXCEPT ![m] = "dispatched"]
        /\ drive' = [drive EXCEPT ![m]["turn"] = At("run", "none")]
        /\ UNCHANGED <<ledger, reply, phase, pass, told, quiet>>
        /\ noFault \/ Lapse(m, "unlogged")
        /\ rows' = [rows EXCEPT ![m] = r] \/ rows' = rows
    BY DEF Dispatch, Launches, Put
  <1>3. Grows
    <2>1. "unlogged" \in Lapses  BY DEF Lapses
    <2> QED  BY <1>2, <2>1, FaultsGrow DEF IInv, TurnTypeOK
  <1>4. rows[m].status = "absent" /\ drive[m]["resume"].pc = "idle"
    BY <1>1, <1>2 DEF Born
  <1>5. /\ x \in Row /\ x.status = "running" /\ x.destination = reply[m]
        /\ x.attempts = 0 /\ ~x.delivered
    BY <1>1, NewRowFacts, WrittenConstants
  <1> HIDE DEF x
  <1>6. /\ r \in Row /\ r.status = "running" /\ r.destination = reply[m] /\ ~r.delivered
        /\ r.attempts < MaxAttempts
    BY <1>5, TimelessFacts, StoreAssumption DEF Carried
  <1> HIDE DEF r
  <1>7. CASE rows' = [rows EXCEPT ![m] = r]
    BY <1>2, <1>3, <1>4, <1>6, <1>7, LaunchKeeps
  <1>8. CASE rows' = rows
    <2>1. rows' = [rows EXCEPT ![m] = rows[m]]  BY <1>1, <1>8
    <2> QED  BY <1>1, <1>2, <1>3, <1>4, <2>1, LaunchKeeps
  <1> QED  BY <1>2, <1>7, <1>8

\* claim
LEMMA LoopClaimsKeeps ==
  ASSUME IInv, NEW m \in Messages, LoopClaims(m)
  PROVE  IInv'
  <1> DEFINE r == Timeless(Claimed(rows[m]))
  <1>1. /\ rows[m] \in Row /\ Born(m) /\ Budget(m)
        /\ intake \in [Messages -> IntakeStages]
    BY MessageFacts DEF IInv, TurnTypeOK
  <1>2. /\ rows[m].status = "pending" /\ rows' = [rows EXCEPT ![m] = r]
        /\ drive' = [drive EXCEPT ![m]["loop"] = At("run", "none")]
        /\ UNCHANGED <<reply, intake, phase, pass, ledger, told, quiet, lapse, faults>>
    BY DEF LoopClaims, Claimable, Put, Launches, driveFrame
  <1>3. Grows  BY <1>2, FaultsGrow DEF IInv, TurnTypeOK
  <1>4. /\ Claimed(rows[m]) \in Row /\ Claimed(rows[m]).status = "running"
        /\ Claimed(rows[m]).destination = rows[m].destination
        /\ Claimed(rows[m]).delivered = rows[m].delivered
        /\ Claimed(rows[m]).attempts = rows[m].attempts
    BY <1>1, ClaimedFacts DEF Carried
  <1>5. rows[m].destination = reply[m] /\ intake[m] = "dispatched"
        /\ rows[m].attempts < MaxAttempts
    BY <1>1, <1>2 DEF Born, Budget
  <1>6. /\ r \in Row /\ r.status = "running" /\ r.destination = reply[m]
        /\ r.delivered = rows[m].delivered /\ r.attempts < MaxAttempts
    BY <1>4, <1>5, TimelessFacts DEF Carried
  <1>7. intake' = [intake EXCEPT ![m] = "dispatched"]  BY <1>1, <1>2, <1>5
  <1> HIDE DEF r
  <1> QED  BY <1>2, <1>3, <1>6, <1>7, LaunchKeeps

\* reclaim_expired, on every row whose lease is over.
LEMMA LoopReclaimsKeeps ==
  ASSUME IInv, LoopReclaims
  PROVE  IInv'
  <1>1. /\ rows' = [m \in Messages |-> IF LeaseExpired(rows[m])
                                       THEN Timeless(Reclaimed(rows[m])) ELSE rows[m]]
        /\ UNCHANGED <<reply, intake, phase, pass, drive, ledger, told, quiet, lapse, faults>>
    BY DEF LoopReclaims, driveFrame
  <1>2. ASSUME NEW m \in Messages PROVE rows'[m] \in Row /\ Sound(m)'
    <2>0. rows[m] \in Row /\ Born(m) /\ Shown(m) /\ Budget(m) /\ Sound(m)
      BY MessageFacts DEF Sound
    <2>1. CASE ~LeaseExpired(rows[m])
      <3>1. rows'[m] = rows[m]  BY <1>1, <2>1
      <3> QED  BY <1>1, <2>0, <3>1, OtherKeeps
    <2>2. CASE LeaseExpired(rows[m])
      <3> DEFINE r == Timeless(Reclaimed(rows[m]))
      <3>1. rows'[m] = r /\ rows[m].status = "running"  BY <1>1, <2>2 DEF LeaseExpired
      <3>2. Reclaimed(rows[m]) \in Row  BY <2>0, ReclaimedFacts DEF Carried
      <3>3. /\ r \in Row /\ r.status \in {"dead_letter", "pending"}
            /\ r.destination = rows[m].destination /\ r.delivered = rows[m].delivered
            /\ r.status = "pending" => r.attempts < MaxAttempts
        BY <2>0, <3>2, ReclaimedFacts, TimelessFacts DEF Carried
      <3> HIDE DEF r
      <3>4. Born(m)'  BY <1>1, <2>0, <3>1, <3>3 DEF Born
      <3>5. Shown(m)'  BY <1>1, <2>0, <3>1, <3>3 DEF Shown
      <3>6. Budget(m)'  BY <1>1, <2>0, <3>1, <3>3 DEF Budget
      <3>7. Owned(m)'  BY <1>1, <3>1, <3>3 DEF Owned
      <3> QED  BY <3>1, <3>3, <3>4, <3>5, <3>6, <3>7 DEF Sound
    <2> QED  BY <2>1, <2>2
  <1>3. rows' \in [Messages -> Row]  BY <1>1, <1>2
  <1>4. TurnTypeOK'  BY <1>1, <1>3 DEF IInv, TurnTypeOK
  <1>5. Phased'  BY <1>1 DEF IInv, Phased
  <1> QED  BY <1>2, <1>4, <1>5 DEF IInv

(***************************************************************************)
(* The process and the rescuers.                                           *)
(***************************************************************************)
\* Who is at work when a rescuer has something in hand or still to claim.
LEMMA RescuerFacts ==
  ASSUME IInv, NEW a \in Rescuers, pass[a] # NoPass
  PROVE  /\ pass \in [Rescuers -> Pass] /\ pass[a].todo \subseteq Messages
         /\ pass[a].cur \in 0..MaxTask
         /\ phase \in {"claiming", "up"}
         /\ a = "boot" => phase = "claiming"
         /\ a = "sweep" => phase = "up" /\ pass["boot"] = NoPass
  BY DEF IInv, TurnTypeOK, Phased, Rescuers, Pass, Phases

\* TaskLoop.start
LEMMA StartServingKeeps ==
  ASSUME IInv, StartServing
  PROVE  IInv'
  <1>1. /\ phase = "off" /\ phase' = "serving"
        /\ UNCHANGED <<ledger, reply, intake, told, quiet, rows, drive, pass, lapse, faults>>
    BY DEF StartServing, bootFrame
  <1>2. TurnTypeOK'  BY <1>1 DEF IInv, TurnTypeOK, Phases
  <1>3. Phased'  BY <1>1 DEF IInv, Phased
  <1>4. ASSUME NEW m \in Messages PROVE Sound(m)'
    <2>0. Born(m) /\ Shown(m) /\ Budget(m)  BY MessageFacts
    <2>1. Born(m)'  BY <1>1, <2>0 DEF Born
    <2>2. Shown(m)'  BY <1>1, <2>0 DEF Shown
    <2>3. Budget(m)'  BY <1>1, <2>0 DEF Budget
    <2>4. Owned(m)'  BY <1>1 DEF Owned
    <2> QED  BY <2>1, <2>2, <2>3, <2>4 DEF Sound
  <1> QED  BY <1>2, <1>3, <1>4 DEF IInv

\* recover lists every recovering row: each of them has attempts left.
LEMMA ListOrphansKeeps ==
  ASSUME IInv, ListOrphans
  PROVE  IInv'
  <1> DEFINE L == Listed({"running", "recovering"})
  <1>1. /\ phase = "serving" /\ phase' = "claiming"
        /\ pass' = [pass EXCEPT !["boot"].todo = L]
        /\ UNCHANGED <<ledger, reply, intake, told, quiet, rows, drive, lapse, faults>>
    BY DEF ListOrphans, bootFrame
  <1>2. /\ L \subseteq Messages
        /\ \A m \in Messages : m \in L <=> /\ rows[m].status \in {"running", "recovering"}
                                           /\ rows[m].attempts < MaxAttempts
    BY DEF Listed
  <1> HIDE DEF L
  <1>3. /\ pass["boot"] = NoPass /\ pass["sweep"] = NoPass
        /\ \A m \in Messages : drive[m]["resume"].pc = "idle"
        /\ pass \in [Rescuers -> Pass]
    BY <1>1 DEF IInv, Phased, TurnTypeOK
  <1>4. /\ pass' \in [Rescuers -> Pass] /\ pass'["boot"].todo = L
        /\ pass'["boot"].cur = 0 /\ pass'["sweep"] = NoPass
    BY <1>1, <1>2, <1>3 DEF Rescuers, Pass, NoPass
  <1>5. TurnTypeOK'  BY <1>1, <1>4 DEF IInv, TurnTypeOK, Phases
  <1>6. Phased'  BY <1>1, <1>4 DEF Phased
  <1>7. ASSUME NEW m \in Messages PROVE Sound(m)'
    <2>0. Born(m) /\ Shown(m) /\ Budget(m) /\ m # 0  BY MessageFacts DEF Messages, Tasks
    <2>1. Born(m)'
      <3>1. rows[m].status = "absent" => m \notin L  BY <1>2
      <3>2. \A a \in Rescuers : rows[m].status = "absent" =>
              m \notin pass'[a].todo /\ pass'[a].cur # m
        BY <1>4, <2>0, <3>1 DEF Rescuers, NoPass
      <3> QED  BY <1>1, <2>0, <3>2 DEF Born
    <2>2. Shown(m)'  BY <1>1, <2>0 DEF Shown
    <2>3. Budget(m)'  BY <1>1, <1>2, <1>3, <1>4, <2>0 DEF Budget
    <2>4. Owned(m)'  BY <1>1, <1>2, <1>4, <2>0 DEF Owned, Budget
    <2> QED  BY <2>1, <2>2, <2>3, <2>4 DEF Sound
  <1> QED  BY <1>5, <1>6, <1>7 DEF IInv

\* The sweep lists the running rows that have attempts left.
LEMMA SweepListsKeeps ==
  ASSUME IInv, SweepLists
  PROVE  IInv'
  <1>1. /\ phase = "up" /\ pass["sweep"] = NoPass
        /\ pass' = [pass EXCEPT !["sweep"].todo = Stale]
        /\ UNCHANGED <<ledger, reply, intake, told, quiet, rows, drive, phase, lapse, faults>>
    BY DEF SweepLists, bootFrame
  <1>2. Stale \subseteq Messages /\ \A m \in Stale : rows[m].status = "running"
    BY DEF Stale, Listed
  <1>3. pass \in [Rescuers -> Pass]  BY DEF IInv, TurnTypeOK
  <1>4. /\ pass' \in [Rescuers -> Pass] /\ pass'["sweep"].todo = Stale
        /\ pass'["sweep"].cur = 0 /\ pass'["boot"] = pass["boot"]
    BY <1>1, <1>2, <1>3 DEF Rescuers, Pass, NoPass
  <1>5. TurnTypeOK'  BY <1>1, <1>4 DEF IInv, TurnTypeOK
  <1>6. Phased'  BY <1>1, <1>4 DEF IInv, Phased
  <1>7. ASSUME NEW m \in Messages PROVE Sound(m)'
    <2>0. Born(m) /\ Shown(m) /\ Budget(m) /\ Owned(m) /\ m # 0
      BY MessageFacts DEF Messages, Tasks
    <2>1. Born(m)'
      <3>1. \A a \in Rescuers : rows[m].status = "absent" =>
              m \notin pass'[a].todo /\ pass'[a].cur # m
        BY <1>2, <1>4, <2>0 DEF Rescuers, Born
      <3> QED  BY <1>1, <2>0, <3>1 DEF Born
    <2>2. Shown(m)'  BY <1>1, <2>0 DEF Shown
    <2>3. Budget(m)'  BY <1>1, <1>4, <2>0 DEF Budget
    <2>4. Owned(m)'
      <3>1. \A a \in Rescuers : pass[a].cur = m => pass'[a].cur = m
        BY <1>1, <1>4, <2>0 DEF Rescuers, NoPass
      <3> QED  BY <1>1, <2>0, <3>1 DEF Owned
    <2> QED  BY <2>1, <2>2, <2>3, <2>4 DEF Sound
  <1> QED  BY <1>5, <1>6, <1>7 DEF IInv

\* A rescuer puts its list or its claim down: what the invariant says of a message that
\* is neither the one it held nor the one it took.
LEMMA BystanderKeeps ==
  ASSUME IInv, NEW n \in Messages, NEW a \in Rescuers,
         rows'[n] = rows[n], drive'[n] = drive[n],
         UNCHANGED <<reply, intake, phase, told, quiet>>, lapse[n] \subseteq lapse'[n],
         pass' \in [Rescuers -> Pass],
         \A b \in Rescuers \ {a} : pass'[b] = pass[b],
         n \in pass'[a].todo <=> n \in pass[a].todo,
         pass'[a].cur = n <=> pass[a].cur = n
  PROVE  Sound(n)'
  <1>0. Born(n) /\ Shown(n) /\ Budget(n) /\ Owned(n)  BY MessageFacts
  <1>1. \A b \in Rescuers : /\ n \in pass'[b].todo <=> n \in pass[b].todo
                            /\ pass'[b].cur = n <=> pass[b].cur = n
    OBVIOUS
  <1>2. "boot" \in Rescuers  BY DEF Rescuers
  <1>3. Born(n)'  BY <1>0, <1>1 DEF Born
  <1>4. Shown(n)'  BY <1>0 DEF Shown
  <1>5. Budget(n)'  BY <1>0, <1>1, <1>2 DEF Budget
  <1>6. Owned(n)'  BY <1>0, <1>1, <1>2 DEF Owned
  <1> QED  BY <1>3, <1>4, <1>5, <1>6 DEF Sound

\* claim_for_recovery: the claim is the rescuer's until the row runs again.
LEMMA ReclaimKeeps ==
  ASSUME IInv, NEW a \in Rescuers, NEW m \in pass[a].todo, Reclaim(a, m)
  PROVE  IInv'
  <1>0. pass[a].cur = 0 /\ pass[a] # NoPass  BY DEF Reclaim, NoPass
  <1>1. /\ m \in Messages /\ pass \in [Rescuers -> Pass] /\ pass[a] \in Pass
        /\ phase \in {"claiming", "up"}
        /\ a = "boot" => phase = "claiming"
        /\ a = "sweep" => phase = "up" /\ pass["boot"] = NoPass
    BY <1>0, RescuerFacts
  <1>2. /\ rows[m] \in Row /\ rows \in [Messages -> Row] /\ Born(m) /\ Shown(m)
        /\ Budget(m) /\ Owned(m)
    BY <1>1, MessageFacts
  <1>3. UNCHANGED <<ledger, reply, intake, told, quiet, drive, phase, lapse, faults>>
    BY DEF Reclaim, bootFrame
  <1>4. ASSUME pass' \in [Rescuers -> Pass], pass'[a].todo = pass[a].todo \ {m},
               \A b \in Rescuers \ {a} : pass'[b] = pass[b],
               rows' \in [Messages -> Row], Sound(m)',
               pass'[a].cur \in {0, m},
               \A n \in Messages \ {m} : rows'[n] = rows[n]
        PROVE  IInv'
    <2>1. TurnTypeOK'  BY <1>3, <1>4 DEF IInv, TurnTypeOK
    <2>2. Phased'
      <3>1. a = "boot" => pass'["sweep"] = pass["sweep"]  BY <1>4 DEF Rescuers
      <3>2. a = "sweep" => pass'["boot"] = pass["boot"]  BY <1>4 DEF Rescuers
      <3> QED  BY <1>1, <1>3, <3>1, <3>2 DEF IInv, Phased, Rescuers
    <2>3. ASSUME NEW n \in Messages \ {m} PROVE Sound(n)'
      <3>1. n # 0 /\ (n \in pass'[a].todo <=> n \in pass[a].todo)
        BY <1>4 DEF Messages, Tasks
      <3>2. pass'[a].cur = n <=> pass[a].cur = n  BY <1>0, <1>4, <3>1
      <3> QED  BY <1>3, <1>4, <3>1, <3>2, BystanderKeeps
    <2> QED  BY <1>4, <2>1, <2>2, <2>3 DEF IInv
  <1>5. CASE /\ rows[m].status \notin {"running", "recovering"}
             /\ pass' = [pass EXCEPT ![a].todo = @ \ {m}]
             /\ rows' = rows
    <2>1. /\ pass' \in [Rescuers -> Pass] /\ pass'[a].todo = pass[a].todo \ {m}
          /\ pass'[a].cur = 0 /\ \A b \in Rescuers \ {a} : pass'[b] = pass[b]
      BY <1>0, <1>1, <1>5 DEF Pass
    <2>2. \A b \in Rescuers : pass'[b].todo \subseteq pass[b].todo /\ pass'[b].cur = pass[b].cur
      BY <1>0, <2>1
    <2>3. "boot" \in Rescuers  BY DEF Rescuers
    <2>4. Born(m)'  BY <1>2, <1>3, <1>5, <2>2 DEF Born
    <2>5. Shown(m)'  BY <1>2, <1>3, <1>5 DEF Shown
    <2>6. Budget(m)'  BY <1>2, <1>3, <1>5, <2>2, <2>3 DEF Budget
    <2>7. Owned(m)'  BY <1>5 DEF Owned
    <2>8. Sound(m)'  BY <2>4, <2>5, <2>6, <2>7 DEF Sound
    <2> QED  BY <1>2, <1>4, <1>5, <2>1, <2>8
  <1>6. CASE /\ rows[m].status \in {"running", "recovering"}
             /\ Put(m, ClaimedForRecovery(rows[m], a = "sweep"))
             /\ pass' = [pass EXCEPT ![a] = [todo |-> @.todo \ {m}, cur |-> m]]
    <2> DEFINE x == ClaimedForRecovery(rows[m], a = "sweep")
               r == Timeless(x)
    <2>1. /\ pass' \in [Rescuers -> Pass] /\ pass'[a].todo = pass[a].todo \ {m}
          /\ pass'[a].cur = m /\ \A b \in Rescuers \ {a} : pass'[b] = pass[b]
      BY <1>1, <1>6 DEF Pass, Messages, Tasks
    <2>2. /\ Carried(rows[m], x) /\ x.status \in {"dead_letter", "recovering"}
          /\ x.status = "recovering" => x.attempts < MaxAttempts
      <3>1. CASE a = "sweep"  BY <1>2, <3>1, ClaimedForRecoveryFacts
      <3>2. CASE a = "boot"
        <4>1. rows[m].attempts < MaxAttempts  BY <1>2, <1>6, <3>2 DEF Budget
        <4>2. (a = "sweep") = FALSE  BY <3>2
        <4> QED  BY <1>2, <4>1, <4>2, ClaimedForRecoveryFacts
      <3> QED  BY <3>1, <3>2 DEF Rescuers
    <2> HIDE DEF x
    <2>3. /\ r \in Row /\ r.status \in {"dead_letter", "recovering"}
          /\ r.destination = rows[m].destination /\ r.delivered = rows[m].delivered
          /\ r.status = "recovering" => r.attempts < MaxAttempts
      BY <2>2, TimelessFacts DEF Carried
    <2> HIDE DEF r
    <2>4. /\ rows' \in [Messages -> Row] /\ rows'[m] = r
          /\ \A n \in Messages \ {m} : rows'[n] = rows[n]
      <3>1. rows' = [rows EXCEPT ![m] = r]  BY <1>6 DEF Put, r, x
      <3> QED  BY <1>1, <1>2, <2>3, <3>1
    <2>5. m \notin pass'["boot"].todo
      <3>1. CASE a = "boot"  BY <2>1, <3>1
      <3>2. CASE a = "sweep"
        <4>1. pass'["boot"] = pass["boot"]  BY <2>1, <3>2 DEF Rescuers
        <4> QED  BY <1>1, <3>2, <4>1 DEF NoPass
      <3> QED  BY <3>1, <3>2 DEF Rescuers
    <2>6. Born(m)'  BY <1>2, <1>3, <1>6, <2>3, <2>4 DEF Born
    <2>7. Shown(m)'  BY <1>2, <1>3, <2>3, <2>4 DEF Shown
    <2>8. Budget(m)'  BY <2>3, <2>4, <2>5 DEF Budget
    <2>9. Owned(m)'  BY <2>1 DEF Owned
    <2>10. Sound(m)'  BY <2>6, <2>7, <2>8, <2>9 DEF Sound
    <2> QED  BY <1>4, <2>1, <2>4, <2>10
  <1> QED  BY <1>5, <1>6 DEF Reclaim

\* _return_to_running and the launch of the drive.
LEMMA RebuiltKeeps ==
  ASSUME IInv, NEW a \in Rescuers, Rebuilt(a)
  PROVE  IInv'
  <1>0. pass[a].cur # 0 /\ pass[a] # NoPass  BY DEF Rebuilt, NoPass
  <1>p. PICK m \in Messages : pass[a].cur = m
    BY <1>0, RescuerFacts DEF Messages, Tasks
  <1> DEFINE x == ReturnedToRunning(rows[m])
             r == Timeless(x)
  <1>1. /\ pass \in [Rescuers -> Pass] /\ pass[a] \in Pass
        /\ phase \in {"claiming", "up"}
        /\ a = "boot" => phase = "claiming"
        /\ a = "sweep" => phase = "up" /\ pass["boot"] = NoPass
    BY <1>0, RescuerFacts
  <1>2. /\ rows[m] \in Row /\ rows \in [Messages -> Row] /\ Born(m) /\ Shown(m)
        /\ Budget(m) /\ drive \in [Messages -> [Kinds -> Drive]]
    BY <1>1, MessageFacts
  <1>3. /\ UNCHANGED <<ledger, reply, intake, told, quiet, phase, lapse, faults>>
        /\ rows' = [rows EXCEPT ![m] = r]
        /\ drive' = [drive EXCEPT ![m]["resume"] = At("run", "none")]
        /\ pass' = [pass EXCEPT ![a].cur = 0]
    BY <1>p DEF Rebuilt, bootFrame, Put, Launches
  <1>4. /\ pass' \in [Rescuers -> Pass] /\ pass'[a].todo = pass[a].todo
        /\ pass'[a].cur = 0 /\ \A b \in Rescuers \ {a} : pass'[b] = pass[b]
    BY <1>1, <1>3, StoreAssumption DEF Pass
  <1>5. /\ r \in Row /\ r.status = "running" /\ r.destination = rows[m].destination
        /\ r.delivered = rows[m].delivered
    <2>1. Carried(rows[m], x) /\ x.status = "running"
      BY <1>2, StatusFacts, WrittenConstants DEF ReturnedToRunning
    <2> HIDE DEF x
    <2> QED  BY <2>1, TimelessFacts DEF Carried
  <1> HIDE DEF r, x
  <1>6. /\ rows' \in [Messages -> Row] /\ rows'[m] = r
        /\ \A n \in Messages \ {m} : rows'[n] = rows[n]
    BY <1>1, <1>2, <1>3, <1>5
  <1>7. At("run", "none") \in Drive /\ At("run", "none").pc = "run"
    BY AtFacts DEF DrivePhases
  <1>8. /\ drive' \in [Messages -> [Kinds -> Drive]]
        /\ drive'[m]["resume"] = At("run", "none")
        /\ \A k \in Kinds \ {"resume"} : drive'[m][k] = drive[m][k]
        /\ \A n \in Messages \ {m} : drive'[n] = drive[n]
    BY <1>1, <1>2, <1>3, <1>7 DEF Kinds
  <1>9. TurnTypeOK'  BY <1>3, <1>4, <1>6, <1>8 DEF IInv, TurnTypeOK
  <1>10. Phased'
    <2>1. a = "boot" => pass'["sweep"] = pass["sweep"]  BY <1>4 DEF Rescuers
    <2>2. a = "sweep" => pass'["boot"] = pass["boot"]  BY <1>4 DEF Rescuers
    <2> QED  BY <1>1, <1>3, <2>1, <2>2 DEF IInv, Phased, Rescuers
  <1>11. ASSUME NEW n \in Messages \ {m} PROVE Sound(n)'
    <2>1. n # 0 /\ pass[a].cur # n  BY <1>p DEF Messages, Tasks
    <2> QED  BY <1>3, <1>4, <1>6, <1>8, <2>1, BystanderKeeps
  <1>12. Sound(m)'
    <2>1. rows[m].status # "absent"  BY <1>p, <1>2 DEF Born
    <2>2. m \notin pass'["boot"].todo
      <3>1. CASE a = "boot"  BY <1>p, <1>2, <1>4, <3>1 DEF Budget
      <3>2. CASE a = "sweep"
        <4>1. pass'["boot"] = pass["boot"]  BY <1>4, <3>2 DEF Rescuers
        <4> QED  BY <1>1, <3>2, <4>1 DEF NoPass
      <3> QED  BY <3>1, <3>2 DEF Rescuers
    <2>3. Born(m)'  BY <1>2, <1>3, <1>5, <1>6, <2>1 DEF Born
    <2>4. Shown(m)'
      <3>1. \A k \in Kinds : drive'[m][k].pc = "sent" => m \in told'
        BY <1>2, <1>3, <1>7, <1>8 DEF Shown
      <3>2. ~Completing(drive'[m]["resume"]) /\ Decided(drive'[m]["resume"])
        BY <1>7, <1>8 DEF Completing, Decided
      <3> QED  BY <1>2, <1>3, <1>5, <1>6, <3>1, <3>2 DEF Shown
    <2>5. Budget(m)'  BY <1>5, <1>6, <2>2 DEF Budget
    <2>6. Owned(m)'  BY <1>5, <1>6 DEF Owned
    <2> QED  BY <2>3, <2>4, <2>5, <2>6 DEF Sound
  <1> QED  BY <1>9, <1>10, <1>11, <1>12 DEF IInv

\* The state of a claimed row cannot be rebuilt: the lapse is recorded.
LEMMA RebuildFailsKeeps ==
  ASSUME IInv, NEW a \in Rescuers, RebuildFails(a)
  PROVE  IInv'
  <1>0. pass[a].cur # 0 /\ pass[a] # NoPass /\ "unbuilt" \in Lapses
    BY DEF RebuildFails, NoPass, Lapses
  <1>p. PICK m \in Messages : pass[a].cur = m
    BY <1>0, RescuerFacts DEF Messages, Tasks
  <1>1. /\ pass \in [Rescuers -> Pass] /\ pass[a] \in Pass
        /\ a = "boot" => phase = "claiming"
        /\ a = "sweep" => phase = "up" /\ pass["boot"] = NoPass
    BY <1>0, RescuerFacts
  <1>2. Born(m) /\ Shown(m) /\ Budget(m) /\ lapse \in [Messages -> SUBSET Lapses]
    BY <1>1, MessageFacts DEF IInv, TurnTypeOK
  <1>3. /\ UNCHANGED <<ledger, reply, intake, told, quiet, rows, drive, phase>>
        /\ Lapse(m, "unbuilt") /\ pass' = [pass EXCEPT ![a].cur = 0]
    BY <1>p DEF RebuildFails, bootFrame
  <1>4. Grows  BY <1>0, <1>1, <1>3, FaultsGrow DEF IInv, TurnTypeOK
  <1>5. "unbuilt" \in lapse'[m]  BY <1>1, <1>2, <1>3 DEF Lapse
  <1>6. /\ pass' \in [Rescuers -> Pass] /\ pass'[a].todo = pass[a].todo
        /\ pass'[a].cur = 0 /\ \A b \in Rescuers \ {a} : pass'[b] = pass[b]
    BY <1>1, <1>3, StoreAssumption DEF Pass
  <1>7. TurnTypeOK'  BY <1>3, <1>4, <1>6 DEF IInv, TurnTypeOK, Grows
  <1>8. Phased'
    <2>1. a = "boot" => pass'["sweep"] = pass["sweep"]  BY <1>6 DEF Rescuers
    <2>2. a = "sweep" => pass'["boot"] = pass["boot"]  BY <1>6 DEF Rescuers
    <2> QED  BY <1>1, <1>3, <2>1, <2>2 DEF IInv, Phased, Rescuers
  <1>9. ASSUME NEW n \in Messages \ {m} PROVE Sound(n)'
    <2>1. n # 0 /\ pass[a].cur # n  BY <1>p DEF Messages, Tasks
    <2> QED  BY <1>3, <1>4, <1>6, <2>1, BystanderKeeps DEF Grows
  <1>10. Sound(m)'
    <2>1. m # 0 /\ \A b \in Rescuers : /\ pass'[b].todo = pass[b].todo
                                       /\ pass'[b].cur \in {0, pass[b].cur}
      BY <1>0, <1>p, <1>6
    <2>2. "boot" \in Rescuers  BY DEF Rescuers
    <2>3. Born(m)'  BY <1>2, <1>3, <2>1 DEF Born
    <2>4. Shown(m)'  BY <1>1, <1>2, <1>3, <1>4 DEF Shown, Grows
    <2>5. Budget(m)'  BY <1>2, <1>3, <2>1, <2>2 DEF Budget
    <2>6. Owned(m)'  BY <1>5 DEF Owned
    <2> QED  BY <2>3, <2>4, <2>5, <2>6 DEF Sound
  <1> QED  BY <1>7, <1>8, <1>9, <1>10 DEF IInv

\* recover_pending_messages, and the scheduler's start: boot recovery has claimed
\* every row that it listed.
LEMMA RedriveKeeps ==
  ASSUME IInv, RedriveMessages
  PROVE  IInv'
  <1>1. /\ phase = "claiming" /\ pass["boot"] = NoPass /\ phase' = "up"
        /\ drive' = [m \in Messages |->
                       IF m \in Pending THEN [drive[m] EXCEPT !["redrive"] = At("run", "none")]
                                        ELSE drive[m]]
        /\ UNCHANGED <<ledger, reply, intake, told, quiet, rows, pass, lapse, faults>>
    BY DEF RedriveMessages, bootFrame
  <1>2. At("run", "none") \in Drive /\ At("run", "none").pc = "run"
    BY AtFacts DEF DrivePhases
  <1>3. ASSUME NEW m \in Messages
        PROVE  /\ drive'[m] \in [Kinds -> Drive]
               /\ \A k \in Kinds \ {"redrive"} : drive'[m][k] = drive[m][k]
               /\ drive'[m]["redrive"] \in {drive[m]["redrive"], At("run", "none")}
    <2>1. drive[m] \in [Kinds -> Drive]  BY MessageFacts
    <2>2. CASE m \in Pending
      <3>1. drive'[m] = [drive[m] EXCEPT !["redrive"] = At("run", "none")]
        BY <1>1, <2>2
      <3> QED  BY <1>2, <2>1, <3>1 DEF Kinds
    <2>3. CASE m \notin Pending
      <3>1. drive'[m] = drive[m]  BY <1>1, <2>3
      <3> QED  BY <2>1, <3>1
    <2> QED  BY <2>2, <2>3
  <1>4. drive' \in [Messages -> [Kinds -> Drive]]  BY <1>1, <1>3
  <1>5. TurnTypeOK'  BY <1>1, <1>4 DEF IInv, TurnTypeOK, Phases
  <1>6. Phased'  BY <1>1 DEF Phased
  <1>7. ASSUME NEW m \in Messages PROVE Sound(m)'
    <2>0. Born(m) /\ Shown(m) /\ Budget(m) /\ Owned(m)  BY MessageFacts
    <2>1. drive'[m]["resume"] = drive[m]["resume"] /\ drive'[m]["loop"] = drive[m]["loop"]
      BY <1>3 DEF Kinds
    <2>2. Born(m)'  BY <1>1, <2>0, <2>1 DEF Born
    <2>3. Shown(m)'
      <3>1. \A k \in Kinds : drive'[m][k].pc = "sent" => m \in told'
        BY <1>1, <1>2, <1>3, <2>0 DEF Shown, Kinds
      <3> QED  BY <1>1, <2>0, <2>1, <3>1 DEF Shown
    <2>4. Budget(m)'  BY <1>1, <2>0, <2>1 DEF Budget
    <2>5. Owned(m)'  BY <1>1, <2>0 DEF Owned, NoPass
    <2> QED  BY <2>2, <2>3, <2>4, <2>5 DEF Sound
  <1> QED  BY <1>5, <1>6, <1>7 DEF IInv

\* The process dies: what is left is what the two tables say.
LEMMA CrashKeeps ==
  ASSUME IInv, Crash
  PROVE  IInv'
  <1>1. /\ phase' = "off"
        /\ drive' = [m \in Messages |-> [k \in Kinds |-> NoDrive]]
        /\ pass' = [a \in Rescuers |-> NoPass]
        /\ intake' = [m \in Messages |-> IF intake[m] \in {"received", "queued", "late"}
                                         THEN "gone" ELSE intake[m]]
        /\ UNCHANGED <<rows, ledger, reply, told, quiet, lapse>>
    BY DEF Crash
  <1>2. faults' \in 0..MaxFaults
    BY RecoveryAssumption DEF Crash, IInv, TurnTypeOK
  <1>3. intake' \in [Messages -> IntakeStages]
    BY <1>1 DEF IInv, TurnTypeOK, IntakeStages
  <1>4. drive' \in [Messages -> [Kinds -> Drive]]  BY <1>1, NoDriveFacts
  <1>5. NoPass \in Pass  BY StoreAssumption DEF Pass, NoPass
  <1>6. TurnTypeOK'
    BY <1>1, <1>2, <1>3, <1>4, <1>5 DEF IInv, TurnTypeOK, Phases
  <1>7. /\ \A m \in Messages, k \in Kinds : drive'[m][k].pc = "idle"
        /\ \A a \in Rescuers : pass'[a] = NoPass
        /\ {"resume", "loop"} \subseteq Kinds /\ Rescuers = {"boot", "sweep"}
    BY <1>1, NoDriveFacts DEF Kinds, Rescuers
  <1>8. Phased'  BY <1>1, <1>7 DEF Phased
  <1>9. ASSUME NEW m \in Messages PROVE Sound(m)'
    <2>0. Born(m) /\ Shown(m) /\ Budget(m) /\ m # 0  BY MessageFacts DEF Messages, Tasks
    <2>1. Born(m)'  BY <1>1, <1>7, <2>0 DEF Born, NoPass
    <2>2. Shown(m)'  BY <1>1, <1>7, <2>0 DEF Shown, Completing, Decided
    <2>3. Budget(m)'  BY <1>1, <1>7, <2>0 DEF Budget, NoPass
    <2>4. Owned(m)'  BY <1>1 DEF Owned
    <2> QED  BY <2>1, <2>2, <2>3, <2>4 DEF Sound
  <1> QED  BY <1>6, <1>8, <1>9 DEF IInv

(***************************************************************************)
(* The theorems.                                                           *)
(***************************************************************************)
\* No message has come, and nothing runs.
LEMMA InitIInv == Init => IInv
  <1> SUFFICES ASSUME Init PROVE IInv  OBVIOUS
  <1>1. NoRow \in Row /\ NoRow.status = "absent" /\ ~NoRow.delivered
    BY NewRowFacts, WrittenConstants DEF NoRow, Destinations
  <1>2. NoPass \in Pass  BY StoreAssumption DEF Pass, NoPass
  <1>3. TurnTypeOK
    BY <1>1, <1>2, NoDriveFacts, RecoveryAssumption
    DEF Init, TurnTypeOK, LedgerStates, IntakeStages, Phases
  <1>4. /\ \A m \in Messages : rows[m] = NoRow /\ m # 0
        /\ \A m \in Messages, k \in Kinds : drive[m][k].pc = "idle"
        /\ \A a \in Rescuers : pass[a] = NoPass
        /\ {"resume", "loop"} \subseteq Kinds /\ Rescuers = {"boot", "sweep"}
        /\ phase = "off"
    BY NoDriveFacts DEF Init, Kinds, Rescuers, Messages, Tasks
  <1>5. Phased  BY <1>4 DEF Phased
  <1>6. ASSUME NEW m \in Messages PROVE Sound(m)
    <2>1. Born(m)  BY <1>1, <1>4 DEF Born, NoPass
    <2>2. Shown(m)  BY <1>1, <1>4 DEF Shown, Completing, Decided
    <2>3. Budget(m)  BY <1>1, <1>4 DEF Budget, NoPass
    <2>4. Owned(m)  BY <1>4 DEF Owned
    <2> QED  BY <2>1, <2>2, <2>3, <2>4 DEF Sound
  <1> QED  BY <1>3, <1>5, <1>6 DEF IInv

\* Nothing happens.
LEMMA StutterKeeps == ASSUME IInv, UNCHANGED vars PROVE IInv'
  <1>1. /\ TurnTypeOK' /\ Phased'
        /\ UNCHANGED <<rows, drive, intake, reply, phase, pass, told, quiet, lapse>>
    BY DEF IInv, TurnTypeOK, Phased, vars
  <1>2. \A m \in Messages : Sound(m)'  BY <1>1, OtherKeeps DEF IInv
  <1> QED  BY <1>1, <1>2 DEF IInv

\* One step of any part of the system.
LEMMA Inductive == IInv /\ [Next]_vars => IInv'
  <1> SUFFICES ASSUME IInv, [Next]_vars PROVE IInv'  OBVIOUS
  <1>1. CASE \E m \in Messages : Receive(m) \/ IngressStep(m)
    BY <1>1, ReceiveKeeps, DispatchKeeps DEF IngressStep
  <1>2. CASE \E m \in Messages, k \in Kinds : DriveStep(m, k)
    BY <1>2, DriveStepKeeps
  <1>3. CASE \E a \in Rescuers : PassStep(a) \/ RebuildFails(a)
    BY <1>3, ReclaimKeeps, RebuiltKeeps, RebuildFailsKeeps DEF PassStep
  <1>4. CASE BootStep
    BY <1>4, StartServingKeeps, ListOrphansKeeps, RedriveKeeps DEF BootStep
  <1>5. CASE SweepLists  BY <1>5, SweepListsKeeps
  <1>6. CASE LoopStep  BY <1>6, LoopClaimsKeeps, LoopReclaimsKeeps DEF LoopStep
  <1>7. CASE Crash  BY <1>7, CrashKeeps
  <1>8. CASE UNCHANGED vars  BY <1>8, StutterKeeps
  <1> QED  BY <1>1, <1>2, <1>3, <1>4, <1>5, <1>6, <1>7, <1>8 DEF Next

\* What a message's row, its drives and the rescuers know of one another holds in
\* every reachable state, whatever crashes and exceptions come in between.
THEOREM TurnInvariant == Spec => []IInv
  BY InitIInv, Inductive, PTL DEF Spec

\* The ledger and the rows keep to their columns' values, the drives to their stages
\* and the faults to their bound, through every write of message_ledger_store.py and
\* of the tasks table.
THEOREM TurnTypes == Spec => []TurnTypeOK
  <1>1. IInv => TurnTypeOK  BY DEF IInv
  <1> QED  BY <1>1, TurnInvariant, PTL

\* update_status's delivery rule, with any number of drives, retries, resumes and
\* crashes over one row: a completed row was answered and has the proof, or its
\* answer had no addressee, or a drive had nothing to say, or _owes_delivery could not
\* read it.
THEOREM CompletedHasProofHolds == Spec => []CompletedHasProof
  <1>1. IInv => CompletedHasProof
    BY DEF IInv, Sound, Shown, CompletedHasProof
  <1> QED  BY <1>1, TurnInvariant, PTL

\* Once boot recovery is over, a row that claim_for_recovery left recovering is in
\* the hands of a rescuer, unless its reconstruction raised.
THEOREM RecoveringIsOwnedHolds == Spec => []RecoveringIsOwned
  <1>1. IInv => RecoveringIsOwned
    BY DEF IInv, Sound, Owned, RecoveringIsOwned
  <1> QED  BY <1>1, TurnInvariant, PTL
=============================================================================
