------------------------- MODULE DurableReActProofs -------------------------
(***************************************************************************)
(* Proofs about DurableReAct, for every number of drives, calls, rounds,   *)
(* restarts and crashes.                                                   *)
(***************************************************************************)
EXTENDS DurableReAct, TLAPS

\* Inside a round: the budget has been charged for it.
Charged == {"think", "act", "select", "insert", "exec", "commit", "save", "mark"}

\* In the loop, before this round's checkpoint is saved.
Working == {"top", "think", "act", "select", "insert", "exec", "commit", "save"}

\* What the bounds of the counters rest on.
CountersFit ==
  \A d \in Drives :
    /\ drive[d].pc \in Charged => drive[d].used > 0
    /\ drive[d].pc = "mark" => drive[d].round < MaxRounds

\* Holding(d): d wrote the intent of its key and has not yet left the guard.
Holding(d) == drive[d].pc \in {"exec", "commit"}

\* An effect happens only under an intent, and an intent has at most one drive
\* that will act on it.
IntentHeldOnce ==
  /\ \A k \in Keys : ledger[k] = "none" => ran[k] = 0
  /\ \A d \in Drives : drive[d].pc = "exec" =>
       ledger[KeyOf(d)] = "intent" /\ ran[KeyOf(d)] = 0
  /\ \A d \in Drives : drive[d].pc = "commit" =>
       ledger[KeyOf(d)] = "intent" /\ ran[KeyOf(d)] = 1
  /\ \A d, e \in Drives : Holding(d) /\ Holding(e) /\ d # e => KeyOf(d) # KeyOf(e)

\* As long as no drive was started beside a live one: there is one drive at
\* most, its key and its round are the ones the checkpoint tells a resumed
\* drive, and what it did in this round is in the ledger under this key.
Lineage ==
  /\ status = "none" => (\A d \in Drives : ~Live(d)) /\ did = {} /\ blob = NoBlob
  /\ ~overlap =>
       /\ \A d, e \in Drives : Live(d) /\ Live(e) => d = e
       /\ \A d \in Drives : drive[d].pc \in Working =>
            drive[d].step = blob.iteration + 1 /\ drive[d].round = blob.rounds
       /\ \A d \in Drives : drive[d].pc = "mark" =>
            drive[d].used = blob.iteration + 1 /\ drive[d].round + 1 = blob.rounds
       /\ \A r \in 0..MaxRounds, c \in Calls : <<r, c>> \in did =>
            \/ r < blob.rounds
            \/ r = blob.rounds /\ ledger[<<blob.iteration + 1, c>>] # "none"
       /\ \A d \in Drives : drive[d].pc = "exec" => CallOf(d) \notin did
       /\ twice = {}

IInv == TypeOK /\ CountersFit /\ IntentHeldOnce /\ Lineage

(***************************************************************************)
(* Facts about the constants and the record of a drive.                    *)
(***************************************************************************)
\* Every phase a step moves to is a phase, and the verdicts are verdicts.
LEMMA Phases ==
  /\ \A p \in {"idle", "claimed", "top", "think", "act", "select", "insert",
              "exec", "commit", "save", "mark", "end", "write"} : p \in DrivePhases
  /\ \A v \in {"completed", "failed", "corrupt", "parked"} : v \in Verdicts
  /\ \A s \in {"none", "running", "recovering", "pending", "parked", "ended"} :
       s \in TaskStatuses
  BY DEF DrivePhases, Verdicts, TaskStatuses

\* The fields of a drive.
LEMMA Fields ==
  ASSUME NEW r \in Drive
  PROVE  /\ r.pc \in DrivePhases /\ r.step \in 0..MaxIter /\ r.used \in 0..MaxIter
         /\ r.refunds \in 0..MaxIter /\ r.round \in 0..MaxRounds
         /\ r.left \in 0..MaxCalls /\ r.text \in BOOLEAN /\ r.call \in Calls
         /\ r.draft \in BOOLEAN /\ r.verdict \in Verdicts
  BY DEF Drive

\* A drive that has not begun.
LEMMA FreshIsDrive ==
  /\ Fresh \in Drive
  /\ Fresh.pc = "idle" /\ Fresh.used = 0
  BY Phases, ReActAssumption DEF Fresh, Drive

\* A drive in another phase is a drive.
LEMMA PhaseIsDrive ==
  ASSUME NEW r \in Drive, NEW p \in DrivePhases, NEW v \in Verdicts
  PROVE  /\ [r EXCEPT !.pc = p] \in Drive
         /\ [r EXCEPT !.pc = p, !.verdict = v] \in Drive
  BY DEF Drive

\* The drive that SaveCheckpoint leads to: one more round, the next step.
LEMMA MarkedIsDrive ==
  ASSUME TypeOK, CountersFit, NEW d \in Drives, drive[d].pc = "mark"
  PROVE  /\ Marked(d) \in Drive
         /\ Refunded(Marked(d)) \in Drive
         /\ Marked(d).step = drive[d].used /\ Marked(d).round = drive[d].round + 1
         /\ Refunded(Marked(d)).step = drive[d].used
         /\ Refunded(Marked(d)).round = drive[d].round + 1
  <1>1. drive[d] \in Drive  BY DEF TypeOK
  <1>2. drive[d].used > 0 /\ drive[d].round < MaxRounds
    BY DEF CountersFit, Charged
  <1>3. /\ IterIdx(d) + 1 = drive[d].used /\ drive[d].used \in 0..MaxIter
        /\ drive[d].round + 1 \in 0..MaxRounds
    BY <1>1, <1>2, Fields, ReActAssumption DEF IterIdx
  <1>4. /\ Marked(d) \in Drive /\ Marked(d).used = drive[d].used
        /\ Marked(d).step = drive[d].used /\ Marked(d).round = drive[d].round + 1
        /\ Marked(d).refunds = drive[d].refunds
    BY <1>1, <1>3 DEF Marked, Drive
  <1>5. /\ Refunded(Marked(d)) \in Drive
        /\ Refunded(Marked(d)).step = drive[d].used
        /\ Refunded(Marked(d)).round = drive[d].round + 1
    <2>1. drive[d].used - 1 \in 0..MaxIter
      BY <1>2, <1>3, ReActAssumption
    <2>2. CASE Marked(d).refunds < MaxIter
      <3>1. Marked(d).refunds + 1 \in 0..MaxIter
        BY <2>2, <1>1, <1>4, Fields, ReActAssumption
      <3> QED  BY <3>1, <2>1, <2>2, <1>4 DEF Refunded, Drive
    <2>3. CASE ~(Marked(d).refunds < MaxIter)
      BY <2>3, <1>4 DEF Refunded
    <2> QED  BY <2>2, <2>3
  <1> QED  BY <1>4, <1>5

(***************************************************************************)
(* Steps that write one drive.                                             *)
(***************************************************************************)
\* The shape of a step of drive d, and what TypeOK and CountersFit ask of it.
WritesDrive(d, r) ==
  /\ r \in Drive
  /\ drive' = [drive EXCEPT ![d] = r]
  /\ r.pc \in Charged => r.used > 0
  /\ r.pc = "mark" => r.round < MaxRounds

\* Such a step leaves the counters in bounds and the other drives alone.
LEMMA DriveWritten ==
  ASSUME TypeOK, CountersFit, NEW d \in Drives, NEW r, WritesDrive(d, r)
  PROVE  /\ drive' \in [Drives -> Drive] /\ CountersFit'
         /\ drive'[d] = r
         /\ \A e \in Drives : e # d => drive'[e] = drive[e]
  BY DEF TypeOK, CountersFit, WritesDrive

\* A step that neither touches the ledger nor the world nor the checkpoint, and
\* does not enter the guarded part, keeps the invariant.
LEMMA QuietStep ==
  ASSUME IInv, NEW d \in Drives, NEW r, WritesDrive(d, r), Live(d),
         UNCHANGED <<blob, ledger, ran, did, twice, overlap>>,
         status' # "none",
         r.pc \notin {"exec", "commit", "mark"},
         ~overlap /\ r.pc \in Working =>
           r.step = blob.iteration + 1 /\ r.round = blob.rounds
  PROVE  IntentHeldOnce' /\ Lineage'
  <1>1. /\ drive'[d] = r
        /\ \A e \in Drives : e # d => drive'[e] = drive[e]
    BY DriveWritten DEF IInv
  <1>2. IntentHeldOnce'
    BY <1>1 DEF IInv, IntentHeldOnce, Holding, KeyOf
  <1>3. Lineage'
    <2>1. Lineage  BY DEF IInv
    <2>2. \A e \in Drives : Live(e)' => Live(e)
      BY <1>1 DEF Live
    <2> QED  BY <2>1, <2>2, <1>1 DEF Lineage, CallOf
  <1> QED  BY <1>2, <1>3

\* The row of a task that is being driven exists.
LEMMA DrivenExists ==
  ASSUME Lineage, NEW d \in Drives, Live(d)
  PROVE  status # "none"
  BY DEF Lineage

\* How a quiet step is shown to keep the whole invariant.
LEMMA QuietKeeps ==
  ASSUME IInv, NEW d \in Drives, NEW r, WritesDrive(d, r), Live(d),
         UNCHANGED <<blob, ledger, counters, ran, madeIn, did, twice>>,
         status' = status \/ status' \in TaskStatuses \ {"none"},
         skipped' = skipped \/ skipped' = skipped \cup {CallOf(d)},
         r.pc \notin {"exec", "commit", "mark"},
         ~overlap /\ r.pc \in Working =>
           r.step = blob.iteration + 1 /\ r.round = blob.rounds
  PROVE  IInv'
  <1>1. status' # "none"  BY DrivenExists DEF IInv
  <1>2. IntentHeldOnce' /\ Lineage'  BY <1>1, QuietStep DEF counters
  <1>3. drive' \in [Drives -> Drive] /\ CountersFit'  BY DriveWritten DEF IInv
  <1>4. CallOf(d) \in (0..MaxRounds) \X Calls
    BY Fields DEF IInv, TypeOK, CallOf
  <1>5. TypeOK'
    BY <1>3, <1>4 DEF IInv, TypeOK, counters
  <1> QED  BY <1>2, <1>3, <1>5 DEF IInv

\* The loop of the provider, the timeouts and errors of the guard, the end of
\* the checkpoint callback, _finalize, and a resume.
QuietAction(d) ==
  \/ RecoveryResumes(d) \/ RecoveryRejected(d) \/ RecoveryFails(d)
  \/ Consume(d) \/ WrapUp(d) \/ AnswerDraft(d) \/ RoundFails(d) \/ RoundDone(d)
  \/ \E n \in 1..MaxCalls, text \in BOOLEAN : AnswerCalls(d, n, text)
  \/ \E c \in Calls : DispatchCall(d, c)
  \/ BeginProceeds(d) \/ BeginReplays(d) \/ TimesOut(d)
  \/ CallRaises(d) \/ TextCallRaises(d)
  \/ MarkNextRound(d) \/ MarkCorrected(d) \/ CheckpointFails(d)
  \/ \E v \in Verdicts : MarkLast(d, v)
  \/ FinalizeReads(d) \/ \E s \in TaskStatuses : FinalizeWrites(d, s) /\ ~Drops(d, s)

\* The steps of a drive that write neither the ledger, nor the world, nor the
\* checkpoint keep the invariant.
LEMMA QuietActionsKeep ==
  ASSUME IInv, NEW d \in Drives, QuietAction(d)
  PROVE  IInv'
  <1> DEFINE old == drive[d]
  <1>1. old \in Drive /\ Fresh \in Drive /\ Fresh.pc = "idle" /\ Fresh.used = 0
    BY FreshIsDrive DEF IInv, TypeOK
  <1>2. /\ old.pc \in Charged => old.used > 0
        /\ ~overlap /\ old.pc \in Working =>
             old.step = blob.iteration + 1 /\ old.round = blob.rounds
        /\ ~overlap /\ old.pc = "mark" =>
             old.used = blob.iteration + 1 /\ old.round + 1 = blob.rounds
    BY DEF IInv, CountersFit, Lineage
  <1> HIDE DEF old
  <1>3. CASE RecoveryResumes(d)
    <2> DEFINE r == [Fresh EXCEPT !.pc = "top", !.step = SeedIteration,
                                  !.round = blob.rounds]
    <2>1. SeedIteration = blob.iteration + 1 /\ SeedIteration \in 0..MaxIter
          /\ blob.rounds \in 0..MaxRounds
      BY ReActAssumption DEF IInv, TypeOK, SeedIteration
    <2>2. r \in Drive /\ r.pc = "top" /\ r.step = SeedIteration /\ r.round = blob.rounds
      BY <1>1, <2>1, Phases DEF Drive
    <2>3. WritesDrive(d, r)
      BY <1>3, <2>2 DEF RecoveryResumes, WritesDrive, Charged
    <2>4. Live(d)  BY <1>3 DEF RecoveryResumes, Live
    <2> HIDE DEF r
    <2> QED
      BY <1>3, <2>1, <2>2, <2>3, <2>4, QuietKeeps, Phases
      DEF RecoveryResumes, history
  <1>4. CASE RecoveryFails(d)
    <2>1. WritesDrive(d, Fresh)
      BY <1>1, <1>4 DEF RecoveryFails, Leave, WritesDrive, Charged
    <2>2. Live(d)  BY <1>4 DEF RecoveryFails, Live
    <2> QED
      BY <1>1, <1>4, <2>1, <2>2, QuietKeeps DEF RecoveryFails, history, rowVars, Working
  <1>5. CASE Consume(d)
    <2> DEFINE r == [old EXCEPT !.pc = "think", !.used = @ + 1]
    <2>1. old.used + 1 \in 0..MaxIter /\ old.used + 1 > 0
      BY <1>1, <1>5, Fields, ReActAssumption DEF Consume, old
    <2>2. /\ r \in Drive /\ r.pc = "think" /\ r.used = old.used + 1
          /\ r.step = old.step /\ r.round = old.round
      BY <1>1, <2>1, Phases DEF Drive
    <2>3. drive' = [drive EXCEPT ![d] = r]  BY <1>5 DEF Consume, old
    <2>4. old.pc = "top" /\ Live(d)  BY <1>5 DEF Consume, Live, old
    <2> HIDE DEF r
    <2>5. WritesDrive(d, r)  BY <2>1, <2>2, <2>3 DEF WritesDrive
    <2> QED
      BY <1>2, <1>5, <2>2, <2>4, <2>5, QuietKeeps DEF Consume, history, rowVars, Working
  <1>6. CASE \/ WrapUp(d) \/ RoundFails(d) \/ CallRaises(d) \/ CheckpointFails(d)
             \/ RecoveryRejected(d)
    <2>1. PICK v \in Verdicts : EndWith(d, v)
      BY <1>6, Phases
      DEF WrapUp, RoundFails, CallRaises, CheckpointFails, RecoveryRejected
    <2> DEFINE r == [old EXCEPT !.pc = "end", !.verdict = v]
    <2>2. r \in Drive /\ r.pc = "end"
      BY <1>1, Phases DEF Drive
    <2>3. drive' = [drive EXCEPT ![d] = r]  BY <2>1 DEF EndWith, old
    <2>4. Live(d)
      BY <1>6
      DEF WrapUp, RoundFails, CallRaises, CheckpointFails, RecoveryRejected, Raises, Live
    <2> HIDE DEF r
    <2>5. WritesDrive(d, r)  BY <2>2, <2>3 DEF WritesDrive, Charged
    <2> QED
      BY <1>6, <2>2, <2>4, <2>5, QuietKeeps, Phases
      DEF WrapUp, RoundFails, CallRaises, CheckpointFails, RecoveryRejected, history,
          rowVars, Working
  <1>7. CASE AnswerDraft(d)
    <2> DEFINE r == [old EXCEPT !.pc = "save", !.draft = TRUE]
    <2>1. /\ r \in Drive /\ r.pc = "save" /\ r.used = old.used
          /\ r.step = old.step /\ r.round = old.round
      BY <1>1, Phases DEF Drive
    <2>2. drive' = [drive EXCEPT ![d] = r]  BY <1>7 DEF AnswerDraft, old
    <2>3. old.pc = "think" /\ Live(d)  BY <1>7 DEF AnswerDraft, Live, old
    <2> HIDE DEF r
    <2>4. WritesDrive(d, r)  BY <1>2, <2>1, <2>2, <2>3 DEF WritesDrive, Charged
    <2> QED
      BY <1>2, <1>7, <2>1, <2>3, <2>4, QuietKeeps
      DEF AnswerDraft, history, rowVars, Working
  <1>8. CASE RoundDone(d)
    <2> DEFINE r == [old EXCEPT !.pc = "save", !.text = FALSE]
    <2>1. /\ r \in Drive /\ r.pc = "save" /\ r.used = old.used
          /\ r.step = old.step /\ r.round = old.round
      BY <1>1, Phases DEF Drive
    <2>2. drive' = [drive EXCEPT ![d] = r]  BY <1>8 DEF RoundDone, old
    <2>3. old.pc = "act" /\ Live(d)  BY <1>8 DEF RoundDone, Live, old
    <2> HIDE DEF r
    <2>4. WritesDrive(d, r)  BY <1>2, <2>1, <2>2, <2>3 DEF WritesDrive, Charged
    <2> QED
      BY <1>2, <1>8, <2>1, <2>3, <2>4, QuietKeeps
      DEF RoundDone, history, rowVars, Working
  <1>9. ASSUME NEW n \in 1..MaxCalls, NEW text \in BOOLEAN, AnswerCalls(d, n, text)
        PROVE  IInv'
    <2> DEFINE r == [old EXCEPT !.pc = "act", !.left = n, !.text = text]
    <2>1. n \in 0..MaxCalls  BY ReActAssumption
    <2>2. /\ r \in Drive /\ r.pc = "act" /\ r.used = old.used
          /\ r.step = old.step /\ r.round = old.round
      BY <1>1, <2>1, Phases DEF Drive
    <2>3. drive' = [drive EXCEPT ![d] = r]  BY <1>9 DEF AnswerCalls, old
    <2>4. old.pc = "think" /\ Live(d)  BY <1>9 DEF AnswerCalls, Live, old
    <2> HIDE DEF r
    <2>5. WritesDrive(d, r)  BY <1>2, <2>2, <2>3, <2>4 DEF WritesDrive, Charged
    <2> QED
      BY <1>2, <1>9, <2>2, <2>4, <2>5, QuietKeeps
      DEF AnswerCalls, history, rowVars, Working
  <1>10. ASSUME NEW c \in Calls, DispatchCall(d, c)
         PROVE  IInv'
    <2> DEFINE r == [old EXCEPT !.pc = "select", !.left = @ - 1, !.call = c]
    <2>1. old.left - 1 \in 0..MaxCalls
      BY <1>1, <1>10, Fields, ReActAssumption DEF DispatchCall, old
    <2>2. /\ r \in Drive /\ r.pc = "select" /\ r.used = old.used
          /\ r.step = old.step /\ r.round = old.round
      BY <1>1, <2>1, Phases DEF Drive
    <2>3. drive' = [drive EXCEPT ![d] = r]  BY <1>10 DEF DispatchCall, old
    <2>4. old.pc = "act" /\ Live(d)  BY <1>10 DEF DispatchCall, Live, old
    <2> HIDE DEF r
    <2>5. WritesDrive(d, r)  BY <1>2, <2>2, <2>3, <2>4 DEF WritesDrive, Charged
    <2> QED
      BY <1>2, <1>10, <2>2, <2>4, <2>5, QuietKeeps
      DEF DispatchCall, history, rowVars, Working
  <1>11. CASE BeginProceeds(d) \/ BeginReplays(d) \/ TimesOut(d) \/ TextCallRaises(d)
    <2>1. PICK p \in {"insert", "act"} : Goto(d, p)
      BY <1>11 DEF BeginProceeds, BeginReplays, TimesOut, TextCallRaises
    <2> DEFINE r == [old EXCEPT !.pc = p]
    <2>2. /\ r \in Drive /\ r.pc = p /\ r.used = old.used
          /\ r.step = old.step /\ r.round = old.round
      BY <1>1, Phases DEF Drive
    <2>3. drive' = [drive EXCEPT ![d] = r]  BY <2>1 DEF Goto, old
    <2>4. old.pc \in {"select", "insert", "exec", "commit"} /\ Live(d)
      BY <1>11 DEF BeginProceeds, BeginReplays, TimesOut, TextCallRaises, Raises, Live, old
    <2> HIDE DEF r
    <2>5. WritesDrive(d, r)  BY <1>2, <2>1, <2>2, <2>3, <2>4 DEF WritesDrive, Charged
    <2>6. skipped' = skipped \/ skipped' = skipped \cup {CallOf(d)}
      BY <1>11 DEF BeginProceeds, BeginReplays, TimesOut, TextCallRaises, history
    <2>7. UNCHANGED <<rowVars, ledger, counters, ran, madeIn, did, twice>>
      BY <1>11 DEF BeginProceeds, BeginReplays, TimesOut, TextCallRaises, history
    <2> QED
      BY <1>2, <2>1, <2>2, <2>4, <2>5, <2>6, <2>7, QuietKeeps DEF rowVars, Working
  <1>12. CASE MarkNextRound(d) \/ MarkCorrected(d)
    <2>1. PICK q \in {Marked(d), Refunded(Marked(d))} :
            drive' = [drive EXCEPT ![d] = [q EXCEPT !.pc = "top"]]
      BY <1>12 DEF MarkNextRound, MarkCorrected
    <2>2. old.pc = "mark" /\ Live(d)
      BY <1>12 DEF MarkNextRound, MarkCorrected, Live, old
    <2>3. q \in Drive /\ q.step = old.used /\ q.round = old.round + 1
      BY <2>1, <2>2, MarkedIsDrive DEF IInv, old
    <2> DEFINE r == [q EXCEPT !.pc = "top"]
    <2>4. /\ r \in Drive /\ r.pc = "top"
          /\ r.step = old.used /\ r.round = old.round + 1
      BY <2>3, Phases DEF Drive
    <2>5. drive' = [drive EXCEPT ![d] = r]  BY <2>1
    <2> HIDE DEF r
    <2>6. WritesDrive(d, r)  BY <2>4, <2>5 DEF WritesDrive, Charged
    <2>7. status' = "running" /\ UNCHANGED <<blob, ledger, history, counters>>
      BY <1>12 DEF MarkNextRound, MarkCorrected
    <2> QED
      BY <1>2, <2>2, <2>4, <2>6, <2>7, QuietKeeps, Phases DEF history
  <1>13. ASSUME NEW v \in Verdicts, MarkLast(d, v)
         PROVE  IInv'
    <2>1. drive[d].pc = "mark" /\ Live(d)  BY <1>13 DEF MarkLast, Live
    <2>2. Marked(d) \in Drive  BY <2>1, MarkedIsDrive DEF IInv
    <2> DEFINE q == Marked(d)
    <2> DEFINE r == [q EXCEPT !.pc = "end", !.verdict = v]
    <2>3. drive' = [drive EXCEPT ![d] = r]  BY <1>13 DEF MarkLast
    <2> HIDE DEF q
    <2>4. r \in Drive /\ r.pc = "end"  BY <2>2, Phases DEF Drive, q
    <2> HIDE DEF r
    <2>5. WritesDrive(d, r)  BY <2>3, <2>4 DEF WritesDrive, Charged
    <2> QED
      BY <1>13, <2>1, <2>4, <2>5, QuietKeeps, Phases DEF MarkLast, history, Working
  <1>14. CASE FinalizeReads(d)
    <2>1. Live(d)  BY <1>14 DEF FinalizeReads, Live
    <2>2. CASE status = "running"
      <3> DEFINE r == [old EXCEPT !.pc = "write"]
      <3>1. r \in Drive /\ r.pc = "write"  BY <1>1, Phases DEF Drive
      <3>2. drive' = [drive EXCEPT ![d] = r]
        BY <1>14, <2>2 DEF FinalizeReads, Goto, old
      <3> HIDE DEF r
      <3>3. WritesDrive(d, r)  BY <3>1, <3>2 DEF WritesDrive, Charged
      <3> QED
        BY <1>14, <2>1, <3>1, <3>3, QuietKeeps DEF FinalizeReads, history, rowVars, Working
    <2>3. CASE status # "running"
      <3>1. WritesDrive(d, Fresh)
        BY <1>1, <1>14, <2>3 DEF FinalizeReads, Leave, WritesDrive, Charged
      <3> QED
        BY <1>1, <1>14, <2>1, <3>1, QuietKeeps DEF FinalizeReads, history, rowVars, Working
    <2> QED  BY <2>2, <2>3
  <1>15. ASSUME NEW s \in TaskStatuses, FinalizeWrites(d, s), ~Drops(d, s)
         PROVE  IInv'
    <2>1. Live(d)  BY <1>15 DEF FinalizeWrites, Live
    <2>2. drive[d].verdict \in {"completed", "failed", "corrupt", "parked"}
      BY <1>1, Fields DEF old, Verdicts
    <2>3. s \in TaskStatuses \ {"none"}
      BY <1>15, <2>2 DEF FinalizeWrites, Written
    <2>4. WritesDrive(d, Fresh)
      BY <1>1, <1>15 DEF FinalizeWrites, Leave, WritesDrive, Charged
    <2> QED
      BY <1>1, <1>15, <2>1, <2>3, <2>4, QuietKeeps DEF FinalizeWrites, Working
  <1> QED
    BY <1>3, <1>4, <1>5, <1>6, <1>7, <1>8, <1>9, <1>10, <1>11, <1>12, <1>13, <1>14,
       <1>15 DEF QuietAction

(***************************************************************************)
(* Steps that write the ledger, the world or the checkpoint.               *)
(***************************************************************************)
\* A drive that only changes its phase inside a round keeps its key, its round
\* and its budget.
LEMMA PhaseWritten ==
  ASSUME TypeOK, CountersFit, NEW d \in Drives, NEW p \in Charged, Goto(d, p),
         drive[d].pc \in Charged,
         p = "mark" => drive[d].round < MaxRounds
  PROVE  /\ drive' \in [Drives -> Drive] /\ CountersFit'
         /\ drive'[d].pc = p
         /\ drive'[d].step = drive[d].step /\ drive'[d].round = drive[d].round
         /\ drive'[d].call = drive[d].call /\ drive'[d].used = drive[d].used
         /\ \A e \in Drives : e # d => drive'[e] = drive[e]
  <1> DEFINE old == drive[d]
  <1> DEFINE r == [old EXCEPT !.pc = p]
  <1>1. old \in Drive /\ old.used > 0  BY DEF TypeOK, CountersFit
  <1>2. p \in DrivePhases  BY Phases DEF Charged
  <1>3. drive' = [drive EXCEPT ![d] = r]  BY DEF Goto
  <1> HIDE DEF old
  <1>4. /\ r \in Drive /\ r.pc = p /\ r.step = old.step /\ r.round = old.round
        /\ r.call = old.call /\ r.used = old.used
    BY <1>1, <1>2 DEF Drive
  <1> HIDE DEF r
  <1>5. WritesDrive(d, r)
    BY <1>1, <1>3, <1>4 DEF WritesDrive, old
  <1> QED  BY <1>4, <1>5, DriveWritten DEF old

\* The key and the call of a drive are in range.
LEMMA KeyInRange ==
  ASSUME TypeOK, NEW d \in Drives
  PROVE  /\ KeyOf(d) \in Keys
         /\ drive[d].round \in 0..MaxRounds /\ drive[d].call \in Calls
         /\ CallOf(d) \in (0..MaxRounds) \X Calls
  <1>1. drive[d] \in Drive  BY DEF TypeOK
  <1> QED  BY <1>1, Fields DEF KeyOf, CallOf, Keys

\* begin's INSERT: the primary key makes d the only drive to act on this intent,
\* and, without overlap, the call was not made in this round before.
LEMMA InsertKeeps ==
  ASSUME IInv, NEW d \in Drives, BeginInserts(d)
  PROVE  IInv'
  <1>1. /\ drive[d].pc = "insert" /\ ledger[KeyOf(d)] = "none" /\ KeyOf(d) \in Keys
        /\ ledger' = [ledger EXCEPT ![KeyOf(d)] = "intent"]
        /\ UNCHANGED <<rowVars, history, counters>>
    BY KeyInRange DEF BeginInserts, IInv
  <1>2. /\ drive' \in [Drives -> Drive] /\ CountersFit'
        /\ drive'[d].pc = "exec"
        /\ drive'[d].step = drive[d].step /\ drive'[d].round = drive[d].round
        /\ drive'[d].call = drive[d].call /\ drive'[d].used = drive[d].used
        /\ \A e \in Drives : e # d => drive'[e] = drive[e]
    BY <1>1, PhaseWritten DEF BeginInserts, IInv, Charged
  <1>3. TypeOK'
    BY <1>1, <1>2 DEF IInv, TypeOK, rowVars, history, counters
  <1>4. IntentHeldOnce'
    <2>1. IntentHeldOnce /\ ledger \in [Keys -> {"none", "intent", "committed"}]
      BY DEF IInv, TypeOK
    <2>2. \A e \in Drives : e # d /\ Holding(e) => KeyOf(e) # KeyOf(d)
      BY <1>1, <2>1 DEF IntentHeldOnce, Holding
    <2>3. KeyOf(d)' = KeyOf(d) /\ \A e \in Drives : e # d => KeyOf(e)' = KeyOf(e)
      BY <1>2 DEF KeyOf
    <2>4. ran' = ran  BY <1>1 DEF history
    <2>5. ran[KeyOf(d)] = 0  BY <1>1, <2>1 DEF IntentHeldOnce
    <2>6. \A k \in Keys : k # KeyOf(d) => ledger'[k] = ledger[k]
      BY <1>1, <2>1
    <2>7. ledger'[KeyOf(d)] = "intent"  BY <1>1, <2>1
    <2>8. \A e \in Drives : KeyOf(e) \in Keys  BY KeyInRange DEF IInv
    <2>9. \A k \in Keys : ledger'[k] = "none" => ran'[k] = 0
      BY <2>1, <2>4, <2>6, <2>7 DEF IntentHeldOnce
    <2>10. \A e \in Drives : e # d /\ Holding(e)' =>
             Holding(e) /\ ledger'[KeyOf(e)] = ledger[KeyOf(e)]
      BY <1>2, <2>2, <2>6, <2>8 DEF Holding
    <2> HIDE DEF KeyOf
    <2>11. \A e \in Drives : drive'[e].pc = "exec" =>
             ledger'[KeyOf(e)'] = "intent" /\ ran'[KeyOf(e)'] = 0
      BY <1>2, <2>1, <2>3, <2>4, <2>5, <2>7, <2>10 DEF IntentHeldOnce, Holding
    <2>12. \A e \in Drives : drive'[e].pc = "commit" =>
             ledger'[KeyOf(e)'] = "intent" /\ ran'[KeyOf(e)'] = 1
      BY <1>2, <2>1, <2>3, <2>4, <2>10 DEF IntentHeldOnce, Holding
    <2>13. \A e, f \in Drives : Holding(e)' /\ Holding(f)' /\ e # f =>
             KeyOf(e)' # KeyOf(f)'
      BY <2>1, <2>2, <2>3, <2>10 DEF IntentHeldOnce
    <2> QED  BY <2>9, <2>11, <2>12, <2>13 DEF IntentHeldOnce
  <1>5. Lineage'
    <2>1. Lineage /\ status' = status /\ blob' = blob /\ did' = did /\ twice' = twice
          /\ overlap' = overlap
      BY <1>1 DEF IInv, rowVars, history, counters
    <2>2. ledger \in [Keys -> {"none", "intent", "committed"}]  BY DEF IInv, TypeOK
    <2>3. \A e \in Drives : Live(e)' => Live(e)
      BY <1>1, <1>2 DEF Live
    <2>4. \A k \in Keys : ledger[k] # "none" => ledger'[k] # "none"
      BY <1>1, <2>2
    <2>5. \A c \in Calls : <<blob.iteration + 1, c>> \in Keys
      BY ReActAssumption DEF IInv, TypeOK, Keys
    <2>6. ~overlap => CallOf(d) \notin did
      <3>1. SUFFICES ASSUME ~overlap, CallOf(d) \in did PROVE FALSE
        OBVIOUS
      <3>2. drive[d].step = blob.iteration + 1 /\ drive[d].round = blob.rounds
        BY <1>1, <2>1, <3>1 DEF Lineage, Working
      <3>3. drive[d].round \in 0..MaxRounds /\ drive[d].call \in Calls
        BY KeyInRange DEF IInv
      <3>4. ledger[<<blob.iteration + 1, drive[d].call>>] # "none"
        BY <2>1, <3>1, <3>2, <3>3 DEF Lineage, CallOf
      <3> QED  BY <1>1, <3>2, <3>4 DEF KeyOf
    <2>7. CallOf(d)' = CallOf(d) /\ \A e \in Drives : e # d => CallOf(e)' = CallOf(e)
      BY <1>2 DEF CallOf
    <2>8. ~overlap => \A e \in Drives : drive'[e].pc = "exec" => CallOf(e)' \notin did'
      <3>1. ~overlap => \A e \in Drives : drive[e].pc = "exec" => CallOf(e) \notin did
        BY <2>1 DEF Lineage
      <3> HIDE DEF CallOf
      <3> QED  BY <1>2, <2>1, <2>6, <2>7, <3>1
    <2>9. ~overlap => \A e \in Drives : drive'[e].pc \in Working =>
            drive'[e].step = blob'.iteration + 1 /\ drive'[e].round = blob'.rounds
      BY <1>1, <1>2, <2>1 DEF Lineage, Working
    <2>10. ~overlap => \A e \in Drives : drive'[e].pc = "mark" =>
            drive'[e].used = blob'.iteration + 1 /\ drive'[e].round + 1 = blob'.rounds
      BY <1>2, <2>1 DEF Lineage
    <2>11. ~overlap => \A r \in 0..MaxRounds, c \in Calls : <<r, c>> \in did' =>
            \/ r < blob'.rounds
            \/ r = blob'.rounds /\ ledger'[<<blob'.iteration + 1, c>>] # "none"
      BY <2>1, <2>4, <2>5 DEF Lineage
    <2>12. /\ status' = "none" => (\A e \in Drives : ~Live(e)') /\ did' = {} /\ blob' = NoBlob
           /\ ~overlap => \A e, f \in Drives : Live(e)' /\ Live(f)' => e = f
           /\ ~overlap => twice' = {}
      BY <2>1, <2>3 DEF Lineage
    <2> QED  BY <2>1, <2>8, <2>9, <2>10, <2>11, <2>12 DEF Lineage
  <1> QED  BY <1>2, <1>3, <1>4, <1>5 DEF IInv

\* execute_fn: the effect happens under the intent d alone holds.
LEMMA ExecuteKeeps ==
  ASSUME IInv, NEW d \in Drives, Execute(d)
  PROVE  IInv'
  <1>1. /\ drive[d].pc = "exec" /\ KeyOf(d) \in Keys
        /\ CallOf(d) \in (0..MaxRounds) \X Calls
        /\ drive[d].round \in 0..MaxRounds /\ drive[d].call \in Calls
        /\ ran' = [ran EXCEPT ![KeyOf(d)] = @ + 1]
        /\ madeIn' = [madeIn EXCEPT ![KeyOf(d)] = drive[d].round]
        /\ did' = did \cup {CallOf(d)}
        /\ twice' = twice \cup ({CallOf(d)} \cap did)
        /\ UNCHANGED <<rowVars, ledger, skipped, counters>>
    BY KeyInRange DEF Execute, IInv
  <1>2. /\ drive' \in [Drives -> Drive] /\ CountersFit'
        /\ drive'[d].pc = "commit"
        /\ drive'[d].step = drive[d].step /\ drive'[d].round = drive[d].round
        /\ drive'[d].call = drive[d].call /\ drive'[d].used = drive[d].used
        /\ \A e \in Drives : e # d => drive'[e] = drive[e]
    BY <1>1, PhaseWritten DEF Execute, IInv, Charged
  <1>3. TypeOK'
    <2>1. ran' \in [Keys -> Nat] /\ madeIn' \in [Keys -> -1..MaxRounds]
      BY <1>1, ReActAssumption DEF IInv, TypeOK
    <2>2. /\ did' \subseteq (0..MaxRounds) \X Calls
          /\ twice' \subseteq (0..MaxRounds) \X Calls
      BY <1>1 DEF IInv, TypeOK
    <2> QED  BY <1>1, <1>2, <2>1, <2>2 DEF IInv, TypeOK, rowVars, counters
  <1>4. IntentHeldOnce'
    <2>1. IntentHeldOnce /\ ran \in [Keys -> Nat] /\ ledger' = ledger
      BY <1>1 DEF IInv, TypeOK
    <2>2. ledger[KeyOf(d)] = "intent" /\ ran[KeyOf(d)] = 0
      BY <1>1, <2>1 DEF IntentHeldOnce
    <2>3. \A e \in Drives : e # d /\ Holding(e) => KeyOf(e) # KeyOf(d)
      BY <1>1, <2>1 DEF IntentHeldOnce, Holding
    <2>4. KeyOf(d)' = KeyOf(d) /\ \A e \in Drives : e # d => KeyOf(e)' = KeyOf(e)
      BY <1>2 DEF KeyOf
    <2>5. ran'[KeyOf(d)] = 1 /\ \A k \in Keys : k # KeyOf(d) => ran'[k] = ran[k]
      BY <1>1, <2>1, <2>2
    <2>6. \A e \in Drives : KeyOf(e) \in Keys  BY KeyInRange DEF IInv
    <2>7. \A k \in Keys : ledger'[k] = "none" => ran'[k] = 0
      BY <2>1, <2>2, <2>5 DEF IntentHeldOnce
    <2>8. \A e \in Drives : e # d /\ Holding(e)' =>
            Holding(e) /\ ran'[KeyOf(e)] = ran[KeyOf(e)]
      BY <1>2, <2>3, <2>5, <2>6 DEF Holding
    <2> HIDE DEF KeyOf
    <2>9. \A e \in Drives : drive'[e].pc = "exec" =>
            ledger'[KeyOf(e)'] = "intent" /\ ran'[KeyOf(e)'] = 0
      BY <1>2, <2>1, <2>4, <2>8 DEF IntentHeldOnce, Holding
    <2>10. \A e \in Drives : drive'[e].pc = "commit" =>
            ledger'[KeyOf(e)'] = "intent" /\ ran'[KeyOf(e)'] = 1
      BY <1>2, <2>1, <2>2, <2>4, <2>5, <2>8 DEF IntentHeldOnce, Holding
    <2>11. \A e, f \in Drives : Holding(e)' /\ Holding(f)' /\ e # f =>
             KeyOf(e)' # KeyOf(f)'
      BY <2>1, <2>3, <2>4, <2>8 DEF IntentHeldOnce
    <2> QED  BY <2>7, <2>9, <2>10, <2>11 DEF IntentHeldOnce
  <1>5. Lineage'
    <2>1. Lineage /\ status' = status /\ blob' = blob /\ ledger' = ledger
          /\ overlap' = overlap
      BY <1>1 DEF IInv, rowVars, counters
    <2>2. \A e \in Drives : Live(e)' => Live(e)  BY <1>1, <1>2 DEF Live
    <2>3. status # "none"  BY <1>1, <2>1, DrivenExists DEF Live
    <2>4. ~overlap => CallOf(d) \notin did  BY <1>1, <2>1 DEF Lineage
    <2>5. ~overlap => twice' = {}  BY <1>1, <2>1, <2>4 DEF Lineage
    <2>6. ~overlap =>
            /\ drive[d].step = blob.iteration + 1 /\ drive[d].round = blob.rounds
            /\ ledger[KeyOf(d)] # "none"
      BY <1>1, <2>1 DEF Lineage, Working, IInv, IntentHeldOnce
    <2>7. ~overlap => \A r \in 0..MaxRounds, c \in Calls : <<r, c>> \in did' =>
            \/ r < blob'.rounds
            \/ r = blob'.rounds /\ ledger'[<<blob'.iteration + 1, c>>] # "none"
      <3>1. ASSUME ~overlap, NEW r \in 0..MaxRounds, NEW c \in Calls, <<r, c>> \in did'
            PROVE  \/ r < blob.rounds
                   \/ r = blob.rounds /\ ledger[<<blob.iteration + 1, c>>] # "none"
        <4>1. CASE <<r, c>> \in did  BY <2>1, <3>1, <4>1 DEF Lineage
        <4>2. CASE <<r, c>> = CallOf(d)
          BY <2>6, <3>1, <4>2 DEF CallOf, KeyOf
        <4> QED  BY <1>1, <3>1, <4>1, <4>2
      <3> QED  BY <2>1, <3>1
    <2>8. ~overlap => \A e \in Drives : drive'[e].pc # "exec"
      <3>1. ~overlap => \A e, f \in Drives : Live(e) /\ Live(f) => e = f
        BY <2>1 DEF Lineage
      <3> QED  BY <1>1, <1>2, <3>1 DEF Live
    <2>9. ~overlap => \A e \in Drives : drive'[e].pc \in Working =>
            drive'[e].step = blob'.iteration + 1 /\ drive'[e].round = blob'.rounds
      BY <1>1, <1>2, <2>1 DEF Lineage, Working
    <2>10. ~overlap => \A e \in Drives : drive'[e].pc = "mark" =>
            drive'[e].used = blob'.iteration + 1 /\ drive'[e].round + 1 = blob'.rounds
      BY <1>2, <2>1 DEF Lineage
    <2>11. ~overlap => \A e, f \in Drives : Live(e)' /\ Live(f)' => e = f
      BY <2>1, <2>2 DEF Lineage
    <2> QED  BY <2>1, <2>3, <2>5, <2>7, <2>8, <2>9, <2>10, <2>11 DEF Lineage
  <1> QED  BY <1>2, <1>3, <1>4, <1>5 DEF IInv

\* commit: the intent of an effect that happened becomes its record.
LEMMA CommitKeeps ==
  ASSUME IInv, NEW d \in Drives, Commit(d)
  PROVE  IInv'
  <1>1. /\ drive[d].pc = "commit" /\ KeyOf(d) \in Keys
        /\ ledger' = [ledger EXCEPT ![KeyOf(d)] = "committed"]
        /\ UNCHANGED <<rowVars, history, counters>>
    BY KeyInRange DEF Commit, IInv
  <1>2. /\ drive' \in [Drives -> Drive] /\ CountersFit'
        /\ drive'[d].pc = "act"
        /\ drive'[d].step = drive[d].step /\ drive'[d].round = drive[d].round
        /\ drive'[d].call = drive[d].call /\ drive'[d].used = drive[d].used
        /\ \A e \in Drives : e # d => drive'[e] = drive[e]
    BY <1>1, PhaseWritten DEF Commit, IInv, Charged
  <1>3. TypeOK'
    BY <1>1, <1>2 DEF IInv, TypeOK, rowVars, history, counters
  <1>4. ledger \in [Keys -> {"none", "intent", "committed"}]  BY DEF IInv, TypeOK
  <1>5. \A k \in Keys : (ledger'[k] = "none") <=> (ledger[k] = "none")
    <2>1. ledger[KeyOf(d)] = "intent"  BY <1>1 DEF IInv, IntentHeldOnce
    <2> QED  BY <1>1, <1>4, <2>1
  <1>6. IntentHeldOnce'
    <2>1. IntentHeldOnce /\ ran' = ran  BY <1>1 DEF IInv, history
    <2>2. \A e \in Drives : e # d /\ Holding(e) => KeyOf(e) # KeyOf(d)
      BY <1>1, <2>1 DEF IntentHeldOnce, Holding
    <2>3. \A e \in Drives : e # d => KeyOf(e)' = KeyOf(e)  BY <1>2 DEF KeyOf
    <2>4. \A e \in Drives : KeyOf(e) \in Keys  BY KeyInRange DEF IInv
    <2>5. \A e \in Drives : Holding(e)' =>
            e # d /\ Holding(e) /\ ledger'[KeyOf(e)] = ledger[KeyOf(e)]
      BY <1>1, <1>2, <1>4, <2>2, <2>4 DEF Holding
    <2> HIDE DEF KeyOf
    <2>6. \A e \in Drives : drive'[e].pc = "exec" =>
            ledger'[KeyOf(e)'] = "intent" /\ ran'[KeyOf(e)'] = 0
      BY <1>2, <2>1, <2>3, <2>5 DEF IntentHeldOnce, Holding
    <2>7. \A e \in Drives : drive'[e].pc = "commit" =>
            ledger'[KeyOf(e)'] = "intent" /\ ran'[KeyOf(e)'] = 1
      BY <1>2, <2>1, <2>3, <2>5 DEF IntentHeldOnce, Holding
    <2>8. \A e, f \in Drives : Holding(e)' /\ Holding(f)' /\ e # f =>
             KeyOf(e)' # KeyOf(f)'
      BY <2>1, <2>3, <2>5 DEF IntentHeldOnce
    <2> QED  BY <1>5, <2>1, <2>6, <2>7, <2>8 DEF IntentHeldOnce
  <1>7. Lineage'
    <2>1. Lineage /\ status' = status /\ blob' = blob /\ did' = did /\ twice' = twice
          /\ overlap' = overlap
      BY <1>1 DEF IInv, rowVars, history, counters
    <2>2. \A e \in Drives : Live(e)' => Live(e)  BY <1>1, <1>2 DEF Live
    <2>3. \A c \in Calls : <<blob.iteration + 1, c>> \in Keys
      BY ReActAssumption DEF IInv, TypeOK, Keys
    <2>4. ~overlap => \A e \in Drives : drive'[e].pc = "exec" => CallOf(e)' \notin did'
      BY <1>2, <2>1 DEF Lineage, CallOf
    <2>5. ~overlap => \A e \in Drives : drive'[e].pc \in Working =>
            drive'[e].step = blob'.iteration + 1 /\ drive'[e].round = blob'.rounds
      BY <1>1, <1>2, <2>1 DEF Lineage, Working
    <2>6. ~overlap => \A e \in Drives : drive'[e].pc = "mark" =>
            drive'[e].used = blob'.iteration + 1 /\ drive'[e].round + 1 = blob'.rounds
      BY <1>2, <2>1 DEF Lineage
    <2>7. ~overlap => \A r \in 0..MaxRounds, c \in Calls : <<r, c>> \in did' =>
            \/ r < blob'.rounds
            \/ r = blob'.rounds /\ ledger'[<<blob'.iteration + 1, c>>] # "none"
      BY <1>5, <2>1, <2>3 DEF Lineage
    <2>8. /\ status' = "none" => (\A e \in Drives : ~Live(e)') /\ did' = {} /\ blob' = NoBlob
          /\ ~overlap => \A e, f \in Drives : Live(e)' /\ Live(f)' => e = f
          /\ ~overlap => twice' = {}
      BY <2>1, <2>2 DEF Lineage
    <2> QED  BY <2>1, <2>4, <2>5, <2>6, <2>7, <2>8 DEF Lineage
  <1> QED  BY <1>2, <1>3, <1>6, <1>7 DEF IInv

\* save_checkpoint: what was done in this round is now behind the checkpoint, and
\* the key a resumed drive would compute is the one this drive goes on with.
LEMMA CheckpointKeeps ==
  ASSUME IInv, NEW d \in Drives, SaveCheckpoint(d)
  PROVE  IInv'
  <1>1. /\ drive[d].pc = "save" /\ drive[d].round < MaxRounds
        /\ blob' = [iteration |-> drive[d].used - 1, rounds |-> drive[d].round + 1]
        /\ UNCHANGED <<status, ledger, history, counters>>
    BY DEF SaveCheckpoint, IterIdx
  <1>2. /\ drive' \in [Drives -> Drive] /\ CountersFit'
        /\ drive'[d].pc = "mark"
        /\ drive'[d].step = drive[d].step /\ drive'[d].round = drive[d].round
        /\ drive'[d].call = drive[d].call /\ drive'[d].used = drive[d].used
        /\ \A e \in Drives : e # d => drive'[e] = drive[e]
    BY <1>1, PhaseWritten DEF SaveCheckpoint, IInv, Charged
  <1>3. /\ drive[d].used \in 1..MaxIter /\ drive[d].round \in 0..MaxRounds
    <2>1. drive[d] \in Drive /\ drive[d].used > 0
      BY <1>1 DEF IInv, TypeOK, CountersFit, Charged
    <2> QED  BY <2>1, Fields, ReActAssumption
  <1>4. TypeOK'
    <2>1. blob' \in [iteration : -1..(MaxIter - 1), rounds : 0..MaxRounds]
      BY <1>1, <1>3, ReActAssumption
    <2> QED  BY <1>1, <1>2, <2>1 DEF IInv, TypeOK, history, counters
  <1>5. IntentHeldOnce'
    BY <1>1, <1>2 DEF IInv, IntentHeldOnce, Holding, KeyOf, history
  <1>6. Lineage'
    <2>1. Lineage /\ status' = status /\ did' = did /\ twice' = twice
          /\ overlap' = overlap
      BY <1>1 DEF IInv, history, counters
    <2>2. \A e \in Drives : Live(e)' => Live(e)  BY <1>1, <1>2 DEF Live
    <2>3. ~overlap => \A e \in Drives : e # d => drive'[e].pc = "idle"
      <3>1. ~overlap => \A e \in Drives : Live(e) => e = d
        BY <1>1, <2>1 DEF Lineage, Live
      <3> QED  BY <1>2, <3>1 DEF Live
    <2>4. ~overlap => drive[d].round = blob.rounds
      BY <1>1, <2>1 DEF Lineage, Working
    <2>5. /\ blob'.rounds = drive[d].round + 1
          /\ blob'.iteration + 1 = drive[d].used
      BY <1>1, <1>3
    <2>6. ~overlap => \A r \in 0..MaxRounds, c \in Calls : <<r, c>> \in did' =>
            r < blob'.rounds
      <3>1. ASSUME ~overlap, NEW r \in 0..MaxRounds, NEW c \in Calls, <<r, c>> \in did
            PROVE  r < drive[d].round + 1
        <4>1. r < blob.rounds \/ r = blob.rounds
          BY <2>1, <3>1 DEF Lineage
        <4> QED  BY <1>3, <2>4, <3>1, <4>1
      <3> QED  BY <2>1, <2>5, <3>1
    <2>7. ~overlap => \A e \in Drives :
            /\ drive'[e].pc \notin Working
            /\ drive'[e].pc # "exec"
            /\ drive'[e].pc = "mark" =>
                 drive'[e].used = blob'.iteration + 1 /\ drive'[e].round + 1 = blob'.rounds
      BY <1>2, <2>3, <2>5 DEF Working
    <2>8. /\ status' # "none"
          /\ ~overlap => \A e, f \in Drives : Live(e)' /\ Live(f)' => e = f
          /\ ~overlap => twice' = {}
      BY <1>1, <2>1, <2>2, DrivenExists DEF Lineage, Live
    <2> QED  BY <2>1, <2>6, <2>7, <2>8 DEF Lineage
  <1> QED  BY <1>2, <1>4, <1>5, <1>6 DEF IInv

\* The end of a drive that could not be resumed: the checkpoint is dropped, and
\* with it the transcript its calls belong to.
LEMMA DropKeeps ==
  ASSUME IInv, NEW d \in Drives, NEW s \in TaskStatuses, FinalizeWrites(d, s), Drops(d, s)
  PROVE  IInv'
  <1>1. /\ drive[d].pc = "write" /\ status' = "pending" /\ blob' = NoBlob /\ did' = {}
        /\ drive' = [drive EXCEPT ![d] = Fresh]
        /\ UNCHANGED <<ledger, ran, madeIn, twice, skipped, counters>>
    BY DEF FinalizeWrites, Drops, Leave
  <1>2. Fresh \in Drive /\ Fresh.pc = "idle"  BY FreshIsDrive
  <1>3. WritesDrive(d, Fresh)  BY <1>1, <1>2 DEF WritesDrive, Charged
  <1>4. /\ drive' \in [Drives -> Drive] /\ CountersFit' /\ drive'[d].pc = "idle"
        /\ \A e \in Drives : e # d => drive'[e] = drive[e]
    BY <1>2, <1>3, DriveWritten DEF IInv
  <1>5. TypeOK'
    <2>1. blob' \in [iteration : -1..(MaxIter - 1), rounds : 0..MaxRounds]
      BY <1>1, ReActAssumption DEF NoBlob
    <2> QED  BY <1>1, <1>4, <2>1, Phases DEF IInv, TypeOK, counters
  <1>6. IntentHeldOnce'
    BY <1>1, <1>4 DEF IInv, IntentHeldOnce, Holding, KeyOf
  <1>7. Lineage'
    <2>1. Lineage /\ overlap' = overlap  BY <1>1 DEF IInv, counters
    <2>2. ~overlap => \A e \in Drives : drive'[e].pc = "idle"
      <3>1. ~overlap => \A e \in Drives : Live(e) => e = d
        BY <1>1, <2>1 DEF Lineage, Live
      <3> QED  BY <1>4, <3>1 DEF Live
    <2>3. ~overlap => twice' = {}  BY <1>1, <2>1 DEF Lineage
    <2> QED  BY <1>1, <2>1, <2>2, <2>3 DEF Lineage, Live, Working
  <1> QED  BY <1>4, <1>5, <1>6, <1>7 DEF IInv

\* A drive is started in a free slot, at the top of the loop or holding the claim
\* of recovery; nothing was done in its round, unless the ledger knows.
LEMMA StartKeeps ==
  ASSUME IInv, NEW d \in Drives, NEW r \in Drive,
         drive' = [drive EXCEPT ![d] = r], r.pc \in {"top", "claimed"},
         UNCHANGED <<blob, ledger, history, crashes>>,
         status' \in TaskStatuses \ {"none"}, starts' \in 0..MaxStarts,
         overlap' \in BOOLEAN, ~overlap' => ~overlap /\ \A e \in Drives : ~Live(e),
         r.pc = "top" /\ ~overlap' => r.step = blob.iteration + 1 /\ r.round = blob.rounds
  PROVE  IInv'
  <1>1. WritesDrive(d, r)  BY DEF WritesDrive, Charged
  <1>2. /\ drive' \in [Drives -> Drive] /\ CountersFit' /\ drive'[d] = r
        /\ \A e \in Drives : e # d => drive'[e] = drive[e]
    BY <1>1, DriveWritten DEF IInv
  <1>3. TypeOK'  BY <1>2 DEF IInv, TypeOK, history
  <1>4. IntentHeldOnce'
    BY <1>2 DEF IInv, IntentHeldOnce, Holding, KeyOf, history
  <1>5. Lineage'
    <2>1. Lineage /\ did' = did /\ twice' = twice  BY DEF IInv, history
    <2>2. CASE overlap'  BY <2>2 DEF Lineage
    <2>3. CASE ~overlap'
      <3>1. \A e \in Drives : e # d => drive'[e].pc = "idle"
        BY <1>2, <2>3 DEF Live
      <3>2. \A e, f \in Drives : Live(e)' /\ Live(f)' => e = f
        BY <3>1 DEF Live
      <3>3. \A e \in Drives : drive'[e].pc \notin {"exec", "mark"}
        BY <1>2, <3>1
      <3>4. \A e \in Drives : drive'[e].pc \in Working =>
              drive'[e].step = blob'.iteration + 1 /\ drive'[e].round = blob'.rounds
        BY <1>2, <2>3, <3>1 DEF Working
      <3> QED  BY <2>1, <2>3, <3>2, <3>3, <3>4 DEF Lineage
    <2> QED  BY <2>2, <2>3
  <1> QED  BY <1>2, <1>3, <1>4, <1>5 DEF IInv

\* run: the first drive of the task, before any checkpoint.
LEMMA RunKeeps ==
  ASSUME IInv, NEW d \in Drives, Run(d)
  PROVE  IInv'
  <1> DEFINE r == [Fresh EXCEPT !.pc = "top"]
  <1>1. r \in Drive /\ r.pc = "top" /\ r.step = 0 /\ r.round = 0
    BY FreshIsDrive, PhaseIsDrive, Phases DEF Fresh, Drive
  <1>2. /\ drive' = [drive EXCEPT ![d] = r] /\ status' = "running"
        /\ starts' = starts + 1 /\ starts < MaxStarts /\ overlap' = overlap
        /\ UNCHANGED <<blob, ledger, history, crashes>>
    BY DEF Run
  <1>3. /\ blob.iteration + 1 = 0 /\ blob.rounds = 0
        /\ \A e \in Drives : ~Live(e)
    BY DEF Run, IInv, Lineage, NoBlob
  <1>4. starts' \in 0..MaxStarts /\ overlap' \in BOOLEAN
    BY <1>2, ReActAssumption DEF IInv, TypeOK
  <1> HIDE DEF r
  <1> QED  BY <1>1, <1>2, <1>3, <1>4, StartKeeps, Phases

\* claim_for_recovery: the only step that may start a drive beside a live one,
\* and it says so.
LEMMA RecoveryClaimsKeeps ==
  ASSUME IInv, NEW d \in Drives, RecoveryClaims(d)
  PROVE  IInv'
  <1> DEFINE r == [Fresh EXCEPT !.pc = "claimed"]
  <1>1. r \in Drive /\ r.pc = "claimed"
    BY FreshIsDrive, PhaseIsDrive, Phases DEF Fresh, Drive
  <1>2. /\ drive' = [drive EXCEPT ![d] = r] /\ status' \in {"recovering", "ended"}
        /\ starts' = starts + 1 /\ starts < MaxStarts
        /\ overlap' = (overlap \/ \E e \in Drives : Live(e))
        /\ UNCHANGED <<blob, ledger, history, crashes>>
    BY DEF RecoveryClaims
  <1>3. starts' \in 0..MaxStarts
    BY <1>2, ReActAssumption DEF IInv, TypeOK
  <1>4. overlap' \in BOOLEAN /\ (~overlap' => ~overlap /\ \A e \in Drives : ~Live(e))
    BY <1>2
  <1> HIDE DEF r
  <1> QED  BY <1>1, <1>2, <1>3, <1>4, StartKeeps, Phases

\* The process dies: the drives are gone, the database is not.
LEMMA CrashKeeps ==
  ASSUME IInv, Crash
  PROVE  IInv'
  <1>1. /\ drive' = [d \in Drives |-> Fresh] /\ crashes' = crashes + 1
        /\ crashes < MaxCrashes
        /\ UNCHANGED <<rowVars, ledger, history, starts, overlap>>
    BY DEF Crash
  <1>2. \A d \in Drives : drive'[d] = Fresh /\ drive'[d].pc = "idle"
    BY <1>1, FreshIsDrive
  <1>3. drive' \in [Drives -> Drive] /\ crashes' \in 0..MaxCrashes
    BY <1>1, FreshIsDrive, ReActAssumption DEF IInv, TypeOK
  <1>4. TypeOK'  BY <1>1, <1>3 DEF IInv, TypeOK, rowVars, history
  <1>5. CountersFit'  BY <1>2 DEF CountersFit, Charged
  <1>6. IntentHeldOnce'
    BY <1>1, <1>2 DEF IInv, IntentHeldOnce, Holding, history
  <1>7. Lineage'
    <2>1. \A d \in Drives : ~Live(d)'  BY <1>2 DEF Live
    <2> QED  BY <1>1, <1>2, <2>1 DEF IInv, Lineage, Working, rowVars, history
  <1> QED  BY <1>4, <1>5, <1>6, <1>7 DEF IInv

\* The loop's claim of a row that a failed drive gave back.
LEMMA LoopClaimsKeeps ==
  ASSUME IInv, LoopClaims
  PROVE  IInv'
  <1>1. status' = "running" /\ UNCHANGED <<blob, ledger, drive, history, counters>>
    BY DEF LoopClaims
  <1>2. TypeOK'  BY <1>1, Phases DEF IInv, TypeOK, history, counters
  <1>3. CountersFit'  BY <1>1 DEF IInv, CountersFit
  <1>4. IntentHeldOnce'
    BY <1>1 DEF IInv, IntentHeldOnce, Holding, KeyOf, history
  <1>5. Lineage'
    BY <1>1 DEF IInv, Lineage, Live, CallOf, history, counters
  <1> QED  BY <1>2, <1>3, <1>4, <1>5 DEF IInv

(***************************************************************************)
(* The theorems.                                                           *)
(***************************************************************************)
\* A task that was not yet run satisfies the invariant.
LEMMA InitInv == Init => IInv
  <1> SUFFICES ASSUME Init PROVE IInv
    OBVIOUS
  <1>1. \A d \in Drives : drive[d] = Fresh /\ drive[d].pc = "idle"
    BY FreshIsDrive DEF Init
  <1>2. TypeOK
    <2>1. blob \in [iteration : -1..(MaxIter - 1), rounds : 0..MaxRounds]
      BY ReActAssumption DEF Init, NoBlob
    <2>2. drive \in [Drives -> Drive]  BY FreshIsDrive DEF Init
    <2>3. ran \in [Keys -> Nat] /\ madeIn \in [Keys -> -1..MaxRounds]
      BY ReActAssumption DEF Init
    <2>4. status \in TaskStatuses  BY Phases DEF Init
    <2>5. starts \in 0..MaxStarts /\ crashes \in 0..MaxCrashes
      BY ReActAssumption DEF Init
    <2>6. ledger \in [Keys -> {"none", "intent", "committed"}]  BY DEF Init
    <2>7. overlap \in BOOLEAN /\ did = {} /\ twice = {} /\ skipped = {}  BY DEF Init
    <2> QED  BY <2>1, <2>2, <2>3, <2>4, <2>5, <2>6, <2>7 DEF TypeOK
  <1>3. CountersFit  BY <1>1 DEF CountersFit, Charged
  <1>4. IntentHeldOnce  BY <1>1 DEF Init, IntentHeldOnce, Holding
  <1>5. Lineage  BY <1>1 DEF Init, Lineage, Live, Working
  <1> QED  BY <1>2, <1>3, <1>4, <1>5 DEF IInv

\* The steps of a drive are the quiet ones and those that write the ledger, the
\* world or the checkpoint.
LEMMA DriveSteps ==
  ASSUME NEW d \in Drives, DriveStep(d)
  PROVE  \/ QuietAction(d) \/ BeginInserts(d) \/ Execute(d) \/ Commit(d)
         \/ SaveCheckpoint(d)
         \/ \E s \in TaskStatuses : FinalizeWrites(d, s) /\ Drops(d, s)
  BY DEF DriveStep, Advance, GuardStep, QuietAction

\* Every step keeps the invariant.
LEMMA NextKeeps == IInv /\ [Next]_vars => IInv'
  <1> SUFFICES ASSUME IInv, [Next]_vars PROVE IInv'
    OBVIOUS
  <1>1. ASSUME NEW d \in Drives, DriveStep(d) PROVE IInv'
    BY <1>1, DriveSteps, QuietActionsKeep, InsertKeeps, ExecuteKeeps, CommitKeeps,
       CheckpointKeeps, DropKeeps
  <1>2. ASSUME NEW d \in Drives, Run(d) \/ RecoveryClaims(d) PROVE IInv'
    BY <1>2, RunKeeps, RecoveryClaimsKeeps
  <1>3. CASE UNCHANGED vars
    BY <1>3 DEF vars, IInv, TypeOK, CountersFit, IntentHeldOnce, Lineage, Holding,
                KeyOf, CallOf, Live
  <1> QED  BY <1>1, <1>2, <1>3, CrashKeeps, LoopClaimsKeeps DEF Next

\* The inductive invariant of a durable task.
THEOREM Invariance == Spec => []IInv
  BY InitInv, NextKeeps, PTL DEF Spec

\* The counters of the iteration budget, the checkpoint and the ledger's step
\* index stay in range, with refunds and resumes.
THEOREM TypeCorrect == Spec => []TypeOK
  <1>1. IInv => TypeOK  BY DEF IInv
  <1> QED  BY <1>1, Invariance, PTL

\* Without overlapping drives a logical call happens at most once, however often
\* the process dies and the task is resumed.
THEOREM CallsOnce == Spec => []CallOnce
  <1>1. IInv => CallOnce  BY DEF IInv, Lineage, CallOnce
  <1> QED  BY <1>1, Invariance, PTL

\* ledger_guard implements the promise of the ledger, overlapping drives,
\* timeouts and crashes included: an effect happens at most once per key, under
\* an intent, and only a result of an effect that happened is recorded.
THEOREM LedgerKeepsPromise == Spec => EffectOnce
  <1>1. Init => Promise!Init  BY DEF Init, Promise!Init
  <1>2. ASSUME IInv, [Next]_vars PROVE [Promise!Next]_<<ledger, ran>>
    <2>1. ASSUME NEW d \in Drives, BeginInserts(d) PROVE Promise!Next
      <3>1. KeyOf(d) \in Keys  BY <1>2, KeyInRange DEF IInv
      <3>2. Promise!Intend(KeyOf(d))
        BY <2>1 DEF BeginInserts, history, Promise!Intend
      <3> QED  BY <3>1, <3>2 DEF Promise!Next
    <2>2. ASSUME NEW d \in Drives, Execute(d) PROVE Promise!Next
      <3>1. KeyOf(d) \in Keys  BY <1>2, KeyInRange DEF IInv
      <3>2. ledger[KeyOf(d)] = "intent" /\ ran[KeyOf(d)] = 0
        BY <1>2, <2>2 DEF Execute, IInv, IntentHeldOnce
      <3>3. ran \in [Keys -> Nat]  BY <1>2 DEF IInv, TypeOK
      <3>4. ran' = [ran EXCEPT ![KeyOf(d)] = 1]
        BY <2>2, <3>1, <3>2, <3>3 DEF Execute
      <3>5. Promise!Happen(KeyOf(d))
        BY <2>2, <3>2, <3>4 DEF Execute, Promise!Happen
      <3> QED  BY <3>1, <3>5 DEF Promise!Next
    <2>3. ASSUME NEW d \in Drives, Commit(d) PROVE Promise!Next
      <3>1. KeyOf(d) \in Keys  BY <1>2, KeyInRange DEF IInv
      <3>2. ledger[KeyOf(d)] = "intent" /\ ran[KeyOf(d)] = 1
        BY <1>2, <2>3 DEF Commit, IInv, IntentHeldOnce
      <3>3. Promise!Record(KeyOf(d))
        BY <2>3, <3>2 DEF Commit, history, Promise!Record
      <3> QED  BY <3>1, <3>3 DEF Promise!Next
    <2>4. ASSUME NEW d \in Drives,
                 \/ QuietAction(d) \/ SaveCheckpoint(d)
                 \/ \E s \in TaskStatuses : FinalizeWrites(d, s)
          PROVE  UNCHANGED <<ledger, ran>>
      BY <2>4 DEF QuietAction, RecoveryResumes, RecoveryRejected, RecoveryFails, Consume, WrapUp,
         AnswerDraft, RoundFails, RoundDone, AnswerCalls, DispatchCall, BeginProceeds,
         BeginReplays, TimesOut, CallRaises, TextCallRaises, MarkNextRound,
         MarkCorrected, CheckpointFails, MarkLast, FinalizeReads, FinalizeWrites,
         SaveCheckpoint, history
    <2>5. ASSUME NEW d \in Drives, Run(d) \/ RecoveryClaims(d)
          PROVE  UNCHANGED <<ledger, ran>>
      BY <2>5 DEF Run, RecoveryClaims, history
    <2>6. CASE LoopClaims \/ Crash \/ UNCHANGED vars
      BY <2>6 DEF LoopClaims, Crash, history, vars
    <2> QED
      BY <1>2, <2>1, <2>2, <2>3, <2>4, <2>5, <2>6, DriveSteps DEF Next
  <1> QED  BY <1>1, <1>2, Invariance, PTL DEF Spec, EffectOnce, Promise!Spec
=============================================================================
