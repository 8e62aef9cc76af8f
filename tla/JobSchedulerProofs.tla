------------------------- MODULE JobSchedulerProofs -------------------------
(***************************************************************************)
(* Proofs about JobScheduler, for any number of poll cycles, retries,      *)
(* faults and commands of the owner.                                       *)
(*                                                                         *)
(* Every step names the instants anew (Renames), so the first part says    *)
(* what a renaming leaves alone; the rest never looks inside it.           *)
(***************************************************************************)
EXTENDS JobScheduler, FiniteSetTheorems, WellFoundedInduction, TLAPS

\* Whoever stands for an instant really holds one, and the coming wall-clock
\* instant of a daily schedule is in the future.
Slotted ==
  /\ row.status # "absent" => row.slot # NoSlot
  /\ \A d \in Dispatchers : disp[d].pc # "idle" => disp[d].slot # NoSlot
  /\ kind = "daily" => cadence # NoSlot /\ instants[cadence].when = "future"

\* A running row is stamped, and its claim gets stale only when no poll cycle is
\* at it; before the poll loop starts only run_now dispatches.
Stamped ==
  /\ row.status = "running" => row.claim # "none"
  /\ row.claim = "stale" =>
       row.status = "running" /\ \A d \in Pollers : disp[d].pc = "idle"
  /\ sched \in {"boot", "replay"} => \A d \in Pollers : disp[d].pc = "idle"
  /\ sched = "down" => \A d \in Dispatchers : disp[d].pc = "idle"

\* Whoever is past the claim is alone, and nobody else can claim.
Exclusive ==
  ~overruled =>
    /\ \A d, e \in AtWork : d = e
    /\ AtWork # {} => row.status \in {"running", "absent"}

\* A dispatch that would claim: it has found, or will find, no completed run.
Unaware(d) ==
  \/ disp[d].pc = "claim"
  \/ disp[d].pc = "dedup" /\ instants[disp[d].slot].done = "no"

\* A one-shot: finished says what job_runs holds; the run under way is that of the
\* row's own instant; once it is on record, whoever does not know of it meets a
\* running row, which nobody frees before he has lost the claim.
OneShot ==
  /\ finished => kind = "once" /\ row.status # "absent"
  /\ kind = "once" /\ ~finished => \A s \in Slots : instants[s].done = "no"
  /\ ~overruled /\ kind = "once" /\ row.status # "absent" =>
       /\ \A d \in AtWork : disp[d].slot = row.slot
       /\ finished =>
            /\ instants[row.slot].done # "no"
            /\ \A d \in AtWork : disp[d].pc = "settle" /\ disp[d].outcome = "ok"
            /\ \A d \in Dispatchers : Unaware(d) =>
                 row.status = "running" /\ row.claim = "fresh" /\ sched # "boot"

\* JobTypeOK without the strays, which the rest does not depend on.
TableTypeOK ==
  /\ kind \in Kinds /\ row \in Row /\ instants \in [Slots -> Instant]
  /\ cadence \in Slots \cup {NoSlot} /\ audited \in BOOLEAN
  /\ disp \in [Dispatchers -> Dispatch] /\ reaper \in BOOLEAN
  /\ sched \in {"down", "boot", "replay", "replaying", "up"}
  /\ finished \in BOOLEAN /\ overruled \in BOOLEAN
  /\ faults \in 0..MaxFaults /\ edits \in 0..MaxEdits
  /\ row.status # "absent" => instants[row.slot].when # "free"
  /\ \A d \in Dispatchers :
       disp[d].pc # "idle" => instants[disp[d].slot].when # "free"

IInv == TableTypeOK /\ Slotted /\ Stamped /\ Exclusive /\ OneShot

(***************************************************************************)
(* Renaming.                                                               *)
(***************************************************************************)
\* The least-number principle.
LEMMA Least ==
  ASSUME NEW T, T \subseteq Nat, T # {}
  PROVE  \E x \in T : \A y \in T : x <= y
  <1> DEFINE R == OpToRel(<, Nat)
  <1>1. IsWellFoundedOn(R, Nat)  BY NatLessThanWellFounded
  <1>2. \A x, y \in Nat : x < y => <<x, y>> \in R  BY DEF OpToRel
  <1> HIDE DEF R
  <1>3. PICK x \in T : \A y \in T : ~(<<y, x>> \in R)  BY <1>1, WFMin
  <1>4. \A y \in T : y \in Nat /\ x \in Nat /\ ~(y < x)  BY <1>2, <1>3
  <1>5. \A y \in T : x <= y  BY <1>4
  <1> QED  BY <1>5

\* The names are the numbers from 1 to 3 + MaxPolls.
LEMMA SlotFacts ==
  /\ Slots = 1..(3 + MaxPolls) /\ MaxPolls \in Nat
  /\ Slots \subseteq Nat
  /\ NewSlot \notin Slots /\ NoSlot \notin Slots /\ NewSlot # NoSlot
  /\ RowSlot \in Slots /\ DaySlot \in Slots /\ Dispatchers \subseteq Slots
  /\ RowSlot \notin Dispatchers /\ DaySlot \notin Dispatchers /\ RowSlot # DaySlot
  /\ Now \in Dispatchers /\ Now \notin Pollers /\ Pollers \subseteq Dispatchers
  BY JobAssumption
  DEF Slots, Dispatchers, Pollers, Now, RowSlot, DaySlot, NewSlot, NoSlot

\* What is held has a first holder.
LEMMA FirstFacts ==
  ASSUME NEW g, NEW h \in Slots
  PROVE  First(g, g[h]) \in Slots /\ g[First(g, g[h])] = g[h]
  <1> DEFINE T == {k \in Slots : g[k] = g[h]}
  <1>1. T \subseteq Nat /\ T # {}  BY SlotFacts
  <1> HIDE DEF T
  <1>2. PICK x \in T : \A y \in T : x <= y  BY <1>1, Least
  <1> USE DEF T
  <1>3. x \in Slots /\ g[x] = g[h]  BY <1>2
  <1>4. \A k \in 1..(x - 1) : g[k] # g[h]
    <2> SUFFICES ASSUME NEW k \in 1..(x - 1), g[k] = g[h] PROVE FALSE  OBVIOUS
    <2>1. k \in Slots /\ k < x  BY <1>3, SlotFacts
    <2> QED  BY <1>2, <1>3, <2>1, SlotFacts
  <1>5. \E k \in Slots : g[k] = g[h] /\ \A j \in 1..(k - 1) : g[j] # g[h]
    BY <1>3, <1>4
  <1> HIDE DEF T
  <1> QED  BY <1>5 DEF First

\* Renaming tells held instants apart.
LEMMA NamedFacts ==
  ASSUME NEW g, NEW h \in Slots
  PROVE  /\ Named(g, g[h]) \in Slots \cup {NoSlot}
         /\ Named(g, g[h]) = NoSlot <=> g[h] = NoSlot
         /\ g[h] # NoSlot => Named(g, g[h]) \in Slots /\ g[Named(g, g[h])] = g[h]
         /\ \A k \in Slots : Named(g, g[k]) = Named(g, g[h]) <=> g[k] = g[h]
  <1>1. \A k \in Slots : First(g, g[k]) \in Slots /\ g[First(g, g[k])] = g[k]
    BY FirstFacts
  <1>2. \A k \in Slots : Named(g, g[k]) = NoSlot <=> g[k] = NoSlot
    BY <1>1, SlotFacts DEF Named
  <1>3. g[h] # NoSlot => Named(g, g[h]) \in Slots /\ g[Named(g, g[h])] = g[h]
    BY <1>1 DEF Named
  <1>4. ASSUME NEW k \in Slots, Named(g, g[k]) = Named(g, g[h]) PROVE g[k] = g[h]
    BY <1>1, <1>2, <1>4 DEF Named
  <1> QED  BY <1>2, <1>3, <1>4

\* Places that a statement may write into next_run_at, and rows as it leaves them.
Places == Slots \cup {NoSlot, NewSlot}

WideRow == [status  : {"absent", "pending", "running", "failed"},
            enabled : BOOLEAN, slot : Places, retry : {"none", "wait", "due"},
            retries : 0..(MaxRetries - 1), claim : {"none", "fresh", "stale"}]

\* What Renames may be given: every instant that is held is described.
Fits(r, ds, c, f) ==
  /\ r \in WideRow /\ ds \in [Dispatchers -> Dispatch] /\ c \in Places
  /\ \A s \in Slots : f[s] \in Instant
  /\ r.slot = NewSlot \/ c = NewSlot => f[NewSlot] = Coming

\* What it then makes of the state, without the names.
Renamed(r, ds, c, f) ==
  /\ row' \in Row /\ disp' \in [Dispatchers -> Dispatch]
  /\ cadence' \in Slots \cup {NoSlot} /\ instants' \in [Slots -> Instant]
  /\ row'.status = r.status /\ row'.enabled = r.enabled
  /\ row'.retry = r.retry /\ row'.retries = r.retries
  /\ row'.claim = IF r.status = "running" THEN r.claim ELSE "none"
  /\ row'.slot = NoSlot <=> r.slot = NoSlot
  /\ r.slot # NoSlot =>
       /\ instants'[row'.slot].when = f[r.slot].when
       /\ r.status # "absent" => instants'[row'.slot].done = f[r.slot].done
  /\ \A d \in Dispatchers :
       /\ disp'[d].pc = ds[d].pc /\ disp'[d].outcome = ds[d].outcome
       /\ disp'[d].slot = NoSlot <=> ds[d].slot = NoSlot
       /\ disp'[d].slot = row'.slot <=> ds[d].slot = r.slot
       /\ ds[d].slot # NoSlot =>
            /\ instants'[disp'[d].slot].when = f[ds[d].slot].when
            /\ r.status # "absent" => instants'[disp'[d].slot].done = f[ds[d].slot].done
  /\ cadence' = NoSlot <=> c = NoSlot
  /\ c # NoSlot => instants'[cadence'].when = f[c].when
  /\ finished' = (/\ ~Recurring /\ r.status # "absent"
                  /\ finished \/ \E h \in Slots : f[h].done # "no")
  /\ (\A h \in Slots : f[h].done = "no") \/ r.status = "absent" =>
       \A h \in Slots : instants'[h].done = "no"

LEMMA RenamesFacts ==
  ASSUME NEW r, NEW ds, NEW c, NEW f, Fits(r, ds, c, f), Renames(r, ds, c, f)
  PROVE  Renamed(r, ds, c, f)
  <1> DEFINE g == Holding(r, ds, c)
  <1>1. /\ r \in WideRow /\ ds \in [Dispatchers -> Dispatch] /\ c \in Places
        /\ \A s \in Slots : f[s] \in Instant
        /\ r.slot = NewSlot \/ c = NewSlot => f[NewSlot] = Coming
    BY DEF Fits
  <1>2. /\ g[RowSlot] = r.slot /\ g[DaySlot] = c
        /\ \A d \in Dispatchers : g[d] = ds[d].slot
    BY SlotFacts DEF Holding
  <1>3. \A h \in Slots : g[h] \in Places
                        /\ (g[h] = NewSlot => r.slot = NewSlot \/ c = NewSlot)
    BY <1>1, SlotFacts DEF Holding, WideRow, Dispatch, Places, Slots
  <1>4. /\ row' = [r EXCEPT !.slot = Named(g, r.slot),
                           !.claim = IF r.status = "running" THEN r.claim ELSE "none"]
        /\ disp' = [d \in Dispatchers |-> [ds[d] EXCEPT !.slot = Named(g, ds[d].slot)]]
        /\ cadence' = Named(g, c)
        /\ instants' = [h \in Slots |->
              IF Named(g, g[h]) # h THEN Unused
              ELSE IF r.status = "absent" THEN [f[g[h]] EXCEPT !.done = "no"]
              ELSE f[g[h]]]
        /\ finished' = (/\ ~Recurring /\ r.status # "absent"
                        /\ finished \/ \E h \in Slots : f[h].done # "no")
    BY DEF Renames
  <1> HIDE DEF g
  <1>5. \A h \in Slots :
          /\ Named(g, g[h]) \in Slots \cup {NoSlot}
          /\ Named(g, g[h]) = NoSlot <=> g[h] = NoSlot
          /\ g[h] # NoSlot => Named(g, g[h]) \in Slots /\ g[Named(g, g[h])] = g[h]
          /\ \A k \in Slots : Named(g, g[k]) = Named(g, g[h]) <=> g[k] = g[h]
    BY NamedFacts
  <1>6. \A h \in Slots : g[h] # NoSlot => f[g[h]] \in Instant
    BY <1>1, <1>3 DEF Places, Coming, Instant
  <1>7. \A h \in Slots : g[h] # NoSlot =>
          /\ instants'[Named(g, g[h])].when = f[g[h]].when
          /\ r.status # "absent" => instants'[Named(g, g[h])].done = f[g[h]].done
    <2> SUFFICES ASSUME NEW h \in Slots, g[h] # NoSlot
                 PROVE  /\ instants'[Named(g, g[h])].when = f[g[h]].when
                        /\ r.status # "absent" =>
                             instants'[Named(g, g[h])].done = f[g[h]].done
      OBVIOUS
    <2> DEFINE n == Named(g, g[h])
    <2>1. n \in Slots /\ g[n] = g[h] /\ Named(g, g[n]) = n  BY <1>5
    <2> HIDE DEF n
    <2>2. instants'[n] = IF r.status = "absent" THEN [f[g[h]] EXCEPT !.done = "no"]
                         ELSE f[g[h]]
      BY <1>4, <2>1
    <2>3. f[g[h]] \in Instant  BY <1>6
    <2>4. instants'[n].when = f[g[h]].when
          /\ (r.status # "absent" => instants'[n].done = f[g[h]].done)
      BY <2>2, <2>3 DEF Instant
    <2> QED  BY <2>4 DEF n
  <1>8. instants' \in [Slots -> Instant]
    <2>1. ASSUME NEW h \in Slots PROVE instants'[h] \in Instant
      <3>1. CASE Named(g, g[h]) # h  BY <1>4, <3>1 DEF Unused, Instant
      <3>2. CASE Named(g, g[h]) = h
        <4>1. f[g[h]] \in Instant  BY <1>5, <1>6, <3>2, SlotFacts
        <4>2. [f[g[h]] EXCEPT !.done = "no"] \in Instant  BY <4>1 DEF Instant
        <4> QED  BY <1>4, <3>2, <4>1, <4>2
      <3> QED  BY <3>1, <3>2
    <2> QED  BY <1>4, <2>1
  <1>9. /\ Named(g, r.slot) \in Slots \cup {NoSlot} /\ Named(g, c) \in Slots \cup {NoSlot}
        /\ \A d \in Dispatchers : Named(g, ds[d].slot) \in Slots \cup {NoSlot}
    BY <1>2, <1>5, SlotFacts
  <1>10. /\ row' \in Row
         /\ row'.status = r.status /\ row'.enabled = r.enabled
         /\ row'.retry = r.retry /\ row'.retries = r.retries
         /\ row'.claim = IF r.status = "running" THEN r.claim ELSE "none"
         /\ row'.slot = Named(g, r.slot)
    <2> DEFINE cl == IF r.status = "running" THEN r.claim ELSE "none"
               nm == Named(g, r.slot)
    <2>1. cl \in {"none", "fresh", "stale"} /\ nm \in Slots \cup {NoSlot}
      BY <1>1, <1>9 DEF WideRow
    <2>2. row' = [r EXCEPT !.slot = nm, !.claim = cl]  BY <1>4
    <2> HIDE DEF cl, nm
    <2>3. row' \in Row /\ row'.status = r.status /\ row'.enabled = r.enabled
          /\ row'.retry = r.retry /\ row'.retries = r.retries
          /\ row'.claim = cl /\ row'.slot = nm
      BY <1>1, <2>1, <2>2 DEF WideRow, Row
    <2> QED  BY <2>3 DEF cl, nm
  <1>11. /\ disp' \in [Dispatchers -> Dispatch]
         /\ \A d \in Dispatchers : /\ disp'[d].pc = ds[d].pc
                                   /\ disp'[d].outcome = ds[d].outcome
                                   /\ disp'[d].slot = Named(g, ds[d].slot)
    BY <1>1, <1>4, <1>9 DEF Dispatch
  <1>12. /\ row'.slot = NoSlot <=> r.slot = NoSlot
         /\ r.slot # NoSlot =>
              /\ instants'[row'.slot].when = f[r.slot].when
              /\ r.status # "absent" => instants'[row'.slot].done = f[r.slot].done
    BY <1>2, <1>5, <1>7, <1>10, SlotFacts
  <1>13. \A d \in Dispatchers :
           /\ disp'[d].slot = NoSlot <=> ds[d].slot = NoSlot
           /\ disp'[d].slot = row'.slot <=> ds[d].slot = r.slot
           /\ ds[d].slot # NoSlot =>
                /\ instants'[disp'[d].slot].when = f[ds[d].slot].when
                /\ r.status # "absent" => instants'[disp'[d].slot].done = f[ds[d].slot].done
    BY <1>2, <1>5, <1>7, <1>10, <1>11, SlotFacts
  <1>14. /\ cadence' \in Slots \cup {NoSlot}
         /\ cadence' = NoSlot <=> c = NoSlot
         /\ c # NoSlot => instants'[cadence'].when = f[c].when
    BY <1>2, <1>4, <1>5, <1>7, <1>9, SlotFacts
  <1>15. (\A h \in Slots : f[h].done = "no") \/ r.status = "absent" =>
           \A h \in Slots : instants'[h].done = "no"
    <2> SUFFICES ASSUME (\A k \in Slots : f[k].done = "no") \/ r.status = "absent",
                        NEW h \in Slots
                 PROVE  instants'[h].done = "no"
      OBVIOUS
    <2>1. CASE Named(g, g[h]) # h  BY <1>4, <2>1 DEF Unused
    <2>2. CASE Named(g, g[h]) = h
      <3>1. g[h] # NoSlot /\ f[g[h]] \in Instant  BY <1>5, <1>6, <2>2, SlotFacts
      <3>2. CASE r.status = "absent"
        <4>1. instants'[h] = [f[g[h]] EXCEPT !.done = "no"]  BY <1>4, <2>2, <3>2
        <4> QED  BY <3>1, <4>1 DEF Instant
      <3>3. CASE r.status # "absent"
        <4>1. instants'[h] = f[g[h]]  BY <1>4, <2>2, <3>3
        <4>2. g[h] \in Slots \/ (g[h] = NewSlot /\ f[NewSlot] = Coming)
          BY <1>1, <1>3, <3>1 DEF Places
        <4> QED  BY <3>3, <4>1, <4>2 DEF Coming
      <3> QED  BY <3>2, <3>3
    <2> QED  BY <2>1, <2>2
  <1> QED
    BY <1>4, <1>8, <1>10, <1>11, <1>12, <1>13, <1>14, <1>15 DEF Renamed

\* What becomes of the strays is shown at the end.
USE DEF Becomes

(***************************************************************************)
(* What is to be shown of a step.                                          *)
(***************************************************************************)
\* Past the claim.
Works(x) == x.pc \in {"run", "record", "settle"}

\* x would claim, and knows of no completed run, when the instants are f.
Blind(x, f) == x.pc = "claim" \/ (x.pc = "dedup" /\ f[x.slot].done = "no")

\* The variables that a step does not hand to Renames.
Aside ==
  /\ kind' = kind /\ audited' \in BOOLEAN /\ reaper' \in BOOLEAN
  /\ sched' \in {"down", "boot", "replay", "replaying", "up"}
  /\ overruled' \in BOOLEAN /\ (overruled => overruled')
  /\ faults' \in 0..MaxFaults /\ edits' \in 0..MaxEdits

\* IInv, of what a step hands to Renames.
Sound(r, ds, c, f) ==
  /\ r.status # "absent" => r.slot # NoSlot /\ f[r.slot].when # "free"
  /\ \A d \in Dispatchers :
       ds[d].pc # "idle" => ds[d].slot # NoSlot /\ f[ds[d].slot].when # "free"
  /\ kind = "daily" => c # NoSlot /\ f[c].when = "future"
  /\ r.status = "running" =>
       /\ r.claim # "none"
       /\ r.claim = "stale" => \A d \in Pollers : ds[d].pc = "idle"
  /\ sched' \in {"boot", "replay"} => \A d \in Pollers : ds[d].pc = "idle"
  /\ sched' = "down" => \A d \in Dispatchers : ds[d].pc = "idle"
  /\ ~overruled' =>
       /\ \A d, e \in Dispatchers : Works(ds[d]) /\ Works(ds[e]) => d = e
       /\ \A d \in Dispatchers : Works(ds[d]) => r.status \in {"running", "absent"}

\* The same of a one-shot.
SoundOnce(r, ds, f) ==
  ~overruled' /\ kind = "once" /\ r.status # "absent" =>
    /\ \A d \in Dispatchers : Works(ds[d]) => ds[d].slot = r.slot
    /\ finished \/ (\E h \in Slots : f[h].done # "no") =>
         /\ f[r.slot].done # "no"
         /\ \A d \in Dispatchers :
              /\ Works(ds[d]) => ds[d].pc = "settle" /\ ds[d].outcome = "ok"
              /\ Blind(ds[d], f) =>
                   r.status = "running" /\ r.claim = "fresh" /\ sched' # "boot"

\* A step that is sound keeps the invariant.
LEMMA StepKeeps ==
  ASSUME NEW r, NEW ds, NEW c, NEW f, Fits(r, ds, c, f), Aside, kind \in Kinds,
         Sound(r, ds, c, f), SoundOnce(r, ds, f), Renames(r, ds, c, f)
  PROVE  IInv'
  <1>0. Renamed(r, ds, c, f)  BY RenamesFacts
  <1>1. /\ row' \in Row /\ disp' \in [Dispatchers -> Dispatch]
        /\ cadence' \in Slots \cup {NoSlot} /\ instants' \in [Slots -> Instant]
        /\ row'.status = r.status
        /\ row'.claim = IF r.status = "running" THEN r.claim ELSE "none"
        /\ row'.slot = NoSlot <=> r.slot = NoSlot
        /\ \A d \in Dispatchers : disp'[d].pc = ds[d].pc /\ disp'[d].outcome = ds[d].outcome
    BY <1>0 DEF Renamed
  <1>2. /\ r.slot # NoSlot =>
             /\ instants'[row'.slot].when = f[r.slot].when
             /\ r.status # "absent" => instants'[row'.slot].done = f[r.slot].done
        /\ \A d \in Dispatchers :
             /\ disp'[d].slot = NoSlot <=> ds[d].slot = NoSlot
             /\ disp'[d].slot = row'.slot <=> ds[d].slot = r.slot
             /\ ds[d].slot # NoSlot =>
                  /\ instants'[disp'[d].slot].when = f[ds[d].slot].when
                  /\ r.status # "absent" =>
                       instants'[disp'[d].slot].done = f[ds[d].slot].done
    BY <1>0 DEF Renamed
  <1>3. /\ cadence' = NoSlot <=> c = NoSlot
        /\ c # NoSlot => instants'[cadence'].when = f[c].when
        /\ finished' = (/\ ~Recurring /\ r.status # "absent"
                        /\ finished \/ \E h \in Slots : f[h].done # "no")
        /\ (\A h \in Slots : f[h].done = "no") \/ r.status = "absent" =>
             \A h \in Slots : instants'[h].done = "no"
    BY <1>0 DEF Renamed
  <1>4. TableTypeOK'
    <2>1. finished' \in BOOLEAN  BY <1>3
    <2>2. row'.status # "absent" => instants'[row'.slot].when # "free"
      BY <1>1, <1>2 DEF Sound
    <2>3. \A d \in Dispatchers :
            disp'[d].pc # "idle" => instants'[disp'[d].slot].when # "free"
      BY <1>1, <1>2 DEF Sound
    <2> QED  BY <1>1, <2>1, <2>2, <2>3 DEF TableTypeOK, Aside
  <1>5. Slotted'  BY <1>1, <1>2, <1>3 DEF Sound, Aside, Slotted
  <1>6. Stamped'
    <2>1. Pollers \subseteq Dispatchers  BY SlotFacts
    <2> QED  BY <1>1, <2>1 DEF Sound, Stamped
  <1>7. AtWork' = {d \in Dispatchers : Works(ds[d])}
    BY <1>1 DEF AtWork, Works
  <1>8. Exclusive'
    BY <1>1, <1>7 DEF Sound, Exclusive
  <1>9. OneShot'
    <2>1. finished' => kind' = "once" /\ row'.status # "absent"
      BY <1>1, <1>3 DEF Aside, Recurring
    <2>2. kind' = "once" /\ ~finished' => \A h \in Slots : instants'[h].done = "no"
      BY <1>3 DEF Aside, Recurring
    <2>3. ASSUME ~overruled', kind' = "once", row'.status # "absent"
          PROVE  /\ \A d \in AtWork' : disp'[d].slot = row'.slot
                 /\ finished' =>
                      /\ instants'[row'.slot].done # "no"
                      /\ \A d \in AtWork' :
                           disp'[d].pc = "settle" /\ disp'[d].outcome = "ok"
                      /\ \A d \in Dispatchers : Unaware(d)' =>
                           row'.status = "running" /\ row'.claim = "fresh" /\ sched' # "boot"
      <3>1. /\ kind = "once" /\ r.status # "absent" /\ r.slot # NoSlot
            /\ finished' = (finished \/ \E h \in Slots : f[h].done # "no")
        BY <1>1, <1>3, <2>3 DEF Aside, Recurring, Sound
      <3>2. \A d \in AtWork' : disp'[d].slot = row'.slot
        BY <1>2, <1>7, <2>3, <3>1 DEF SoundOnce
      <3>3. ASSUME finished'
            PROVE  /\ f[r.slot].done # "no"
                   /\ \A d \in Dispatchers :
                        /\ Works(ds[d]) => ds[d].pc = "settle" /\ ds[d].outcome = "ok"
                        /\ Blind(ds[d], f) =>
                             r.status = "running" /\ r.claim = "fresh" /\ sched' # "boot"
        BY <2>3, <3>1, <3>3 DEF SoundOnce
      <3>4. \A d \in Dispatchers : Unaware(d)' => Blind(ds[d], f)
        <4> SUFFICES ASSUME NEW d \in Dispatchers, Unaware(d)' PROVE Blind(ds[d], f)
          OBVIOUS
        <4>1. CASE disp'[d].pc = "claim"  BY <1>1, <4>1 DEF Blind
        <4>2. CASE disp'[d].pc = "dedup" /\ instants'[disp'[d].slot].done = "no"
          <5>1. ds[d].pc = "dedup" /\ ds[d].slot # NoSlot  BY <1>1, <4>2 DEF Sound
          <5> QED  BY <1>2, <3>1, <4>2, <5>1 DEF Blind
        <4> QED  BY <4>1, <4>2 DEF Unaware
      <3> QED  BY <1>1, <1>2, <1>7, <3>1, <3>2, <3>3, <3>4
    <2> QED  BY <2>1, <2>2, <2>3 DEF OneShot
  <1> QED  BY <1>4, <1>5, <1>6, <1>8, <1>9 DEF IInv

\* The invariant, in the words of a step.
LEMMA Present ==
  ASSUME IInv
  PROVE  /\ kind \in Kinds /\ row \in Row /\ row \in WideRow
         /\ disp \in [Dispatchers -> Dispatch] /\ instants \in [Slots -> Instant]
         /\ cadence \in Slots \cup {NoSlot} /\ cadence \in Places
         /\ row.status # "absent" => row.slot \in Slots /\ instants[row.slot].when # "free"
         /\ \A d \in Dispatchers : disp[d].pc # "idle" =>
              disp[d].slot \in Slots /\ instants[disp[d].slot].when # "free"
         /\ kind = "daily" => cadence \in Slots /\ instants[cadence].when = "future"
         /\ ~overruled =>
              /\ \A d, e \in Dispatchers : Works(disp[d]) /\ Works(disp[e]) => d = e
              /\ \A d \in Dispatchers : Works(disp[d]) => row.status \in {"running", "absent"}
         /\ ~overruled /\ kind = "once" /\ row.status # "absent" =>
              /\ \A d \in Dispatchers : Works(disp[d]) => disp[d].slot = row.slot
              /\ finished =>
                   /\ instants[row.slot].done # "no"
                   /\ \A d \in Dispatchers :
                        /\ Works(disp[d]) => disp[d].pc = "settle" /\ disp[d].outcome = "ok"
                        /\ Blind(disp[d], instants) =>
                             row.status = "running" /\ row.claim = "fresh" /\ sched # "boot"
         /\ kind = "once" => finished \/ \A h \in Slots : ~(instants[h].done # "no")
  <1>1. TableTypeOK /\ Slotted /\ Exclusive /\ OneShot  BY DEF IInv
  <1>2. /\ kind \in Kinds /\ row \in Row /\ disp \in [Dispatchers -> Dispatch]
        /\ instants \in [Slots -> Instant] /\ cadence \in Slots \cup {NoSlot}
    BY <1>1 DEF TableTypeOK
  <1>3. row \in WideRow /\ cadence \in Places  BY <1>2 DEF Row, WideRow, Places
  <1>4. /\ row.status # "absent" => row.slot \in Slots /\ instants[row.slot].when # "free"
        /\ \A d \in Dispatchers : disp[d].pc # "idle" =>
             disp[d].slot \in Slots /\ instants[disp[d].slot].when # "free"
        /\ kind = "daily" => cadence \in Slots /\ instants[cadence].when = "future"
    BY <1>1, <1>2 DEF TableTypeOK, Slotted, Row, Dispatch
  <1>5. AtWork = {d \in Dispatchers : Works(disp[d])}  BY DEF AtWork, Works
  <1>6. ~overruled =>
          /\ \A d, e \in Dispatchers : Works(disp[d]) /\ Works(disp[e]) => d = e
          /\ \A d \in Dispatchers : Works(disp[d]) => row.status \in {"running", "absent"}
    BY <1>1, <1>5 DEF Exclusive
  <1>7. ~overruled /\ kind = "once" /\ row.status # "absent" =>
          /\ \A d \in Dispatchers : Works(disp[d]) => disp[d].slot = row.slot
          /\ finished =>
               /\ instants[row.slot].done # "no"
               /\ \A d \in Dispatchers :
                    /\ Works(disp[d]) => disp[d].pc = "settle" /\ disp[d].outcome = "ok"
                    /\ Blind(disp[d], instants) =>
                         row.status = "running" /\ row.claim = "fresh" /\ sched # "boot"
    BY <1>1, <1>5 DEF OneShot, Unaware, Blind
  <1>8. kind = "once" => finished \/ \A h \in Slots : ~(instants[h].done # "no")
    BY <1>1 DEF OneShot
  <1> QED  BY <1>2, <1>3, <1>4, <1>6, <1>7, <1>8

\* One dispatch moves, and the table stays as it is.
LEMMA MoveKeeps ==
  ASSUME IInv, Aside, NEW d \in Dispatchers, NEW x \in Dispatch, overruled' = overruled,
         Renames(row, [disp EXCEPT ![d] = x], cadence, instants),
         x.pc # "idle" =>
           /\ x.slot \in Slots /\ instants[x.slot].when # "free"
           /\ d \in Pollers => row.claim # "stale" /\ sched' \notin {"boot", "replay"}
           /\ sched' # "down",
         Works(x) => Works(disp[d]) /\ x.slot = disp[d].slot,
         finished /\ Works(x) /\ ~overruled => x.pc = "settle" /\ x.outcome = "ok",
         finished /\ Blind(x, instants) /\ ~overruled =>
           row.status = "running" /\ row.claim = "fresh",
         finished /\ Blind(x, instants) /\ ~overruled => sched' # "boot",
         sched' = sched \/ (sched' \notin {"down", "boot", "replay"})
  PROVE  IInv'
  <1> DEFINE ds == [disp EXCEPT ![d] = x]
  <1>0. /\ kind \in Kinds /\ row \in WideRow /\ cadence \in Places
        /\ disp \in [Dispatchers -> Dispatch] /\ instants \in [Slots -> Instant]
    BY Present
  <1>1. /\ ds \in [Dispatchers -> Dispatch] /\ ds[d] = x
        /\ \A e \in Dispatchers : e # d => ds[e] = disp[e]
    BY <1>0
  <1> HIDE DEF ds
  <1>2. row.slot # NewSlot /\ cadence # NewSlot
    BY Present, SlotFacts DEF Row
  <1>3. Fits(row, ds, cadence, instants)  BY <1>0, <1>1, <1>2 DEF Fits
  <1>4. Sound(row, ds, cadence, instants)
    <2>1. /\ row.status # "absent" => row.slot # NoSlot /\ instants[row.slot].when # "free"
          /\ \A e \in Dispatchers :
               ds[e].pc # "idle" => ds[e].slot # NoSlot /\ instants[ds[e].slot].when # "free"
          /\ kind = "daily" => cadence # NoSlot /\ instants[cadence].when = "future"
      BY <1>1, Present, SlotFacts
    <2>2. /\ row.status = "running" =>
               /\ row.claim # "none"
               /\ row.claim = "stale" => \A e \in Pollers : ds[e].pc = "idle"
          /\ sched' \in {"boot", "replay"} => \A e \in Pollers : ds[e].pc = "idle"
          /\ sched' = "down" => \A e \in Dispatchers : ds[e].pc = "idle"
      BY <1>1, SlotFacts DEF IInv, Stamped
    <2>3. ~overruled' =>
            /\ \A e, k \in Dispatchers : Works(ds[e]) /\ Works(ds[k]) => e = k
            /\ \A e \in Dispatchers : Works(ds[e]) => row.status \in {"running", "absent"}
      BY <1>1, Present
    <2> QED  BY <2>1, <2>2, <2>3 DEF Sound
  <1>5. SoundOnce(row, ds, instants)
    <2> SUFFICES ASSUME ~overruled', kind = "once", row.status # "absent"
                 PROVE  SoundOnce(row, ds, instants)
      BY DEF SoundOnce
    <2>1. \A e \in Dispatchers : Works(ds[e]) => ds[e].slot = row.slot
      BY <1>1, Present
    <2>2. ASSUME finished \/ \E h \in Slots : instants[h].done # "no"
          PROVE  /\ instants[row.slot].done # "no"
                 /\ \A e \in Dispatchers :
                      /\ Works(ds[e]) => ds[e].pc = "settle" /\ ds[e].outcome = "ok"
                      /\ Blind(ds[e], instants) =>
                           row.status = "running" /\ row.claim = "fresh" /\ sched' # "boot"
      <3>1. finished /\ ~overruled  BY <2>2, Present
      <3>2. /\ instants[row.slot].done # "no"
            /\ \A e \in Dispatchers :
                 /\ Works(disp[e]) => disp[e].pc = "settle" /\ disp[e].outcome = "ok"
                 /\ Blind(disp[e], instants) =>
                      row.status = "running" /\ row.claim = "fresh" /\ sched # "boot"
        BY <3>1, Present
      <3> QED  BY <1>1, <3>1, <3>2
    <2> QED  BY <2>1, <2>2 DEF SoundOnce
  <1>6. Renames(row, ds, cadence, instants)  BY DEF ds
  <1> QED  BY <1>0, <1>3, <1>4, <1>5, <1>6, StepKeeps

\* Instants that only a recurring job's run has been recorded in.
Kept(f) ==
  \A h \in Slots :
    /\ f[h] \in Instant /\ f[h].when = instants[h].when
    /\ kind = "once" => f[h] = instants[h]

\* A dispatch is over, and leaves r and f.
LEMMA StopKeeps ==
  ASSUME IInv, Aside, NEW d \in Dispatchers, NEW r \in WideRow, NEW f,
         Renames(r, Stop(d), cadence, f), Kept(f),
         sched' = sched, overruled' = overruled,
         r.slot = NewSlot => f[NewSlot] = Coming,
         r.status # "absent" => r.slot # NoSlot /\ f[r.slot].when # "free",
         r.status = "running" => row.status = "running" /\ r.claim = row.claim,
         r.status \in {row.status, "absent"} \/ Works(disp[d]),
         kind = "once" => r.slot = row.slot \/ r.status = "absent" \/ Works(disp[d]),
         finished /\ r.status # "absent" /\ ~overruled =>
           r.slot = row.slot /\ r.status = row.status
  PROVE  IInv'
  <1> DEFINE ds == Stop(d)
  <1>0. /\ kind \in Kinds /\ cadence \in Places
        /\ disp \in [Dispatchers -> Dispatch] /\ instants \in [Slots -> Instant]
    BY Present
  <1>1. /\ ds \in [Dispatchers -> Dispatch] /\ ds[d].pc = "idle"
        /\ \A e \in Dispatchers : e # d => ds[e] = disp[e]
        /\ ~Works(ds[d]) /\ ~Blind(ds[d], f)
    BY <1>0, JobAssumption DEF Stop, Idle, Dispatch, Works, Blind
  <1> HIDE DEF ds
  <1>2. cadence # NewSlot  BY Present, SlotFacts
  <1>3. Fits(r, ds, cadence, f)  BY <1>0, <1>1, <1>2 DEF Fits, Kept
  <1>4. Sound(r, ds, cadence, f)
    <2>1. /\ \A e \in Dispatchers :
               ds[e].pc # "idle" => ds[e].slot # NoSlot /\ f[ds[e].slot].when # "free"
          /\ kind = "daily" => cadence # NoSlot /\ f[cadence].when = "future"
      <3>1. \A h \in Slots : h # NoSlot /\ f[h].when = instants[h].when
        BY SlotFacts DEF Kept
      <3>2. ASSUME NEW e \in Dispatchers, ds[e].pc # "idle"
            PROVE  ds[e].slot # NoSlot /\ f[ds[e].slot].when # "free"
        <4>1. ds[e] = disp[e]  BY <1>1, <3>2
        <4>2. disp[e].slot \in Slots /\ instants[disp[e].slot].when # "free"
          BY <3>2, <4>1, Present
        <4> QED  BY <3>1, <4>1, <4>2
      <3>3. ASSUME kind = "daily" PROVE cadence # NoSlot /\ f[cadence].when = "future"
        <4>1. cadence \in Slots /\ instants[cadence].when = "future"  BY <3>3, Present
        <4> QED  BY <3>1, <4>1
      <3> QED  BY <3>2, <3>3
    <2>2. /\ r.status = "running" =>
               /\ r.claim # "none"
               /\ r.claim = "stale" => \A e \in Pollers : ds[e].pc = "idle"
          /\ sched' \in {"boot", "replay"} => \A e \in Pollers : ds[e].pc = "idle"
          /\ sched' = "down" => \A e \in Dispatchers : ds[e].pc = "idle"
      BY <1>1, SlotFacts DEF IInv, Stamped
    <2>3. ~overruled' =>
            /\ \A e, k \in Dispatchers : Works(ds[e]) /\ Works(ds[k]) => e = k
            /\ \A e \in Dispatchers : Works(ds[e]) => r.status \in {"running", "absent"}
      BY <1>1, Present
    <2> QED  BY <2>1, <2>2, <2>3 DEF Sound
  <1>5. SoundOnce(r, ds, f)
    <2> SUFFICES ASSUME ~overruled', kind = "once", r.status # "absent"
                 PROVE  SoundOnce(r, ds, f)
      BY DEF SoundOnce
    <2>0. row.status # "absent" \/ Works(disp[d])  OBVIOUS
    <2>1. \A e \in Dispatchers : Works(ds[e]) => ds[e].slot = r.slot
      BY <1>1, Present
    <2>2. ASSUME finished \/ \E h \in Slots : f[h].done # "no"
          PROVE  /\ f[r.slot].done # "no"
                 /\ \A e \in Dispatchers :
                      /\ Works(ds[e]) => ds[e].pc = "settle" /\ ds[e].outcome = "ok"
                      /\ Blind(ds[e], f) =>
                           r.status = "running" /\ r.claim = "fresh" /\ sched' # "boot"
      <3>1. finished /\ ~overruled  BY <2>2, Present DEF Kept
      <3>2. r.slot = row.slot /\ r.status = row.status /\ row.slot \in Slots
        BY <3>1, Present
      <3>3. /\ instants[row.slot].done # "no"
            /\ \A e \in Dispatchers :
                 /\ Works(disp[e]) => disp[e].pc = "settle" /\ disp[e].outcome = "ok"
                 /\ Blind(disp[e], instants) =>
                      row.status = "running" /\ row.claim = "fresh" /\ sched # "boot"
        BY <3>1, <3>2, Present
      <3>4. \A e \in Dispatchers : e # d /\ Blind(ds[e], f) => Blind(disp[e], instants)
        <4> SUFFICES ASSUME NEW e \in Dispatchers, e # d, Blind(ds[e], f)
                     PROVE  Blind(disp[e], instants)
          OBVIOUS
        <4>1. disp[e].pc # "idle" /\ ds[e] = disp[e]  BY <1>1 DEF Blind
        <4>2. f[disp[e].slot] = instants[disp[e].slot]  BY <4>1, Present DEF Kept
        <4> QED  BY <4>1, <4>2 DEF Blind
      <3>5. f[r.slot].done # "no"  BY <3>2, <3>3 DEF Kept
      <3> QED  BY <1>1, <3>2, <3>3, <3>4, <3>5
    <2> QED  BY <2>1, <2>2 DEF SoundOnce
  <1>6. Renames(r, ds, cadence, f)  BY DEF ds
  <1> QED  BY <1>0, <1>3, <1>4, <1>5, <1>6, StepKeeps

\* The dispatches stay as they are.
LEMMA StayKeeps ==
  ASSUME IInv, Aside, NEW r \in WideRow, NEW f,
         Renames(r, disp, cadence, f), \A h \in Slots : f[h] = instants[h],
         r.slot = NewSlot => f[NewSlot] = Coming,
         r.status # "absent" => r.slot # NoSlot /\ f[r.slot].when # "free",
         r.status = "running" => row.status = "running" /\ r.claim = row.claim,
         sched' = sched \/ sched' \in {"replaying", "up"}
           \/ (sched = "boot" /\ sched' = "replay"),
         ~overruled' /\ r.status # "absent" /\ (\E d \in Dispatchers : Works(disp[d])) =>
           r.status = row.status /\ r.slot = row.slot,
         ~overruled' /\ finished /\ r.status # "absent" =>
           /\ r.slot = row.slot
           /\ \/ r.status = row.status
              \/ \A d \in Dispatchers : ~Blind(disp[d], instants)
  PROVE  IInv'
  <1>0. /\ kind \in Kinds /\ cadence \in Places
        /\ disp \in [Dispatchers -> Dispatch] /\ instants \in [Slots -> Instant]
    BY Present
  <1>1. ~overruled' => ~overruled  BY DEF Aside
  <1>2. cadence # NewSlot  BY Present, SlotFacts
  <1>3. Fits(r, disp, cadence, f)  BY <1>0, <1>2 DEF Fits
  <1>4. Sound(r, disp, cadence, f)
    <2>1. /\ \A e \in Dispatchers :
               disp[e].pc # "idle" => disp[e].slot # NoSlot /\ f[disp[e].slot].when # "free"
          /\ kind = "daily" => cadence # NoSlot /\ f[cadence].when = "future"
      <3>1. \A h \in Slots : h # NoSlot /\ f[h] = instants[h]  BY SlotFacts
      <3> QED  BY <3>1, Present
    <2>2. /\ r.status = "running" =>
               /\ r.claim # "none"
               /\ r.claim = "stale" => \A e \in Pollers : disp[e].pc = "idle"
          /\ sched' \in {"boot", "replay"} => \A e \in Pollers : disp[e].pc = "idle"
          /\ sched' = "down" => \A e \in Dispatchers : disp[e].pc = "idle"
      BY DEF IInv, Stamped
    <2>3. ~overruled' =>
            /\ \A e, k \in Dispatchers : Works(disp[e]) /\ Works(disp[k]) => e = k
            /\ \A e \in Dispatchers : Works(disp[e]) => r.status \in {"running", "absent"}
      BY <1>1, Present
    <2> QED  BY <2>1, <2>2, <2>3 DEF Sound
  <1>5. SoundOnce(r, disp, f)
    <2> SUFFICES ASSUME ~overruled', kind = "once", r.status # "absent"
                 PROVE  SoundOnce(r, disp, f)
      BY DEF SoundOnce
    <2>1. \A e \in Dispatchers : Works(disp[e]) => disp[e].slot = r.slot
      BY <1>1, Present
    <2>2. ASSUME finished \/ \E h \in Slots : f[h].done # "no"
          PROVE  /\ f[r.slot].done # "no"
                 /\ \A e \in Dispatchers :
                      /\ Works(disp[e]) => disp[e].pc = "settle" /\ disp[e].outcome = "ok"
                      /\ Blind(disp[e], f) =>
                           r.status = "running" /\ r.claim = "fresh" /\ sched' # "boot"
      <3>1. finished /\ ~overruled  BY <1>1, <2>2, Present
      <3>2. r.slot = row.slot /\ row.status # "absent" /\ row.slot \in Slots
        BY <3>1, Present DEF IInv, OneShot
      <3>3. /\ instants[row.slot].done # "no"
            /\ \A e \in Dispatchers :
                 /\ Works(disp[e]) => disp[e].pc = "settle" /\ disp[e].outcome = "ok"
                 /\ Blind(disp[e], instants) =>
                      row.status = "running" /\ row.claim = "fresh" /\ sched # "boot"
        BY <3>1, <3>2, Present
      <3>4. \A e \in Dispatchers : Blind(disp[e], f) => Blind(disp[e], instants)
        <4> SUFFICES ASSUME NEW e \in Dispatchers, Blind(disp[e], f)
                     PROVE  Blind(disp[e], instants)
          OBVIOUS
        <4>1. disp[e].pc # "idle"  BY DEF Blind
        <4>2. f[disp[e].slot] = instants[disp[e].slot]  BY <4>1, Present
        <4> QED  BY <4>2 DEF Blind
      <3>5. f[r.slot].done # "no"  BY <3>2, <3>3
      <3>6. ASSUME NEW e \in Dispatchers, Blind(disp[e], f)
            PROVE  r.status = "running" /\ r.claim = "fresh" /\ sched' # "boot"
        <4>1. Blind(disp[e], instants)  BY <3>4, <3>6
        <4>2. row.status = "running" /\ row.claim = "fresh" /\ sched # "boot"
          BY <3>3, <4>1
        <4>3. r.status = row.status  BY <3>1, <4>1
        <4> QED  BY <4>2, <4>3
      <3> QED  BY <3>3, <3>5, <3>6
    <2> QED  BY <2>1, <2>2 DEF SoundOnce
  <1> QED  BY <1>0, <1>3, <1>4, <1>5, StepKeeps

\* Nothing but the process moves.
LEMMA StillKeeps ==
  ASSUME IInv, Aside, UNCHANGED <<row, instants, cadence, disp, finished, overruled>>,
         \/ sched' \in {sched, "up"} \/ (sched = "down" /\ sched' = "boot")
         \/ (sched = "boot" /\ sched' = "replay")
  PROVE  IInv'
  <1>1. TableTypeOK'  BY DEF IInv, TableTypeOK, Aside
  <1>2. Slotted'  BY DEF IInv, Slotted, Aside
  <1>3. Stamped'  BY SlotFacts DEF IInv, Stamped
  <1>4. AtWork' = AtWork  BY DEF AtWork
  <1>5. Exclusive'  BY <1>4 DEF IInv, Exclusive
  <1>6. OneShot'
    <2>1. \A d \in Dispatchers : Unaware(d)' => Unaware(d)  BY DEF Unaware
    <2>2. sched' = "boot" /\ sched # "boot" => \A d \in Dispatchers : ~Unaware(d)
      BY DEF IInv, Stamped, Unaware
    <2> QED  BY <1>4, <2>1, <2>2 DEF IInv, OneShot, Aside
  <1> QED  BY <1>1, <1>2, <1>3, <1>5, <1>6 DEF IInv

(***************************************************************************)
(* Pieces of the actions.                                                  *)
(***************************************************************************)
\* A step that leaves the process alone, whether or not a statement fails.
LEMMA QuietAside ==
  ASSUME IInv, UNCHANGED <<kind, reaper, sched, edits, overruled>>, audited' \in BOOLEAN,
         NoFault \/ Fault
  PROVE  Aside
  BY JobAssumption DEF IInv, TableTypeOK, Aside, NoFault, Fault

\* The same of RowOnly.
LEMMA RowOnlyAside ==
  ASSUME IInv, RowOnly, NoFault \/ Fault
  PROVE  Aside /\ sched' = sched /\ overruled' = overruled
  BY QuietAside DEF RowOnly, IInv, TableTypeOK

\* A run on record is that of a one-shot whose row is there.
LEMMA FinishedFacts == ASSUME IInv, finished PROVE kind = "once" /\ row.status # "absent"
  BY DEF IInv, OneShot

\* Opening an instant leaves the others.
LEMMA OpenedFacts ==
  ASSUME IInv
  PROVE  /\ \A h \in Slots : Opened[h] = instants[h]
         /\ Opened[NewSlot] = Coming
         /\ Kept(Opened) /\ Kept(instants)
  <1>1. (\A h \in Slots : Opened[h] = instants[h]) /\ Opened[NewSlot] = Coming
    BY SlotFacts DEF Opened
  <1>2. \A h \in Slots : instants[h] \in Instant  BY Present
  <1> QED  BY <1>1, <1>2 DEF Kept

\* compute_next_run gives an instant to come.
LEMMA NextSlotFacts ==
  ASSUME IInv, Recurring
  PROVE  /\ NextSlot \in Places /\ NextSlot # NoSlot
         /\ Opened[NextSlot].when # "free"
  <1>1. CASE kind = "daily"
    <2>1. cadence \in Slots /\ instants[cadence].when = "future"  BY <1>1, Present
    <2> QED  BY <1>1, <2>1, OpenedFacts, SlotFacts DEF NextSlot, Places
  <1>2. CASE kind # "daily"
    BY <1>2, OpenedFacts, SlotFacts DEF NextSlot, Places, Coming
  <1> QED  BY <1>1, <1>2

\* The deleted row.
LEMMA NoRowFacts ==
  NoRow \in WideRow /\ NoRow.status = "absent" /\ NoRow.slot = NoSlot
  BY JobAssumption DEF NoRow, WideRow, Places

\* A dispatch goes on with the job it has read.
LEMMA GoFacts ==
  ASSUME IInv, NEW d \in Dispatchers,
         NEW p \in {"dedup", "skip", "claim", "run", "record", "settle"}
  PROVE  \E x \in Dispatch :
           /\ Go(d, p) = [disp EXCEPT ![d] = x]
           /\ x.pc = p /\ x.slot = disp[d].slot /\ x.outcome = disp[d].outcome
  <1> DEFINE x == [disp[d] EXCEPT !.pc = p]
  <1>1. disp[d] \in Dispatch /\ disp \in [Dispatchers -> Dispatch]  BY Present
  <1>2. x \in Dispatch /\ x.pc = p /\ x.slot = disp[d].slot /\ x.outcome = disp[d].outcome
    BY <1>1 DEF Dispatch
  <1>3. Go(d, p) = [disp EXCEPT ![d] = x]  BY <1>1 DEF Go
  <1> QED  BY <1>2, <1>3

\* A dispatch stops, and the table stays as it is.
LEMMA QuitKeeps ==
  ASSUME IInv, Aside, NEW d \in Dispatchers, sched' = sched, overruled' = overruled,
         Renames(row, Stop(d), cadence, instants)
  PROVE  IInv'
  <1>1. row \in WideRow /\ row.slot # NewSlot  BY Present, SlotFacts DEF Row
  <1>2. row.status # "absent" => row.slot # NoSlot /\ instants[row.slot].when # "free"
    BY Present, SlotFacts
  <1>3. Kept(instants)  BY OpenedFacts
  <1> QED  BY <1>1, <1>2, <1>3, StopKeeps

\* The row is gone, and with it the dispatch.
LEMMA DeleteKeeps ==
  ASSUME IInv, Aside, NEW d \in Dispatchers, sched' = sched, overruled' = overruled,
         Renames(NoRow, Stop(d), cadence, instants)
  PROVE  IInv'
  <1>1. Kept(instants)  BY OpenedFacts
  <1> QED  BY <1>1, NoRowFacts, SlotFacts, StopKeeps

\* A dispatch past its claim frees the row of a job that has no run on record.
LEMMA FreeKeeps ==
  ASSUME IInv, Aside, NEW d \in Dispatchers, NEW r \in WideRow, NEW f,
         sched' = sched, overruled' = overruled, Works(disp[d]),
         Renames(Write(r), Stop(d), cadence, f), Kept(f),
         r.slot = NewSlot => f[NewSlot] = Coming,
         row.status # "absent" => r.slot # NoSlot /\ f[r.slot].when # "free",
         r.status \in {"pending", "failed"},
         finished => overruled
  PROVE  IInv'
  <1>1. CASE row.status = "absent"
    <2>1. Write(r) = row  BY <1>1 DEF Write
    <2>2. row \in WideRow /\ row.slot # NewSlot  BY Present, SlotFacts DEF Row
    <2> QED  BY <1>1, <2>1, <2>2, StopKeeps
  <1>2. CASE row.status # "absent"
    <2>1. Write(r) = r  BY <1>2 DEF Write
    <2> QED  BY <1>2, <2>1, StopKeeps
  <1> QED  BY <1>1, <1>2

(***************************************************************************)
(* The steps of a dispatch.                                                *)
(***************************************************************************)
\* Whoever reads a row that is there holds its instant; a one-shot's run that is
\* on record is on record for it.
LEMMA ReadsFacts ==
  ASSUME IInv, NEW d \in Dispatchers, NEW p \in {"dedup", "claim"}, row.status # "absent",
         p = "claim" => kind # "once"
  PROVE  \E x \in Dispatch :
           /\ ReadsRow(d, p) = [disp EXCEPT ![d] = x]
           /\ x.pc = p /\ x.slot \in Slots /\ instants[x.slot].when # "free"
           /\ ~Works(x) /\ (finished /\ ~overruled => ~Blind(x, instants))
  <1> DEFINE x == [pc |-> p, slot |-> row.slot, retries |-> row.retries, outcome |-> "none"]
  <1>1. row \in Row /\ row.slot \in Slots /\ instants[row.slot].when # "free"  BY Present
  <1>2. x \in Dispatch /\ x.pc = p /\ x.slot = row.slot  BY <1>1 DEF Row, Dispatch
  <1>3. ReadsRow(d, p) = [disp EXCEPT ![d] = x]  BY DEF ReadsRow
  <1> HIDE DEF x
  <1>4. finished /\ ~overruled => ~Blind(x, instants)
    <2> SUFFICES ASSUME finished, ~overruled PROVE ~Blind(x, instants)  OBVIOUS
    <2>1. kind = "once" /\ instants[row.slot].done # "no"  BY FinishedFacts, Present
    <2> QED  BY <1>2, <2>1 DEF Blind
  <1> QED  BY <1>1, <1>2, <1>3, <1>4 DEF Works

\* _poll takes a due row.
LEMMA PollSelectsKeeps == ASSUME IInv, NEW d \in Pollers, PollSelects(d) PROVE IInv'
  <1>1. /\ d \in Dispatchers /\ Aside /\ sched' = sched /\ overruled' = overruled
        /\ sched = "up" /\ row.status = "pending"
        /\ Renames(row, ReadsRow(d, "dedup"), cadence, instants)
    BY RowOnlyAside, SlotFacts DEF PollSelects, Due
  <1>2. row.claim # "stale"  BY <1>1 DEF IInv, Stamped
  <1>3. PICK x \in Dispatch :
          /\ ReadsRow(d, "dedup") = [disp EXCEPT ![d] = x]
          /\ x.pc = "dedup" /\ x.slot \in Slots /\ instants[x.slot].when # "free"
          /\ ~Works(x) /\ (finished /\ ~overruled => ~Blind(x, instants))
    BY <1>1, ReadsFacts
  <1>4. Renames(row, [disp EXCEPT ![d] = x], cadence, instants)  BY <1>1, <1>3
  <1> QED  BY <1>1, <1>2, <1>3, <1>4, MoveKeeps

\* The replay at boot takes a row that was missed.
LEMMA BootReplaysKeeps == ASSUME IInv, NEW d \in Pollers, BootReplays(d) PROVE IInv'
  <1>1. /\ d \in Dispatchers /\ overruled' = overruled
        /\ sched' = "replaying" /\ row.status = "pending"
        /\ Renames(row, ReadsRow(d, "dedup"), cadence, instants)
        /\ UNCHANGED <<kind, audited, edits, reaper, faults>>
    BY SlotFacts DEF BootReplays, Missed, Rest
  <1>2. Aside  BY <1>1 DEF Aside, IInv, TableTypeOK
  <1>3. row.claim # "stale"  BY <1>1 DEF IInv, Stamped
  <1>4. PICK x \in Dispatch :
          /\ ReadsRow(d, "dedup") = [disp EXCEPT ![d] = x]
          /\ x.pc = "dedup" /\ x.slot \in Slots /\ instants[x.slot].when # "free"
          /\ ~Works(x) /\ (finished /\ ~overruled => ~Blind(x, instants))
    BY <1>1, ReadsFacts
  <1>5. Renames(row, [disp EXCEPT ![d] = x], cadence, instants)  BY <1>1, <1>4
  <1> QED  BY <1>1, <1>2, <1>3, <1>4, <1>5, MoveKeeps

\* run_now reads the row, whatever its status.
LEMMA NowReadsKeeps == ASSUME IInv, NowReads PROVE IInv'
  <1> DEFINE p == IF Recurring THEN "claim" ELSE "dedup"
  <1>1. /\ Now \in Dispatchers /\ Now \notin Pollers /\ overruled' = overruled
        /\ sched' = sched /\ sched # "down" /\ row.status # "absent"
        /\ Renames(row, ReadsRow(Now, p), cadence, instants)
    BY SlotFacts DEF NowReads
  <1>2. Aside
    BY JobAssumption DEF NowReads, NoFault, Aside, IInv, TableTypeOK
  <1>3. p \in {"dedup", "claim"} /\ (p = "claim" => kind # "once")
    BY DEF Recurring
  <1> HIDE DEF p
  <1>4. PICK x \in Dispatch :
          /\ ReadsRow(Now, p) = [disp EXCEPT ![Now] = x]
          /\ x.pc = p /\ x.slot \in Slots /\ instants[x.slot].when # "free"
          /\ ~Works(x) /\ (finished /\ ~overruled => ~Blind(x, instants))
    BY <1>1, <1>3, ReadsFacts
  <1>5. Renames(row, [disp EXCEPT ![Now] = x], cadence, instants)  BY <1>1, <1>4
  <1> QED  BY <1>1, <1>2, <1>4, <1>5, MoveKeeps

\* A dispatch under way may go on where it is: it is nobody's stale claim, and the
\* process is up.
LEMMA UnderWay ==
  ASSUME IInv, NEW d \in Dispatchers, disp[d].pc # "idle"
  PROVE  /\ disp[d].slot \in Slots /\ instants[disp[d].slot].when # "free"
         /\ d \in Pollers => row.claim # "stale" /\ sched \notin {"boot", "replay"}
         /\ sched # "down"
  BY Present DEF IInv, Stamped

\* The dedup: who finds no run meets a running row if there is one.
LEMMA DedupKeeps == ASSUME IInv, NEW d \in Dispatchers, Dedup(d) PROVE IInv'
  <1> DEFINE p == IF instants[disp[d].slot].done = "no" THEN "claim" ELSE "skip"
  <1>1. /\ Aside /\ sched' = sched /\ overruled' = overruled /\ disp[d].pc = "dedup"
        /\ Renames(row, Go(d, p), cadence, instants)
    BY RowOnlyAside DEF Dedup
  <1>2. /\ p \in {"dedup", "skip", "claim", "run", "record", "settle"}
        /\ p \in {"claim", "skip"}
        /\ p = "claim" => instants[disp[d].slot].done = "no"
    OBVIOUS
  <1> HIDE DEF p
  <1>3. PICK x \in Dispatch :
          /\ Go(d, p) = [disp EXCEPT ![d] = x]
          /\ x.pc = p /\ x.slot = disp[d].slot /\ x.outcome = disp[d].outcome
    BY <1>2, GoFacts
  <1>4. ~Works(x) /\ (Blind(x, instants) => Blind(disp[d], instants))
    BY <1>1, <1>2, <1>3 DEF Works, Blind
  <1>5. finished /\ Blind(x, instants) /\ ~overruled =>
          row.status = "running" /\ row.claim = "fresh" /\ sched # "boot"
    BY <1>4, FinishedFacts, Present
  <1>6. Renames(row, [disp EXCEPT ![d] = x], cadence, instants)  BY <1>1, <1>3
  <1>7. /\ x.slot \in Slots /\ instants[x.slot].when # "free"
        /\ d \in Pollers => row.claim # "stale" /\ sched \notin {"boot", "replay"}
        /\ sched # "down"
    BY <1>1, <1>3, UnderWay
  <1> QED  BY <1>1, <1>4, <1>5, <1>6, <1>7, MoveKeeps

\* An occurrence that has been serviced.
LEMMA SkipKeeps == ASSUME IInv, NEW d \in Dispatchers, Skip(d) PROVE IInv'
  <1>1. Aside /\ sched' = sched /\ overruled' = overruled
    BY RowOnlyAside DEF Skip
  <1>2. CASE Renames(row, Stop(d), cadence, instants)
    BY <1>1, <1>2, QuitKeeps
  <1>3. CASE Renames(NoRow, Stop(d), cadence, instants)
    BY <1>1, <1>3, DeleteKeeps
  <1>4. CASE Recurring /\ Renames(Write([row EXCEPT !.slot = NextSlot]), Stop(d), cadence,
                                  Opened)
    <2> DEFINE r == Write([row EXCEPT !.slot = NextSlot])
    <2>1. /\ r \in WideRow /\ r.status = row.status /\ r.claim = row.claim
          /\ r.status # "absent" => r.slot = NextSlot
          /\ r.status = "absent" => r.slot = row.slot
      BY <1>4, NextSlotFacts, Present DEF Write, WideRow
    <2> HIDE DEF r
    <2>2. r.slot = NewSlot => Opened[NewSlot] = Coming  BY OpenedFacts
    <2>3. r.status # "absent" => r.slot # NoSlot /\ Opened[r.slot].when # "free"
      BY <1>4, <2>1, NextSlotFacts
    <2>4. kind # "once" /\ ~finished  BY <1>4, FinishedFacts DEF Recurring
    <2>5. Kept(Opened)  BY OpenedFacts
    <2>6. Renames(r, Stop(d), cadence, Opened)  BY <1>4 DEF r
    <2> QED  BY <1>1, <2>1, <2>2, <2>3, <2>4, <2>5, <2>6, StopKeeps
  <1> QED  BY <1>2, <1>3, <1>4 DEF Skip

\* The compare-and-swap: who wins it is alone, and runs what the row still asks for
\* unless overruled says otherwise.
LEMMA ClaimKeeps == ASSUME IInv, NEW d \in Dispatchers, Claim(d) PROVE IInv'
  <1>0. disp[d].pc = "claim" /\ UNCHANGED <<kind, audited, reaper, sched, edits, faults>>
    BY DEF Claim, NoFault
  <1>1. CASE ~Claimable
    <2>1. Renames(row, Stop(d), cadence, instants) /\ overruled' = overruled
      BY <1>1 DEF Claim
    <2>2. Aside  BY <1>0, <2>1 DEF Aside, IInv, TableTypeOK
    <2> QED  BY <1>0, <2>1, <2>2, QuitKeeps
  <1>2. CASE Claimable
    <2>0. /\ row.status = "pending" /\ overruled' = (overruled \/ disp[d].slot # row.slot)
          /\ Renames(Claimed(row), Go(d, "run"), cadence, instants)
      BY <1>2 DEF Claim, Claimable
    <2>1. Aside  BY <1>0, <2>0 DEF Aside, IInv, TableTypeOK
    <2>2. PICK x \in Dispatch :
            /\ Go(d, "run") = [disp EXCEPT ![d] = x]
            /\ x.pc = "run" /\ x.slot = disp[d].slot /\ x.outcome = disp[d].outcome
      BY GoFacts
    <2> DEFINE ds == Go(d, "run")
               r  == Claimed(row)
    <2>3. /\ ds \in [Dispatchers -> Dispatch] /\ ds[d] = x
          /\ \A e \in Dispatchers : e # d => ds[e] = disp[e]
      BY <2>2, Present
    <2>4. /\ r \in WideRow /\ r.status = "running" /\ r.claim = "fresh"
          /\ r.slot = row.slot
      BY Present DEF Claimed, WideRow
    <2> HIDE DEF ds, r
    <2>5. /\ kind \in Kinds /\ cadence \in Places /\ instants \in [Slots -> Instant]
          /\ row.slot \in Slots /\ instants[row.slot].when # "free"
          /\ cadence # NewSlot
      BY <2>0, Present, SlotFacts
    <2>6. Fits(r, ds, cadence, instants)  BY <2>3, <2>4, <2>5, SlotFacts DEF Fits
    <2>7. ~overruled => \A e \in Dispatchers : ~Works(disp[e])  BY <2>0, Present
    <2>8. Sound(r, ds, cadence, instants)
      <3>1. /\ r.status # "absent" => r.slot # NoSlot /\ instants[r.slot].when # "free"
            /\ kind = "daily" => cadence # NoSlot /\ instants[cadence].when = "future"
        BY <2>4, <2>5, Present, SlotFacts
      <3>2. \A e \in Dispatchers : ds[e].pc # "idle" =>
              ds[e].slot # NoSlot /\ instants[ds[e].slot].when # "free"
        BY <1>0, <2>2, <2>3, Present, SlotFacts
      <3>3. /\ sched' \in {"boot", "replay"} => \A e \in Pollers : ds[e].pc = "idle"
            /\ sched' = "down" => \A e \in Dispatchers : ds[e].pc = "idle"
        BY <1>0, <2>3, SlotFacts DEF IInv, Stamped
      <3>4. ~overruled' =>
              /\ \A e, k \in Dispatchers : Works(ds[e]) /\ Works(ds[k]) => e = k
              /\ \A e \in Dispatchers : Works(ds[e]) => r.status \in {"running", "absent"}
        BY <2>0, <2>3, <2>4, <2>7
      <3> QED  BY <2>4, <3>1, <3>2, <3>3, <3>4 DEF Sound
    <2>9. SoundOnce(r, ds, instants)
      <3> SUFFICES ASSUME ~overruled', kind = "once" PROVE SoundOnce(r, ds, instants)
        BY DEF SoundOnce
      <3>1. ~overruled /\ disp[d].slot = row.slot  BY <2>0
      <3>2. \A e \in Dispatchers : Works(ds[e]) => ds[e].slot = r.slot
        BY <2>2, <2>3, <2>4, <2>7, <3>1
      <3>3. ~finished
        <4>1. Blind(disp[d], instants)  BY <1>0 DEF Blind
        <4> QED  BY <2>0, <3>1, <4>1, Present
      <3>4. ~(\E h \in Slots : instants[h].done # "no")  BY <3>3, Present
      <3> QED  BY <3>2, <3>3, <3>4 DEF SoundOnce
    <2>10. Renames(r, ds, cadence, instants)  BY <2>0 DEF r, ds
    <2> QED  BY <2>1, <2>5, <2>6, <2>8, <2>9, <2>10, StepKeeps
  <1> QED  BY <1>1, <1>2

\* A completed run is written under one instant.
LEMMA RecordedFacts ==
  ASSUME NEW f, NEW D, f \in [D -> Instant], NEW s \in D
  PROVE  /\ Recorded(f, s) \in [D -> Instant]
         /\ Recorded(f, s)[s].done # "no"
         /\ \A h \in D : Recorded(f, s)[h].when = f[h].when
         /\ \A h \in D : h # s => Recorded(f, s)[h] = f[h]
  <1> DEFINE m == IF f[s].when = "future" THEN "early" ELSE "due"
             i == [f[s] EXCEPT !.done = m]
  <1>1. m \in {"early", "due"}  OBVIOUS
  <1>2. Recorded(f, s) = [f EXCEPT ![s] = i]  BY DEF Recorded
  <1> HIDE DEF m
  <1>3. i \in Instant /\ i.done # "no" /\ i.when = f[s].when  BY <1>1 DEF Instant
  <1> HIDE DEF i
  <1> QED  BY <1>2, <1>3

\* The run is put on record, by run_now or in place of a delete that failed.
LEMMA RecordKeeps ==
  ASSUME IInv, Aside, NEW d \in Dispatchers, NEW x \in Dispatch,
         sched' = sched, overruled' = overruled,
         Works(disp[d]), row.status # "absent",
         x.pc = "idle" \/ (x.pc = "settle" /\ x.outcome = "ok" /\ x.slot = disp[d].slot),
         Renames(row, [disp EXCEPT ![d] = x], cadence, Recorded(instants, disp[d].slot))
  PROVE  IInv'
  <1> DEFINE ds == [disp EXCEPT ![d] = x]
             f  == Recorded(instants, disp[d].slot)
  <1>0. /\ kind \in Kinds /\ row \in WideRow /\ cadence \in Places
        /\ disp \in [Dispatchers -> Dispatch] /\ instants \in [Slots -> Instant]
        /\ row.slot \in Slots /\ instants[row.slot].when # "free"
        /\ cadence # NewSlot /\ row.slot # NewSlot
        /\ disp[d].pc # "idle" /\ disp[d].slot \in Slots
        /\ instants[disp[d].slot].when # "free"
    BY Present, SlotFacts DEF Works
  <1>1. /\ ds \in [Dispatchers -> Dispatch] /\ ds[d] = x
        /\ \A e \in Dispatchers : e # d => ds[e] = disp[e]
    BY <1>0
  <1>2. /\ f \in [Slots -> Instant] /\ f[disp[d].slot].done # "no"
        /\ \A h \in Slots : f[h].when = instants[h].when
    BY <1>0, RecordedFacts
  <1>3. Renames(row, ds, cadence, f)  OBVIOUS
  <1> HIDE DEF ds, f
  <1>4. Fits(row, ds, cadence, f)  BY <1>0, <1>1, <1>2 DEF Fits
  <1>5. Sound(row, ds, cadence, f)
    <2>1. /\ row.slot # NoSlot /\ f[row.slot].when # "free"
          /\ kind = "daily" => cadence # NoSlot /\ f[cadence].when = "future"
      BY <1>0, <1>2, Present, SlotFacts
    <2>2. ASSUME NEW e \in Dispatchers, ds[e].pc # "idle"
          PROVE  ds[e].slot # NoSlot /\ f[ds[e].slot].when # "free"
      <3>1. ds[e].slot = disp[e].slot /\ disp[e].pc # "idle"  BY <1>0, <1>1, <2>2
      <3>2. disp[e].slot \in Slots /\ instants[disp[e].slot].when # "free"
        BY <3>1, Present
      <3> QED  BY <1>2, <3>1, <3>2, SlotFacts
    <2>3. /\ row.status = "running" =>
               /\ row.claim # "none"
               /\ row.claim = "stale" => \A e \in Pollers : ds[e].pc = "idle"
          /\ sched' \in {"boot", "replay"} => \A e \in Pollers : ds[e].pc = "idle"
          /\ sched' = "down" => \A e \in Dispatchers : ds[e].pc = "idle"
      BY <1>0, <1>1, SlotFacts DEF IInv, Stamped
    <2>4. ~overruled' =>
            /\ \A e, k \in Dispatchers : Works(ds[e]) /\ Works(ds[k]) => e = k
            /\ \A e \in Dispatchers : Works(ds[e]) => row.status \in {"running", "absent"}
      BY <1>1, Present
    <2> QED  BY <2>1, <2>2, <2>3, <2>4 DEF Sound
  <1>6. SoundOnce(row, ds, f)
    <2> SUFFICES ASSUME ~overruled', kind = "once" PROVE SoundOnce(row, ds, f)
      BY DEF SoundOnce
    <2>1. /\ disp[d].slot = row.slot /\ row.status = "running"
          /\ \A e \in Dispatchers : e # d => ~Works(disp[e])
      BY Present
    <2>2. \A e \in Dispatchers : Works(ds[e]) =>
            ds[e].slot = row.slot /\ ds[e].pc = "settle" /\ ds[e].outcome = "ok"
      BY <1>1, <2>1 DEF Works
    <2>3. ASSUME NEW e \in Dispatchers, Blind(ds[e], f)
          PROVE  row.claim = "fresh" /\ sched' # "boot"
      <3>1. e # d /\ ds[e] = disp[e] /\ disp[e].pc # "idle"
        BY <1>1, <2>3 DEF Blind
      <3>2. d \in Pollers \/ e \in Pollers  BY <3>1 DEF Dispatchers
      <3>3. row.claim # "stale" /\ sched # "boot"  BY <1>0, <3>1, <3>2, UnderWay
      <3>4. row.claim # "none" /\ row.claim \in {"none", "fresh", "stale"}
        BY <1>0, <2>1 DEF IInv, Stamped, WideRow
      <3> QED  BY <3>3, <3>4
    <2>4. f[row.slot].done # "no"  BY <1>2, <2>1
    <2> QED  BY <2>1, <2>2, <2>3, <2>4 DEF SoundOnce
  <1> QED  BY <1>0, <1>3, <1>4, <1>5, <1>6, StepKeeps

\* While the handler runs, or after it failed, no run is on record.
LEMMA NotYet ==
  ASSUME IInv, NEW d \in Dispatchers, Works(disp[d]),
         disp[d].pc # "settle" \/ disp[d].outcome # "ok"
  PROVE  finished => overruled
  BY FinishedFacts, Present

\* What the settling of a run writes into a recurring row.
LEMMA RestoredFacts ==
  ASSUME IInv, Recurring
  PROVE  /\ Restored \in WideRow /\ Restored.status = "pending"
         /\ Restored.slot = NextSlot
  BY NextSlotFacts, Present DEF Restored, WideRow

\* _restore_after_run
LEMMA RestoreKeeps ==
  ASSUME IInv, Aside, NEW d \in Dispatchers, sched' = sched, overruled' = overruled,
         Works(disp[d]), Recurring, Renames(Write(Restored), Stop(d), cadence, Opened)
  PROVE  IInv'
  <1>1. ~finished  BY FinishedFacts DEF Recurring
  <1>2. Kept(Opened) /\ Opened[NewSlot] = Coming  BY OpenedFacts
  <1> QED  BY <1>1, <1>2, RestoredFacts, NextSlotFacts, FreeKeeps

\* The claim is released, the slot is kept.
LEMMA ReleaseKeeps ==
  ASSUME IInv, Aside, NEW d \in Dispatchers, sched' = sched, overruled' = overruled,
         Works(disp[d]), finished => overruled, NEW r \in WideRow,
         r.status \in {"pending", "failed"}, r.slot = row.slot,
         Renames(Write(r), Stop(d), cadence, instants)
  PROVE  IInv'
  <1>1. Kept(instants) /\ row.slot # NewSlot  BY OpenedFacts, Present, SlotFacts DEF Row
  <1>2. row.status # "absent" => r.slot # NoSlot /\ instants[r.slot].when # "free"
    BY Present, SlotFacts
  <1> QED  BY <1>1, <1>2, FreeKeeps

\* No handler is registered.
LEMMA HandlerMissingKeeps == ASSUME IInv, NEW d \in Dispatchers, HandlerMissing(d) PROVE IInv'
  <1>1. Aside /\ sched' = sched /\ overruled' = overruled /\ disp[d].pc = "run"
        /\ Works(disp[d])
    BY RowOnlyAside DEF HandlerMissing, Works
  <1>2. CASE d = Now /\ Recurring
    BY <1>1, <1>2, RestoreKeeps DEF HandlerMissing
  <1>3. CASE ~(d = Now /\ Recurring)
    <2> DEFINE r == [row EXCEPT !.status = "pending"]
    <2>1. r \in WideRow /\ r.status = "pending" /\ r.slot = row.slot
      BY Present DEF WideRow
    <2>2. Renames(Write(r), Stop(d), cadence, instants)  BY <1>3 DEF HandlerMissing
    <2> HIDE DEF r
    <2>3. finished => overruled  BY <1>1, NotYet
    <2> QED  BY <1>1, <2>1, <2>2, <2>3, ReleaseKeeps
  <1> QED  BY <1>2, <1>3

\* The handler returns, raises or is given up.
LEMMA RunEndsKeeps == ASSUME IInv, NEW d \in Dispatchers, RunEnds(d) PROVE IInv'
  <1>1. PICK p \in {"record", "settle"}, o \in {"ok", "transient", "permanent"} :
          /\ disp[d].pc = "run" /\ NoFault /\ RowOnly
          /\ Renames(row, [disp EXCEPT ![d].pc = p, ![d].outcome = o], cadence, instants)
    <2>1. CASE HandlerTimesOut(d)  BY <2>1 DEF HandlerTimesOut
    <2>2. CASE \E o \in {"ok", "transient", "permanent"} : HandlerEnds(d, o)
      BY <2>2 DEF HandlerEnds
    <2> QED  BY <2>1, <2>2 DEF RunEnds
  <1> DEFINE x == [disp[d] EXCEPT !.pc = p, !.outcome = o]
  <1>2. Aside /\ sched' = sched /\ overruled' = overruled /\ Works(disp[d])
    BY <1>1, RowOnlyAside DEF Works
  <1>3. disp[d] \in Dispatch /\ disp \in [Dispatchers -> Dispatch]  BY Present
  <1>4. x \in Dispatch /\ x.pc = p /\ x.slot = disp[d].slot
    BY <1>1, <1>3 DEF Dispatch
  <1>5. [disp EXCEPT ![d].pc = p, ![d].outcome = o] = [disp EXCEPT ![d] = x]
    BY <1>3 DEF Dispatch
  <1>6. Renames(row, [disp EXCEPT ![d] = x], cadence, instants)  BY <1>1, <1>5
  <1> HIDE DEF x
  <1>7. finished => overruled  BY <1>1, <1>2, NotYet
  <1>8. ~Blind(x, instants)  BY <1>1, <1>4 DEF Blind
  <1>9. /\ x.slot \in Slots /\ instants[x.slot].when # "free"
        /\ d \in Pollers => row.claim # "stale" /\ sched \notin {"boot", "replay"}
        /\ sched # "down"
    BY <1>1, <1>4, UnderWay
  <1> QED  BY <1>2, <1>4, <1>6, <1>7, <1>8, <1>9, MoveKeeps

\* _record_run of run_now.
LEMMA NowRecordsKeeps == ASSUME IInv, Record PROVE IInv'
  <1>1. /\ Aside /\ sched' = sched /\ overruled' = overruled /\ disp[Now].pc = "record"
        /\ Works(disp[Now]) /\ Now \in Dispatchers
    BY RowOnlyAside, SlotFacts DEF Record, Works
  <1>2. CASE Renames(row, Stop(Now), cadence, instants)
    BY <1>1, <1>2, QuitKeeps
  <1>3. PICK x \in Dispatch :
          /\ Go(Now, "settle") = [disp EXCEPT ![Now] = x]
          /\ x.pc = "settle" /\ x.slot = disp[Now].slot /\ x.outcome = disp[Now].outcome
    BY <1>1, GoFacts
  <1>4. CASE /\ row.status # "absent" /\ disp[Now].outcome = "ok"
             /\ Renames(row, Go(Now, "settle"), cadence, Recorded(instants, disp[Now].slot))
    BY <1>1, <1>3, <1>4, RecordKeeps
  <1>5. CASE disp[Now].outcome # "ok" /\ Renames(row, Go(Now, "settle"), cadence, instants)
    <2>1. Renames(row, [disp EXCEPT ![Now] = x], cadence, instants)  BY <1>3, <1>5
    <2>2. finished => overruled  BY <1>1, NotYet
    <2>3. ~Blind(x, instants)  BY <1>3 DEF Blind
    <2>4. /\ x.slot \in Slots /\ instants[x.slot].when # "free"
          /\ Now \in Pollers => row.claim # "stale" /\ sched \notin {"boot", "replay"}
          /\ sched # "down"
      BY <1>1, <1>3, UnderWay
    <2> QED  BY <1>1, <1>3, <2>1, <2>2, <2>3, <2>4, MoveKeeps
  <1> QED  BY <1>2, <1>4, <1>5 DEF Record

\* A row that is armed anew, for s.
Armed(x, s, t) == [x EXCEPT !.status = "pending", !.slot = s, !.retry = t, !.retries = 0]

LEMMA ArmedFacts ==
  ASSUME NEW x \in WideRow, NEW s \in Places, NEW t \in {"none", "wait"}
  PROVE  LET r == Armed(x, s, t)
         IN  r \in WideRow /\ r.status = "pending" /\ r.slot = s
  <1> DEFINE y == [x EXCEPT !.status = "pending", !.slot = s]
             z == [y EXCEPT !.retry = t, !.retries = 0]
  <1>1. 0 \in 0..(MaxRetries - 1)  BY JobAssumption
  <1>2. y \in WideRow /\ y.status = "pending" /\ y.slot = s  BY DEF WideRow
  <1>3. Armed(x, s, t) = z  BY DEF Armed
  <1> HIDE DEF y
  <1>4. z \in WideRow /\ z.status = "pending" /\ z.slot = s  BY <1>1, <1>2 DEF WideRow
  <1> HIDE DEF z
  <1> QED  BY <1>3, <1>4

\* _mark_completed
LEMMA CompleteRecurringKeeps ==
  ASSUME IInv, Aside, NEW d \in Dispatchers, sched' = sched, overruled' = overruled,
         Works(disp[d]), Recurring, CompleteRecurring(d)
  PROVE  IInv'
  <1> DEFINE r == Armed(row, NextSlot, "none")
             f == IF row.status = "absent" THEN instants ELSE Recorded(Opened, disp[d].slot)
  <1>1. Renames(Write(r), Stop(d), cadence, f)  BY DEF CompleteRecurring, Armed
  <1>2. r \in WideRow /\ r.status = "pending" /\ r.slot = NextSlot
    <2>1. NextSlot \in Places /\ row \in WideRow  BY NextSlotFacts, Present
    <2> QED  BY <2>1, ArmedFacts
  <1>3. ~finished /\ kind # "once"  BY FinishedFacts DEF Recurring
  <1> HIDE DEF r
  <1>4. CASE row.status = "absent"
    <2>1. Write(r) = row /\ f = instants  BY <1>4 DEF Write
    <2> QED  BY <1>1, <2>1, QuitKeeps
  <1>5. CASE row.status # "absent"
    <2>1. f = Recorded(Opened, disp[d].slot)  BY <1>5
    <2>2. disp[d].slot \in Slots  BY Present DEF Works
    <2>3. Opened \in [Slots \cup {NewSlot} -> Instant]
      BY Present DEF Opened, Coming, Instant
    <2>4. /\ f \in [Slots \cup {NewSlot} -> Instant]
          /\ \A h \in Slots \cup {NewSlot} : f[h].when = Opened[h].when
          /\ f[NewSlot] = Opened[NewSlot]
      BY <2>1, <2>2, <2>3, RecordedFacts, SlotFacts
    <2> HIDE DEF f
    <2>5. Kept(f) /\ f[NewSlot] = Coming  BY <1>3, <2>4, OpenedFacts DEF Kept
    <2>6. r.slot # NoSlot /\ f[r.slot].when # "free"
      BY <1>2, <2>4, NextSlotFacts DEF Places
    <2> QED  BY <1>1, <1>2, <1>3, <2>5, <2>6, FreeKeeps
  <1> QED  BY <1>4, <1>5

\* Idle is a dispatch.
LEMMA IdleFacts == Idle \in Dispatch /\ Idle.pc = "idle"
  BY JobAssumption DEF Idle, Dispatch

\* _settle, in every branch.
LEMMA SettleKeeps == ASSUME IInv, NEW d \in Dispatchers, Settle(d) PROVE IInv'
  <1>0. /\ disp[d].pc = "settle" /\ Works(disp[d])
        /\ UNCHANGED <<kind, reaper, sched, edits, overruled>>
    BY DEF Settle, Works
  <1>1. ASSUME NoFault \/ Fault, audited' \in {audited, TRUE}
        PROVE  Aside /\ sched' = sched /\ overruled' = overruled
    <2>1. audited' \in BOOLEAN  BY <1>1 DEF IInv, TableTypeOK
    <2> QED  BY <1>0, <1>1, <2>1, QuietAside
  <1>2. CASE /\ Recurring /\ Renames(Write(Restored), Stop(d), cadence, Opened)
             /\ NoFault /\ UNCHANGED audited
    BY <1>0, <1>1, <1>2, RestoreKeeps
  <1>3. CASE Recurring /\ CompleteRecurring(d)
    <2>1. Aside /\ sched' = sched /\ overruled' = overruled
      BY <1>1, <1>3 DEF CompleteRecurring
    <2> QED  BY <1>0, <1>3, <2>1, CompleteRecurringKeeps
  <1>4. CASE RetireOneShot(d)
    <2>1. Aside /\ sched' = sched /\ overruled' = overruled
      BY <1>1, <1>4 DEF RetireOneShot
    <2>2. CASE Renames(NoRow, Stop(d), cadence, instants)  BY <2>1, <2>2, DeleteKeeps
    <2>3. CASE Renames(row, Stop(d), cadence, instants)  BY <2>1, <2>3, QuitKeeps
    <2>4. CASE /\ row.status # "absent"
               /\ Renames(row, Stop(d), cadence, Recorded(instants, disp[d].slot))
      <3>1. Renames(row, [disp EXCEPT ![d] = Idle], cadence,
                    Recorded(instants, disp[d].slot))
        BY <2>4 DEF Stop
      <3> QED  BY <1>0, <2>1, <2>4, <3>1, IdleFacts, RecordKeeps
    <2> QED  BY <1>4, <2>2, <2>3, <2>4 DEF RetireOneShot
  <1>5. CASE disp[d].outcome # "ok" /\ MayRetry(d) /\ RetryLater(d)
    <2> DEFINE r == [row EXCEPT !.status = "pending", !.retry = "wait",
                                !.retries = disp[d].retries + 1]
    <2>1. Aside /\ sched' = sched /\ overruled' = overruled
      BY <1>1, <1>5 DEF RetryLater
    <2>2. disp[d].retries + 1 \in 0..(MaxRetries - 1)
      <3>1. disp[d].retries \in 0..(MaxRetries - 1)  BY Present DEF Dispatch
      <3> QED  BY <1>5, <3>1, JobAssumption DEF MayRetry
    <2>3. r \in WideRow /\ r.status = "pending" /\ r.slot = row.slot
      BY <2>2, Present DEF WideRow
    <2>4. Renames(Write(r), Stop(d), cadence, instants)  BY <1>5 DEF RetryLater
    <2> HIDE DEF r
    <2>5. finished => overruled  BY <1>0, <1>5, NotYet
    <2> QED  BY <1>0, <2>1, <2>3, <2>4, <2>5, ReleaseKeeps
  <1>6. CASE disp[d].outcome # "ok" /\ GiveUpOneShot(d)
    <2>1. Aside /\ sched' = sched /\ overruled' = overruled
      BY <1>1, <1>6 DEF GiveUpOneShot
    <2>2. CASE Renames(NoRow, Stop(d), cadence, instants)  BY <2>1, <2>2, DeleteKeeps
    <2>3. CASE Renames(row, Stop(d), cadence, instants)  BY <2>1, <2>3, QuitKeeps
    <2>4. CASE Renames(Write([row EXCEPT !.status = "failed"]), Stop(d), cadence, instants)
      <3> DEFINE r == [row EXCEPT !.status = "failed"]
      <3>1. r \in WideRow /\ r.status = "failed" /\ r.slot = row.slot
        BY Present DEF WideRow
      <3>2. Renames(Write(r), Stop(d), cadence, instants)  BY <2>4
      <3> HIDE DEF r
      <3>3. finished => overruled  BY <1>0, <1>6, NotYet
      <3> QED  BY <1>0, <2>1, <3>1, <3>2, <3>3, ReleaseKeeps
    <2> QED  BY <1>6, <2>2, <2>3, <2>4 DEF GiveUpOneShot
  <1>7. CASE disp[d].outcome # "ok" /\ Rearm(d)
    <2> DEFINE s == IF Recurring THEN NextSlot ELSE NewSlot
    <2>1. Aside /\ sched' = sched /\ overruled' = overruled
      BY <1>1, <1>7 DEF Rearm
    <2>2. PICK retry \in {"none", "wait"} :
            Renames(Write([row EXCEPT !.status = "pending", !.slot = s, !.retry = retry,
                                      !.retries = 0]), Stop(d), cadence, Opened)
      BY <1>7 DEF Rearm
    <2>3. s \in Places /\ s # NoSlot /\ Opened[s].when # "free"
      BY NextSlotFacts, OpenedFacts, SlotFacts DEF Places, Coming
    <2> HIDE DEF s
    <2> DEFINE r == Armed(row, s, retry)
    <2>4. r \in WideRow /\ r.status = "pending" /\ r.slot = s
      <3>1. row \in WideRow  BY Present
      <3> QED  BY <2>3, <3>1, ArmedFacts
    <2>5. Renames(Write(r), Stop(d), cadence, Opened)  BY <2>2 DEF Armed
    <2> HIDE DEF r
    <2>6. finished => overruled  BY <1>0, <1>7, NotYet
    <2>7. Kept(Opened) /\ Opened[NewSlot] = Coming  BY OpenedFacts
    <2> QED  BY <1>0, <2>1, <2>3, <2>4, <2>5, <2>6, <2>7, FreeKeeps
  <1>8. CASE Renames(row, Stop(d), cadence, instants) /\ Fault /\ UNCHANGED audited
    BY <1>1, <1>8, QuitKeeps
  <1> QED  BY <1>2, <1>3, <1>4, <1>5, <1>6, <1>7, <1>8 DEF Settle

(***************************************************************************)
(* The reapers, the owner, the process and the clock.                      *)
(***************************************************************************)
\* What a step leaves that only touches the process.
LEMMA RestAside ==
  ASSUME IInv, Rest, reaper' \in BOOLEAN, faults' = faults,
         sched' \in {"down", "boot", "replay", "replaying", "up"},
         overruled' \in BOOLEAN, overruled => overruled'
  PROVE  Aside
  BY DEF IInv, TableTypeOK, Rest, Aside

\* A poll cycle lists the stale claims.
LEMMA ReapSelectsKeeps == ASSUME IInv, ReapSelects PROVE IInv'
  <1>1. Aside  BY RestAside DEF ReapSelects, IInv, TableTypeOK
  <1> QED  BY <1>1, StillKeeps DEF ReapSelects

\* It frees the row it had listed.
LEMMA ReapWritesKeeps == ASSUME IInv, ReapWrites PROVE IInv'
  <1>1. Aside /\ sched' = sched
    BY RestAside DEF ReapWrites, IInv, TableTypeOK
  <1>2. CASE row.status # "running"
    BY <1>1, <1>2, StillKeeps DEF ReapWrites
  <1>3. CASE row.status = "running"
    <2> DEFINE r == [row EXCEPT !.status = "pending"]
    <2>1. r \in WideRow /\ r.status = "pending" /\ r.slot = row.slot
      BY Present DEF WideRow
    <2>2. /\ Renames(r, disp, cadence, instants)
          /\ overruled' = (overruled \/ AtWork # {} \/ row.claim = "fresh")
      BY <1>3 DEF ReapWrites
    <2> HIDE DEF r
    <2>3. /\ row.slot \in Slots /\ row.slot # NewSlot /\ row.slot # NoSlot
          /\ instants[row.slot].when # "free"
      BY <1>3, Present, SlotFacts
    <2>4. ~overruled' => \A d \in Dispatchers : ~Works(disp[d])
      BY <2>2 DEF AtWork, Works
    <2>5. ~overruled' /\ finished => \A d \in Dispatchers : ~Blind(disp[d], instants)
      BY <2>2, FinishedFacts, Present
    <2> QED  BY <1>1, <2>1, <2>2, <2>3, <2>4, <2>5, StayKeeps
  <1> QED  BY <1>2, <1>3

\* A row that was terminal is retired.
LEMMA RetireTerminalKeeps == ASSUME IInv, RetireTerminal PROVE IInv'
  <1>1. Aside /\ sched' = sched /\ overruled' = overruled
    <2>1. audited' \in BOOLEAN /\ (NoFault \/ Fault)
      BY DEF RetireTerminal, IInv, TableTypeOK
    <2> QED  BY <2>1, QuietAside DEF RetireTerminal
  <1>2. CASE Renames(NoRow, disp, cadence, instants)
    BY <1>1, <1>2, NoRowFacts, SlotFacts, StayKeeps
  <1>3. CASE UNCHANGED <<row, instants, finished, cadence, disp>>
    BY <1>1, <1>3, StillKeeps
  <1> QED  BY <1>2, <1>3 DEF RetireTerminal

\* A command of the owner overrules whoever is at the row.
LEMMA CommandKeeps ==
  ASSUME IInv, NEW r \in WideRow, NEW f, Command(r, f),
         \A h \in Slots : f[h] = instants[h],
         r.slot = NewSlot => f[NewSlot] = Coming,
         r.status # "absent" => r.slot # NoSlot /\ f[r.slot].when # "free",
         r.status = "running" => row.status = "running" /\ r.claim = row.claim
  PROVE  IInv'
  <1>1. Renames(r, disp, cadence, f) /\ sched' = sched  BY DEF Command
  <1>2. ~overruled' => ~finished /\ \A d \in Dispatchers : ~Works(disp[d])
    BY DEF Command, Works
  <1>3. Aside  BY JobAssumption DEF Command, Aside, IInv, TableTypeOK
  <1> QED  BY <1>1, <1>2, <1>3, StayKeeps

\* The owner's commands.
LEMMA CommandsKeep ==
  ASSUME IInv, Pause \/ Resume \/ Snooze \/ Edit \/ StopJob
  PROVE  IInv'
  <1>1. row \in WideRow /\ row.slot # NewSlot /\ Kept(Opened)
    BY Present, OpenedFacts, SlotFacts DEF Row
  <1>2. /\ \A h \in Slots : Opened[h] = instants[h]
        /\ Opened[NewSlot] = Coming /\ Opened[NewSlot].when # "free"
        /\ NewSlot # NoSlot /\ NewSlot \in Places
    BY OpenedFacts, SlotFacts DEF Places, Coming
  <1>3. ASSUME NEW r, NEW f, Command(r, f)
        PROVE  row.slot # NoSlot /\ instants[row.slot].when # "free"
    BY <1>3, Present, SlotFacts DEF Command
  <1>4. CASE Pause
    <2> DEFINE r == [row EXCEPT !.status = "failed", !.enabled = FALSE]
    <2>1. r \in WideRow /\ r.status = "failed" /\ r.slot = row.slot
      BY <1>1 DEF WideRow
    <2>2. Command(r, instants)  BY <1>4 DEF Pause
    <2> HIDE DEF r
    <2> QED  BY <1>1, <1>3, <2>1, <2>2, CommandKeeps
  <1>5. CASE Resume /\ Recurring
    <2> DEFINE r == [row EXCEPT !.status = "pending", !.enabled = TRUE, !.slot = NextSlot]
    <2>1. NextSlot \in Places /\ NextSlot # NoSlot /\ Opened[NextSlot].when # "free"
      BY <1>5, NextSlotFacts
    <2>2. r \in WideRow /\ r.status = "pending" /\ r.slot = NextSlot
      BY <1>1, <2>1 DEF WideRow
    <2>3. Command(r, Opened)  BY <1>5 DEF Resume
    <2> HIDE DEF r
    <2> QED  BY <1>2, <2>1, <2>2, <2>3, CommandKeeps
  <1>6. CASE Resume /\ ~Recurring
    <2> DEFINE r == [row EXCEPT !.status = "pending", !.enabled = TRUE]
    <2>1. r \in WideRow /\ r.status = "pending" /\ r.slot = row.slot
      BY <1>1 DEF WideRow
    <2>2. Command(r, instants)  BY <1>6 DEF Resume
    <2> HIDE DEF r
    <2> QED  BY <1>1, <1>3, <2>1, <2>2, CommandKeeps
  <1>7. CASE Snooze
    <2> DEFINE r == [row EXCEPT !.status = "pending", !.enabled = TRUE, !.slot = NewSlot]
    <2>1. r \in WideRow /\ r.status = "pending" /\ r.slot = NewSlot
      BY <1>1, <1>2 DEF WideRow
    <2>2. Command(r, Opened)  BY <1>7 DEF Snooze
    <2> HIDE DEF r
    <2> QED  BY <1>2, <2>1, <2>2, CommandKeeps
  <1>8. CASE Edit
    <2> DEFINE s == IF Recurring THEN NextSlot ELSE NewSlot
               r == [row EXCEPT !.slot = s]
    <2>1. s \in Places /\ s # NoSlot /\ Opened[s].when # "free"
      BY <1>2, NextSlotFacts
    <2>2. Command(r, Opened)  BY <1>8 DEF Edit
    <2> HIDE DEF s
    <2>3. r \in WideRow /\ r.status = row.status /\ r.claim = row.claim /\ r.slot = s
      BY <1>1, <2>1 DEF WideRow
    <2> HIDE DEF r
    <2> QED  BY <1>2, <2>1, <2>2, <2>3, CommandKeeps
  <1>9. CASE StopJob
    <2>1. Command(NoRow, instants)  BY <1>9 DEF StopJob
    <2> QED  BY <2>1, NoRowFacts, SlotFacts, CommandKeeps
  <1> QED  BY <1>4, <1>5, <1>6, <1>7, <1>8, <1>9

\* The process ends, and with it every dispatch.
LEMMA CrashKeeps == ASSUME IInv, Crash PROVE IInv'
  <1> DEFINE ds == [d \in Dispatchers |-> Idle]
  <1>1. /\ Renames(row, ds, cadence, instants) /\ sched' = "down" /\ overruled' = overruled
    BY DEF Crash
  <1>2. Aside
    <2>1. /\ sched' = "down" /\ reaper' = FALSE /\ UNCHANGED <<kind, audited, edits, overruled>>
          /\ faults < MaxFaults /\ faults' = faults + 1
      BY DEF Crash, Fault
    <2>2. faults' \in 0..MaxFaults  BY <2>1, JobAssumption DEF IInv, TableTypeOK
    <2> QED  BY <2>1, <2>2 DEF Aside, IInv, TableTypeOK
  <1>3. /\ ds \in [Dispatchers -> Dispatch]
        /\ \A d \in Dispatchers :
             ds[d].pc = "idle" /\ ~Works(ds[d]) /\ ~Blind(ds[d], instants)
    BY IdleFacts DEF Works, Blind
  <1> HIDE DEF ds
  <1>4. /\ kind \in Kinds /\ row \in WideRow /\ cadence \in Places
        /\ instants \in [Slots -> Instant] /\ row.slot # NewSlot /\ cadence # NewSlot
    BY Present, SlotFacts DEF Row
  <1>5. Fits(row, ds, cadence, instants)  BY <1>3, <1>4 DEF Fits
  <1>6. Sound(row, ds, cadence, instants)
    <2>1. /\ row.status # "absent" => row.slot # NoSlot /\ instants[row.slot].when # "free"
          /\ kind = "daily" => cadence # NoSlot /\ instants[cadence].when = "future"
      BY Present, SlotFacts
    <2>2. row.status = "running" => row.claim # "none"  BY DEF IInv, Stamped
    <2> QED  BY <1>3, <2>1, <2>2, SlotFacts DEF Sound
  <1>7. SoundOnce(row, ds, instants)  BY <1>1, <1>3, Present DEF SoundOnce
  <1> QED  BY <1>1, <1>2, <1>4, <1>5, <1>6, <1>7, StepKeeps

\* The process starts again, its recovery ends or fails.
LEMMA StartKeeps == ASSUME IInv, Starts \/ BootEnds \/ BootFails PROVE IInv'
  <1>1. UNCHANGED <<row, instants, cadence, disp, finished, overruled>>
    BY DEF Starts, BootEnds, BootFails
  <1>2. Aside
    BY JobAssumption DEF Starts, BootEnds, BootFails, Rest, Fault, Aside, IInv, TableTypeOK
  <1>3. sched' = "up" \/ (sched = "down" /\ sched' = "boot")
    BY DEF Starts, BootEnds, BootFails
  <1> QED  BY <1>1, <1>2, <1>3, StillKeeps

\* The reaper at boot: no dispatch can claim what it frees without knowing.
LEMMA BootReapKeeps == ASSUME IInv, BootReap PROVE IInv'
  <1>1. Aside /\ sched = "boot" /\ sched' = "replay"
    BY RestAside DEF BootReap, IInv, TableTypeOK
  <1>2. CASE row.status # "running"
    BY <1>1, <1>2, StillKeeps DEF BootReap
  <1>3. CASE row.status = "running"
    <2>1. Renames(Reaped, disp, cadence, Opened) /\ overruled' = (overruled \/ AtWork # {})
      BY <1>3 DEF BootReap
    <2>2. /\ Reaped \in WideRow /\ Reaped.status = "pending"
          /\ ~Recurring => Reaped.slot = row.slot
          /\ Recurring => Reaped.slot = NextSlot
      <3>1. CASE Recurring  BY <3>1, RestoredFacts DEF Reaped
      <3>2. CASE ~Recurring
        <4>1. Reaped = [row EXCEPT !.status = "pending"]  BY <3>2 DEF Reaped
        <4> QED  BY <3>2, <4>1, Present DEF WideRow
      <3> QED  BY <3>1, <3>2
    <2>3. Reaped.slot # NoSlot /\ Opened[Reaped.slot].when # "free"
      BY <1>3, <2>2, NextSlotFacts, OpenedFacts, Present, SlotFacts
    <2>4. ~overruled' => \A d \in Dispatchers : ~Works(disp[d])
      BY <2>1 DEF AtWork, Works
    <2>5. ~overruled' /\ finished =>
            /\ Reaped.slot = row.slot
            /\ \A d \in Dispatchers : ~Blind(disp[d], instants)
      BY <1>1, <2>1, <2>2, FinishedFacts, Present DEF Recurring
    <2> QED  BY <1>1, <2>1, <2>2, <2>3, <2>4, <2>5, OpenedFacts, StayKeeps
  <1> QED  BY <1>2, <1>3

\* A missed occurrence is dropped.
LEMMA BootDropsKeeps == ASSUME IInv, BootDrops PROVE IInv'
  <1>1. Aside /\ sched' = "up" /\ overruled' = overruled /\ row.status = "pending"
    BY RestAside DEF BootDrops, Missed, IInv, TableTypeOK
  <1>2. CASE ~Recurring
    BY <1>1, <1>2, StillKeeps DEF BootDrops
  <1>3. CASE Recurring
    <2> DEFINE r == [row EXCEPT !.slot = NextSlot]
    <2>1. NextSlot \in Places /\ NextSlot # NoSlot /\ Opened[NextSlot].when # "free"
      BY <1>3, NextSlotFacts
    <2>2. r \in WideRow /\ r.status = row.status /\ r.slot = NextSlot
      BY <2>1, Present DEF WideRow
    <2>3. Renames(r, disp, cadence, Opened)  BY <1>3 DEF BootDrops
    <2> HIDE DEF r
    <2>4. ~finished  BY <1>3, FinishedFacts DEF Recurring
    <2>5. ~overruled' => \A d \in Dispatchers : ~Works(disp[d])  BY <1>1, Present
    <2> QED  BY <1>1, <2>1, <2>2, <2>3, <2>4, <2>5, OpenedFacts, StayKeeps
  <1> QED  BY <1>2, <1>3

\* An instant comes.
LEMMA InstantPassesKeeps == ASSUME IInv, NEW s \in Slots, InstantPasses(s) PROVE IInv'
  <1> DEFINE i == [instants[s] EXCEPT !.when = "past"]
  <1>1. /\ s # cadence /\ instants' = [instants EXCEPT ![s].when = "past"]
        /\ UNCHANGED <<kind, row, cadence, disp, finished, audited, reaper, sched, faults,
                       edits, overruled>>
    BY DEF InstantPasses, Tick
  <1>2. instants \in [Slots -> Instant]  BY Present
  <1>3. i \in Instant /\ i.when = "past" /\ i.done = instants[s].done
    BY <1>2 DEF Instant
  <1>4. instants' = [instants EXCEPT ![s] = i]  BY <1>1
  <1> HIDE DEF i
  <1>5. /\ instants' \in [Slots -> Instant]
        /\ \A h \in Slots : instants'[h].done = instants[h].done
        /\ \A h \in Slots : instants'[h].when \in {instants[h].when, "past"}
        /\ \A h \in Slots : h # s => instants'[h] = instants[h]
    BY <1>2, <1>3, <1>4
  <1>6. /\ row.status # "absent" => row.slot \in Slots /\ instants[row.slot].when # "free"
        /\ \A d \in Dispatchers : disp[d].pc # "idle" =>
             disp[d].slot \in Slots /\ instants[disp[d].slot].when # "free"
        /\ kind = "daily" => cadence \in Slots /\ instants[cadence].when = "future"
    BY Present
  <1>7. TableTypeOK'
    <2>1. /\ row'.status # "absent" => instants'[row'.slot].when # "free"
          /\ \A d \in Dispatchers :
               disp'[d].pc # "idle" => instants'[disp'[d].slot].when # "free"
      BY <1>1, <1>5, <1>6
    <2> QED  BY <1>1, <1>5, <2>1 DEF IInv, TableTypeOK
  <1>8. Slotted'  BY <1>1, <1>5, <1>6 DEF IInv, Slotted
  <1>9. Stamped'  BY <1>1 DEF IInv, Stamped
  <1>10. AtWork' = AtWork  BY <1>1 DEF AtWork
  <1>11. Exclusive'  BY <1>1, <1>10 DEF IInv, Exclusive
  <1>12. OneShot'
    <2>1. \A d \in Dispatchers : Unaware(d)' => Unaware(d)
      BY <1>1, <1>5, <1>6 DEF Unaware
    <2>2. row.status # "absent" => instants'[row.slot].done = instants[row.slot].done
      BY <1>5, <1>6
    <2> QED  BY <1>1, <1>5, <1>10, <2>1, <2>2 DEF IInv, OneShot
  <1> QED  BY <1>7, <1>8, <1>9, <1>11, <1>12 DEF IInv

\* A retry falls due, or a claim gets stale.
LEMMA ClocksKeep == ASSUME IInv, RetryArrives \/ GoesStale PROVE IInv'
  <1>1. /\ UNCHANGED <<kind, instants, cadence, disp, finished, audited, reaper, sched,
                       faults, edits, overruled>>
        /\ \A d \in Dispatchers : disp[d].pc \in {"idle", "run"}
    BY DEF RetryArrives, GoesStale, Tick, Unhurried
  <1>2. /\ row' \in Row /\ row'.status = row.status /\ row'.slot = row.slot
        /\ \/ row'.claim = row.claim
           \/ /\ row.status = "running" /\ row'.claim = "stale"
              /\ \A d \in Pollers : disp[d].pc = "idle"
    <2>1. row \in Row  BY Present
    <2>2. CASE RetryArrives  BY <2>1, <2>2 DEF RetryArrives, Row
    <2>3. CASE GoesStale  BY <2>1, <2>3 DEF GoesStale, Row
    <2> QED  BY <2>2, <2>3
  <1>3. TableTypeOK'  BY <1>1, <1>2 DEF IInv, TableTypeOK
  <1>4. Slotted'  BY <1>1, <1>2 DEF IInv, Slotted
  <1>5. Stamped'  BY <1>1, <1>2 DEF IInv, Stamped
  <1>6. AtWork' = AtWork  BY <1>1 DEF AtWork
  <1>7. Exclusive'  BY <1>1, <1>2, <1>6 DEF IInv, Exclusive
  <1>8. OneShot'
    <2>1. \A d \in Dispatchers : ~Unaware(d)'  BY <1>1 DEF Unaware
    <2> QED  BY <1>1, <1>2, <1>6, <2>1 DEF IInv, OneShot
  <1> QED  BY <1>3, <1>4, <1>5, <1>7, <1>8 DEF IInv

\* The wall clock passes an instant of a daily schedule, and the next one opens.
LEMMA DayPassesKeeps == ASSUME IInv, DayPasses PROVE IInv'
  <1> DEFINE f == [Opened EXCEPT ![cadence].when = "past"]
             i == [instants[cadence] EXCEPT !.when = "past"]
  <1>1. /\ Renames(row, disp, NewSlot, f) /\ kind = "daily"
        /\ UNCHANGED <<kind, audited, reaper, sched, faults, edits, overruled>>
    BY DEF DayPasses, Tick
  <1>2. Aside  BY <1>1 DEF Aside, IInv, TableTypeOK
  <1>3. /\ cadence \in Slots /\ instants \in [Slots -> Instant]
        /\ kind \in Kinds /\ row \in WideRow /\ row.slot # NewSlot
        /\ disp \in [Dispatchers -> Dispatch]
    BY <1>1, Present, SlotFacts DEF Row
  <1>4. /\ \A h \in Slots : Opened[h] = instants[h]
        /\ Opened[NewSlot] = Coming /\ NewSlot \notin Slots /\ NewSlot # NoSlot
        /\ DOMAIN Opened = Slots \cup {NewSlot}
    BY OpenedFacts, SlotFacts DEF Opened
  <1>5. i \in Instant /\ i.when = "past"  BY <1>3 DEF Instant
  <1>6. f = [h \in DOMAIN Opened |-> IF h = cadence THEN i ELSE Opened[h]]
    BY <1>3, <1>4
  <1> HIDE DEF f, i
  <1>7. /\ f[NewSlot] = Coming /\ f[NewSlot].when = "future"
        /\ \A h \in Slots : f[h] \in Instant
        /\ \A h \in Slots : instants[h].when # "free" => f[h].when # "free"
    BY <1>3, <1>4, <1>5, <1>6 DEF Coming
  <1>8. Fits(row, disp, NewSlot, f)  BY <1>3, <1>7 DEF Fits, Places
  <1>9. Sound(row, disp, NewSlot, f)
    <2>1. /\ row.status # "absent" => row.slot # NoSlot /\ f[row.slot].when # "free"
          /\ \A d \in Dispatchers :
               disp[d].pc # "idle" => disp[d].slot # NoSlot /\ f[disp[d].slot].when # "free"
      BY <1>7, Present, SlotFacts
    <2>2. /\ row.status = "running" =>
               /\ row.claim # "none"
               /\ row.claim = "stale" => \A d \in Pollers : disp[d].pc = "idle"
          /\ sched' \in {"boot", "replay"} => \A d \in Pollers : disp[d].pc = "idle"
          /\ sched' = "down" => \A d \in Dispatchers : disp[d].pc = "idle"
      BY <1>1 DEF IInv, Stamped
    <2>3. ~overruled' =>
            /\ \A d, e \in Dispatchers : Works(disp[d]) /\ Works(disp[e]) => d = e
            /\ \A d \in Dispatchers : Works(disp[d]) => row.status \in {"running", "absent"}
      BY <1>1, Present
    <2> QED  BY <1>4, <1>7, <2>1, <2>2, <2>3 DEF Sound
  <1>10. SoundOnce(row, disp, f)  BY <1>1 DEF SoundOnce
  <1> QED  BY <1>1, <1>2, <1>3, <1>8, <1>9, <1>10, StepKeeps

(***************************************************************************)
(* The invariant.                                                          *)
(***************************************************************************)
\* The job is born pending.
LEMMA InitIInv == ASSUME Init PROVE IInv
  <1>1. /\ kind \in Kinds /\ audited = FALSE /\ reaper = FALSE /\ sched = "up"
        /\ faults = 0 /\ edits = 0 /\ finished = FALSE /\ overruled = FALSE
        /\ cadence = IF kind = "daily" THEN RowSlot ELSE NoSlot
        /\ disp = [d \in Dispatchers |-> Idle]
        /\ instants = [s \in Slots |-> IF s = RowSlot THEN Coming ELSE Unused]
    BY DEF Init
  <1>2. /\ row \in Row /\ row.status = "pending" /\ row.slot = RowSlot /\ row.claim = "none"
    <2>1. row = [NoRow EXCEPT !.status = "pending", !.enabled = TRUE, !.slot = RowSlot]
      BY DEF Init
    <2>2. row = [status |-> "pending", enabled |-> TRUE, slot |-> RowSlot,
                 retry |-> "none", retries |-> 0, claim |-> "none"]
      BY <2>1 DEF NoRow
    <2>3. RowSlot \in Slots /\ 0 \in 0..(MaxRetries - 1)  BY SlotFacts, JobAssumption
    <2> QED  BY <2>2, <2>3 DEF Row
  <1>3. /\ disp \in [Dispatchers -> Dispatch]
        /\ \A d \in Dispatchers : disp[d].pc = "idle"
    BY <1>1, IdleFacts
  <1>4. /\ instants \in [Slots -> Instant] /\ RowSlot \in Slots /\ RowSlot # NoSlot
        /\ instants[RowSlot].when = "future"
        /\ \A s \in Slots : instants[s].done = "no"
    BY <1>1, SlotFacts DEF Coming, Unused, Instant
  <1>5. 0 \in 0..MaxFaults /\ 0 \in 0..MaxEdits  BY JobAssumption
  <1>6. TableTypeOK
    <2>1. cadence \in Slots \cup {NoSlot}  BY <1>1, <1>4
    <2> QED  BY <1>1, <1>2, <1>3, <1>4, <1>5, <2>1 DEF TableTypeOK
  <1>7. Slotted  BY <1>1, <1>2, <1>3, <1>4 DEF Slotted
  <1>8. Stamped  BY <1>1, <1>2, <1>3, SlotFacts DEF Stamped
  <1>9. AtWork = {}  BY <1>3 DEF AtWork
  <1>10. Exclusive  BY <1>9 DEF Exclusive
  <1>11. OneShot  BY <1>1, <1>4, <1>9 DEF OneShot
  <1> QED  BY <1>6, <1>7, <1>8, <1>10, <1>11 DEF IInv

\* Nothing moves.
LEMMA StutterKeeps == ASSUME IInv, UNCHANGED vars PROVE IInv'
  <1>1. /\ UNCHANGED <<row, instants, cadence, disp, finished, overruled>>
        /\ UNCHANGED <<kind, audited, reaper, sched, faults, edits>>
    BY DEF vars
  <1>2. Aside  BY <1>1 DEF Aside, IInv, TableTypeOK
  <1> QED  BY <1>1, <1>2, StillKeeps

\* What was left behind ends, and nothing else happens.
LEMMA StrayEndsKeeps == ASSUME IInv, StrayEnds PROVE IInv'
  <1>1. /\ UNCHANGED <<row, instants, cadence, disp, finished, overruled>>
        /\ UNCHANGED <<kind, audited, reaper, sched, faults, edits>>
    BY DEF StrayEnds, RowOnly
  <1>2. Aside  BY <1>1 DEF Aside, IInv, TableTypeOK
  <1> QED  BY <1>1, <1>2, StillKeeps

\* Every step keeps the invariant.
LEMMA Inductive == ASSUME IInv, [Next]_vars PROVE IInv'
  <1>1. ASSUME NEW d \in Dispatchers, DispatchStep(d) \/ RunEnds(d) \/ HandlerMissing(d)
        PROVE  IInv'
    BY <1>1, DedupKeeps, SkipKeeps, ClaimKeeps, SettleKeeps, NowRecordsKeeps,
       RunEndsKeeps, HandlerMissingKeeps
    DEF DispatchStep
  <1>2. CASE Boot
    BY <1>2, StartKeeps, BootReapKeeps, BootDropsKeeps, BootReplaysKeeps DEF Boot
  <1>3. CASE Time
    BY <1>3, InstantPassesKeeps, DayPassesKeeps, ClocksKeep DEF Time
  <1>4. CASE Pause \/ Resume \/ Snooze \/ Edit \/ StopJob  BY <1>4, CommandsKeep
  <1>5. CASE ReapSelects \/ ReapWrites \/ RetireTerminal
    BY <1>5, ReapSelectsKeeps, ReapWritesKeeps, RetireTerminalKeeps
  <1>6. CASE NowReads \/ BootFails \/ Crash
    BY <1>6, NowReadsKeeps, StartKeeps, CrashKeeps
  <1>7. CASE \E d \in Pollers : PollSelects(d)  BY <1>7, PollSelectsKeeps
  <1>8. CASE UNCHANGED vars  BY <1>8, StutterKeeps
  <1>9. CASE StrayEnds  BY <1>9, StrayEndsKeeps
  <1> QED  BY <1>1, <1>2, <1>3, <1>4, <1>5, <1>6, <1>7, <1>8, <1>9 DEF Next

\* The inductive invariant holds in every state the scheduler reaches.
THEOREM JobInvariant == Spec => []IInv
  <1>1. Init => IInv  BY InitIInv
  <1>2. IInv /\ [Next]_vars => IInv'  BY Inductive
  <1> QED  BY <1>1, <1>2, PTL DEF Spec

(***************************************************************************)
(* Only the compare-and-swap starts a run.                                 *)
(***************************************************************************)
\* Renaming leaves a dispatch where it is.
LEMMA PcFacts ==
  ASSUME NEW r, NEW ds, NEW c, NEW f, ds \in [Dispatchers -> Dispatch],
         Renames(r, ds, c, f), NEW d \in Dispatchers
  PROVE  disp'[d].pc = ds[d].pc
  <1> DEFINE n == Named(Holding(r, ds, c), ds[d].slot)
  <1>1. disp'[d] = [ds[d] EXCEPT !.slot = n]  BY DEF Renames
  <1> HIDE DEF n
  <1>2. ds[d] \in Dispatch  OBVIOUS
  <1> QED  BY <1>1, <1>2 DEF Dispatch

\* A dispatch that stops starts no run.
LEMMA StopStarts ==
  ASSUME IInv, NEW r, NEW c, NEW f, NEW e \in Dispatchers, Renames(r, Stop(e), c, f),
         NEW d \in Dispatchers
  PROVE  disp'[d].pc \in {disp[d].pc, "idle"}
  <1>1. /\ Stop(e) \in [Dispatchers -> Dispatch]
        /\ Stop(e)[d].pc \in {disp[d].pc, "idle"}
    BY Present, IdleFacts DEF Stop
  <1> QED  BY <1>1, PcFacts

\* Nor does one that goes on to p, unless p is "run".
LEMMA MoveStarts ==
  ASSUME IInv, NEW r, NEW c, NEW f, NEW e \in Dispatchers, NEW x \in Dispatch,
         Renames(r, [disp EXCEPT ![e] = x], c, f), NEW d \in Dispatchers
  PROVE  disp'[d].pc \in {disp[d].pc, x.pc}
  <1> DEFINE ds == [disp EXCEPT ![e] = x]
  <1>1. ds \in [Dispatchers -> Dispatch] /\ ds[d].pc \in {disp[d].pc, x.pc}
    BY Present
  <1> QED  BY <1>1, PcFacts

\* Nor anybody while the dispatches stay as they are.
LEMMA StayStarts ==
  ASSUME IInv, NEW r, NEW c, NEW f, Renames(r, disp, c, f), NEW d \in Dispatchers
  PROVE  disp'[d].pc = disp[d].pc
  <1>1. disp \in [Dispatchers -> Dispatch]  BY Present
  <1> QED  BY <1>1, PcFacts

\* d goes into its handler.
StartsRun(d) == disp[d].pc # "run" /\ disp'[d].pc = "run"

\* The steps of a dispatch.
LEMMA DispatchStarts ==
  ASSUME IInv, NEW e \in Dispatchers, DispatchStep(e) \/ RunEnds(e) \/ HandlerMissing(e),
         NEW d \in Dispatchers, StartsRun(d)
  PROVE  row.status = "pending"
  <1>1. disp \in [Dispatchers -> Dispatch] /\ disp[e] \in Dispatch  BY Present
  <1>2. ASSUME NEW r, NEW c, NEW f, Renames(r, Stop(e), c, f) PROVE FALSE
    BY <1>2, StopStarts DEF StartsRun
  <1>3. ASSUME NEW r, NEW c, NEW f, NEW p \in {"skip", "claim", "settle"},
               Renames(r, Go(e, p), c, f)
        PROVE  FALSE
    <2>1. PICK x \in Dispatch : Go(e, p) = [disp EXCEPT ![e] = x] /\ x.pc = p
      BY GoFacts
    <2>2. Renames(r, [disp EXCEPT ![e] = x], c, f)  BY <1>3, <2>1
    <2>3. disp'[d].pc \in {disp[d].pc, x.pc}  BY <2>2, MoveStarts
    <2>4. p # "run"  OBVIOUS
    <2> QED  BY <2>1, <2>3, <2>4 DEF StartsRun
  <1>4. CASE Dedup(e)
    <2> DEFINE p == IF instants[disp[e].slot].done = "no" THEN "claim" ELSE "skip"
    <2>1. p \in {"skip", "claim", "settle"} /\ Renames(row, Go(e, p), cadence, instants)
      BY <1>4 DEF Dedup
    <2> HIDE DEF p
    <2> QED  BY <1>3, <2>1
  <1>5. CASE Skip(e)  BY <1>2, <1>5 DEF Skip
  <1>6. CASE Claim(e)  BY <1>2, <1>6 DEF Claim, Claimable
  <1>7. CASE Settle(e)
    <2>1. CASE CompleteRecurring(e)  BY <1>2, <2>1 DEF CompleteRecurring
    <2>2. CASE RetireOneShot(e)  BY <1>2, <2>2 DEF RetireOneShot
    <2>3. CASE RetryLater(e)  BY <1>2, <2>3 DEF RetryLater
    <2>4. CASE GiveUpOneShot(e)  BY <1>2, <2>4 DEF GiveUpOneShot
    <2>5. CASE Rearm(e)
      <3>1. \E r : Renames(r, Stop(e), cadence, Opened)  BY <2>5 DEF Rearm
      <3> QED  BY <1>2, <3>1
    <2>6. CASE \E r, f : Renames(r, Stop(e), cadence, f)  BY <1>2, <2>6
    <2> QED  BY <1>7, <2>1, <2>2, <2>3, <2>4, <2>5, <2>6 DEF Settle
  <1>8. CASE e = Now /\ Record
    <2>1. CASE Renames(row, Stop(e), cadence, instants)  BY <1>2, <2>1
    <2>2. CASE \E f : Renames(row, Go(e, "settle"), cadence, f)  BY <1>3, <2>2
    <2> QED  BY <1>8, <2>1, <2>2 DEF Record
  <1>9. CASE RunEnds(e)
    <2>1. PICK p \in {"record", "settle"}, o \in {"ok", "transient", "permanent"} :
            Renames(row, [disp EXCEPT ![e].pc = p, ![e].outcome = o], cadence, instants)
      BY <1>9 DEF RunEnds, HandlerEnds, HandlerTimesOut
    <2> DEFINE x == [disp[e] EXCEPT !.pc = p, !.outcome = o]
    <2>2. p \in {"record", "settle"}  BY <2>1
    <2>3. Renames(row, [disp EXCEPT ![e].pc = p, ![e].outcome = o], cadence, instants)
      BY <2>1
    <2>4. x \in Dispatch /\ x.pc = p  BY <1>1, <2>2 DEF Dispatch
    <2>5. [disp EXCEPT ![e].pc = p, ![e].outcome = o] = [disp EXCEPT ![e] = x]
      BY <1>1 DEF Dispatch
    <2>6. Renames(row, [disp EXCEPT ![e] = x], cadence, instants)  BY <2>3, <2>5
    <2> HIDE DEF x
    <2> QED  BY <2>2, <2>4, <2>6, MoveStarts DEF StartsRun
  <1>10. CASE HandlerMissing(e)  BY <1>2, <1>10 DEF HandlerMissing
  <1> QED  BY <1>4, <1>5, <1>6, <1>7, <1>8, <1>9, <1>10 DEF DispatchStep

\* Every step: a run starts on a row that was pending.
LEMMA OnlyClaimStarts ==
  ASSUME IInv, [Next]_vars, NEW d \in Dispatchers, StartsRun(d)
  PROVE  row.status = "pending"
  <1>1. ASSUME disp' = disp PROVE FALSE  BY <1>1 DEF StartsRun
  <1>2. ASSUME NEW r, NEW c, NEW f, Renames(r, disp, c, f) PROVE FALSE
    BY <1>2, StayStarts DEF StartsRun
  <1>3. ASSUME NEW e \in Dispatchers, NEW p \in {"dedup", "claim"},
               Renames(row, ReadsRow(e, p), cadence, instants)
        PROVE  FALSE
    <2> DEFINE x == [pc |-> p, slot |-> row.slot, retries |-> row.retries,
                     outcome |-> "none"]
    <2>1. row \in Row  BY Present
    <2>2. x \in Dispatch /\ x.pc = p  BY <2>1 DEF Row, Dispatch
    <2>3. ReadsRow(e, p) = [disp EXCEPT ![e] = x]  BY DEF ReadsRow
    <2> HIDE DEF x
    <2>4. Renames(row, [disp EXCEPT ![e] = x], cadence, instants)  BY <1>3, <2>3
    <2> QED  BY <2>2, <2>4, MoveStarts DEF StartsRun
  <1>4. CASE \E e \in Dispatchers : DispatchStep(e) \/ RunEnds(e) \/ HandlerMissing(e)
    BY <1>4, DispatchStarts
  <1>5. CASE \E e \in Pollers : PollSelects(e) \/ BootReplays(e)
    BY <1>3, <1>5, SlotFacts DEF PollSelects, BootReplays
  <1>6. CASE NowReads
    <2> DEFINE p == IF Recurring THEN "claim" ELSE "dedup"
    <2>1. p \in {"dedup", "claim"} /\ Renames(row, ReadsRow(Now, p), cadence, instants)
      BY <1>6 DEF NowReads
    <2> HIDE DEF p
    <2> QED  BY <1>3, <2>1, SlotFacts
  <1>7. CASE ReapSelects \/ ReapWrites \/ RetireTerminal
    BY <1>1, <1>2, <1>7 DEF ReapSelects, ReapWrites, RetireTerminal
  <1>8. CASE Pause \/ Resume \/ Snooze \/ Edit \/ StopJob
    BY <1>2, <1>8 DEF Pause, Resume, Snooze, Edit, StopJob, Command
  <1>9. CASE Starts \/ BootReap \/ BootDrops \/ BootEnds \/ BootFails
    BY <1>1, <1>2, <1>9 DEF Starts, BootReap, BootDrops, BootEnds, BootFails
  <1>10. CASE Crash
    <2> DEFINE ds == [e \in Dispatchers |-> Idle]
    <2>1. Renames(row, ds, cadence, instants)  BY <1>10 DEF Crash
    <2>2. ds \in [Dispatchers -> Dispatch] /\ ds[d].pc = "idle"  BY IdleFacts
    <2> HIDE DEF ds
    <2> QED  BY <2>1, <2>2, PcFacts DEF StartsRun
  <1>11. CASE Time
    BY <1>1, <1>2, <1>11 DEF Time, InstantPasses, DayPasses, RetryArrives, GoesStale
  <1>12. CASE UNCHANGED vars \/ StrayEnds  BY <1>1, <1>12 DEF vars, StrayEnds
  <1> QED
    BY <1>4, <1>5, <1>6, <1>7, <1>8, <1>9, <1>10, <1>11, <1>12 DEF Next, Boot

(***************************************************************************)
(* What a timed-out handler leaves behind.                                 *)
(***************************************************************************)
\* As long as its row has not been given back, the row is running and no handler is.
Left ==
  /\ strays \subseteq {"held", "freed"}
  /\ "held" \in strays => row.status = "running"
  /\ "held" \in strays /\ ~overruled => \A d \in Dispatchers : disp[d].pc # "run"

\* The strays of a step that neither leaves nor ends one.
Follow == strays' = IF row'.status = "running" THEN strays ELSE GivenBack

\* A step that leaves the status and the strays alone is one.
LEMMA SameFollows == ASSUME Left, row'.status = row.status, strays' = strays PROVE Follow
  BY DEF Left, Follow, GivenBack

\* The settling of a run, in every branch.
LEMMA SettleFollows == ASSUME NEW d \in Dispatchers, Settle(d) PROVE Follow
  <1>1. CASE CompleteRecurring(d)  BY <1>1 DEF CompleteRecurring, Follow
  <1>2. CASE RetireOneShot(d)  BY <1>2 DEF RetireOneShot, Follow
  <1>3. CASE RetryLater(d)  BY <1>3 DEF RetryLater, Follow
  <1>4. CASE GiveUpOneShot(d)  BY <1>4 DEF GiveUpOneShot, Follow
  <1>5. CASE Rearm(d)  BY <1>5 DEF Rearm, Follow
  <1>6. CASE \E r, f : Becomes(r, Stop(d), cadence, f)  BY <1>6 DEF Follow
  <1> QED  BY <1>1, <1>2, <1>3, <1>4, <1>5, <1>6 DEF Settle

\* Every step but a timeout, the end of a stray and a crash; and no step takes back
\* that the owner or a reaper has overruled a dispatch.
LEMMA StepFollows ==
  ASSUME IInv, Left, [Next]_vars
  PROVE  /\ overruled => overruled'
         /\ \/ Follow \/ StrayEnds \/ Crash
            \/ \E d \in Dispatchers : HandlerTimesOut(d)
  <1>0. row \in Row  BY Present
  <1>a. UNCHANGED <<row, strays>> => Follow  BY SameFollows
  <1>b. overruled \in BOOLEAN  BY DEF IInv, TableTypeOK
  <1>1. ASSUME NEW d \in Dispatchers, DispatchStep(d) \/ HandlerMissing(d)
        PROVE  Follow /\ (overruled => overruled')
    <2>1. CASE Settle(d)  BY <2>1, SettleFollows DEF Settle
    <2>2. CASE Dedup(d) \/ Skip(d)  BY <2>2 DEF Dedup, Skip, RowOnly, Follow
    <2>3. CASE Claim(d)  BY <2>3 DEF Claim, Follow
    <2>4. CASE Record \/ HandlerMissing(d)
      BY <2>4 DEF Record, HandlerMissing, RowOnly, Follow
    <2> QED  BY <1>1, <2>1, <2>2, <2>3, <2>4 DEF DispatchStep
  <1>2. ASSUME NEW d \in Dispatchers, RunEnds(d)
        PROVE  (Follow \/ HandlerTimesOut(d)) /\ (overruled => overruled')
    BY <1>2 DEF RunEnds, HandlerEnds, HandlerTimesOut, RowOnly, Follow
  <1>3. CASE \E d \in Pollers : PollSelects(d) \/ BootReplays(d)
    BY <1>3 DEF PollSelects, BootReplays, RowOnly, Follow
  <1>4. CASE NowReads  BY <1>4 DEF NowReads, Follow
  <1>5. CASE ReapSelects \/ ReapWrites \/ RetireTerminal
    <2>1. CASE ReapSelects  BY <1>a, <2>1 DEF ReapSelects
    <2>2. CASE ReapWrites
      <3>1. CASE row.status = "running"  BY <1>b, <2>2, <3>1 DEF ReapWrites, Follow
      <3>2. CASE row.status # "running"  BY <1>a, <2>2, <3>2 DEF ReapWrites
      <3> QED  BY <3>1, <3>2
    <2>3. CASE RetireTerminal
      <3>1. overruled' = overruled  BY <2>3 DEF RetireTerminal
      <3>2. UNCHANGED <<row, strays>> \/ Becomes(NoRow, disp, cadence, instants)
        BY <2>3 DEF RetireTerminal
      <3> QED  BY <1>a, <3>1, <3>2 DEF Follow
    <2> QED  BY <1>5, <2>1, <2>2, <2>3
  <1>6. CASE Pause \/ Resume \/ Snooze \/ Edit \/ StopJob
    BY <1>6 DEF Pause, Resume, Snooze, Edit, StopJob, Command, Follow
  <1>7. CASE Starts \/ BootReap \/ BootDrops \/ BootEnds \/ BootFails
    <2>1. CASE Starts \/ BootEnds \/ BootFails
      BY <1>a, <2>1 DEF Starts, BootEnds, BootFails
    <2>2. CASE BootReap
      <3>1. CASE row.status = "running"  BY <1>b, <2>2, <3>1 DEF BootReap, Follow
      <3>2. CASE row.status # "running"  BY <1>a, <2>2, <3>2 DEF BootReap
      <3> QED  BY <3>1, <3>2
    <2>3. CASE BootDrops
      <3>1. CASE Recurring  BY <2>3, <3>1 DEF BootDrops, Follow
      <3>2. CASE ~Recurring  BY <1>a, <2>3, <3>2 DEF BootDrops
      <3> QED  BY <3>1, <3>2
    <2> QED  BY <1>7, <2>1, <2>2, <2>3
  <1>8. CASE Crash \/ StrayEnds  BY <1>8 DEF Crash, StrayEnds, RowOnly
  <1>9. CASE Time
    <2>1. CASE DayPasses  BY <2>1 DEF DayPasses, Tick, Follow
    <2>2. CASE \E s \in Slots : InstantPasses(s)
      BY <2>2, SameFollows DEF InstantPasses, Tick
    <2>3. CASE RetryArrives \/ GoesStale
      BY <1>0, <2>3, SameFollows DEF RetryArrives, GoesStale, Tick, Row
    <2> QED  BY <1>9, <2>1, <2>2, <2>3 DEF Time
  <1>10. CASE UNCHANGED vars  BY <1>10, SameFollows DEF vars
  <1> QED
    BY <1>1, <1>2, <1>3, <1>4, <1>5, <1>6, <1>7, <1>8, <1>9, <1>10 DEF Next, Boot

\* Every step keeps it: only the compare-and-swap starts a run, and it needs a row that
\* is pending.
LEMMA LeftInductive == ASSUME IInv, Left, [Next]_vars PROVE Left'
  <1>1. \A d \in Dispatchers : StartsRun(d) => row.status = "pending"
    BY OnlyClaimStarts
  <1>2. overruled => overruled'  BY StepFollows
  <1>3. CASE Follow
    BY <1>1, <1>2, <1>3 DEF Left, Follow, GivenBack, StartsRun
  <1>4. CASE StrayEnds  BY <1>4 DEF StrayEnds, RowOnly, Left
  <1>5. CASE Crash  BY <1>5 DEF Crash, Left
  <1>6. ASSUME NEW d \in Dispatchers, HandlerTimesOut(d) PROVE Left'
    <2> DEFINE x  == [disp[d] EXCEPT !.pc = "settle", !.outcome = "transient"]
               ds == [disp EXCEPT ![d] = x]
    <2>1. disp \in [Dispatchers -> Dispatch] /\ row \in WideRow /\ cadence \in Places
          /\ instants \in [Slots -> Instant] /\ row.slot # NewSlot /\ cadence # NewSlot
      BY Present, SlotFacts DEF Row
    <2>2. x \in Dispatch /\ x.pc = "settle"  BY <2>1 DEF Dispatch
    <2>3. Renames(row, ds, cadence, instants)
      <3>1. [disp EXCEPT ![d].pc = "settle", ![d].outcome = "transient"] = ds
        BY <2>1 DEF Dispatch
      <3> QED  BY <1>6, <3>1 DEF HandlerTimesOut
    <2> HIDE DEF x
    <2>4. /\ ds \in [Dispatchers -> Dispatch] /\ ds[d].pc = "settle"
          /\ \A e \in Dispatchers : e # d => ds[e] = disp[e]
      BY <2>1, <2>2
    <2> HIDE DEF ds
    <2>5. Fits(row, ds, cadence, instants)  BY <2>1, <2>4 DEF Fits
    <2>6. row'.status = row.status /\ \A e \in Dispatchers : disp'[e].pc = ds[e].pc
      <3>1. Renamed(row, ds, cadence, instants)  BY <2>3, <2>5, RenamesFacts
      <3> QED  BY <3>1 DEF Renamed
    <2>7. ~overruled => \A e \in Dispatchers : e # d => disp[e].pc # "run"
      <3>1. Works(disp[d])  BY <1>6 DEF HandlerTimesOut, Works
      <3>2. \A e \in Dispatchers : disp[e].pc = "run" => Works(disp[e])  BY DEF Works
      <3> QED  BY <3>1, <3>2, Present
    <2>8. overruled' = overruled
          /\ (strays' = strays
              \/ strays' = strays \cup {IF row.status = "running" THEN "held" ELSE "freed"})
      BY <1>6 DEF HandlerTimesOut, RowOnly
    <2>9. ~overruled' => \A e \in Dispatchers : disp'[e].pc # "run"
      BY <2>4, <2>6, <2>7, <2>8
    <2> QED  BY <2>6, <2>8, <2>9 DEF Left
  <1> QED  BY <1>3, <1>4, <1>5, <1>6, StepFollows

\* What a timeout leaves behind is not overlapped before its row has been given back.
LEMMA LeftInvariant == Spec => [](IInv /\ Left)
  <1>1. Init => IInv /\ Left
    <2> SUFFICES ASSUME Init PROVE IInv /\ Left  OBVIOUS
    <2>1. IInv  BY InitIInv
    <2>2. Left  BY DEF Init, Left
    <2> QED  BY <2>1, <2>2
  <1>2. IInv /\ Left /\ [Next]_vars => (IInv /\ Left)'  BY Inductive, LeftInductive
  <1> QED  BY <1>1, <1>2, PTL DEF Spec

\* A row that exists keeps an instant that is described, and so does a dispatch that
\* is under way, whatever the statements of scheduler.py re-arm, free or delete.
THEOREM JobTypes == Spec => []JobTypeOK
  <1>1. IInv /\ Left => JobTypeOK  BY DEF IInv, TableTypeOK, Left, JobTypeOK
  <1> QED  BY <1>1, LeftInvariant, PTL

\* Nobody else is at work when one dispatch is.
LEMMA AloneAtWork == ASSUME IInv, Left PROVE NoOverlap
  <1> SUFFICES ASSUME ~overruled PROVE Cardinality(AtWork) <= 1  BY DEF NoOverlap, Left
  <1>1. \A d, e \in AtWork : d = e  BY DEF IInv, Exclusive
  <1>2. CASE AtWork = {}
    <2>1. Cardinality(AtWork) = 0  BY <1>2, FS_EmptySet
    <2> QED  BY <2>1
  <1>3. CASE AtWork # {}
    <2>1. PICK d \in AtWork : TRUE  BY <1>3
    <2>2. AtWork = {d}  BY <1>1, <2>1
    <2>3. Cardinality({d}) = 1  BY FS_Singleton
    <2>4. Cardinality(AtWork) = 1  BY <2>2, <2>3
    <2> QED  BY <2>4
  <1> QED  BY <1>2, <1>3

\* For any number of overlapping poll cycles beside run_now and the replay at boot,
\* _run_job's compare-and-swap lets one handler of a job run at a time, unless the row
\* was taken away from its dispatch; and as long as the row has not been given back,
\* what a handler left behind at its timeout is not overlapped by another run either.
THEOREM NoOverlapHolds == Spec => []NoOverlap
  <1>1. IInv /\ Left => NoOverlap  BY AloneAtWork
  <1> QED  BY <1>1, LeftInvariant, PTL

\* A one-shot with a completed run on record is never started again, for any number of
\* poll cycles and of faults between its handler's return and its retirement: whoever
\* read it before the run was on record meets a running row and loses the
\* compare-and-swap, and both reapers keep the slot under which the run is on record.
THEOREM FinishedNotRerunHolds == Spec => FinishedNotRerun
  <1>1. IInv /\ [Next]_vars =>
          [\A d \in Dispatchers :
             disp[d].pc = "claim" /\ disp'[d].pc = "run" => overruled \/ ~finished]_vars
    <2> SUFFICES ASSUME IInv, [Next]_vars, NEW d \in Dispatchers, StartsRun(d),
                        disp[d].pc = "claim", ~overruled, finished
                 PROVE  FALSE
      BY DEF StartsRun
    <2>1. row.status = "pending"  BY OnlyClaimStarts
    <2>2. Blind(disp[d], instants)  BY DEF Blind
    <2> QED  BY <2>1, <2>2, FinishedFacts, Present
  <1> QED  BY <1>1, JobInvariant, PTL DEF Spec, FinishedNotRerun
=============================================================================
