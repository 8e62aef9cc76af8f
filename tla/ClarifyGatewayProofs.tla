------------------------- MODULE ClarifyGatewayProofs -------------------------
(***************************************************************************)
(* The safety of the clarify gateway for any number of questions, replies  *)
(* and faults.  The inductive invariant adds to the checked properties     *)
(* what a coroutine's place says about its question (Stage): before it is  *)
(* raised a question has no entry and no item, only a blocking question    *)
(* waits or has an item, and a turn that was answered has returned.        *)
(***************************************************************************)
EXTENDS ClarifyGateway, TLAPS, FiniteSetTheorems

Early == {"idle", "replacing", "raising"}

\* Where the coroutine of a question stands bounds what exists of it.
Stage(q) ==
    /\ pc[q] \in Early => q \notin pending /\ item[q] = "none"
    /\ pc[q] \in {"raising", "delivering", "parked", "resolving", "settling"} =>
           blocking[q]
    /\ item[q] # "none" => blocking[q]
    /\ outcome[q] = "answered" => pc[q] = "done"

Staged == \A q \in Questions : Stage(q)

\* ReplyUsedOnce without counting: no two questions hold the same reply.
OneUser ==
    /\ \A m \in Messages : \A p, q \in Questions :
           answer[p] = m /\ answer[q] = m => p = q
    /\ \A m \in Messages : \A q \in Questions : answer[q] = m => msg[m] = "consumed"

IInv ==
    /\ ClarifyTypeOK
    /\ Staged
    /\ NoOrphanWaiter
    /\ RecordMatchesTurn
    /\ NoStrandedItem
    /\ OneUser

-----------------------------------------------------------------------------
\* Questions, messages and the janitor are different actors.
LEMMA ActorsApart ==
  /\ Janitor \in Actors
  /\ \A q \in Questions : q \in Actors /\ q # Janitor /\ q # None
  /\ \A m \in Messages : m \in Actors /\ m # Janitor /\ m # None
  /\ \A q \in Questions : \A m \in Messages : q # m
BY ClarifyAssumption DEF Actors

\* What a loop's drop of one entry does to the registry, the waiter and the loop.
LEMMA DropFits ==
  ASSUME ClarifyTypeOK, NEW a \in Actors, NEW S \in SUBSET Questions, Drop(a, S)
  PROVE  /\ pending' \subseteq Questions /\ earlier' \subseteq Questions \X Questions
         /\ event' \in [Questions -> BOOLEAN]
         /\ dropping' \in [Actors -> Questions \cup {None}]
         /\ left' \in [Actors -> SUBSET Questions]
         /\ dropping'[a] # None /\ S # {}
         /\ \A b \in Actors \ {a} : dropping'[b] = dropping[b]
<1>1. PICK p \in S : /\ Pop(p) /\ Wake(p)
                     /\ dropping' = [dropping EXCEPT ![a] = p]
                     /\ left' = [left EXCEPT ![a] = S \ {p}]
  BY DEF Drop
<1>2. p \in Questions /\ p # None /\ S \ {p} \in SUBSET Questions
  BY ClarifyAssumption
<1>3. pending' \subseteq Questions /\ earlier' \subseteq Questions \X Questions
  BY <1>1 DEF Pop, ClarifyTypeOK
<1>4. event' \in [Questions -> BOOLEAN]
  <2>1. blocking[p] \in BOOLEAN
    BY <1>2 DEF ClarifyTypeOK
  <2> QED BY <1>1, <1>2, <2>1 DEF Wake, ClarifyTypeOK
<1> QED BY <1>1, <1>2, <1>3, <1>4 DEF ClarifyTypeOK

\* The end of such a loop frees its actor.
LEMMA DoneFits ==
  ASSUME ClarifyTypeOK, NEW a \in Actors, DropsDone(a)
  PROVE  /\ dropping' \in [Actors -> Questions \cup {None}]
         /\ left' \in [Actors -> SUBSET Questions]
         /\ dropping'[a] = None
         /\ \A b \in Actors \ {a} : dropping'[b] = dropping[b]
BY DEF DropsDone, ClarifyTypeOK

\* settle_or_abandon settles this item or leaves it to the sweep, and no other.
LEMMA SettleFits ==
  ASSUME ClarifyTypeOK, NEW p \in Questions, SettleOrAbandon(p)
  PROVE  /\ item' \in [Questions -> {"none", "open", "settled"}]
         /\ \A r \in Questions : item[r] = "settled" => item'[r] = "settled"
         /\ strays' \subseteq Questions
         /\ faults' \in 0..MaxFaults
<1>1. CASE item' = Expired(p) /\ UNCHANGED <<strays, faults>>
  BY <1>1 DEF Expired, ClarifyTypeOK
<1>2. CASE Fault /\ strays' = strays \cup {p} /\ UNCHANGED item
  BY <1>2, ClarifyAssumption DEF Fault, ClarifyTypeOK
<1> QED BY <1>1, <1>2 DEF SettleOrAbandon

\* _resolve_entry hands a message to a waiter.
LEMMA ResolveFits ==
  ASSUME ClarifyTypeOK, NEW p \in Questions, NEW m \in Messages, Resolve(p, m)
  PROVE  /\ event' \in [Questions -> BOOLEAN]
         /\ answer' \in [Questions -> Messages \cup {None}]
<1>1. event' \in [Questions -> BOOLEAN]
  BY DEF Resolve, ClarifyTypeOK
<1>2. answer' \in [Questions -> Messages \cup {None}]
  BY DEF Resolve, ClarifyTypeOK
<1> QED BY <1>1, <1>2

\* What a loop has still to drop are questions.
LEMMA RemainingFits ==
  ASSUME ClarifyTypeOK, NEW a \in Actors
  PROVE  Remaining(a) \in SUBSET Questions
BY DEF Remaining, ClarifyTypeOK

\* Every step keeps the type invariant.
LEMMA TypeStep ==
  ASSUME IInv, [Next]_vars
  PROVE  ClarifyTypeOK'
<1> USE ClarifyAssumption DEF IInv, Actors, Places, Fates, Outcomes, Early
<1>1. ASSUME NEW q \in Questions, NEW b \in BOOLEAN, Ask(q, b) PROVE ClarifyTypeOK'
  <2>0. /\ q \in Actors /\ pending \in SUBSET Questions
        /\ blocking' \in [Questions -> BOOLEAN]
    BY <1>1 DEF Ask, ClarifyTypeOK
  <2>1. CASE Drop(q, pending) /\ pc' = [pc EXCEPT ![q] = "replacing"]
             /\ UNCHANGED outcome
    <3>1. /\ pending' \subseteq Questions /\ earlier' \subseteq Questions \X Questions
          /\ event' \in [Questions -> BOOLEAN]
          /\ dropping' \in [Actors -> Questions \cup {None}]
          /\ left' \in [Actors -> SUBSET Questions]
          /\ dropping'[q] # None /\ \A b1 \in Actors \ {q} : dropping'[b1] = dropping[b1]
      BY <2>0, <2>1, DropFits
    <3>2. /\ \A p \in Questions : pc'[p] = "replacing" <=> dropping'[p] # None
          /\ \A n \in Messages : dropping'[n] = dropping[n]
      <4> HIDE DEF Actors
      <4>1. \A b1 \in Questions \cup Messages : b1 # q => dropping'[b1] = dropping[b1]
        BY <3>1, ActorsApart
      <4>2. \A n \in Messages : dropping'[n] = dropping[n]
        BY <4>1, ActorsApart
      <4>3. \A p \in Questions : pc'[p] = IF p = q THEN "replacing" ELSE pc[p]
        BY <2>1 DEF ClarifyTypeOK
      <4> QED BY <3>1, <4>1, <4>2, <4>3 DEF ClarifyTypeOK
    <3>3. pc' \in [Questions -> Places]
      BY <2>1 DEF ClarifyTypeOK
    <3> HIDE DEF Actors
    <3> QED BY <1>1, <2>0, <2>1, <3>1, <3>2, <3>3
            DEF Ask, ClarifyTypeOK, itemVars, ghostVars
  <2>2. CASE pending = {} /\ Open(q, b) /\ UNCHANGED <<dropVars, event>>
    <3>1. pending' \subseteq Questions /\ earlier' \subseteq Questions \X Questions
      BY <2>2 DEF Open, Register, registry, ClarifyTypeOK
    <3>2. pc' \in [Questions -> Places] /\ outcome' \in [Questions -> Outcomes]
      BY <2>2 DEF Open, ClarifyTypeOK
    <3>3. \A p \in Questions : pc'[p] = "replacing" <=> dropping[p] # None
      BY <1>1, <2>2 DEF Ask, Open, ClarifyTypeOK
    <3> QED BY <1>1, <2>0, <2>2, <3>1, <3>2, <3>3
            DEF Ask, ClarifyTypeOK, dropVars, itemVars, ghostVars
  <2> QED BY <1>1, <2>1, <2>2 DEF Ask
<1>2. ASSUME NEW q \in Questions, Replace(q) PROVE ClarifyTypeOK'
  <2>0. /\ q \in Actors /\ dropping[q] \in Questions
        /\ Remaining(q) \in SUBSET Questions
    BY <1>2, RemainingFits DEF Replace, ClarifyTypeOK
  <2>1. /\ item' \in [Questions -> {"none", "open", "settled"}]
        /\ \A r \in Questions : item[r] = "settled" => item'[r] = "settled"
        /\ strays' \subseteq Questions /\ faults' \in 0..MaxFaults
    BY <1>2, <2>0, SettleFits DEF Replace
  <2>2. CASE Drop(q, Remaining(q)) /\ UNCHANGED <<pc, outcome>>
    <3>1. /\ pending' \subseteq Questions /\ earlier' \subseteq Questions \X Questions
          /\ event' \in [Questions -> BOOLEAN]
          /\ dropping' \in [Actors -> Questions \cup {None}]
          /\ left' \in [Actors -> SUBSET Questions]
          /\ dropping'[q] # None /\ \A b \in Actors \ {q} : dropping'[b] = dropping[b]
      BY <2>0, <2>2, DropFits
    <3>2. /\ \A p \in Questions : pc[p] = "replacing" <=> dropping'[p] # None
          /\ \A n \in Messages : dropping'[n] = dropping[n]
      BY <1>2, <2>0, <3>1, ActorsApart DEF Replace, ClarifyTypeOK
    <3> HIDE DEF Actors
    <3> QED BY <1>2, <2>1, <2>2, <3>1, <3>2 DEF Replace, ClarifyTypeOK
  <2>3. CASE DropsDone(q) /\ Open(q, blocking[q]) /\ UNCHANGED event
    <3>1. pending' \subseteq Questions /\ earlier' \subseteq Questions \X Questions
      BY <2>3 DEF Open, Register, registry, ClarifyTypeOK
    <3>2. pc' \in [Questions -> Places] /\ outcome' \in [Questions -> Outcomes]
      BY <2>3 DEF Open, ClarifyTypeOK
    <3>3. \A p \in Questions : pc'[p] = "replacing" <=> dropping'[p] # None
      BY <2>0, <2>3, DoneFits DEF Open, ClarifyTypeOK
    <3>4. /\ dropping' \in [Actors -> Questions \cup {None}]
          /\ left' \in [Actors -> SUBSET Questions]
          /\ \A n \in Messages : dropping'[n] = dropping[n]
      BY <2>0, <2>3, DoneFits, ActorsApart
    <3> HIDE DEF Actors
    <3> QED BY <1>2, <2>1, <2>3, <3>1, <3>2, <3>3, <3>4 DEF Replace, ClarifyTypeOK
  <2> QED BY <1>2, <2>2, <2>3 DEF Replace
<1>3. ASSUME NEW q \in Questions, Raise(q) PROVE ClarifyTypeOK'
  BY <1>3
     DEF Raise, Fault, Register, ClarifyTypeOK, Staged, Stage, registry, entryVars,
         dropVars, itemVars, resultVars, ghostVars
<1>4. ASSUME NEW q \in Questions, Deliver(q) PROVE ClarifyTypeOK'
  <2>1. pending' \subseteq Questions /\ earlier' \subseteq Questions \X Questions
    BY <1>4
       DEF Deliver, Collect, Pop, ClarifyTypeOK, Staged, Stage, registry, entryVars,
           dropVars, itemVars, resultVars, ghostVars
  <2>2. /\ pc' \in [Questions -> Places] /\ outcome' \in [Questions -> Outcomes]
        /\ got' \in [Questions -> Messages \cup {None}]
    BY <1>4
       DEF Deliver, Collect, Pop, ClarifyTypeOK, Staged, Stage, registry, entryVars,
           dropVars, itemVars, resultVars, ghostVars
  <2>3. /\ blocking' \in [Questions -> BOOLEAN] /\ event' \in [Questions -> BOOLEAN]
        /\ cancelled' \in [Questions -> BOOLEAN]
        /\ answer' \in [Questions -> Messages \cup {None}]
    BY <1>4
       DEF Deliver, Collect, Pop, ClarifyTypeOK, Staged, Stage, registry, entryVars,
           dropVars, itemVars, resultVars, ghostVars
  <2>4. /\ dropping' \in [Actors -> Questions \cup {None}]
        /\ left' \in [Actors -> SUBSET Questions]
        /\ msg' \in [Messages -> Fates]
        /\ \A p \in Questions : pc'[p] = "replacing" <=> dropping'[p] # None
        /\ \A n \in Messages : msg'[n] = "cancelling" <=> dropping'[n] # None
    BY <1>4
       DEF Deliver, Collect, Pop, ClarifyTypeOK, Staged, Stage, registry, entryVars,
           dropVars, itemVars, resultVars, ghostVars
  <2>5. /\ item' \in [Questions -> {"none", "open", "settled"}]
        /\ recorded' \in [Questions -> Messages \cup {None}]
        /\ \A p \in Questions : recorded'[p] # None => item'[p] = "settled" 
    BY <1>4
       DEF Deliver, Collect, Pop, ClarifyTypeOK, Staged, Stage, registry, entryVars,
           dropVars, itemVars, resultVars, ghostVars
  <2>6. /\ up' \in BOOLEAN /\ due' \subseteq Questions
        /\ unlogged' \subseteq Questions /\ strays' \subseteq Questions
        /\ faults' \in 0..MaxFaults
    BY <1>4
       DEF Deliver, Collect, Pop, ClarifyTypeOK, Staged, Stage, registry, entryVars,
           dropVars, itemVars, resultVars, ghostVars
  <2> QED BY <2>1, <2>2, <2>3, <2>4, <2>5, <2>6 DEF ClarifyTypeOK
<1>5. ASSUME NEW q \in Questions, Woken(q) PROVE ClarifyTypeOK'
  <2>1. pending' \subseteq Questions /\ earlier' \subseteq Questions \X Questions
    BY <1>5
       DEF Woken, Collect, Pop, ClarifyTypeOK, Staged, Stage, registry, entryVars,
           dropVars, itemVars, resultVars, ghostVars
  <2>2. /\ pc' \in [Questions -> Places] /\ outcome' \in [Questions -> Outcomes]
        /\ got' \in [Questions -> Messages \cup {None}]
    BY <1>5
       DEF Woken, Collect, Pop, ClarifyTypeOK, Staged, Stage, registry, entryVars,
           dropVars, itemVars, resultVars, ghostVars
  <2>3. /\ blocking' \in [Questions -> BOOLEAN] /\ event' \in [Questions -> BOOLEAN]
        /\ cancelled' \in [Questions -> BOOLEAN]
        /\ answer' \in [Questions -> Messages \cup {None}]
    BY <1>5
       DEF Woken, Collect, Pop, ClarifyTypeOK, Staged, Stage, registry, entryVars,
           dropVars, itemVars, resultVars, ghostVars
  <2>4. /\ dropping' \in [Actors -> Questions \cup {None}]
        /\ left' \in [Actors -> SUBSET Questions]
        /\ msg' \in [Messages -> Fates]
        /\ \A p \in Questions : pc'[p] = "replacing" <=> dropping'[p] # None
        /\ \A n \in Messages : msg'[n] = "cancelling" <=> dropping'[n] # None
    BY <1>5
       DEF Woken, Collect, Pop, ClarifyTypeOK, Staged, Stage, registry, entryVars,
           dropVars, itemVars, resultVars, ghostVars
  <2>5. /\ item' \in [Questions -> {"none", "open", "settled"}]
        /\ recorded' \in [Questions -> Messages \cup {None}]
        /\ \A p \in Questions : recorded'[p] # None => item'[p] = "settled" 
    BY <1>5
       DEF Woken, Collect, Pop, ClarifyTypeOK, Staged, Stage, registry, entryVars,
           dropVars, itemVars, resultVars, ghostVars
  <2>6. /\ up' \in BOOLEAN /\ due' \subseteq Questions
        /\ unlogged' \subseteq Questions /\ strays' \subseteq Questions
        /\ faults' \in 0..MaxFaults
    BY <1>5
       DEF Woken, Collect, Pop, ClarifyTypeOK, Staged, Stage, registry, entryVars,
           dropVars, itemVars, resultVars, ghostVars
  <2> QED BY <2>1, <2>2, <2>3, <2>4, <2>5, <2>6 DEF ClarifyTypeOK
<1>6. ASSUME NEW q \in Questions, Timeout(q) PROVE ClarifyTypeOK'
  BY <1>6
     DEF Timeout, Pop, ClarifyTypeOK, Staged, Stage, registry, entryVars, dropVars,
         itemVars, resultVars, ghostVars
<1>7. ASSUME NEW q \in Questions, Settle(q) PROVE ClarifyTypeOK'
  BY <1>7
     DEF Settle, SettleOrAbandon, Expired, Fault, ClarifyTypeOK, Staged, Stage,
         registry, entryVars, dropVars, itemVars, resultVars, ghostVars
<1>8. ASSUME NEW q \in Questions, Finish(q) PROVE ClarifyTypeOK'
  <2>1. /\ pc' \in [Questions -> Places] /\ outcome' \in [Questions -> Outcomes]
        /\ \A p \in Questions : pc'[p] = "replacing" <=> pc[p] = "replacing"
    BY <1>8 DEF Finish, ClarifyTypeOK
  <2>2. answer[q] \in Messages \cup {None} /\ recorded[q] \in Messages \cup {None}
    BY DEF ClarifyTypeOK
  <2>3. /\ item' \in [Questions -> {"none", "open", "settled"}]
        /\ recorded' \in [Questions -> Messages \cup {None}]
    BY <1>8, <2>2 DEF Finish, ClarifyTypeOK, itemVars
  <2>4. got' \in [Questions -> Messages \cup {None}]
    BY <1>8, <2>2, <2>3 DEF Finish, ClarifyTypeOK
  <2>5. \A p \in Questions : recorded'[p] # None => item'[p] = "settled"
    BY <1>8 DEF Finish, ClarifyTypeOK, itemVars
  <2>6. unlogged' \subseteq Questions /\ strays' \subseteq Questions
        /\ faults' \in 0..MaxFaults
    BY <1>8 DEF Finish, Fault, ClarifyTypeOK
  <2> QED BY <1>8, <2>1, <2>3, <2>4, <2>5, <2>6
          DEF Finish, ClarifyTypeOK, registry, entryVars, dropVars
<1>9. ASSUME NEW q \in Questions, Cancel(q) PROVE ClarifyTypeOK'
  BY <1>9
     DEF Cancel, Fault, Pop, Expired, Claims, ClarifyTypeOK, Staged, Stage,
         registry, entryVars, dropVars, itemVars, resultVars, ghostVars
<1>10. ASSUME NEW q \in Questions, Age(q) PROVE ClarifyTypeOK'
  BY <1>10
     DEF Age, ClarifyTypeOK, Staged, Stage, registry, entryVars, dropVars, itemVars,
         resultVars, ghostVars
<1>11. ASSUME NEW q \in Questions, ExpireItem(q) PROVE ClarifyTypeOK'
  BY <1>11
     DEF ExpireItem, Expired, ClarifyTypeOK, Staged, Stage, registry, entryVars,
         dropVars, itemVars, resultVars, ghostVars
<1>12. ASSUME NEW m \in Messages, Typed(m) PROVE ClarifyTypeOK'
  BY <1>12
     DEF Typed, ClarifyTypeOK, Staged, Stage, registry, entryVars, dropVars,
         itemVars, resultVars, ghostVars
<1>13. ASSUME NEW m \in Messages, Reset(m) PROVE ClarifyTypeOK'
  BY <1>13
     DEF Reset, Drop, Pop, Wake, ClarifyTypeOK, Staged, Stage, registry, entryVars,
         dropVars, itemVars, resultVars, ghostVars
<1>14. ASSUME NEW m \in Messages, Answers(m) PROVE ClarifyTypeOK'
  <2>0. UNCHANGED <<up, pc, blocking, cancelled, due, dropping, left, item, recorded,
                    outcome, got, unlogged, strays, faults>>
    BY <1>14 DEF Answers, dropVars, itemVars, resultVars, ghostVars
  <2>1. CASE pending = {} /\ msg' = [msg EXCEPT ![m] = "fresh"]
             /\ UNCHANGED <<registry, event, answer>>
    BY <1>14, <2>0, <2>1 DEF Answers, ClarifyTypeOK, registry
  <2>2. ASSUME NEW q \in pending, msg' = [msg EXCEPT ![m] = FateOf(q)],
               \/ blocking[q] /\ Resolve(q, m) /\ UNCHANGED registry
               \/ ~blocking[q] /\ Pop(q) /\ UNCHANGED <<event, answer>>
        PROVE  ClarifyTypeOK'
    <3>0. q \in Questions
      BY DEF ClarifyTypeOK
    <3>1. event' \in [Questions -> BOOLEAN] /\ answer' \in [Questions -> Messages \cup {None}]
      BY <2>2, <3>0, ResolveFits DEF ClarifyTypeOK
    <3>2. pending' \subseteq Questions /\ earlier' \subseteq Questions \X Questions
      BY <2>2 DEF Pop, registry, ClarifyTypeOK
    <3>3. /\ msg' \in [Messages -> Fates]
          /\ \A n \in Messages : msg'[n] = "cancelling" <=> msg[n] = "cancelling"
      BY <1>14, <2>2 DEF Answers, FateOf, ClarifyTypeOK
    <3> QED BY <2>0, <3>1, <3>2, <3>3 DEF ClarifyTypeOK
  <2> QED BY <1>14, <2>1, <2>2 DEF Answers
<1>15. ASSUME NEW m \in Messages, Pivots(m) PROVE ClarifyTypeOK'
  <2>1. CASE pending = {}
    BY <1>15, <2>1 DEF Pivots, ClarifyTypeOK, registry, dropVars, itemVars, resultVars,
                      ghostVars
  <2>2. CASE pending # {}
    <3>1. PICK q \in pending : /\ msg' = [msg EXCEPT ![m] = "cancelling"]
                               /\ cancelled' = [cancelled EXCEPT ![q] = TRUE]
                               /\ Drop(m, {q})
      BY <1>15, <2>2 DEF Pivots
    <3>2. q \in Questions /\ m \in Actors /\ {q} \in SUBSET Questions
      BY DEF ClarifyTypeOK
    <3>3. cancelled' \in [Questions -> BOOLEAN] /\ msg' \in [Messages -> Fates]
      BY <3>1, <3>2 DEF ClarifyTypeOK
    <3>4. \A n \in Messages : msg'[n] = "cancelling" <=> dropping'[n] # None
      BY <3>1, <3>2, DropFits, ActorsApart DEF ClarifyTypeOK
    <3>5. \A p \in Questions : pc[p] = "replacing" <=> dropping'[p] # None
      <4> HIDE DEF Actors
      <4>1. \A p \in Questions : dropping'[p] = dropping[p]
        BY <3>1, <3>2, DropFits, ActorsApart
      <4> QED BY <4>1 DEF ClarifyTypeOK
    <3> QED BY <1>15, <3>1, <3>2, <3>3, <3>4, <3>5, DropFits
            DEF Pivots, ClarifyTypeOK, itemVars, resultVars, ghostVars
  <2> QED BY <2>1, <2>2
<1>16. ASSUME NEW m \in Messages, Dropped(m) PROVE ClarifyTypeOK'
  <2>0. /\ m \in Actors /\ dropping[m] \in Questions
        /\ Remaining(m) \in SUBSET Questions
    BY <1>16, RemainingFits DEF Dropped, ClarifyTypeOK
  <2>1. /\ item' \in [Questions -> {"none", "open", "settled"}]
        /\ \A r \in Questions : item[r] = "settled" => item'[r] = "settled"
        /\ strays' \subseteq Questions /\ faults' \in 0..MaxFaults
    BY <1>16, <2>0, SettleFits DEF Dropped
  <2>2. CASE Drop(m, Remaining(m))
    <3>1. /\ pending' \subseteq Questions /\ earlier' \subseteq Questions \X Questions
          /\ event' \in [Questions -> BOOLEAN]
          /\ dropping' \in [Actors -> Questions \cup {None}]
          /\ left' \in [Actors -> SUBSET Questions]
          /\ dropping'[m] # None /\ \A b \in Actors \ {m} : dropping'[b] = dropping[b]
          /\ Remaining(m) # {}
      BY <2>0, <2>2, DropFits
    <3>2. /\ \A n \in Messages : msg'[n] = "cancelling" <=> dropping'[n] # None
          /\ \A p \in Questions : dropping'[p] = dropping[p]
      <4> HIDE DEF Actors
      <4>1. /\ \A n \in Messages \ {m} : dropping'[n] = dropping[n]
            /\ \A p \in Questions : dropping'[p] = dropping[p]
        BY <3>1, ActorsApart
      <4>2. \A n \in Messages : msg'[n] = IF n = m THEN "cancelling" ELSE msg[n]
        BY <1>16, <3>1 DEF Dropped, ClarifyTypeOK
      <4> QED BY <3>1, <4>1, <4>2 DEF ClarifyTypeOK
    <3>3. msg' \in [Messages -> Fates]
      BY <1>16 DEF Dropped, ClarifyTypeOK
    <3> HIDE DEF Actors
    <3> QED BY <1>16, <2>1, <2>2, <3>1, <3>2, <3>3
            DEF Dropped, ClarifyTypeOK, resultVars
  <2>3. CASE DropsDone(m) /\ UNCHANGED <<registry, event>>
    <3>1. Remaining(m) = {}
      BY <2>3 DEF DropsDone
    <3>2. /\ dropping' \in [Actors -> Questions \cup {None}]
          /\ left' \in [Actors -> SUBSET Questions]
          /\ dropping'[m] = None
          /\ \A b \in Actors \ {m} : dropping'[b] = dropping[b]
      BY <2>0, <2>3, DoneFits
    <3>3. /\ \A n \in Messages : msg'[n] = "cancelling" <=> dropping'[n] # None
          /\ \A p \in Questions : dropping'[p] = dropping[p]
      BY <1>16, <2>0, <3>1, <3>2, ActorsApart DEF Dropped, ClarifyTypeOK
    <3>4. msg' \in [Messages -> Fates]
      BY <1>16 DEF Dropped, ClarifyTypeOK
    <3> HIDE DEF Actors
    <3> QED BY <1>16, <2>1, <2>3, <3>2, <3>3, <3>4
            DEF Dropped, ClarifyTypeOK, resultVars, registry
  <2> QED BY <1>16, <2>2, <2>3 DEF Dropped, ContinueDrop
<1>17. ASSUME NEW m \in Messages, NEW q \in Questions, Tap(m, q) PROVE ClarifyTypeOK'
  <2>1. /\ event' \in [Questions -> BOOLEAN]
        /\ answer' \in [Questions -> Messages \cup {None}]
        /\ msg' \in [Messages -> Fates]
        /\ \A n \in Messages : msg'[n] = "cancelling" <=> msg[n] = "cancelling"
    <3>1. CASE q \in pending
      <4>1. event' \in [Questions -> BOOLEAN] /\ answer' \in [Questions -> Messages \cup {None}]
        BY <1>17, <3>1, ResolveFits DEF Tap
      <4>2. msg' = [msg EXCEPT ![m] = "consumed"] /\ msg[m] = "unsent"
        BY <1>17, <3>1 DEF Tap
      <4> QED BY <4>1, <4>2 DEF ClarifyTypeOK
    <3>2. CASE q \notin pending
      BY <1>17, <3>2 DEF Tap, ClarifyTypeOK
    <3> QED BY <3>1, <3>2
  <2> QED BY <1>17, <2>1
          DEF Tap, ClarifyTypeOK, registry, dropVars, itemVars, resultVars, ghostVars
<1>18. CASE SweepEntries
  BY <1>18
     DEF SweepEntries, Drop, Pop, Wake, ClarifyTypeOK, Staged, Stage, registry,
         entryVars, dropVars, itemVars, resultVars, ghostVars
<1>19. CASE ClearAll
  BY <1>19
     DEF ClearAll, Drop, Pop, Wake, ClarifyTypeOK, Staged, Stage, registry,
         entryVars, dropVars, itemVars, resultVars, ghostVars
<1>20. CASE JanitorStep
  <2>0. /\ Janitor \in Actors /\ dropping[Janitor] \in Questions
        /\ Remaining(Janitor) \in SUBSET Questions
        /\ \A a \in Questions \cup Messages : a # Janitor
    BY <1>20, RemainingFits DEF JanitorStep, ClarifyTypeOK
  <2>1. /\ item' \in [Questions -> {"none", "open", "settled"}]
        /\ \A r \in Questions : item[r] = "settled" => item'[r] = "settled"
        /\ strays' \subseteq Questions /\ faults' \in 0..MaxFaults
    BY <1>20, <2>0, SettleFits DEF JanitorStep
  <2>2. CASE Drop(Janitor, Remaining(Janitor))
    <3>1. /\ pending' \subseteq Questions /\ earlier' \subseteq Questions \X Questions
          /\ event' \in [Questions -> BOOLEAN]
          /\ dropping' \in [Actors -> Questions \cup {None}]
          /\ left' \in [Actors -> SUBSET Questions]
          /\ dropping'[Janitor] # None /\ \A b \in Actors \ {Janitor} : dropping'[b] = dropping[b]
          /\ Remaining(Janitor) # {}
      BY <2>0, <2>2, DropFits
    <3>2. /\ \A n \in Messages : msg[n] = "cancelling" <=> dropping'[n] # None
          /\ \A p \in Questions : dropping'[p] = dropping[p]
      BY <1>20, <2>0, <3>1, ActorsApart DEF JanitorStep, ClarifyTypeOK
    <3>3. msg' \in [Messages -> Fates]
      BY <1>20 DEF JanitorStep, ClarifyTypeOK
    <3> HIDE DEF Actors
    <3> QED BY <1>20, <2>1, <2>2, <3>1, <3>2, <3>3
            DEF JanitorStep, ClarifyTypeOK, resultVars
  <2>3. CASE DropsDone(Janitor) /\ UNCHANGED <<registry, event>>
    <3>2. /\ dropping' \in [Actors -> Questions \cup {None}]
          /\ left' \in [Actors -> SUBSET Questions]
          /\ dropping'[Janitor] = None
          /\ \A b \in Actors \ {Janitor} : dropping'[b] = dropping[b]
      BY <2>0, <2>3, DoneFits
    <3>3. /\ \A n \in Messages : msg[n] = "cancelling" <=> dropping'[n] # None
          /\ \A p \in Questions : dropping'[p] = dropping[p]
      BY <1>20, <2>0, <3>2, ActorsApart DEF JanitorStep, ClarifyTypeOK
    <3>4. msg' \in [Messages -> Fates]
      BY <1>20 DEF JanitorStep, ClarifyTypeOK
    <3> HIDE DEF Actors
    <3> QED BY <1>20, <2>1, <2>3, <3>2, <3>3, <3>4
            DEF JanitorStep, ClarifyTypeOK, resultVars, registry
  <2> QED BY <1>20, <2>2, <2>3 DEF JanitorStep, ContinueDrop
<1>21. CASE Crash
  <2>1. /\ pc' \in [Questions -> Places] /\ outcome' \in [Questions -> Outcomes]
        /\ \A p \in Questions : pc'[p] # "replacing"
    BY <1>21 DEF Crash, ClarifyTypeOK
  <2>2. /\ msg' \in [Messages -> Fates]
        /\ \A n \in Messages : msg'[n] # "cancelling"
    BY <1>21 DEF Crash, ClarifyTypeOK
  <2>3. /\ dropping' \in [Actors -> Questions \cup {None}]
        /\ \A a \in Actors : dropping'[a] = None
        /\ left' \in [Actors -> SUBSET Questions]
    BY <1>21 DEF Crash
  <2>4. up' \in BOOLEAN /\ faults' \in 0..MaxFaults
    <3>1. up' \in BOOLEAN
      BY <1>21 DEF Crash
    <3>2. faults' \in 0..MaxFaults
      BY <1>21 DEF Crash, Fault, ClarifyTypeOK
    <3> QED BY <3>1, <3>2
  <2> QED BY <1>21, <2>1, <2>2, <2>3, <2>4
          DEF Crash, ClarifyTypeOK, entryVars, itemVars, ghostVars
<1>22. CASE Boot
  BY <1>22
     DEF Boot, ClarifyTypeOK, Staged, Stage, registry, entryVars, dropVars,
         itemVars, resultVars, ghostVars
<1>23. CASE UNCHANGED vars
  BY <1>23 DEF vars, ClarifyTypeOK, Staged, Stage
<1> QED
  BY <1>1, <1>2, <1>3, <1>4, <1>5, <1>6, <1>7, <1>8, <1>9, <1>10, <1>11, <1>12,
      <1>13, <1>14, <1>15, <1>16, <1>17, <1>18, <1>19, <1>20, <1>21, <1>22, <1>23
     DEF Next, AskerStep, MessageStep

\* Every step keeps what places say about questions.
LEMMA StageStep ==
  ASSUME IInv, [Next]_vars
  PROVE  Staged'
<1> USE ClarifyAssumption DEF IInv, Actors, Places, Fates, Outcomes, Early
<1>1. ASSUME NEW q \in Questions, NEW b \in BOOLEAN, Ask(q, b) PROVE Staged'
  BY <1>1
     DEF Ask, Drop, Pop, Wake, Open, Register, Staged, Stage, ClarifyTypeOK,
         registry, entryVars, dropVars, itemVars, resultVars, ghostVars
<1>2. ASSUME NEW q \in Questions, Replace(q) PROVE Staged'
  BY <1>2
     DEF Replace, SettleOrAbandon, Expired, Fault, Drop, Pop, Wake, Remaining,
         DropsDone, Open, Register, Staged, Stage, ClarifyTypeOK, registry, entryVars,
         dropVars, itemVars, resultVars, ghostVars
<1>3. ASSUME NEW q \in Questions, Raise(q) PROVE Staged'
  BY <1>3
     DEF Raise, Fault, Register, Staged, Stage, ClarifyTypeOK, registry, entryVars,
         dropVars, itemVars, resultVars, ghostVars
<1>4. ASSUME NEW q \in Questions, Deliver(q) PROVE Staged'
  BY <1>4
     DEF Deliver, Collect, Pop, Staged, Stage, ClarifyTypeOK, registry, entryVars,
         dropVars, itemVars, resultVars, ghostVars
<1>5. ASSUME NEW q \in Questions, Woken(q) PROVE Staged'
  BY <1>5
     DEF Woken, Collect, Pop, Staged, Stage, ClarifyTypeOK, registry, entryVars,
         dropVars, itemVars, resultVars, ghostVars
<1>6. ASSUME NEW q \in Questions, Timeout(q) PROVE Staged'
  BY <1>6
     DEF Timeout, Pop, Staged, Stage, ClarifyTypeOK, registry, entryVars, dropVars,
         itemVars, resultVars, ghostVars
<1>7. ASSUME NEW q \in Questions, Settle(q) PROVE Staged'
  BY <1>7
     DEF Settle, SettleOrAbandon, Expired, Fault, Staged, Stage, ClarifyTypeOK,
         registry, entryVars, dropVars, itemVars, resultVars, ghostVars
<1>8. ASSUME NEW q \in Questions, Finish(q) PROVE Staged'
  BY <1>8
     DEF Finish, Fault, Claims, Staged, Stage, ClarifyTypeOK, registry, entryVars,
         dropVars, itemVars, resultVars, ghostVars
<1>9. ASSUME NEW q \in Questions, Cancel(q) PROVE Staged'
  BY <1>9
     DEF Cancel, Fault, Pop, Expired, Claims, Staged, Stage, ClarifyTypeOK,
         registry, entryVars, dropVars, itemVars, resultVars, ghostVars
<1>10. ASSUME NEW q \in Questions, Age(q) PROVE Staged'
  BY <1>10
     DEF Age, Staged, Stage, ClarifyTypeOK, registry, entryVars, dropVars, itemVars,
         resultVars, ghostVars
<1>11. ASSUME NEW q \in Questions, ExpireItem(q) PROVE Staged'
  BY <1>11
     DEF ExpireItem, Expired, Staged, Stage, ClarifyTypeOK, registry, entryVars,
         dropVars, itemVars, resultVars, ghostVars
<1>12. ASSUME NEW m \in Messages, Typed(m) PROVE Staged'
  BY <1>12
     DEF Typed, Staged, Stage, ClarifyTypeOK, registry, entryVars, dropVars,
         itemVars, resultVars, ghostVars
<1>13. ASSUME NEW m \in Messages, Reset(m) PROVE Staged'
  BY <1>13
     DEF Reset, Drop, Pop, Wake, Staged, Stage, ClarifyTypeOK, registry, entryVars,
         dropVars, itemVars, resultVars, ghostVars
<1>14. ASSUME NEW m \in Messages, Answers(m) PROVE Staged'
  BY <1>14
     DEF Answers, Resolve, Pop, FateOf, Staged, Stage, ClarifyTypeOK, registry,
         entryVars, dropVars, itemVars, resultVars, ghostVars
<1>15. ASSUME NEW m \in Messages, Pivots(m) PROVE Staged'
  <2>1. CASE pending = {}
    BY <1>15, <2>1 DEF Pivots, Staged, Stage, ClarifyTypeOK, registry, dropVars,
        itemVars, resultVars,
                      ghostVars
  <2>2. CASE pending # {}
    <3>1. PICK q \in pending : msg' = [msg EXCEPT ![m] = "cancelling"] /\ Drop(m, {q})
      BY <1>15, <2>2 DEF Pivots
    <3>2. /\ pending' = pending \ {q}
          /\ event' = [event EXCEPT ![q] = blocking[q]]
          /\ dropping' = [dropping EXCEPT ![m] = q]
      BY <3>1 DEF Drop, Pop, Wake
    <3> QED BY <1>15, <3>1, <3>2
            DEF Pivots, Staged, Stage, ClarifyTypeOK, itemVars, resultVars, ghostVars
  <2> QED BY <2>1, <2>2
<1>16. ASSUME NEW m \in Messages, Dropped(m) PROVE Staged'
  BY <1>16
     DEF Dropped, SettleOrAbandon, Expired, Fault, ContinueDrop, Drop, Pop, Wake,
         Remaining, DropsDone, Staged, Stage, ClarifyTypeOK, registry, entryVars,
         dropVars, itemVars, resultVars, ghostVars
<1>17. ASSUME NEW m \in Messages, NEW q \in Questions, Tap(m, q) PROVE Staged'
  BY <1>17
     DEF Tap, Resolve, Staged, Stage, ClarifyTypeOK, registry, entryVars, dropVars,
         itemVars, resultVars, ghostVars
<1>18. CASE SweepEntries
  BY <1>18
     DEF SweepEntries, Drop, Pop, Wake, Staged, Stage, ClarifyTypeOK, registry,
         entryVars, dropVars, itemVars, resultVars, ghostVars
<1>19. CASE ClearAll
  BY <1>19
     DEF ClearAll, Drop, Pop, Wake, Staged, Stage, ClarifyTypeOK, registry,
         entryVars, dropVars, itemVars, resultVars, ghostVars
<1>20. CASE JanitorStep
  BY <1>20
     DEF JanitorStep, SettleOrAbandon, Expired, Fault, ContinueDrop, Drop, Pop,
         Wake, Remaining, DropsDone, Staged, Stage, ClarifyTypeOK, registry, entryVars,
         dropVars, itemVars, resultVars, ghostVars
<1>21. CASE Crash
  BY <1>21
     DEF Crash, Fault, Staged, Stage, ClarifyTypeOK, registry, entryVars, dropVars,
         itemVars, resultVars, ghostVars
<1>22. CASE Boot
  BY <1>22
     DEF Boot, Staged, Stage, ClarifyTypeOK, registry, entryVars, dropVars,
         itemVars, resultVars, ghostVars
<1>23. CASE UNCHANGED vars
  BY <1>23 DEF vars, Staged, Stage, ClarifyTypeOK
<1> QED
  BY <1>1, <1>2, <1>3, <1>4, <1>5, <1>6, <1>7, <1>8, <1>9, <1>10, <1>11, <1>12,
      <1>13, <1>14, <1>15, <1>16, <1>17, <1>18, <1>19, <1>20, <1>21, <1>22, <1>23
     DEF Next, AskerStep, MessageStep

\* Whoever pops an entry wakes its waiter.
LEMMA OrphanStep ==
  ASSUME IInv, [Next]_vars
  PROVE  NoOrphanWaiter'
<1> USE ClarifyAssumption DEF IInv, Actors, Places, Fates, Outcomes, Early
<1>1. ASSUME NEW q \in Questions, NEW b \in BOOLEAN, Ask(q, b) PROVE NoOrphanWaiter'
  BY <1>1
     DEF Ask, Drop, Pop, Wake, Open, Register, NoOrphanWaiter, Staged, Stage,
         ClarifyTypeOK, registry, entryVars, dropVars, itemVars, resultVars, ghostVars
<1>2. ASSUME NEW q \in Questions, Replace(q) PROVE NoOrphanWaiter'
  BY <1>2
     DEF Replace, SettleOrAbandon, Expired, Fault, Drop, Pop, Wake, Remaining,
         DropsDone, Open, Register, NoOrphanWaiter, Staged, Stage, ClarifyTypeOK,
         registry, entryVars, dropVars, itemVars, resultVars, ghostVars
<1>3. ASSUME NEW q \in Questions, Raise(q) PROVE NoOrphanWaiter'
  BY <1>3
     DEF Raise, Fault, Register, NoOrphanWaiter, Staged, Stage, ClarifyTypeOK,
         registry, entryVars, dropVars, itemVars, resultVars, ghostVars
<1>4. ASSUME NEW q \in Questions, Deliver(q) PROVE NoOrphanWaiter'
  BY <1>4
     DEF Deliver, Collect, Pop, NoOrphanWaiter, Staged, Stage, ClarifyTypeOK,
         registry, entryVars, dropVars, itemVars, resultVars, ghostVars
<1>5. ASSUME NEW q \in Questions, Woken(q) PROVE NoOrphanWaiter'
  BY <1>5
     DEF Woken, Collect, Pop, NoOrphanWaiter, Staged, Stage, ClarifyTypeOK,
         registry, entryVars, dropVars, itemVars, resultVars, ghostVars
<1>6. ASSUME NEW q \in Questions, Timeout(q) PROVE NoOrphanWaiter'
  BY <1>6
     DEF Timeout, Pop, NoOrphanWaiter, Staged, Stage, ClarifyTypeOK, registry,
         entryVars, dropVars, itemVars, resultVars, ghostVars
<1>7. ASSUME NEW q \in Questions, Settle(q) PROVE NoOrphanWaiter'
  BY <1>7
     DEF Settle, SettleOrAbandon, Expired, Fault, NoOrphanWaiter, Staged, Stage,
         ClarifyTypeOK, registry, entryVars, dropVars, itemVars, resultVars, ghostVars
<1>8. ASSUME NEW q \in Questions, Finish(q) PROVE NoOrphanWaiter'
  BY <1>8
     DEF Finish, Fault, Claims, NoOrphanWaiter, Staged, Stage, ClarifyTypeOK,
         registry, entryVars, dropVars, itemVars, resultVars, ghostVars
<1>9. ASSUME NEW q \in Questions, Cancel(q) PROVE NoOrphanWaiter'
  BY <1>9
     DEF Cancel, Fault, Pop, Expired, Claims, NoOrphanWaiter, Staged, Stage,
         ClarifyTypeOK, registry, entryVars, dropVars, itemVars, resultVars, ghostVars
<1>10. ASSUME NEW q \in Questions, Age(q) PROVE NoOrphanWaiter'
  BY <1>10
     DEF Age, NoOrphanWaiter, Staged, Stage, ClarifyTypeOK, registry, entryVars,
         dropVars, itemVars, resultVars, ghostVars
<1>11. ASSUME NEW q \in Questions, ExpireItem(q) PROVE NoOrphanWaiter'
  BY <1>11
     DEF ExpireItem, Expired, NoOrphanWaiter, Staged, Stage, ClarifyTypeOK,
         registry, entryVars, dropVars, itemVars, resultVars, ghostVars
<1>12. ASSUME NEW m \in Messages, Typed(m) PROVE NoOrphanWaiter'
  BY <1>12
     DEF Typed, NoOrphanWaiter, Staged, Stage, ClarifyTypeOK, registry, entryVars,
         dropVars, itemVars, resultVars, ghostVars
<1>13. ASSUME NEW m \in Messages, Reset(m) PROVE NoOrphanWaiter'
  BY <1>13
     DEF Reset, Drop, Pop, Wake, NoOrphanWaiter, Staged, Stage, ClarifyTypeOK,
         registry, entryVars, dropVars, itemVars, resultVars, ghostVars
<1>14. ASSUME NEW m \in Messages, Answers(m) PROVE NoOrphanWaiter'
  BY <1>14
     DEF Answers, Resolve, Pop, FateOf, NoOrphanWaiter, Staged, Stage,
         ClarifyTypeOK, registry, entryVars, dropVars, itemVars, resultVars, ghostVars
<1>15. ASSUME NEW m \in Messages, Pivots(m) PROVE NoOrphanWaiter'
  <2>1. CASE pending = {}
    BY <1>15, <2>1 DEF Pivots, NoOrphanWaiter, Staged, Stage, ClarifyTypeOK,
        registry, dropVars, itemVars, resultVars,
                      ghostVars
  <2>2. CASE pending # {}
    <3>1. PICK q \in pending : msg' = [msg EXCEPT ![m] = "cancelling"] /\ Drop(m, {q})
      BY <1>15, <2>2 DEF Pivots
    <3>2. /\ pending' = pending \ {q}
          /\ event' = [event EXCEPT ![q] = blocking[q]]
          /\ dropping' = [dropping EXCEPT ![m] = q]
      BY <3>1 DEF Drop, Pop, Wake
    <3> QED BY <1>15, <3>1, <3>2
            DEF Pivots, NoOrphanWaiter, Staged, Stage, ClarifyTypeOK, itemVars,
                resultVars, ghostVars
  <2> QED BY <2>1, <2>2
<1>16. ASSUME NEW m \in Messages, Dropped(m) PROVE NoOrphanWaiter'
  BY <1>16
     DEF Dropped, SettleOrAbandon, Expired, Fault, ContinueDrop, Drop, Pop, Wake,
         Remaining, DropsDone, NoOrphanWaiter, Staged, Stage, ClarifyTypeOK, registry,
         entryVars, dropVars, itemVars, resultVars, ghostVars
<1>17. ASSUME NEW m \in Messages, NEW q \in Questions, Tap(m, q) PROVE NoOrphanWaiter'
  BY <1>17
     DEF Tap, Resolve, NoOrphanWaiter, Staged, Stage, ClarifyTypeOK, registry,
         entryVars, dropVars, itemVars, resultVars, ghostVars
<1>18. CASE SweepEntries
  BY <1>18
     DEF SweepEntries, Drop, Pop, Wake, NoOrphanWaiter, Staged, Stage,
         ClarifyTypeOK, registry, entryVars, dropVars, itemVars, resultVars, ghostVars
<1>19. CASE ClearAll
  BY <1>19
     DEF ClearAll, Drop, Pop, Wake, NoOrphanWaiter, Staged, Stage, ClarifyTypeOK,
         registry, entryVars, dropVars, itemVars, resultVars, ghostVars
<1>20. CASE JanitorStep
  BY <1>20
     DEF JanitorStep, SettleOrAbandon, Expired, Fault, ContinueDrop, Drop, Pop,
         Wake, Remaining, DropsDone, NoOrphanWaiter, Staged, Stage, ClarifyTypeOK,
         registry, entryVars, dropVars, itemVars, resultVars, ghostVars
<1>21. CASE Crash
  BY <1>21
     DEF Crash, Fault, NoOrphanWaiter, Staged, Stage, ClarifyTypeOK, registry,
         entryVars, dropVars, itemVars, resultVars, ghostVars
<1>22. CASE Boot
  BY <1>22
     DEF Boot, NoOrphanWaiter, Staged, Stage, ClarifyTypeOK, registry, entryVars,
         dropVars, itemVars, resultVars, ghostVars
<1>23. CASE UNCHANGED vars
  BY <1>23 DEF vars, NoOrphanWaiter, Staged, Stage, ClarifyTypeOK
<1> QED
  BY <1>1, <1>2, <1>3, <1>4, <1>5, <1>6, <1>7, <1>8, <1>9, <1>10, <1>11, <1>12,
      <1>13, <1>14, <1>15, <1>16, <1>17, <1>18, <1>19, <1>20, <1>21, <1>22, <1>23
     DEF Next, AskerStep, MessageStep

\* No step parts a turn's answer from its row.
LEMMA RecordStep ==
  ASSUME IInv, [Next]_vars
  PROVE  RecordMatchesTurn'
<1> USE ClarifyAssumption DEF IInv, Actors, Places, Fates, Outcomes, Early
<1>1. ASSUME NEW q \in Questions, NEW b \in BOOLEAN, Ask(q, b) PROVE RecordMatchesTurn'
  BY <1>1
     DEF Ask, Drop, Pop, Wake, Open, Register, RecordMatchesTurn, Staged, Stage,
         ClarifyTypeOK, registry, entryVars, dropVars, itemVars, resultVars, ghostVars
<1>2. ASSUME NEW q \in Questions, Replace(q) PROVE RecordMatchesTurn'
  BY <1>2
     DEF Replace, SettleOrAbandon, Expired, Fault, Drop, Pop, Wake, Remaining,
         DropsDone, Open, Register, RecordMatchesTurn, Staged, Stage, ClarifyTypeOK,
         registry, entryVars, dropVars, itemVars, resultVars, ghostVars
<1>3. ASSUME NEW q \in Questions, Raise(q) PROVE RecordMatchesTurn'
  BY <1>3
     DEF Raise, Fault, Register, RecordMatchesTurn, Staged, Stage, ClarifyTypeOK,
         registry, entryVars, dropVars, itemVars, resultVars, ghostVars
<1>4. ASSUME NEW q \in Questions, Deliver(q) PROVE RecordMatchesTurn'
  BY <1>4
     DEF Deliver, Collect, Pop, RecordMatchesTurn, Staged, Stage, ClarifyTypeOK,
         registry, entryVars, dropVars, itemVars, resultVars, ghostVars
<1>5. ASSUME NEW q \in Questions, Woken(q) PROVE RecordMatchesTurn'
  BY <1>5
     DEF Woken, Collect, Pop, RecordMatchesTurn, Staged, Stage, ClarifyTypeOK,
         registry, entryVars, dropVars, itemVars, resultVars, ghostVars
<1>6. ASSUME NEW q \in Questions, Timeout(q) PROVE RecordMatchesTurn'
  BY <1>6
     DEF Timeout, Pop, RecordMatchesTurn, Staged, Stage, ClarifyTypeOK, registry,
         entryVars, dropVars, itemVars, resultVars, ghostVars
<1>7. ASSUME NEW q \in Questions, Settle(q) PROVE RecordMatchesTurn'
  BY <1>7
     DEF Settle, SettleOrAbandon, Expired, Fault, RecordMatchesTurn, Staged, Stage,
         ClarifyTypeOK, registry, entryVars, dropVars, itemVars, resultVars, ghostVars
<1>8. ASSUME NEW q \in Questions, Finish(q) PROVE RecordMatchesTurn'
  BY <1>8
     DEF Finish, Fault, Claims, RecordMatchesTurn, Staged, Stage, ClarifyTypeOK,
         registry, entryVars, dropVars, itemVars, resultVars, ghostVars
<1>9. ASSUME NEW q \in Questions, Cancel(q) PROVE RecordMatchesTurn'
  BY <1>9
     DEF Cancel, Fault, Pop, Expired, Claims, RecordMatchesTurn, Staged, Stage,
         ClarifyTypeOK, registry, entryVars, dropVars, itemVars, resultVars, ghostVars
<1>10. ASSUME NEW q \in Questions, Age(q) PROVE RecordMatchesTurn'
  BY <1>10
     DEF Age, RecordMatchesTurn, Staged, Stage, ClarifyTypeOK, registry, entryVars,
         dropVars, itemVars, resultVars, ghostVars
<1>11. ASSUME NEW q \in Questions, ExpireItem(q) PROVE RecordMatchesTurn'
  BY <1>11
     DEF ExpireItem, Expired, RecordMatchesTurn, Staged, Stage, ClarifyTypeOK,
         registry, entryVars, dropVars, itemVars, resultVars, ghostVars
<1>12. ASSUME NEW m \in Messages, Typed(m) PROVE RecordMatchesTurn'
  BY <1>12
     DEF Typed, RecordMatchesTurn, Staged, Stage, ClarifyTypeOK, registry,
         entryVars, dropVars, itemVars, resultVars, ghostVars
<1>13. ASSUME NEW m \in Messages, Reset(m) PROVE RecordMatchesTurn'
  BY <1>13
     DEF Reset, Drop, Pop, Wake, RecordMatchesTurn, Staged, Stage, ClarifyTypeOK,
         registry, entryVars, dropVars, itemVars, resultVars, ghostVars
<1>14. ASSUME NEW m \in Messages, Answers(m) PROVE RecordMatchesTurn'
  BY <1>14
     DEF Answers, Resolve, Pop, FateOf, RecordMatchesTurn, Staged, Stage,
         ClarifyTypeOK, registry, entryVars, dropVars, itemVars, resultVars, ghostVars
<1>15. ASSUME NEW m \in Messages, Pivots(m) PROVE RecordMatchesTurn'
  BY <1>15
     DEF Pivots, Drop, Pop, Wake, RecordMatchesTurn, Staged, Stage, ClarifyTypeOK,
         registry, entryVars, dropVars, itemVars, resultVars, ghostVars
<1>16. ASSUME NEW m \in Messages, Dropped(m) PROVE RecordMatchesTurn'
  BY <1>16
     DEF Dropped, SettleOrAbandon, Expired, Fault, ContinueDrop, Drop, Pop, Wake,
         Remaining, DropsDone, RecordMatchesTurn, Staged, Stage, ClarifyTypeOK,
         registry, entryVars, dropVars, itemVars, resultVars, ghostVars
<1>17. ASSUME NEW m \in Messages, NEW q \in Questions, Tap(m, q) PROVE RecordMatchesTurn'
  BY <1>17
     DEF Tap, Resolve, RecordMatchesTurn, Staged, Stage, ClarifyTypeOK, registry,
         entryVars, dropVars, itemVars, resultVars, ghostVars
<1>18. CASE SweepEntries
  BY <1>18
     DEF SweepEntries, Drop, Pop, Wake, RecordMatchesTurn, Staged, Stage,
         ClarifyTypeOK, registry, entryVars, dropVars, itemVars, resultVars, ghostVars
<1>19. CASE ClearAll
  BY <1>19
     DEF ClearAll, Drop, Pop, Wake, RecordMatchesTurn, Staged, Stage, ClarifyTypeOK,
         registry, entryVars, dropVars, itemVars, resultVars, ghostVars
<1>20. CASE JanitorStep
  BY <1>20
     DEF JanitorStep, SettleOrAbandon, Expired, Fault, ContinueDrop, Drop, Pop,
         Wake, Remaining, DropsDone, RecordMatchesTurn, Staged, Stage, ClarifyTypeOK,
         registry, entryVars, dropVars, itemVars, resultVars, ghostVars
<1>21. CASE Crash
  BY <1>21
     DEF Crash, Fault, RecordMatchesTurn, Staged, Stage, ClarifyTypeOK, registry,
         entryVars, dropVars, itemVars, resultVars, ghostVars
<1>22. CASE Boot
  BY <1>22
     DEF Boot, RecordMatchesTurn, Staged, Stage, ClarifyTypeOK, registry, entryVars,
         dropVars, itemVars, resultVars, ghostVars
<1>23. CASE UNCHANGED vars
  BY <1>23 DEF vars, RecordMatchesTurn, Staged, Stage, ClarifyTypeOK
<1> QED
  BY <1>1, <1>2, <1>3, <1>4, <1>5, <1>6, <1>7, <1>8, <1>9, <1>10, <1>11, <1>12,
      <1>13, <1>14, <1>15, <1>16, <1>17, <1>18, <1>19, <1>20, <1>21, <1>22, <1>23
     DEF Next, AskerStep, MessageStep

\* No step takes an open item away from all who would settle it.
LEMMA ItemStep ==
  ASSUME IInv, [Next]_vars
  PROVE  NoStrandedItem'
<1> USE ClarifyAssumption DEF IInv, Actors, Places, Fates, Outcomes, Early
<1>1. ASSUME NEW q \in Questions, NEW b \in BOOLEAN, Ask(q, b) PROVE NoStrandedItem'
  BY <1>1
     DEF Ask, Drop, Pop, Wake, Open, Register, NoStrandedItem, Staged, Stage,
         ClarifyTypeOK, registry, entryVars, dropVars, itemVars, resultVars, ghostVars
<1>2. ASSUME NEW q \in Questions, Replace(q) PROVE NoStrandedItem'
  BY <1>2
     DEF Replace, SettleOrAbandon, Expired, Fault, Drop, Pop, Wake, Remaining,
         DropsDone, Open, Register, NoStrandedItem, Staged, Stage, ClarifyTypeOK,
         registry, entryVars, dropVars, itemVars, resultVars, ghostVars
<1>3. ASSUME NEW q \in Questions, Raise(q) PROVE NoStrandedItem'
  BY <1>3
     DEF Raise, Fault, Register, NoStrandedItem, Staged, Stage, ClarifyTypeOK,
         registry, entryVars, dropVars, itemVars, resultVars, ghostVars
<1>4. ASSUME NEW q \in Questions, Deliver(q) PROVE NoStrandedItem'
  BY <1>4
     DEF Deliver, Collect, Pop, NoStrandedItem, Staged, Stage, ClarifyTypeOK,
         registry, entryVars, dropVars, itemVars, resultVars, ghostVars
<1>5. ASSUME NEW q \in Questions, Woken(q) PROVE NoStrandedItem'
  BY <1>5
     DEF Woken, Collect, Pop, NoStrandedItem, Staged, Stage, ClarifyTypeOK,
         registry, entryVars, dropVars, itemVars, resultVars, ghostVars
<1>6. ASSUME NEW q \in Questions, Timeout(q) PROVE NoStrandedItem'
  BY <1>6
     DEF Timeout, Pop, NoStrandedItem, Staged, Stage, ClarifyTypeOK, registry,
         entryVars, dropVars, itemVars, resultVars, ghostVars
<1>7. ASSUME NEW q \in Questions, Settle(q) PROVE NoStrandedItem'
  BY <1>7
     DEF Settle, SettleOrAbandon, Expired, Fault, NoStrandedItem, Staged, Stage,
         ClarifyTypeOK, registry, entryVars, dropVars, itemVars, resultVars, ghostVars
<1>8. ASSUME NEW q \in Questions, Finish(q) PROVE NoStrandedItem'
  BY <1>8
     DEF Finish, Fault, Claims, NoStrandedItem, Staged, Stage, ClarifyTypeOK,
         registry, entryVars, dropVars, itemVars, resultVars, ghostVars
<1>9. ASSUME NEW q \in Questions, Cancel(q) PROVE NoStrandedItem'
  BY <1>9
     DEF Cancel, Fault, Pop, Expired, Claims, NoStrandedItem, Staged, Stage,
         ClarifyTypeOK, registry, entryVars, dropVars, itemVars, resultVars, ghostVars
<1>10. ASSUME NEW q \in Questions, Age(q) PROVE NoStrandedItem'
  BY <1>10
     DEF Age, NoStrandedItem, Staged, Stage, ClarifyTypeOK, registry, entryVars,
         dropVars, itemVars, resultVars, ghostVars
<1>11. ASSUME NEW q \in Questions, ExpireItem(q) PROVE NoStrandedItem'
  BY <1>11
     DEF ExpireItem, Expired, NoStrandedItem, Staged, Stage, ClarifyTypeOK,
         registry, entryVars, dropVars, itemVars, resultVars, ghostVars
<1>12. ASSUME NEW m \in Messages, Typed(m) PROVE NoStrandedItem'
  BY <1>12
     DEF Typed, NoStrandedItem, Staged, Stage, ClarifyTypeOK, registry, entryVars,
         dropVars, itemVars, resultVars, ghostVars
<1>13. ASSUME NEW m \in Messages, Reset(m) PROVE NoStrandedItem'
  BY <1>13
     DEF Reset, Drop, Pop, Wake, NoStrandedItem, Staged, Stage, ClarifyTypeOK,
         registry, entryVars, dropVars, itemVars, resultVars, ghostVars
<1>14. ASSUME NEW m \in Messages, Answers(m) PROVE NoStrandedItem'
  BY <1>14
     DEF Answers, Resolve, Pop, FateOf, NoStrandedItem, Staged, Stage,
         ClarifyTypeOK, registry, entryVars, dropVars, itemVars, resultVars, ghostVars
<1>15. ASSUME NEW m \in Messages, Pivots(m) PROVE NoStrandedItem'
  <2>1. CASE pending = {}
    BY <1>15, <2>1 DEF Pivots, NoStrandedItem, Staged, Stage, ClarifyTypeOK,
        registry, dropVars, itemVars, resultVars,
                      ghostVars
  <2>2. CASE pending # {}
    <3>1. PICK q \in pending : msg' = [msg EXCEPT ![m] = "cancelling"] /\ Drop(m, {q})
      BY <1>15, <2>2 DEF Pivots
    <3>2. /\ pending' = pending \ {q}
          /\ event' = [event EXCEPT ![q] = blocking[q]]
          /\ dropping' = [dropping EXCEPT ![m] = q]
      BY <3>1 DEF Drop, Pop, Wake
    <3> QED BY <1>15, <3>1, <3>2
            DEF Pivots, NoStrandedItem, Staged, Stage, ClarifyTypeOK, itemVars,
                resultVars, ghostVars
  <2> QED BY <2>1, <2>2
<1>16. ASSUME NEW m \in Messages, Dropped(m) PROVE NoStrandedItem'
  BY <1>16
     DEF Dropped, SettleOrAbandon, Expired, Fault, ContinueDrop, Drop, Pop, Wake,
         Remaining, DropsDone, NoStrandedItem, Staged, Stage, ClarifyTypeOK, registry,
         entryVars, dropVars, itemVars, resultVars, ghostVars
<1>17. ASSUME NEW m \in Messages, NEW q \in Questions, Tap(m, q) PROVE NoStrandedItem'
  BY <1>17
     DEF Tap, Resolve, NoStrandedItem, Staged, Stage, ClarifyTypeOK, registry,
         entryVars, dropVars, itemVars, resultVars, ghostVars
<1>18. CASE SweepEntries
  BY <1>18
     DEF SweepEntries, Drop, Pop, Wake, NoStrandedItem, Staged, Stage,
         ClarifyTypeOK, registry, entryVars, dropVars, itemVars, resultVars, ghostVars
<1>19. CASE ClearAll
  BY <1>19
     DEF ClearAll, Drop, Pop, Wake, NoStrandedItem, Staged, Stage, ClarifyTypeOK,
         registry, entryVars, dropVars, itemVars, resultVars, ghostVars
<1>20. CASE JanitorStep
  BY <1>20
     DEF JanitorStep, SettleOrAbandon, Expired, Fault, ContinueDrop, Drop, Pop,
         Wake, Remaining, DropsDone, NoStrandedItem, Staged, Stage, ClarifyTypeOK,
         registry, entryVars, dropVars, itemVars, resultVars, ghostVars
<1>21. CASE Crash
  BY <1>21
     DEF Crash, Fault, NoStrandedItem, Staged, Stage, ClarifyTypeOK, registry,
         entryVars, dropVars, itemVars, resultVars, ghostVars
<1>22. CASE Boot
  BY <1>22
     DEF Boot, NoStrandedItem, Staged, Stage, ClarifyTypeOK, registry, entryVars,
         dropVars, itemVars, resultVars, ghostVars
<1>23. CASE UNCHANGED vars
  BY <1>23 DEF vars, NoStrandedItem, Staged, Stage, ClarifyTypeOK
<1> QED
  BY <1>1, <1>2, <1>3, <1>4, <1>5, <1>6, <1>7, <1>8, <1>9, <1>10, <1>11, <1>12,
      <1>13, <1>14, <1>15, <1>16, <1>17, <1>18, <1>19, <1>20, <1>21, <1>22, <1>23
     DEF Next, AskerStep, MessageStep

\* No step uses a reply twice.
LEMMA ReplyStep ==
  ASSUME IInv, [Next]_vars
  PROVE  OneUser'
<1> USE ClarifyAssumption DEF IInv, Actors, Places, Fates, Outcomes, Early
<1>1. ASSUME NEW q \in Questions, NEW b \in BOOLEAN, Ask(q, b) PROVE OneUser'
  BY <1>1
     DEF Ask, Drop, Pop, Wake, Open, Register, OneUser, Staged, Stage,
         ClarifyTypeOK, registry, entryVars, dropVars, itemVars, resultVars, ghostVars
<1>2. ASSUME NEW q \in Questions, Replace(q) PROVE OneUser'
  BY <1>2
     DEF Replace, SettleOrAbandon, Expired, Fault, Drop, Pop, Wake, Remaining,
         DropsDone, Open, Register, OneUser, Staged, Stage, ClarifyTypeOK, registry,
         entryVars, dropVars, itemVars, resultVars, ghostVars
<1>3. ASSUME NEW q \in Questions, Raise(q) PROVE OneUser'
  BY <1>3
     DEF Raise, Fault, Register, OneUser, Staged, Stage, ClarifyTypeOK, registry,
         entryVars, dropVars, itemVars, resultVars, ghostVars
<1>4. ASSUME NEW q \in Questions, Deliver(q) PROVE OneUser'
  BY <1>4
     DEF Deliver, Collect, Pop, OneUser, Staged, Stage, ClarifyTypeOK, registry,
         entryVars, dropVars, itemVars, resultVars, ghostVars
<1>5. ASSUME NEW q \in Questions, Woken(q) PROVE OneUser'
  BY <1>5
     DEF Woken, Collect, Pop, OneUser, Staged, Stage, ClarifyTypeOK, registry,
         entryVars, dropVars, itemVars, resultVars, ghostVars
<1>6. ASSUME NEW q \in Questions, Timeout(q) PROVE OneUser'
  BY <1>6
     DEF Timeout, Pop, OneUser, Staged, Stage, ClarifyTypeOK, registry, entryVars,
         dropVars, itemVars, resultVars, ghostVars
<1>7. ASSUME NEW q \in Questions, Settle(q) PROVE OneUser'
  BY <1>7
     DEF Settle, SettleOrAbandon, Expired, Fault, OneUser, Staged, Stage,
         ClarifyTypeOK, registry, entryVars, dropVars, itemVars, resultVars, ghostVars
<1>8. ASSUME NEW q \in Questions, Finish(q) PROVE OneUser'
  BY <1>8
     DEF Finish, Fault, Claims, OneUser, Staged, Stage, ClarifyTypeOK, registry,
         entryVars, dropVars, itemVars, resultVars, ghostVars
<1>9. ASSUME NEW q \in Questions, Cancel(q) PROVE OneUser'
  BY <1>9
     DEF Cancel, Fault, Pop, Expired, Claims, OneUser, Staged, Stage, ClarifyTypeOK,
         registry, entryVars, dropVars, itemVars, resultVars, ghostVars
<1>10. ASSUME NEW q \in Questions, Age(q) PROVE OneUser'
  BY <1>10
     DEF Age, OneUser, Staged, Stage, ClarifyTypeOK, registry, entryVars, dropVars,
         itemVars, resultVars, ghostVars
<1>11. ASSUME NEW q \in Questions, ExpireItem(q) PROVE OneUser'
  BY <1>11
     DEF ExpireItem, Expired, OneUser, Staged, Stage, ClarifyTypeOK, registry,
         entryVars, dropVars, itemVars, resultVars, ghostVars
<1>12. ASSUME NEW m \in Messages, Typed(m) PROVE OneUser'
  BY <1>12
     DEF Typed, OneUser, Staged, Stage, ClarifyTypeOK, registry, entryVars,
         dropVars, itemVars, resultVars, ghostVars
<1>13. ASSUME NEW m \in Messages, Reset(m) PROVE OneUser'
  BY <1>13
     DEF Reset, Drop, Pop, Wake, OneUser, Staged, Stage, ClarifyTypeOK, registry,
         entryVars, dropVars, itemVars, resultVars, ghostVars
<1>14. ASSUME NEW m \in Messages, Answers(m) PROVE OneUser'
  <2>1. ASSUME NEW p \in Questions, answer' = [answer EXCEPT ![p] = m],
               msg[m] # "consumed", msg' = [msg EXCEPT ![m] = "consumed"]
        PROVE  OneUser'
    <3>1. \A r \in Questions : answer[r] # m
      BY <2>1 DEF OneUser
    <3>2. \A n \in Messages : msg[n] = "consumed" => msg'[n] = "consumed"
      BY <2>1 DEF ClarifyTypeOK
    <3>3. /\ msg'[m] = "consumed" /\ answer'[p] = m
          /\ \A r \in Questions \ {p} : answer'[r] = answer[r]
      BY <2>1 DEF ClarifyTypeOK
    <3> QED BY <3>1, <3>2, <3>3 DEF OneUser
  <2>2. CASE pending = {} /\ msg' = [msg EXCEPT ![m] = "fresh"] /\ UNCHANGED answer
    BY <1>14, <2>2 DEF Answers, OneUser, ClarifyTypeOK
  <2>3. ASSUME NEW q \in pending, msg' = [msg EXCEPT ![m] = FateOf(q)],
               \/ blocking[q] /\ Resolve(q, m)
               \/ ~blocking[q] /\ UNCHANGED answer
        PROVE  OneUser'
    <3>1. q \in Questions /\ msg[m] = "classifying"
      BY <1>14 DEF Answers, ClarifyTypeOK
    <3>2. CASE blocking[q]
      BY <2>1, <2>3, <3>1, <3>2 DEF Resolve, FateOf
    <3>3. CASE ~blocking[q]
      BY <2>3, <3>1, <3>3 DEF FateOf, OneUser, ClarifyTypeOK
    <3> QED BY <3>2, <3>3
  <2> QED BY <1>14, <2>2, <2>3 DEF Answers
<1>15. ASSUME NEW m \in Messages, Pivots(m) PROVE OneUser'
  <2>1. CASE pending = {}
    BY <1>15, <2>1 DEF Pivots, OneUser, ClarifyTypeOK, registry, dropVars, itemVars,
        resultVars,
                      ghostVars
  <2>2. CASE pending # {}
    <3>1. PICK q \in pending : msg' = [msg EXCEPT ![m] = "cancelling"] /\ Drop(m, {q})
      BY <1>15, <2>2 DEF Pivots
    <3>2. /\ pending' = pending \ {q}
          /\ event' = [event EXCEPT ![q] = blocking[q]]
          /\ dropping' = [dropping EXCEPT ![m] = q]
      BY <3>1 DEF Drop, Pop, Wake
    <3> QED BY <1>15, <3>1, <3>2
            DEF Pivots, OneUser, ClarifyTypeOK, itemVars, resultVars, ghostVars
  <2> QED BY <2>1, <2>2
<1>16. ASSUME NEW m \in Messages, Dropped(m) PROVE OneUser'
  BY <1>16
     DEF Dropped, SettleOrAbandon, Expired, Fault, ContinueDrop, Drop, Pop, Wake,
         Remaining, DropsDone, OneUser, Staged, Stage, ClarifyTypeOK, registry,
         entryVars, dropVars, itemVars, resultVars, ghostVars
<1>17. ASSUME NEW m \in Messages, NEW q \in Questions, Tap(m, q) PROVE OneUser'
  <2>1. ASSUME NEW p \in Questions, answer' = [answer EXCEPT ![p] = m],
               msg[m] # "consumed", msg' = [msg EXCEPT ![m] = "consumed"]
        PROVE  OneUser'
    <3>1. \A r \in Questions : answer[r] # m
      BY <2>1 DEF OneUser
    <3>2. \A n \in Messages : msg[n] = "consumed" => msg'[n] = "consumed"
      BY <2>1 DEF ClarifyTypeOK
    <3>3. /\ msg'[m] = "consumed" /\ answer'[p] = m
          /\ \A r \in Questions \ {p} : answer'[r] = answer[r]
      BY <2>1 DEF ClarifyTypeOK
    <3> QED BY <3>1, <3>2, <3>3 DEF OneUser
  <2>2. CASE q \in pending
    BY <1>17, <2>1, <2>2 DEF Tap, Resolve
  <2>3. CASE q \notin pending
    BY <1>17, <2>3 DEF Tap, OneUser, ClarifyTypeOK
  <2> QED BY <2>2, <2>3
<1>18. CASE SweepEntries
  BY <1>18
     DEF SweepEntries, Drop, Pop, Wake, OneUser, Staged, Stage, ClarifyTypeOK,
         registry, entryVars, dropVars, itemVars, resultVars, ghostVars
<1>19. CASE ClearAll
  BY <1>19
     DEF ClearAll, Drop, Pop, Wake, OneUser, Staged, Stage, ClarifyTypeOK, registry,
         entryVars, dropVars, itemVars, resultVars, ghostVars
<1>20. CASE JanitorStep
  BY <1>20
     DEF JanitorStep, SettleOrAbandon, Expired, Fault, ContinueDrop, Drop, Pop,
         Wake, Remaining, DropsDone, OneUser, Staged, Stage, ClarifyTypeOK, registry,
         entryVars, dropVars, itemVars, resultVars, ghostVars
<1>21. CASE Crash
  BY <1>21
     DEF Crash, Fault, OneUser, Staged, Stage, ClarifyTypeOK, registry, entryVars,
         dropVars, itemVars, resultVars, ghostVars
<1>22. CASE Boot
  BY <1>22
     DEF Boot, OneUser, Staged, Stage, ClarifyTypeOK, registry, entryVars, dropVars,
         itemVars, resultVars, ghostVars
<1>23. CASE UNCHANGED vars
  BY <1>23 DEF vars, OneUser, Staged, Stage, ClarifyTypeOK
<1> QED
  BY <1>1, <1>2, <1>3, <1>4, <1>5, <1>6, <1>7, <1>8, <1>9, <1>10, <1>11, <1>12,
      <1>13, <1>14, <1>15, <1>16, <1>17, <1>18, <1>19, <1>20, <1>21, <1>22, <1>23
     DEF Next, AskerStep, MessageStep

-----------------------------------------------------------------------------
\* A fresh gateway satisfies the invariant.
LEMMA InitIInv == Init => IInv
<1> SUFFICES ASSUME Init PROVE IInv
  OBVIOUS
<1> USE ClarifyAssumption DEF Init
<1>1. ClarifyTypeOK
  <2>1. /\ dropping \in [Actors -> Questions \cup {None}]
        /\ left \in [Actors -> SUBSET Questions]
        /\ \A a \in Questions \cup Messages : dropping[a] = None
    BY ActorsApart
  <2>2. /\ pc \in [Questions -> Places] /\ outcome \in [Questions -> Outcomes]
        /\ msg \in [Messages -> Fates]
    BY DEF Places, Outcomes, Fates
  <2>3. /\ blocking \in [Questions -> BOOLEAN] /\ event \in [Questions -> BOOLEAN]
        /\ cancelled \in [Questions -> BOOLEAN] /\ up \in BOOLEAN
    OBVIOUS
  <2> HIDE DEF Actors
  <2> QED BY <2>1, <2>2, <2>3 DEF ClarifyTypeOK
<1>2. Staged
  BY DEF Staged, Stage, Early
<1>3. NoOrphanWaiter /\ RecordMatchesTurn /\ NoStrandedItem
  BY DEF NoOrphanWaiter, RecordMatchesTurn, NoStrandedItem
<1>4. OneUser
  BY DEF OneUser
<1> QED BY <1>1, <1>2, <1>3, <1>4 DEF IInv

\* The invariant is inductive.
LEMMA Inductive == Spec => []IInv
<1>1. IInv /\ [Next]_vars => IInv'
  <2> SUFFICES ASSUME IInv, [Next]_vars PROVE IInv'
    OBVIOUS
  <2> QED BY TypeStep, StageStep, OrphanStep, RecordStep, ItemStep, ReplyStep DEF IInv
<1> QED BY <1>1, InitIInv, PTL DEF Spec

(* The gateway's state keeps its type for any number of questions, replies and *)
(* faults; a loop that drops entries is awaiting a settle, and an answer is    *)
(* recorded only on a settled row.                                             *)
THEOREM ClarifyTypeCorrect == Spec => []ClarifyTypeOK
<1>1. IInv => ClarifyTypeOK
  BY DEF IInv
<1> QED BY <1>1, Inductive, PTL

(* No turn is left parked on an entry that is gone: every pop of _pending by   *)
(* somebody else wakes the waiter (_abandon_waiter).                           *)
THEOREM WaitersAreFound == Spec => []NoOrphanWaiter
<1>1. IInv => NoOrphanWaiter
  BY DEF IInv
<1> QED BY <1>1, Inductive, PTL

(* What a turn acted on is what its needs_you row records, in every            *)
(* interleaving of replies, sweeps, pivots and newer questions.                *)
THEOREM RowAgreesWithTurn == Spec => []RecordMatchesTurn
<1>1. IInv => RecordMatchesTurn
  BY DEF IInv
<1> QED BY <1>1, Inductive, PTL

(* Apart from faults an open needs_you item always has somebody who is about   *)
(* to settle it (_settle_needs_you_item, the drop loops, resolve).             *)
THEOREM ItemsHaveSettlers == Spec => []NoStrandedItem
<1>1. IInv => NoStrandedItem
  BY DEF IInv
<1> QED BY <1>1, Inductive, PTL

(* A reply answers at most one question and is not also run as a turn          *)
(* (clarify_pump.resolve_or_rewrite, try_resolve_by_id).                       *)
THEOREM RepliesUsedOnce == Spec => []ReplyUsedOnce
<1>1. IInv => ReplyUsedOnce
  <2> SUFFICES ASSUME IInv, NEW m \in Messages
               PROVE  /\ Cardinality({q \in Questions : answer[q] = m}) <= 1
                      /\ {q \in Questions : answer[q] = m} # {} => msg[m] = "consumed"
    BY DEF ReplyUsedOnce
  <2> DEFINE users == {q \in Questions : answer[q] = m}
  <2>1. CASE users = {}
    BY <2>1, FS_EmptySet
  <2>2. CASE users # {}
    <3>1. PICK q \in users : TRUE
      BY <2>2
    <3>2. users = {q}
      BY <3>1 DEF IInv, OneUser
    <3>3. Cardinality(users) = 1
      BY <3>2, FS_Singleton
    <3> QED BY <3>1, <3>3 DEF IInv, OneUser
  <2> QED BY <2>1, <2>2
<1> QED BY <1>1, Inductive, PTL
=============================================================================
