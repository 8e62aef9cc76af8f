----------------------- MODULE ProviderResilienceProofs -----------------------
(***************************************************************************)
(* The safety of one provider's breaker, bucket and rounds for any number  *)
(* of callers and every threshold, back-off, cooldown and capacity.  Type  *)
(* correctness, BreakerCoherent and OneProbe are inductive only together:  *)
(* the gate admits a probe because the flag is down, and the flag says     *)
(* something about the callers only through the other two.                 *)
(***************************************************************************)
EXTENDS ProviderResilience, TLAPS

\* What the breaker's methods leave behind, whoever calls them.
BreakerStep ==
  /\ state' \in {"closed", "open", "half_open"}
  /\ window' \in Nat
  /\ failures' \in 0..(Threshold - 1)
  /\ state' = "closed" => window' = Base

\* Opening the breaker for w seconds leaves a well-formed breaker that is not
\* closed (_transition_to_open, open_for).
LEMMA OpensFits ==
  ASSUME NEW w \in Nat, Opens(w)
  PROVE  BreakerStep
BY ProviderAssumption DEF Opens, BreakerStep

\* record(ok=False) leaves a well-formed breaker.
LEMMA FailureFits ==
  ASSUME ProviderTypeOK, BreakerCoherent, RecordFailure
  PROVE  BreakerStep
<1>1. CASE state = "half_open"
  <2>1. Least(2 * window, BackoffCap) \in Nat
    BY ProviderAssumption DEF ProviderTypeOK, Least
  <2>2. Opens(Least(2 * window, BackoffCap))
    BY <1>1 DEF RecordFailure
  <2> QED BY <2>1, <2>2, OpensFits
<1>2. CASE state # "half_open" /\ failures + 1 >= Threshold
  <2>1. Opens(window)
    BY <1>2 DEF RecordFailure
  <2> QED BY <2>1, OpensFits DEF ProviderTypeOK
<1>3. CASE state # "half_open" /\ ~(failures + 1 >= Threshold)
  BY <1>3, ProviderAssumption
     DEF RecordFailure, ProviderTypeOK, BreakerCoherent, BreakerStep
<1> QED BY <1>1, <1>2, <1>3

\* record(ok=True) leaves a well-formed breaker.
LEMMA SuccessFits ==
  ASSUME ProviderTypeOK, BreakerCoherent, RecordSuccess
  PROVE  BreakerStep
BY ProviderAssumption
   DEF RecordSuccess, ProviderTypeOK, BreakerCoherent, BreakerStep

\* The end of a failed round leaves a well-formed breaker, whatever cooldown
\* its Retry-After asked for.
LEMMA FailsFits ==
  ASSUME ProviderTypeOK, BreakerCoherent, NEW c \in Callers, Fails(c)
  PROVE  BreakerStep
<1>1. PICK s \in Cooldowns \cup {NoCooldown} :
        IF s = NoCooldown THEN RecordFailure ELSE Opens(s)
  BY DEF Fails
<1>2. CASE s = NoCooldown
  BY <1>1, <1>2, FailureFits
<1>3. CASE s # NoCooldown
  <2>1. s \in Nat
    BY <1>3, ProviderAssumption
  <2> QED BY <1>1, <1>3, <2>1, OpensFits
<1> QED BY <1>2, <1>3

\* Taking a token never overdraws the bucket (RateLimiter.acquire under its lock).
LEMMA SpendFits ==
  ASSUME ProviderTypeOK, HasToken, Spend
  PROVE  tokens' \in 0..capacity
BY ProviderAssumption DEF ProviderTypeOK, HasToken, Spend

\* A caller's record after any update is a caller's record.
LEMMA CallerFits ==
  ASSUME ProviderTypeOK, NEW c \in Callers, NEW r \in Caller,
         caller' = [caller EXCEPT ![c] = r]
  PROVE  /\ caller' \in [Callers -> Caller]
         /\ caller'[c] = r
         /\ \A d \in Callers \ {c} : caller'[d] = caller[d]
BY DEF ProviderTypeOK

\* The record of a caller without a round.
LEMMA FreeFits ==
  Free \in Caller /\ ~Free.probe
BY DEF Free, Caller

\* The gate keeps every part of the state well-formed.
LEMMA StartType ==
  ASSUME ProviderTypeOK, NEW c \in Callers, Start(c)
  PROVE  /\ ProviderTypeOK'
         /\ caller'[c].probe = (state = "half_open")
         /\ \A d \in Callers \ {c} : caller'[d] = caller[d]
<1>0. ASSUME NEW p \in {"queued", "calling"}, NEW f \in {"none", "ok", "fault", "limited"},
             NEW b \in BOOLEAN
      PROVE  [pc |-> p, fate |-> f, probe |-> b] \in Caller
  BY DEF Caller
<1>1. PICK r \in Caller : /\ caller' = [caller EXCEPT ![c] = r]
                          /\ r.probe = (state = "half_open")
  <2> DEFINE half == state = "half_open"
  <2>0. half \in BOOLEAN
    OBVIOUS
  <2>1. CASE HasToken
    <3>1. PICK f \in Fates :
            caller' = [caller EXCEPT ![c] = [pc |-> "calling", fate |-> f,
                                             probe |-> half]]
      BY <2>1 DEF Start
    <3>2. f \in {"none", "ok", "fault", "limited"}
      BY DEF Fates
    <3> HIDE DEF half
    <3>3. [pc |-> "calling", fate |-> f, probe |-> half] \in Caller
      BY <1>0, <2>0, <3>2
    <3>4. [pc |-> "calling", fate |-> f, probe |-> half].probe = half
      OBVIOUS
    <3>5. \E r \in Caller : caller' = [caller EXCEPT ![c] = r] /\ r.probe = half
      BY <3>1, <3>3, <3>4
    <3> QED BY <3>5 DEF half
  <2>2. CASE ~HasToken
    <3>1. caller' = [caller EXCEPT ![c] = [pc |-> "queued", fate |-> "none",
                                           probe |-> half]]
      BY <2>2 DEF Start
    <3> HIDE DEF half
    <3>3. [pc |-> "queued", fate |-> "none", probe |-> half] \in Caller
      BY <1>0, <2>0
    <3>4. [pc |-> "queued", fate |-> "none", probe |-> half].probe = half
      OBVIOUS
    <3>5. \E r \in Caller : caller' = [caller EXCEPT ![c] = r] /\ r.probe = half
      BY <3>1, <3>3, <3>4
    <3> QED BY <3>5 DEF half
  <2> QED BY <2>1, <2>2
<1>2. tokens' \in 0..capacity
  BY SpendFits DEF Start, ProviderTypeOK
<1>3. caller' \in [Callers -> Caller] /\ caller'[c] = r
      /\ \A d \in Callers \ {c} : caller'[d] = caller[d]
  BY <1>1, CallerFits
<1>4. probing' \in BOOLEAN
  BY DEF Start
<1> QED BY <1>1, <1>2, <1>3, <1>4 DEF Start, ProviderTypeOK

\* A queued caller that gets its token keeps its admission.
LEMMA AcquireType ==
  ASSUME ProviderTypeOK, NEW c \in Callers, Acquire(c)
  PROVE  /\ ProviderTypeOK'
         /\ \A d \in Callers : caller'[d].probe = caller[d].probe
<1>1. PICK f \in Fates :
        caller' = [caller EXCEPT ![c].pc = "calling", ![c].fate = f]
  BY DEF Acquire
<1>2. f \in {"none", "ok", "fault", "limited"}
  BY DEF Fates
<1>3. /\ caller' \in [Callers -> Caller]
      /\ \A d \in Callers : caller'[d].probe = caller[d].probe
  BY <1>1, <1>2 DEF ProviderTypeOK, Caller
<1>4. tokens' \in 0..capacity
  BY SpendFits DEF Acquire
<1> QED BY <1>3, <1>4 DEF Acquire, ProviderTypeOK

\* The steps that end a caller's round give it its free record.
LEMMA EndsFree ==
  ASSUME ProviderTypeOK, NEW c \in Callers,
         caller' = [caller EXCEPT ![c] = Free]
  PROVE  /\ caller' \in [Callers -> Caller]
         /\ ~caller'[c].probe
         /\ \A d \in Callers \ {c} : caller'[d] = caller[d]
BY FreeFits, CallerFits

\* However a round ends, the state stays well-formed.
LEMMA EndType ==
  ASSUME ProviderTypeOK, BreakerCoherent, NEW c \in Callers,
         CancelQueued(c) \/ RoundEnds(c) \/ Interrupted(c)
  PROVE  ProviderTypeOK'
<1>0. caller' \in [Callers -> Caller]
  BY EndsFree DEF CancelQueued, RoundEnds, Succeeds, Fails, Interrupted
<1>b. caller[c].probe \in BOOLEAN
  BY DEF ProviderTypeOK, Caller
<1>1. CASE CancelQueued(c)
  <2>1. orphaned' \in BOOLEAN
    BY <1>1 DEF CancelQueued
  <2>2. interrupts' \in 0..MaxInterrupts
    BY <1>1, ProviderAssumption DEF CancelQueued, ProviderTypeOK
  <2> QED BY <1>0, <1>1, <2>1, <2>2 DEF CancelQueued, ProviderTypeOK
<1>2. CASE Succeeds(c)
  <2>1. BreakerStep
    BY <1>2, SuccessFits DEF Succeeds
  <2>2. crossed' \in BOOLEAN
    BY <1>2 DEF Succeeds, Crosses
  <2> QED BY <1>0, <1>2, <2>1, <2>2 DEF Succeeds, BreakerStep, ProviderTypeOK
<1>3. CASE Fails(c)
  <2>1. BreakerStep
    BY <1>3, FailsFits
  <2>2. crossed' \in BOOLEAN
    BY <1>3 DEF Fails, Crosses
  <2> QED BY <1>0, <1>3, <2>1, <2>2 DEF Fails, BreakerStep, ProviderTypeOK
<1>4. CASE Interrupted(c)
  <2>1. probing' \in BOOLEAN
    BY <1>4 DEF Interrupted
  <2>2. interrupts' \in 0..MaxInterrupts
    BY <1>4, ProviderAssumption DEF Interrupted, ProviderTypeOK
  <2> QED BY <1>0, <1>4, <2>1, <2>2 DEF Interrupted, ProviderTypeOK
<1> QED BY <1>1, <1>2, <1>3, <1>4 DEF RoundEnds

-----------------------------------------------------------------------------
\* The inductive invariant: the three properties together.
IInv == ProviderTypeOK /\ BreakerCoherent /\ OneProbe

\* A fresh breaker and bucket satisfy it.
LEMMA InitIInv == Init => IInv
<1> SUFFICES ASSUME Init PROVE IInv
  OBVIOUS
<1>1. \A c \in Callers : caller[c] = Free
  BY DEF Init
<1>2. Probes = {}
  BY <1>1, FreeFits DEF Probes
<1>3. ProviderTypeOK
  <2>1. caller \in [Callers -> Caller]
    BY FreeFits DEF Init
  <2>2. capacity \in Nat /\ tokens \in 0..capacity
    BY ProviderAssumption DEF Init
  <2>3. /\ probing \in BOOLEAN /\ healthy \in BOOLEAN
        /\ crossed \in BOOLEAN /\ orphaned \in BOOLEAN
    BY DEF Init
  <2>4. /\ window \in Nat /\ failures \in 0..(Threshold - 1)
        /\ outages \in 0..MaxOutages /\ interrupts \in 0..MaxInterrupts
    BY ProviderAssumption DEF Init
  <2> QED BY <2>1, <2>2, <2>3, <2>4 DEF Init, ProviderTypeOK
<1> QED BY <1>2, <1>3 DEF IInv, Init, BreakerCoherent, OneProbe

\* Every step of every caller, of time and of the upstream keeps it.
LEMMA StepIInv == IInv /\ [Next]_vars => IInv'
<1> SUFFICES ASSUME IInv, [Next]_vars PROVE IInv'
  OBVIOUS
<1> USE DEF IInv
<1>0. /\ \A c \in Callers : caller[c].probe \in BOOLEAN
      /\ orphaned \in BOOLEAN /\ crossed \in BOOLEAN
  BY DEF ProviderTypeOK, Caller
<1>1. ASSUME NEW c \in Callers, Start(c) PROVE IInv'
  <2>1. ProviderTypeOK' /\ caller'[c].probe = (state = "half_open")
        /\ \A d \in Callers \ {c} : caller'[d] = caller[d]
    BY <1>1, StartType
  <2>2. BreakerCoherent'
    BY <1>1, <2>1 DEF Start, Admits, BreakerCoherent, Probes
  <2>3. ASSUME ~crossed
        PROVE  /\ Probes = {}
               /\ Probes' = IF state = "half_open" THEN {c} ELSE {}
    <3>1. Probes = {}
      BY <1>1, <2>3 DEF Start, Admits, OneProbe, BreakerCoherent
    <3> QED BY <2>1, <3>1 DEF Probes
  <2>4. OneProbe'
    BY <1>1, <2>3 DEF Start, OneProbe
  <2> QED BY <2>1, <2>2, <2>4
<1>2. ASSUME NEW c \in Callers, Acquire(c) PROVE IInv'
  <2>1. ProviderTypeOK' /\ Probes' = Probes
    BY <1>2, AcquireType DEF Probes
  <2> QED BY <1>2, <2>1 DEF Acquire, BreakerCoherent, OneProbe
<1>3. ASSUME NEW c \in Callers, CancelQueued(c) \/ RoundEnds(c) \/ Interrupted(c)
      PROVE  IInv'
  <2>1. ProviderTypeOK'
    BY <1>3, EndType
  <2>2. /\ ~caller'[c].probe
        /\ \A d \in Callers \ {c} : caller'[d] = caller[d]
    BY <1>3, EndsFree DEF CancelQueued, RoundEnds, Succeeds, Fails, Interrupted
  <2>3. Probes' = Probes \ {c}
    BY <2>2 DEF Probes
  <2>4. c \in Probes <=> caller[c].probe
    BY DEF Probes
  <2>5. CASE CancelQueued(c)
    BY <2>1, <2>3, <2>4, <2>5 DEF CancelQueued, BreakerCoherent, OneProbe
  <2>6. CASE RoundEnds(c)
    <3>1. BreakerStep
      BY <2>6, SuccessFits, FailsFits DEF RoundEnds, Succeeds
    <3>2. ~probing' /\ Crosses(c)
      BY <2>6 DEF RoundEnds, Succeeds, Fails
    <3>3. BreakerCoherent'
      BY <3>1, <3>2 DEF BreakerStep, BreakerCoherent
    <3>4. ASSUME ~crossed' PROVE Probes' = {}
      BY <2>3, <2>4, <3>2, <3>4 DEF Crosses, OneProbe, BreakerCoherent
    <3> QED BY <2>1, <3>3, <3>4 DEF OneProbe
  <2>7. CASE Interrupted(c)
    BY <2>1, <2>3, <2>4, <2>7 DEF Interrupted, BreakerCoherent, OneProbe
  <2> QED BY <1>3, <2>5, <2>6, <2>7
<1>4. CASE WindowElapses
  BY <1>4 DEF WindowElapses, ProviderTypeOK, BreakerCoherent, OneProbe, Probes
<1>5. CASE FailureAges
  BY <1>5, ProviderAssumption
     DEF FailureAges, ProviderTypeOK, BreakerCoherent, OneProbe, Probes
<1>6. CASE Refill
  BY <1>6, ProviderAssumption
     DEF Refill, ProviderTypeOK, BreakerCoherent, OneProbe, Probes
<1>7. CASE Reload
  <2>1. \A c \in Callers : caller'[c] = Free
    BY <1>7 DEF Reload
  <2>2. Probes' = {}
    BY <2>1, FreeFits DEF Probes
  <2>3. ProviderTypeOK'
    <3>1. caller' \in [Callers -> Caller]
      BY <1>7, FreeFits DEF Reload
    <3>2. capacity' \in Nat /\ tokens' \in 0..capacity'
      BY <1>7, ProviderAssumption DEF Reload
    <3>3. probing' \in BOOLEAN /\ crossed' \in BOOLEAN /\ orphaned' \in BOOLEAN
      BY <1>7 DEF Reload
    <3>4. window' \in Nat /\ failures' \in 0..(Threshold - 1)
      BY <1>7, ProviderAssumption DEF Reload
    <3> QED BY <1>7, <3>1, <3>2, <3>3, <3>4 DEF Reload, ProviderTypeOK
  <2> QED BY <1>7, <2>2, <2>3 DEF Reload, BreakerCoherent, OneProbe
<1>8. CASE Upstream
  <2>1. ProviderTypeOK'
    BY <1>8, ProviderAssumption DEF Upstream, ProviderTypeOK
  <2> QED BY <1>8, <2>1 DEF Upstream, BreakerCoherent, OneProbe, Probes
<1>9. CASE UNCHANGED vars
  BY <1>9 DEF vars, ProviderTypeOK, BreakerCoherent, OneProbe, Probes
<1> QED
  BY <1>1, <1>2, <1>3, <1>4, <1>5, <1>6, <1>7, <1>8, <1>9 DEF Next

\* So it holds in every reachable state.
LEMMA Inductive == Spec => []IInv
BY InitIInv, StepIInv, PTL DEF Spec

(* The rate limiter never overdraws its bucket and the breaker's counters      *)
(* stay below the threshold, for any number of concurrent rounds.              *)
THEOREM ProviderTypeCorrect == Spec => []ProviderTypeOK
<1>1. IInv => ProviderTypeOK
  BY DEF IInv
<1> QED BY <1>1, Inductive, PTL

(* The in-flight flag is up only in the half-open state it gates, a closed     *)
(* breaker starts its next opening from the base window, and a raised flag has *)
(* its probe in flight unless one was cancelled in the limiter's queue.        *)
THEOREM BreakerStaysCoherent == Spec => []BreakerCoherent
<1>1. IInv => BreakerCoherent
  BY DEF IInv
<1> QED BY <1>1, Inductive, PTL

(* The half-open gate admits one probe at a time, for any number of callers    *)
(* and any history of cooldowns and cancellations, as long as no round sent    *)
(* before the breaker opened ends after it.                                    *)
THEOREM ProbeIsAlone == Spec => []OneProbe
<1>1. IInv => OneProbe
  BY DEF IInv
<1> QED BY <1>1, Inductive, PTL
=============================================================================
