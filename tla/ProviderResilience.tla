------------------------- MODULE ProviderResilience -------------------------
(***************************************************************************)
(* One model provider as its callers see it: the circuit breaker           *)
(* (providers/circuit_breaker.py), the token bucket                        *)
(* (providers/rate_limiter.py) and resilient_round                         *)
(* (providers/_resilient_round.py), through which every remote round of    *)
(* every turn passes.  Providers share neither breaker nor bucket, so one  *)
(* provider is enough.                                                     *)
(*                                                                         *)
(* The breaker's lock is never held across an await, so each of its        *)
(* methods is one step; a caller gives up the event loop only while it     *)
(* waits for a token and while its round is upstream.                      *)
(***************************************************************************)
EXTENDS Integers

CONSTANTS
  Callers,        \* the turns and jobs that may hold a round at the same time
  Threshold,      \* failure_threshold
  Base,           \* half_open_seconds
  BackoffCap,     \* _HALF_OPEN_BACKOFF_CAP_SECONDS
  Cooldowns,      \* what a Retry-After header or cooldown_hours may say
  Capacities,     \* rate_limit_rpm: 0 stands for a limiter that is not set
  MaxOutages,     \* bound on the upstream's outages
  MaxInterrupts   \* bound on the rounds that end without an answer or a fault

ASSUME ProviderAssumption ==
  /\ Threshold \in Nat \ {0}
  /\ Base \in Nat \ {0} /\ BackoffCap \in Nat /\ Base =< BackoffCap
  /\ Cooldowns \subseteq Nat /\ Capacities \subseteq Nat
  /\ MaxOutages \in Nat /\ MaxInterrupts \in Nat

\* FailureCause, as far as it is told apart here: an outage (5xx, transport,
\* timeout, overload), a 429, whatever does not count against the provider.
NoCooldown == -1

\* One caller: waiting for a token or for the upstream, whether it was admitted
\* as the half-open probe, and what the upstream will make of its round.
Caller == [pc    : {"idle", "queued", "calling"},
           probe : BOOLEAN,
           fate  : {"none", "ok", "fault", "limited"}]
Free == [pc |-> "idle", probe |-> FALSE, fate |-> "none"]

VARIABLES
  state,       \* CircuitState
  window,      \* _current_half_open_seconds
  failures,    \* the failures of the last window_seconds
  probing,     \* _probe_in_flight
  capacity,    \* the bucket's capacity, 0 for none
  tokens,
  caller,      \* [Callers -> Caller]
  healthy,     \* whether the upstream answers
  outages, interrupts,
  crossed,     \* history: a round that was not the admitted probe ended after
               \* the breaker had opened
  orphaned     \* history: a probe was cancelled while it waited for a token

vars == <<state, window, failures, probing, capacity, tokens, caller,
          healthy, outages, interrupts, crossed, orphaned>>

Least(a, b) == IF a =< b THEN a ELSE b

Init ==
  /\ state = "closed" /\ window = Base /\ failures = 0 /\ probing = FALSE
  /\ capacity \in Capacities
  /\ tokens = capacity
  /\ caller = [c \in Callers |-> Free]
  /\ healthy = TRUE
  /\ outages = 0 /\ interrupts = 0
  /\ crossed = FALSE /\ orphaned = FALSE

(***************************************************************************)
(* The breaker.  A window of no length has elapsed as soon as somebody     *)
(* looks, and everybody promotes before looking.                           *)
(***************************************************************************)
Opens(w) ==
  /\ state' = IF w = 0 THEN "half_open" ELSE "open"
  /\ window' = w
  /\ failures' = 0

RecordSuccess ==
  IF state = "half_open"
  THEN /\ state' = "closed"
       /\ window' = Base
       /\ failures' = 0
  ELSE UNCHANGED <<state, window, failures>>

SlipRecordFailure ==
  IF state = "half_open" THEN Opens(Least(2 * window, BackoffCap))
  ELSE IF failures + 1 > Threshold THEN Opens(window)
  ELSE failures' = failures + 1 /\ UNCHANGED <<state, window>>

RecordFailure ==
  IF state = "half_open" THEN Opens(Least(2 * window, BackoffCap))
  ELSE IF failures + 1 >= Threshold THEN Opens(window)
  ELSE failures' = failures + 1 /\ UNCHANGED <<state, window>>

\* _maybe_promote_to_half_open
WindowElapses ==
  /\ state = "open"
  /\ state' = "half_open"
  /\ UNCHANGED <<window, failures, probing, capacity, tokens, caller, healthy,
                 outages, interrupts, crossed, orphaned>>

\* The oldest failure leaves the window of window_seconds.
FailureAges ==
  /\ failures > 0
  /\ failures' = failures - 1
  /\ UNCHANGED <<state, window, probing, capacity, tokens, caller, healthy,
                 outages, interrupts, crossed, orphaned>>

(***************************************************************************)
(* resilient_round.  A caller whom the gate refuses (CircuitOpenError)     *)
(* changes nothing, so only the admitted ones are actions.                 *)
(***************************************************************************)
SlipAdmits(c) == state # "open"

\* The gate: closed, or half-open with no probe in flight.
Admits(c) == state = "closed" \/ (state = "half_open" /\ ~probing)

\* What the upstream will answer a round that is sent now.
Fates == IF healthy THEN {"ok"} ELSE {"fault", "limited"}

HasToken == capacity = 0 \/ tokens > 0
Spend == tokens' = IF capacity = 0 THEN 0 ELSE tokens - 1

\* The gate, and limiter.acquire when it does not have to wait.
Start(c) ==
  /\ caller[c].pc = "idle"
  /\ Admits(c)
  /\ probing' = (state = "half_open")
  /\ \/ /\ HasToken
        /\ Spend
        /\ \E f \in Fates :
             caller' = [caller EXCEPT ![c] = [pc |-> "calling", fate |-> f,
                                              probe |-> state = "half_open"]]
     \/ /\ ~HasToken
        /\ caller' = [caller EXCEPT ![c] = [pc |-> "queued", fate |-> "none",
                                            probe |-> state = "half_open"]]
        /\ UNCHANGED tokens
  /\ UNCHANGED <<state, window, failures, capacity, healthy, outages,
                 interrupts, crossed, orphaned>>

\* acquire's next look at the bucket, after a sleep outside its lock.
Acquire(c) ==
  /\ caller[c].pc = "queued"
  /\ HasToken
  /\ Spend
  /\ \E f \in Fates :
       caller' = [caller EXCEPT ![c].pc = "calling", ![c].fate = f]
  /\ UNCHANGED <<state, window, failures, probing, capacity, healthy, outages,
                 interrupts, crossed, orphaned>>

\* The turn is cancelled while it waits for a token: the gate's admission is
\* not undone, because the try whose finally clears it comes later.
CancelQueued(c) ==
  /\ caller[c].pc = "queued"
  /\ interrupts < MaxInterrupts
  /\ interrupts' = interrupts + 1
  /\ orphaned' = (orphaned \/ caller[c].probe)
  /\ caller' = [caller EXCEPT ![c] = Free]
  /\ UNCHANGED <<state, window, failures, probing, capacity, tokens, healthy,
                 outages, crossed>>

Crosses(c) ==
  crossed' = (crossed \/ (state # "closed" /\ ~caller[c].probe))

\* record(ok=True) and the finally.
Succeeds(c) ==
  /\ caller[c].pc = "calling" /\ caller[c].fate = "ok"
  /\ RecordSuccess
  /\ probing' = FALSE
  /\ caller' = [caller EXCEPT ![c] = Free]
  /\ Crosses(c)
  /\ UNCHANGED <<capacity, tokens, healthy, outages, interrupts,
                 orphaned>>

\* record(ok=False), for a 429 the cooldown that follows it, and the finally.
\* penalize slows the bucket's refill, which has no speed here.
SlipFails(c) ==
  /\ caller[c].pc = "calling" /\ caller[c].fate \in {"fault", "limited"}
  /\ \E s \in IF caller[c].fate = "limited" THEN Cooldowns \cup {NoCooldown}
              ELSE {NoCooldown} :
       IF s = NoCooldown THEN RecordFailure /\ probing' = FALSE
       ELSE Opens(s) /\ UNCHANGED probing
  /\ caller' = [caller EXCEPT ![c] = Free]
  /\ Crosses(c)
  /\ UNCHANGED <<capacity, tokens, healthy, outages, interrupts,
                 orphaned>>

Fails(c) ==
  /\ caller[c].pc = "calling" /\ caller[c].fate \in {"fault", "limited"}
  /\ \E s \in IF caller[c].fate = "limited" THEN Cooldowns \cup {NoCooldown}
              ELSE {NoCooldown} :
       IF s = NoCooldown THEN RecordFailure ELSE Opens(s)
  /\ probing' = FALSE
  /\ caller' = [caller EXCEPT ![c] = Free]
  /\ Crosses(c)
  /\ UNCHANGED <<capacity, tokens, healthy, outages, interrupts,
                 orphaned>>

\* The round ends with what is no fault of the provider's (a stop, a budget
\* breach, a cancellation, a 4xx): nothing is recorded, only the finally runs.
SlipInterrupted(c) ==
  /\ caller[c].pc = "calling"
  /\ interrupts < MaxInterrupts
  /\ interrupts' = interrupts + 1
  /\ caller' = [caller EXCEPT ![c] = Free]
  /\ UNCHANGED <<state, window, failures, probing, capacity, tokens, healthy,
                 outages, crossed, orphaned>>

Interrupted(c) ==
  /\ caller[c].pc = "calling"
  /\ interrupts < MaxInterrupts
  /\ interrupts' = interrupts + 1
  /\ probing' = (probing /\ ~caller[c].probe)
  /\ caller' = [caller EXCEPT ![c] = Free]
  /\ UNCHANGED <<state, window, failures, capacity, tokens, healthy, outages,
                 crossed, orphaned>>

\* apply_settings for a provider whose configuration changed: a breaker and a
\* bucket of its own.  The rounds in flight keep the old ones, which nobody
\* else will ever read.
Reload ==
  /\ state' = "closed" /\ window' = Base /\ failures' = 0 /\ probing' = FALSE
  /\ capacity' \in Capacities
  /\ tokens' = capacity'
  /\ caller' = [c \in Callers |-> Free]
  /\ crossed' = FALSE /\ orphaned' = FALSE
  /\ UNCHANGED <<healthy, outages, interrupts>>

Refill ==
  /\ tokens < capacity
  /\ tokens' = tokens + 1
  /\ UNCHANGED <<state, window, failures, probing, capacity, caller, healthy,
                 outages, interrupts, crossed, orphaned>>

\* The upstream goes down and comes back.
Upstream ==
  /\ healthy => outages < MaxOutages
  /\ healthy' = ~healthy
  /\ outages' = IF healthy THEN outages + 1 ELSE outages
  /\ UNCHANGED <<state, window, failures, probing, capacity, tokens, caller,
                 interrupts, crossed, orphaned>>

RoundEnds(c) == Succeeds(c) \/ Fails(c)

Next ==
  \/ \E c \in Callers : \/ Start(c) \/ Acquire(c) \/ CancelQueued(c)
                        \/ RoundEnds(c) \/ Interrupted(c)
  \/ WindowElapses \/ FailureAges \/ Refill \/ Reload \/ Upstream

Spec == Init /\ [][Next]_vars

\* Time passes, the bucket refills (penalize never takes its rate below a
\* twentieth), a request times out if it is not answered, and the provider is
\* always asked for something.
FairSpec ==
  /\ Spec
  /\ WF_vars(WindowElapses) /\ WF_vars(Refill)
  /\ WF_vars(\E c \in Callers : Start(c))
  /\ \A c \in Callers : WF_vars(Acquire(c)) /\ WF_vars(RoundEnds(c))

-----------------------------------------------------------------------------
\* Every variable has the values its declaration names; in particular a bucket
\* is never overdrawn (the deduction of RateLimiter.acquire under its lock).
ProviderTypeOK ==
  /\ state \in {"closed", "open", "half_open"}
  /\ window \in Nat
  /\ failures \in 0..(Threshold - 1)
  /\ probing \in BOOLEAN
  /\ capacity \in Capacities
  /\ tokens \in 0..capacity
  /\ caller \in [Callers -> Caller]
  /\ healthy \in BOOLEAN
  /\ outages \in 0..MaxOutages
  /\ interrupts \in 0..MaxInterrupts
  /\ crossed \in BOOLEAN /\ orphaned \in BOOLEAN

Probes == {c \in Callers : caller[c].probe}

\* However late rounds of the past, cooldowns and cancellations interleave, the
\* in-flight flag is only ever up in the half-open state it gates (a flag left
\* over from an earlier opening would refuse everybody at the next promotion),
\* and a closed breaker has forgotten the last outage's back-off (open_for's
\* and _record_success's promise about the next opening).  Apart from a probe that
\* was cancelled in the queue, the round that will lower the flag is there.
BreakerCoherent ==
  /\ probing => state = "half_open"
  /\ state = "closed" => window = Base
  /\ probing => orphaned \/ Probes # {}

\* The half-open gate of admit_probe: at most one probe is in flight, and as
\* long as it is the flag is up.  A round sent before the breaker opened may
\* end in between and free the gate under the probe's feet; once one has, the
\* property says nothing (`crossed`).
OneProbe ==
  crossed \/ ((\A c, d \in Probes : c = d) /\ (Probes # {} => probing))

\* The breaker's whole point: it does not stay shut on an upstream that is
\* back.  Whatever rounds, cooldowns and cancellations came before, it closes
\* again as long as the upstream is up, unless a probe was cancelled while it
\* waited for a token (the flag it raised then stays up).
Heals ==
  state # "closed" ~> (state = "closed" \/ ~healthy \/ orphaned)
=============================================================================
