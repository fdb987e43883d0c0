---------------------------- MODULE CircuitBreaker ----------------------------
(***************************************************************************)
(* resilience.CircuitBreaker as CallWithResilience drives it: concurrent   *)
(* callers are admitted, run an operation with RetryWithBackoff and record *)
(* its outcome.  Each method holds the mutex, so it is one step; between a *)
(* caller's AllowRequest and its Record the others run, and the circuit    *)
(* may have been opened, probed and closed again meanwhile.                *)
(*                                                                         *)
(* Time: only whether resetTimeout has elapsed since openedAt matters.     *)
(* The counter of failures is only compared with the threshold, so it      *)
(* stops there; a threshold of 0 or less behaves as 1.                     *)
(***************************************************************************)
EXTENDS Naturals

CONSTANTS
    Callers,           \* goroutines that call CallWithResilience
    FailureThreshold,
    MaxAttempts,       \* RetryPolicy.MaxAttempts
    Errors             \* kinds of error an operation may return, see Error

\* "retryable" errors satisfy isRetryable; "other" ones do not (redis.Nil).
Error == {"retryable", "other"}

ASSUME ThresholdAssumption == FailureThreshold \in Nat \ {0}
ASSUME AttemptsAssumption == MaxAttempts \in Nat \ {0}
ASSUME ErrorsAssumption == Errors \subseteq Error

VARIABLES
    state,          \* stored state; HalfOpen is never stored
    failures,       \* consecutiveFailures, up to the threshold
    elapsed,        \* time.Since(openedAt) >= resetTimeout
    probeInFlight,
    pc,             \* next step of each caller
    attempt,        \* attempts of the caller's operation that have failed
    probe,          \* history: who has set probeInFlight, until it is cleared
    abandoned       \* history: the pending probe ended with no outcome recorded

breaker == <<state, failures, elapsed, probeInFlight, probe, abandoned>>
callers == <<pc, attempt>>
vars == <<state, failures, elapsed, probeInFlight, abandoned, pc, attempt, probe>>

TypeOK ==
    /\ state \in {"closed", "open"}
    /\ failures \in 0 .. FailureThreshold
    /\ elapsed \in BOOLEAN
    /\ probeInFlight \in BOOLEAN
    /\ pc \in [Callers -> {"idle", "call", "success", "failure"}]
    /\ attempt \in [Callers -> 0 .. MaxAttempts - 1]
    /\ probe \in [Callers -> BOOLEAN]
    /\ abandoned \in BOOLEAN

-----------------------------------------------------------------------------
(* The breaker's methods *)

\* stateLocked: HalfOpen is an open circuit whose timeout has elapsed.
HalfOpen == state = "open" /\ elapsed

\* AllowRequest, answering true to c.
Allow(c) ==
    \/ state = "closed" /\ UNCHANGED breaker
    \/ /\ HalfOpen /\ ~probeInFlight
       /\ probeInFlight' = TRUE
       /\ probe' = [probe EXCEPT ![c] = TRUE]
       /\ UNCHANGED <<state, failures, elapsed, abandoned>>

\* probeInFlight is cleared, whether or not it is the probe that does so.
EndProbe ==
    /\ probeInFlight' = FALSE
    /\ probe' = [c \in Callers |-> FALSE]
    /\ abandoned' = FALSE

RecordSuccess ==
    /\ failures' = 0
    /\ state' = "closed"
    /\ elapsed' = FALSE
    /\ EndProbe

\* The failure that reaches the threshold, and each one after it, opens the
\* circuit and starts the timeout again.
Opens == failures + 1 >= FailureThreshold

\* Faulty variants: opening does not end the pending probe; openedAt is set only
\* when a closed circuit opens.
RecordFailureKeepingProbe ==
    IF Opens
    THEN failures' = FailureThreshold /\ state' = "open" /\ elapsed' = FALSE
         /\ probe' = [c \in Callers |-> FALSE] /\ UNCHANGED <<probeInFlight, abandoned>>
    ELSE failures' = failures + 1 /\ UNCHANGED <<state, elapsed, probeInFlight, probe, abandoned>>

RecordFailureKeepingTime ==
    IF Opens
    THEN failures' = FailureThreshold /\ state' = "open" /\ UNCHANGED elapsed /\ EndProbe
    ELSE failures' = failures + 1 /\ UNCHANGED <<state, elapsed, probeInFlight, probe, abandoned>>

RecordFailure ==
    IF Opens
    THEN /\ failures' = FailureThreshold
         /\ state' = "open"
         /\ elapsed' = FALSE
         /\ EndProbe
    ELSE /\ failures' = failures + 1
         /\ UNCHANGED <<state, elapsed, probeInFlight, probe, abandoned>>

-----------------------------------------------------------------------------
(* CallWithResilience *)

Leave(c) ==
    /\ pc' = [pc EXCEPT ![c] = "idle"]
    /\ attempt' = [attempt EXCEPT ![c] = 0]

\* A call that AllowRequest refuses returns ErrServiceUnavailable at once and
\* changes nothing.
Admit(c) ==
    /\ pc[c] = "idle"
    /\ Allow(c)
    /\ pc' = [pc EXCEPT ![c] = "call"]
    /\ UNCHANGED attempt

MayRetry(c) == attempt[c] + 1 < MaxAttempts

\* Faulty variant: a spent budget is renewed.
AttemptRenewed(c) ==
    /\ pc[c] = "call"
    /\ \/ pc' = [pc EXCEPT ![c] = "success"] /\ UNCHANGED attempt
       \/ attempt' = [attempt EXCEPT ![c] = IF MayRetry(c) THEN @ + 1 ELSE 0] /\ UNCHANGED pc
    /\ UNCHANGED breaker

\* The operation returns: success, an error that is not retried and not recorded,
\* or a retryable one, which is retried within the budget unless the context ends.
Attempt(c) ==
    /\ pc[c] = "call"
    /\ \/ /\ pc' = [pc EXCEPT ![c] = "success"]
          /\ UNCHANGED <<attempt, probe, abandoned>>
       \/ /\ "other" \in Errors
          /\ Leave(c)
          /\ abandoned' = (abandoned \/ probe[c])
          /\ probe' = [probe EXCEPT ![c] = FALSE]
       \/ /\ "retryable" \in Errors
          /\ MayRetry(c)
          /\ attempt' = [attempt EXCEPT ![c] = @ + 1]
          /\ UNCHANGED <<pc, probe, abandoned>>
       \/ /\ "retryable" \in Errors
          /\ pc' = [pc EXCEPT ![c] = "failure"]
          /\ UNCHANGED <<attempt, probe, abandoned>>
    /\ UNCHANGED <<state, failures, elapsed, probeInFlight>>

Succeed(c) == pc[c] = "success" /\ RecordSuccess /\ Leave(c)

FailCall(c) == pc[c] = "failure" /\ RecordFailure /\ Leave(c)

\* resetTimeout has elapsed since openedAt.
Elapse ==
    /\ state = "open" /\ ~elapsed
    /\ elapsed' = TRUE
    /\ UNCHANGED <<state, failures, probeInFlight, probe, abandoned, callers>>

-----------------------------------------------------------------------------
Init ==
    /\ state = "closed" /\ failures = 0 /\ elapsed = FALSE
    /\ probeInFlight = FALSE /\ abandoned = FALSE
    /\ pc = [c \in Callers |-> "idle"]
    /\ attempt = [c \in Callers |-> 0]
    /\ probe = [c \in Callers |-> FALSE]

Next ==
    \/ \E c \in Callers : Admit(c) \/ Attempt(c) \/ Succeed(c) \/ FailCall(c)
    \/ Elapse

Spec == Init /\ [][Next]_vars

\* Time passes, an admitted call runs on, and requests keep coming: a caller that
\* could always be admitted some time is.
FairSpec ==
    /\ Spec
    /\ WF_vars(Elapse)
    /\ \A c \in Callers : WF_vars(Attempt(c) \/ Succeed(c) \/ FailCall(c)) /\ WF_vars(Admit(c))

-----------------------------------------------------------------------------
(* Properties *)

\* The circuit is open exactly when the threshold has been reached, also when
\* calls admitted before it opened, during a probe or after it closed record
\* their outcomes in any order.
OpenIsThreshold == state = "open" <=> failures = FailureThreshold

\* Four fields and a clock make the states of Circuit.
Mode ==
    IF state = "closed" THEN "closed"
    ELSE IF probeInFlight THEN "probing"
    ELSE IF elapsed THEN "halfOpen" ELSE "open"

Promise == INSTANCE Circuit WITH
    mode <- Mode, streak <- failures, call <- pc, probes <- {c \in Callers : probe[c]}

\* "That probe's outcome decides whether the breaker closes again or re-opens."  The
\* breaker does not ask whose outcome it is, so it keeps this only while there is
\* no straggler: a call that runs on an open circuit without being its probe.
CircuitSpec == Promise!Spec

Straggler(c) == state = "open" /\ pc[c] # "idle" /\ ~probe[c]

NoStragglers == \A c \in Callers : ~Straggler(c)

\* What a straggler may do at worst: its outcome is taken for the probe's, and a probe
\* that is still running becomes a call like others.
TakenForProbe(c) ==
    /\ Straggler(c) /\ pc' = [pc EXCEPT ![c] = "idle"]
    /\ \/ pc[c] = "success" /\ Mode' = "closed" /\ failures' = 0
       \/ pc[c] = "failure" /\ Mode' = "open" /\ UNCHANGED failures
    /\ \A d \in Callers : ~probe'[d]

\* In whatever order and state of the circuit calls record their outcomes, the breaker
\* behaves as Circuit but for such outcomes.  A straggler's failure may so end the
\* wait for a running probe, but the next probe has a whole new timeout to wait for.
OnlyStragglersInterfere ==
    /\ Promise!Init
    /\ [][Promise!Next \/ \E c \in Callers : TakenForProbe(c)]_(Promise!vars)

\* A probe is only pending on an open circuit whose timeout has elapsed.
ProbeOnlyHalfOpen == probeInFlight => HalfOpen

\* The pending flag stands for a caller that will record an outcome: the breaker
\* only ever waits for nobody after an operation that returned an error
\* CallWithResilience does not record (and no Redis operation returns one).
ProbeHasCaller == probeInFlight => abandoned \/ \E c \in Callers : probe[c]

\* An open circuit that records a failure stays open for a whole new timeout.
FailureReopens ==
    [][\A c \in Callers : pc[c] = "failure" /\ pc'[c] = "idle" /\ state = "open"
          => state' = "open" /\ ~elapsed']_vars

\* An open circuit rejects calls "until resetTimeout elapses, at which point a
\* single probe call is allowed through": it does not stay shut for ever, unless
\* a probe has ended with an error that is not recorded.
ProbesKeepComing ==
    [](state = "open" => <>(state = "closed" \/ (~probeInFlight /\ elapsed) \/ abandoned))

\* RetryWithBackoff is bounded: every admitted call ends, whatever its attempts
\* return, so a request waits for Redis for MaxAttempts attempts at most.
CallsEnd == \A c \in Callers : pc[c] = "call" ~> pc[c] = "idle"
=============================================================================
