------------------------ MODULE CircuitBreakerProofs ------------------------
(***************************************************************************)
(* Theorems about CircuitBreaker, for every number of callers, threshold   *)
(* and retry budget.                                                       *)
(***************************************************************************)
EXTENDS CircuitBreaker, TLAPS

\* The breaker's own invariant: its four fields agree with each other.
FieldsOK ==
    /\ OpenIsThreshold
    /\ ProbeOnlyHalfOpen
    /\ elapsed => state = "open"
    /\ \A c \in Callers : probe[c] => probeInFlight /\ pc[c] # "idle"
    /\ \A c, d \in Callers : probe[c] /\ probe[d] => c = d

LEMMA TypeInit == Init => TypeOK
<1> SUFFICES ASSUME Init PROVE TypeOK
    OBVIOUS
<1>1. 0 \in 0 .. MaxAttempts - 1 /\ 0 \in 0 .. FailureThreshold
    BY ThresholdAssumption, AttemptsAssumption
<1>2. attempt \in [Callers -> 0 .. MaxAttempts - 1]
    BY <1>1 DEF Init
<1>3. /\ pc \in [Callers -> {"idle", "call", "success", "failure"}]
      /\ probe \in [Callers -> BOOLEAN]
    BY DEF Init
<1> QED
    BY <1>1, <1>2, <1>3 DEF Init, TypeOK

\* A caller that leaves is idle and holds nothing; the others are untouched.
LEMMA LeaveType ==
    ASSUME TypeOK, NEW c \in Callers, Leave(c)
    PROVE  /\ pc' \in [Callers -> {"idle", "call", "success", "failure"}]
           /\ attempt' \in [Callers -> 0 .. MaxAttempts - 1]
BY AttemptsAssumption DEF TypeOK, Leave

LEMMA TypeStep == TypeOK /\ [Next]_vars => TypeOK'
<1> SUFFICES ASSUME TypeOK, [Next]_vars PROVE TypeOK'
    OBVIOUS
<1> USE ThresholdAssumption, AttemptsAssumption
<1>1. ASSUME NEW c \in Callers, Admit(c) PROVE TypeOK'
    BY <1>1 DEF Admit, Allow, breaker, TypeOK
<1>2. ASSUME NEW c \in Callers, Attempt(c) PROVE TypeOK'
    <2>1. pc[c] = "call" /\ UNCHANGED <<state, failures, elapsed, probeInFlight>>
        BY <1>2 DEF Attempt
    <2>2. CASE /\ Leave(c)
               /\ abandoned' = (abandoned \/ probe[c])
               /\ probe' = [probe EXCEPT ![c] = FALSE]
        <3>1. abandoned' \in BOOLEAN
            BY <2>2, Zenon
        <3>2. probe' \in [Callers -> BOOLEAN]
            BY <2>2 DEF TypeOK
        <3> QED
            BY <2>1, <2>2, <3>1, <3>2, LeaveType DEF TypeOK
    <2>3. CASE /\ attempt[c] + 1 < MaxAttempts
               /\ attempt' = [attempt EXCEPT ![c] = @ + 1]
               /\ UNCHANGED <<pc, probe, abandoned>>
        <3>1. attempt[c] + 1 \in 0 .. MaxAttempts - 1
            BY <2>3 DEF TypeOK
        <3>2. attempt' \in [Callers -> 0 .. MaxAttempts - 1]
            BY <2>3, <3>1 DEF TypeOK
        <3> QED
            BY <2>1, <2>3, <3>2 DEF TypeOK
    <2>4. CASE \E s \in {"success", "failure"} :
                  pc' = [pc EXCEPT ![c] = s] /\ UNCHANGED <<attempt, probe, abandoned>>
        BY <2>1, <2>4 DEF TypeOK
    <2> QED
        BY <1>2, <2>2, <2>3, <2>4 DEF Attempt, MayRetry
<1>3. ASSUME NEW c \in Callers, Succeed(c) PROVE TypeOK'
    <2>1. Leave(c) /\ RecordSuccess
        BY <1>3 DEF Succeed
    <2>2. state' \in {"closed", "open"} /\ failures' \in 0 .. FailureThreshold
        BY <2>1 DEF RecordSuccess, TypeOK
    <2>3. elapsed' \in BOOLEAN /\ probeInFlight' \in BOOLEAN /\ abandoned' \in BOOLEAN
        BY <2>1, Zenon DEF RecordSuccess, EndProbe, TypeOK
    <2>5. probe' \in [Callers -> BOOLEAN]
        BY <2>1 DEF RecordSuccess, EndProbe
    <2>4. /\ pc' \in [Callers -> {"idle", "call", "success", "failure"}]
          /\ attempt' \in [Callers -> 0 .. MaxAttempts - 1]
        BY <2>1, LeaveType
    <2> QED
        BY <2>2, <2>3, <2>4, <2>5 DEF TypeOK
<1>4. ASSUME NEW c \in Callers, FailCall(c) PROVE TypeOK'
    <2>1. Leave(c) /\ RecordFailure
        BY <1>4 DEF FailCall
    <2>2. state' \in {"closed", "open"} /\ failures' \in 0 .. FailureThreshold
        BY <2>1 DEF RecordFailure, Opens, TypeOK
    <2>3. elapsed' \in BOOLEAN /\ probeInFlight' \in BOOLEAN /\ abandoned' \in BOOLEAN
        BY <2>1, Zenon DEF RecordFailure, EndProbe, TypeOK
    <2>5. probe' \in [Callers -> BOOLEAN]
        BY <2>1 DEF RecordFailure, EndProbe, TypeOK
    <2>4. /\ pc' \in [Callers -> {"idle", "call", "success", "failure"}]
          /\ attempt' \in [Callers -> 0 .. MaxAttempts - 1]
        BY <2>1, LeaveType
    <2> QED
        BY <2>2, <2>3, <2>4, <2>5 DEF TypeOK
<1>5. CASE Elapse
    BY <1>5 DEF Elapse, callers, TypeOK
<1>6. CASE UNCHANGED vars
    BY <1>6 DEF vars, TypeOK
<1> QED
    BY <1>1, <1>2, <1>3, <1>4, <1>5, <1>6 DEF Next

\* Every variable keeps its type.
THEOREM TypeCorrect == Spec => []TypeOK
<1>1. Init => TypeOK
    BY TypeInit
<1>2. TypeOK /\ [Next]_vars => TypeOK'
    BY TypeStep
<1> QED
    BY <1>1, <1>2, PTL DEF Spec

LEMMA FieldsInit == Init => FieldsOK
BY ThresholdAssumption DEF Init, FieldsOK, OpenIsThreshold, ProbeOnlyHalfOpen

LEMMA FieldsStep == TypeOK /\ FieldsOK /\ [Next]_vars => FieldsOK'
<1> SUFFICES ASSUME TypeOK, FieldsOK, [Next]_vars PROVE FieldsOK'
    OBVIOUS
<1> USE ThresholdAssumption DEF FieldsOK, OpenIsThreshold, ProbeOnlyHalfOpen, HalfOpen
<1>1. ASSUME NEW c \in Callers, Admit(c) PROVE FieldsOK'
    BY <1>1 DEF Admit, Allow, breaker, TypeOK
<1>2. ASSUME NEW c \in Callers, Attempt(c) PROVE FieldsOK'
    BY <1>2 DEF Attempt, breaker, Leave, TypeOK
<1>3. ASSUME NEW c \in Callers, Succeed(c) PROVE FieldsOK'
    BY <1>3 DEF Succeed, RecordSuccess, EndProbe
<1>4. ASSUME NEW c \in Callers, FailCall(c) PROVE FieldsOK'
    BY <1>4 DEF FailCall, RecordFailure, EndProbe, Opens, Leave, TypeOK
<1>5. CASE Elapse
    BY <1>5 DEF Elapse, callers
<1>6. CASE UNCHANGED vars
    BY <1>6 DEF vars
<1> QED
    BY <1>1, <1>2, <1>3, <1>4, <1>5, <1>6 DEF Next

LEMMA FieldsInvariant == Spec => [](TypeOK /\ FieldsOK)
<1>1. Init => TypeOK /\ FieldsOK
    BY TypeInit, FieldsInit
<1>2. TypeOK /\ FieldsOK /\ [Next]_vars => (TypeOK /\ FieldsOK)'
    BY TypeStep, FieldsStep
<1> QED
    BY <1>1, <1>2, PTL DEF Spec

\* The circuit is open exactly when the failure threshold has been reached,
\* whatever the order in which calls record their outcomes.
THEOREM OpenIffThreshold == Spec => []OpenIsThreshold
<1>1. FieldsOK => OpenIsThreshold
    BY DEF FieldsOK
<1> QED
    BY <1>1, FieldsInvariant, PTL

\* probeInFlight is never set on a closed circuit nor before the timeout.
THEOREM ProbeFlagHalfOpen == Spec => []ProbeOnlyHalfOpen
<1>1. FieldsOK => ProbeOnlyHalfOpen
    BY DEF FieldsOK
<1> QED
    BY <1>1, FieldsInvariant, PTL

\* A failure recorded on an open circuit starts the timeout again.
THEOREM FailuresReopen == Spec => FailureReopens
<1>1. TypeOK /\ FieldsOK /\ [Next]_vars
        => [\A c \in Callers : pc[c] = "failure" /\ pc'[c] = "idle" /\ state = "open"
               => state' = "open" /\ ~elapsed']_vars
    <2> SUFFICES ASSUME TypeOK, FieldsOK, Next, NEW c \in Callers,
                        pc[c] = "failure", pc'[c] = "idle", state = "open"
                 PROVE  state' = "open" /\ ~elapsed'
        OBVIOUS
    <2>1. failures = FailureThreshold
        BY DEF FieldsOK, OpenIsThreshold
    <2>2. FailCall(c)
        BY DEF Next, Admit, Attempt, Succeed, FailCall, Elapse, callers, Leave, TypeOK
    <2> QED
        BY <2>1, <2>2, ThresholdAssumption DEF FailCall, RecordFailure, Opens
<1> QED
    BY <1>1, FieldsInvariant, PTL DEF Spec, FailureReopens

-----------------------------------------------------------------------------
(* The pending probe *)

LEMMA CallerStep ==
    ASSUME TypeOK, FieldsOK, ProbeHasCaller, [Next]_vars
    PROVE  ProbeHasCaller'
<1>1. ASSUME NEW c \in Callers, Admit(c) PROVE ProbeHasCaller'
    BY <1>1 DEF Admit, Allow, breaker, ProbeHasCaller, TypeOK
<1>2. ASSUME NEW c \in Callers, Attempt(c) PROVE ProbeHasCaller'
    <2>1. CASE abandoned' = (abandoned \/ probe[c]) /\ probe' = [probe EXCEPT ![c] = FALSE]
        <3>1. \A d \in Callers \ {c} : probe'[d] = probe[d]
            BY <2>1 DEF TypeOK
        <3>2. probeInFlight' = probeInFlight
            BY <1>2 DEF Attempt
        <3> QED
            BY <2>1, <3>1, <3>2 DEF ProbeHasCaller
    <2>2. CASE UNCHANGED <<probe, abandoned>>
        BY <1>2, <2>2 DEF Attempt, ProbeHasCaller
    <2> QED
        BY <1>2, <2>1, <2>2 DEF Attempt
<1>3. ASSUME NEW c \in Callers, Succeed(c) PROVE ProbeHasCaller'
    BY <1>3 DEF Succeed, RecordSuccess, EndProbe, ProbeHasCaller
<1>4. ASSUME NEW c \in Callers, FailCall(c) PROVE ProbeHasCaller'
    BY <1>4 DEF FailCall, RecordFailure, EndProbe, ProbeHasCaller
<1>5. CASE Elapse
    BY <1>5 DEF Elapse, ProbeHasCaller
<1>6. CASE UNCHANGED vars
    BY <1>6 DEF vars, ProbeHasCaller
<1> QED
    BY <1>1, <1>2, <1>3, <1>4, <1>5, <1>6 DEF Next

\* A pending probe always has a caller that will record its outcome, unless it
\* ended with an error nobody records: stragglers that clear the flag cannot leave
\* it set alone.
THEOREM ProbesAreOwned == Spec => []ProbeHasCaller
<1>1. Init => ProbeHasCaller
    BY DEF Init, ProbeHasCaller
<1>2. (TypeOK /\ FieldsOK) /\ ProbeHasCaller /\ [Next]_vars => ProbeHasCaller'
    BY CallerStep
<1> QED
    BY <1>1, <1>2, FieldsInvariant, PTL DEF Spec

-----------------------------------------------------------------------------
(* The circuit callers see *)

LEMMA CircuitInit == Init => Promise!Init
BY DEF Init, Promise!Init, Mode

\* An outcome that is not a straggler's is one Circuit lets decide.
LEMMA Recorded ==
    ASSUME TypeOK, FieldsOK, NEW c \in Callers, Succeed(c) \/ FailCall(c)
    PROVE  /\ ~Straggler(c) => Promise!Decides(c)
           /\ pc' = [pc EXCEPT ![c] = "idle"]
<1>1. pc[c] # "idle" /\ pc' = [pc EXCEPT ![c] = "idle"]
    BY DEF Succeed, FailCall, Leave
<1>2. ~Straggler(c) => Promise!Decides(c)
    BY <1>1 DEF Straggler, Promise!Decides, Mode, TypeOK
<1> QED
    BY <1>1, <1>2

LEMMA SucceedStep ==
    ASSUME TypeOK, FieldsOK, NEW c \in Callers, Succeed(c)
    PROVE  IF Straggler(c) THEN TakenForProbe(c) ELSE Promise!Succeed(c)
<1>1. /\ pc[c] = "success" /\ failures' = 0 /\ Mode' = "closed"
      /\ \A d \in Callers : ~probe'[d]
    BY DEF Succeed, RecordSuccess, EndProbe, Mode
<1> QED
    BY <1>1, Recorded DEF TakenForProbe, Promise!Succeed

LEMMA FailStep ==
    ASSUME TypeOK, FieldsOK, NEW c \in Callers, FailCall(c)
    PROVE  IF Straggler(c) THEN TakenForProbe(c) ELSE Promise!Fail(c)
<1>1. pc[c] = "failure"
    BY DEF FailCall
<1>2. CASE Opens
    <2>1. /\ failures' = FailureThreshold /\ Mode' = "open" /\ failures + 1 >= FailureThreshold
          /\ \A d \in Callers : ~probe'[d]
        BY <1>2 DEF FailCall, RecordFailure, EndProbe, Opens, Mode
    <2>2. Straggler(c) => failures' = failures
        BY <2>1 DEF Straggler, FieldsOK, OpenIsThreshold
    <2> QED
        BY <1>1, <2>1, <2>2, Recorded DEF TakenForProbe, Promise!Fail
<1>3. CASE ~Opens
    <2>1. /\ failures' = failures + 1 /\ Mode' = Mode /\ probe' = probe
          /\ failures + 1 < FailureThreshold
        BY <1>3, ThresholdAssumption DEF FailCall, RecordFailure, Opens, Mode, TypeOK
    <2>2. state = "closed" /\ \A d \in Callers : ~probe[d]
        BY <2>1, ThresholdAssumption
        DEF FieldsOK, OpenIsThreshold, ProbeOnlyHalfOpen, HalfOpen, TypeOK
    <2> QED
        BY <1>1, <2>1, <2>2, Recorded DEF Straggler, Promise!Fail
<1> QED
    BY <1>2, <1>3

LEMMA CircuitStep ==
    ASSUME TypeOK, FieldsOK, [Next]_vars
    PROVE  \/ [Promise!Next]_(Promise!vars)
           \/ \E c \in Callers : TakenForProbe(c)
<1> USE DEF Promise!vars
<1>1. ASSUME NEW c \in Callers, Admit(c) PROVE Promise!Admit(c)
    <2>1. pc[c] = "idle" /\ pc' = [pc EXCEPT ![c] = "call"] /\ failures' = failures
        BY <1>1 DEF Admit, Allow, breaker
    <2>2. CASE state = "closed" /\ UNCHANGED breaker
        BY <2>1, <2>2 DEF breaker, Mode, Promise!Admit
    <2>3. CASE ~(state = "closed" /\ UNCHANGED breaker)
        <3>1. /\ HalfOpen /\ ~probeInFlight /\ probeInFlight'
              /\ probe' = [probe EXCEPT ![c] = TRUE]
              /\ UNCHANGED <<state, elapsed>>
            BY <1>1, <2>3 DEF Admit, Allow
        <3>2. Mode = "halfOpen" /\ Mode' = "probing"
            BY <3>1 DEF HalfOpen, Mode
        <3>3. {d \in Callers : probe[d]} = {} /\ {d \in Callers : probe'[d]} = {c}
            BY <3>1 DEF FieldsOK, TypeOK
        <3> QED
            BY <2>1, <3>2, <3>3 DEF Promise!Admit
    <2> QED
        BY <2>2, <2>3
<1>2. ASSUME NEW c \in Callers, Attempt(c) PROVE [Promise!Next]_(Promise!vars)
    <2>1. pc[c] = "call" /\ failures' = failures /\ Mode' = Mode
        BY <1>2 DEF Attempt, Mode
    <2>2. CASE pc' = pc /\ probe' = probe
        BY <2>1, <2>2
    <2>3. CASE /\ \E outcome \in {"success", "failure"} : pc' = [pc EXCEPT ![c] = outcome]
               /\ probe' = probe
        <3>1. Promise!Return(c)
            BY <2>1, <2>3 DEF Promise!Return
        <3> QED
            BY <3>1 DEF Promise!Next
    <2>4. CASE pc' = [pc EXCEPT ![c] = "idle"] /\ probe' = [probe EXCEPT ![c] = FALSE]
        <3>1. {d \in Callers : probe'[d]} = {d \in Callers : probe[d]} \ {c}
            BY <2>4 DEF TypeOK
        <3>2. Promise!Return(c)
            BY <2>1, <2>4, <3>1 DEF Promise!Return
        <3> QED
            BY <3>2 DEF Promise!Next
    <2> QED
        BY <1>2, <2>2, <2>3, <2>4 DEF Attempt, Leave
<1>3. ASSUME NEW c \in Callers, Succeed(c)
      PROVE  Promise!Succeed(c) \/ TakenForProbe(c)
    BY <1>3, SucceedStep
<1>4. ASSUME NEW c \in Callers, FailCall(c)
      PROVE  Promise!Fail(c) \/ TakenForProbe(c)
    BY <1>4, FailStep
<1>5. ASSUME Elapse PROVE [Promise!Next]_(Promise!vars)
    <2>1. /\ Mode = "open" /\ Mode' = "halfOpen"
          /\ failures' = failures /\ pc' = pc /\ probe' = probe
        BY <1>5 DEF Elapse, callers, FieldsOK, ProbeOnlyHalfOpen, HalfOpen, Mode
    <2> QED
        BY <2>1 DEF Promise!Timeout, Promise!Next
<1>6. ASSUME UNCHANGED vars PROVE UNCHANGED Promise!vars
    BY <1>6 DEF vars, Mode
<1> QED
    BY <1>1, <1>2, <1>3, <1>4, <1>5, <1>6 DEF Next, Promise!Next

\* The breaker is the circuit of its comment but for stragglers, and a straggler does
\* no more than settle the circuit as a probe would.
THEOREM IsACircuit == Spec => OnlyStragglersInterfere
<1>1. (TypeOK /\ FieldsOK) /\ [Next]_vars =>
          [Promise!Next \/ \E c \in Callers : TakenForProbe(c)]_(Promise!vars)
    BY CircuitStep
<1> QED
    BY CircuitInit, <1>1, FieldsInvariant, PTL DEF Spec, OnlyStragglersInterfere

\* Without them it keeps the comment's promise to the letter: the circuit is decided
\* by a single probe at a time.
THEOREM CircuitWithoutStragglers == Spec /\ []NoStragglers => CircuitSpec
<1>1. (TypeOK /\ FieldsOK) /\ NoStragglers /\ [Next]_vars => [Promise!Next]_(Promise!vars)
    BY CircuitStep DEF NoStragglers, TakenForProbe
<1> QED
    BY CircuitInit, <1>1, FieldsInvariant, PTL DEF Spec, CircuitSpec, Promise!Spec
=============================================================================
