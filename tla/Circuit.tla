------------------------------ MODULE Circuit ------------------------------
(***************************************************************************)
(* The circuit that the comment of CircuitBreaker describes.  Closed, it   *)
(* lets every call through, until FailureThreshold of them have failed in  *)
(* a row.  Open, it refuses every call for a timeout; then a single probe  *)
(* is let through, and the probe's outcome, nobody else's, decides whether *)
(* the circuit closes or opens again.                                      *)
(***************************************************************************)
EXTENDS Naturals

CONSTANTS Callers, FailureThreshold

VARIABLES
    mode,     \* "closed", "open", "halfOpen", or "probing": the probe is out
    streak,   \* failures recorded since the last success, up to the threshold
    call,     \* of each caller: "idle", "call", or the outcome it has to record
    probes    \* the caller that probes, if any

vars == <<mode, streak, call, probes>>

Init ==
    /\ mode = "closed" /\ streak = 0
    /\ call = [c \in Callers |-> "idle"]
    /\ probes = {}

Admit(c) ==
    /\ call[c] = "idle"
    /\ \/ mode = "closed" /\ UNCHANGED <<mode, probes>>
       \/ mode = "halfOpen" /\ probes = {} /\ mode' = "probing" /\ probes' = {c}
    /\ call' = [call EXCEPT ![c] = "call"]
    /\ UNCHANGED streak

\* The call ends, perhaps with an error that is not to be recorded.
Return(c) ==
    /\ call[c] = "call"
    /\ \/ \E outcome \in {"success", "failure"} : call' = [call EXCEPT ![c] = outcome]
          /\ UNCHANGED probes
       \/ call' = [call EXCEPT ![c] = "idle"] /\ probes' = probes \ {c}
    /\ UNCHANGED <<mode, streak>>

\* Whose outcome counts: anybody's while the circuit is closed, then the probe's.
Decides(c) == mode = "closed" \/ c \in probes

Succeed(c) ==
    /\ call[c] = "success" /\ Decides(c)
    /\ mode' = "closed" /\ streak' = 0
    /\ call' = [call EXCEPT ![c] = "idle"]
    /\ probes' = {}

\* A failure is tolerated, or the circuit opens for a timeout.
Fail(c) ==
    /\ call[c] = "failure" /\ Decides(c)
    /\ \/ streak + 1 < FailureThreshold /\ streak' = streak + 1 /\ UNCHANGED mode
       \/ streak + 1 >= FailureThreshold /\ streak' = FailureThreshold /\ mode' = "open"
    /\ call' = [call EXCEPT ![c] = "idle"]
    /\ probes' = {}

\* The outcome of a call that was admitted before the circuit opened.
Straggle(c) ==
    /\ call[c] \in {"success", "failure"} /\ ~Decides(c)
    /\ call' = [call EXCEPT ![c] = "idle"]
    /\ UNCHANGED <<mode, streak, probes>>

Timeout ==
    /\ mode = "open"
    /\ mode' = "halfOpen"
    /\ UNCHANGED <<streak, call, probes>>

Next ==
    \/ Timeout
    \/ \E c \in Callers : Admit(c) \/ Return(c) \/ Succeed(c) \/ Fail(c) \/ Straggle(c)

Spec == Init /\ [][Next]_vars
=============================================================================
