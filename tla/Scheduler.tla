----------------------------- MODULE Scheduler -----------------------------
(***************************************************************************)
(* What spec 4.1 promises of the producer loop's controls: a single loop   *)
(* with start and stop, start idempotent.  Each call takes effect at one   *)
(* instant between its invocation and its return: after it, a loop ticks  *)
(* exactly when the call was a start, whatever the state before.  Every   *)
(* call returns.                                                           *)
(***************************************************************************)
CONSTANTS Requests   \* calls of start or stop, each made once

VARIABLES
    ticking,   \* a producer loop is running
    calls,     \* idle | pending | done, per call
    method     \* "Start", "Stop" or "none", per call

vars == <<ticking, calls, method>>

Init ==
    /\ ticking = FALSE
    /\ calls = [r \in Requests |-> "idle"]
    /\ method = [r \in Requests |-> "none"]

\* A client invokes start or stop.
Invoke(r, m) ==
    /\ calls[r] = "idle"
    /\ calls' = [calls EXCEPT ![r] = "pending"]
    /\ method' = [method EXCEPT ![r] = m]
    /\ UNCHANGED ticking

\* The call takes effect and returns.
Apply(r) ==
    /\ calls[r] = "pending"
    /\ ticking' = (method[r] = "Start")
    /\ calls' = [calls EXCEPT ![r] = "done"]
    /\ UNCHANGED method

Next == \E r \in Requests :
            \/ \E m \in {"Start", "Stop"} : Invoke(r, m)
            \/ Apply(r)

Spec == Init /\ [][Next]_vars /\ \A r \in Requests : WF_vars(Apply(r))

=============================================================================
