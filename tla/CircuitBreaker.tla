--------------------------- MODULE CircuitBreaker ---------------------------
(***************************************************************************)
(* The gobreaker.CircuitBreaker built by NewHTTPWebhookClient (webhook/     *)
(* http_client.go): MaxRequests 3, Interval 10 s, Timeout 30 s, and the     *)
(* ReadyToTrip of lines 32-35.  The breaker is a record b; every operator  *)
(* maps b to the next record, as the library does under its mutex.         *)
(*                                                                         *)
(*   state   closed | open | halfOpen                                      *)
(*   counts  Requests, TotalFailures, ConsecutiveSuccesses (the fields     *)
(*           ReadyToTrip and the half-open rule read)                      *)
(*   expiry  ticks from now to the end of the closed window or of the open *)
(*           period (-1 once it has passed); NoExpiry (the zero time) in   *)
(*           half-open                                                     *)
(*                                                                         *)
(* Times are relative to the present and Elapse moves them on by a tick.   *)
(* Whether expiry.Before(now) holds at a call is the argument passed: the  *)
(* user decides it, since inside the tick an expiry is due in, the order   *)
(* of the expiry and the call depends on when within their ticks they      *)
(* were armed.                                                             *)
(*                                                                         *)
(* The library's generation counter is not kept: the webhook client has   *)
(* one caller (the consumer goroutine), so between beforeRequest and       *)
(* afterRequest the generation can only move by the closed window          *)
(* expiring, which is Rolls(b, passed).                                    *)
(***************************************************************************)
EXTENDS Integers

CONSTANTS
    MaxRequests,   \* Settings.MaxRequests
    Interval,      \* Settings.Interval, in ticks
    OpenTimeout    \* Settings.Timeout, in ticks

\* The zero time.Time: a value no armed expiry takes.
NoExpiry == -2

States == {"closed", "open", "halfOpen"}

ZeroCounts == [requests |-> 0, totalFailures |-> 0, consecutiveSuccesses |-> 0]

\* ReadyToTrip: counts.Requests >= 3 && TotalFailures/Requests >= 0.6
ReadyToTrip(c) == c.requests >= 3 /\ 5 * c.totalFailures >= 3 * c.requests

\* toNewGeneration: clear the counts and arm the expiry of the new state.
NewGeneration(st) ==
    [state  |-> st,
     counts |-> ZeroCounts,
     expiry |-> CASE st = "closed" -> Interval
                  [] st = "open"   -> OpenTimeout
                  [] OTHER         -> NoExpiry]

\* NewCircuitBreaker.
InitBreaker == NewGeneration("closed")

\* The expiry was armed in the current tick.
ArmedThisTick(b) ==
    \/ b.state = "closed" /\ b.expiry = Interval
    \/ b.state = "open" /\ b.expiry = OpenTimeout

\* setState: a no-op when the state does not change.
SetState(b, st) == IF b.state = st THEN b ELSE NewGeneration(st)

\* currentState moves to a new generation when the closed window or the
\* open period has expired.
Rolls(b, passed) ==
    /\ passed
    /\ \/ b.state = "closed" /\ b.expiry # NoExpiry
       \/ b.state = "open"

CurrentState(b, passed) ==
    IF ~Rolls(b, passed) THEN b
    ELSE IF b.state = "closed" THEN NewGeneration("closed")
    ELSE SetState(b, "halfOpen")

\* beforeRequest: the request is refused in open (ErrOpenState) and in
\* half-open once MaxRequests requests were let through (ErrTooManyRequests).
Admits(b, passed) ==
    LET c == CurrentState(b, passed)
    IN  c.state = "closed" \/ (c.state = "halfOpen" /\ c.counts.requests < MaxRequests)

BeforeRequest(b, passed) ==
    LET c == CurrentState(b, passed)
    IN  IF Admits(b, passed)
        THEN [c EXCEPT !.counts.requests = @ + 1]
        ELSE c

\* onSuccess / onFailure of counts.
CountSuccess(c) == [c EXCEPT !.consecutiveSuccesses = @ + 1]
CountFailure(c) == [c EXCEPT !.totalFailures = @ + 1, !.consecutiveSuccesses = 0]

OnSuccess(b) ==
    CASE b.state = "closed"   -> [b EXCEPT !.counts = CountSuccess(@)]
      [] b.state = "halfOpen" ->
            LET b2 == [b EXCEPT !.counts = CountSuccess(@)]
            IN  IF b2.counts.consecutiveSuccesses >= MaxRequests
                THEN SetState(b2, "closed") ELSE b2
      [] OTHER -> b

OnFailure(b) ==
    CASE b.state = "closed"   ->
            LET b2 == [b EXCEPT !.counts = CountFailure(@)]
            IN  IF ReadyToTrip(b2.counts) THEN SetState(b2, "open") ELSE b2
      [] b.state = "halfOpen" -> SetState(b, "open")
      [] OTHER -> b

\* afterRequest: the outcome is dropped when the generation moved since
\* beforeRequest (here: the closed window expired during the call).
AfterRequest(b, passed, success) ==
    IF Rolls(b, passed) THEN CurrentState(b, passed)
    ELSE IF success THEN OnSuccess(b) ELSE OnFailure(b)

\* One tick passes.
Elapse(b) ==
    IF b.state = "halfOpen" THEN b
    ELSE [b EXCEPT !.expiry = IF @ > 0 THEN @ - 1 ELSE -1]

=============================================================================
