---------------------------- MODULE WebhookRetry ----------------------------
(***************************************************************************)
(* The consumer's webhook path under time: processor_service.go sends each *)
(* delivery through httpWebhookClient.SendMessage, which runs the POST     *)
(* inside the circuit breaker; a failed or refused call goes to            *)
(* handleWebhookError (retry_count + 1, then the DLQ and FAILED, or the    *)
(* retry queue, whose 10 s TTL dead-letters it back to the main queue).    *)
(*                                                                         *)
(* Time advances in ticks (5 s in the configurations) and is kept relative *)
(* to the present: delays and the breaker's expiry count down on each Tick *)
(* and stop at their floor, so no absolute clock is needed.  The webhook is *)
(* up or down; the environment takes it down and back up a bounded number of  *)
(* times.  A call that reaches it takes up to WebhookTimeout ticks (the    *)
(* http.Client timeout) and fails exactly when the webhook is down when    *)
(* the answer comes.  The idempotency and repository steps around the call *)
(* are in MessagePipeline; here they cannot fail.                          *)
(***************************************************************************)
EXTENDS Naturals, FiniteSets

CONSTANTS
    Msgs,            \* message ids (model values)
    NoMsg,           \* the consumer is not in a webhook call
    MaxRetries,      \* MAX_RETRIES
    RetryTTL,        \* x-message-ttl of the retry queue, in ticks
    WebhookTimeout,  \* WEBHOOK_TIMEOUT_SECONDS, in ticks
    MaxRequests, Interval, OpenTimeout,   \* the breaker's Settings
    MaxOutages       \* times the webhook may go down

VARIABLES
    cb,         \* the webhook client's circuit breaker
    up,         \* the webhook answers successfully
    outages,    \* outages so far
    loc,        \* unsent | queued (main or retry queue) | done
    delay,      \* ticks until a queued message can be consumed (retry TTL)
    rc,         \* retry_count in the store
    status,     \* status in the store
    calling,    \* the message whose webhook call is in flight, or NoMsg
    callLeft,   \* ticks before the http.Client timeout ends that call
    triedDown,  \* history: some attempt of m was made while the webhook was down
    curAfter,   \* the present is known to lie later in its tick than the
                \* breaker's expiry lies in its own
    readyAfter, \* the same, for the instant m became (or becomes) ready
    justReady,  \* m became ready in the current tick
    seen        \* history: webhook answers observed in the breaker's current
                \* closed window, dropped outcomes included

vars == <<cb, up, outages, loc, delay, rc, status, calling, callLeft, triedDown,
          curAfter, readyAfter, justReady, seen>>

CB == INSTANCE CircuitBreaker

Init ==
    /\ cb = CB!InitBreaker
    /\ up = TRUE
    /\ outages = 0
    /\ loc = [m \in Msgs |-> "unsent"]
    /\ delay = [m \in Msgs |-> 0]
    /\ rc = [m \in Msgs |-> 0]
    /\ status = [m \in Msgs |-> "unsent"]
    /\ calling = NoMsg
    /\ callLeft = 0
    /\ triedDown = [m \in Msgs |-> FALSE]
    /\ curAfter = FALSE
    /\ readyAfter = [m \in Msgs |-> FALSE]
    /\ justReady = [m \in Msgs |-> FALSE]
    /\ seen = CB!ZeroCounts

-----------------------------------------------------------------------------
\* Mutant: MoveToRetryQueue publishes to the main queue (no TTL delay).
HandleWebhookErrorNoDelay(m) ==
    /\ rc' = [rc EXCEPT ![m] = @ + 1]
    /\ IF rc[m] + 1 >= MaxRetries
       THEN /\ status' = [status EXCEPT ![m] = "failed"]
            /\ loc' = [loc EXCEPT ![m] = "done"]
            /\ UNCHANGED delay
       ELSE /\ status' = [status EXCEPT ![m] = "processing"]
            /\ loc' = [loc EXCEPT ![m] = "queued"]
            /\ delay' = [delay EXCEPT ![m] = 0]

\* Mutant: the retry count is incremented twice per failure.
HandleWebhookErrorDoubleIncrement(m) ==
    /\ rc' = [rc EXCEPT ![m] = @ + 2]
    /\ IF rc[m] + 2 >= MaxRetries
       THEN /\ status' = [status EXCEPT ![m] = "failed"]
            /\ loc' = [loc EXCEPT ![m] = "done"]
            /\ UNCHANGED delay
       ELSE /\ status' = [status EXCEPT ![m] = "processing"]
            /\ loc' = [loc EXCEPT ![m] = "queued"]
            /\ delay' = [delay EXCEPT ![m] = RetryTTL]

\* handleWebhookError: IncrementRetryCount, UpdateStatus(processing),
\* GetByID; with retry_count >= MAX_RETRIES the DLQ and FAILED, otherwise
\* MoveToRetryQueue, back on the main queue RetryTTL later.
HandleWebhookError(m) ==
    /\ rc' = [rc EXCEPT ![m] = @ + 1]
    /\ IF rc[m] + 1 >= MaxRetries
       THEN /\ status' = [status EXCEPT ![m] = "failed"]
            /\ loc' = [loc EXCEPT ![m] = "done"]
            /\ UNCHANGED delay
       ELSE /\ status' = [status EXCEPT ![m] = "processing"]
            /\ loc' = [loc EXCEPT ![m] = "queued"]
            /\ delay' = [delay EXCEPT ![m] = RetryTTL]

(* Order inside a tick.  Durations are whole ticks, so an expiry lies as *)
(* far into the tick it is due in as its arming lay into its own, and a    *)
(* retry becomes ready as far into its tick as the failure lay.  Within a  *)
(* tick, steps happen in order.  In the tick an expiry is due in, it has   *)
(* passed at a call that is known to come later than it (curAfter, or m    *)
(* consumed in the tick it became ready, after the expiry); otherwise      *)
(* either order is possible (late).                                        *)
Passed(m, late) ==
    \/ cb.expiry < 0
    \/ cb.expiry = 0 /\ (curAfter \/ (justReady[m] /\ readyAfter[m]) \/ late)

\* What a step for m tells of the order: the present is later than the
\* expiry when the breaker armed a new one in this step, or when it was
\* already, or when the step came after the expiry.  A retry armed in this
\* step becomes ready as far into its tick as the present lies in this one.
\* Once no expiry is pending, or for a message not queued, the order no
\* longer matters and is forgotten.
TrackOrder(m, passed) ==
    LET rearmed == cb'.state # cb.state \/ cb'.expiry # cb.expiry
        after   == \/ rearmed \/ curAfter
                   \/ justReady[m] /\ readyAfter[m]
                   \/ cb.expiry = 0 /\ passed
        pending == cb'.expiry >= 0
    IN  /\ curAfter' = (pending /\ after)
        /\ readyAfter' =
              [q \in Msgs |->
                  /\ pending /\ loc'[q] = "queued"
                  /\ IF rc'[q] # rc[q] THEN after ELSE readyAfter[q] /\ ~rearmed]
        /\ justReady' =
              [q \in Msgs |->
                  /\ loc'[q] = "queued"
                  /\ IF rc'[q] # rc[q] THEN delay'[q] = 0 ELSE justReady[q]]

\* The observations of a closed window: they start afresh whenever the
\* breaker leaves the window (it rolls, trips or was not closed), and an
\* answer that arrives is observed in the window current at its arrival.
NewWindow(passed) == cb'.state # "closed" \/ cb.state # "closed" \/ CB!Rolls(cb, passed)

Observe(c, success) ==
    [c EXCEPT !.requests = @ + 1,
              !.totalFailures = IF success THEN @ ELSE @ + 1]

\* The producer publishes the message and sets it PROCESSING.
Publish(m) ==
    /\ loc[m] = "unsent"
    /\ loc' = [loc EXCEPT ![m] = "queued"]
    /\ status' = [status EXCEPT ![m] = "processing"]
    /\ UNCHANGED <<cb, up, outages, delay, rc, calling, callLeft, triedDown,
                   curAfter, readyAfter, justReady, seen>>

\* The consumer takes a ready delivery, passes the policy gate (retry_count
\* below MAX_RETRIES; the staleness branch is modelled in MessagePipeline)
\* and calls SendMessage.  The rate limiter (50/s, burst 100) never waits at
\* this rate.  beforeRequest either lets the POST start or refuses it, and a
\* refusal is a webhook error.
SendMessage(m) ==
    /\ calling = NoMsg
    /\ loc[m] = "queued" /\ delay[m] = 0
    /\ rc[m] < MaxRetries
    /\ \E late \in BOOLEAN :
        LET passed == Passed(m, late) IN
        /\ cb' = CB!BeforeRequest(cb, passed)
        /\ IF CB!Admits(cb, passed)
           THEN /\ calling' = m
                /\ callLeft' = WebhookTimeout
                /\ UNCHANGED <<loc, delay, rc, status>>
           ELSE /\ HandleWebhookError(m)
                /\ UNCHANGED <<calling, callLeft>>
        /\ TrackOrder(m, passed)
        /\ seen' = IF NewWindow(passed) THEN CB!ZeroCounts ELSE seen
    /\ triedDown' = [triedDown EXCEPT ![m] = @ \/ ~up]
    /\ UNCHANGED <<up, outages>>

\* The POST returns: afterRequest records the outcome, then either
\* handleSuccessfulProcessing (SENT) or handleWebhookError.
WebhookAnswer ==
    /\ calling # NoMsg
    /\ LET m == calling IN
       \E late \in BOOLEAN :
          LET passed == Passed(m, late) IN
          /\ cb' = CB!AfterRequest(cb, passed, up)
          /\ triedDown' = [triedDown EXCEPT ![m] = @ \/ ~up]
          /\ IF up
             THEN /\ status' = [status EXCEPT ![m] = "sent"]
                  /\ loc' = [loc EXCEPT ![m] = "done"]
                  /\ UNCHANGED <<delay, rc>>
             ELSE HandleWebhookError(m)
          /\ TrackOrder(m, passed)
          /\ seen' = CASE cb'.state # "closed" \/ cb.state # "closed" -> CB!ZeroCounts
                        [] CB!Rolls(cb, passed) -> Observe(CB!ZeroCounts, up)
                        [] OTHER                -> Observe(seen, up)
    /\ calling' = NoMsg
    /\ callLeft' = 0
    /\ UNCHANGED <<up, outages>>

\* Time passes; an in-flight POST is cut off by the client timeout.
Tick ==
    /\ calling # NoMsg => callLeft > 0
    /\ cb' = CB!Elapse(cb)
    /\ delay' = [m \in Msgs |-> IF delay[m] > 0 THEN delay[m] - 1 ELSE 0]
    /\ callLeft' = IF callLeft > 0 THEN callLeft - 1 ELSE 0
    /\ curAfter' = FALSE
    /\ justReady' = [m \in Msgs |-> delay[m] = 1]
    /\ readyAfter' = IF cb'.expiry >= 0 THEN readyAfter ELSE [m \in Msgs |-> FALSE]
    /\ UNCHANGED <<up, outages, loc, rc, status, calling, triedDown, seen>>

WebhookDown ==
    /\ up /\ outages < MaxOutages
    /\ up' = FALSE
    /\ outages' = outages + 1
    /\ UNCHANGED <<cb, loc, delay, rc, status, calling, callLeft, triedDown,
                   curAfter, readyAfter, justReady, seen>>

WebhookUp ==
    /\ ~up
    /\ up' = TRUE
    /\ UNCHANGED <<cb, outages, loc, delay, rc, status, calling, callLeft, triedDown,
                   curAfter, readyAfter, justReady, seen>>

Next ==
    \/ \E m \in Msgs : Publish(m) \/ SendMessage(m)
    \/ WebhookAnswer
    \/ Tick
    \/ WebhookDown
    \/ WebhookUp

Spec == Init /\ [][Next]_vars

-----------------------------------------------------------------------------
(* Properties *)

TypeOK ==
    /\ delay \in [Msgs -> 0..RetryTTL]
    /\ callLeft \in 0..WebhookTimeout
    /\ cb.state \in CB!States
    /\ loc \in [Msgs -> {"unsent", "queued", "done"}]
    /\ rc \in [Msgs -> 0..MaxRetries]
    /\ status \in [Msgs -> {"unsent", "processing", "sent", "failed"}]
    /\ calling \in Msgs \cup {NoMsg}

\* Spec 4.5/7: a breaker refusal is a transient error, like a timeout.  A
\* message is therefore never FAILED by refusals alone: one that exhausts
\* its retries made at least one attempt while the webhook was down.  It
\* can go wrong when the retry TTL, MAX_RETRIES and the breaker's open
\* period let every attempt of a message fall inside the open period left
\* by an outage that already ended.
FailedOnlyIfTriedWhileDown ==
    \A m \in Msgs : status[m] = "failed" => triedDown[m]

\* Spec 8: the breaker opens iff at least 3 observations in the window
\* fail at a ratio of 0.6 or more; gobreaker evaluates this when a call
\* fails.  So a failed answer that completes such a window leaves the
\* breaker open.  afterRequest drops the outcome of a call whose window
\* expired while it ran (the 30 s client timeout against the 10 s window),
\* so the outcome of a slow call is missing from the window it ends in.
BreakerCountsObservations ==
    [][calling # NoMsg /\ calling' = NoMsg /\ ~up /\ CB!ReadyToTrip(seen')
           => cb'.state # "closed"]_vars

=============================================================================
