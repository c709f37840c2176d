# TLA+ models of the reliable messaging system

This directory holds TLA+ models of the message lifecycle engine in `src/`. It also holds
the TLC configurations that check them. `PROJECT.json` lists every component, every run,
the mutants and the source lines each definition models.

## 1. Inventory

### Components and their state

| Component | Source | State it keeps | Operations |
|---|---|---|---|
| Ingress (sender HTTP) | `sender_service/.../handlers/message_handler.go`, `service/sender_service.go:39-47`, `domain/sender.go` | none (it writes a MongoDB record) | `POST /messages` → `SendMessage` → `CreateMessage` → `PrepareMessage` + `InsertMessage` (record `unsent`, `retry_count` 0, or 500 and no record) |
| Producer loop | `sender_service.go:61-151` | `isRunning`, `done` channel, ticker | `Start`, `Stop`, each tick `processUnsentMessages`: `FindUnsentMessages(batch)`, then for each record `PublishMessage` and **then** `UpdateStatus(processing)` |
| Consumer loop | `processor_service.go:48-239` | none in memory; one delivery at a time | `processMessage`: ack, decode, `IsProcessed`, id check, `GetByID`, policy gate, webhook, then success (`MarkAsProcessed`, `UpdateStatus(sent)`) or error (`IncrementRetryCount`, `UpdateStatus(processing)`, `GetByID`, then DLQ+failed or retry queue), duplicate (`UpdateStatus(duplicate)`), poison (DLQ) |
| Stale sweeper | `processor_service.go:241-297` | ticker | every minute `FindStaleProcessingMessages(4m)`, then for each record `MoveToDeadLetter` and then `UpdateStatus(failed)` |
| Queue topology | `shared/adapters/message_queue_adapter.go` | queues `messages`, `messages.retry` (TTL 10 s, dead-letters to `messages`), `messages.dlq`; one AMQP channel per process | publish, consume, move to DLQ, move to retry |
| Message repository | `shared/adapters/message_repository_adapter.go` | MongoDB records: `status`, `retry_count`, `updated_at` | create, find unsent, update status (refreshes `updated_at`), `$inc` retry count, get, find stale |
| Idempotency service | `shared/adapters/idempotency_service_adapter.go` | Redis `inbox:<id>` (24 h), `webhook:msg:<id>` | `IsProcessed`, `MarkAsProcessed`, `StoreWebhookMessageID` |
| Domain policy | `processor_service/internal/domain/processor.go` | `maxRetries`, `staleDuration` | `ShouldProcessMessage(msg)` → process / stale / exhausted |
| Webhook client | `processor_service/.../webhook/http_client.go`, `shared/ratelimit` | token bucket (50/s, burst 100), gobreaker (3 probes, 10 s interval, 30 s open, trip at ≥3 requests and ≥60 % failures) | `SendMessage` |
| Health, config, mains | `health_service.go`, `config.go`, `cmd/main.go` | none relevant | probes, environment parsing, bootstrap and shutdown |

### How the components interact

The two processes share no memory. They interact only through MongoDB, RabbitMQ and
Redis:

* The sender's scheduler moves `unsent` records onto `messages`.
* The processor's consumer loop takes deliveries from `messages`. It acks each delivery
  before doing any work.
* The processor's sweeper goroutine runs concurrently with the consumer loop. The two
  share the processor's single AMQP channel and the MongoDB records.
* The retry queue sends a delivery back to `messages` when its TTL expires. No timer in
  the code does this.

### What is hard

* **Three writers of one record.** The producer, the consumer and the sweeper all call
  `UpdateStatus` on the same record. None of them checks the current status before
  writing.
* **Early ack.** The broker never redelivers a delivery. A delivery lost after the ack is
  recovered only by the sweeper.
* **Partial failures.** Each store or broker call can fail on its own. Some errors only
  stop the handler. Others are only logged and the handler goes on.
* **Duplicate deliveries.** A failed status update after a publish makes the producer
  publish again.
* **Time.** Staleness (4 min), the retry TTL (10 s) and the breaker's open timeout
  (30 s) all decide behaviour.

### Properties each component should have

* **Records (spec §3):**
  * `retry_count ≤ MAX_RETRIES`.
  * A terminal status is final, except that a redelivery marks the record `duplicate`.
* **Consumer and idempotency (spec §5, §8):**
  * At most one delivery of an id sets the record `sent`.
  * A `sent` message has no copy in the DLQ.
  * A `failed` message is in the DLQ exactly once.
* **Sweeper and retry topology (spec §8):** every submitted message eventually reaches a
  terminal status.
* **Breaker and limiter:**
  * The breaker opens exactly when `ReadyToTrip` holds.
  * The limiter approves at most rate + burst calls in one second.
* **Scheduler control:**
  * At most one loop runs.
  * `Stop` never blocks forever.

## 2. Plan

Modules, in the order they are built. The most important behaviour comes first.

1. **`MessagePipeline`** (done). It composes the producer, the consumer, the sweeper, the
   queue topology, the repository and the idempotency service. The webhook is an
   accept-or-error choice. Its MC module is `MC_MessagePipeline`.
2. **Crash and restart** (done). `ProcessorRestart` and `SenderRestart` are actions of
   `MessagePipeline`, at most `MaxCrashes` in a behaviour (§3, "Crashes").
3. **`SchedulerControl`** (done). It models `Start`/`Stop` under concurrent HTTP requests: the
   unlocked test-and-set of `isRunning` and the unbuffered `done` send. The data race is
   a nondeterministic interleaving of the read and the write.
4. **`CircuitBreaker`** (done). It models the gobreaker state machine with this
   repository's `ReadyToTrip` and timeouts. `WebhookRetry` composes it with the consumer's
   webhook step and the retry queue's TTL under time, to show retries used up by
   refusals (§3c).
5. **`TokenBucket`**. It is checked against a reference definition ("at most rate + burst
   approvals per window") over bounded time.
6. **Refinement.** `SchedulerControl` is shown to implement the abstract `Scheduler`
   (spec §4.1) with `INSTANCE ... WITH` (done, §3b). A per-message `MessageLifecycle`
   for `MessagePipeline` was dropped. Its refinement would fail exactly where
   `TerminalStatusFinal` already fails (`terminal_final`), so it would add no question.
7. **`Policy`**. It checks `ShouldProcessMessage` against the spec's reference policy and
   the sweeper's query, over integer time.

## 3. `MessagePipeline`: what is modelled

### State

| Variable | Code it models |
|---|---|
| `status`, `rc`, `stale` | MongoDB `status`, `retry_count`, `updated_at` |
| `inbox` | Redis `inbox:<id>` |
| `main`, `retry` | the queues `messages` and `messages.retry` (FIFO sequences of deliveries) |
| `dlq` | count of copies of each id in `messages.dlq` |
| `chanOpen` | whether the processor's AMQP channel is still open |
| `prPc`, `prList`, `prCur` | producer position |
| `cPc`, `cCur` | consumer position |
| `swPc`, `swList`, `swCur` | sweeper position |
| `sentCount` | history variable: how many times a record was set `sent` |

A delivery is a record `[id, kind]`. The kind is `ok`, `malformed` (an undecodable body)
or `badid` (a body whose id is not hex).

### Actions

Each action is one store, cache or broker call, with all of its outcomes.

**Producer:**
* `ProcessUnsentMessages`
* `HandleMessagePublish`, then `HandleMessageUpdate` (the code's order)

**Consumer:**
* `ProcessMessage` (ack and decode)
* `CheckIsProcessed`
* `HandleDuplicateMessage`
* `HandlePoisonMessage`
* `GetMessage` (load and policy gate). The load is the operator `GetByID`, the record's
  `retry_count` and staleness; `ReloadMessage` reads it again.
* `SendWebhook`
* `MarkAsProcessed`, `MarkSent`
* `IncrementRetryCount`, `SetProcessing`, `ReloadMessage`
* `MoveToRetryQueue`
* `MoveToDeadLetter`, `MarkFailed`

**Sweeper:**
* `CheckStaleMessages`
* `RecoverDeadLetter`, `RecoverMarkFailed`

**Environment:**
* `SendMessage(m)` (users). This is the handler, the service and the repository insert.
  A failed insert answers 500 and leaves no record; the user may post again.
* `RetryTTLExpired` (the broker)
* `Age(m)` (the 4-minute threshold elapsing)
* `PublishPoison` (a foreign publisher)

### How failures are modelled

* A call listed in `Fallible` may fail, at most `MaxFaults` times. Its error branch is
  then taken exactly as the code writes it: return, log and continue, or skip the record.
* When `IsProcessed` or the first `GetByID` fails, the consumer calls `delivery.Nack` on
  a delivery it has already acked. RabbitMQ answers an unknown delivery tag by closing the channel
  (`PRECONDITION_FAILED`). `NackAcked` models this by setting `chanOpen` to FALSE.
* The second `GetByID`, in `reloadMessage`, returns its error without a Nack. It is a
  separate name in `Calls`, `ReloadGetByID`, so that the channel-safe fault set keeps it.
* After the channel closes:
  * the consumer receives nothing;
  * every publish from the processor, by the consumer or by the sweeper, fails.

### Crashes

* `ProcessorRestart` is the processor stopping between two of its calls, after which
  `main` runs again (`processor_service/cmd/main.go` 23-71).
  * The stop is `ProcessorStop`. It covers a crash and also an ordinary SIGTERM:
    `ProcessorService.Stop` closes `done` and the channel without waiting for
    `processMessage`, and `main` then returns. So every deploy can abandon the delivery in
    hand at any step, just as a crash does.
  * the consumer and sweeper state is lost;
  * a new connection gives an open channel;
  * MongoDB, Redis and the durable queues keep their contents.
* A delivery the consumer held is already acked, so it is gone (spec §4.2 step 1).
* `SenderRestart` is the sender dying in the middle of a batch: the batch is lost, and the
  next tick starts over.
* The sender's `main` does not start the scheduler. The model assumes an operator calls
  `POST /scheduler/start` again; this is listed as an uncovered hazard.
* Crashes are bounded by `MaxCrashes` and get no fairness.
* Spec §9 says a crash between the ack and a state write "leaves a PROCESSING row that
  the sweeper will reconcile". The `poison` run checks this as `EventuallyTerminal`, with
  one crash of either process.

### How time is abstracted

* Each record carries a `stale` flag. Every write to the record clears it, because the
  write refreshes `updated_at`. `Age(m)` sets it at any time.
* This over-approximates real timings. A record can go stale while its delivery waits in a
  backlog, or while the webhook call runs (up to a 30 s timeout plus the limiter's wait).

### Abstractions

* The webhook answers accept or error. The breaker and the limiter are folded into the
  error.
* `StoreWebhookMessageID` is left out. Its failure is only logged, and nothing reads the
  key it writes.

## 3b. `SchedulerControl`: what is modelled

`MessageScheduler` (`sender_service.go` 61-107) is started and stopped by
`POST /scheduler/start` and `/scheduler/stop` (gin serves each request on its own
goroutine) and by `main` at shutdown. Each call in `Requests` is one `Start` or one
`Stop`, made once.

* **State.** `isRunning` is the unlocked flag. `loops` counts the `run()` goroutines
  that have not returned. `pc` and `op` track each call.
* **Actions.** `StartRead` is the `if s.isRunning { return }` test; `StartSet` is
  `s.isRunning = true`; `StartGo` is `go s.run()`. `StopRead` and `StopSet` are the same
  steps for `Stop`. `RunReceiveDone` is `s.done <- true`: the send completes only when a
  running loop takes it in its `select` and returns.
* **The data race.** The read and the write of `isRunning` are separate steps. A racy
  read sees the last write; the model explores the interleavings, not weaker memory
  outcomes, which can only add behaviours.
* **`Concurrent`.** With `FALSE`, a call starts only when no other call is in flight
  (one operator clicking). With `TRUE`, calls overlap.
* **Fairness.** Weak fairness on each call's steps: goroutines are scheduled, and a
  `select` with a ready `done` case eventually takes it. Nobody is obliged to call.

| Run | Expect | Checks | What it shows |
|---|---|---|---|
| `scheduler_sequential` (`MCSchedulerSequential.cfg`) | pass | `SingleLoop`, `RunningFlagMatchesLoop`, `StopReturns`, `SchedulerRefinement` | Three calls, one at a time: at most one loop, the flag matches the loop between calls, every `Stop` returns, and the code implements the abstract `Scheduler`. |
| `scheduler_double_start` | violation | `SingleLoop` | Two overlapping starts both read `false` and both run `go s.run()`. Each tick then publishes every unsent message twice. |
| `scheduler_stop_hang` | violation | `StopReturns` | Two overlapping stops both read `true`. The loop takes one `done` value; the other `Stop` blocks forever. |

**Refinement.** `Scheduler.tla` is the promise of spec §4.1:
* every call takes effect at one instant and returns;
* after it, a loop ticks exactly when the call was a start.

`SchedulerRefinement` instantiates it with this mapping:

| Abstract | Maps to |
|---|---|
| `ticking` | `loops > 0` |
| a call is pending | the call is between `Call` and `returned` |
| `method` | `op` |

Each call takes effect when it returns. Under overlapping calls the mapping does not
hold, but not only because of real faults: a second `Start` may return before the first
one's goroutine exists. The concurrent hazards are therefore stated by `SingleLoop` and
`StopReturns`.

Three calls are enough: the violations need two overlapping calls, and the passing run
needs Start, Stop, Start or Stop, Start, Stop to show the flag reset. Deadlock checking is
off because the calls are bounded.

## 3c. `CircuitBreaker` and `WebhookRetry`: the webhook path under time

`CircuitBreaker.tla` is an operator library with no variables. It models the
`gobreaker.CircuitBreaker` built in `webhook/http_client.go` 26-54. The library is
gobreaker v1, imported as `github.com/sony/gobreaker`; its semantics are taken from that
version.

* **The breaker record.** It has:
  * a state: closed, open or half-open;
  * the counts `ReadyToTrip` reads;
  * an expiry, the time to the end of the closed window or of the open period.
* **Operators.** There is one per library step:
  * `CurrentState` rolls an expired window, or goes from open to half-open;
  * `BeforeRequest` refuses in open, and in half-open after `MaxRequests` requests;
  * `OnSuccess` and `OnFailure`;
  * `AfterRequest` drops an outcome whose generation moved during the call.
* **No generation counter.** The client has one caller, the consumer goroutine. So the
  generation can only move by the closed window expiring (`Rolls`).

`WebhookRetry.tla` instantiates it (`CB == INSTANCE CircuitBreaker`) and composes it with
the consumer's webhook step and the retry queue.

* **`SendMessage`.** The policy gate, then `beforeRequest`. A refusal goes straight to
  `handleWebhookError`.
* **`WebhookAnswer`.** `afterRequest`, then SENT or `handleWebhookError`:
  * `retry_count + 1`;
  * at `MAX_RETRIES`, the DLQ and FAILED;
  * otherwise the retry queue, back on the main queue after its TTL.
* **`Tick`.** Time moves by one tick. The webhook goes down at most `MaxOutages` times
  (`WebhookDown`, `WebhookUp`).
* **Time is relative to the present.** The breaker's expiry, retry delays and the call's
  client timeout count down to a floor, so there is no absolute clock.
* **Order inside a tick.** Several steps share a tick. The variables `curAfter`,
  `readyAfter` and `justReady` record what is known of the order of a step and the due
  expiry. An unknown order is a nondeterministic `late`. Without this, discretisation
  would produce orders the real times cannot.
* **The store and queue calls** around the webhook cannot fail here; their failures are in
  `MessagePipeline`.
* **The rate limiter** (50/s, burst 100) is not modelled. With a single consumer calling
  at most once per call duration, it never waits.

Bounds (`MCWebhookRetry.cfg`):

| Constant | Model value | Real value |
|---|---|---|
| Tick | 1 | 5 s |
| `RetryTTL` | 2 | 10 s |
| `WebhookTimeout` | 6 | 30 s |
| `Interval` | 2 | 10 s |
| `OpenTimeout` | 6 | 30 s |
| `MaxRequests` | 3 | 3 |
| `MAX_RETRIES` | 5 | 5 (the default) |

There are four messages, under symmetry. A message is refused only if three other
requests fill a window, so with three messages no violation is possible.

| Run | Expect | Checks | What it shows |
|---|---|---|---|
| `webhook_retry` (`MCWebhookRetry.cfg`) | pass | `TypeOK`, `FailedOnlyIfTriedWhileDown` | With one outage (about 1.5M states, under 3 minutes), no message is FAILED by refusals alone. Five attempts 10 s apart span 40 s, longer than the 30 s open period. |
| `retries_burned_two_outages` | violation | `FailedOnlyIfTriedWhileDown` | With a second brief outage, the half-open probe fails and re-opens the breaker. A message tried only while the webhook is up is then refused five times and FAILED. |

Setting `MaxRetries = 3` in `MCWebhookRetry.cfg` (spec scenario 3, `processor_test.go`)
gives the same violation with one outage.

A call slower than the 10 s window has its outcome dropped by `afterRequest`.

* **The history variable `seen`.** It holds the answers observed in the breaker's current
  closed window, dropped ones included. It is reset whenever the breaker leaves closed or
  the window rolls.
* **`BreakerCountsObservations`** is an action property. It says that a failed answer that
  makes `seen` meet the trip rule (at least 3 requests, at least 60 % failures) leaves the
  breaker open. It is stated only for failed answers, because gobreaker evaluates
  `ReadyToTrip` only in `onFailure`.

| Run | Expect | Checks | What it shows |
|---|---|---|---|
| `breaker_slow_failures` (`MCBreakerSlowFailures.cfg`) | violation | `BreakerCountsObservations` | Failed calls whose 30 s timeout ends after their 10 s window rolled are dropped. The window that observes them never counts them, and the breaker stays closed. This is finding 8. |

The cfg has no symmetry, because it checks an action property.

## 4. Runs

All runs in this section use `MC_MessagePipeline`.

* **Message ids** are model values. `NoId` is the id of a poison body.
* **MaxRetries.** `MAX_RETRIES` is 2 in `safety` and `poison`, so a message can go
  through the retry queue and then be exhausted. It is 1 in `liveness` and `nack_stall`,
  where the retry queue never fires: `liveness` with 2 takes over 8 minutes. So the retry
  loop's termination is checked by `poison`, with one message.
* **BatchSize** is 2.
* **Crashes.** `MaxCrashes` is 1 in `poison` and 0 elsewhere. `poison` has one message, so it stays fast. One crash multiplies the two-message state space about sevenfold (5.9M states): `safety` would take over 5 minutes and `liveness` longer. So the safety invariants are checked under crashes in `poison`, with one message. `AtMostOneSent` and `RetryCountBounded` are statements about one id's duplicate deliveries, so one message is enough for them.
* **Faults.** One failed call is enough to reach every handler's error branch and to
  create a duplicate delivery. `safety` with `MaxFaults = 2` also passes (4.27M states,
  about 3 minutes on four cores), but it is kept at 1 to stay inside the time limit.
* **Symmetry** over message ids is used only in the safety run.
* **Deadlock checking is off** (`CHECK_DEADLOCK FALSE`). Once all messages are terminal
  and the queues are drained, the real loops block on their tickers and on the delivery
  channel.

| Run | Expect | Checks | What it shows |
|---|---|---|---|
| `safety` (`MCSafety.cfg`) | pass | `TypeOK`, `RetryCountBounded`, `AtMostOneSent` | Every call may fail. Even with duplicate deliveries, `retry_count` never passes `MAX_RETRIES`. No id is set `sent` twice, because `MarkAsProcessed` comes before `UpdateStatus(sent)`. |
| `liveness` (`MCLiveness.cfg`) | pass | `EventuallyTerminal` | No fault closes the channel: every call may fail except `IsProcessed` and the first `GetByID`. Under that condition every submitted message reaches a terminal status. The record may first go back from `sent` to `processing`, with the sweeper as the backstop. |
| `poison` (`MCPoison.cfg`) | pass | `RetryCountBounded`, `AtMostOneSent`, `EventuallyTerminal` | Undecodable bodies and bodies with a bad id go to the DLQ. The consumer still terminates the real message (spec scenario 6), through the retry queue when the webhook fails. One crash of either process is allowed, so the sweeper must finish a record whose acked delivery was lost. Through the restart `retry_count` stays bounded and no id is set `sent` twice; a processor crash only loses a delivery, which only `EventuallyTerminal` can see. |
| `terminal_final` | violation | `TerminalStatusFinal` | The producer publishes, the consumer sends the message and sets it `sent`, and then the producer's `UpdateStatus(processing)` lands. Needs no fault. |
| `sent_dead_lettered` | violation | `SentNeverDeadLettered` | The record goes stale while the consumer delivers it. The sweeper dead-letters it and sets it `failed`. The consumer then sets it `sent`. |
| `nack_stall` | violation | `EventuallyTerminal` | One failed `IsProcessed` closes the channel. The sweeper fails forever and the record stays `processing`. |

### Fairness

* Weak fairness is assumed for:
  * the producer loop (its ticker fires while the scheduler runs);
  * the consumer loop (it blocks only on the delivery channel);
  * the sweeper (its one-minute ticker);
  * the broker's TTL expiry;
  * the clock, `Age`.
* Users and foreign publishers get no fairness. `EventuallyTerminal` is stated only for
  messages that were created.
* The fault budget is finite, so fairness never relies on a call failing forever.

## 5. Findings

The details are in `PROJECT.json` under "findings".

1. **Status set after the publish.** The producer sets `processing` after the publish, not
   before it as spec §9 says. A message that was already `sent` is reopened, and the
   sweeper later marks it `failed`.
2. **The policy gate ignores the status.** Together with the sweeper's snapshot, this lets
   a message end `sent` while a copy of it sits in the DLQ. It also lets a `failed` record
   become `sent`.
3. **Double dead-lettering.** The consumer's stale branch and the sweeper can both
   dead-letter the same message. Spec §8 says this must not happen, while spec §9 says it
   is acceptable. No run checks it any more (see the hazard at `processor_service.go:171`).
4. **Nack after ack.** Nacking an already acked delivery closes the processor's shared
   channel. From then on the processor makes no progress.
5. **Double start.** `Start` tests and sets `isRunning` without a lock. Two concurrent
   start requests start two producer loops, against spec §4.1's idempotent start.
6. **Stop hangs.** Two concurrent stops both pass the test; the second blocks forever on
   the unbuffered `done` channel.

7. **Refusals burn retries.** A breaker refusal is counted as a retry
   (`processor_service.go` 193). A message can therefore be FAILED without ever being
   tried while the webhook was down:
   * with the defaults, by two outages;
   * with `MAX_RETRIES` 3, by one.

   Spec §4.5 and §7 call a refusal transient.
8. **Slow failures are not counted.** `afterRequest` drops the outcome of a call that
   outlives its 10 s window. A window in which three answers are observed, two of them
   failures, can therefore leave the breaker closed against spec §8's rule. This happens
   when one slow (30 s timeout) failure ends in a window with quick ones. A webhook whose
   every call hangs would stay closed under spec §8's rule too, because a 10 s window then
   observes at most one answer. The divergence is the mixed case.

**An observation without a run.** `SendMessage` returns `id.Hex()`, but `PrepareMessage`
sets no id and `InsertOne` does not write the generated `_id` back into the struct. The
returned `messageId` is therefore the zero ObjectID. `sender_service_test.go` 81-108 hides
this, because its mock sets `msg.ID`. The model's messages are identities, so no property
can see it.

## 6. Not modelled (yet)

* **The rate limiter** (`TokenBucket`) of the webhook client and of the ingress
  middleware. With one consumer it never waits. The ingress limiter only turns requests
  into 429s before any state changes.
* **The rest of a graceful shutdown.** The processor's `Stop` is modelled (`ProcessorStop`).
  Closing the clients afterwards only ends the processes.
* **The sender's scheduler after a restart.** `main` does not start it again; the pipeline
  model assumes an operator does.
* **Configuration.** `LoadConfig` reads the integers with `strconv.Atoi`, which accepts 0
  and negative values. Spec §9 says misconfigured integers fall back to the default, but
  these are kept.
  * `WEBHOOK_TIMEOUT_SECONDS=0` or a negative value gives an `http.Client` with no
    timeout.
  * A value above 9223372036 overflows the int64 nanoseconds of the `Duration`.
  * TLC's integers are 32-bit, and the model assumes every webhook call returns. This is
    therefore listed as a hazard without a property.

  Not every option takes effect:
  * `MESSAGE_BATCH_SIZE` and `POLL_INTERVAL_SECONDS` have no effect, because the sender's
    `main` passes 2 and 2 minutes;
  * `RETRY_INTERVAL_SECONDS` has no effect, because the retry queue's TTL is fixed at
    10000 ms.

  The runs use the values the code actually applies.
* **The 24 h TTL of the Redis keys.** It is far beyond the model's time scale.
* **`GetByID` returning no record.** It would make the policy gate dereference nil, but
  no code deletes records.
* **Health probes.** They are read-only: `ListMessages`, `GetDLQMessageCount`, and on the
  processor `IsProcessed("health-check")`; the sender also GETs the processor's `/status`.
  * The processor's probe goes through the Redis breaker it shares with the consumer. So
    probe failures during a Redis blip can open that breaker. The consumer's next
    `IsProcessed` then fails and closes the channel (finding 4).
  * The model lets `IsProcessed` fail at any step, which covers this refusal. It is listed
    as a hazard.
  * `GetDLQMessageCount` inspects the queue on the consumer's channel, so after finding 4
    the probe does report `rabbitmq: false`.
* **Swagger and the HTTP binding.** These are plumbing.
* **Test doubles under `mocks/`.**
* **The repository's own breaker** (`message_repository_adapter.go` 23-42). It makes the
  failures of one service's database calls correlated. Once at least 3 calls in a 10 s window
  fail at a rate of 60 % or more, all of them fail for 30 s. The model lets any fallible call fail at any step, up to `MaxFaults`
  failures. So a refusal's effect on one call is covered, but a long correlated burst is not.
* **A create that commits after its 5 s context expired.** The client gets 500 and may post
  again, which creates a second record. In the model a re-post is simply a new message.
