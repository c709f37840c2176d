-------------------------- MODULE MessagePipeline --------------------------
(***************************************************************************)
(* The message lifecycle engine: the sender's scheduler (producer), the    *)
(* processor's consumer loop and its stale sweeper, cooperating through    *)
(* MongoDB (status, retry_count, updated_at), RabbitMQ (main, retry and    *)
(* dead-letter queues) and Redis (the inbox:<id> processed marker).        *)
(*                                                                         *)
(* Every call to a backing store is one atomic step; the three loops       *)
(* interleave between calls.  A call in Fallible may fail, at most         *)
(* MaxFaults times in a behaviour.  Wall-clock time is abstracted to a     *)
(* per-message "stale" flag: a write to the record refreshes updated_at    *)
(* (stale = FALSE) and Age(m) is the 4-minute threshold elapsing.          *)
(***************************************************************************)
EXTENDS Naturals, Sequences, FiniteSets

CONSTANTS
    Msgs,         \* ids of the messages users may submit (model values)
    NoId,         \* the id field of a payload that is not a message id
    MaxRetries,   \* MAX_RETRIES of config.go
    BatchSize,    \* the limit passed to FindUnsentMessages
    Fallible,     \* the store and broker calls that may return an error
    MaxFaults,    \* bound on the number of failed calls in a behaviour
    PoisonKinds,  \* payloads a foreign publisher may put on the main queue
    MaxCrashes    \* bound on the number of process crashes in a behaviour

ASSUME MaxRetries \in Nat \ {0} /\ BatchSize \in Nat \ {0} /\ MaxFaults \in Nat
ASSUME MaxCrashes \in Nat
ASSUME PoisonKinds \subseteq {"malformed", "badid"}

\* The calls that may fail, by name; "ReloadGetByID" is the second GetByID,
\* in reloadMessage, whose error handler does not Nack.
Calls == {"CreateMessage", "FindUnsentMessages", "PublishMessage",
          "UpdateStatus", "IsProcessed", "GetByID", "ReloadGetByID",
          "MarkAsProcessed",
          "IncrementRetryCount", "MoveToDeadLetter", "MoveToRetryQueue",
          "FindStaleProcessingMessages"}
ASSUME Fallible \subseteq Calls

VARIABLES
    status,     \* MongoDB: status of each record ("none" before it exists)
    rc,         \* MongoDB: retry_count
    stale,      \* MongoDB: updated_at older than the stale threshold
    inbox,      \* Redis: inbox:<id> says "processed"
    main,       \* RabbitMQ queue "messages"
    retry,      \* RabbitMQ queue "messages.retry" (TTL, dead-letters to main)
    dlq,        \* RabbitMQ queue "messages.dlq": number of payloads per id
    chanOpen,   \* the processor's AMQP channel is still open
    faults,     \* failed calls so far
    poisoned,   \* poison payloads already published
    crashes,    \* process crashes so far
    prPc, prList, prCur,        \* MessageScheduler.processUnsentMessages
    cPc, cCur,                  \* ProcessorService.Start / processMessage
    swPc, swList, swCur,        \* ProcessorService.checkStaleMessages
    sentCount   \* history: times each record was set to "sent"

store    == <<status, rc, stale, inbox>>
broker   == <<main, retry, dlq, chanOpen>>
producer == <<prPc, prList, prCur>>
consumer == <<cPc, cCur>>
sweeper  == <<swPc, swList, swCur>>
vars == <<store, broker, faults, poisoned, crashes, producer, consumer, sweeper,
          sentCount>>

-----------------------------------------------------------------------------
(* Types *)

Status   == {"unsent", "processing", "sent", "failed", "duplicate"}
Terminal == {"sent", "failed", "duplicate"}
Ids      == Msgs \cup {NoId}
\* A broker delivery: the id in its JSON body, and whether the body decodes
\* ("ok"), does not decode ("malformed") or carries a non-hex id ("badid").
Delivery == [id : Ids, kind : {"ok", "malformed", "badid"}]
NoDelivery == [id |-> NoId, kind |-> "malformed"]

ConsumerPcs == {"recv", "isProcessed", "markDuplicate", "dlqPoison",
                "getByID", "webhook", "markProcessed", "markSent",
                "incRetry", "setProcessing", "reload", "retry",
                "deadLetter", "markFailed"}

-----------------------------------------------------------------------------
(* Call outcomes *)

\* A call of kind c fails: it is fallible and the fault budget allows it.
Fail(c) == /\ c \in Fallible
           /\ faults < MaxFaults
           /\ faults' = faults + 1

Succeed == UNCHANGED faults

\* A processor publish fails when the call errors or the channel is closed.
PublishFails(c) == Fail(c) \/ (~chanOpen /\ Succeed)

\* MessageRepository.UpdateStatus: sets status and refreshes updated_at.
SetStatus(m, s) == /\ status' = [status EXCEPT ![m] = s]
                   /\ stale' = [stale EXCEPT ![m] = FALSE]

\* Mutant: the $inc with the wrong sign.
IncRetryDecrement(m) == /\ rc' = [rc EXCEPT ![m] = @ - 1]
                        /\ stale' = [stale EXCEPT ![m] = FALSE]

\* MessageRepository.IncrementRetryCount: $inc retry_count, set updated_at.
IncRetry(m) == /\ rc' = [rc EXCEPT ![m] = @ + 1]
               /\ stale' = [stale EXCEPT ![m] = FALSE]

\* MessageRepository.GetByID: FindOne by _id, the fields the consumer reads.
\* Its nil-record answer (ErrNoDocuments) never occurs: no code deletes.
GetByID(m) == [retryCount |-> rc[m], stale |-> stale[m]]

\* MessageRepository.FindUnsentMessages: up to limit records in "unsent".
FindUnsentMessages(limit) ==
    LET unsent == {m \in Msgs : status[m] = "unsent"}
        n == IF Cardinality(unsent) < limit THEN Cardinality(unsent) ELSE limit
    IN {batch \in SUBSET unsent : Cardinality(batch) = n}

\* Mutant: the sweeper's query filters on the wrong status.
StaleQueryWrongStatus == {m \in Msgs : status[m] = "unsent" /\ stale[m]}

\* MessageRepository.FindStaleProcessingMessages: "processing" records
\* whose updated_at is before now - staleDuration.
FindStaleProcessingMessages ==
    {m \in Msgs : status[m] = "processing" /\ stale[m]}

\* IdempotencyService.IsProcessed: inbox:<id> holds status "processed".
IsProcessed(id) == id \in Msgs /\ inbox[id]

\* Mutant: the marker is written under a key IsProcessed never reads.
MarkInboxWrongKey(id) == UNCHANGED inbox

\* IdempotencyService.MarkAsProcessed: SET inbox:<id> (24 h TTL).
MarkInbox(id) == inbox' = [inbox EXCEPT ![id] = TRUE]

\* MessageQueue.PublishMessage: persistent publish of a QueueMessage to
\* "messages.exchange" with routing key "messages".
PublishMain(m) == main' = Append(main, [id |-> m, kind |-> "ok"])

\* MessageQueue.MoveToRetryQueue: the delivery body to "messages.retry".
PublishRetry(d) == retry' = Append(retry, d)

\* MessageQueue.MoveToDeadLetter: publishes the delivery body to the DLQ.
DeadLetter(id) == dlq' = [dlq EXCEPT ![id] = @ + 1]

\* Mutant: the exhaustion test is off by one.
ShouldProcessMessageOffByOne(retryCount, isStale) ==
    IF retryCount > MaxRetries THEN "EXHAUSTED"
    ELSE IF isStale THEN "STALE"
    ELSE "PROCESS"

\* domain.MessageProcessor.ShouldProcessMessage
ShouldProcessMessage(retryCount, isStale) ==
    IF retryCount >= MaxRetries THEN "EXHAUSTED"
    ELSE IF isStale THEN "STALE"
    ELSE "PROCESS"

-----------------------------------------------------------------------------
Init ==
    /\ status = [m \in Msgs |-> "none"]
    /\ rc = [m \in Msgs |-> 0]
    /\ stale = [m \in Msgs |-> FALSE]
    /\ inbox = [m \in Msgs |-> FALSE]
    /\ main = <<>>
    /\ retry = <<>>
    /\ dlq = [i \in Ids |-> 0]
    /\ chanOpen = TRUE
    /\ faults = 0
    /\ poisoned = {}
    /\ crashes = 0
    /\ prPc = "idle" /\ prList = {} /\ prCur = NoId
    /\ cPc = "recv" /\ cCur = NoDelivery
    /\ swPc = "idle" /\ swList = {} /\ swCur = NoId
    /\ sentCount = [m \in Msgs |-> 0]

-----------------------------------------------------------------------------
(* Ingress: SenderService.CreateMessage (POST /messages). *)

\* MessageSender.PrepareMessage: the new record's fields.
PrepareMessage == [status |-> "unsent", retryCount |-> 0]

\* repository.CreateMessage: InsertOne of the prepared record (no breaker).
InsertMessage(m) ==
    /\ status' = [status EXCEPT ![m] = PrepareMessage.status]
    /\ rc' = [rc EXCEPT ![m] = PrepareMessage.retryCount]
    /\ stale' = [stale EXCEPT ![m] = FALSE]

\* SenderService.CreateMessage: on an insert error no record exists.
CreateMessage(m) ==
    \/ Succeed /\ InsertMessage(m)
    \/ Fail("CreateMessage") /\ UNCHANGED <<status, rc, stale>>

\* MessageHandler.SendMessage: a bound request body is created under a 5 s
\* context; 200 or 500 to the client, who may post again after a 500.
SendMessage(m) ==
    /\ status[m] = "none"
    /\ CreateMessage(m)
    /\ UNCHANGED <<inbox, broker, poisoned, crashes, producer, consumer, sweeper,
                   sentCount>>

-----------------------------------------------------------------------------
(* Producer: MessageScheduler.processUnsentMessages on each ticker tick.   *)
(* Each found message is published and only then marked "processing".     *)

ProcessUnsentMessages ==
    /\ prPc = "idle"
    /\ \E m \in Msgs : status[m] = "unsent"
    /\ \/ /\ Succeed
          /\ \E batch \in FindUnsentMessages(BatchSize) : prList' = batch
          /\ prPc' = "publish"
       \/ /\ Fail("FindUnsentMessages")
          /\ UNCHANGED <<prPc, prList>>
    /\ UNCHANGED <<store, broker, poisoned, crashes, prCur, consumer, sweeper, sentCount>>

\* The loop goes on with the rest of the batch, or waits for the next tick.
NextInBatch(rest) == /\ prList' = rest
                     /\ prPc' = IF rest = {} THEN "idle" ELSE "publish"

\* handleMessage, first half: PublishMessage to the main exchange.
HandleMessagePublish(m) ==
    /\ prPc = "publish"
    /\ m \in prList
    /\ \/ /\ Succeed
          /\ PublishMain(m)
          /\ prPc' = "update" /\ prCur' = m /\ prList' = prList \ {m}
       \/ /\ Fail("PublishMessage")
          /\ NextInBatch(prList \ {m})
          /\ UNCHANGED <<main, prCur>>
    /\ UNCHANGED <<store, retry, dlq, chanOpen, poisoned, crashes, consumer, sweeper, sentCount>>

\* handleMessage, second half: UpdateStatus(processing) after the publish.
HandleMessageUpdate ==
    /\ prPc = "update"
    /\ \/ /\ Succeed
          /\ SetStatus(prCur, "processing")
       \/ /\ Fail("UpdateStatus")
          /\ UNCHANGED <<status, stale>>
    /\ NextInBatch(prList)
    /\ UNCHANGED <<rc, inbox, broker, poisoned, crashes, prCur, consumer, sweeper, sentCount>>

Producer == ProcessUnsentMessages \/ HandleMessageUpdate
            \/ \E m \in Msgs : HandleMessagePublish(m)

-----------------------------------------------------------------------------
(* Consumer: ProcessorService.Start takes one delivery at a time from      *)
(* "messages" and runs processMessage on it; cPc is the call it is at.     *)

\* The handler returns; the loop waits for the next delivery.
Done == /\ cPc' = "recv" /\ cCur' = NoDelivery

\* A delivery acked by processMessage is Nack'ed (IsProcessed or GetByID
\* failed): the broker rejects the unknown delivery tag and closes the
\* channel, which the consumer and the sweeper publish through.
NackAcked == /\ chanOpen' = FALSE
             /\ Done

\* processMessage: ack the delivery first, then json.Unmarshal its body.
ProcessMessage ==
    /\ cPc = "recv"
    /\ chanOpen
    /\ main # <<>>
    /\ cCur' = Head(main)
    /\ main' = Tail(main)
    /\ cPc' = IF Head(main).kind = "malformed" THEN "dlqPoison" ELSE "isProcessed"
    /\ UNCHANGED <<store, retry, dlq, chanOpen, faults, poisoned, crashes, producer,
                   sweeper, sentCount>>

\* idempotencyService.IsProcessed, then primitive.ObjectIDFromHex.
CheckIsProcessed ==
    /\ cPc = "isProcessed"
    /\ \/ /\ Fail("IsProcessed")
          /\ NackAcked
       \/ /\ Succeed
          /\ UNCHANGED chanOpen
          /\ cPc' = CASE IsProcessed(cCur.id) -> "markDuplicate"
                      [] cCur.kind = "badid"   -> "dlqPoison"
                      [] OTHER                 -> "getByID"
          /\ UNCHANGED cCur
    /\ UNCHANGED <<store, main, retry, dlq, poisoned, crashes, producer, sweeper, sentCount>>

\* handleDuplicateMessage: UpdateStatus(duplicate), whatever the status is.
HandleDuplicateMessage ==
    /\ cPc = "markDuplicate"
    /\ \/ /\ Succeed
          /\ SetStatus(cCur.id, "duplicate")
       \/ /\ Fail("UpdateStatus")
          /\ UNCHANGED <<status, stale>>
    /\ Done
    /\ UNCHANGED <<rc, inbox, broker, poisoned, crashes, producer, sweeper, sentCount>>

\* Mutant: the poison handlers Nack the acked delivery like the others.
HandlePoisonMessageNack ==
    /\ cPc = "dlqPoison"
    /\ Succeed
    /\ NackAcked
    /\ UNCHANGED <<store, main, retry, dlq, poisoned, crashes, producer, sweeper, sentCount>>

\* handleMalformedMessage / handleInvalidID: the raw body to the DLQ.
HandlePoisonMessage ==
    /\ cPc = "dlqPoison"
    /\ \/ /\ chanOpen /\ Succeed
          /\ DeadLetter(cCur.id)
       \/ /\ PublishFails("MoveToDeadLetter")
          /\ UNCHANGED dlq
    /\ Done
    /\ UNCHANGED <<store, main, retry, chanOpen, poisoned, crashes, producer, sweeper, sentCount>>

\* repository.GetByID, then the policy gate ShouldProcessMessage.
GetMessage ==
    /\ cPc = "getByID"
    /\ \/ /\ Fail("GetByID")
          /\ NackAcked
       \/ /\ Succeed
          /\ UNCHANGED <<chanOpen, cCur>>
          /\ LET msg == GetByID(cCur.id) IN
             cPc' = IF ShouldProcessMessage(msg.retryCount, msg.stale) = "PROCESS"
                    THEN "webhook" ELSE "deadLetter"
    /\ UNCHANGED <<store, main, retry, dlq, poisoned, crashes, producer, sweeper, sentCount>>

\* webhookClient.SendMessage (rate limiter and breaker included): the
\* webhook accepts or any error comes back.  StoreWebhookMessageID only
\* logs its failure and no property reads the stored id.
SendWebhook ==
    /\ cPc = "webhook"
    /\ \E accepted \in BOOLEAN :
          cPc' = IF accepted THEN "markProcessed" ELSE "incRetry"
    /\ UNCHANGED <<store, broker, faults, poisoned, crashes, producer, cCur, sweeper, sentCount>>

\* handleSuccessfulProcessing: MarkAsProcessed in Redis ...
MarkAsProcessed ==
    /\ cPc = "markProcessed"
    /\ \/ /\ Succeed
          /\ MarkInbox(cCur.id)
          /\ cPc' = "markSent" /\ UNCHANGED cCur
       \/ /\ Fail("MarkAsProcessed")
          /\ UNCHANGED inbox
          /\ Done
    /\ UNCHANGED <<status, rc, stale, broker, poisoned, crashes, producer, sweeper, sentCount>>

\* ... then UpdateStatus(sent) in MongoDB.
MarkSent ==
    /\ cPc = "markSent"
    /\ \/ /\ Succeed
          /\ SetStatus(cCur.id, "sent")
          /\ sentCount' = [sentCount EXCEPT ![cCur.id] = @ + 1]
       \/ /\ Fail("UpdateStatus")
          /\ UNCHANGED <<status, stale, sentCount>>
    /\ Done
    /\ UNCHANGED <<rc, inbox, broker, poisoned, crashes, producer, sweeper>>

\* handleWebhookError: IncrementRetryCount ($inc and a fresh updated_at) ...
IncrementRetryCount ==
    /\ cPc = "incRetry"
    /\ \/ /\ Succeed
          /\ IncRetry(cCur.id)
          /\ cPc' = "setProcessing" /\ UNCHANGED cCur
       \/ /\ Fail("IncrementRetryCount")
          /\ UNCHANGED <<rc, stale>>
          /\ Done
    /\ UNCHANGED <<status, inbox, broker, poisoned, crashes, producer, sweeper, sentCount>>

\* ... UpdateStatus(processing) ...
SetProcessing ==
    /\ cPc = "setProcessing"
    /\ \/ /\ Succeed
          /\ SetStatus(cCur.id, "processing")
          /\ cPc' = "reload" /\ UNCHANGED cCur
       \/ /\ Fail("UpdateStatus")
          /\ UNCHANGED <<status, stale>>
          /\ Done
    /\ UNCHANGED <<rc, inbox, broker, poisoned, crashes, producer, sweeper, sentCount>>

\* ... GetByID again, and dead-letter once retry_count reached MaxRetries.
ReloadMessage ==
    /\ cPc = "reload"
    /\ \/ /\ Succeed
          /\ cPc' = IF GetByID(cCur.id).retryCount >= MaxRetries
                    THEN "deadLetter" ELSE "retry"
          /\ UNCHANGED cCur
       \/ /\ Fail("ReloadGetByID")
          /\ Done
    /\ UNCHANGED <<store, broker, poisoned, crashes, producer, sweeper, sentCount>>

\* MoveToRetryQueue: the same body, back on "messages" after the TTL.
MoveToRetryQueue ==
    /\ cPc = "retry"
    /\ \/ /\ chanOpen /\ Succeed
          /\ PublishRetry(cCur)
       \/ /\ PublishFails("MoveToRetryQueue")
          /\ UNCHANGED retry
    /\ Done
    /\ UNCHANGED <<store, main, dlq, chanOpen, poisoned, crashes, producer, sweeper, sentCount>>

\* handleMaxRetriesReached / handleStaleMessage and the exhausted branch of
\* handleWebhookError: MoveToDeadLetter, its error only logged ...
MoveToDeadLetter ==
    /\ cPc = "deadLetter"
    /\ \/ /\ chanOpen /\ Succeed
          /\ DeadLetter(cCur.id)
       \/ /\ PublishFails("MoveToDeadLetter")
          /\ UNCHANGED dlq
    /\ cPc' = "markFailed" /\ UNCHANGED cCur
    /\ UNCHANGED <<store, main, retry, chanOpen, poisoned, crashes, producer, sweeper, sentCount>>

\* ... then UpdateStatus(failed), its error only logged.
MarkFailed ==
    /\ cPc = "markFailed"
    /\ \/ /\ Succeed
          /\ SetStatus(cCur.id, "failed")
       \/ /\ Fail("UpdateStatus")
          /\ UNCHANGED <<status, stale>>
    /\ Done
    /\ UNCHANGED <<rc, inbox, broker, poisoned, crashes, producer, sweeper, sentCount>>

Consumer ==
    \/ ProcessMessage \/ CheckIsProcessed \/ HandleDuplicateMessage
    \/ HandlePoisonMessage \/ GetMessage \/ SendWebhook \/ MarkAsProcessed
    \/ MarkSent \/ IncrementRetryCount \/ SetProcessing \/ ReloadMessage
    \/ MoveToRetryQueue \/ MoveToDeadLetter \/ MarkFailed

-----------------------------------------------------------------------------
(* Sweeper: ProcessorService.monitorStaleMessages, every minute,           *)
(* concurrently with the consumer loop.                                    *)

\* checkStaleMessages: FindStaleProcessingMessages takes a snapshot.
CheckStaleMessages ==
    /\ swPc = "idle"
    /\ FindStaleProcessingMessages # {}
    /\ \/ /\ Succeed
          /\ swList' = FindStaleProcessingMessages /\ swPc' = "recover"
       \/ /\ Fail("FindStaleProcessingMessages")
          /\ UNCHANGED <<swList, swPc>>
    /\ UNCHANGED <<store, broker, poisoned, crashes, producer, consumer, swCur, sentCount>>

\* The sweep goes on with the rest of the snapshot, or ends.
NextStale(rest) == /\ swList' = rest
                   /\ swPc' = IF rest = {} THEN "idle" ELSE "recover"

\* handleStaleMessageRecovery: MoveToDeadLetter; on error skip the record.
RecoverDeadLetter(m) ==
    /\ swPc = "recover"
    /\ m \in swList
    /\ \/ /\ chanOpen /\ Succeed
          /\ DeadLetter(m)
          /\ swPc' = "markFailed" /\ swCur' = m /\ swList' = swList \ {m}
       \/ /\ PublishFails("MoveToDeadLetter")
          /\ UNCHANGED <<dlq, swCur>>
          /\ NextStale(swList \ {m})
    /\ UNCHANGED <<store, main, retry, chanOpen, poisoned, crashes, producer, consumer, sentCount>>

\* handleStaleMessageRecovery: then UpdateStatus(failed).
RecoverMarkFailed ==
    /\ swPc = "markFailed"
    /\ \/ /\ Succeed
          /\ SetStatus(swCur, "failed")
       \/ /\ Fail("UpdateStatus")
          /\ UNCHANGED <<status, stale>>
    /\ NextStale(swList)
    /\ UNCHANGED <<rc, inbox, broker, poisoned, crashes, producer, consumer, swCur, sentCount>>

Sweeper == CheckStaleMessages \/ RecoverMarkFailed
           \/ \E m \in Msgs : RecoverDeadLetter(m)

-----------------------------------------------------------------------------
(* Broker and environment *)

\* "messages.retry" has x-message-ttl 10000 and dead-letters to "messages".
RetryTTLExpired ==
    /\ retry # <<>>
    /\ main' = Append(main, Head(retry))
    /\ retry' = Tail(retry)
    /\ UNCHANGED <<store, dlq, chanOpen, faults, poisoned, crashes, producer, consumer,
                   sweeper, sentCount>>

\* The stale threshold elapses since the record's updated_at.
Age(m) ==
    /\ status[m] # "none"
    /\ ~stale[m]
    /\ stale' = [stale EXCEPT ![m] = TRUE]
    /\ UNCHANGED <<status, rc, inbox, broker, faults, poisoned, crashes, producer,
                   consumer, sweeper, sentCount>>

\* Another client publishes a body that is not a valid QueueMessage.
PublishPoison(k) ==
    /\ k \in PoisonKinds \ poisoned
    /\ main' = Append(main, [id |-> NoId, kind |-> k])
    /\ poisoned' = poisoned \cup {k}
    /\ UNCHANGED <<store, retry, dlq, chanOpen, faults, crashes, producer, consumer,
                   sweeper, sentCount>>

Environment == \/ RetryTTLExpired
               \/ \E m \in Msgs : SendMessage(m) \/ Age(m)
               \/ \E k \in PoisonKinds : PublishPoison(k)

-----------------------------------------------------------------------------
(* Process crashes.  A service process dies between any two of its calls   *)
(* and main starts it again: what it held in memory is lost, while         *)
(* MongoDB, Redis and the durable queues keep their contents.  A delivery  *)
(* the consumer took is already acked, so the broker does not redeliver it.*)

\* ProcessorService.Stop (SIGTERM) or the process dying: close(done) and
\* queue.Close do not wait for processMessage, and main returns, so the
\* delivery in hand and the sweep in progress are abandoned mid-step.
ProcessorStop ==
    /\ cPc' = "recv" /\ cCur' = NoDelivery
    /\ swPc' = "idle" /\ swList' = {} /\ swCur' = NoId

\* The processor stops and main runs again: it dials RabbitMQ (a new, open
\* channel) and Start runs a fresh consume loop and sweeper.
ProcessorRestart ==
    /\ crashes < MaxCrashes
    /\ cPc # "recv" \/ swPc # "idle" \/ ~chanOpen
    /\ crashes' = crashes + 1
    /\ ProcessorStop
    /\ chanOpen' = TRUE
    /\ UNCHANGED <<store, main, retry, dlq, faults, poisoned, producer, sentCount>>

\* The sender dies in the middle of a batch and restarts.  main does not
\* start the scheduler; the model assumes POST /scheduler/start is called
\* again (SchedulerControl models start and stop), so the next tick starts
\* from FindUnsentMessages.
SenderRestart ==
    /\ crashes < MaxCrashes
    /\ prPc # "idle"
    /\ crashes' = crashes + 1
    /\ prPc' = "idle" /\ prList' = {} /\ prCur' = NoId
    /\ UNCHANGED <<store, broker, faults, poisoned, consumer, sweeper, sentCount>>

Crash == ProcessorRestart \/ SenderRestart

Next == Producer \/ Consumer \/ Sweeper \/ Environment \/ Crash

\* The three loops, the broker's TTL and the clock never stop for good;
\* users (SendMessage) and foreign publishers need not act.
Fairness ==
    /\ WF_vars(Producer)
    /\ WF_vars(Consumer)
    /\ WF_vars(Sweeper)
    /\ WF_vars(RetryTTLExpired)
    /\ \A m \in Msgs : WF_vars(Age(m))

Spec == Init /\ [][Next]_vars
FairSpec == Spec /\ Fairness

-----------------------------------------------------------------------------
(* Properties *)

TypeOK ==
    /\ status \in [Msgs -> Status \cup {"none"}]
    /\ rc \in [Msgs -> Nat]
    /\ stale \in [Msgs -> BOOLEAN] /\ inbox \in [Msgs -> BOOLEAN]
    /\ main \in Seq(Delivery) /\ retry \in Seq(Delivery)
    /\ dlq \in [Ids -> Nat]
    /\ chanOpen \in BOOLEAN
    /\ faults \in 0..MaxFaults /\ crashes \in 0..MaxCrashes
    /\ prPc \in {"idle", "publish", "update"} /\ prList \subseteq Msgs
    /\ cPc \in ConsumerPcs /\ cCur \in Delivery
    /\ swPc \in {"idle", "recover", "markFailed"} /\ swList \subseteq Msgs
    /\ sentCount \in [Msgs -> Nat]

\* Spec 3: retry_count never exceeds MAX_RETRIES.  IncrementRetryCount is
\* reached only past the policy gate of GetMessage, and ReloadMessage
\* dead-letters at the bound, across any number of duplicate deliveries.
RetryCountBounded == \A m \in Msgs : rc[m] <= MaxRetries

\* Spec 5: at most one delivery of an id sets it "sent"; later deliveries
\* find inbox:<id> and become "duplicate".  Rests on MarkAsProcessed
\* (Redis) preceding UpdateStatus(sent) in handleSuccessfulProcessing.
AtMostOneSent == \A m \in Msgs : sentCount[m] <= 1

\* Spec 8: every submitted message eventually reaches a terminal status,
\* with the sweeper as the backstop for records left in "processing".
EventuallyTerminal ==
    \A m \in Msgs : status[m] # "none" ~> status[m] \in Terminal

\* Spec 3: a record in a terminal status is never mutated again, except
\* that a redelivery of a processed id marks it "duplicate" (spec 8,
\* scenario 4).  Written by three loops: the producer's late
\* UpdateStatus(processing), the sweeper and the consumer.
TerminalStatusFinal ==
    [][\A m \in Msgs :
         status[m] \in Terminal /\ status'[m] # status[m]
             => status'[m] = "duplicate"]_vars

\* Spec scenario 1 and the DLQ topology: a message that reached the
\* webhook and is "sent" has no copy in "messages.dlq"; the DLQ holds what
\* the pipeline gave up on.
SentNeverDeadLettered ==
    \A m \in Msgs : status[m] = "sent" => dlq[m] = 0

=============================================================================
