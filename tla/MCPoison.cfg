\* Undecodable bodies and bodies with a non-hex id on "messages" go to the
\* DLQ without stopping the consumer: the message still terminates.  Either
\* process may crash once; a failed webhook call goes through the retry
\* queue (MaxRetries 2), and the safety invariants survive the restart.
CONSTANTS
    Msgs = {m1}
    NoId = NoId
    MaxRetries = 2
    BatchSize = 2
    MaxFaults = 1
    Fallible <- MCChannelSafeCalls
    PoisonKinds = {"malformed", "badid"}
    MaxCrashes = 1
SPECIFICATION FairSpec
INVARIANT RetryCountBounded
INVARIANT AtMostOneSent
PROPERTY EventuallyTerminal
\* Once every message is terminal and the queues are drained the loops
\* block on their timers and the delivery channel.
CHECK_DEADLOCK FALSE
