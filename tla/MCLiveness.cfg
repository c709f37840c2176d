\* Every submitted message reaches a terminal status when no failure
\* closes the processor's channel.
CONSTANTS
    Msgs = {m1, m2}
    NoId = NoId
    MaxRetries = 1
    BatchSize = 2
    MaxFaults = 1
    Fallible <- MCChannelSafeCalls
    PoisonKinds = {}
    MaxCrashes = 0
SPECIFICATION FairSpec
PROPERTY EventuallyTerminal
\* Once every message is terminal and the queues are drained the loops
\* block on their timers and the delivery channel.
CHECK_DEADLOCK FALSE
