\* Safety of the pipeline with every call fallible, two messages; crashes
\* are checked with one message in MCPoison.cfg.
CONSTANTS
    Msgs = {m1, m2}
    NoId = NoId
    MaxRetries = 2
    BatchSize = 2
    MaxFaults = 1
    Fallible <- MCAllCalls
    PoisonKinds = {}
    MaxCrashes = 0
SPECIFICATION Spec
SYMMETRY MCSymmetry
INVARIANT TypeOK
INVARIANT RetryCountBounded
INVARIANT AtMostOneSent
\* Once every message is terminal and the queues are drained the loops
\* block on their timers and the delivery channel.
CHECK_DEADLOCK FALSE
