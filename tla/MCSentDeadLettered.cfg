\* A sent record also sits in the DLQ, with no failure at all.
CONSTANTS
    Msgs = {m1}
    NoId = NoId
    MaxRetries = 1
    BatchSize = 2
    MaxFaults = 1
    Fallible <- MCNoCalls
    PoisonKinds = {}
    MaxCrashes = 0
SPECIFICATION Spec
INVARIANT SentNeverDeadLettered
CHECK_DEADLOCK FALSE
