\* One failed Redis or MongoDB read closes the processor's channel and strands the message.
CONSTANTS
    Msgs = {m1}
    NoId = NoId
    MaxRetries = 1
    BatchSize = 2
    MaxFaults = 1
    Fallible <- MCAllCalls
    PoisonKinds = {}
    MaxCrashes = 0
SPECIFICATION FairSpec
PROPERTY EventuallyTerminal
CHECK_DEADLOCK FALSE
