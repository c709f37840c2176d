\* A terminal record changes status other than to duplicate, with no failure at all.
CONSTANTS
    Msgs = {m1}
    NoId = NoId
    MaxRetries = 1
    BatchSize = 2
    MaxFaults = 1
    Fallible <- MCNoCalls
    PoisonKinds = {}
    MaxCrashes = 0
SPECIFICATION Spec
PROPERTY TerminalStatusFinal
CHECK_DEADLOCK FALSE
