\* Start/Stop calls that never overlap: the flag and the loop agree.
CONSTANTS
    Requests = {r1, r2, r3}
    Concurrent = FALSE
SPECIFICATION Spec
INVARIANT SingleLoop
INVARIANT RunningFlagMatchesLoop
PROPERTY StopReturns
PROPERTY SchedulerRefinement
\* The calls are bounded; afterwards the server waits for requests.
CHECK_DEADLOCK FALSE
