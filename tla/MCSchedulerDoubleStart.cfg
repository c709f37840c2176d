\* Two overlapping Start calls both pass the isRunning test.
CONSTANTS
    Requests = {r1, r2, r3}
    Concurrent = TRUE
SPECIFICATION Spec
INVARIANT SingleLoop
CHECK_DEADLOCK FALSE
