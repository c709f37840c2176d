\* Two overlapping Stop calls both send on the unbuffered done channel.
CONSTANTS
    Requests = {r1, r2, r3}
    Concurrent = TRUE
SPECIFICATION Spec
PROPERTY StopReturns
CHECK_DEADLOCK FALSE
