\* One webhook outage; defaults MAX_RETRIES 5, retry TTL 10 s, webhook
\* timeout 30 s, breaker Interval 10 s and Timeout 30 s, in 5 s ticks.
CONSTANTS
    Msgs = {m1, m2, m3, m4}
    NoMsg = NoMsg
    MaxRetries = 5
    RetryTTL = 2
    WebhookTimeout = 6
    MaxRequests = 3
    Interval = 2
    OpenTimeout = 6
    MaxOutages = 1
SPECIFICATION Spec
SYMMETRY MCSymmetry
INVARIANT TypeOK
INVARIANT FailedOnlyIfTriedWhileDown
\* Deadlock cannot occur: Tick is always enabled.
CHECK_DEADLOCK FALSE
