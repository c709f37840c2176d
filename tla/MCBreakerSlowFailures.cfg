\* One webhook outage, defaults as in MCWebhookRetry.cfg: a call slower
\* than the breaker window has its outcome dropped from the next window.
CONSTANTS
    Msgs = {m1, m2, m3, m4}
    NoMsg = NoMsg
    MaxRetries = 5
    RetryTTL = 2
    WebhookTimeout = 6
    MaxRequests = 3
    Interval = 2
    OpenTimeout = 6
    MaxOutages = 1
SPECIFICATION Spec
PROPERTY BreakerCountsObservations
\* Deadlock cannot occur: Tick is always enabled.
CHECK_DEADLOCK FALSE
