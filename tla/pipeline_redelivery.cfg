\* A request is cut off before it enqueues and the webhook comes again.
SPECIFICATION FairSpec
CONSTANTS
    Runs = {r1}
    Workers = {w1}
    Requests = {h1}
    NoRun = NoRun
    Outcomes = {"pass", "fail", "skipped", "error"}
    MaxAttempts = 1
    AttemptCap = 2
    MaxTriggers = 3
    MaxCrashes = 1
PROPERTIES
    WebhookHasPendingRunExecuted
\* The bounded triggers run out and every process may be idle.
CHECK_DEADLOCK FALSE
