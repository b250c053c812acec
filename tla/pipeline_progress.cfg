\* No process is killed: what must eventually happen.
SPECIFICATION FairSpec
CONSTANTS
    Runs = {r1}
    Workers = {w1, w2}
    Requests = {h1, h2}
    NoRun = NoRun
    Outcomes = {"pass", "fail", "skipped", "error"}
    MaxAttempts = 1
    AttemptCap = 2
    MaxTriggers = 3
    MaxCrashes = 0
PROPERTIES
    PendingRunIsAttempted
    RunningRunEnds
\* The bounded triggers run out and every process may be idle.
CHECK_DEADLOCK FALSE
