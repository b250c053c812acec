\* A worker is killed while it holds a job.
SPECIFICATION FairSpec
CONSTANTS
    Runs = {r1}
    Workers = {w1}
    Requests = {h1}
    NoRun = NoRun
    Outcomes = {"pass", "fail", "skipped", "error"}
    MaxAttempts = 1
    AttemptCap = 2
    MaxTriggers = 3
    MaxCrashes = 1
PROPERTIES
    NoJobRunsForEver
\* The bounded triggers run out and every process may be idle.
CHECK_DEADLOCK FALSE
