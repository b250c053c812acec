\* Two runs of one pull request, their executions and one administrator.
SPECIFICATION FairSpec
CONSTANTS
    Runs = {r1, r2}
    Workers = {w1}
    Admins = {a1}
    NoRun = NoRun
    Enabled = {"comment", "status"}
    PageSize = 2
    MaxStrangers = 1
    MaxExecutions = 2
    MaxClicks = 1
    MaxFailures = 1
INVARIANTS
    TypeOK
    RetriesFindTheComment
    VerdictShownIsTheRuns
    ReleasedRunIsShown
PROPERTIES
    PendingStatusIsReplaced
CHECK_DEADLOCK FALSE
