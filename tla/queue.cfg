\* Two workers share the jobs of two runs, tried at most twice: nobody dies, workers
\* die, or they die and stale jobs are reclaimed.
SPECIFICATION FairSpec
CONSTANTS
    Runs = {r1, r2}
    Workers = {w1, w2}
    NoRun = NoRun
    MaxAttempts = 2
    AttemptCap = 3
    Usages = {{}, {"crash"}, {"reclaim", "crash"}}
    MaxEnqueues = 6
INVARIANTS
    TypeOK
    SoleClaimant
    AttemptsBounded
PROPERTIES
    QueuedJobEnds
    EndedJobOnlyRestartsFresh
    RunningJobIsReclaimed
