\* One run, two requests and two workers: races on one row.
SPECIFICATION Spec
CONSTANTS
    Runs = {r1}
    Workers = {w1, w2}
    Requests = {h1, h2}
    NoRun = NoRun
    Outcomes = {"pass", "fail", "skipped", "error"}
    MaxAttempts = 1
    AttemptCap = 2
    MaxTriggers = 3
    MaxCrashes = 1
SYMMETRY ProcessSymmetry
INVARIANTS
    TypeOK
    SoleExecutor
    DecisionMatchesEvidence
    EvidenceIsOfThisExecution
    CompletedJobHasOutcome
    PendingRunIsOnItsWay
PROPERTIES
    CompletedIsFinal
    ImplementsLifecycle
\* The bounded triggers run out and every process may be idle.
CHECK_DEADLOCK FALSE
