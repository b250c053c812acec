-------------------------- MODULE AnalysisPipeline --------------------------
(***************************************************************************)
(* The core of the backend: web requests that create Analysis Runs and     *)
(* enqueue their jobs (github_webhook_service, routes_repositories,        *)
(* routes_analysis, analysis_service), and worker processes that claim     *)
(* the jobs and execute the runs (worker, analysis_execution_service).     *)
(*                                                                         *)
(* A run is identified by its (repository, pull request, head sha), which  *)
(* the database keeps unique.  Every step is one committed transaction or  *)
(* one read whose result is used later; any process may stop between two   *)
(* steps.  The worker calls claim_next() without stale_after, so           *)
(* RequeueStale is not a step of this system.                              *)
(***************************************************************************)
EXTENDS AnalysisQueue

CONSTANTS
    Workers,      \* worker processes
    Requests,     \* web request handlers that can be under way at once
    NoRun,        \* the run of an idle process
    Outcomes,     \* bound: the gate results that executions produce
    MaxTriggers,  \* bound: triggers (webhooks, clicks) in a behaviour
    MaxCrashes    \* bound: processes killed in a behaviour

Recorded == {"pass", "fail", "skipped", "error"}

ASSUME PipelineAssumption ==
    /\ NoRun \notin Runs
    /\ Outcomes \subseteq Recorded
    /\ MaxTriggers \in Nat
    /\ MaxCrashes \in Nat

VARIABLES
    runs,      \* the row of each run
    request,   \* what each request handler is about to do
    worker,    \* what each worker is about to do
    triggers,  \* triggers so far
    crashes    \* processes killed so far

vars == <<jobs, arrivals, runs, request, worker, triggers, crashes>>

-----------------------------------------------------------------------------
Gates == {"coverage", "security", "technical_debt"}
NextPc == [coverage |-> "security", security |-> "technical_debt",
           technical_debt |-> "verdict"]
GatesBefore == [coverage |-> {}, security |-> {"coverage"},
                technical_debt |-> {"coverage", "security"}, verdict |-> Gates]

RunStatus == {"absent", "pending", "running", "completed", "error"}

(* results: the status in each gate's stored snapshot, "none" for {};      *)
(* blocking: the gates with a stored blocking finding; stale: started_at   *)
(* is more than STALE_RUNNING_AFTER ago.                                   *)
Run == [status : RunStatus, decision : {"none", "pass", "fail"},
        results : [Gates -> Recorded \cup {"none"}],
        blocking : SUBSET Gates, stale : BOOLEAN]

NewRun(status) ==
    [status |-> status, decision |-> "none", results |-> [g \in Gates |-> "none"],
     blocking |-> {}, stale |-> FALSE]

RequestPc == {"idle", "create", "reread", "enqueue"}
Request == [pc : RequestPc, run : Runs \cup {NoRun}, mayEnqueue : BOOLEAN]
IdleRequest == [pc |-> "idle", run |-> NoRun, mayEnqueue |-> FALSE]

WorkerPc == {"idle", "check", "begin", "verdict", "error", "recover",
             "refetch", "recovered", "complete", "fail"} \cup Gates
(* failed: whether a result in the worker's own gate_results is "fail".    *)
Worker == [pc : WorkerPc, run : Runs \cup {NoRun}, failed : BOOLEAN]
IdleWorker == [pc |-> "idle", run |-> NoRun, failed |-> FALSE]

TypeOK ==
    /\ QueueTypeOK
    /\ runs \in [Runs -> Run]
    /\ request \in [Requests -> Request]
    /\ worker \in [Workers -> Worker]
    /\ triggers \in 0..MaxTriggers
    /\ crashes \in 0..MaxCrashes

Init ==
    /\ QueueInit
    /\ runs = [r \in Runs |-> NewRun("absent")]
    /\ request = [h \in Requests |-> IdleRequest]
    /\ worker = [w \in Workers |-> IdleWorker]
    /\ triggers = 0
    /\ crashes = 0

StatusIn(r, statuses) == runs[r].status \in statuses

-----------------------------------------------------------------------------
(* Triggers                                                                *)

Trigger ==
    /\ triggers < MaxTriggers
    /\ triggers' = triggers + 1
    /\ UNCHANGED <<worker, crashes>>
(* Mutant of InsertIfAbsent: an upsert that overwrites the existing row.   *)
Upsert(r, status) == runs' = [runs EXCEPT ![r] = NewRun(status)]

InsertIfAbsent(r, status) ==
    runs' = IF StatusIn(r, {"absent"}) THEN [runs EXCEPT ![r] = NewRun(status)]
                                       ELSE runs

BeginRequest(h, r, mayEnqueue) ==
    /\ Trigger
    /\ request[h] = IdleRequest
    /\ request' = [request EXCEPT ![h] =
                     [pc |-> "create", run |-> r, mayEnqueue |-> mayEnqueue]]
    /\ UNCHANGED <<queueVars, runs>>
(* Mutant of ReceiveWebhook: existing is looked up after the creation.     *)
ReceiveWebhookLookingTooLate(h, r) == BeginRequest(h, r, FALSE)

(* A pull_request event whose context was captured: the handler looks the  *)
(* run up before it creates it, and remembers whether it found it.         *)
ReceiveWebhook(h, r) == BeginRequest(h, r, StatusIn(r, {"absent"}))

(* A pull_request event whose context was not: create_or_reuse_error_...   *)
ReceiveWebhookWithoutContext(r) ==
    /\ Trigger
    /\ InsertIfAbsent(r, "error")
    /\ UNCHANGED <<queueVars, request>>

(* POST .../pull-requests/{n}/analyze.                                     *)
RequestAnalysis(h, r) == BeginRequest(h, r, TRUE)

(* POST /api/analysis-runs/{id}/execute, by an administrator.              *)
RequestExecution(r) ==
    /\ Trigger
    /\ ~StatusIn(r, {"absent"})
    /\ Enqueue(r)
    /\ UNCHANGED <<runs, request>>

RequestAt(h, pc) == request[h].pc = pc

(* _create_or_reuse: a lost race for the insert ends in reuse.             *)
CreateOrReuse(h) ==
    /\ RequestAt(h, "create")
    /\ InsertIfAbsent(request[h].run, "pending")
    /\ request' = [request EXCEPT ![h].pc = "reread"]
    /\ UNCHANGED <<queueVars, worker, triggers, crashes>>

(* The handler reads the run's status back, and enqueues it later.         *)
RereadRun(h) ==
    /\ RequestAt(h, "reread")
    /\ request' = [request EXCEPT ![h] =
                     IF @.mayEnqueue /\ StatusIn(@.run, {"pending"})
                     THEN [@ EXCEPT !.pc = "enqueue"] ELSE IdleRequest]
    /\ UNCHANGED <<queueVars, runs, worker, triggers, crashes>>

EnqueueRun(h) ==
    /\ RequestAt(h, "enqueue")
    /\ Enqueue(request[h].run)
    /\ request' = [request EXCEPT ![h] = IdleRequest]
    /\ UNCHANGED <<runs, worker, triggers, crashes>>

(* The web process is killed, or a statement of the handler raises.        *)
AbandonRequest(h) ==
    /\ crashes < MaxCrashes
    /\ crashes' = crashes + 1
    /\ ~RequestAt(h, "idle")
    /\ request' = [request EXCEPT ![h] = IdleRequest]
    /\ UNCHANGED <<queueVars, runs, worker, triggers>>

-----------------------------------------------------------------------------
(* Workers                                                                 *)

WorkerAt(w, pcs) == worker[w].pc \in pcs
Goto(w, pc) == worker' = [worker EXCEPT ![w].pc = pc]
Elsewhere == UNCHANGED <<request, triggers, crashes>>

ClaimNextJob(w) ==
    /\ WorkerAt(w, {"idle"})
    /\ \E r \in Runs :
         /\ Claim(r)
         /\ worker' = [worker EXCEPT ![w] =
                         [IdleWorker EXCEPT !.pc = "check", !.run = r]]
    /\ UNCHANGED runs
    /\ Elsewhere
(* Mutant of Executable: only running runs are refused.                    *)
ExecutableUnlessRunning(r) == ~StatusIn(r, {"running"}) \/ runs[r].stale

Executable(r) ==
    \/ StatusIn(r, {"pending", "error"})
    \/ StatusIn(r, {"running"}) /\ runs[r].stale

(* execute_analysis_run reads the run and refuses any other.               *)
CheckRun(w) ==
    /\ WorkerAt(w, {"check"})
    /\ Goto(w, IF Executable(worker[w].run) THEN "begin" ELSE "fail")
    /\ UNCHANGED <<queueVars, runs>>
    /\ Elsewhere
(* Mutant of TokenUnavailable: the worker does not see the failure.        *)
TokenFailureIgnored(w) ==
    /\ WorkerAt(w, {"begin"})
    /\ Goto(w, "complete")
    /\ UNCHANGED <<queueVars, runs>>
    /\ Elsewhere

(* No active installation, or no token for it: the run keeps its state.    *)
TokenUnavailable(w) ==
    /\ WorkerAt(w, {"begin"})
    /\ Goto(w, "fail")
    /\ UNCHANGED <<queueVars, runs>>
    /\ Elsewhere
(* Mutants of BeginRun: the snapshots are not cleared, the findings are    *)
(* not deleted.                                                            *)
BeginRunOverOldSnapshots(w) ==
    /\ WorkerAt(w, {"begin"})
    /\ runs' = [runs EXCEPT ![worker[w].run] =
                  [NewRun("running") EXCEPT !.results = runs[worker[w].run].results]]
    /\ worker' = [worker EXCEPT ![w] = [@ EXCEPT !.pc = "coverage", !.failed = FALSE]]
    /\ UNCHANGED queueVars
    /\ Elsewhere
BeginRunOverOldFindings(w) ==
    /\ WorkerAt(w, {"begin"})
    /\ runs' = [runs EXCEPT ![worker[w].run] =
                  [NewRun("running") EXCEPT !.blocking = runs[worker[w].run].blocking]]
    /\ worker' = [worker EXCEPT ![w] = [@ EXCEPT !.pc = "coverage", !.failed = FALSE]]
    /\ UNCHANGED queueVars
    /\ Elsewhere

BeginRun(w) ==
    /\ WorkerAt(w, {"begin"})
    /\ runs' = [runs EXCEPT ![worker[w].run] = NewRun("running")]
    /\ worker' = [worker EXCEPT ![w] = [@ EXCEPT !.pc = "coverage", !.failed = FALSE]]
    /\ UNCHANGED queueVars
    /\ Elsewhere

(* The findings that a result of a gate may come with: a gate fails when   *)
(* it has a blocking finding, and an error may come after some.            *)
MayBlock(result) ==
    CASE result = "fail" -> {TRUE}
      [] result = "error" -> BOOLEAN
      [] OTHER -> {FALSE}

(* What a gate leaves behind in the row and in the worker's gate_results.  *)
WithResult(run, g, result, blocks) ==
    [run EXCEPT !.results = [@ EXCEPT ![g] = result],
                !.blocking = IF blocks THEN @ \cup {g} ELSE @]
AfterGate(exec, g, result) ==
    [exec EXCEPT !.pc = IF result = "error" THEN "error" ELSE NextPc[g],
                 !.failed = @ \/ result = "fail"]

RunGate(w) ==
    /\ WorkerAt(w, Gates)
    /\ \E result \in Outcomes : \E blocks \in MayBlock(result) :
         LET g == worker[w].pc
             r == worker[w].run
         IN /\ runs' = [runs EXCEPT ![r] = WithResult(@, g, result, blocks)]
            /\ worker' = [worker EXCEPT ![w] = AfterGate(@, g, result)]
    /\ UNCHANGED queueVars
    /\ Elsewhere

DeadlineExceeded(w) ==
    /\ WorkerAt(w, Gates)
    /\ Goto(w, "error")
    /\ UNCHANGED <<queueVars, runs>>
    /\ Elsewhere

Finished(run, status, decision) ==
    [run EXCEPT !.status = status, !.decision = decision]

DecideRun(w) ==
    /\ WorkerAt(w, {"verdict"})
    /\ runs' = [runs EXCEPT ![worker[w].run] =
                  Finished(@, "completed", IF worker[w].failed THEN "fail" ELSE "pass")]
    /\ Goto(w, "refetch")
    /\ UNCHANGED queueVars
    /\ Elsewhere
(* Mutants of FinishWithError: the decision is kept, or set to "error".    *)
FinishKeepingDecision(w) ==
    /\ WorkerAt(w, {"error", "recover"})
    /\ runs' = [runs EXCEPT ![worker[w].run].status = "error"]
    /\ Goto(w, IF WorkerAt(w, {"error"}) THEN "refetch" ELSE "recovered")
    /\ UNCHANGED queueVars
    /\ Elsewhere
FinishDecidingError(w) ==
    /\ WorkerAt(w, {"error", "recover"})
    /\ runs' = [runs EXCEPT ![worker[w].run] = Finished(@, "error", "error")]
    /\ Goto(w, IF WorkerAt(w, {"error"}) THEN "refetch" ELSE "recovered")
    /\ UNCHANGED queueVars
    /\ Elsewhere

(* _finish_with_error, in the pipeline and in execute's except clause.     *)
FinishWithError(w) ==
    /\ WorkerAt(w, {"error", "recover"})
    /\ runs' = [runs EXCEPT ![worker[w].run] = Finished(@, "error", "none")]
    /\ Goto(w, IF WorkerAt(w, {"error"}) THEN "refetch" ELSE "recovered")
    /\ UNCHANGED queueVars
    /\ Elsewhere
(* Mutant of Raise: execute_analysis_run swallows what the pipeline raises.*)
RaiseSwallowed(w) ==
    /\ WorkerAt(w, Gates \cup {"verdict", "error", "refetch", "recover", "recovered"})
    /\ Goto(w, "complete")
    /\ UNCHANGED <<queueVars, runs>>
    /\ Elsewhere

(* Any statement may raise: in _run_pipeline the exception is handled, the *)
(* uncommitted changes rolled back; in the handler itself and in complete  *)
(* it reaches process_next_job.                                            *)
Raise(w) ==
    /\ \/ WorkerAt(w, Gates \cup {"verdict", "error", "refetch"}) /\ Goto(w, "recover")
       \/ WorkerAt(w, {"check", "recover", "recovered", "complete"}) /\ Goto(w, "fail")
    /\ UNCHANGED <<queueVars, runs>>
    /\ Elsewhere

(* The finished run is read again and returned.                            *)
RefetchRun(w) ==
    /\ WorkerAt(w, {"refetch", "recovered"})
    /\ Goto(w, "complete")
    /\ UNCHANGED <<queueVars, runs>>
    /\ Elsewhere

CompleteJob(w) ==
    /\ WorkerAt(w, {"complete"})
    /\ Complete(worker[w].run)
    /\ worker' = [worker EXCEPT ![w] = IdleWorker]
    /\ UNCHANGED runs
    /\ Elsewhere

FailJob(w) ==
    /\ WorkerAt(w, {"fail"})
    /\ Fail(worker[w].run, TRUE)
    /\ worker' = [worker EXCEPT ![w] = IdleWorker]
    /\ UNCHANGED runs
    /\ Elsewhere

(* The process is killed, or fail() raises: a new one starts idle.         *)
CrashWorker(w) ==
    /\ crashes < MaxCrashes
    /\ crashes' = crashes + 1
    /\ ~WorkerAt(w, {"idle"})
    /\ worker' = [worker EXCEPT ![w] = IdleWorker]
    /\ UNCHANGED <<queueVars, runs, request, triggers>>

(* Thirty minutes pass since a running run was started.                    *)
RunGrowsStale(r) ==
    /\ StatusIn(r, {"running"})
    /\ ~runs[r].stale
    /\ runs' = [runs EXCEPT ![r].stale = TRUE]
    /\ UNCHANGED <<queueVars, request, worker, triggers, crashes>>

-----------------------------------------------------------------------------
RequestStep(h) == CreateOrReuse(h) \/ RereadRun(h) \/ EnqueueRun(h)

ExecutionStep(w) ==
    \/ CheckRun(w) \/ TokenUnavailable(w) \/ BeginRun(w)
    \/ RunGate(w) \/ DeadlineExceeded(w) \/ DecideRun(w)
    \/ FinishWithError(w) \/ Raise(w) \/ RefetchRun(w)

WorkerStep(w) == ClaimNextJob(w) \/ ExecutionStep(w) \/ CompleteJob(w) \/ FailJob(w)

TriggerStep ==
    \E r \in Runs :
        \/ ReceiveWebhookWithoutContext(r)
        \/ RequestExecution(r)
        \/ \E h \in Requests : ReceiveWebhook(h, r) \/ RequestAnalysis(h, r)

Next ==
    \/ TriggerStep
    \/ \E h \in Requests : RequestStep(h) \/ AbandonRequest(h)
    \/ \E w \in Workers : WorkerStep(w) \/ CrashWorker(w)
    \/ \E r \in Runs : RunGrowsStale(r)

Spec == Init /\ [][Next]_vars

(* Handlers and workers that are alive keep running.                       *)
FairSpec ==
    /\ Spec
    /\ \A h \in Requests : WF_vars(RequestStep(h))
    /\ \A w \in Workers : WF_vars(WorkerStep(w))
-----------------------------------------------------------------------------
(* Safety.                                                                 *)

(* A worker that is busy with a run holds that run's running job, and no   *)
(* other worker is busy with it: execute_analysis_run takes no row lock,   *)
(* and two executions would share rows and the workspace directory.        *)
SoleExecutor ==
    \A w \in Workers : ~WorkerAt(w, {"idle"}) =>
        /\ JobIn(worker[w].run, {"running"})
        /\ \A v \in Workers \ {w} : worker[v].run # worker[w].run

(* A completed row has all three gate results, none of them an error, and  *)
(* its decision is what they, and the stored blocking findings, say.       *)
DecisionSound(run) ==
    IF run.status = "completed"
    THEN /\ \A g \in Gates : run.results[g] \in {"pass", "fail", "skipped"}
         /\ run.blocking = {g \in Gates : run.results[g] = "fail"}
         /\ run.decision = IF run.blocking = {} THEN "pass" ELSE "fail"
    ELSE run.decision = "none"

(* ADR-0018, 0026 and 0027: only a completed run has a Gate Decision, and  *)
(* the evidence in its row supports it, whatever partial evidence earlier  *)
(* attempts left there.                                                    *)
DecisionMatchesEvidence == \A r \in Runs : DecisionSound(runs[r])

(* The row holds the results of the gates the execution has been through,  *)
(* and nothing else.                                                       *)
EvidenceOf(exec, run) ==
    LET done == GatesBefore[exec.pc]
    IN /\ run.status = "running"
       /\ run.decision = "none"
       /\ \A g \in Gates : run.results[g] \in
            IF g \in done THEN {"pass", "fail", "skipped"} ELSE {"none"}
       /\ run.blocking = {g \in done : run.results[g] = "fail"}
       /\ exec.failed = (run.blocking # {})

(* While a worker is in the pipeline, the row holds the evidence of this   *)
(* execution and of no earlier or other one, and the failures the worker   *)
(* remembers in gate_results are those in the row.                         *)
EvidenceIsOfThisExecution ==
    \A w \in Workers : WorkerAt(w, Gates \cup {"verdict"}) =>
        EvidenceOf(worker[w], runs[worker[w].run])

(* worker.py marks a job completed only when its run has an outcome; a job *)
(* whose execution raised, or whose run was refused, is never completed.   *)
CompletedJobHasOutcome ==
    \A r \in Runs : JobIn(r, {"completed"}) => StatusIn(r, {"completed", "error"})

(* As long as no process was killed, a pending run without a job is one    *)
(* whose own creator is still going to enqueue it, however webhooks and    *)
(* manual requests for the same head interleave.                           *)
PendingRunIsOnItsWay ==
    \A r \in Runs :
        crashes = 0 /\ StatusIn(r, {"pending"}) /\ JobIn(r, {"absent"}) =>
            \E h \in Requests : /\ request[h].run = r
                                /\ RequestAt(h, "enqueue") \/ request[h].mayEnqueue

(* A completed run is never executed again: its row changes only while the *)
(* worker that completed it still holds the job, and only to an error.     *)
CompletedIsFinal ==
    [][\A r \in Runs :
         StatusIn(r, {"completed"}) /\ runs'[r] # runs[r] =>
            /\ JobIn(r, {"running"})
            /\ runs'[r].status = "error"]_vars

-----------------------------------------------------------------------------
(* Liveness, for behaviours in which no process is killed.                 *)

(* ADR-0038: a pending run is executed without anybody asking, unless its  *)
(* execution was tried and its job failed.                                 *)
PendingRunIsAttempted ==
    \A r \in Runs :
        StatusIn(r, {"pending"}) ~> ~StatusIn(r, {"pending"}) \/ JobIn(r, {"failed"})

(* A running run comes to an outcome, unless recording it failed too.      *)
RunningRunEnds ==
    \A r \in Runs :
        StatusIn(r, {"running"}) ~>
            StatusIn(r, {"completed", "error"}) \/ JobIn(r, {"failed"})

-----------------------------------------------------------------------------
(* What documents of the repository say and the code does not do.          *)

(* fixes/03-analysis-job-lifecycle.md: no job stays running for ever       *)
(* without a chance of reclaim.                                            *)
NoJobRunsForEver ==
    \A r \in Runs : JobIn(r, {"running"}) ~> ~JobIn(r, {"running"})

(* The multi-user design: a webhook for an existing run that is pending    *)
(* has it executed.  A handler that ends leaves a pending run either with  *)
(* a job or to another handler that is under way.                          *)
WebhookHasPendingRunExecuted ==
    [][\A h \in Requests :
         ~RequestAt(h, "idle") /\ request'[h] = IdleRequest /\ crashes' = crashes =>
            LET r == request[h].run
            IN \/ ~StatusIn(r, {"pending"})
               \/ jobs'[r].status # "absent"
               \/ \E other \in Requests \ {h} : request[other].run = r]_vars

-----------------------------------------------------------------------------
(* The abstract lifecycle that the pipeline implements.                    *)
OutcomeOf(run) == IF run.status = "completed" THEN run.decision ELSE run.status

Lifecycle == INSTANCE AnalysisRunLifecycle WITH
    outcome <- [r \in Runs |-> OutcomeOf(runs[r])],
    active <- {r \in Runs : JobIn(r, {"running"})}

(* The pipeline implements AnalysisRunLifecycle: a run is accepted once,   *)
(* held by one activity at a time, and keeps its verdict once let go.      *)
ImplementsLifecycle == Lifecycle!LifecycleSpec
=============================================================================
