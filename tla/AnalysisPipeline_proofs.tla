----------------------- MODULE AnalysisPipeline_proofs -----------------------
(***************************************************************************)
(* Theorems about AnalysisPipeline for every set of runs, requests and     *)
(* workers and every value of its bounds: its invariants; that it          *)
(* implements AnalysisRunLifecycle; and that as long as no process was     *)
(* killed, whoever creates a pending run hands it to the queue.            *)
(***************************************************************************)
EXTENDS AnalysisPipeline, AnalysisQueue_proofs

-----------------------------------------------------------------------------
(* A run that was just created or restarted is a run.                      *)
LEMMA NewRunIsRun ==
    ASSUME NEW status \in RunStatus
    PROVE  NewRun(status) \in Run
  BY DEF NewRun, Run, Gates

(* A run with a new status and decision is a run.                          *)
LEMMA FinishedIsRun ==
    ASSUME NEW run \in Run, NEW status \in RunStatus, NEW decision \in {"none", "pass", "fail"}
    PROVE  Finished(run, status, decision) \in Run
  BY DEF Finished, Run

(* Creating a run keeps the type of the run table.                         *)
LEMMA InsertKeepsRuns ==
    ASSUME runs \in [Runs -> Run], NEW r \in Runs, NEW status \in RunStatus,
           InsertIfAbsent(r, status)
    PROVE  runs' \in [Runs -> Run]
  BY NewRunIsRun DEF InsertIfAbsent

(* A worker that is not idle is busy with a run.                           *)
BusyHasRun == \A w \in Workers : worker[w].pc # "idle" => worker[w].run \in Runs

(* A request that is under way is about a run.                             *)
RequestHasRun == \A h \in Requests : request[h].pc # "idle" => request[h].run \in Runs

TInv == TypeOK /\ BusyHasRun /\ RequestHasRun

LEMMA InitTInv == Init => TInv
  <1> SUFFICES ASSUME Init PROVE TInv
    OBVIOUS
  <1> USE QueueAssumption, PipelineAssumption
  <1>1. QueueTypeOK
    <2>1. NoJob \in Job
      BY DEF NoJob, Job, JobStatus
    <2> QED
      BY <2>1 DEF Init, QueueInit, QueueTypeOK
  <1>2. runs \in [Runs -> Run]
    BY NewRunIsRun DEF Init, RunStatus
  <1>3. request \in [Requests -> Request] /\ RequestHasRun
    BY DEF Init, IdleRequest, Request, RequestPc, RequestHasRun
  <1>4. worker \in [Workers -> Worker] /\ BusyHasRun
    BY DEF Init, IdleWorker, Worker, WorkerPc, BusyHasRun
  <1>5. triggers \in 0..MaxTriggers /\ crashes \in 0..MaxCrashes
    BY DEF Init
  <1> QED
    BY <1>1, <1>2, <1>3, <1>4, <1>5 DEF TInv, TypeOK

LEMMA NextTInv == TInv /\ [Next]_vars => TInv'
  <1> SUFFICES ASSUME TInv, [Next]_vars PROVE TInv'
    OBVIOUS
  <1> USE QueueAssumption, PipelineAssumption DEF TInv, TypeOK, BusyHasRun, RequestHasRun
  <1>a. ASSUME UNCHANGED queueVars PROVE QueueTypeOK'
    BY <1>a DEF queueVars, QueueTypeOK
  <1>b. IdleRequest \in Request /\ IdleRequest.pc = "idle"
    BY DEF IdleRequest, Request, RequestPc
  <1>c. IdleWorker \in Worker /\ IdleWorker.pc = "idle"
    BY DEF IdleWorker, Worker, WorkerPc
  <1>d. ASSUME NEW w \in Workers, NEW pc \in WorkerPc, worker[w].pc # "idle", Goto(w, pc)
        PROVE  worker' \in [Workers -> Worker] /\ BusyHasRun'
    BY <1>d DEF Goto, Worker, WorkerPc
  <1>e. \A w \in Workers : worker[w].pc # "idle" => worker[w].run \in Runs
    OBVIOUS
  <1>1. ASSUME NEW r \in Runs, ReceiveWebhookWithoutContext(r) PROVE TInv'
    BY <1>1, <1>a, InsertKeepsRuns DEF ReceiveWebhookWithoutContext, Trigger, RunStatus
  <1>2. ASSUME NEW r \in Runs, RequestExecution(r) PROVE TInv'
    BY <1>2, QueueTypePreserved DEF RequestExecution, Trigger
  <1>3. ASSUME NEW r \in Runs, NEW h \in Requests, NEW fresh \in BOOLEAN,
               BeginRequest(h, r, fresh)
        PROVE  TInv'
    <2>1. request' \in [Requests -> Request] /\ RequestHasRun'
      BY <1>3 DEF BeginRequest, Request, RequestPc
    <2> QED
      BY <2>1, <1>3, <1>a DEF BeginRequest, Trigger
  <1>4. ASSUME NEW h \in Requests, CreateOrReuse(h) PROVE TInv'
    <2>1. request' \in [Requests -> Request] /\ RequestHasRun'
      BY <1>4 DEF CreateOrReuse, RequestAt, Request, RequestPc
    <2>2. runs' \in [Runs -> Run]
      BY <1>4, InsertKeepsRuns DEF CreateOrReuse, RequestAt, RunStatus
    <2> QED
      BY <2>1, <2>2, <1>4, <1>a DEF CreateOrReuse
  <1>5. ASSUME NEW h \in Requests, RereadRun(h) PROVE TInv'
    <2>1. request' \in [Requests -> Request] /\ RequestHasRun'
      BY <1>5, <1>b DEF RereadRun, RequestAt, Request, RequestPc
    <2> QED
      BY <2>1, <1>5, <1>a DEF RereadRun
  <1>6. ASSUME NEW h \in Requests, EnqueueRun(h) PROVE TInv'
    <2>1. request' \in [Requests -> Request] /\ RequestHasRun'
      BY <1>6, <1>b DEF EnqueueRun
    <2>2. QueueTypeOK'
      BY <1>6, QueueTypePreserved DEF EnqueueRun, RequestAt
    <2> QED
      BY <2>1, <2>2, <1>6 DEF EnqueueRun
  <1>7. ASSUME NEW h \in Requests, AbandonRequest(h) PROVE TInv'
    <2>1. request' \in [Requests -> Request] /\ RequestHasRun'
      BY <1>7, <1>b DEF AbandonRequest
    <2> QED
      BY <2>1, <1>7, <1>a DEF AbandonRequest
  <1>8. ASSUME NEW w \in Workers, ClaimNextJob(w) PROVE TInv'
    <2>1. PICK r \in Runs :
            /\ Claim(r)
            /\ worker' = [worker EXCEPT ![w] = [IdleWorker EXCEPT !.pc = "check", !.run = r]]
      BY <1>8 DEF ClaimNextJob
    <2>2. worker' \in [Workers -> Worker] /\ BusyHasRun'
      BY <2>1 DEF IdleWorker, Worker, WorkerPc
    <2> QED
      BY <2>1, <2>2, <1>8, QueueTypePreserved DEF ClaimNextJob, Elsewhere
  <1>9. ASSUME NEW w \in Workers, CheckRun(w) \/ TokenUnavailable(w)
                                  \/ DeadlineExceeded(w) \/ Raise(w) \/ RefetchRun(w)
        PROVE  TInv'
    <2>1. worker[w].pc # "idle"
      BY <1>9 DEF CheckRun, TokenUnavailable, DeadlineExceeded, Raise, RefetchRun,
                  WorkerAt, Gates
    <2>2. \E pc \in WorkerPc : Goto(w, pc)
      BY <1>9 DEF CheckRun, TokenUnavailable, DeadlineExceeded, Raise, RefetchRun, WorkerPc
    <2>3. UNCHANGED <<queueVars, runs, request, triggers, crashes>>
      BY <1>9 DEF CheckRun, TokenUnavailable, DeadlineExceeded, Raise, RefetchRun, Elsewhere
    <2> QED
      BY <2>1, <2>2, <2>3, <1>a, <1>d
  <1>10. ASSUME NEW w \in Workers, BeginRun(w) PROVE TInv'
    <2>1. worker[w].run \in Runs
      BY <1>10 DEF BeginRun, WorkerAt
    <2>2. runs' \in [Runs -> Run]
      BY <2>1, <1>10, NewRunIsRun DEF BeginRun, RunStatus
    <2>3. worker' \in [Workers -> Worker] /\ BusyHasRun'
      BY <2>1, <1>10 DEF BeginRun, Worker, WorkerPc, Gates
    <2> QED
      BY <2>2, <2>3, <1>10, <1>a DEF BeginRun, Elsewhere
  <1>11. ASSUME NEW w \in Workers, RunGate(w) PROVE TInv'
    <2>1. worker[w].pc \in Gates /\ worker[w].run \in Runs
      BY <1>11 DEF RunGate, WorkerAt, Gates
    <2>2. PICK result \in Outcomes, blocks \in BOOLEAN :
            /\ runs' = [runs EXCEPT ![worker[w].run] =
                          WithResult(@, worker[w].pc, result, blocks)]
            /\ worker' = [worker EXCEPT ![w] = AfterGate(@, worker[w].pc, result)]
      BY <1>11 DEF RunGate, MayBlock
    <2>3. runs' \in [Runs -> Run]
      <3>1. WithResult(runs[worker[w].run], worker[w].pc, result, blocks) \in Run
        BY <2>1 DEF WithResult, Run
      <3> QED
        BY <2>1, <2>2, <3>1
    <2>4. worker' \in [Workers -> Worker] /\ BusyHasRun'
      <3>1. AfterGate(worker[w], worker[w].pc, result) \in Worker
        <4>1. NextPc[worker[w].pc] \in WorkerPc
          BY <2>1 DEF NextPc, WorkerPc, Gates
        <4>2. (worker[w].failed \/ result = "fail") \in BOOLEAN
          OBVIOUS
        <4> QED
          BY <4>1, <4>2 DEF AfterGate, Worker, WorkerPc
      <3>2. AfterGate(worker[w], worker[w].pc, result).run = worker[w].run
        BY DEF AfterGate, Worker
      <3> QED
        BY <2>1, <2>2, <3>1, <3>2
    <2> QED
      BY <2>3, <2>4, <1>11, <1>a DEF RunGate, Elsewhere
  <1>12. ASSUME NEW w \in Workers, DecideRun(w) PROVE TInv'
    <2>1. worker[w].run \in Runs /\ worker[w].pc # "idle"
      BY <1>12 DEF DecideRun, WorkerAt
    <2>2. runs' \in [Runs -> Run]
      BY <2>1, <1>12, FinishedIsRun DEF DecideRun, RunStatus
    <2>3. worker' \in [Workers -> Worker] /\ BusyHasRun'
      BY <2>1, <1>12, <1>d DEF DecideRun, WorkerPc
    <2> QED
      BY <2>2, <2>3, <1>12, <1>a DEF DecideRun, Elsewhere
  <1>13. ASSUME NEW w \in Workers, FinishWithError(w) PROVE TInv'
    <2>1. worker[w].run \in Runs /\ worker[w].pc # "idle"
      BY <1>13 DEF FinishWithError, WorkerAt
    <2>2. runs' \in [Runs -> Run]
      BY <2>1, <1>13, FinishedIsRun DEF FinishWithError, RunStatus
    <2>3. worker' \in [Workers -> Worker] /\ BusyHasRun'
      BY <2>1, <1>13, <1>d DEF FinishWithError, WorkerPc
    <2> QED
      BY <2>2, <2>3, <1>13, <1>a DEF FinishWithError, Elsewhere
  <1>14. ASSUME NEW w \in Workers, CompleteJob(w) \/ FailJob(w) PROVE TInv'
    <2>1. worker[w].run \in Runs
      BY <1>14 DEF CompleteJob, FailJob, WorkerAt
    <2>2. worker' \in [Workers -> Worker] /\ BusyHasRun'
      BY <1>14, <1>c DEF CompleteJob, FailJob
    <2>3. QueueTypeOK'
      BY <2>1, <1>14, QueueTypePreserved DEF CompleteJob, FailJob
    <2> QED
      BY <2>2, <2>3, <1>14 DEF CompleteJob, FailJob, Elsewhere
  <1>15. ASSUME NEW w \in Workers, CrashWorker(w) PROVE TInv'
    <2>1. worker' \in [Workers -> Worker] /\ BusyHasRun'
      BY <1>15, <1>c DEF CrashWorker
    <2> QED
      BY <2>1, <1>15, <1>a DEF CrashWorker
  <1>16. ASSUME NEW r \in Runs, RunGrowsStale(r) PROVE TInv'
    <2>1. runs' \in [Runs -> Run]
      BY <1>16 DEF RunGrowsStale, Run
    <2> QED
      BY <2>1, <1>16, <1>a DEF RunGrowsStale
  <1>17. CASE UNCHANGED vars
    BY <1>17, <1>a DEF vars, queueVars
  <1>18. TriggerStep => TInv'
    <2>1. ASSUME NEW h \in Requests, NEW r \in Runs, ReceiveWebhook(h, r) PROVE TInv'
      <3>1. StatusIn(r, {"absent"}) \in BOOLEAN
        BY DEF StatusIn
      <3> QED
        BY <1>3, <2>1, <3>1 DEF ReceiveWebhook
    <2>2. ASSUME NEW h \in Requests, NEW r \in Runs, RequestAnalysis(h, r) PROVE TInv'
      BY <1>3, <2>2 DEF RequestAnalysis
    <2> QED
      BY <1>1, <1>2, <2>1, <2>2 DEF TriggerStep
  <1>19. ASSUME NEW w \in Workers, WorkerStep(w) PROVE TInv'
    BY <1>8, <1>9, <1>10, <1>11, <1>12, <1>13, <1>14, <1>19 DEF WorkerStep, ExecutionStep
  <1> QED
    BY <1>4, <1>5, <1>6, <1>7, <1>15, <1>16, <1>17, <1>18, <1>19 DEF Next, RequestStep

(* Every reachable state is well typed.                                    *)
THEOREM TypeCorrect == Spec => []TypeOK
  <1>1. TInv => TypeOK
    BY DEF TInv
  <1> QED
    BY <1>1, InitTInv, NextTInv, PTL DEF Spec

-----------------------------------------------------------------------------
(* The inductive invariant.  SoleExecutor is inductive once an idle worker *)
(* is known to name no run; it makes a row the business of one worker, so  *)
(* that what a worker read or stored still stands at its next step.        *)

IdleNamesNoRun == \A w \in Workers : worker[w].pc = "idle" => worker[w].run = NoRun

WorkerKnows(exec, run) ==
    /\ exec.pc = "begin" =>
         \/ run.status \in {"pending", "error"}
         \/ run.status = "running" /\ run.stale
    /\ exec.pc \in Gates \cup {"verdict"} => EvidenceOf(exec, run)
    /\ exec.pc \in {"refetch", "recovered", "complete"} =>
         run.status \in {"completed", "error"}

KnowledgeStands ==
    \A w \in Workers : worker[w].pc # "idle" => WorkerKnows(worker[w], runs[worker[w].run])

SInv ==
    /\ IdleNamesNoRun
    /\ SoleExecutor
    /\ DecisionMatchesEvidence
    /\ KnowledgeStands
    /\ CompletedJobHasOutcome

IInv == TInv /\ SInv

-----------------------------------------------------------------------------
(* What the operations do to rows and executions.                          *)

(* A run that starts has no evidence, as its execution expects.            *)
LEMMA StartEvidence ==
    ASSUME NEW exec \in Worker
    PROVE  EvidenceOf([exec EXCEPT !.pc = "coverage", !.failed = FALSE], NewRun("running"))
  BY DEF EvidenceOf, NewRun, Worker, Gates, GatesBefore

(* A gate that does not end in an error adds its own result and no more.   *)
LEMMA GateEvidence ==
    ASSUME NEW exec \in Worker, NEW run \in Run, exec.pc \in Gates, EvidenceOf(exec, run),
           NEW result \in {"pass", "fail", "skipped"}, NEW blocks \in BOOLEAN,
           blocks = (result = "fail")
    PROVE  EvidenceOf(AfterGate(exec, exec.pc, result),
                      WithResult(run, exec.pc, result, blocks))
  <1> DEFINE g == exec.pc
             exec2 == AfterGate(exec, g, result)
             run2 == WithResult(run, g, result, blocks)
             done == GatesBefore[g]
             done2 == GatesBefore[NextPc[g]]
  <1>1. exec2.pc = NextPc[g] /\ exec2.failed = (exec.failed \/ result = "fail")
    BY DEF AfterGate, Worker
  <1>2. done2 = done \cup {g} /\ g \notin done /\ done2 \subseteq Gates
    BY DEF GatesBefore, NextPc, Gates
  <1>3. /\ run2.status = run.status
        /\ run2.decision = run.decision
        /\ run2.results = [run.results EXCEPT ![g] = result]
        /\ run2.blocking = IF blocks THEN run.blocking \cup {g} ELSE run.blocking
    BY DEF WithResult, Run
  <1>4. /\ run2.results[g] = result
        /\ \A k \in Gates \ {g} : run2.results[k] = run.results[k]
    BY <1>3 DEF Run
  <1>5. \A k \in Gates : run2.results[k] \in
          IF k \in done2 THEN {"pass", "fail", "skipped"} ELSE {"none"}
    BY <1>2, <1>4 DEF EvidenceOf
  <1>6. run.blocking = {k \in done : run.results[k] = "fail"}
    BY DEF EvidenceOf
  <1>7. run2.blocking = {k \in done2 : run2.results[k] = "fail"}
    <2>1. \A k \in done : run2.results[k] = run.results[k]
      BY <1>2, <1>4
    <2>2. {k \in done2 : run2.results[k] = "fail"} =
            {k \in done : run.results[k] = "fail"} \cup (IF result = "fail" THEN {g} ELSE {})
      BY <1>2, <1>4, <2>1
    <2> QED
      BY <1>3, <1>6, <2>2
  <1>8. exec2.failed = (run2.blocking # {})
    BY <1>1, <1>3 DEF EvidenceOf
  <1> QED
    BY <1>1, <1>3, <1>5, <1>7, <1>8 DEF EvidenceOf

(* The decision on a full row is sound.                                    *)
LEMMA VerdictIsSound ==
    ASSUME NEW exec \in Worker, NEW run \in Run, exec.pc = "verdict", EvidenceOf(exec, run)
    PROVE  DecisionSound(Finished(run, "completed", IF exec.failed THEN "fail" ELSE "pass"))
  <1> DEFINE run2 == Finished(run, "completed", IF exec.failed THEN "fail" ELSE "pass")
  <1>1. /\ run2.status = "completed"
        /\ run2.decision = IF exec.failed THEN "fail" ELSE "pass"
        /\ run2.results = run.results
        /\ run2.blocking = run.blocking
    BY DEF Finished, Run
  <1>2. GatesBefore[exec.pc] = Gates
    BY DEF GatesBefore
  <1>3. /\ \A g \in Gates : run.results[g] \in {"pass", "fail", "skipped"}
        /\ run.blocking = {g \in Gates : run.results[g] = "fail"}
        /\ exec.failed = (run.blocking # {})
    BY <1>2 DEF EvidenceOf
  <1> QED
    BY <1>1, <1>3 DEF DecisionSound

(* A run that ends in an error has no decision.                            *)
LEMMA ErrorIsSound ==
    ASSUME NEW run \in Run
    PROVE  DecisionSound(Finished(run, "error", "none"))
  BY DEF DecisionSound, Finished, Run

(* The kinds of steps the system takes, and that each keeps the invariant. *)

(* A step of a request, or of time: no worker moves, active jobs stay, and *)
(* a row changes only by being created or by growing stale.                *)
LEMMA ForeignStep ==
    ASSUME IInv, UNCHANGED worker,
           \A q \in Runs : jobs[q].status = "running" => jobs'[q].status = "running",
           \A q \in Runs : jobs'[q].status = "completed" => jobs[q].status = "completed",
           \A q \in Runs : \/ runs'[q] = runs[q]
                           \/ /\ runs[q].status = "absent"
                              /\ runs'[q] \in {NewRun("pending"), NewRun("error")}
                           \/ /\ runs[q].status = "running"
                              /\ runs'[q] = [runs[q] EXCEPT !.stale = TRUE]
    PROVE  SInv'
  <1> USE DEF IInv, SInv
  <1>1. runs \in [Runs -> Run] /\ BusyHasRun
    BY DEF TInv, TypeOK
  <1>2. IdleNamesNoRun'
    BY DEF IdleNamesNoRun
  <1>3. SoleExecutor'
    BY <1>1 DEF SoleExecutor, WorkerAt, JobIn, BusyHasRun
  <1>4. ASSUME NEW q \in Runs
        PROVE  /\ DecisionSound(runs'[q])
               /\ runs[q].status # "absent" => runs'[q].status = runs[q].status
               /\ \A w \in Workers : WorkerKnows(worker[w], runs[q]) =>
                                     WorkerKnows(worker[w], runs'[q])
    <2>1. DecisionSound(runs[q])
      BY DEF DecisionMatchesEvidence
    <2>2. CASE runs'[q] = runs[q]
      BY <2>1, <2>2
    <2>3. CASE /\ runs[q].status = "absent"
               /\ runs'[q] \in {NewRun("pending"), NewRun("error")}
      BY <2>3 DEF DecisionSound, NewRun, WorkerKnows, EvidenceOf
    <2>4. CASE /\ runs[q].status = "running"
               /\ runs'[q] = [runs[q] EXCEPT !.stale = TRUE]
      <3>1. /\ runs'[q].status = runs[q].status
            /\ runs'[q].decision = runs[q].decision
            /\ runs'[q].results = runs[q].results
            /\ runs'[q].blocking = runs[q].blocking
            /\ runs'[q].stale
        BY <1>1, <2>4 DEF Run
      <3> QED
        BY <2>1, <2>4, <3>1 DEF DecisionSound, WorkerKnows, EvidenceOf
    <2> QED
      BY <2>2, <2>3, <2>4
  <1>5. DecisionMatchesEvidence'
    BY <1>4 DEF DecisionMatchesEvidence
  <1>6. KnowledgeStands'
    BY <1>1, <1>4 DEF KnowledgeStands, BusyHasRun
  <1>7. CompletedJobHasOutcome'
    BY <1>4 DEF CompletedJobHasOutcome, JobIn, StatusIn
  <1> QED
    BY <1>2, <1>3, <1>5, <1>6, <1>7

(* A step of a busy worker on the row of its run.                          *)
LEMMA OwnStep ==
    ASSUME IInv, UNCHANGED jobs,
           NEW w \in Workers, worker[w].pc # "idle",
           NEW exec, exec.pc # "idle", exec.run = worker[w].run,
           worker' = [worker EXCEPT ![w] = exec],
           NEW run, runs' = [runs EXCEPT ![worker[w].run] = run],
           DecisionSound(run), WorkerKnows(exec, run)
    PROVE  SInv'
  <1> USE DEF IInv, SInv
  <1>1. /\ runs \in [Runs -> Run]
        /\ worker \in [Workers -> Worker]
        /\ BusyHasRun
        /\ worker[w].run \in Runs
    BY DEF TInv, TypeOK, BusyHasRun
  <1>2. worker'[w] = exec /\ \A v \in Workers \ {w} : worker'[v] = worker[v]
    BY <1>1
  <1>3. /\ runs'[worker[w].run] = run
        /\ \A q \in Runs \ {worker[w].run} : runs'[q] = runs[q]
    BY <1>1
  <1>4. /\ jobs[worker[w].run].status = "running"
        /\ \A v \in Workers \ {w} : worker[v].run # worker[w].run
    BY DEF SoleExecutor, WorkerAt, JobIn
  <1>5. IdleNamesNoRun'
    BY <1>2 DEF IdleNamesNoRun
  <1>6. SoleExecutor'
    BY <1>2, <1>4 DEF SoleExecutor, WorkerAt, JobIn
  <1>7. DecisionMatchesEvidence'
    BY <1>3 DEF DecisionMatchesEvidence
  <1>8. KnowledgeStands'
    BY <1>1, <1>2, <1>3, <1>4 DEF KnowledgeStands, BusyHasRun
  <1>9. CompletedJobHasOutcome'
    BY <1>3, <1>4 DEF CompletedJobHasOutcome, JobIn, StatusIn
  <1> QED
    BY <1>5, <1>6, <1>7, <1>8, <1>9

(* A step in which a busy worker lets its run go.                          *)
LEMMA ReleaseStep ==
    ASSUME IInv, UNCHANGED runs,
           NEW w \in Workers, worker[w].pc # "idle",
           worker' = [worker EXCEPT ![w] = IdleWorker],
           \A q \in Runs \ {worker[w].run} : jobs'[q] = jobs[q],
           jobs'[worker[w].run].status = "completed" =>
               runs[worker[w].run].status \in {"completed", "error"}
    PROVE  SInv'
  <1> USE DEF IInv, SInv
  <1>1. /\ worker \in [Workers -> Worker]
        /\ BusyHasRun
        /\ worker[w].run \in Runs
        /\ NoRun \notin Runs
    BY PipelineAssumption DEF TInv, TypeOK, BusyHasRun
  <1>2. /\ worker'[w].pc = "idle" /\ worker'[w].run = NoRun
        /\ \A v \in Workers \ {w} : worker'[v] = worker[v]
    BY <1>1 DEF IdleWorker
  <1>3. IdleNamesNoRun'
    BY <1>2 DEF IdleNamesNoRun
  <1>4. SoleExecutor'
    BY <1>1, <1>2 DEF SoleExecutor, WorkerAt, JobIn, BusyHasRun
  <1>5. DecisionMatchesEvidence'
    BY DEF DecisionMatchesEvidence
  <1>6. KnowledgeStands'
    BY <1>2 DEF KnowledgeStands
  <1>7. CompletedJobHasOutcome'
    BY <1>1 DEF CompletedJobHasOutcome, JobIn, StatusIn
  <1> QED
    BY <1>3, <1>4, <1>5, <1>6, <1>7

(* A step in which an idle worker claims a queued job.                     *)
LEMMA ClaimStep ==
    ASSUME IInv, NEW w \in Workers, ClaimNextJob(w)
    PROVE  SInv'
  <1> USE DEF IInv, SInv
  <1>1. /\ worker \in [Workers -> Worker]
        /\ QueueTypeOK
        /\ BusyHasRun
        /\ NoRun \notin Runs
    BY PipelineAssumption DEF TInv, TypeOK
  <1>2. PICK r \in Runs :
          /\ Claim(r)
          /\ worker' = [worker EXCEPT ![w] = [IdleWorker EXCEPT !.pc = "check", !.run = r]]
    BY DEF ClaimNextJob
  <1>3. UNCHANGED runs
    BY DEF ClaimNextJob
  <1>4. /\ worker'[w].pc = "check" /\ worker'[w].run = r
        /\ \A v \in Workers \ {w} : worker'[v] = worker[v]
    BY <1>1, <1>2 DEF IdleWorker
  <1>5. /\ jobs[r].status = "queued" /\ jobs'[r].status = "running"
        /\ \A q \in Runs \ {r} : jobs'[q] = jobs[q]
    BY <1>1, <1>2, ClaimEffect
  <1>6. \A v \in Workers : worker[v].run # r
    <2>1. ASSUME NEW v \in Workers, worker[v].run = r PROVE FALSE
      <3>1. worker[v].pc # "idle"
        BY <1>1, <2>1 DEF IdleNamesNoRun
      <3> QED
        BY <1>5, <2>1, <3>1 DEF SoleExecutor, WorkerAt, JobIn
    <2> QED
      BY <2>1
  <1>7. IdleNamesNoRun'
    BY <1>4 DEF IdleNamesNoRun
  <1>8. SoleExecutor'
    BY <1>1, <1>4, <1>5, <1>6 DEF SoleExecutor, WorkerAt, JobIn, BusyHasRun
  <1>9. DecisionMatchesEvidence'
    BY <1>3 DEF DecisionMatchesEvidence
  <1>10. KnowledgeStands'
    BY <1>3, <1>4 DEF KnowledgeStands, WorkerKnows, Gates
  <1>11. CompletedJobHasOutcome'
    BY <1>3, <1>5 DEF CompletedJobHasOutcome, JobIn, StatusIn
  <1> QED
    BY <1>7, <1>8, <1>9, <1>10, <1>11
-----------------------------------------------------------------------------
LEMMA InitSInv == Init => SInv
  <1> SUFFICES ASSUME Init PROVE SInv
    OBVIOUS
  <1>1. \A w \in Workers : worker[w].pc = "idle" /\ worker[w].run = NoRun
    BY DEF Init, IdleWorker
  <1>2. \A r \in Runs : jobs[r].status = "absent"
    BY DEF Init, QueueInit, NoJob
  <1>3. \A r \in Runs : runs[r].status = "absent" /\ runs[r].decision = "none"
    BY DEF Init, NewRun
  <1> QED
    BY <1>1, <1>2, <1>3
    DEF SInv, IdleNamesNoRun, SoleExecutor, WorkerAt, DecisionMatchesEvidence,
        DecisionSound, KnowledgeStands, CompletedJobHasOutcome, JobIn

(* A worker's step that only moves its program counter.                    *)
LEMMA MoveStep ==
    ASSUME IInv, UNCHANGED <<jobs, runs>>,
           NEW w \in Workers, worker[w].pc # "idle",
           NEW pc \in WorkerPc, pc # "idle", Goto(w, pc),
           WorkerKnows([worker[w] EXCEPT !.pc = pc], runs[worker[w].run])
    PROVE  SInv'
  <1> DEFINE exec == [worker[w] EXCEPT !.pc = pc]
             run == runs[worker[w].run]
  <1>1. /\ runs \in [Runs -> Run]
        /\ worker[w] \in Worker
        /\ worker[w].run \in Runs
    BY DEF IInv, TInv, TypeOK, BusyHasRun
  <1>2. exec.pc = pc /\ exec.run = worker[w].run
    BY <1>1 DEF Worker
  <1>3. worker' = [worker EXCEPT ![w] = exec]
    BY DEF Goto
  <1>4. runs' = [runs EXCEPT ![worker[w].run] = run]
    BY <1>1
  <1>5. DecisionSound(run)
    BY <1>1 DEF IInv, SInv, DecisionMatchesEvidence
  <1>6. exec.pc # "idle" /\ WorkerKnows(exec, run) /\ UNCHANGED jobs
    BY <1>2
  <1> HIDE DEF exec, run
  <1> QED
    BY <1>2, <1>3, <1>4, <1>5, <1>6, OwnStep

LEMMA NextSInv == IInv /\ [Next]_vars => SInv'
  <1> SUFFICES ASSUME IInv, [Next]_vars PROVE SInv'
    OBVIOUS
  <1>t. /\ QueueTypeOK
        /\ runs \in [Runs -> Run]
        /\ worker \in [Workers -> Worker]
        /\ BusyHasRun
        /\ RequestHasRun
    BY DEF IInv, TInv, TypeOK
  <1>k. ASSUME NEW w \in Workers, worker[w].pc # "idle"
        PROVE  /\ worker[w].run \in Runs
               /\ worker[w] \in Worker
               /\ runs[worker[w].run] \in Run
               /\ jobs[worker[w].run].status = "running"
               /\ WorkerKnows(worker[w], runs[worker[w].run])
    BY <1>t, <1>k DEF BusyHasRun, IInv, SInv, SoleExecutor, WorkerAt, JobIn, KnowledgeStands
  <1>i. ASSUME NEW r \in Runs, NEW status \in {"pending", "error"}, InsertIfAbsent(r, status),
               UNCHANGED <<jobs, worker>>
        PROVE  SInv'
    <2>1. \A q \in Runs : \/ runs'[q] = runs[q]
                          \/ /\ runs[q].status = "absent"
                             /\ runs'[q] \in {NewRun("pending"), NewRun("error")}
      BY <1>t, <1>i DEF InsertIfAbsent, StatusIn
    <2> QED
      BY <2>1, <1>i, ForeignStep
  <1>q. ASSUME NEW r \in Runs, Enqueue(r), UNCHANGED <<runs, worker>>
        PROVE  SInv'
    BY <1>q, <1>t, EnqueueEffect, ForeignStep
  <1>u. ASSUME UNCHANGED <<jobs, runs, worker>> PROVE SInv'
    BY <1>u, ForeignStep
  <1>1. ASSUME NEW r \in Runs, ReceiveWebhookWithoutContext(r) PROVE SInv'
    BY <1>1, <1>i DEF ReceiveWebhookWithoutContext, Trigger, queueVars
  <1>2. ASSUME NEW r \in Runs, RequestExecution(r) PROVE SInv'
    BY <1>2, <1>q DEF RequestExecution, Trigger
  <1>3. ASSUME NEW r \in Runs, NEW h \in Requests, ReceiveWebhook(h, r) \/ RequestAnalysis(h, r)
        PROVE  SInv'
    BY <1>3, <1>u DEF ReceiveWebhook, RequestAnalysis, BeginRequest, Trigger, queueVars
  <1>4. ASSUME NEW h \in Requests, CreateOrReuse(h) PROVE SInv'
    <2>1. request[h].run \in Runs
      BY <1>4, <1>t DEF CreateOrReuse, RequestAt, RequestHasRun
    <2> QED
      BY <2>1, <1>4, <1>i DEF CreateOrReuse, queueVars
  <1>5. ASSUME NEW h \in Requests, EnqueueRun(h) PROVE SInv'
    <2>1. request[h].run \in Runs
      BY <1>5, <1>t DEF EnqueueRun, RequestAt, RequestHasRun
    <2> QED
      BY <2>1, <1>5, <1>q DEF EnqueueRun
  <1>6. ASSUME NEW h \in Requests, RereadRun(h) \/ AbandonRequest(h) PROVE SInv'
    BY <1>6, <1>u DEF RereadRun, AbandonRequest, queueVars
  <1>7. ASSUME NEW w \in Workers, ClaimNextJob(w) PROVE SInv'
    BY <1>7, ClaimStep
  <1>8. ASSUME NEW w \in Workers, CheckRun(w) PROVE SInv'
    <2>1. PICK pc \in {"begin", "fail"} :
            Goto(w, pc) /\ (pc = "begin" => Executable(worker[w].run))
      BY <1>8 DEF CheckRun
    <2>2. worker[w].pc = "check" /\ UNCHANGED <<jobs, runs>>
      BY <1>8 DEF CheckRun, WorkerAt, queueVars
    <2>3. [worker[w] EXCEPT !.pc = pc].pc = pc
      BY <1>k, <2>2 DEF Worker
    <2>4. WorkerKnows([worker[w] EXCEPT !.pc = pc], runs[worker[w].run])
      BY <2>1, <2>3 DEF WorkerKnows, Executable, StatusIn, Gates
    <2> QED
      BY <2>1, <2>2, <2>4, MoveStep DEF WorkerPc
  <1>9. ASSUME NEW w \in Workers, TokenUnavailable(w) \/ DeadlineExceeded(w) \/ Raise(w)
        PROVE  SInv'
    <2>1. PICK pc \in {"error", "recover", "fail"} : Goto(w, pc)
      BY <1>9 DEF TokenUnavailable, DeadlineExceeded, Raise
    <2>2. worker[w].pc # "idle" /\ UNCHANGED <<jobs, runs>>
      BY <1>9 DEF TokenUnavailable, DeadlineExceeded, Raise, WorkerAt, queueVars, Gates
    <2>3. [worker[w] EXCEPT !.pc = pc].pc = pc
      BY <1>k, <2>2 DEF Worker
    <2>4. WorkerKnows([worker[w] EXCEPT !.pc = pc], runs[worker[w].run])
      BY <2>3 DEF WorkerKnows, Gates
    <2> QED
      BY <2>1, <2>2, <2>4, MoveStep DEF WorkerPc
  <1>10. ASSUME NEW w \in Workers, RefetchRun(w) PROVE SInv'
    <2>1. /\ worker[w].pc \in {"refetch", "recovered"}
          /\ Goto(w, "complete")
          /\ UNCHANGED <<jobs, runs>>
      BY <1>10 DEF RefetchRun, WorkerAt, queueVars
    <2>2. [worker[w] EXCEPT !.pc = "complete"].pc = "complete"
      BY <1>k, <2>1 DEF Worker
    <2>3. WorkerKnows([worker[w] EXCEPT !.pc = "complete"], runs[worker[w].run])
      BY <1>k, <2>1, <2>2 DEF WorkerKnows, Gates
    <2> QED
      BY <2>1, <2>3, MoveStep DEF WorkerPc
  <1>11. ASSUME NEW w \in Workers, BeginRun(w) PROVE SInv'
    <2> DEFINE exec == [worker[w] EXCEPT !.pc = "coverage", !.failed = FALSE]
    <2>1. /\ worker[w].pc = "begin"
          /\ runs' = [runs EXCEPT ![worker[w].run] = NewRun("running")]
          /\ worker' = [worker EXCEPT ![w] = exec]
          /\ UNCHANGED jobs
      BY <1>11 DEF BeginRun, WorkerAt, queueVars
    <2>2. exec.pc = "coverage" /\ exec.run = worker[w].run
      BY <1>k, <2>1 DEF Worker
    <2>3. EvidenceOf(exec, NewRun("running"))
      BY <1>k, <2>1, StartEvidence
    <2>4. WorkerKnows(exec, NewRun("running"))
      BY <2>2, <2>3 DEF WorkerKnows
    <2>5. DecisionSound(NewRun("running"))
      BY DEF DecisionSound, NewRun
    <2> HIDE DEF exec
    <2> QED
      BY <2>1, <2>2, <2>4, <2>5, OwnStep
  <1>12. ASSUME NEW w \in Workers, RunGate(w) PROVE SInv'
    <2> DEFINE r == worker[w].run
               g == worker[w].pc
    <2>1. PICK result \in Outcomes, blocks \in BOOLEAN :
            /\ result # "error" => blocks = (result = "fail")
            /\ runs' = [runs EXCEPT ![r] = WithResult(runs[r], g, result, blocks)]
            /\ worker' = [worker EXCEPT ![w] = AfterGate(worker[w], g, result)]
      BY <1>12, PipelineAssumption DEF RunGate, MayBlock, Recorded
    <2>2. g \in Gates /\ UNCHANGED jobs
      BY <1>12 DEF RunGate, WorkerAt, queueVars
    <2>3. /\ g # "idle"
          /\ runs[r] \in Run
          /\ worker[w] \in Worker
          /\ EvidenceOf(worker[w], runs[r])
      BY <1>k, <2>2 DEF Gates, WorkerKnows
    <2> DEFINE exec == AfterGate(worker[w], g, result)
               run == WithResult(runs[r], g, result, blocks)
    <2>4. /\ exec.pc = IF result = "error" THEN "error" ELSE NextPc[g]
          /\ exec.run = r
      BY <2>3 DEF AfterGate, Worker
    <2>5. exec.pc \in {"error", "security", "technical_debt", "verdict"}
      BY <2>2, <2>4 DEF NextPc, Gates
    <2>6. run.status = "running" /\ run.decision = "none"
      BY <2>3 DEF WithResult, Run, EvidenceOf
    <2>7. DecisionSound(run)
      BY <2>6 DEF DecisionSound
    <2>8. WorkerKnows(exec, run)
      <3>1. CASE result = "error"
        BY <3>1, <2>4 DEF WorkerKnows, Gates
      <3>2. CASE result # "error"
        <4>1. result \in {"pass", "fail", "skipped"}
          BY <3>2, PipelineAssumption DEF Recorded
        <4>2. EvidenceOf(exec, run)
          BY <4>1, <3>2, <2>1, <2>2, <2>3, GateEvidence
        <4> QED
          BY <4>2, <2>5 DEF WorkerKnows
      <3> QED
        BY <3>1, <3>2
    <2>9. exec.pc # "idle"
      BY <2>5
    <2>10. runs' = [runs EXCEPT ![worker[w].run] = run] /\ worker' = [worker EXCEPT ![w] = exec]
      BY <2>1
    <2> HIDE DEF exec, run
    <2> QED
      BY <2>2, <2>3, <2>4, <2>7, <2>8, <2>9, <2>10, OwnStep
  <1>13. ASSUME NEW w \in Workers, DecideRun(w) PROVE SInv'
    <2> DEFINE exec == [worker[w] EXCEPT !.pc = "refetch"]
               run == Finished(runs[worker[w].run], "completed",
                               IF worker[w].failed THEN "fail" ELSE "pass")
    <2>1. /\ worker[w].pc = "verdict"
          /\ runs' = [runs EXCEPT ![worker[w].run] = run]
          /\ worker' = [worker EXCEPT ![w] = exec]
          /\ UNCHANGED jobs
      BY <1>13 DEF DecideRun, WorkerAt, Goto, queueVars
    <2>2. exec.pc = "refetch" /\ exec.run = worker[w].run
      BY <1>k, <2>1 DEF Worker
    <2>3. EvidenceOf(worker[w], runs[worker[w].run])
      BY <1>k, <2>1 DEF WorkerKnows
    <2>4. DecisionSound(run)
      BY <1>k, <2>1, <2>3, VerdictIsSound
    <2>5. run.status = "completed"
      BY <1>k, <2>1 DEF Finished, Run
    <2>6. WorkerKnows(exec, run)
      BY <2>2, <2>5 DEF WorkerKnows, Gates
    <2> HIDE DEF exec, run
    <2> QED
      BY <2>1, <2>2, <2>4, <2>6, OwnStep
  <1>14. ASSUME NEW w \in Workers, FinishWithError(w) PROVE SInv'
    <2>1. PICK pc \in {"refetch", "recovered"} : Goto(w, pc)
      BY <1>14 DEF FinishWithError
    <2> DEFINE exec == [worker[w] EXCEPT !.pc = pc]
               run == Finished(runs[worker[w].run], "error", "none")
    <2>2. /\ worker[w].pc \in {"error", "recover"}
          /\ runs' = [runs EXCEPT ![worker[w].run] = run]
          /\ worker' = [worker EXCEPT ![w] = exec]
          /\ UNCHANGED jobs
      BY <1>14, <2>1 DEF FinishWithError, WorkerAt, Goto, queueVars
    <2>3. exec.pc = pc /\ exec.run = worker[w].run
      BY <1>k, <2>2 DEF Worker
    <2>4. DecisionSound(run)
      BY <1>k, <2>2, ErrorIsSound
    <2>5. run.status = "error"
      BY <1>k, <2>2 DEF Finished, Run
    <2>6. WorkerKnows(exec, run)
      BY <2>1, <2>3, <2>5 DEF WorkerKnows, Gates
    <2> HIDE DEF exec, run
    <2> QED
      BY <2>1, <2>2, <2>3, <2>4, <2>6, OwnStep
  <1>15. ASSUME NEW w \in Workers, CompleteJob(w) PROVE SInv'
    <2>1. /\ worker[w].pc = "complete"
          /\ Complete(worker[w].run)
          /\ worker' = [worker EXCEPT ![w] = IdleWorker]
          /\ UNCHANGED runs
      BY <1>15 DEF CompleteJob, WorkerAt
    <2>2. runs[worker[w].run].status \in {"completed", "error"}
      BY <1>k, <2>1 DEF WorkerKnows
    <2>3. \A q \in Runs \ {worker[w].run} : jobs'[q] = jobs[q]
      BY <1>k, <1>t, <2>1, ReportEffect
    <2> QED
      BY <2>1, <2>2, <2>3, ReleaseStep
  <1>16. ASSUME NEW w \in Workers, FailJob(w) PROVE SInv'
    <2>1. /\ worker[w].pc = "fail"
          /\ Fail(worker[w].run, TRUE)
          /\ worker' = [worker EXCEPT ![w] = IdleWorker]
          /\ UNCHANGED runs
      BY <1>16 DEF FailJob, WorkerAt
    <2>2. /\ \A q \in Runs \ {worker[w].run} : jobs'[q] = jobs[q]
          /\ jobs'[worker[w].run].status # "completed"
      BY <1>k, <1>t, <2>1, ReportEffect
    <2> QED
      BY <2>1, <2>2, ReleaseStep
  <1>17. ASSUME NEW w \in Workers, CrashWorker(w) PROVE SInv'
    <2>1. /\ worker[w].pc # "idle"
          /\ worker' = [worker EXCEPT ![w] = IdleWorker]
          /\ UNCHANGED <<jobs, runs>>
      BY <1>17 DEF CrashWorker, WorkerAt, queueVars
    <2>2. jobs'[worker[w].run].status # "completed"
      BY <1>k, <2>1
    <2> QED
      BY <2>1, <2>2, ReleaseStep
  <1>18. ASSUME NEW r \in Runs, RunGrowsStale(r) PROVE SInv'
    <2>1. \A q \in Runs : \/ runs'[q] = runs[q]
                          \/ /\ runs[q].status = "running"
                             /\ runs'[q] = [runs[q] EXCEPT !.stale = TRUE]
      BY <1>18, <1>t DEF RunGrowsStale, StatusIn
    <2> QED
      BY <2>1, <1>18, ForeignStep DEF RunGrowsStale, queueVars
  <1>19. CASE UNCHANGED vars
    BY <1>19, <1>u DEF vars
  <1>20. ASSUME NEW w \in Workers, WorkerStep(w) PROVE SInv'
    BY <1>7, <1>8, <1>9, <1>10, <1>11, <1>12, <1>13, <1>14, <1>15, <1>16, <1>20
    DEF WorkerStep, ExecutionStep
  <1> QED
    BY <1>1, <1>2, <1>3, <1>4, <1>5, <1>6, <1>17, <1>18, <1>19, <1>20
    DEF Next, TriggerStep, RequestStep

(* The strengthening is an invariant of the pipeline.                      *)
THEOREM Invariance == Spec => []IInv
  <1>1. Init => IInv
    BY InitTInv, InitSInv DEF IInv
  <1>2. IInv /\ [Next]_vars => IInv'
    BY NextTInv, NextSInv DEF IInv
  <1> QED
    BY <1>1, <1>2, PTL DEF Spec

(* However many workers and requests interleave, crash and retry, a run is *)
(* executed by at most one worker, which holds its job.                    *)
THEOREM OneExecutorPerRun == Spec => []SoleExecutor
  <1>1. IInv => SoleExecutor
    BY DEF IInv, SInv
  <1> QED
    BY <1>1, Invariance, PTL

(* A run has a decision exactly when it is completed, and the evidence     *)
(* stored with it supports the decision.                                   *)
THEOREM DecisionsAreSound == Spec => []DecisionMatchesEvidence
  <1>1. IInv => DecisionMatchesEvidence
    BY DEF IInv, SInv
  <1> QED
    BY <1>1, Invariance, PTL

(* The evidence in a row is that of the execution under way.               *)
THEOREM EvidenceIsFresh == Spec => []EvidenceIsOfThisExecution
  <1>1. IInv => EvidenceIsOfThisExecution
    BY DEF IInv, SInv, KnowledgeStands, WorkerKnows, EvidenceIsOfThisExecution,
           WorkerAt, Gates
  <1> QED
    BY <1>1, Invariance, PTL

(* A job is never reported as completed while its run has no outcome.      *)
THEOREM CompletedJobsHaveOutcome == Spec => []CompletedJobHasOutcome
  <1>1. IInv => CompletedJobHasOutcome
    BY DEF IInv, SInv
  <1> QED
    BY <1>1, Invariance, PTL

(* The actions that change a row of analysis_runs.                         *)
LEMMA RowWriters ==
    ASSUME Next, runs' # runs
    PROVE  \/ \E q \in Runs : ReceiveWebhookWithoutContext(q) \/ RunGrowsStale(q)
           \/ \E h \in Requests : CreateOrReuse(h)
           \/ \E w \in Workers : BeginRun(w) \/ RunGate(w) \/ DecideRun(w) \/ FinishWithError(w)
  <1>1. CASE TriggerStep
    BY <1>1 DEF TriggerStep, ReceiveWebhook, RequestAnalysis, RequestExecution, BeginRequest
  <1>2. CASE \E h \in Requests : RequestStep(h) \/ AbandonRequest(h)
    BY <1>2 DEF RequestStep, RereadRun, EnqueueRun, AbandonRequest
  <1>3. CASE \E w \in Workers : WorkerStep(w) \/ CrashWorker(w)
    <2>1. PICK w \in Workers : WorkerStep(w) \/ CrashWorker(w)
      BY <1>3
    <2>2. ~CompleteJob(w) /\ ~FailJob(w) /\ ~CrashWorker(w)
      BY DEF CompleteJob, FailJob, CrashWorker
    <2>3. ~ClaimNextJob(w)
      BY Zenon DEF ClaimNextJob
    <2>4. ~CheckRun(w) /\ ~TokenUnavailable(w) /\ ~DeadlineExceeded(w) /\ ~Raise(w)
          /\ ~RefetchRun(w)
      BY DEF CheckRun, TokenUnavailable, DeadlineExceeded, Raise, RefetchRun
    <2> QED
      BY <2>1, <2>2, <2>3, <2>4 DEF WorkerStep, ExecutionStep
  <1>4. CASE \E q \in Runs : RunGrowsStale(q)
    BY <1>4
  <1> QED
    BY <1>1, <1>2, <1>3, <1>4 DEF Next

(* The actions that change a job.                                          *)
LEMMA JobWriters ==
    ASSUME Next, jobs' # jobs
    PROVE  \/ \E q \in Runs : RequestExecution(q)
           \/ \E h \in Requests : EnqueueRun(h)
           \/ \E w \in Workers : ClaimNextJob(w) \/ CompleteJob(w) \/ FailJob(w)
  <1>1. CASE TriggerStep
    BY <1>1 DEF TriggerStep, ReceiveWebhook, RequestAnalysis, BeginRequest,
                ReceiveWebhookWithoutContext, queueVars
  <1>2. CASE \E h \in Requests : RequestStep(h) \/ AbandonRequest(h)
    BY <1>2 DEF RequestStep, CreateOrReuse, RereadRun, AbandonRequest, queueVars
  <1>3. CASE \E w \in Workers : WorkerStep(w) \/ CrashWorker(w)
    <2>1. PICK w \in Workers : WorkerStep(w) \/ CrashWorker(w)
      BY <1>3
    <2>2. ~CheckRun(w) /\ ~TokenUnavailable(w) /\ ~BeginRun(w) /\ ~DeadlineExceeded(w)
          /\ ~DecideRun(w) /\ ~FinishWithError(w) /\ ~Raise(w) /\ ~RefetchRun(w)
      BY DEF CheckRun, TokenUnavailable, BeginRun, DeadlineExceeded, DecideRun,
             FinishWithError, Raise, RefetchRun, queueVars
    <2>3. ~RunGate(w) /\ ~CrashWorker(w)
      BY Zenon DEF RunGate, CrashWorker, queueVars
    <2> QED
      BY <2>1, <2>2, <2>3 DEF WorkerStep, ExecutionStep
  <1>4. CASE \E q \in Runs : RunGrowsStale(q)
    BY <1>4 DEF RunGrowsStale, queueVars
  <1> QED
    BY <1>1, <1>2, <1>3, <1>4 DEF Next

(* The actions that change what a handler is about to do.                  *)
LEMMA RequestWriters ==
    ASSUME request \in [Requests -> Request], Next,
           NEW h \in Requests, request'[h] # request[h]
    PROVE  \/ \E r \in Runs : ReceiveWebhook(h, r) \/ RequestAnalysis(h, r)
           \/ CreateOrReuse(h) \/ RereadRun(h) \/ EnqueueRun(h) \/ AbandonRequest(h)
  <1>1. CASE TriggerStep
    <2>1. ASSUME NEW r \in Runs, ReceiveWebhookWithoutContext(r) \/ RequestExecution(r)
          PROVE  FALSE
      BY <2>1 DEF ReceiveWebhookWithoutContext, RequestExecution
    <2>2. ASSUME NEW r \in Runs, NEW g \in Requests,
                 ReceiveWebhook(g, r) \/ RequestAnalysis(g, r)
          PROVE  g = h
      BY <2>2 DEF ReceiveWebhook, RequestAnalysis, BeginRequest
    <2> QED
      BY <1>1, <2>1, <2>2 DEF TriggerStep
  <1>2. CASE \E g \in Requests : RequestStep(g) \/ AbandonRequest(g)
    <2>1. PICK g \in Requests : RequestStep(g) \/ AbandonRequest(g)
      BY <1>2
    <2>2. g = h
      BY <2>1 DEF RequestStep, CreateOrReuse, RereadRun, EnqueueRun, AbandonRequest
    <2> QED
      BY <2>1, <2>2 DEF RequestStep
  <1>3. CASE \E w \in Workers : WorkerStep(w) \/ CrashWorker(w)
    <2>1. PICK w \in Workers : WorkerStep(w) \/ CrashWorker(w)
      BY <1>3
    <2>2. request' = request
      BY <2>1 DEF WorkerStep, ExecutionStep, ClaimNextJob, CheckRun, TokenUnavailable,
         BeginRun, RunGate, DeadlineExceeded, DecideRun, FinishWithError, Raise,
         RefetchRun, CompleteJob, FailJob, CrashWorker, Elsewhere
    <2> QED
      BY <2>2
  <1>4. CASE \E q \in Runs : RunGrowsStale(q)
    BY <1>4 DEF RunGrowsStale
  <1> QED
    BY <1>1, <1>2, <1>3, <1>4 DEF Next

(* What a step may do to a row that is completed.                          *)
FinalUnlessHeld ==
    \A r \in Runs :
        StatusIn(r, {"completed"}) /\ runs'[r] # runs[r] =>
            /\ JobIn(r, {"running"})
            /\ runs'[r].status = "error"

(* Only the error path touches a completed row, and whoever takes it holds *)
(* the job: a worker that begins a run saw a state that is not completed,  *)
(* and by SoleExecutor that is still the state.                            *)
LEMMA NextFinal == IInv /\ [Next]_vars => FinalUnlessHeld
  <1> SUFFICES ASSUME IInv, [Next]_vars, NEW r \in Runs,
                      StatusIn(r, {"completed"}), runs'[r] # runs[r]
               PROVE  JobIn(r, {"running"}) /\ runs'[r].status = "error"
    BY DEF FinalUnlessHeld
  <1> USE DEF StatusIn
  <1>t. /\ runs \in [Runs -> Run]
        /\ \A w \in Workers : worker[w].pc # "idle" => worker[w].run \in Runs
    BY DEF IInv, TInv, TypeOK, BusyHasRun
  <1>k. ASSUME NEW w \in Workers, worker[w].pc # "idle"
        PROVE  /\ WorkerKnows(worker[w], runs[worker[w].run])
               /\ JobIn(worker[w].run, {"running"})
    BY <1>k DEF IInv, SInv, KnowledgeStands, SoleExecutor, WorkerAt
  <1>i. ASSUME NEW q \in Runs, NEW status, InsertIfAbsent(q, status)
        PROVE  FALSE
    BY <1>i, <1>t DEF InsertIfAbsent
  <1>1. ASSUME NEW q \in Runs, ReceiveWebhookWithoutContext(q) PROVE FALSE
    BY <1>1, <1>i DEF ReceiveWebhookWithoutContext
  <1>2. ASSUME NEW h \in Requests, CreateOrReuse(h) PROVE FALSE
    BY <1>2, <1>i DEF CreateOrReuse, IInv, TInv, RequestHasRun, RequestAt
  <1>3. ASSUME NEW w \in Workers, BeginRun(w) PROVE FALSE
    <2>1. worker[w].pc = "begin"
      BY <1>3 DEF BeginRun, WorkerAt
    <2>2. runs[worker[w].run].status # "completed"
      BY <2>1, <1>k DEF WorkerKnows
    <2> QED
      BY <1>3, <2>2, <1>t DEF BeginRun
  <1>4. ASSUME NEW w \in Workers, WorkerAt(w, Gates \cup {"verdict"})
        PROVE  runs[worker[w].run].status = "running"
    BY <1>4, <1>k DEF WorkerKnows, EvidenceOf, WorkerAt, Gates
  <1>5. ASSUME NEW w \in Workers, RunGate(w) PROVE FALSE
    <2>1. runs[worker[w].run].status = "running"
      BY <1>5, <1>4 DEF RunGate, WorkerAt
    <2> QED
      BY <1>5, <2>1, <1>t DEF RunGate
  <1>6. ASSUME NEW w \in Workers, DecideRun(w) PROVE FALSE
    <2>1. runs[worker[w].run].status = "running"
      BY <1>6, <1>4 DEF DecideRun, WorkerAt
    <2> QED
      BY <1>6, <2>1, <1>t DEF DecideRun
  <1>7. ASSUME NEW w \in Workers, FinishWithError(w)
        PROVE  JobIn(r, {"running"}) /\ runs'[r].status = "error"
    <2>1. worker[w].pc \in {"error", "recover"}
      BY <1>7 DEF FinishWithError, WorkerAt
    <2>2. r = worker[w].run
      BY <1>7, <1>t DEF FinishWithError
    <2>3. runs'[r] = Finished(runs[r], "error", "none")
      BY <1>7, <2>2, <1>t DEF FinishWithError
    <2>4. runs'[r].status = "error"
      BY <2>3, <1>t DEF Finished, Run
    <2> QED
      BY <2>1, <2>2, <2>4, <1>k
  <1>8. ASSUME NEW q \in Runs, RunGrowsStale(q) PROVE FALSE
    BY <1>8, <1>t DEF RunGrowsStale
  <1>9. Next /\ runs' # runs
    BY DEF vars
  <1> QED
    BY <1>1, <1>2, <1>3, <1>5, <1>6, <1>7, <1>8, <1>9, RowWriters

(* A completed run is never executed again.                                *)
THEOREM CompletedRunsAreFinal == Spec => CompletedIsFinal
  <1>1. IInv /\ [Next]_vars => [FinalUnlessHeld]_vars
    BY NextFinal
  <1>2. [][FinalUnlessHeld]_vars => CompletedIsFinal
    BY PTL DEF FinalUnlessHeld, CompletedIsFinal
  <1> QED
    BY <1>1, <1>2, Invariance, PTL DEF Spec

-----------------------------------------------------------------------------
(* What the refinement needs beyond IInv: jobs and handlers that are about *)
(* to enqueue belong to runs that exist, and an execution that is about to *)
(* record an error has a run that was started.                             *)

JobHasRun == \A r \in Runs : jobs[r].status # "absent" => runs[r].status # "absent"

EnqueuerHasRun ==
    \A h \in Requests : request[h].pc \in {"reread", "enqueue"} =>
        runs[request[h].run].status # "absent"

ErrorHasStarted ==
    \A w \in Workers : worker[w].pc \in {"error", "recover"} =>
        runs[worker[w].run].status \in {"running", "completed", "error"}

RInv == JobHasRun /\ EnqueuerHasRun /\ ErrorHasStarted

(* The two components of the refinement mapping.                           *)
outcomeMap == [r \in Runs |-> OutcomeOf(runs[r])]
activeSet == {r \in Runs : jobs[r].status = "running"}

-----------------------------------------------------------------------------
LEMMA InitRInv == Init => RInv
  <1> SUFFICES ASSUME Init PROVE RInv
    OBVIOUS
  <1>1. /\ \A r \in Runs : jobs[r].status = "absent"
        /\ \A h \in Requests : request[h].pc = "idle"
        /\ \A w \in Workers : worker[w].pc = "idle"
    BY DEF Init, QueueInit, NoJob, IdleRequest, IdleWorker
  <1> QED
    BY <1>1 DEF RInv, JobHasRun, EnqueuerHasRun, ErrorHasStarted

(* The rows a step may write: one that is created, one that a worker with  *)
(* the run of the row writes, or one that grows stale.                     *)
RowStep ==
    /\ \A r \in Runs : runs[r].status # "absent" => runs'[r].status # "absent"
    /\ \A r \in Runs : runs[r].status \in {"running", "completed", "error"} =>
                       runs'[r].status \in {"running", "completed", "error"}

LEMMA NextRowStep == IInv /\ [Next]_vars => RowStep
  <1> SUFFICES ASSUME IInv, [Next]_vars PROVE RowStep
    OBVIOUS
  <1>t. /\ runs \in [Runs -> Run]
        /\ \A w \in Workers : worker[w].pc # "idle" => worker[w].run \in Runs
    BY DEF IInv, TInv, TypeOK, BusyHasRun
  <1> USE DEF RowStep
  <1>u. CASE runs' = runs
    BY <1>u
  <1>i. ASSUME NEW q \in Runs, NEW status, InsertIfAbsent(q, status), status # "absent"
        PROVE  RowStep
    BY <1>i, <1>t DEF InsertIfAbsent, NewRun, StatusIn
  <1>w. ASSUME NEW q \in Runs, NEW row, runs' = [runs EXCEPT ![q] = row],
               row.status \in {"running", "completed", "error"}
        PROVE  RowStep
    BY <1>w, <1>t
  <1>1. ASSUME NEW q \in Runs, ReceiveWebhookWithoutContext(q) PROVE RowStep
    BY <1>1, <1>i DEF ReceiveWebhookWithoutContext
  <1>2. ASSUME NEW h \in Requests, CreateOrReuse(h) PROVE RowStep
    BY <1>2, <1>i DEF CreateOrReuse, IInv, TInv, RequestHasRun, RequestAt
  <1>3. ASSUME NEW w \in Workers, BeginRun(w) PROVE RowStep
    BY <1>3, <1>t, <1>w DEF BeginRun, WorkerAt, NewRun
  <1>4. ASSUME NEW w \in Workers, RunGate(w) PROVE RowStep
    <2>1. worker[w].run \in Runs /\ worker[w].pc \in Gates
      BY <1>4, <1>t DEF RunGate, WorkerAt, Gates
    <2>2. runs[worker[w].run].status = "running"
      BY <2>1 DEF IInv, SInv, KnowledgeStands, WorkerKnows, EvidenceOf, Gates
    <2>3. PICK result \in Outcomes, blocks \in BOOLEAN :
            runs' = [runs EXCEPT ![worker[w].run] =
                       WithResult(@, worker[w].pc, result, blocks)]
      BY <1>4 DEF RunGate, MayBlock
    <2>4. WithResult(runs[worker[w].run], worker[w].pc, result, blocks).status
             = runs[worker[w].run].status
      BY <2>1, <1>t DEF WithResult, Run
    <2> QED
      BY <2>1, <2>2, <2>3, <2>4, <1>w
  <1>5. ASSUME NEW w \in Workers, DecideRun(w) PROVE RowStep
    <2>1. worker[w].run \in Runs
      BY <1>5, <1>t DEF DecideRun, WorkerAt
    <2>2. \A decision : Finished(runs[worker[w].run], "completed", decision).status = "completed"
      BY <2>1, <1>t DEF Finished, Run
    <2> QED
      BY <1>5, <2>1, <2>2, <1>w DEF DecideRun
  <1>6. ASSUME NEW w \in Workers, FinishWithError(w) PROVE RowStep
    <2>1. worker[w].run \in Runs
      BY <1>6, <1>t DEF FinishWithError, WorkerAt
    <2>2. Finished(runs[worker[w].run], "error", "none").status = "error"
      BY <2>1, <1>t DEF Finished, Run
    <2> QED
      BY <1>6, <2>1, <2>2, <1>w DEF FinishWithError
  <1>7. ASSUME NEW q \in Runs, RunGrowsStale(q) PROVE RowStep
    BY <1>7, <1>t DEF RunGrowsStale, StatusIn, Run
  <1>8. CASE Next /\ runs' # runs
    BY <1>1, <1>2, <1>3, <1>4, <1>5, <1>6, <1>7, <1>8, RowWriters
  <1> QED
    BY <1>u, <1>8 DEF vars

(* Jobs are inserted by the execute endpoint, for a run it has read, and   *)
(* by a handler that has read its run back.                                *)
LEMMA NextJobHasRun == IInv /\ RInv /\ [Next]_vars => JobHasRun'
  <1> SUFFICES ASSUME IInv, RInv, [Next]_vars, NEW r \in Runs, jobs'[r].status # "absent"
               PROVE  runs'[r].status # "absent"
    BY DEF JobHasRun
  <1>t. /\ QueueTypeOK
        /\ \A w \in Workers : worker[w].pc # "idle" =>
             worker[w].run \in Runs /\ jobs[worker[w].run].status = "running"
        /\ \A h \in Requests : request[h].pc # "idle" => request[h].run \in Runs
    BY DEF IInv, TInv, SInv, TypeOK, BusyHasRun, RequestHasRun, SoleExecutor, WorkerAt, JobIn
  <1>o. CASE jobs[r].status # "absent"
    BY <1>o, NextRowStep DEF RInv, JobHasRun, RowStep
  <1>n. CASE jobs[r].status = "absent"
    <2> USE <1>n
    <2>e. ASSUME NEW q \in Runs, Enqueue(q) PROVE q = r
      BY <2>e, <1>t DEF Enqueue, QueueTypeOK
    <2>1. CASE \E q \in Runs : RequestExecution(q)
      BY <2>1, <2>e, NextRowStep DEF RequestExecution, RowStep, StatusIn
    <2>2. CASE \E h \in Requests : EnqueueRun(h)
      <3>1. PICK h \in Requests : EnqueueRun(h)
        BY <2>2
      <3>2. request[h].pc = "enqueue" /\ request[h].run = r
        BY <3>1, <2>e, <1>t DEF EnqueueRun, RequestAt
      <3> QED
        BY <3>2, NextRowStep DEF RInv, EnqueuerHasRun, RowStep
    <2>3. ASSUME NEW w \in Workers, ClaimNextJob(w) PROVE FALSE
      BY <2>3, <1>t, ClaimEffect DEF ClaimNextJob
    <2>4. ASSUME NEW w \in Workers, CompleteJob(w) \/ FailJob(w) PROVE FALSE
      <3>1. worker[w].run \in Runs /\ jobs[worker[w].run].status = "running"
        BY <2>4, <1>t DEF CompleteJob, FailJob, WorkerAt
      <3>2. Complete(worker[w].run) \/ Fail(worker[w].run, TRUE)
        BY <2>4 DEF CompleteJob, FailJob
      <3> QED
        BY <3>1, <3>2, <1>t, ReportEffect
    <2>5. jobs' # jobs /\ Next
      BY DEF vars
    <2> QED
      BY <2>1, <2>2, <2>3, <2>4, <2>5, JobWriters
  <1> QED
    BY <1>o, <1>n

(* A handler reads its run back after it has created or found it.          *)
LEMMA NextEnqueuerHasRun == IInv /\ RInv /\ [Next]_vars => EnqueuerHasRun'
  <1> SUFFICES ASSUME IInv, RInv, [Next]_vars, NEW h \in Requests,
                      request'[h].pc \in {"reread", "enqueue"}
               PROVE  runs'[request'[h].run].status # "absent"
    BY DEF EnqueuerHasRun
  <1>t. /\ request \in [Requests -> Request]
        /\ runs \in [Runs -> Run]
        /\ \A g \in Requests : request[g].pc # "idle" => request[g].run \in Runs
    BY DEF IInv, TInv, TypeOK, RequestHasRun
  <1>1. CASE request[h].pc \in {"reread", "enqueue"} /\ request'[h].run = request[h].run
    BY <1>1, <1>t, NextRowStep DEF RInv, EnqueuerHasRun, RowStep
  <1>2. CASE CreateOrReuse(h)
    <2>1. request[h].run \in Runs /\ request'[h].run = request[h].run
      BY <1>2, <1>t DEF CreateOrReuse, RequestAt, Request
    <2> QED
      BY <1>2, <1>t, <2>1 DEF CreateOrReuse, InsertIfAbsent, StatusIn, NewRun
  <1>3. CASE request'[h] = request[h]
    BY <1>1, <1>3
  <1>4. ASSUME request'[h] # request[h]
        PROVE  CreateOrReuse(h) \/ RereadRun(h)
    <2>1. Next
      BY <1>4 DEF vars
    <2>2. ASSUME NEW r \in Runs PROVE ~ReceiveWebhook(h, r) /\ ~RequestAnalysis(h, r)
      BY <1>t DEF ReceiveWebhook, RequestAnalysis, BeginRequest
    <2>3. ~AbandonRequest(h) /\ ~EnqueueRun(h)
      BY <1>t DEF AbandonRequest, EnqueueRun, IdleRequest
    <2> QED
      BY <1>t, <1>4, <2>1, <2>2, <2>3, RequestWriters
  <1>5. CASE RereadRun(h)
    <2>1. request[h].pc = "reread"
      BY <1>5 DEF RereadRun, RequestAt
    <2>2. request'[h].run = request[h].run
      BY <1>5, <1>t DEF RereadRun, Request, IdleRequest
    <2> QED
      BY <2>1, <2>2, <1>1
  <1> QED
    BY <1>2, <1>3, <1>4, <1>5

(* Only an execution that was begun comes to the error path.               *)
LEMMA NextErrorHasStarted == IInv /\ RInv /\ [Next]_vars => ErrorHasStarted'
  <1> SUFFICES ASSUME IInv, RInv, [Next]_vars, NEW w \in Workers,
                      worker'[w].pc \in {"error", "recover"}
               PROVE  runs'[worker'[w].run].status \in {"running", "completed", "error"}
    BY DEF ErrorHasStarted
  <1>t. /\ worker \in [Workers -> Worker]
        /\ \A v \in Workers : worker[v].pc # "idle" => worker[v].run \in Runs
    BY DEF IInv, TInv, TypeOK, BusyHasRun
  <1>1. ASSUME worker'[w].run = worker[w].run,
               worker[w].pc \in Gates \cup {"verdict", "error", "refetch", "recover"}
        PROVE  runs'[worker'[w].run].status \in {"running", "completed", "error"}
    <2>1. worker[w].run \in Runs /\ WorkerKnows(worker[w], runs[worker[w].run])
      BY <1>1, <1>t DEF Gates, IInv, SInv, KnowledgeStands
    <2>2. runs[worker[w].run].status \in {"running", "completed", "error"}
      BY <1>1, <2>1 DEF WorkerKnows, EvidenceOf, RInv, ErrorHasStarted
    <2> QED
      BY <1>1, <2>1, <2>2, NextRowStep DEF RowStep
  <1>2. CASE worker'[w] = worker[w]
    BY <1>1, <1>2
  <1>3. ASSUME worker'[w] # worker[w] PROVE WorkerStep(w) \/ CrashWorker(w)
    <2> USE <1>3
    <2>1. CASE TriggerStep
      BY <2>1 DEF TriggerStep, ReceiveWebhook, RequestAnalysis, BeginRequest,
         ReceiveWebhookWithoutContext, RequestExecution, Trigger
    <2>2. CASE \E h \in Requests : RequestStep(h) \/ AbandonRequest(h)
      BY <2>2 DEF RequestStep, CreateOrReuse, RereadRun, EnqueueRun, AbandonRequest
    <2>3. CASE \E v \in Workers : WorkerStep(v) \/ CrashWorker(v)
      <3>1. PICK v \in Workers : WorkerStep(v) \/ CrashWorker(v)
        BY <2>3
      <3>2. \E exec : worker' = [worker EXCEPT ![v] = exec]
        <4>1. CASE RunGate(v)
          BY <4>1, Zenon DEF RunGate
        <4>2. CASE ClaimNextJob(v)
          BY <4>2, Zenon DEF ClaimNextJob
        <4>3. CASE CheckRun(v) \/ TokenUnavailable(v) \/ DeadlineExceeded(v) \/ DecideRun(v)
                   \/ FinishWithError(v) \/ Raise(v) \/ RefetchRun(v)
          <5>1. \E pc : Goto(v, pc)
            BY <4>3, Zenon DEF CheckRun, TokenUnavailable, DeadlineExceeded, DecideRun,
                               FinishWithError, Raise, RefetchRun
          <5> QED
            BY <5>1, Zenon DEF Goto
        <4>4. CASE BeginRun(v) \/ CompleteJob(v) \/ FailJob(v) \/ CrashWorker(v)
          BY <4>4, Zenon DEF BeginRun, CompleteJob, FailJob, CrashWorker
        <4> QED
          BY <3>1, <4>1, <4>2, <4>3, <4>4 DEF WorkerStep, ExecutionStep
      <3>3. v = w
        BY <3>2, <1>t
      <3> QED
        BY <3>1, <3>3
    <2>4. CASE \E q \in Runs : RunGrowsStale(q)
      BY <2>4 DEF RunGrowsStale
    <2> QED
      BY <2>1, <2>2, <2>3, <2>4 DEF Next, vars
  <1>4. ASSUME NEW pc, Goto(w, pc)
        PROVE  worker'[w].run = worker[w].run /\ worker'[w].pc = pc
    BY <1>4, <1>t DEF Goto, Worker
  <1>5. CASE RunGate(w)
    <2>1. worker[w].pc \in Gates
      BY <1>5 DEF RunGate, WorkerAt
    <2>2. worker'[w].run = worker[w].run
      BY <1>5, <1>t DEF RunGate, AfterGate, Worker
    <2> QED
      BY <1>1, <2>1, <2>2
  <1>6. CASE DeadlineExceeded(w) \/ Raise(w)
    <2>1. worker[w].pc \in Gates \cup {"verdict", "error", "refetch", "recover"}
      BY <1>4, <1>6 DEF DeadlineExceeded, Raise, WorkerAt
    <2>2. worker'[w].run = worker[w].run
      BY <1>4, <1>6 DEF DeadlineExceeded, Raise
    <2> QED
      BY <1>1, <2>1, <2>2
  <1>7. ~CheckRun(w) /\ ~TokenUnavailable(w) /\ ~DecideRun(w) /\ ~FinishWithError(w)
        /\ ~RefetchRun(w)
    BY <1>4 DEF CheckRun, TokenUnavailable, DecideRun, FinishWithError, RefetchRun
  <1>8. ~BeginRun(w)
    <2>1. ASSUME BeginRun(w) PROVE FALSE
      <3>1. worker' = [worker EXCEPT ![w] =
                         [worker[w] EXCEPT !.pc = "coverage", !.failed = FALSE]]
        BY <2>1, Zenon DEF BeginRun
      <3>2. [worker[w] EXCEPT !.pc = "coverage", !.failed = FALSE].pc = "coverage"
        BY <1>t DEF Worker
      <3>3. worker'[w].pc = "coverage"
        BY <3>1, <3>2, <1>t
      <3> QED
        BY <3>3
    <2> QED
      BY <2>1
  <1>9. ~ClaimNextJob(w)
    <2>1. ASSUME ClaimNextJob(w) PROVE FALSE
      <3>1. PICK r \in Runs :
              worker' = [worker EXCEPT ![w] = [IdleWorker EXCEPT !.pc = "check", !.run = r]]
        BY <2>1, Zenon DEF ClaimNextJob
      <3> QED
        BY <3>1, <1>t DEF IdleWorker
    <2> QED
      BY <2>1
  <1>10. ~CompleteJob(w) /\ ~FailJob(w) /\ ~CrashWorker(w)
    <2>1. worker' # [worker EXCEPT ![w] = IdleWorker]
      BY <1>t DEF IdleWorker
    <2> QED
      BY <2>1, Zenon DEF CompleteJob, FailJob, CrashWorker
  <1> QED
    BY <1>2, <1>3, <1>5, <1>6, <1>7, <1>8, <1>9, <1>10 DEF WorkerStep, ExecutionStep

(* In every reachable state the invariant of AnalysisPipeline_proofs holds,*)
(* and jobs, handlers about to enqueue and executions about to record an   *)
(* error belong to runs that exist (and, the last, were started).          *)
THEOREM RefinementInvariance == Spec => [](IInv /\ RInv)
  <1>1. Init => RInv
    BY InitRInv
  <1>2. IInv /\ RInv /\ [Next]_vars => RInv'
    BY NextJobHasRun, NextEnqueuerHasRun, NextErrorHasStarted DEF RInv
  <1> QED
    BY <1>1, <1>2, Invariance, PTL DEF Spec

-----------------------------------------------------------------------------
(* How the steps look through the refinement mapping.                      *)

(* Writing one row changes one outcome.                                    *)
LEMMA OutcomeOfWrite ==
    ASSUME runs \in [Runs -> Run], NEW r \in Runs, NEW row,
           runs' = [runs EXCEPT ![r] = row]
    PROVE  outcomeMap' = [outcomeMap EXCEPT ![r] = OutcomeOf(row)]
  BY DEF outcomeMap

(* A row that is inserted, if it is.                                       *)
LEMMA OutcomeOfInsert ==
    ASSUME runs \in [Runs -> Run], NEW r \in Runs, NEW status \in {"pending", "error"},
           InsertIfAbsent(r, status)
    PROVE  \/ outcomeMap' = outcomeMap
           \/ /\ outcomeMap[r] = "absent"
              /\ outcomeMap' = [outcomeMap EXCEPT ![r] = status]
  <1>1. CASE runs[r].status = "absent"
    <2>1. runs' = [runs EXCEPT ![r] = NewRun(status)]
      BY <1>1 DEF InsertIfAbsent, StatusIn
    <2>2. outcomeMap' = [outcomeMap EXCEPT ![r] = OutcomeOf(NewRun(status))]
      BY <2>1, OutcomeOfWrite
    <2>3. OutcomeOf(NewRun(status)) = status /\ outcomeMap[r] = "absent"
      BY <1>1 DEF OutcomeOf, NewRun, outcomeMap
    <2> QED
      BY <2>2, <2>3
  <1>2. CASE runs[r].status # "absent"
    <2>1. runs' = runs
      BY <1>2 DEF InsertIfAbsent, StatusIn
    <2> QED
      BY <2>1 DEF outcomeMap
  <1> QED
    BY <1>1, <1>2

(* Enqueuing a run makes nobody active; a claim does; a report ends it.    *)
LEMMA ActiveAfterEnqueue ==
    ASSUME QueueTypeOK, NEW r \in Runs, Enqueue(r)
    PROVE  activeSet' = activeSet
  BY DEF Enqueue, QueueTypeOK, JobIn, TerminalJob, FreshJob, activeSet

LEMMA ActiveAfterClaim ==
    ASSUME QueueTypeOK, NEW r \in Runs, Claim(r)
    PROVE  r \notin activeSet /\ activeSet' = activeSet \cup {r}
  BY ClaimEffect DEF activeSet

LEMMA ActiveAfterReport ==
    ASSUME QueueTypeOK, NEW r \in Runs, jobs[r].status = "running",
           Complete(r) \/ Fail(r, TRUE)
    PROVE  r \in activeSet /\ activeSet' = activeSet \ {r}
  BY ReportEffect DEF activeSet

-----------------------------------------------------------------------------
LEMMA InitLifecycle == Init => Lifecycle!LifecycleInit
  <1> SUFFICES ASSUME Init PROVE Lifecycle!LifecycleInit
    OBVIOUS
  <1>1. \A r \in Runs : jobs[r].status = "absent" /\ OutcomeOf(runs[r]) = "absent"
    BY DEF Init, QueueInit, NoJob, NewRun, OutcomeOf
  <1> QED
    BY <1>1 DEF Lifecycle!LifecycleInit, JobIn

(* A step of a worker that writes its run's row, as the lifecycle sees it. *)
LEMMA ExecutionRefines ==
    ASSUME IInv, RInv, NEW w \in Workers, ExecutionStep(w)
    PROVE  /\ activeSet' = activeSet
           /\ \/ outcomeMap' = outcomeMap
              \/ /\ worker[w].run \in activeSet
                 /\ \/ /\ outcomeMap[worker[w].run] \in {"pending", "error", "running"}
                       /\ outcomeMap' = [outcomeMap EXCEPT ![worker[w].run] = "running"]
                    \/ /\ outcomeMap[worker[w].run] = "running"
                       /\ \E verdict \in {"pass", "fail"} :
                            outcomeMap' = [outcomeMap EXCEPT ![worker[w].run] = verdict]
                    \/ /\ outcomeMap[worker[w].run] \in {"running", "error", "pass", "fail"}
                       /\ outcomeMap' = [outcomeMap EXCEPT ![worker[w].run] = "error"]
  <1> DEFINE r == worker[w].run
  <1>b. worker[w].pc # "idle"
    BY DEF ExecutionStep, CheckRun, TokenUnavailable, BeginRun, RunGate, DeadlineExceeded,
           DecideRun, FinishWithError, Raise, RefetchRun, WorkerAt, Gates
  <1>t. /\ runs \in [Runs -> Run]
        /\ r \in Runs
        /\ jobs[r].status = "running"
        /\ WorkerKnows(worker[w], runs[r])
        /\ DecisionSound(runs[r])
    BY <1>b DEF IInv, TInv, SInv, TypeOK, BusyHasRun, SoleExecutor, KnowledgeStands,
                WorkerAt, JobIn, DecisionMatchesEvidence
  <1>j. UNCHANGED jobs
    BY Zenon DEF ExecutionStep, CheckRun, TokenUnavailable, BeginRun, RunGate,
       DeadlineExceeded, DecideRun, FinishWithError, Raise, RefetchRun, queueVars
  <1>a. activeSet' = activeSet /\ r \in activeSet
    BY <1>t, <1>j DEF activeSet
  <1>m. outcomeMap[r] = OutcomeOf(runs[r])
    BY <1>t DEF outcomeMap
  <1> HIDE DEF r
  <1>1. CASE BeginRun(w)
    <2>1. runs' = [runs EXCEPT ![r] = NewRun("running")]
      BY <1>1, Zenon DEF BeginRun, r
    <2>2. OutcomeOf(NewRun("running")) = "running"
      BY DEF OutcomeOf, NewRun
    <2>3. outcomeMap[r] \in {"pending", "error", "running"}
      BY <1>1, <1>t, <1>m DEF BeginRun, WorkerAt, WorkerKnows, OutcomeOf
    <2> QED
      BY <1>a, <1>t, <2>1, <2>2, <2>3, OutcomeOfWrite DEF r
  <1>2. CASE RunGate(w)
    <2>1. PICK result \in Outcomes, blocks \in BOOLEAN :
            runs' = [runs EXCEPT ![r] = WithResult(runs[r], worker[w].pc, result, blocks)]
      BY <1>2 DEF RunGate, MayBlock, r
    <2>2. OutcomeOf(WithResult(runs[r], worker[w].pc, result, blocks)) = outcomeMap[r]
      BY <1>t, <1>m DEF WithResult, Run, OutcomeOf
    <2>3. outcomeMap' = [outcomeMap EXCEPT ![r] = outcomeMap[r]]
      BY <1>t, <2>1, <2>2, OutcomeOfWrite
    <2> QED
      BY <1>a, <2>3 DEF outcomeMap
  <1>3. CASE DecideRun(w)
    <2>1. PICK verdict \in {"pass", "fail"} :
            runs' = [runs EXCEPT ![r] = Finished(runs[r], "completed", verdict)]
      BY <1>3 DEF DecideRun, r
    <2>2. OutcomeOf(Finished(runs[r], "completed", verdict)) = verdict
      BY <1>t DEF Finished, Run, OutcomeOf
    <2>3. outcomeMap[r] = "running"
      BY <1>3, <1>t, <1>m DEF DecideRun, WorkerAt, WorkerKnows, EvidenceOf, OutcomeOf
    <2>4. outcomeMap' = [outcomeMap EXCEPT ![r] = verdict]
      BY <1>t, <2>1, <2>2, OutcomeOfWrite
    <2> QED
      BY <1>a, <2>3, <2>4 DEF r
  <1>4. CASE FinishWithError(w)
    <2>1. runs' = [runs EXCEPT ![r] = Finished(runs[r], "error", "none")]
      BY <1>4, Zenon DEF FinishWithError, r
    <2>2. OutcomeOf(Finished(runs[r], "error", "none")) = "error"
      BY <1>t DEF Finished, Run, OutcomeOf
    <2>3. runs[r].status \in {"running", "completed", "error"}
      BY <1>4 DEF FinishWithError, WorkerAt, RInv, ErrorHasStarted, r
    <2>4. outcomeMap[r] \in {"running", "error", "pass", "fail"}
      BY <1>t, <1>m, <2>3 DEF OutcomeOf, DecisionSound
    <2>5. outcomeMap' = [outcomeMap EXCEPT ![r] = "error"]
      BY <1>t, <2>1, <2>2, OutcomeOfWrite
    <2> QED
      BY <1>a, <2>4, <2>5 DEF r
  <1>5. CASE CheckRun(w) \/ TokenUnavailable(w) \/ DeadlineExceeded(w) \/ Raise(w)
             \/ RefetchRun(w)
    <2>1. UNCHANGED runs
      BY <1>5, Zenon DEF CheckRun, TokenUnavailable, DeadlineExceeded, Raise, RefetchRun
    <2> QED
      BY <1>a, <2>1 DEF outcomeMap
  <1> QED
    BY <1>1, <1>2, <1>3, <1>4, <1>5 DEF ExecutionStep

(* An action of the lifecycle, from what it does to the two components.    *)
LEMMA LifecycleActions ==
    ASSUME NEW r \in Runs
    PROVE  /\ \A first \in {"pending", "error"} :
                outcomeMap[r] = "absent" /\ activeSet' = activeSet
                  /\ outcomeMap' = [outcomeMap EXCEPT ![r] = first]
                => Lifecycle!Accept(r)
           /\ outcomeMap[r] # "absent" /\ outcomeMap' = outcomeMap
                /\ r \notin activeSet /\ activeSet' = activeSet \cup {r}
              => Lifecycle!Activate(r)
           /\ outcomeMap[r] \in {"pending", "error", "running"}
                /\ outcomeMap' = [outcomeMap EXCEPT ![r] = "running"]
                /\ r \in activeSet /\ activeSet' = activeSet
              => Lifecycle!Start(r)
           /\ \A verdict \in {"pass", "fail"} :
                outcomeMap[r] = "running" /\ r \in activeSet /\ activeSet' = activeSet
                  /\ outcomeMap' = [outcomeMap EXCEPT ![r] = verdict]
                => Lifecycle!Conclude(r)
           /\ outcomeMap[r] \in {"running", "error", "pass", "fail"}
                /\ outcomeMap' = [outcomeMap EXCEPT ![r] = "error"]
                /\ r \in activeSet /\ activeSet' = activeSet
              => Lifecycle!Abort(r)
           /\ outcomeMap' = outcomeMap /\ r \in activeSet /\ activeSet' = activeSet \ {r}
              => Lifecycle!Release(r)
  <1>1. /\ outcomeMap = [q \in Runs |-> OutcomeOf(runs[q])]
        /\ activeSet = {q \in Runs : JobIn(q, {"running"})}
    BY DEF outcomeMap, activeSet, JobIn
  <1>2. /\ outcomeMap' = [q \in Runs |-> OutcomeOf(runs[q])]'
        /\ activeSet' = {q \in Runs : JobIn(q, {"running"})}'
    BY DEF outcomeMap, activeSet, JobIn
  <1>3. ASSUME NEW first \in {"pending", "error"}, outcomeMap[r] = "absent",
               activeSet' = activeSet, outcomeMap' = [outcomeMap EXCEPT ![r] = first]
        PROVE  Lifecycle!Accept(r)
    BY <1>1, <1>2, <1>3 DEF Lifecycle!Accept, Lifecycle!Becomes
  <1>4. ASSUME outcomeMap[r] # "absent", outcomeMap' = outcomeMap,
               r \notin activeSet, activeSet' = activeSet \cup {r}
        PROVE  Lifecycle!Activate(r)
    BY <1>1, <1>2, <1>4 DEF Lifecycle!Activate
  <1>5. ASSUME outcomeMap[r] \in {"pending", "error", "running"},
               outcomeMap' = [outcomeMap EXCEPT ![r] = "running"],
               r \in activeSet, activeSet' = activeSet
        PROVE  Lifecycle!Start(r)
    BY <1>1, <1>2, <1>5 DEF Lifecycle!Start, Lifecycle!Becomes
  <1>6. ASSUME NEW verdict \in {"pass", "fail"}, outcomeMap[r] = "running",
               r \in activeSet, activeSet' = activeSet,
               outcomeMap' = [outcomeMap EXCEPT ![r] = verdict]
        PROVE  Lifecycle!Conclude(r)
    BY <1>1, <1>2, <1>6 DEF Lifecycle!Conclude, Lifecycle!Becomes, Lifecycle!Verdict
  <1>7. ASSUME outcomeMap[r] \in {"running", "error", "pass", "fail"},
               outcomeMap' = [outcomeMap EXCEPT ![r] = "error"],
               r \in activeSet, activeSet' = activeSet
        PROVE  Lifecycle!Abort(r)
    BY <1>1, <1>2, <1>7 DEF Lifecycle!Abort, Lifecycle!Becomes, Lifecycle!Verdict
  <1>8. ASSUME outcomeMap' = outcomeMap, r \in activeSet, activeSet' = activeSet \ {r}
        PROVE  Lifecycle!Release(r)
    BY <1>1, <1>2, <1>8 DEF Lifecycle!Release
  <1> QED
    BY <1>3, <1>4, <1>5, <1>6, <1>7, <1>8

LEMMA NextLifecycle ==
    IInv /\ RInv /\ [Next]_vars =>
        [Lifecycle!LifecycleNext]_(Lifecycle!lifecycleVars)
  <1> DEFINE Step == [Lifecycle!LifecycleNext]_(Lifecycle!lifecycleVars)
  <1> SUFFICES ASSUME IInv, RInv, [Next]_vars PROVE Step
    OBVIOUS
  <1>t. /\ runs \in [Runs -> Run]
        /\ QueueTypeOK
        /\ \A w \in Workers : worker[w].pc # "idle" =>
             worker[w].run \in Runs /\ jobs[worker[w].run].status = "running"
        /\ \A h \in Requests : request[h].pc # "idle" => request[h].run \in Runs
    BY DEF IInv, TInv, SInv, TypeOK, BusyHasRun, RequestHasRun, SoleExecutor, WorkerAt, JobIn
  <1>s. ASSUME outcomeMap' = outcomeMap, activeSet' = activeSet PROVE Step
    BY <1>s DEF outcomeMap, activeSet, JobIn, Lifecycle!lifecycleVars
  <1>n. ASSUME NEW r \in Runs,
               \/ Lifecycle!Accept(r) \/ Lifecycle!Activate(r) \/ Lifecycle!Start(r)
               \/ Lifecycle!Conclude(r) \/ Lifecycle!Abort(r) \/ Lifecycle!Release(r)
        PROVE  Step
    BY <1>n DEF Lifecycle!LifecycleNext
  <1> HIDE DEF Step
  <1>r. runs' = runs => outcomeMap' = outcomeMap
    BY DEF outcomeMap
  <1>j. jobs' = jobs => activeSet' = activeSet
    BY DEF activeSet
  <1>i. ASSUME NEW r \in Runs, NEW status \in {"pending", "error"},
               InsertIfAbsent(r, status), jobs' = jobs
        PROVE  Step
    <2>1. CASE outcomeMap' = outcomeMap
      BY <1>i, <1>j, <1>s, <2>1
    <2>2. CASE outcomeMap[r] = "absent" /\ outcomeMap' = [outcomeMap EXCEPT ![r] = status]
      BY <1>i, <1>j, <1>n, <2>2, LifecycleActions
    <2> QED
      BY <1>i, <1>t, <2>1, <2>2, OutcomeOfInsert
  <1>e. ASSUME NEW r \in Runs, Enqueue(r), runs' = runs PROVE Step
    BY <1>e, <1>t, <1>r, <1>s, ActiveAfterEnqueue
  <1>1. CASE TriggerStep
    <2>1. ASSUME NEW r \in Runs, ReceiveWebhookWithoutContext(r) PROVE Step
      BY <1>i, <2>1 DEF ReceiveWebhookWithoutContext, queueVars
    <2>2. ASSUME NEW r \in Runs, RequestExecution(r) PROVE Step
      BY <1>e, <2>2 DEF RequestExecution
    <2>3. ASSUME NEW r \in Runs, NEW h \in Requests, ReceiveWebhook(h, r) \/ RequestAnalysis(h, r)
          PROVE  Step
      BY <1>r, <1>j, <1>s, <2>3 DEF ReceiveWebhook, RequestAnalysis, BeginRequest, queueVars
    <2> QED
      BY <1>1, <2>1, <2>2, <2>3 DEF TriggerStep
  <1>2. ASSUME NEW h \in Requests, RequestStep(h) \/ AbandonRequest(h) PROVE Step
    <2>1. CASE CreateOrReuse(h)
      BY <1>i, <1>t, <2>1 DEF CreateOrReuse, RequestAt, queueVars
    <2>2. CASE EnqueueRun(h)
      BY <1>e, <1>t, <2>2 DEF EnqueueRun, RequestAt
    <2>3. CASE RereadRun(h) \/ AbandonRequest(h)
      BY <1>r, <1>j, <1>s, <2>3 DEF RereadRun, AbandonRequest, queueVars
    <2> QED
      BY <1>2, <2>1, <2>2, <2>3 DEF RequestStep
  <1>3. ASSUME NEW w \in Workers, ClaimNextJob(w) PROVE Step
    <2>1. PICK r \in Runs : Claim(r)
      BY <1>3, Zenon DEF ClaimNextJob
    <2>2. runs' = runs
      BY <1>3, Zenon DEF ClaimNextJob
    <2>3. jobs[r].status # "absent"
      BY <2>1, <1>t, ClaimEffect
    <2>4. outcomeMap[r] # "absent"
      <3>1. runs[r].status # "absent" /\ DecisionSound(runs[r])
        BY <2>3 DEF RInv, JobHasRun, IInv, SInv, DecisionMatchesEvidence
      <3> QED
        BY <3>1 DEF outcomeMap, OutcomeOf, DecisionSound
    <2>5. r \notin activeSet /\ activeSet' = activeSet \cup {r}
      BY <2>1, <1>t, ActiveAfterClaim
    <2> QED
      BY <1>n, <1>r, <2>2, <2>4, <2>5, LifecycleActions
  <1>4. ASSUME NEW w \in Workers, ExecutionStep(w) PROVE Step
    <2> DEFINE r == worker[w].run
    <2>1. r \in activeSet => r \in Runs
      BY DEF activeSet
    <2>2. /\ activeSet' = activeSet
          /\ \/ outcomeMap' = outcomeMap
             \/ /\ r \in activeSet
                /\ \/ /\ outcomeMap[r] \in {"pending", "error", "running"}
                      /\ outcomeMap' = [outcomeMap EXCEPT ![r] = "running"]
                   \/ /\ outcomeMap[r] = "running"
                      /\ \E verdict \in {"pass", "fail"} :
                           outcomeMap' = [outcomeMap EXCEPT ![r] = verdict]
                   \/ /\ outcomeMap[r] \in {"running", "error", "pass", "fail"}
                      /\ outcomeMap' = [outcomeMap EXCEPT ![r] = "error"]
      BY <1>4, ExecutionRefines
    <2> HIDE DEF r
    <2> QED
      BY <1>n, <1>s, <2>1, <2>2, LifecycleActions
  <1>5. ASSUME NEW w \in Workers, CompleteJob(w) \/ FailJob(w) PROVE Step
    <2>1. worker[w].run \in Runs /\ jobs[worker[w].run].status = "running"
      BY <1>5, <1>t DEF CompleteJob, FailJob, WorkerAt
    <2>2. (Complete(worker[w].run) \/ Fail(worker[w].run, TRUE)) /\ runs' = runs
      BY <1>5 DEF CompleteJob, FailJob
    <2>3. worker[w].run \in activeSet /\ activeSet' = activeSet \ {worker[w].run}
      BY <2>1, <2>2, <1>t, ActiveAfterReport
    <2> QED
      BY <1>n, <1>r, <2>1, <2>2, <2>3, LifecycleActions
  <1>6. ASSUME NEW w \in Workers, CrashWorker(w) PROVE Step
    <2>1. runs' = runs /\ jobs' = jobs
      BY <1>6, Zenon DEF CrashWorker, queueVars
    <2> QED
      BY <1>r, <1>j, <1>s, <2>1
  <1>7. ASSUME NEW q \in Runs, RunGrowsStale(q) PROVE Step
    <2>1. jobs' = jobs
      BY <1>7 DEF RunGrowsStale, queueVars
    <2>2. runs' = [runs EXCEPT ![q] = [runs[q] EXCEPT !.stale = TRUE]]
      BY <1>7, Zenon DEF RunGrowsStale
    <2>3. OutcomeOf([runs[q] EXCEPT !.stale = TRUE]) = outcomeMap[q]
      BY <1>t DEF OutcomeOf, Run, outcomeMap
    <2>4. outcomeMap' = [outcomeMap EXCEPT ![q] = outcomeMap[q]]
      BY <1>t, <2>2, <2>3, OutcomeOfWrite
    <2>5. outcomeMap' = outcomeMap
      BY <2>4 DEF outcomeMap
    <2> QED
      BY <1>j, <1>s, <2>1, <2>5
  <1>8. CASE UNCHANGED vars
    BY <1>8, <1>r, <1>j, <1>s DEF vars
  <1> QED
    BY <1>1, <1>2, <1>3, <1>4, <1>5, <1>6, <1>7, <1>8 DEF Next, WorkerStep

(* The pipeline implements the lifecycle of a run, whatever the number of  *)
(* runs, handlers, workers, triggers and crashes: its accepted runs, its   *)
(* executions and their verdicts are those of AnalysisRunLifecycle, where  *)
(* one activity at a time holds a run and a verdict that was let go stays. *)
THEOREM PipelineImplementsLifecycle == Spec => ImplementsLifecycle
  <1>1. Init => Lifecycle!LifecycleInit
    BY InitLifecycle
  <1>2. IInv /\ RInv /\ [Next]_vars =>
          [Lifecycle!LifecycleNext]_(Lifecycle!lifecycleVars)
    BY NextLifecycle
  <1> QED
    BY <1>1, <1>2, RefinementInvariance, PTL DEF Spec, ImplementsLifecycle, Lifecycle!LifecycleSpec

-----------------------------------------------------------------------------
(* What the hand-off needs beyond RInv.                                    *)

(* A handler that will not enqueue its run found it when it began, and a   *)
(* run that exists does not go away: such a handler creates no run.        *)
OnlyReuses ==
    \A h \in Requests : request[h].pc = "create" /\ ~request[h].mayEnqueue =>
        runs[request[h].run].status # "absent"

HInv == PendingRunIsOnItsWay /\ OnlyReuses

(* The handlers that are going to enqueue a run.                           *)
Brings(req, r) == req.run = r /\ (req.pc = "enqueue" \/ req.mayEnqueue)

-----------------------------------------------------------------------------
LEMMA InitHInv == Init => HInv
  BY DEF Init, HInv, PendingRunIsOnItsWay, OnlyReuses, StatusIn, NewRun, IdleRequest

(* A job row is never deleted.                                             *)
LEMMA JobsStay ==
    ASSUME IInv, [Next]_vars, NEW r \in Runs, jobs[r].status # "absent"
    PROVE  jobs'[r].status # "absent"
  <1>t. /\ QueueTypeOK
        /\ \A w \in Workers : worker[w].pc # "idle" => worker[w].run \in Runs
        /\ \A h \in Requests : request[h].pc # "idle" => request[h].run \in Runs
    BY DEF IInv, TInv, TypeOK, BusyHasRun, RequestHasRun
  <1>1. ASSUME NEW q \in Runs, Enqueue(q) PROVE jobs'[r].status # "absent"
    BY <1>1, <1>t DEF Enqueue, QueueTypeOK, FreshJob
  <1>2. ASSUME NEW q \in Runs, Claim(q) PROVE jobs'[r].status # "absent"
    BY <1>2, <1>t, ClaimEffect
  <1>3. ASSUME NEW q \in Runs, Complete(q) \/ Fail(q, TRUE) PROVE jobs'[r].status # "absent"
    BY <1>3, <1>t DEF Complete, Fail, QueueTypeOK, Unlocked, StatusAfterFailure, Job
  <1>4. CASE \E q \in Runs : RequestExecution(q)
    BY <1>1, <1>4 DEF RequestExecution
  <1>5. CASE \E h \in Requests : EnqueueRun(h)
    BY <1>1, <1>5, <1>t DEF EnqueueRun, RequestAt
  <1>6. ASSUME NEW w \in Workers, ClaimNextJob(w) PROVE jobs'[r].status # "absent"
    <2>1. \E q \in Runs : Claim(q)
      BY <1>6, Zenon DEF ClaimNextJob
    <2> QED
      BY <1>2, <2>1
  <1>7. ASSUME NEW w \in Workers, CompleteJob(w) \/ FailJob(w)
        PROVE  jobs'[r].status # "absent"
    BY <1>3, <1>7, <1>t DEF CompleteJob, FailJob, WorkerAt
  <1>8. CASE jobs' = jobs
    BY <1>8
  <1>9. jobs' # jobs => Next
    BY DEF vars
  <1> QED
    BY <1>4, <1>5, <1>6, <1>7, <1>8, <1>9, JobWriters

(* A run is made pending by the handler that creates it, and by nothing    *)
(* else.                                                                   *)
LEMMA PendingIsCreated ==
    ASSUME IInv, [Next]_vars, NEW r \in Runs,
           runs'[r].status = "pending", runs[r].status # "pending"
    PROVE  \E h \in Requests : CreateOrReuse(h) /\ request[h].run = r
  <1>t. /\ runs \in [Runs -> Run]
        /\ \A w \in Workers : worker[w].pc # "idle" => worker[w].run \in Runs
        /\ \A h \in Requests : request[h].pc # "idle" => request[h].run \in Runs
    BY DEF IInv, TInv, TypeOK, BusyHasRun, RequestHasRun
  <1>a. runs[r].status = "absent"
    BY <1>t, NextRowStep DEF RowStep, Run, RunStatus
  <1>w. ASSUME NEW q \in Runs, NEW row, runs' = [runs EXCEPT ![q] = row]
        PROVE  q = r /\ row.status = "pending"
    BY <1>w, <1>t
  <1>1. ASSUME NEW q \in Runs, ReceiveWebhookWithoutContext(q) PROVE FALSE
    BY <1>1, <1>t DEF ReceiveWebhookWithoutContext, InsertIfAbsent, NewRun
  <1>2. ASSUME NEW h \in Requests, CreateOrReuse(h) PROVE request[h].run = r
    BY <1>2, <1>t DEF CreateOrReuse, InsertIfAbsent, RequestAt
  <1>3. ASSUME NEW w \in Workers, BeginRun(w) PROVE FALSE
    BY <1>3, <1>t, <1>w DEF BeginRun, WorkerAt, NewRun
  <1>4. ASSUME NEW w \in Workers, RunGate(w) PROVE FALSE
    <2>1. worker[w].run \in Runs /\ worker[w].pc \in Gates
      BY <1>4, <1>t DEF RunGate, WorkerAt, Gates
    <2>2. runs[worker[w].run].status = "running"
      BY <2>1 DEF IInv, SInv, KnowledgeStands, WorkerKnows, EvidenceOf, Gates
    <2>3. PICK row : runs' = [runs EXCEPT ![worker[w].run] = row]
      BY <1>4, Zenon DEF RunGate
    <2> QED
      BY <2>1, <2>2, <2>3, <1>a, <1>w
  <1>5. ASSUME NEW w \in Workers, DecideRun(w) PROVE FALSE
    <2>1. worker[w].run \in Runs
      BY <1>5, <1>t DEF DecideRun, WorkerAt
    <2>2. \A decision : Finished(runs[worker[w].run], "completed", decision).status = "completed"
      BY <2>1, <1>t DEF Finished, Run
    <2> QED
      BY <1>5, <2>1, <2>2, <1>w DEF DecideRun
  <1>6. ASSUME NEW w \in Workers, FinishWithError(w) PROVE FALSE
    <2>1. worker[w].run \in Runs
      BY <1>6, <1>t DEF FinishWithError, WorkerAt
    <2>2. Finished(runs[worker[w].run], "error", "none").status = "error"
      BY <2>1, <1>t DEF Finished, Run
    <2> QED
      BY <1>6, <2>1, <2>2, <1>w DEF FinishWithError
  <1>7. ASSUME NEW q \in Runs, RunGrowsStale(q) PROVE FALSE
    BY <1>7, <1>t DEF RunGrowsStale, StatusIn, Run
  <1>8. Next /\ runs' # runs
    BY DEF vars
  <1> QED
    BY <1>1, <1>2, <1>3, <1>4, <1>5, <1>6, <1>7, <1>8, RowWriters

LEMMA NextOnlyReuses == IInv /\ HInv /\ [Next]_vars => OnlyReuses'
  <1> SUFFICES ASSUME IInv, HInv, [Next]_vars, NEW h \in Requests,
                      request'[h].pc = "create", ~request'[h].mayEnqueue
               PROVE  runs'[request'[h].run].status # "absent"
    BY DEF OnlyReuses
  <1>t. /\ request \in [Requests -> Request]
        /\ \A g \in Requests : request[g].pc # "idle" => request[g].run \in Runs
    BY DEF IInv, TInv, TypeOK, RequestHasRun
  <1>1. CASE request'[h] = request[h]
    BY <1>1, <1>t, NextRowStep DEF HInv, OnlyReuses, RowStep
  <1>2. CASE request'[h] # request[h]
    <2>1. ~CreateOrReuse(h) /\ ~EnqueueRun(h) /\ ~AbandonRequest(h)
      <3>1. request' # [request EXCEPT ![h] = IdleRequest]
        BY <1>t DEF IdleRequest
      <3>2. request' # [request EXCEPT ![h].pc = "reread"]
        BY <1>t DEF Request
      <3> QED
        BY <3>1, <3>2, Zenon DEF CreateOrReuse, EnqueueRun, AbandonRequest
    <2>r. ASSUME RereadRun(h) PROVE FALSE
      <3>1. CASE request' = [request EXCEPT ![h] = IdleRequest]
        BY <1>t, <3>1 DEF IdleRequest
      <3>2. CASE request' = [request EXCEPT ![h] = [request[h] EXCEPT !.pc = "enqueue"]]
        <4>1. [request[h] EXCEPT !.pc = "enqueue"].pc = "enqueue"
          BY <1>t DEF Request
        <4> QED
          BY <1>t, <3>2, <4>1
      <3> QED
        BY <2>r, <3>1, <3>2, Zenon DEF RereadRun
    <2>2. Next
      BY <1>2 DEF vars
    <2>3. PICK r \in Runs : ReceiveWebhook(h, r) \/ RequestAnalysis(h, r)
      BY <1>2, <1>t, <2>1, <2>r, <2>2, RequestWriters
    <2>b. ASSUME NEW may, BeginRequest(h, r, may)
          PROVE  request'[h].run = r /\ ~may
      BY <1>t, <2>b DEF BeginRequest
    <2>4. request'[h].run = r /\ ~StatusIn(r, {"absent"})
      BY <2>3, <2>b, Zenon DEF ReceiveWebhook, RequestAnalysis
    <2>5. runs[r].status # "absent"
      BY <2>4 DEF StatusIn
    <2> QED
      BY <2>4, <2>5, NextRowStep DEF RowStep
  <1> QED
    BY <1>1, <1>2

(* The handler that brings a run goes on bringing it until it has enqueued *)
(* it, unless it is killed.                                                *)
LEMMA NextOnItsWay == IInv /\ HInv /\ [Next]_vars => PendingRunIsOnItsWay'
  <1> SUFFICES ASSUME IInv, HInv, [Next]_vars, NEW r \in Runs, crashes' = 0,
                      runs'[r].status = "pending", jobs'[r].status = "absent"
               PROVE  \E h \in Requests : Brings(request'[h], r)
    BY DEF PendingRunIsOnItsWay, StatusIn, JobIn, RequestAt, Brings
  <1>t. /\ request \in [Requests -> Request]
        /\ runs \in [Runs -> Run]
        /\ crashes \in Nat
        /\ QueueTypeOK
        /\ \A g \in Requests : request[g].pc # "idle" => request[g].run \in Runs
    BY DEF IInv, TInv, TypeOK, RequestHasRun
  <1>1. CASE runs[r].status # "pending"
    <2>1. PICK h \in Requests : CreateOrReuse(h) /\ request[h].run = r
      BY <1>1, PendingIsCreated
    <2>2. runs[r].status = "absent"
      BY <1>1, <1>t, NextRowStep DEF RowStep, Run, RunStatus
    <2>3. request[h].mayEnqueue
      BY <1>t, <2>1, <2>2 DEF CreateOrReuse, RequestAt, HInv, OnlyReuses, Request
    <2>4. Brings(request'[h], r)
      BY <1>t, <2>1, <2>3 DEF CreateOrReuse, Brings, Request
    <2> QED
      BY <2>4
  <1>2. CASE runs[r].status = "pending"
    <2>1. jobs[r].status = "absent"
      BY JobsStay
    <2>2. crashes = 0
      <3>1. \A w \in Workers : ~CrashWorker(w)
        BY <1>t DEF CrashWorker
      <3>2. \A h \in Requests : ~AbandonRequest(h)
        BY <1>t DEF AbandonRequest
      <3>3. CASE TriggerStep
        BY <3>3 DEF TriggerStep, ReceiveWebhook, RequestAnalysis, BeginRequest, Trigger,
                    ReceiveWebhookWithoutContext, RequestExecution
      <3>4. CASE \E h \in Requests : RequestStep(h)
        BY <3>4 DEF RequestStep, CreateOrReuse, RereadRun, EnqueueRun
      <3>5. CASE \E w \in Workers : WorkerStep(w)
        BY <3>5 DEF WorkerStep, ExecutionStep, ClaimNextJob, CheckRun, TokenUnavailable,
           BeginRun, RunGate, DeadlineExceeded, DecideRun, FinishWithError, Raise,
           RefetchRun, CompleteJob, FailJob, Elsewhere
      <3>6. CASE \E q \in Runs : RunGrowsStale(q)
        BY <3>6 DEF RunGrowsStale
      <3>7. CASE UNCHANGED vars
        BY <3>7 DEF vars
      <3> QED
        BY <3>1, <3>2, <3>3, <3>4, <3>5, <3>6, <3>7 DEF Next
    <2>3. PICK h \in Requests : Brings(request[h], r)
      BY <1>2, <2>1, <2>2 DEF HInv, PendingRunIsOnItsWay, StatusIn, JobIn, RequestAt, Brings
    <2>4. CASE request'[h] = request[h]
      BY <2>3, <2>4
    <2>5. CASE CreateOrReuse(h)
      BY <1>t, <2>3, <2>5 DEF CreateOrReuse, RequestAt, Brings, Request
    <2>6. CASE RereadRun(h)
      BY <1>t, <1>2, <2>3, <2>6 DEF RereadRun, RequestAt, StatusIn, Brings, Request
    <2>7. ~EnqueueRun(h)
      BY <1>t, <2>3 DEF EnqueueRun, RequestAt, Brings, Enqueue, JobIn, TerminalJob, FreshJob,
                        QueueTypeOK
    <2>8. ~AbandonRequest(h)
      BY <1>t DEF AbandonRequest
    <2>a. ASSUME NEW q \in Runs PROVE ~ReceiveWebhook(h, q) /\ ~RequestAnalysis(h, q)
      BY <2>3 DEF ReceiveWebhook, RequestAnalysis, BeginRequest, Brings, IdleRequest
    <2>9. request'[h] # request[h] => Next
      BY DEF vars
    <2> QED
      BY <1>t, <2>4, <2>5, <2>6, <2>7, <2>8, <2>9, <2>a, RequestWriters
  <1> QED
    BY <1>1, <1>2

(* A pending run without a job always has a handler that is going to       *)
(* enqueue it, until a process is killed: the webhook that created it, or  *)
(* an explicit request for the analysis.                                   *)
THEOREM PendingRunsAreHandedOver == Spec => []PendingRunIsOnItsWay
  <1>1. Init => HInv
    BY InitHInv
  <1>2. IInv /\ HInv /\ [Next]_vars => HInv'
    BY NextOnlyReuses, NextOnItsWay DEF HInv
  <1>3. HInv => PendingRunIsOnItsWay
    BY DEF HInv
  <1> QED
    BY <1>1, <1>2, <1>3, Invariance, PTL DEF Spec
=============================================================================
