--------------------------- MODULE AnalysisQueue ---------------------------
(***************************************************************************)
(* The analysis_jobs table and the operations of                           *)
(* services/analysis_queue.py on it.  Every operation of the code is one   *)
(* committed SQL statement, so each is one step here.  The module has the  *)
(* table and its operations only: AnalysisQueueClients exercises the whole *)
(* interface, AnalysisPipeline composes it with the production worker.     *)
(***************************************************************************)
EXTENDS Naturals, Sequences

CONSTANTS
    Runs,         \* analysis runs: the job table holds at most one job of each
    MaxAttempts,  \* fail()'s max_attempts (1 in worker.py)
    AttemptCap    \* bound: attempt_count is counted up to this value

ASSUME QueueAssumption ==
    /\ MaxAttempts \in Nat \ {0}
    /\ AttemptCap \in Nat
    /\ MaxAttempts < AttemptCap

VARIABLES
    jobs,      \* the row of each run: status, attempt_count, age of its lock
    arrivals   \* the runs in the order of their rows' created_at

queueVars == <<jobs, arrivals>>

JobStatus == {"absent", "queued", "running", "completed", "failed"}
TerminalJob == {"completed", "failed"}

(* stale: locked_at is older than the max_age a caller would pass.         *)
Job == [status : JobStatus, attempts : 0..AttemptCap, stale : BOOLEAN]

QueueTypeOK ==
    /\ jobs \in [Runs -> Job]
    /\ arrivals \in Seq(Runs)

JobIn(r, statuses) == jobs[r].status \in statuses

NoJob == [status |-> "absent", attempts |-> 0, stale |-> FALSE]
FreshJob == [status |-> "queued", attempts |-> 0, stale |-> FALSE]

QueueInit ==
    /\ jobs = [r \in Runs |-> NoJob]
    /\ arrivals = <<>>
(* Mutant of Enqueue: the conflict clause has no WHERE.                    *)
EnqueueActiveToo(r) ==
    /\ jobs' = [jobs EXCEPT ![r] = FreshJob]
    /\ arrivals' = IF JobIn(r, {"absent"}) THEN Append(arrivals, r) ELSE arrivals

(* INSERT ... ON CONFLICT DO UPDATE ... WHERE status is terminal: an       *)
(* active job is left alone, and created_at survives a re-enqueue.         *)
Enqueue(r) ==
    /\ jobs' = IF JobIn(r, TerminalJob \cup {"absent"})
               THEN [jobs EXCEPT ![r] = FreshJob]
               ELSE jobs
    /\ arrivals' = IF JobIn(r, {"absent"}) THEN Append(arrivals, r) ELSE arrivals

CreatedBefore(q, r) ==
    \E i, j \in DOMAIN arrivals : i < j /\ arrivals[i] = q /\ arrivals[j] = r

CountAttempt(n) == IF n < AttemptCap THEN n + 1 ELSE n
(* Mutant of Claim: the subselect does not ask for a queued job.           *)
ClaimUnfinished(r) ==
    /\ JobIn(r, {"queued", "running"})
    /\ jobs' = [jobs EXCEPT ![r].status = "running"]
    /\ UNCHANGED arrivals

(* The claim of claim_next: the queued job created first.                  *)
Claim(r) ==
    /\ JobIn(r, {"queued"})
    /\ \A q \in Runs : JobIn(q, {"queued"}) => ~CreatedBefore(q, r)
    /\ jobs' = [jobs EXCEPT ![r] =
                  [status |-> "running", attempts |-> CountAttempt(@.attempts),
                   stale |-> FALSE]]
    /\ UNCHANGED arrivals

(* What complete, fail and requeue_stale do to a row: the lock is cleared. *)
Unlocked(job, status) == [job EXCEPT !.status = status, !.stale = FALSE]

(* complete and fail match the row by id and status, not by its claimant.  *)
Complete(r) ==
    /\ jobs' = IF JobIn(r, {"running"})
               THEN [jobs EXCEPT ![r] = Unlocked(@, "completed")]
               ELSE jobs
    /\ UNCHANGED arrivals
(* Mutants of StatusAfterFailure: a status no other statement knows, one   *)
(* attempt too many, and retries without a limit.                          *)
StatusMisspelt(job, retryable) ==
    IF retryable /\ job.attempts < MaxAttempts THEN "retry" ELSE "failed"
OneAttemptMore(job, retryable) ==
    IF retryable /\ job.attempts <= MaxAttempts THEN "queued" ELSE "failed"
RetryForEver(job, retryable) == IF retryable THEN "queued" ELSE "failed"

StatusAfterFailure(job, retryable) ==
    IF retryable /\ job.attempts < MaxAttempts THEN "queued" ELSE "failed"
(* Mutant of Fail: the statement does not ask for a running job.           *)
FailAnyJob(r, retryable) ==
    /\ jobs' = [jobs EXCEPT ![r] = Unlocked(@, StatusAfterFailure(@, retryable))]
    /\ UNCHANGED arrivals

Fail(r, retryable) ==
    /\ jobs' = IF JobIn(r, {"running"})
               THEN [jobs EXCEPT ![r] = Unlocked(@, StatusAfterFailure(@, retryable))]
               ELSE jobs
    /\ UNCHANGED arrivals
(* Mutant of RequeueStale: jobs that used up their attempts are skipped.   *)
RequeueStaleWithAttemptsLeft ==
    /\ jobs' = [r \in Runs |->
                  IF JobIn(r, {"running"}) /\ jobs[r].stale /\ jobs[r].attempts < MaxAttempts
                  THEN Unlocked(jobs[r], "queued")
                  ELSE jobs[r]]
    /\ UNCHANGED arrivals

(* Every running job whose lock is old goes back; attempt_count is kept.   *)
RequeueStale ==
    /\ jobs' = [r \in Runs |->
                  IF JobIn(r, {"running"}) /\ jobs[r].stale
                  THEN Unlocked(jobs[r], "queued")
                  ELSE jobs[r]]
    /\ UNCHANGED arrivals

(* Time passes until the lock of a running job is older than max_age.      *)
LockExpires(r) ==
    /\ JobIn(r, {"running"})
    /\ ~jobs[r].stale
    /\ jobs' = [jobs EXCEPT ![r].stale = TRUE]
    /\ UNCHANGED arrivals
=============================================================================
