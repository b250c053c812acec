------------------------- MODULE AnalysisQueue_proofs -------------------------
(***************************************************************************)
(* What the operations on the job table do, for whoever calls them.        *)
(***************************************************************************)
EXTENDS AnalysisQueue, TLAPS

(* Clearing the lock of a job leaves a job.                                *)
LEMMA UnlockedIsJob ==
    ASSUME NEW job \in Job, NEW status \in JobStatus
    PROVE  Unlocked(job, status) \in Job
  BY DEF Unlocked, Job

(* The operations of the queue keep the type of the job table.             *)
LEMMA QueueTypePreserved ==
    ASSUME QueueTypeOK, NEW r \in Runs
    PROVE  /\ Enqueue(r) => QueueTypeOK'
           /\ Claim(r) => QueueTypeOK'
           /\ Complete(r) => QueueTypeOK'
           /\ \A retryable \in BOOLEAN : Fail(r, retryable) => QueueTypeOK'
  <1> USE QueueAssumption DEF QueueTypeOK, Job, JobStatus
  <1>1. Enqueue(r) => QueueTypeOK'
    <2>1. FreshJob \in Job
      BY DEF FreshJob
    <2> QED
      BY <2>1 DEF Enqueue
  <1>2. Claim(r) => QueueTypeOK'
    BY DEF Claim, CountAttempt
  <1>3. Complete(r) => QueueTypeOK'
    <2>1. Unlocked(jobs[r], "completed") \in Job
      BY UnlockedIsJob
    <2> QED
      BY <2>1 DEF Complete
  <1>4. ASSUME NEW retryable \in BOOLEAN, Fail(r, retryable)
        PROVE  QueueTypeOK'
    <2>1. Unlocked(jobs[r], StatusAfterFailure(jobs[r], retryable)) \in Job
      BY UnlockedIsJob DEF StatusAfterFailure
    <2> QED
      BY <1>4, <2>1 DEF Fail
  <1> QED
    BY <1>1, <1>2, <1>3, <1>4

(* Only a job that is running or queued is touched by a worker; enqueue    *)
(* leaves those alone.                                                     *)
LEMMA EnqueueEffect ==
    ASSUME QueueTypeOK, NEW r \in Runs, Enqueue(r), NEW q \in Runs
    PROVE  /\ jobs[q].status = "running" => jobs'[q] = jobs[q]
           /\ jobs'[q].status \in {"running", "completed"} => jobs'[q] = jobs[q]
  BY DEF Enqueue, QueueTypeOK, JobIn, TerminalJob, FreshJob

LEMMA ClaimEffect ==
    ASSUME QueueTypeOK, NEW r \in Runs, Claim(r)
    PROVE  /\ jobs[r].status = "queued" /\ jobs'[r].status = "running"
           /\ \A q \in Runs \ {r} : jobs'[q] = jobs[q]
  BY DEF Claim, QueueTypeOK, JobIn

LEMMA ReportEffect ==
    ASSUME QueueTypeOK, NEW r \in Runs, jobs[r].status = "running",
           Complete(r) \/ Fail(r, TRUE)
    PROVE  /\ \A q \in Runs \ {r} : jobs'[q] = jobs[q]
           /\ jobs'[r].status # "running"
           /\ Fail(r, TRUE) => jobs'[r].status # "completed"
  <1>1. jobs[r] \in Job
    BY DEF QueueTypeOK
  <1>2. ASSUME NEW status \in JobStatus
        PROVE  Unlocked(jobs[r], status).status = status
    BY <1>1 DEF Unlocked, Job
  <1>3. CASE Complete(r)
    <2>1. jobs' = [jobs EXCEPT ![r] = Unlocked(jobs[r], "completed")]
      BY <1>3 DEF Complete, JobIn
    <2>2. jobs'[r].status = "completed"
      BY <1>2, <2>1 DEF QueueTypeOK, JobStatus
    <2>3. ~Fail(r, TRUE)
      <3>1. ASSUME Fail(r, TRUE) PROVE FALSE
        <4>1. jobs' = [jobs EXCEPT ![r] = Unlocked(jobs[r], StatusAfterFailure(jobs[r], TRUE))]
          BY <3>1 DEF Fail, JobIn
        <4>2. StatusAfterFailure(jobs[r], TRUE) \in {"queued", "failed"}
          BY DEF StatusAfterFailure
        <4>3. jobs'[r].status = StatusAfterFailure(jobs[r], TRUE)
          BY <1>2, <4>1, <4>2 DEF QueueTypeOK, JobStatus
        <4> QED
          BY <2>2, <4>2, <4>3
      <3> QED
        BY <3>1
    <2> QED
      BY <2>1, <2>2, <2>3 DEF QueueTypeOK
  <1>4. CASE Fail(r, TRUE)
    <2>1. jobs' = [jobs EXCEPT ![r] = Unlocked(jobs[r], StatusAfterFailure(jobs[r], TRUE))]
      BY <1>4 DEF Fail, JobIn
    <2>2. StatusAfterFailure(jobs[r], TRUE) \in {"queued", "failed"}
      BY DEF StatusAfterFailure
    <2>3. jobs'[r].status \in {"queued", "failed"}
      BY <1>2, <2>1, <2>2 DEF QueueTypeOK, JobStatus
    <2> QED
      BY <2>1, <2>3 DEF QueueTypeOK
  <1> QED
    BY <1>3, <1>4

(* What a report does to any job, whoever makes it and whatever it says.   *)
LEMMA ReportOutcome ==
    ASSUME QueueTypeOK, NEW r \in Runs, NEW q \in Runs,
           Complete(r) \/ \E retryable \in BOOLEAN : Fail(r, retryable)
    PROVE  \/ jobs'[q] = jobs[q]
           \/ /\ q = r
              /\ jobs[q].status = "running"
              /\ jobs'[q].attempts = jobs[q].attempts
              /\ \/ jobs'[q].status \in TerminalJob
                 \/ jobs'[q].status = "queued" /\ jobs[q].attempts < MaxAttempts
  <1>1. jobs[r] \in Job /\ jobs \in [Runs -> Job]
    BY DEF QueueTypeOK
  <1>2. ASSUME NEW status
        PROVE  /\ Unlocked(jobs[r], status).status = status
               /\ Unlocked(jobs[r], status).attempts = jobs[r].attempts
    BY <1>1 DEF Unlocked, Job
  <1>3. ASSUME NEW status, jobs[r].status = "running",
               jobs' = [jobs EXCEPT ![r] = Unlocked(jobs[r], status)],
               \/ status \in TerminalJob
               \/ status = "queued" /\ jobs[r].attempts < MaxAttempts
        PROVE  \/ jobs'[q] = jobs[q]
               \/ /\ q = r
                  /\ jobs[q].status = "running"
                  /\ jobs'[q].attempts = jobs[q].attempts
                  /\ \/ jobs'[q].status \in TerminalJob
                     \/ jobs'[q].status = "queued" /\ jobs[q].attempts < MaxAttempts
    <2>1. CASE q = r
      BY <1>1, <1>2, <1>3, <2>1
    <2>2. CASE q # r
      BY <1>1, <1>3, <2>2
    <2> QED
      BY <2>1, <2>2
  <1>4. CASE Complete(r)
    BY <1>3, <1>4 DEF Complete, JobIn, TerminalJob
  <1>5. ASSUME NEW retryable \in BOOLEAN, Fail(r, retryable)
        PROVE  \/ jobs'[q] = jobs[q]
               \/ /\ q = r
                  /\ jobs[q].status = "running"
                  /\ jobs'[q].attempts = jobs[q].attempts
                  /\ \/ jobs'[q].status \in TerminalJob
                     \/ jobs'[q].status = "queued" /\ jobs[q].attempts < MaxAttempts
    <2>1. CASE jobs[r].status = "running"
      <3>1. jobs' = [jobs EXCEPT ![r] = Unlocked(jobs[r], StatusAfterFailure(jobs[r], retryable))]
        BY <1>5, <2>1 DEF Fail, JobIn
      <3>2. \/ StatusAfterFailure(jobs[r], retryable) \in TerminalJob
            \/ /\ StatusAfterFailure(jobs[r], retryable) = "queued"
               /\ jobs[r].attempts < MaxAttempts
        BY DEF StatusAfterFailure, TerminalJob
      <3> QED
        BY <1>3, <2>1, <3>1, <3>2
    <2>2. CASE jobs[r].status # "running"
      BY <1>5, <2>2 DEF Fail, JobIn
    <2> QED
      BY <2>1, <2>2
  <1> QED
    BY <1>4, <1>5

(* Requeueing leaves every job alone that is not running.                  *)
LEMMA RequeueEffect ==
    ASSUME QueueTypeOK, RequeueStale
    PROVE  /\ QueueTypeOK'
           /\ \A q \in Runs : jobs[q].status # "running" => jobs'[q] = jobs[q]
  <1>1. \A q \in Runs : Unlocked(jobs[q], "queued") \in Job
    BY UnlockedIsJob DEF QueueTypeOK, JobStatus
  <1> QED
    BY <1>1 DEF RequeueStale, QueueTypeOK, JobIn

(* A lock that expires stays the lock of the same attempt.                 *)
LEMMA ExpiryEffect ==
    ASSUME QueueTypeOK, NEW r \in Runs, LockExpires(r)
    PROVE  /\ QueueTypeOK'
           /\ jobs[r].status = "running"
           /\ \A q \in Runs : /\ jobs'[q].status = jobs[q].status
                              /\ jobs'[q].attempts = jobs[q].attempts
                              /\ q # r => jobs'[q] = jobs[q]
  <1>1. jobs' = [jobs EXCEPT ![r] = [jobs[r] EXCEPT !.stale = TRUE]]
    BY Zenon DEF LockExpires
  <1>2. /\ [jobs[r] EXCEPT !.stale = TRUE] \in Job
        /\ [jobs[r] EXCEPT !.stale = TRUE].status = jobs[r].status
        /\ [jobs[r] EXCEPT !.stale = TRUE].attempts = jobs[r].attempts
    BY DEF QueueTypeOK, Job
  <1>3. UNCHANGED arrivals /\ jobs[r].status = "running"
    BY DEF LockExpires, JobIn
  <1> QED
    BY <1>1, <1>2, <1>3 DEF QueueTypeOK
=============================================================================
