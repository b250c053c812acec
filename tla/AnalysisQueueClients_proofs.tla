---------------------- MODULE AnalysisQueueClients_proofs ----------------------
(***************************************************************************)
(* Theorems about AnalysisQueueClients: what the job table guarantees to   *)
(* any number of clients, with and without stale reclaim and crashes.      *)
(***************************************************************************)
EXTENDS AnalysisQueueClients, AnalysisQueue_proofs

LEMMA InitTypeOK == Init => TypeOK
  BY ClientsAssumption, QueueAssumption
  DEF Init, TypeOK, QueueInit, QueueTypeOK, NoJob, Job, JobStatus

LEMMA NextTypeOK == TypeOK /\ [Next]_vars => TypeOK'
  <1> SUFFICES ASSUME TypeOK, [Next]_vars PROVE TypeOK'
    OBVIOUS
  <1>t. /\ QueueTypeOK /\ usage \in Usages
        /\ claim \in [Workers -> Runs \cup {NoRun}]
        /\ polling \in SUBSET Workers
        /\ enqueues \in 0..MaxEnqueues
        /\ MaxEnqueues \in Nat
    BY ClientsAssumption DEF TypeOK
  <1>q. UNCHANGED queueVars => QueueTypeOK'
    BY <1>t DEF queueVars, QueueTypeOK
  <1>1. ASSUME NEW r \in Runs, Request(r) PROVE TypeOK'
    <2>1. QueueTypeOK'
      BY <1>1, <1>t, QueueTypePreserved DEF Request
    <2> QED
      BY <1>1, <1>t, <2>1 DEF Request, TypeOK
  <1>2. ASSUME NEW w \in Workers, Poll(w) PROVE TypeOK'
    <2>1. QueueTypeOK'
      BY <1>2, <1>t, <1>q, RequeueEffect DEF Poll
    <2> QED
      BY <1>2, <1>t, <2>1 DEF Poll, TypeOK
  <1>3. ASSUME NEW w \in Workers, ClaimNext(w) PROVE TypeOK'
    <2>1. CASE \E r \in Runs : Claim(r) /\ claim' = [claim EXCEPT ![w] = r]
      <3>1. QueueTypeOK'
        BY <2>1, <1>t, QueueTypePreserved
      <3>2. claim' \in [Workers -> Runs \cup {NoRun}]
        BY <2>1, <1>t
      <3> QED
        BY <1>3, <1>t, <3>1, <3>2 DEF ClaimNext, TypeOK
    <2>2. CASE UNCHANGED <<queueVars, claim>>
      BY <1>3, <1>t, <1>q, <2>2 DEF ClaimNext, TypeOK
    <2> QED
      BY <1>3, <2>1, <2>2, Zenon DEF ClaimNext
  <1>4. ASSUME NEW w \in Workers, Report(w) PROVE TypeOK'
    <2>1. claim[w] \in Runs
      BY <1>4, <1>t DEF Report
    <2>2. QueueTypeOK'
      BY <1>4, <1>t, <2>1, QueueTypePreserved DEF Report
    <2> QED
      BY <1>4, <1>t, <2>2 DEF Report, TypeOK
  <1>5. ASSUME NEW w \in Workers, Die(w) PROVE TypeOK'
    BY <1>5, <1>t, <1>q DEF Die, TypeOK
  <1>6. ASSUME NEW r \in Runs, TimePasses(r) PROVE TypeOK'
    BY <1>6, <1>t, ExpiryEffect DEF TimePasses, TypeOK
  <1>7. CASE UNCHANGED vars
    BY <1>7, <1>t, <1>q DEF vars, queueVars, TypeOK
  <1> QED
    BY <1>1, <1>2, <1>3, <1>4, <1>5, <1>6, <1>7 DEF Next, WorkerStep

(* Type correctness, with and without stale reclaim and crashes.           *)
THEOREM ClientsTypeCorrect == Spec => []TypeOK
  BY InitTypeOK, NextTypeOK, PTL DEF Spec

-----------------------------------------------------------------------------
(* How the queue is used does not change during a behaviour.               *)
LEMMA UsageStays == [Next]_vars => usage' = usage
  BY DEF Next, vars, Request, WorkerStep, Poll, ClaimNext, Report, Die, TimePasses

(* A claim is taken of a queued job, and without stale reclaim a running   *)
(* job leaves that state by its claimant's report only.                    *)
LEMMA NextSoleClaimant == TypeOK /\ SoleClaimant /\ [Next]_vars => SoleClaimant'
  <1> SUFFICES ASSUME TypeOK, SoleClaimant, [Next]_vars, "reclaim" \notin usage,
                      NEW w \in Workers, claim'[w] # NoRun
               PROVE  /\ jobs'[claim'[w]].status = "running"
                      /\ \A v \in Workers \ {w} : claim'[v] # claim'[w]
    BY UsageStays DEF SoleClaimant, JobIn
  <1>t. /\ QueueTypeOK
        /\ claim \in [Workers -> Runs \cup {NoRun}]
        /\ NoRun \notin Runs
    BY ClientsAssumption DEF TypeOK
  <1>s. \A v \in Workers : claim[v] # NoRun =>
            /\ claim[v] \in Runs
            /\ jobs[claim[v]].status = "running"
            /\ \A u \in Workers \ {v} : claim[u] # claim[v]
    BY <1>t DEF SoleClaimant, JobIn
  <1>0. CASE jobs' = jobs /\ claim' = claim
    BY <1>0, <1>s
  <1>1. ASSUME NEW r \in Runs, Request(r)
        PROVE  /\ jobs'[claim'[w]].status = "running"
               /\ \A v \in Workers \ {w} : claim'[v] # claim'[w]
    BY <1>1, <1>s, <1>t, EnqueueEffect DEF Request
  <1>2. ASSUME NEW v \in Workers, Poll(v) PROVE jobs' = jobs /\ claim' = claim
    BY <1>2 DEF Poll, queueVars
  <1>3. ASSUME NEW v \in Workers, NEW r \in Runs,
               Claim(r), claim' = [claim EXCEPT ![v] = r]
        PROVE  /\ jobs'[claim'[w]].status = "running"
               /\ \A u \in Workers \ {w} : claim'[u] # claim'[w]
    <2>1. jobs[r].status = "queued" /\ jobs'[r].status = "running"
          /\ \A q \in Runs \ {r} : jobs'[q] = jobs[q]
      BY <1>3, <1>t, ClaimEffect
    <2>2. \A u \in Workers : claim[u] # r
      BY <1>s, <1>t, <2>1
    <2> QED
      BY <1>3, <1>s, <1>t, <2>1, <2>2
  <1>4. ASSUME NEW v \in Workers, Report(v)
        PROVE  /\ jobs'[claim'[w]].status = "running"
               /\ \A u \in Workers \ {w} : claim'[u] # claim'[w]
    <2>1. claim[v] \in Runs /\ claim' = [claim EXCEPT ![v] = NoRun]
      BY <1>4, <1>t DEF Report
    <2>2. w # v /\ claim'[w] = claim[w] /\ claim[w] \in Runs
      BY <1>t, <2>1
    <2>3. jobs'[claim[w]] = jobs[claim[w]]
      BY <1>4, <1>s, <1>t, <2>1, <2>2, ReportOutcome DEF Report
    <2> QED
      BY <1>s, <1>t, <2>1, <2>2, <2>3
  <1>5. ASSUME NEW v \in Workers, Die(v)
        PROVE  /\ jobs'[claim'[w]].status = "running"
               /\ \A u \in Workers \ {w} : claim'[u] # claim'[w]
    BY <1>5, <1>s, <1>t DEF Die, queueVars
  <1>6. ASSUME NEW r \in Runs, TimePasses(r)
        PROVE  /\ jobs'[claim'[w]].status = "running"
               /\ \A u \in Workers \ {w} : claim'[u] # claim'[w]
    <2>1. claim' = claim
      BY <1>6 DEF TimePasses
    <2>2. \A q \in Runs : jobs'[q].status = jobs[q].status
      BY <1>6, <1>t, ExpiryEffect DEF TimePasses
    <2> QED
      BY <1>s, <2>1, <2>2
  <1>7. CASE UNCHANGED vars
    BY <1>0, <1>7 DEF vars
  <1>8. ASSUME NEW v \in Workers, ClaimNext(v)
        PROVE  \/ \E r \in Runs : Claim(r) /\ claim' = [claim EXCEPT ![v] = r]
               \/ jobs' = jobs /\ claim' = claim
    BY <1>8, Zenon DEF ClaimNext, queueVars
  <1> QED
    BY <1>0, <1>1, <1>2, <1>3, <1>4, <1>5, <1>6, <1>7, <1>8 DEF Next, WorkerStep

(* Used the way worker.py uses it, without stale_after, the table gives a  *)
(* running job to one claimant, however many workers poll, die and report, *)
(* although complete and fail do not check who took the job.               *)
THEOREM ClaimsAreExclusive == Spec => []SoleClaimant
  <1>1. Init => SoleClaimant
    BY DEF Init, SoleClaimant
  <1>2. TypeOK /\ SoleClaimant /\ [Next]_vars => SoleClaimant'
    BY NextSoleClaimant
  <1> QED
    BY <1>1, <1>2, ClientsTypeCorrect, PTL DEF Spec

-----------------------------------------------------------------------------
LEMMA NextAttemptsBounded == TypeOK /\ AttemptsBounded /\ [Next]_vars => AttemptsBounded'
  <1> SUFFICES ASSUME TypeOK, AttemptsBounded, [Next]_vars, "reclaim" \notin usage,
                      NEW q \in Runs
               PROVE  /\ jobs'[q].attempts <= MaxAttempts
                      /\ jobs'[q].status = "queued" => jobs'[q].attempts < MaxAttempts
    BY UsageStays DEF AttemptsBounded, JobIn
  <1>t. /\ QueueTypeOK
        /\ jobs[q] \in Job
        /\ claim \in [Workers -> Runs \cup {NoRun}]
        /\ jobs[q].attempts <= MaxAttempts
        /\ jobs[q].status = "queued" => jobs[q].attempts < MaxAttempts
    BY DEF TypeOK, QueueTypeOK, AttemptsBounded, JobIn
  <1>m. MaxAttempts \in Nat /\ AttemptCap \in Nat /\ 0 < MaxAttempts /\ MaxAttempts < AttemptCap
    BY QueueAssumption
  <1>0. CASE jobs'[q] = jobs[q]
    BY <1>0, <1>t
  <1>1. ASSUME NEW r \in Runs, Request(r)
        PROVE  jobs'[q] = jobs[q] \/ jobs'[q] = FreshJob
    BY <1>1, <1>t DEF Request, Enqueue, QueueTypeOK
  <1>2. ASSUME NEW v \in Workers, Poll(v) PROVE jobs'[q] = jobs[q]
    BY <1>2 DEF Poll, queueVars
  <1>3. ASSUME NEW r \in Runs, Claim(r)
        PROVE  \/ jobs'[q] = jobs[q]
               \/ /\ jobs'[q].status = "running"
                  /\ jobs'[q].attempts <= MaxAttempts
    <2>1. CASE q # r
      BY <1>3, <1>t, <2>1, ClaimEffect
    <2>2. CASE q = r
      <3>1. jobs[q].attempts \in 0..AttemptCap /\ jobs[q].attempts < MaxAttempts
        BY <1>3, <1>t, <2>2 DEF Claim, JobIn, Job
      <3>2. /\ jobs'[q].status = "running"
            /\ jobs'[q].attempts = CountAttempt(jobs[q].attempts)
        BY <1>3, <1>t, <2>2 DEF Claim, QueueTypeOK
      <3> QED
        BY <1>m, <3>1, <3>2 DEF CountAttempt
    <2> QED
      BY <2>1, <2>2
  <1>4. ASSUME NEW v \in Workers, Report(v)
        PROVE  \/ jobs'[q] = jobs[q]
               \/ /\ jobs'[q].attempts = jobs[q].attempts
                  /\ jobs'[q].status = "queued" => jobs[q].attempts < MaxAttempts
    <2>1. claim[v] \in Runs
      BY <1>4, <1>t DEF Report
    <2> QED
      BY <1>4, <1>t, <2>1, ReportOutcome DEF Report, TerminalJob
  <1>5. ASSUME NEW v \in Workers, Die(v) PROVE jobs'[q] = jobs[q]
    BY <1>5 DEF Die, queueVars
  <1>6. ASSUME NEW r \in Runs, TimePasses(r)
        PROVE  jobs'[q].status = jobs[q].status /\ jobs'[q].attempts = jobs[q].attempts
    BY <1>6, <1>t, ExpiryEffect DEF TimePasses
  <1>7. CASE UNCHANGED vars
    BY <1>0, <1>7 DEF vars
  <1>8. ASSUME NEW v \in Workers, ClaimNext(v)
        PROVE  (\E r \in Runs : Claim(r)) \/ jobs'[q] = jobs[q]
    BY <1>8, Zenon DEF ClaimNext, queueVars
  <1>9. CASE jobs'[q] = FreshJob
    BY <1>9, <1>m DEF FreshJob
  <1>10. CASE Next
    <2>1. CASE \E r \in Runs : Request(r)
      BY <1>0, <1>1, <1>9, <2>1
    <2>2. CASE \E v \in Workers : Poll(v) \/ Die(v)
      BY <1>0, <1>2, <1>5, <2>2
    <2>3. CASE \E v \in Workers : ClaimNext(v)
      BY <1>0, <1>3, <1>8, <2>3
    <2>4. CASE \E v \in Workers : Report(v)
      BY <1>0, <1>4, <1>t, <2>4
    <2>5. CASE \E r \in Runs : TimePasses(r)
      BY <1>6, <1>t, <2>5
    <2> QED
      BY <1>10, <2>1, <2>2, <2>3, <2>4, <2>5 DEF Next, WorkerStep
  <1> QED
    BY <1>7, <1>10

(* Without stale reclaim no job is claimed more than max_attempts times    *)
(* between two enqueues that revive it, whatever its workers report.       *)
THEOREM AttemptsAreBounded == Spec => []AttemptsBounded
  <1>1. Init => AttemptsBounded
    <2> SUFFICES ASSUME Init, NEW r \in Runs
                 PROVE  jobs[r].attempts <= MaxAttempts /\ jobs[r].status # "queued"
      BY DEF AttemptsBounded, JobIn
    <2>1. jobs[r].attempts = 0 /\ jobs[r].status = "absent"
      BY DEF Init, QueueInit, NoJob
    <2>2. 0 <= MaxAttempts
      BY QueueAssumption
    <2> QED
      BY <2>1, <2>2
  <1>2. TypeOK /\ AttemptsBounded /\ [Next]_vars => AttemptsBounded'
    BY NextAttemptsBounded
  <1> QED
    BY <1>1, <1>2, ClientsTypeCorrect, PTL DEF Spec

-----------------------------------------------------------------------------
(* What a step may do to a job that has ended.                             *)
RestartsFresh ==
    \A r \in Runs : JobIn(r, TerminalJob) => jobs'[r] = jobs[r] \/ jobs'[r] = FreshJob

LEMMA NextRestartsFresh == TypeOK /\ [Next]_vars => RestartsFresh
  <1> SUFFICES ASSUME TypeOK, [Next]_vars, NEW q \in Runs,
                      jobs[q].status \in {"completed", "failed"}
               PROVE  jobs'[q] = jobs[q] \/ jobs'[q] = FreshJob
    BY DEF RestartsFresh, JobIn, TerminalJob
  <1>t. QueueTypeOK /\ claim \in [Workers -> Runs \cup {NoRun}]
    BY DEF TypeOK
  <1>1. ASSUME NEW r \in Runs, Request(r)
        PROVE  jobs'[q] = jobs[q] \/ jobs'[q] = FreshJob
    BY <1>1, <1>t DEF Request, Enqueue, QueueTypeOK
  <1>2. ASSUME NEW v \in Workers, Poll(v) PROVE jobs'[q] = jobs[q]
    BY <1>2, <1>t, RequeueEffect DEF Poll, queueVars
  <1>3. ASSUME NEW v \in Workers, ClaimNext(v) PROVE jobs'[q] = jobs[q]
    <2>1. (\E r \in Runs : Claim(r)) \/ jobs' = jobs
      BY <1>3, Zenon DEF ClaimNext, queueVars
    <2> QED
      BY <1>t, <2>1, ClaimEffect
  <1>4. ASSUME NEW v \in Workers, Report(v) PROVE jobs'[q] = jobs[q]
    <2>1. claim[v] \in Runs
      BY <1>4, <1>t DEF Report
    <2> QED
      BY <1>4, <1>t, <2>1, ReportOutcome DEF Report
  <1>5. ASSUME NEW v \in Workers, Die(v) PROVE jobs'[q] = jobs[q]
    BY <1>5 DEF Die, queueVars
  <1>6. ASSUME NEW r \in Runs, TimePasses(r) PROVE jobs'[q] = jobs[q]
    BY <1>6, <1>t, ExpiryEffect DEF TimePasses
  <1>7. CASE UNCHANGED vars
    BY <1>7 DEF vars
  <1> QED
    BY <1>1, <1>2, <1>3, <1>4, <1>5, <1>6, <1>7 DEF Next, WorkerStep

(* Stale reclaim or not: no report, however late, touches a job that has   *)
(* ended; an enqueue does, and its attempts start anew.                    *)
THEOREM EndedJobsRestartFresh == Spec => EndedJobOnlyRestartsFresh
  <1>1. TypeOK /\ [Next]_vars => [RestartsFresh]_vars
    BY NextRestartsFresh
  <1>2. [][RestartsFresh]_vars => EndedJobOnlyRestartsFresh
    BY PTL DEF RestartsFresh, EndedJobOnlyRestartsFresh
  <1> QED
    BY <1>1, <1>2, ClientsTypeCorrect, PTL DEF Spec
=============================================================================
