------------------------ MODULE AnalysisQueueClients ------------------------
(***************************************************************************)
(* analysis_queue.py under its whole interface, the parts production does  *)
(* not use included: claim_next with stale_after, fail with retryable      *)
(* FALSE and with max_attempts above 1.  Several workers poll, hold a      *)
(* claim, report it or die; anybody enqueues.  Whether workers reclaim     *)
(* stale jobs, and whether they may die, is settled for a behaviour.       *)
(***************************************************************************)
EXTENDS AnalysisQueue

CONSTANTS
    Workers,       \* worker processes
    NoRun,         \* no claim
    Usages,        \* how the queue may be used, any of
                   \*   "reclaim": claim_next is called with stale_after,
                   \*   "crash": a worker may die between two statements
    MaxEnqueues    \* bound: calls of enqueue in a behaviour

ASSUME ClientsAssumption ==
    /\ NoRun \notin Runs
    /\ Usages \subseteq SUBSET {"reclaim", "crash"}
    /\ MaxEnqueues \in Nat

VARIABLES
    usage,    \* of Usages
    claim,    \* the run whose job each worker has claimed
    polling,  \* the workers between the two statements of claim_next
    enqueues  \* calls of enqueue so far

vars == <<usage, jobs, arrivals, claim, polling, enqueues>>

TypeOK ==
    /\ QueueTypeOK /\ usage \in Usages
    /\ claim \in [Workers -> Runs \cup {NoRun}]
    /\ polling \in SUBSET Workers
    /\ enqueues \in 0..MaxEnqueues

Init ==
    /\ QueueInit /\ usage \in Usages
    /\ claim = [w \in Workers |-> NoRun]
    /\ polling = {}
    /\ enqueues = 0

Idle(w) == claim[w] = NoRun /\ w \notin polling

Request(r) ==
    /\ enqueues < MaxEnqueues
    /\ enqueues' = enqueues + 1
    /\ Enqueue(r)
    /\ UNCHANGED <<usage, claim, polling>>

(* claim_next, first statement: only when stale_after was given.           *)
Poll(w) ==
    /\ Idle(w)
    /\ polling' = polling \cup {w}
    /\ IF "reclaim" \in usage THEN RequeueStale ELSE UNCHANGED queueVars
    /\ UNCHANGED <<usage, claim, enqueues>>

(* claim_next, second statement.                                           *)
ClaimNext(w) ==
    /\ w \in polling
    /\ polling' = polling \ {w}
    /\ \/ \E r \in Runs : Claim(r) /\ claim' = [claim EXCEPT ![w] = r]
       \/ /\ \A r \in Runs : ~JobIn(r, {"queued"})
          /\ UNCHANGED <<queueVars, claim>>
    /\ UNCHANGED <<usage, enqueues>>

Report(w) ==
    /\ claim[w] # NoRun
    /\ \/ Complete(claim[w])
       \/ \E retryable \in BOOLEAN : Fail(claim[w], retryable)
    /\ claim' = [claim EXCEPT ![w] = NoRun]
    /\ UNCHANGED <<usage, polling, enqueues>>

Die(w) ==
    /\ "crash" \in usage
    /\ ~Idle(w)
    /\ claim' = [claim EXCEPT ![w] = NoRun]
    /\ polling' = polling \ {w}
    /\ UNCHANGED <<usage, queueVars, enqueues>>

TimePasses(r) ==
    /\ LockExpires(r)
    /\ UNCHANGED <<usage, claim, polling, enqueues>>

WorkerStep(w) == Poll(w) \/ ClaimNext(w) \/ Report(w)

Next ==
    \/ \E r \in Runs : Request(r)
    \/ \E w \in Workers : WorkerStep(w) \/ Die(w)
    \/ \E r \in Runs : TimePasses(r)

Spec == Init /\ [][Next]_vars

(* run_forever never stops polling, and a statement under way ends; clocks *)
(* advance.  Nobody is obliged to enqueue or to crash.                     *)
FairSpec ==
    /\ Spec
    /\ \A w \in Workers : WF_vars(WorkerStep(w))
    /\ \A r \in Runs : WF_vars(TimePasses(r))

-----------------------------------------------------------------------------
(* Without stale reclaim a running job has exactly the claimant that took  *)
(* it: complete() and fail(), which match a job by id and not by           *)
(* locked_by, can then only be the claimant's.                             *)
SoleClaimant ==
    "reclaim" \notin usage =>
        \A w \in Workers : claim[w] # NoRun =>
            /\ JobIn(claim[w], {"running"})
            /\ \A v \in Workers \ {w} : claim[v] # claim[w]

(* Without stale reclaim max_attempts bounds the executions of a job: it   *)
(* is not claimed again once fail() has seen that many attempts.           *)
AttemptsBounded ==
    "reclaim" \notin usage =>
        \A r \in Runs :
            /\ jobs[r].attempts <= MaxAttempts
            /\ JobIn(r, {"queued"}) => jobs[r].attempts < MaxAttempts

(* With stale reclaim two workers may hold one job, and both report it.    *)
(* The late report of either never revives a job that has ended: only      *)
(* enqueue does, and it starts the attempts anew.                          *)
EndedJobOnlyRestartsFresh ==
    [][\A r \in Runs :
         JobIn(r, TerminalJob) => jobs'[r] = jobs[r] \/ jobs'[r] = FreshJob]_vars

(* Without stale reclaim and crashes every job that is queued ends,        *)
(* retries included, whichever jobs overtake it.                           *)
QueuedJobEnds ==
    \A r \in Runs :
        usage = {} /\ JobIn(r, {"queued"}) ~> JobIn(r, TerminalJob)

(* With stale reclaim no job stays running for ever, however often its     *)
(* workers die.                                                            *)
RunningJobIsReclaimed ==
    \A r \in Runs : "reclaim" \in usage /\ JobIn(r, {"running"}) ~> ~JobIn(r, {"running"})
=============================================================================
