-------------------------- MODULE GitHubPublication --------------------------
(***************************************************************************)
(* What a pull request on GitHub shows of its Analysis Runs: a marked      *)
(* comment and a commit status for each, written by the worker that        *)
(* executes a run (when it starts and when it has ended) and by            *)
(* administrators who republish it.  github_publication_service reads the  *)
(* run once and then makes several HTTP calls, in no transaction with      *)
(* anything.                                                               *)
(*                                                                         *)
(* The rows and the queue are those of AnalysisRunLifecycle, which the     *)
(* pipeline implements; here is where an execution publishes.              *)
(***************************************************************************)
EXTENDS AnalysisRunLifecycle, Naturals, Sequences, FiniteSets

CONSTANTS
    Workers,        \* worker processes
    Admins,         \* handlers of POST .../publish-github
    NoRun,          \* no run; the run of a stranger's comment
    Enabled,        \* the channels of the quality gate config
    PageSize,       \* comments in the one page that is listed (100)
    MaxStrangers,   \* bound: comments by other people
    MaxExecutions,  \* bound: claims by workers
    MaxClicks,      \* bound: republications
    MaxFailures     \* bound: failed calls, exceptions and deaths

ASSUME PublicationAssumption ==
    /\ NoRun \notin Runs
    /\ Workers \cap Admins = {}
    /\ Enabled \subseteq {"comment", "status"}
    /\ PageSize \in Nat
    /\ MaxStrangers \in Nat /\ MaxExecutions \in Nat
    /\ MaxClicks \in Nat /\ MaxFailures \in Nat

VARIABLES
    worker,      \* how far each worker is with the run it holds
    publishing,  \* the publication each process is at
    comments,    \* the comments of the pull request, oldest first
    status,      \* the commit status of each run's head
    strangers, executions, clicks, failures,  \* counted for the bounds
    raced        \* history: runs with overlapping publications, see Overlap

github == <<comments, status>>
counters == <<strangers, executions, clicks, failures>>
vars == <<lifecycleVars, worker, publishing, github, counters, raced>>

Publishers == Workers \cup Admins

(* Mutant of NextPc: the verdict is published before the run is re-read.   *)
NextPcPublishingFirst ==
    [start |-> "announce", announce |-> "pipeline", pipeline |-> "publish",
     publish |-> "reread", reread |-> "release"]
NextPc == [start |-> "announce", announce |-> "pipeline", pipeline |-> "reread",
           reread |-> "publish", publish |-> "release"]

Execution == [pc : {"idle", "start", "announce", "pipeline", "reread", "publish",
                    "release"},
              run : Runs \cup {NoRun}]
IdleWorker == [pc |-> "idle", run |-> NoRun]

(* seen: the run's state as it was read; found: the comment to update, 0   *)
(* for none.                                                               *)
Publication == [step : {"idle", "token", "find", "write", "post"},
                run : Runs \cup {NoRun}, seen : Outcome, todo : SUBSET {"comment", "status"},
                found : Nat]
NoPublication ==
    [step |-> "idle", run |-> NoRun, seen |-> "absent", todo |-> {}, found |-> 0]

(* Mutant of StateOf: a state GitHub does not know.                        *)
StateOfMisspelt(seen) ==
    CASE seen = "running" -> "pending"
      [] seen = "error" -> "errored"
      [] seen = "pass" -> "success"
      [] OTHER -> "failure"
(* _status_state_and_description.                                          *)
StateOf(seen) ==
    CASE seen = "running" -> "pending"
      [] seen = "error" -> "error"
      [] seen = "pass" -> "success"
      [] OTHER -> "failure"

Comment == [run : Runs \cup {NoRun}, body : Outcome]

TypeOK ==
    /\ outcome \in [Runs -> Outcome]
    /\ active \subseteq Runs
    /\ worker \in [Workers -> Execution]
    /\ publishing \in [Publishers -> Publication]
    /\ comments \in Seq(Comment)
    /\ status \in [Runs -> {"none", "pending", "error", "success", "failure"}]
    /\ strangers \in 0..MaxStrangers /\ executions \in 0..MaxExecutions
    /\ clicks \in 0..MaxClicks /\ failures \in 0..MaxFailures
    /\ raced \subseteq Runs

Init ==
    /\ LifecycleInit
    /\ worker = [w \in Workers |-> IdleWorker]
    /\ publishing = [p \in Publishers |-> NoPublication]
    /\ comments = <<>>
    /\ status = [r \in Runs |-> "none"]
    /\ strangers = 0 /\ executions = 0 /\ clicks = 0 /\ failures = 0
    /\ raced = {}

-----------------------------------------------------------------------------
(* Publishing                                                              *)

(* Mutant of Publishable: only completed runs are published.               *)
PublishableCompleted == Verdict
(* The states of a run that publish_analysis_run_to_github publishes.      *)
Publishable == Verdict \cup {"error"}

(* A worker that announces a run publishes the pending status only.        *)
Channels(announcing, seen) ==
    IF announcing THEN IF seen = "running" THEN Enabled \ {"comment"} ELSE {}
                  ELSE IF seen \in Publishable THEN Enabled ELSE {}

(* The end of a publication, as it may be: the worker swallows what it     *)
(* raised and goes on, an administrator gets the answer.                   *)
EndPublication(p) ==
    /\ publishing' = [publishing EXCEPT ![p] = NoPublication]
    /\ worker' = IF p \in Workers
                 THEN [worker EXCEPT ![p].pc = NextPc[@]]
                 ELSE worker

Goto(p, step) ==
    /\ publishing' = [publishing EXCEPT ![p].step = step]
    /\ UNCHANGED worker

At(p, step) == publishing[p].step = step

(* publish_analysis_run_to_github and publish_pending_commit_status: the   *)
(* run is read, and only here.                                             *)
BeginPublication(p, r, announcing) ==
    /\ At(p, "idle")
    /\ LET todo == Channels(announcing, outcome[r])
       IN IF todo = {}
          THEN EndPublication(p)
          ELSE /\ publishing' = [publishing EXCEPT ![p] =
                     [step |-> "token", run |-> r, seen |-> outcome[r],
                      todo |-> todo, found |-> 0]]
               /\ UNCHANGED worker
    /\ UNCHANGED <<lifecycleVars, github, strangers, executions, failures>>

GetClient(p) ==
    /\ At(p, "token")
    /\ Goto(p, IF "comment" \in publishing[p].todo THEN "find" ELSE "post")
    /\ UNCHANGED <<lifecycleVars, github, counters>>

(* Mutant of HasMarker: the comment is looked up by its whole text.        *)
HasText(comment, publication) ==
    comment.run = publication.run /\ comment.body = publication.seen
(* Mutant of HasMarker: the marker does not say of which run it is.        *)
HasAnyMarker(comment, publication) == comment.run # NoRun
HasMarker(comment, publication) == comment.run = publication.run

(* The first comment of the listed page that has the run's marker.         *)
MarkedComment(publication) ==
    LET marked == {i \in DOMAIN comments :
                     i <= PageSize /\ HasMarker(comments[i], publication)}
    IN IF marked = {} THEN 0
       ELSE CHOOSE i \in marked : \A j \in marked : i <= j

FindComment(p) ==
    /\ At(p, "find")
    /\ publishing' = [publishing EXCEPT ![p].step = "write",
                                        ![p].found = MarkedComment(publishing[p])]
    /\ UNCHANGED <<lifecycleVars, worker, github, counters>>

PutComment(publication) ==
    LET comment == [run |-> publication.run, body |-> publication.seen]
    IN comments' = IF publication.found = 0
                   THEN Append(comments, comment)
                   ELSE [comments EXCEPT ![publication.found] = comment]

WriteComment(p) ==
    /\ At(p, "write")
    /\ PutComment(publishing[p])
    /\ IF "status" \in publishing[p].todo THEN Goto(p, "post") ELSE EndPublication(p)
    /\ UNCHANGED <<lifecycleVars, status, counters>>

PostStatus(p) ==
    /\ At(p, "post")
    /\ status' = [status EXCEPT ![publishing[p].run] = StateOf(publishing[p].seen)]
    /\ EndPublication(p)
    /\ UNCHANGED <<lifecycleVars, comments, counters>>

Failure ==
    /\ failures < MaxFailures
    /\ failures' = failures + 1
    /\ UNCHANGED <<strangers, executions, clicks>>

(* A call fails, or has its effect and the answer is lost.                 *)
CallFails(p) ==
    /\ Failure
    /\ ~At(p, "idle")
    /\ EndPublication(p)
    /\ \/ UNCHANGED github
       \/ At(p, "write") /\ PutComment(publishing[p]) /\ UNCHANGED status
       \/ /\ At(p, "post")
          /\ status' = [status EXCEPT ![publishing[p].run] = StateOf(publishing[p].seen)]
          /\ UNCHANGED comments
    /\ UNCHANGED lifecycleVars

PublicationStep(p) ==
    GetClient(p) \/ FindComment(p) \/ WriteComment(p) \/ PostStatus(p) \/ CallFails(p)

-----------------------------------------------------------------------------
(* The execution of a run by a worker                                      *)

WorkerAt(w, pcs) == worker[w].pc \in pcs /\ At(w, "idle")
Advance(w) == worker' = [worker EXCEPT ![w].pc = NextPc[@]]
ExecutionOnly == UNCHANGED <<publishing, github, counters>>

TakeRun(w, r) ==
    /\ WorkerAt(w, {"idle"})
    /\ executions < MaxExecutions
    /\ executions' = executions + 1
    /\ Activate(r)
    /\ worker' = [worker EXCEPT ![w] = [pc |-> "start", run |-> r]]
    /\ UNCHANGED <<publishing, github, strangers, clicks, failures>>

StartRun(w) ==
    /\ WorkerAt(w, {"start"})
    /\ Start(worker[w].run)
    /\ Advance(w)
    /\ ExecutionOnly

(* try_publish_pending_commit_status.                                      *)
Announce(w) ==
    /\ WorkerAt(w, {"announce"})
    /\ BeginPublication(w, worker[w].run, TRUE)
    /\ UNCHANGED clicks

DecideRun(w) ==
    /\ WorkerAt(w, {"pipeline"})
    /\ Conclude(worker[w].run)
    /\ Advance(w)
    /\ ExecutionOnly

(* _finish_with_error, from the pipeline or after an exception, which      *)
(* reading the row again after the verdict may raise too.                  *)
FailRun(w) ==
    /\ WorkerAt(w, {"pipeline", "reread"})
    /\ Abort(worker[w].run)
    /\ worker' = [worker EXCEPT ![w].pc = "publish"]
    /\ ExecutionOnly

RereadRun(w) ==
    /\ WorkerAt(w, {"reread"})
    /\ Advance(w)
    /\ UNCHANGED lifecycleVars
    /\ ExecutionOnly

(* try_publish_analysis_run_to_github.                                     *)
Publish(w) ==
    /\ WorkerAt(w, {"publish"})
    /\ BeginPublication(w, worker[w].run, FALSE)
    /\ UNCHANGED clicks

(* The job is reported, and somebody else may take it.  A run that is      *)
(* refused, or gets no token, is let go at once.                           *)
ReleaseRun(w) ==
    /\ WorkerAt(w, {"start", "release"})
    /\ Release(worker[w].run)
    /\ worker' = [worker EXCEPT ![w] = IdleWorker]
    /\ ExecutionOnly

(* Recording the error raises as well, before or after its commit: the job *)
(* fails, nothing is published.                                            *)
GiveUpRun(w) ==
    /\ Failure
    /\ WorkerAt(w, {"pipeline", "reread", "publish"})
    /\ worker[w].pc = "publish" => outcome[worker[w].run] = "error"
    /\ Release(worker[w].run)
    /\ worker' = [worker EXCEPT ![w] = IdleWorker]
    /\ UNCHANGED <<publishing, github>>

(* The worker is killed: its job stays running.                            *)
KillWorker(w) ==
    /\ Failure
    /\ worker[w] # IdleWorker
    /\ worker' = [worker EXCEPT ![w] = IdleWorker]
    /\ publishing' = [publishing EXCEPT ![w] = NoPublication]
    /\ UNCHANGED <<lifecycleVars, github>>

WorkerStep(w) ==
    \/ StartRun(w) \/ Announce(w) \/ DecideRun(w) \/ FailRun(w)
    \/ RereadRun(w) \/ Publish(w) \/ ReleaseRun(w) \/ GiveUpRun(w)
    \/ PublicationStep(w)

-----------------------------------------------------------------------------
(* Everybody else                                                          *)

AcceptRun(r) ==
    /\ Accept(r)
    /\ UNCHANGED <<worker, publishing, github, counters>>

(* POST /api/analysis-runs/{id}/publish-github.                            *)
Republish(a, r) ==
    /\ clicks < MaxClicks
    /\ clicks' = clicks + 1
    /\ outcome[r] # "absent"
    /\ BeginPublication(a, r, FALSE)

StrangerComments ==
    /\ strangers < MaxStrangers
    /\ strangers' = strangers + 1
    /\ comments' = Append(comments, [run |-> NoRun, body |-> "absent"])
    /\ UNCHANGED <<lifecycleVars, worker, publishing, status, executions, clicks, failures>>

Step ==
    \/ \E r \in Runs : AcceptRun(r)
    \/ \E w \in Workers : WorkerStep(w) \/ KillWorker(w) \/ \E r \in Runs : TakeRun(w, r)
    \/ \E a \in Admins : PublicationStep(a) \/ \E r \in Runs : Republish(a, r)
    \/ StrangerComments

(* The history: two publications of a run overlap, or its row changes      *)
(* while a publication that has read it is under way.                      *)
Under(publication, r) == publication.step # "idle" /\ publication.run = r
Overlap(r) ==
    \/ \E p, q \in Publishers : p # q /\ Under(publishing'[p], r) /\ Under(publishing'[q], r)
    \/ outcome'[r] # outcome[r] /\ \E p \in Publishers : Under(publishing[p], r)

Next == Step /\ raced' = raced \cup {r \in Runs : Overlap(r)}

Spec == Init /\ [][Next]_vars

(* Processes that are alive keep running.                                  *)
FairSpec ==
    /\ Spec
    /\ \A w \in Workers : WF_vars(WorkerStep(w) /\ Next)
    /\ \A a \in Admins : WF_vars(PublicationStep(a) /\ Next)

-----------------------------------------------------------------------------
Fits == Len(comments) <= PageSize
CommentsOf(r) == {i \in DOMAIN comments : comments[i].run = r}

(* As long as the comments fit into one page and no two publications       *)
(* overlap, a run has one comment at most: re-executions, republications   *)
(* and retries after a lost answer find it.                                *)
RetriesFindTheComment ==
    \A r \in Runs : Fits /\ r \notin raced => Cardinality(CommentsOf(r)) <= 1

(* ADR-0043.  Nobody having republished, a verdict that GitHub shows is    *)
(* the run's: it is published after the last statement that could still    *)
(* turn the run into an error, whatever fails or dies.                     *)
VerdictShownIsTheRuns ==
    clicks = 0 =>
        \A r \in Runs :
            /\ status[r] \in {"success", "failure"} => status[r] = StateOf(outcome[r])
            /\ \A i \in CommentsOf(r) : comments[i].body \in Verdict =>
                 comments[i].body = outcome[r]

(* A run that is let go is shown as it is, if every call succeeded and no  *)
(* publication overlapped another one or an execution.                     *)
ReleasedRunIsShown ==
    \A r \in Runs :
        /\ failures = 0 /\ r \notin active /\ r \notin raced
        /\ outcome[r] \in Verdict \/ status[r] # "none"
        => /\ "status" \in Enabled => status[r] = StateOf(outcome[r])
           /\ "comment" \in Enabled /\ Fits =>
                \E i \in CommentsOf(r) : comments[i].body = outcome[r]

(* A pending status does not stay unless a call failed or a process died.  *)
PendingStatusIsReplaced ==
    \A r \in Runs : status[r] = "pending" ~> status[r] # "pending" \/ failures > 0
=============================================================================
