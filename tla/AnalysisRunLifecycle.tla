------------------------ MODULE AnalysisRunLifecycle ------------------------
(***************************************************************************)
(* What the analysis backend promises about an Analysis Run, without job   *)
(* table, workers or requests: a run is accepted once, is executed by one  *)
(* activity at a time, and a verdict, once that activity has let the run   *)
(* go, is never touched again.  AnalysisPipeline implements it.            *)
(***************************************************************************)
CONSTANT Runs

VARIABLES
    outcome,  \* what a reader of the run sees
    active    \* the runs some activity holds for execution

lifecycleVars == <<outcome, active>>

Verdict == {"pass", "fail"}
Outcome == {"absent", "pending", "running", "error"} \cup Verdict

LifecycleInit ==
    /\ outcome = [r \in Runs |-> "absent"]
    /\ active = {}

Becomes(r, from, to) ==
    /\ outcome[r] \in from
    /\ outcome' = [outcome EXCEPT ![r] = to]

(* A trigger makes the run, or records that its context was not captured.  *)
Accept(r) ==
    /\ \E first \in {"pending", "error"} : Becomes(r, {"absent"}, first)
    /\ UNCHANGED active

Activate(r) ==
    /\ outcome[r] # "absent"
    /\ r \notin active
    /\ active' = active \cup {r}
    /\ UNCHANGED outcome

(* A held run without a verdict starts, again if it was cut off before.    *)
Start(r) ==
    /\ r \in active
    /\ Becomes(r, {"pending", "error", "running"}, "running")
    /\ UNCHANGED active

Conclude(r) ==
    /\ r \in active
    /\ \E verdict \in Verdict : Becomes(r, {"running"}, verdict)
    /\ UNCHANGED active

(* While the run is still held its holder may withdraw even a verdict.     *)
Abort(r) ==
    /\ r \in active
    /\ Becomes(r, {"running", "error"} \cup Verdict, "error")
    /\ UNCHANGED active

Release(r) ==
    /\ r \in active
    /\ active' = active \ {r}
    /\ UNCHANGED outcome

LifecycleNext ==
    \E r \in Runs : \/ Accept(r) \/ Activate(r) \/ Start(r)
                    \/ Conclude(r) \/ Abort(r) \/ Release(r)

LifecycleSpec == LifecycleInit /\ [][LifecycleNext]_lifecycleVars
=============================================================================
