------------------------------ MODULE ReviewState ------------------------------
(***************************************************************************)
(* What two screens say of a repository's open pull requests: the list     *)
(* with its review states, and the dashboard's list of those that need     *)
(* action.  Both compare runs in the database with heads on GitHub, read   *)
(* one after the other, while people push and runs end.  The list reads    *)
(* GitHub first, the dashboard the database.                               *)
(***************************************************************************)
EXTENDS Integers, FiniteSets, Functions

CONSTANTS
    PullRequests,  \* numbers, in the order they were opened
    Shas,
    PageSize,      \* the pull requests GitHub gives at once
    MaxRuns        \* bound: runs of a pull request

ASSUME ScreensAssumption ==
    PullRequests \subseteq Nat /\ PageSize \in Nat \ {0} /\ MaxRuns \in Nat

VARIABLES
    head,      \* on GitHub: the head of each pull request
    pushed,    \* the heads it has had
    open,      \* the open pull requests
    runs,      \* the runs of each pull request, by sha
    flags,     \* comment_on_github and publish_github_status
    listing,   \* the request for the list
    dashboard, \* the request for the dashboard
    orderly    \* pull requests whose heads only went on, with runs in their order

github == <<head, pushed, open>>
screensVars == <<github, runs, flags, listing, dashboard, orderly>>

-----------------------------------------------------------------------------
(* at: created_at; recent: within OPEN_PR_ACTION_WINDOW.  A run that is    *)
(* pending may be running, too.                                            *)
Run == [sha : Shas, at : 1..MaxRuns, recent : BOOLEAN,
        status : {"pending", "completed", "error"}, decision : {"none", "pass", "fail"}]
NoRun == [sha |-> "none", at |-> 0, recent |-> FALSE, status |-> "none", decision |-> "none"]

RunsOf(p) == Range(runs[p]) \ {NoRun}
HasRun(p, sha) == runs[p][sha] # NoRun

(* Mutant of Latest: the oldest comes first.                               *)
Oldest(some) == CHOOSE r \in some : \A s \in some : r.at <= s.at
(* Newest by created_at.                                                   *)
Latest(some) == CHOOSE r \in some : \A s \in some : s.at <= r.at

(* list_pull_requests: one page of open ones, newest first.                *)
Listed == {p \in open : Cardinality({q \in open : q > p}) < PageSize}
LivePulls == [p \in Listed |-> head[p]]

NotAsked == [phase |-> "idle"]
ReviewStates == {"not_run", "current", "outdated"}
Actions == {"error", "fail", "publication_off", "outdated", "none"}

ScreensTypeOK ==
    /\ head \in [PullRequests -> Shas] /\ open \subseteq PullRequests
    /\ \A p \in PullRequests : head[p] \in pushed[p] /\ pushed[p] \subseteq Shas
    /\ runs \in [PullRequests -> [Shas -> Run \cup {NoRun}]]
    /\ \A p \in PullRequests : \A r \in RunsOf(p) : r.sha \in pushed[p] /\ runs[p][r.sha] = r
    /\ flags \in [comment : BOOLEAN, status : BOOLEAN]
    /\ orderly \subseteq PullRequests
    /\ \/ listing = NotAsked
       \/ /\ listing.phase = "fetched"
          /\ DOMAIN listing.heads \subseteq PullRequests /\ Range(listing.heads) \subseteq Shas
       \/ listing.phase = "answered" /\ Range(listing.states) \subseteq ReviewStates
    /\ \/ dashboard = NotAsked
       \/ /\ dashboard.phase = "read"
          /\ DOMAIN dashboard.latest \subseteq PullRequests /\ Range(dashboard.latest) \subseteq Run
       \/ dashboard.phase = "answered" /\ Range(dashboard.actions) \subseteq Actions

ScreensInit ==
    /\ head \in [PullRequests -> Shas]
    /\ pushed = [p \in PullRequests |-> {head[p]}]
    /\ open = PullRequests
    /\ runs = [p \in PullRequests |-> [s \in Shas |-> NoRun]]
    /\ flags = [comment |-> TRUE, status |-> TRUE]
    /\ listing = NotAsked /\ dashboard = NotAsked
    /\ orderly = PullRequests

-----------------------------------------------------------------------------
(* GitHub                                                                  *)

Push(p, sha) ==
    /\ p \in open /\ sha # head[p]
    /\ head' = [head EXCEPT ![p] = sha]
    /\ pushed' = [pushed EXCEPT ![p] = @ \cup {sha}]
    /\ orderly' = IF sha \in pushed[p] THEN orderly \ {p} ELSE orderly
    /\ UNCHANGED <<open, runs, flags, listing, dashboard>>

CloseOrReopen(p) ==
    /\ open' = IF p \in open THEN open \ {p} ELSE open \cup {p}
    /\ UNCHANGED <<head, pushed, runs, flags, listing, dashboard, orderly>>

(* The runs of the repository, as other components change them.            *)
Put(p, run) ==
    /\ runs' = [runs EXCEPT ![p][run.sha] = run]
    /\ UNCHANGED <<github, flags, listing, dashboard>>

(* A webhook, perhaps a late one, or someone's click; a failed webhook     *)
(* leaves a run in error.                                                  *)
CreateRun(p, sha, status) ==
    /\ ~HasRun(p, sha) /\ sha \in pushed[p] /\ Cardinality(RunsOf(p)) < MaxRuns
    /\ Put(p, [sha |-> sha, at |-> Cardinality(RunsOf(p)) + 1, recent |-> TRUE,
               status |-> status, decision |-> "none"])
    /\ orderly' = IF sha # head[p] THEN orderly \ {p} ELSE orderly

EndRun(p, sha, status, decision) ==
    /\ HasRun(p, sha) /\ runs[p][sha].status = "pending"
    /\ (status = "completed") <=> (decision # "none")
    /\ Put(p, [runs[p][sha] EXCEPT !.status = status, !.decision = decision])
    /\ UNCHANGED orderly

RestartRun(p, sha) ==
    /\ HasRun(p, sha) /\ runs[p][sha].status = "error"
    /\ Put(p, [runs[p][sha] EXCEPT !.status = "pending"])
    /\ UNCHANGED orderly

(* Fourteen days after it was created; older runs went before.             *)
AgeRun(p, sha) ==
    /\ HasRun(p, sha) /\ runs[p][sha].recent
    /\ \A r \in RunsOf(p) : r.at < runs[p][sha].at => ~r.recent
    /\ Put(p, [runs[p][sha] EXCEPT !.recent = FALSE])
    /\ UNCHANGED orderly

ChangeConfig(new) ==
    /\ flags' = new
    /\ UNCHANGED <<github, runs, listing, dashboard, orderly>>

-----------------------------------------------------------------------------
(* The list: list_repository_pull_requests.                                *)

FetchPulls ==
    /\ listing = NotAsked
    /\ listing' = [phase |-> "fetched", heads |-> LivePulls]
    /\ UNCHANGED <<github, runs, flags, dashboard, orderly>>

(* _review_state_for_pull_request.                                         *)
StateOf(p, live) ==
    IF RunsOf(p) = {} THEN "not_run"
    ELSE IF Latest(RunsOf(p)).sha = live THEN "current" ELSE "outdated"

AnswerList ==
    /\ listing.phase = "fetched"
    /\ listing' = [phase |-> "answered",
                   states |-> [p \in DOMAIN listing.heads |-> StateOf(p, listing.heads[p])]]
    /\ UNCHANGED <<github, runs, flags, dashboard, orderly>>

-----------------------------------------------------------------------------
(* The dashboard: _open_pull_requests_needing_action.                      *)

Ended == {"completed", "error"}
Recent(p) == {r \in RunsOf(p) : r.recent}

(* Mutant of Candidate: the latest of those that ended.                    *)
EndedCandidate(p) ==
    LET ended == {r \in Recent(p) : r.status \in Ended}
    IN IF ended = {} THEN NoRun ELSE Latest(ended)
(* _latest_candidate_runs: the latest, if it has ended.                    *)
Candidate(p) ==
    IF Recent(p) # {} /\ Latest(Recent(p)).status \in Ended THEN Latest(Recent(p)) ELSE NoRun

ReadCandidates ==
    /\ dashboard = NotAsked
    /\ LET candidates == {p \in PullRequests : Candidate(p) # NoRun}
       IN dashboard' = [phase |-> "read", latest |-> [p \in candidates |-> Candidate(p)],
                        flags |-> flags]
    /\ UNCHANGED <<github, runs, flags, listing, orderly>>

(* Mutant of ActionFor: the run's outcome goes before its head.            *)
ActionOfOutcome(run, live, published) ==
    IF run.status = "error" THEN "error"
    ELSE IF run.decision = "fail"
      THEN IF published.comment \/ published.status THEN "fail" ELSE "publication_off"
    ELSE IF run.sha # live THEN "outdated" ELSE "none"
(* _action_for_open_pull_request.                                          *)
ActionFor(run, live, published) ==
    IF run.sha # live THEN "outdated"
    ELSE IF run.status = "error" THEN "error"
    ELSE IF run.decision = "fail"
      THEN IF published.comment \/ published.status THEN "fail" ELSE "publication_off"
    ELSE "none"

AnswerWith(live) ==
    /\ dashboard.phase = "read"
    /\ dashboard' =
         [phase |-> "answered",
          actions |-> [p \in DOMAIN dashboard.latest \cap DOMAIN live |->
                          ActionFor(dashboard.latest[p], live[p], dashboard.flags)]]
    /\ UNCHANGED <<github, runs, flags, listing, orderly>>

AnswerDashboard == AnswerWith(LivePulls)
(* GitHub fails: the repository is left out.                               *)
AnswerWithoutGitHub == AnswerWith([p \in {} |-> "none"])

Forget ==
    /\ \/ listing.phase = "answered" /\ listing' = NotAsked /\ UNCHANGED dashboard
       \/ dashboard.phase = "answered" /\ dashboard' = NotAsked /\ UNCHANGED listing
    /\ UNCHANGED <<github, runs, flags, orderly>>

-----------------------------------------------------------------------------
World ==
    \/ \E p \in PullRequests :
         \/ CloseOrReopen(p)
         \/ \E sha \in Shas :
              \/ Push(p, sha) \/ RestartRun(p, sha) \/ AgeRun(p, sha)
              \/ \E status \in {"pending", "error"} : CreateRun(p, sha, status)
              \/ \E status \in Ended, decision \in {"none", "pass", "fail"} :
                    EndRun(p, sha, status, decision)
    \/ \E new \in [comment : BOOLEAN, status : BOOLEAN] : new # flags /\ ChangeConfig(new)

ScreensNext ==
    \/ World
    \/ FetchPulls \/ AnswerList
    \/ ReadCandidates \/ AnswerDashboard \/ AnswerWithoutGitHub
    \/ Forget

ScreensSpec == ScreensInit /\ [][ScreensNext]_screensVars

-----------------------------------------------------------------------------
(* Properties                                                              *)

(* The list never shows a run next to a head it is not of, and it calls a  *)
(* head outdated or not run only when there is no run of it yet: unless    *)
(* the branch was put back, a run came late, or the head was pushed since  *)
(* GitHub was asked.                                                       *)
ListedHonestly ==
    AnswerList =>
       \A p \in DOMAIN listing.heads :
          LET state == listing'.states[p]
          IN /\ state = "current" => HasRun(p, listing.heads[p])
             /\ state = "not_run" => \A sha \in Shas : ~HasRun(p, sha)
             /\ state = "outdated" /\ p \in orderly /\ head[p] = listing.heads[p]
                => ~HasRun(p, listing.heads[p])
ListIsHonest == [][ListedHonestly]_screensVars

(* A verdict on the dashboard is of the head that GitHub has, of no older  *)
(* one; and a pull request whose latest run, as it was read and still is,  *)
(* failed or broke on its live head is on the list, with whether anyone    *)
(* was told.                                                               *)
ShownAs(p) == dashboard'.actions[p]
DashboardAnswered ==
    AnswerDashboard =>
       /\ \A p \in DOMAIN dashboard'.actions :
             ShownAs(p) \in {"error", "fail", "publication_off"} => HasRun(p, head[p])
       /\ \A p \in Listed \cap DOMAIN dashboard.latest :
             LET run == runs[p][head[p]]
             IN p \in orderly /\ HasRun(p, head[p]) /\ run = dashboard.latest[p] =>
                  /\ run.status = "error" => ShownAs(p) = "error"
                  /\ run.decision = "fail" => ShownAs(p) \in {"fail", "publication_off"}
                  /\ run.decision = "pass" => ShownAs(p) = "none"
DashboardIsComplete == [][DashboardAnswered]_screensVars

(* Nobody is asked to act on a run while a newer one of the same pull      *)
(* request is under way.                                                   *)
Silenced ==
    ReadCandidates =>
       \A p \in DOMAIN dashboard'.latest :
          \A r \in RunsOf(p) : r.status = "pending" => r.at < dashboard'.latest[p].at
NewerRunSilences == [][Silenced]_screensVars

(* The screens are honest while heads and runs change.                     *)
ScreensAreHonest ==
    []ScreensTypeOK /\ ListIsHonest /\ DashboardIsComplete /\ NewerRunSilences
=============================================================================
