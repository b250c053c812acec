------------------------------ MODULE MCEvidence ------------------------------
(* Around the gates of an execution, for TLC: the configuration of the     *)
(* coverage commands, the workspace they run in, the AI review of what the *)
(* gates found, and the lists that show the outcome.  These follow each    *)
(* other and share no state, so each is checked by itself: part says what  *)
(* is going on, and the others stay as they were at first.                 *)
EXTENDS EvidenceWorkspace, CoverageConfig, ReviewGraph, ReviewState

CONSTANTS a, b, q2   \* two revisions; an update some parts do without

VARIABLE part

evidenceVars == <<part, vars, configVars, reviewVars, screensVars>>

-----------------------------------------------------------------------------
(* Workspaces: on a developer's host, where a base revision is needed or   *)
(* dependencies are installed; and under every choice of a runner.         *)
OnHost(install, needsBase, enabled) ==
    [env : {"development"}, adapter : {"unset"}, override : {FALSE}, network : {TRUE},
     keep : BOOLEAN, install : {install}, needsBase : {needsBase}, enabled : enabled]
Development ==
    OnHost(FALSE, TRUE, {{"coverage", "security", "technical_debt"},
                         {"security", "technical_debt"}, {}})
    \cup OnHost(TRUE, FALSE, {{"coverage", "security"}})
AnyRunner ==
    [env : {"development", "production"}, adapter : {"unset", "local", "isolated", "other"},
     override : BOOLEAN, network : BOOLEAN, keep : {FALSE}, install : {FALSE},
     needsBase : {TRUE}, enabled : {{"coverage", "security"}}]
Considered == Development \cup AnyRunner

(* Reviews: texts that claim a decision, leak a secret, or name a file.    *)
SomeTexts == {{}, {"says_pass"}, {"says_fail", "changed_file"},
              {"secret", "changed_file"}, {"other_file"}}
SomeTitles == {{"says_pass"}, {"secret"}, {"changed_file"}}
SomeScores == {-1, 0, 100}

-----------------------------------------------------------------------------
(* Updates: any, one at a time; or two that overlap, of few payloads.      *)
OneUpdate == request'[q2] = Idle
FewPayloads ==
    {p \in Payload : p.language \in {"python", "go", Unset} /\ p.format # "lcov"}
Overlap == \A q \in Requests : request'[q] = Idle \/ request'[q].payload \in FewPayloads

-----------------------------------------------------------------------------
EvidenceInit ==
    /\ Init /\ ConfigInit /\ ReviewInit /\ ScreensInit
    /\ part \in {"config", "overlap", "workspace", "runners", "review", "lists"}
    /\ part = "workspace" => settings \in Development
    /\ part = "runners" => settings \in AnyRunner
    /\ part \notin {"workspace", "runners"} => settings = CHOOSE s \in Settings : TRUE
    /\ part \notin {"config", "overlap"} => config = Preset("python", FALSE)
    /\ part # "review" => findings = {} /\ key
    /\ part # "lists" => head = [p \in PullRequests |-> a]

EvidenceNext ==
    /\ UNCHANGED part
    /\ \/ /\ part \in {"config", "overlap"}
          /\ ConfigNext /\ UNCHANGED <<vars, reviewVars, screensVars>>
          /\ IF part = "config" THEN OneUpdate ELSE Overlap
       \/ /\ part \in {"workspace", "runners"}
          /\ Next /\ UNCHANGED <<configVars, reviewVars, screensVars>>
          /\ part = "runners" => execution' <= 1
       \/ part = "review" /\ ReviewNext /\ UNCHANGED <<vars, configVars, screensVars>>
       \/ part = "lists" /\ ScreensNext /\ UNCHANGED <<vars, configVars, reviewVars>>

EvidenceSpec == EvidenceInit /\ [][EvidenceNext]_evidenceVars
=============================================================================
