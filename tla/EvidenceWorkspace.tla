--------------------------- MODULE EvidenceWorkspace ---------------------------
(***************************************************************************)
(* The working directory of one run's executions: the gates prepare a      *)
(* revision by downloading its archive, run commands in its tree and read  *)
(* files from it.  Executions follow each other (AnalysisPipeline's        *)
(* SoleExecutor) and share the directory; what lives on is what an         *)
(* execution left there, and processes of commands whose time was over.    *)
(***************************************************************************)
EXTENDS Naturals, FiniteSets, Sequences, Functions

CONSTANTS
    Settings,      \* the configurations considered, of AllSettings
    MaxExecutions  \* bound: executions of the run

Revisions == {"head", "base"}
Gates == {"coverage", "security", "technical_debt"}
AllSettings ==
    [env : {"development", "production"}, adapter : {"unset", "local", "isolated", "other"},
     override : BOOLEAN, network : BOOLEAN,   \* whether runner_network is a known one
     keep : BOOLEAN, install : BOOLEAN, needsBase : BOOLEAN, enabled : SUBSET Gates]

ASSUME WorkspaceAssumption == Settings \subseteq AllSettings /\ MaxExecutions \in Nat

VARIABLES
    settings,
    disk,       \* the run's directory: repo, and what is under revisions/
    repoPath,   \* where the runner workspace takes its repository to be
    prepared,   \* the revisions of the cache of prepared ones
    todo,       \* what the gates have still to do
    phase,
    execution,  \* how many executions there were
    fetched,    \* the revisions this execution downloaded
    evidence,   \* what its gates used
    lingering,  \* processes of commands that were given up
    hosted,     \* whether a command was run on the worker's host
    overdue     \* whether a command has timed out

vars == <<settings, disk, repoPath, prepared, todo, phase, execution, fetched, evidence,
          lingering, hosted, overdue>>

-----------------------------------------------------------------------------
(* A tree is the archive of a revision, unpacked by an execution.  Of its  *)
(* files only the coverage report is told apart: committed, written by a   *)
(* command that ended, by one whose time was over until then or after it,  *)
(* or by one of an earlier execution.                                      *)
Reports == {"none", "committed", "written", "unfinished", "late", "foreign"}
Tree == [revision : Revisions, by : 1..MaxExecutions, report : Reports]
NoTree == [revision |-> "none", by |-> 0, report |-> "none"]
Places == {"repo"} \cup Revisions
Empty == [p \in Places |-> NoTree]
Process == [revision : Revisions, by : 1..MaxExecutions]

Task == [gate : Gates, revision : Revisions,
         what : {"prepare", "install", "test", "parse", "scan", "read"}]
TaskOf(gate, revision, what) == [gate |-> gate, revision |-> revision, what |-> what]

(* Mutant of PathOf: _prepared_path does not depend on the revision.       *)
PathOfAny(revision) == "head"
(* _prepared_path.                                                         *)
PathOf(revision) == revision

(* _run_revision_coverage, after prepare_head or prepare_base.             *)
CoverageTasks(revision) ==
    <<TaskOf("coverage", revision, "prepare")>>
    \o (IF settings.install THEN <<TaskOf("coverage", revision, "install")>> ELSE <<>>)
    \o <<TaskOf("coverage", revision, "test"), TaskOf("coverage", revision, "parse")>>

(* The enabled gates of _run_pipeline, one after the other.                *)
GateTasks ==
    (IF "coverage" \in settings.enabled
       THEN CoverageTasks("head")
            \o (IF settings.needsBase THEN CoverageTasks("base") ELSE <<>>)
       ELSE <<>>)
    \o (IF "security" \in settings.enabled
          THEN <<TaskOf("security", "head", "prepare"), TaskOf("security", "head", "scan")>>
          ELSE <<>>)
    \o (IF "technical_debt" \in settings.enabled
          THEN <<TaskOf("technical_debt", "head", "prepare"),
                 TaskOf("technical_debt", "head", "read")>>
          ELSE <<>>)

(* Mutant of DefaultAdapter: local wherever nothing is set.                *)
DefaultLocal == "local"
DefaultAdapter == IF settings.env = "production" THEN "isolated" ELSE "local"

(* create_runner_workspace.                                                *)
Adapter ==
    LET adapter == IF settings.adapter = "unset" THEN DefaultAdapter ELSE settings.adapter
    IN IF adapter = "local" /\ settings.env = "production" /\ ~settings.override
         THEN "refused" ELSE adapter

TypeOK ==
    /\ settings \in Settings
    /\ disk \in [Places -> Tree \cup {NoTree}]
    /\ repoPath \in Places /\ prepared \subseteq Revisions
    /\ todo \in Seq(Task) /\ phase \in {"idle", "working", "leaving"}
    /\ execution \in 0..MaxExecutions
    /\ fetched \in Seq(Revisions)
    /\ evidence \subseteq [task : Task, tree : Tree]
    /\ lingering \subseteq Process
    /\ hosted \in BOOLEAN /\ overdue \in BOOLEAN

Init ==
    /\ settings \in Settings
    /\ disk = Empty /\ repoPath = "repo" /\ prepared = {}
    /\ todo = <<>> /\ phase = "idle" /\ execution = 0
    /\ fetched = <<>> /\ evidence = {} /\ lingering = {}
    /\ hosted = FALSE /\ overdue = FALSE

-----------------------------------------------------------------------------
Writing == lingering # {}

(* A new workspace object, with nothing cached; the directory an earlier   *)
(* execution left is removed, which fails while processes write there.     *)
Enter ==
    /\ phase = "idle" /\ execution < MaxExecutions
    /\ execution' = execution + 1
    /\ repoPath' = "repo" /\ prepared' = {} /\ fetched' = <<>> /\ evidence' = {}
    /\ \/ /\ Adapter \in {"local", "isolated"}
          /\ disk' = Empty
          /\ phase' = "working" /\ todo' = GateTasks
       \/ /\ Adapter \notin {"local", "isolated"} \/ (disk # Empty /\ Writing)
          /\ UNCHANGED <<disk, phase, todo>>
    /\ UNCHANGED <<settings, lingering, hosted, overdue>>

(* Mutant of Exit: an execution that ends in an error keeps its directory. *)
ExitWhenDone ==
    /\ phase = "leaving" /\ phase' = "idle"
    /\ \/ disk' = IF settings.keep \/ todo # <<>> THEN disk ELSE Empty
       \/ disk # Empty /\ Writing /\ UNCHANGED disk
    /\ todo' = <<>>
    /\ UNCHANGED <<settings, repoPath, prepared, execution, fetched, evidence, lingering,
                   hosted, overdue>>
(* __exit__ removes the directory whatever happened, unless it is kept;    *)
(* its errors are ignored.                                                 *)
Exit ==
    /\ phase = "leaving" /\ phase' = "idle"
    /\ \/ disk' = IF settings.keep THEN disk ELSE Empty
       \/ disk # Empty /\ Writing /\ UNCHANGED disk
    /\ todo' = <<>>
    /\ UNCHANGED <<settings, repoPath, prepared, execution, fetched, evidence, lingering,
                   hosted, overdue>>

At(what) == phase = "working" /\ todo # <<>> /\ Head(todo).what \in what
Revision == Head(todo).revision
Proceed == todo' = Tail(todo) /\ phase' = IF Len(todo) = 1 THEN "leaving" ELSE "working"

(* Leaves the with block: no gate is left, a gate ended in an error, an    *)
(* exception went through it, or the time for the analysis is over.        *)
Leave ==
    /\ phase = "working" /\ phase' = "leaving"
    /\ UNCHANGED <<settings, disk, repoPath, prepared, todo, execution, fetched, evidence,
                   lingering, hosted, overdue>>

(* The rest of a prepare that finds its revision in the cache.             *)
Reuse ==
    /\ At({"prepare"}) /\ Revision \in prepared
    /\ Proceed
    /\ UNCHANGED <<settings, disk, repoPath, prepared, execution, fetched, evidence,
                   lingering, hosted, overdue>>

Unpacked(committed) == [revision |-> Revision, by |-> execution,
                        report |-> IF committed THEN "committed" ELSE "none"]

(* Mutant of Prepare: the cache is not filled.                             *)
PrepareUncached(committed) ==
    /\ At({"prepare"}) /\ Revision \notin prepared
    /\ disk' = [disk EXCEPT ![repoPath] = NoTree, ![PathOf(Revision)] = Unpacked(committed)]
    /\ fetched' = Append(fetched, Revision)
    /\ Proceed
    /\ UNCHANGED <<settings, repoPath, prepared, execution, evidence, lingering, hosted,
                   overdue>>
(* download_repository_archive puts the tree at the workspace's repo_path, *)
(* from where it is moved under revisions/, each in place of what is       *)
(* there.  When any of it fails, Leave is next.                            *)
Prepare(committed) ==
    /\ At({"prepare"}) /\ Revision \notin prepared
    /\ disk' = [disk EXCEPT ![repoPath] = NoTree, ![PathOf(Revision)] = Unpacked(committed)]
    /\ fetched' = Append(fetched, Revision)
    /\ prepared' = prepared \cup {Revision}
    /\ Proceed
    /\ UNCHANGED <<settings, repoPath, execution, evidence, lingering, hosted, overdue>>

-----------------------------------------------------------------------------
(* A command runs where repo_path is the prepared tree, and repo_path is   *)
(* put back afterwards.                                                    *)
CanRun(what) ==
    /\ At(what) /\ disk[PathOf(Revision)] # NoTree
    /\ Adapter = "isolated" => settings.network
IsTest == Head(todo).what = "test"
Written(report) == [disk EXCEPT ![PathOf(Revision)].report = report]
UsedTree == evidence' = evidence \cup {[task |-> Head(todo), tree |-> disk[PathOf(Revision)]]}

(* Mutant of RepoPathAfter: it is not put back.                            *)
RepoPathLeft == PathOf(Revision)
(* Mutant of RepoPathAfter: nothing was saved to put back.                 *)
RepoPathUnset == "unset"
RepoPathAfter == repoPath

(* It ends by itself, with any exit code: only install's is looked at.  A  *)
(* test command writes the report or not.  Without docker nothing runs.    *)
RunEnds ==
    /\ CanRun({"install", "test", "scan"})
    /\ repoPath' = RepoPathAfter
    /\ hosted' = (hosted \/ Adapter = "local")
    /\ disk' \in IF IsTest THEN {disk, Written("written")} ELSE {disk}
    /\ UsedTree /\ Proceed
    /\ UNCHANGED <<settings, prepared, execution, fetched, lingering, overdue>>

(* Its time is over: install and scan raise, test goes on.  On the host    *)
(* the shell is killed and its children may live; the container is gone    *)
(* when timeout(1) ended the command in it, or may live when docker itself *)
(* did not answer and its removal does not either.                         *)
RunTimesOut ==
    /\ CanRun({"install", "test", "scan"})
    /\ repoPath' = RepoPathAfter
    /\ hosted' = (hosted \/ Adapter = "local")
    /\ overdue' = TRUE
    /\ disk' \in IF IsTest THEN {disk, Written("unfinished")} ELSE {disk}
    /\ lingering' \in {lingering,
          lingering \cup {[revision |-> Revision, by |-> execution]}}
    /\ IF IsTest THEN Proceed ELSE phase' = "leaving" /\ UNCHANGED todo
    /\ UsedTree
    /\ UNCHANGED <<settings, prepared, execution, fetched>>

(* _parse_report of the file the test command should have left.            *)
ParseReport ==
    /\ At({"parse"}) /\ disk[PathOf(Revision)].report # "none"
    /\ UsedTree /\ Proceed
    /\ UNCHANGED <<settings, disk, repoPath, prepared, execution, fetched, lingering,
                   hosted, overdue>>

(* The technical debt gate reads the changed files.                        *)
ReadFiles ==
    /\ At({"read"}) /\ disk[PathOf(Revision)] # NoTree
    /\ UsedTree /\ Proceed
    /\ UNCHANGED <<settings, disk, repoPath, prepared, execution, fetched, lingering,
                   hosted, overdue>>

(* What a process that lingers may still do to the report, under the path  *)
(* it was given.                                                           *)
LingeringWrites(p) ==
    /\ disk[p.revision] # NoTree
    /\ disk' = [disk EXCEPT ![p.revision].report =
                  IF disk[p.revision].by = p.by THEN "late" ELSE "foreign"]
    /\ UNCHANGED <<settings, repoPath, prepared, todo, phase, execution, fetched, evidence,
                   lingering, hosted, overdue>>
LingeringEnds(p) ==
    /\ lingering' = lingering \ {p}
    /\ UNCHANGED <<settings, disk, repoPath, prepared, todo, phase, execution, fetched,
                   evidence, hosted, overdue>>

Next ==
    \/ Enter \/ Leave \/ Exit
    \/ Reuse \/ \E committed \in BOOLEAN : Prepare(committed)
    \/ RunEnds \/ RunTimesOut
    \/ ParseReport \/ ReadFiles
    \/ \E p \in lingering : LingeringWrites(p) \/ LingeringEnds(p)

Spec == Init /\ [][Next]_vars

-----------------------------------------------------------------------------
(* Properties                                                              *)

(* Whatever a gate ran in, parsed or read was the tree of the revision it  *)
(* asked for, unpacked by this execution and not left by an earlier one;   *)
(* a report that a process of an earlier execution wrote is only used when *)
(* one of its commands had timed out.                                      *)
EvidenceIsOfItsRevision ==
    \A used \in evidence :
        /\ used.tree.revision = used.task.revision
        /\ used.tree.by = execution
        /\ used.tree.report = "foreign" => overdue

(* A gate may rely on a prepared revision: its tree stays where it is      *)
(* while the execution lasts, whatever else is prepared or run.            *)
PreparedTreesStay ==
    phase = "working" =>
        \A r \in prepared :
            disk[r].revision = r /\ disk[r].by = execution

(* The gates share what is prepared: an execution downloads a revision     *)
(* once, and base only for the coverage drop.                              *)
RevisionsAreFetchedOnce ==
    /\ IsInjective(fetched)
    /\ "base" \in Range(fetched) => settings.needsBase /\ "coverage" \in settings.enabled

(* When no command has timed out, nothing is left of an execution that     *)
(* ended, in whatever way, unless it is to be kept.                        *)
WorkspaceIsRemoved == phase = "idle" /\ ~settings.keep /\ ~overdue => disk = Empty

(* In production no command runs on the worker's host unless the local     *)
(* adapter was chosen and allowed.                                         *)
HostIsSpared ==
    hosted /\ settings.env = "production" =>
        settings.adapter = "local" /\ settings.override

(* The workspace is sound in all of these respects.                        *)
WorkspaceIsSound ==
    /\ EvidenceIsOfItsRevision /\ PreparedTreesStay /\ RevisionsAreFetchedOnce
    /\ WorkspaceIsRemoved /\ HostIsSpared
=============================================================================
