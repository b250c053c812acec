---------------------------- MODULE Evidence_proofs ----------------------------
(***************************************************************************)
(* Theorems about the evidence of a run and what is made of it: the        *)
(* workspace of its executions, the coverage configuration, the AI review, *)
(* and the screens that show it.  For every setting, any number of         *)
(* executions and updates, any answer of the model, and any number of pull *)
(* requests.                                                               *)
(***************************************************************************)
EXTENDS EvidenceWorkspace, CoverageConfig, ReviewGraph, ReviewState,
        FiniteSetTheorems, SequenceTheorems, TLAPS

-----------------------------------------------------------------------------
(* The inductive invariant of the workspace: what is on the disk while the *)
(* gates work is what the cache of prepared revisions says.                *)
IsThere(p) == disk[p] # NoTree
CacheIsTheDisk ==
    /\ repoPath = "repo" /\ ~IsThere("repo")
    /\ \A r \in Revisions : IsThere(r) => disk[r].revision = r
    /\ phase # "idle" => /\ execution > 0
                         /\ \A r \in Revisions : /\ r \in prepared <=> IsThere(r)
                                                 /\ IsThere(r) => disk[r].by = execution

(* Only a command that has timed out leaves a process, and only such a     *)
(* process spoils a report.                                                *)
LateIsOverdue ==
    /\ lingering # {} => overdue
    /\ \A p \in Places : disk[p].report = "foreign" => overdue

(* The base revision is asked for by the coverage gate's drop alone.       *)
NeedsBase == settings.needsBase /\ "coverage" \in settings.enabled
BaseIsNeeded ==
    /\ \A k \in DOMAIN todo : todo[k].revision = "base" => NeedsBase
    /\ "base" \in prepared => NeedsBase
FetchedIsPrepared == IsInjective(fetched) /\ Range(fetched) = prepared

WInv == /\ TypeOK /\ CacheIsTheDisk /\ LateIsOverdue /\ BaseIsNeeded /\ FetchedIsPrepared
        /\ EvidenceIsOfItsRevision /\ WorkspaceIsRemoved /\ HostIsSpared

-----------------------------------------------------------------------------
(* What the operators of the model do                                      *)

LEMMA NoTreeIsNoTree == NoTree \notin Tree /\ NoTree.report = "none"
  BY DEF NoTree, Tree, Revisions

(* The gates' tasks, of which only the coverage gate's are for the base.   *)
LEMMA TasksAreTyped ==
    ASSUME settings \in AllSettings
    PROVE  /\ GateTasks \in Seq(Task)
           /\ \A k \in DOMAIN GateTasks : GateTasks[k].revision = "base" => NeedsBase
  <1> DEFINE Ok(s) == /\ s \in Seq(Task)
                      /\ \A k \in DOMAIN s : s[k].revision = "base" => NeedsBase
  <1>1. ASSUME NEW s, NEW t, Ok(s), Ok(t) PROVE Ok(s \o t)
    <2>1. s \o t \in Seq(Task)
      BY <1>1
    <2>2. ASSUME NEW k \in DOMAIN (s \o t), (s \o t)[k].revision = "base" PROVE NeedsBase
      <3>1. k \in 1..(Len(s) + Len(t))
        BY <1>1, <2>2
      <3>2. CASE k <= Len(s)
        BY <1>1, <2>2, <3>1, <3>2
      <3>3. CASE k > Len(s)
        <4>1. (s \o t)[k] = t[k - Len(s)] /\ k - Len(s) \in DOMAIN t
          BY <1>1, <3>1, <3>3
        <4> QED
          BY <1>1, <2>2, <4>1
      <3> QED
        BY <1>1, <3>1, <3>2, <3>3
    <2> QED
      BY <2>1, <2>2
  <1>2. Ok(<<>>)
    OBVIOUS
  <1>3. ASSUME NEW g \in Gates, NEW r \in Revisions,
               NEW w \in {"prepare", "install", "test", "parse", "scan", "read"},
               r = "base" => NeedsBase
        PROVE  Ok(<<TaskOf(g, r, w)>>)
    BY <1>3 DEF TaskOf, Task
  <1>4. ASSUME NEW r \in Revisions, r = "base" => NeedsBase PROVE Ok(CoverageTasks(r))
    <2> "coverage" \in Gates
      BY DEF Gates
    <2>1. Ok(<<TaskOf("coverage", r, "prepare")>>) /\ Ok(<<TaskOf("coverage", r, "install")>>)
      BY <1>3, <1>4
    <2>2. Ok(<<TaskOf("coverage", r, "test")>>) /\ Ok(<<TaskOf("coverage", r, "parse")>>)
      BY <1>3, <1>4
    <2>3. Ok(<<TaskOf("coverage", r, "test"), TaskOf("coverage", r, "parse")>>)
      <3>1. <<TaskOf("coverage", r, "test"), TaskOf("coverage", r, "parse")>>
            = <<TaskOf("coverage", r, "test")>> \o <<TaskOf("coverage", r, "parse")>>
        OBVIOUS
      <3> QED
        BY <1>1, <2>2, <3>1
    <2> DEFINE install == IF settings.install THEN <<TaskOf("coverage", r, "install")>> ELSE <<>>
    <2>4. Ok(install)
      BY <1>2, <2>1
    <2>5. Ok(<<TaskOf("coverage", r, "prepare")>> \o install)
      BY <1>1, <2>1, <2>4
    <2> HIDE DEF Ok
    <2> QED
      BY <1>1, <2>3, <2>5 DEF CoverageTasks
  <1> DEFINE ofCoverage == IF "coverage" \in settings.enabled
                             THEN CoverageTasks("head")
                                  \o (IF settings.needsBase THEN CoverageTasks("base") ELSE <<>>)
                             ELSE <<>>
             ofSecurity == IF "security" \in settings.enabled
                             THEN <<TaskOf("security", "head", "prepare"),
                                    TaskOf("security", "head", "scan")>>
                             ELSE <<>>
             ofDebt == IF "technical_debt" \in settings.enabled
                         THEN <<TaskOf("technical_debt", "head", "prepare"),
                                TaskOf("technical_debt", "head", "read")>>
                         ELSE <<>>
  <1>5. Ok(ofCoverage)
    <2>1. Ok(CoverageTasks("head"))
      BY <1>4 DEF Revisions
    <2>2. CASE "coverage" \in settings.enabled /\ settings.needsBase
      <3>1. Ok(CoverageTasks("base"))
        BY <1>4, <2>2 DEF Revisions, NeedsBase
      <3> HIDE DEF Ok
      <3> QED
        BY <1>1, <2>1, <2>2, <3>1
    <2> HIDE DEF Ok
    <2> QED
      BY <1>1, <1>2, <2>1, <2>2
  <1>6. ASSUME NEW g \in Gates, NEW v \in {"scan", "read"}
        PROVE  Ok(<<TaskOf(g, "head", "prepare"), TaskOf(g, "head", v)>>)
    <2>1. Ok(<<TaskOf(g, "head", "prepare")>>) /\ Ok(<<TaskOf(g, "head", v)>>)
      BY <1>3 DEF Revisions
    <2>2. <<TaskOf(g, "head", "prepare"), TaskOf(g, "head", v)>>
          = <<TaskOf(g, "head", "prepare")>> \o <<TaskOf(g, "head", v)>>
      OBVIOUS
    <2> QED
      BY <1>1, <2>1, <2>2
  <1>7. Ok(ofSecurity) /\ Ok(ofDebt)
    BY <1>2, <1>6 DEF Gates
  <1> HIDE DEF Ok
  <1>8. Ok(ofCoverage \o ofSecurity \o ofDebt)
    BY <1>1, <1>5, <1>7
  <1>9. GateTasks = ofCoverage \o ofSecurity \o ofDebt
    BY DEF GateTasks
  <1> QED
    BY <1>8, <1>9 DEF Ok

(* The next task, and what is left after it.                               *)
LEMMA ProceedEffect ==
    ASSUME WInv, NEW what, At(what)
    PROVE  /\ Head(todo) \in Task /\ Revision \in Revisions /\ Head(todo).what \in what
           /\ Revision = "base" => NeedsBase
           /\ Proceed => /\ todo' \in Seq(Task) /\ phase' \in {"working", "leaving"}
                         /\ \A k \in DOMAIN todo' : todo'[k].revision = "base" => NeedsBase
  <1>1. todo \in Seq(Task) /\ todo # <<>> /\ Head(todo) = todo[1] /\ 1 \in DOMAIN todo
    BY DEF WInv, TypeOK, At
  <1>2. Head(todo) \in Task
    BY <1>1
  <1>3. Revision \in Revisions /\ Head(todo).what \in what
    BY <1>2 DEF Revision, Task, At
  <1>4. Revision = "base" => NeedsBase
    BY <1>1 DEF Revision, WInv, BaseIsNeeded
  <1>5. ASSUME Proceed
        PROVE  /\ todo' \in Seq(Task) /\ phase' \in {"working", "leaving"}
               /\ \A k \in DOMAIN todo' : todo'[k].revision = "base" => NeedsBase
    <2>1. todo' = Tail(todo) /\ phase' \in {"working", "leaving"}
      BY <1>5 DEF Proceed
    <2>2. todo' \in Seq(Task) /\ Len(todo') = Len(todo) - 1
      BY <1>1, <2>1
    <2>3. \A k \in DOMAIN todo' : todo'[k] = todo[k + 1] /\ k + 1 \in DOMAIN todo
      BY <1>1, <2>1
    <2> QED
      BY <2>1, <2>2, <2>3 DEF WInv, BaseIsNeeded
  <1> QED
    BY <1>2, <1>3, <1>4, <1>5

(* Trees may be written to, but not moved, while commands run.             *)
Rewritten(p) ==
    /\ IsThere(p) /\ disk'[p] # NoTree
    /\ disk'[p].revision = disk[p].revision /\ disk'[p].by = disk[p].by
    /\ disk'[p].report = "foreign" => overdue'
OnlyRewritten ==
    /\ disk' \in [Places -> Tree \cup {NoTree}]
    /\ \A p \in Places : disk'[p] = disk[p] \/ Rewritten(p)

LEMMA WriteEffect ==
    ASSUME WInv, NEW r \in Revisions, IsThere(r), NEW left \in Reports,
           left = "foreign" => overdue', disk' = [disk EXCEPT ![r].report = left]
    PROVE  OnlyRewritten
  <1>1. disk \in [Places -> Tree \cup {NoTree}] /\ r \in Places /\ disk[r] \in Tree
    BY DEF WInv, TypeOK, Places, IsThere
  <1> DEFINE tree == [disk[r] EXCEPT !.report = left]
  <1>2. /\ tree \in Tree /\ tree.revision = disk[r].revision /\ tree.by = disk[r].by
        /\ tree.report = left
    BY <1>1 DEF Tree
  <1>3. disk' = [disk EXCEPT ![r] = tree]
    OBVIOUS
  <1> HIDE DEF tree
  <1>4. disk' \in [Places -> Tree \cup {NoTree}] /\ disk'[r] = tree
        /\ \A p \in Places : p # r => disk'[p] = disk[p]
    BY <1>1, <1>2, <1>3
  <1>5. Rewritten(r)
    BY <1>2, <1>4, NoTreeIsNoTree DEF Rewritten
  <1> QED
    BY <1>4, <1>5 DEF OnlyRewritten

LEMMA SameDisk == ASSUME WInv, disk' = disk PROVE OnlyRewritten
  BY DEF WInv, TypeOK, OnlyRewritten

LEMMA RewrittenStays ==
    ASSUME WInv, OnlyRewritten, UNCHANGED <<repoPath, prepared, execution>>,
           phase' # "idle" => phase # "idle", overdue => overdue'
    PROVE  /\ CacheIsTheDisk'
           /\ \A p \in Places : disk'[p].report = "foreign" => overdue'
  <1>1. Revisions \subseteq Places /\ "repo" \in Places
    BY DEF Places
  <1>2. \A p \in Places : IsThere(p)' <=> IsThere(p)
    BY DEF OnlyRewritten, Rewritten, IsThere
  <1>3. \A p \in Places : IsThere(p) => /\ disk'[p].revision = disk[p].revision
                                        /\ disk'[p].by = disk[p].by
    BY DEF OnlyRewritten, Rewritten
  <1>4. CacheIsTheDisk'
    BY <1>1, <1>2, <1>3 DEF WInv, CacheIsTheDisk
  <1>5. \A p \in Places : disk'[p].report = "foreign" => overdue'
    BY DEF OnlyRewritten, Rewritten, WInv, LateIsOverdue
  <1> QED
    BY <1>4, <1>5

(* What a gate is given exists, and is what it asked for.                  *)
LEMMA UseEffect ==
    ASSUME WInv, NEW what, At(what), IsThere(Revision), UsedTree, execution' = execution,
           overdue => overdue'
    PROVE  /\ evidence' \subseteq [task : Task, tree : Tree]
           /\ EvidenceIsOfItsRevision'
  <1>1. Head(todo) \in Task /\ Revision \in Revisions /\ Head(todo).revision = Revision
    BY ProceedEffect DEF Revision
  <1> DEFINE tree == disk[Revision]
             new == [task |-> Head(todo), tree |-> tree]
  <1>2. tree \in Tree /\ Revision \in Places
    BY <1>1 DEF WInv, TypeOK, Places, IsThere
  <1>3. phase # "idle"
    BY DEF At
  <1>4. tree.revision = Revision /\ tree.by = execution /\ (tree.report = "foreign" => overdue)
    BY <1>1, <1>2, <1>3 DEF WInv, CacheIsTheDisk, LateIsOverdue
  <1>5. evidence' = evidence \cup {new}
    BY DEF UsedTree, PathOf
  <1> HIDE DEF tree
  <1>6. evidence' \subseteq [task : Task, tree : Tree]
    BY <1>1, <1>2, <1>5 DEF WInv, TypeOK
  <1>7. \A used \in evidence' : \/ used \in evidence
                                \/ used.task = Head(todo) /\ used.tree = tree
    BY <1>5
  <1> QED
    BY <1>1, <1>4, <1>6, <1>7 DEF WInv, EvidenceIsOfItsRevision

-----------------------------------------------------------------------------
(* Spec => []WInv                                                          *)

LEMMA InitWInv == Init => WInv
  <1> SUFFICES ASSUME Init PROVE WInv
    OBVIOUS
  <1> USE DEF Init
  <1>1. \A p \in Places : disk[p] = NoTree
    BY DEF Empty
  <1>2. TypeOK
    <2>1. disk \in [Places -> Tree \cup {NoTree}]
      BY DEF Empty
    <2>2. todo \in Seq(Task) /\ fetched \in Seq(Revisions)
      OBVIOUS
    <2>3. execution \in 0..MaxExecutions
      BY WorkspaceAssumption
    <2>4. repoPath \in Places
      BY DEF Places
    <2> QED
      BY <2>1, <2>2, <2>3, <2>4 DEF TypeOK
  <1>3. CacheIsTheDisk
    BY <1>1 DEF CacheIsTheDisk, IsThere, Places
  <1>4. LateIsOverdue
    BY <1>1, NoTreeIsNoTree DEF LateIsOverdue
  <1>5. BaseIsNeeded /\ FetchedIsPrepared
    BY DEF BaseIsNeeded, FetchedIsPrepared, IsInjective, Range
  <1> QED
    BY <1>2, <1>3, <1>4, <1>5
    DEF WInv, EvidenceIsOfItsRevision, WorkspaceIsRemoved, HostIsSpared

LEMMA EnterWInv == WInv /\ Enter => WInv'
  <1> SUFFICES ASSUME WInv, Enter PROVE WInv'
    OBVIOUS
  <1> USE DEF Enter
  <1>1. TypeOK /\ settings \in AllSettings
    BY WorkspaceAssumption DEF WInv, TypeOK
  <1>2. /\ todo' \in Seq(Task)
        /\ \A k \in DOMAIN todo' : todo'[k].revision = "base" => NeedsBase
    BY <1>1, TasksAreTyped DEF WInv, TypeOK, BaseIsNeeded
  <1>3. \/ disk' = Empty
        \/ disk' = disk /\ phase' = "idle"
    OBVIOUS
  <1>4. TypeOK'
    <2>1. disk' \in [Places -> Tree \cup {NoTree}]
      BY <1>1, <1>3 DEF TypeOK, Empty
    <2>2. execution' \in 0..MaxExecutions
      BY <1>1, WorkspaceAssumption DEF TypeOK
    <2>3. fetched' \in Seq(Revisions) /\ repoPath' \in Places
      BY DEF Places
    <2> QED
      BY <1>1, <1>2, <2>1, <2>2, <2>3 DEF TypeOK
  <1>5. CacheIsTheDisk'
    <2>1. CASE disk' = Empty
      <3>1. \A p \in Places : ~IsThere(p)'
        BY <2>1 DEF Empty, IsThere
      <3>2. execution' > 0
        BY <1>1, WorkspaceAssumption DEF TypeOK
      <3> QED
        BY <3>1, <3>2 DEF CacheIsTheDisk, Places
    <2>2. CASE disk' = disk /\ phase' = "idle"
      BY <2>2 DEF WInv, CacheIsTheDisk, IsThere
    <2> QED
      BY <1>3, <2>1, <2>2
  <1>6. LateIsOverdue'
    <2>1. \A p \in Places : disk'[p] = NoTree \/ disk'[p] = disk[p]
      BY <1>3 DEF Empty
    <2> QED
      BY <2>1, NoTreeIsNoTree DEF WInv, LateIsOverdue
  <1>7. BaseIsNeeded' /\ FetchedIsPrepared' /\ EvidenceIsOfItsRevision'
    BY <1>2
    DEF BaseIsNeeded, NeedsBase, FetchedIsPrepared, IsInjective, Range, EvidenceIsOfItsRevision
  <1>8. WorkspaceIsRemoved' /\ HostIsSpared'
    BY <1>3 DEF WInv, WorkspaceIsRemoved, HostIsSpared
  <1> QED
    BY <1>4, <1>5, <1>6, <1>7, <1>8 DEF WInv

(* The steps that move no tree.                                            *)
TaskTyped ==
    /\ todo' \in Seq(Task) /\ phase' \in {"idle", "working", "leaving"}
    /\ \A k \in DOMAIN todo' : todo'[k].revision = "base" => NeedsBase
    /\ phase' = "idle" <=> phase = "idle"
EvidenceTyped == evidence' \subseteq [task : Task, tree : Tree] /\ EvidenceIsOfItsRevision'
LateTyped ==
    /\ lingering' \subseteq Process /\ overdue' \in BOOLEAN
    /\ overdue => overdue'
    /\ lingering' # {} => overdue'
HostTyped == hosted' \in BOOLEAN /\ HostIsSpared'

LEMMA WorkWInv ==
    ASSUME WInv, OnlyRewritten, TaskTyped, EvidenceTyped, LateTyped, HostTyped,
           UNCHANGED <<settings, repoPath, prepared, execution, fetched>>,
           phase = "idle" /\ ~overdue' => disk' = disk
    PROVE  WInv'
  <1>1. TypeOK'
    BY DEF WInv, TypeOK, OnlyRewritten, TaskTyped, EvidenceTyped, LateTyped, HostTyped
  <1>2. /\ CacheIsTheDisk'
        /\ \A p \in Places : disk'[p].report = "foreign" => overdue'
    BY RewrittenStays DEF TaskTyped, LateTyped
  <1>3. LateIsOverdue'
    BY <1>2 DEF LateIsOverdue, LateTyped
  <1>4. BaseIsNeeded' /\ FetchedIsPrepared'
    BY DEF WInv, BaseIsNeeded, NeedsBase, FetchedIsPrepared, TaskTyped
  <1>5. WorkspaceIsRemoved'
    BY DEF WInv, WorkspaceIsRemoved, TaskTyped, LateTyped
  <1> QED
    BY <1>1, <1>2, <1>3, <1>4, <1>5 DEF WInv, EvidenceTyped, HostTyped

LEMMA SameEvidence == WInv /\ UNCHANGED <<evidence, execution>> /\ LateTyped => EvidenceTyped
  BY DEF WInv, TypeOK, EvidenceTyped, EvidenceIsOfItsRevision, LateTyped
LEMMA SameTasks == WInv /\ UNCHANGED todo /\ phase # "idle" /\ phase' = "leaving" => TaskTyped
  BY DEF WInv, TypeOK, BaseIsNeeded, TaskTyped
LEMMA NextTasks == ASSUME WInv, NEW what, At(what), Proceed PROVE TaskTyped
  BY ProceedEffect DEF TaskTyped, At
LEMMA SameProcesses == WInv /\ UNCHANGED <<lingering, overdue>> => LateTyped
  BY DEF WInv, TypeOK, LateIsOverdue, LateTyped
LEMMA SameHost == WInv /\ UNCHANGED <<hosted, settings>> => HostTyped
  BY DEF WInv, TypeOK, HostIsSpared, HostTyped
LEMMA RunHost ==
    WInv /\ UNCHANGED settings /\ hosted' = (hosted \/ Adapter = "local") => HostTyped
  <1> SUFFICES ASSUME WInv, UNCHANGED settings, hosted' = (hosted \/ Adapter = "local")
               PROVE  HostTyped
    OBVIOUS
  <1>1. hosted' \in BOOLEAN
    OBVIOUS
  <1>2. CASE Adapter # "local"
    BY <1>1, <1>2 DEF WInv, TypeOK, HostIsSpared, HostTyped
  <1>3. CASE Adapter = "local"
    BY <1>1, <1>3 DEF HostIsSpared, HostTyped, Adapter, DefaultAdapter
  <1> QED
    BY <1>2, <1>3

(* The tree a command runs in is there, and a test may leave a report.     *)
LEMMA CommandEffect ==
    ASSUME WInv, NEW what, CanRun(what), NEW left \in Reports, left # "foreign",
           disk' \in IF IsTest THEN {disk, Written(left)} ELSE {disk}
    PROVE  OnlyRewritten /\ At(what) /\ IsThere(Revision)
  <1>1. At(what) /\ IsThere(Revision) /\ Revision \in Revisions
    BY ProceedEffect DEF CanRun, PathOf, IsThere
  <1>2. disk' = disk \/ disk' = [disk EXCEPT ![Revision].report = left]
    BY DEF Written, PathOf
  <1> QED
    BY <1>1, <1>2, WriteEffect, SameDisk

LEMMA RunEndsWInv == WInv /\ RunEnds => WInv'
  <1> SUFFICES ASSUME WInv, RunEnds PROVE WInv'
    OBVIOUS
  <1>1. /\ CanRun({"install", "test", "scan"})
        /\ disk' \in IF IsTest THEN {disk, Written("written")} ELSE {disk}
        /\ UNCHANGED <<settings, repoPath, prepared, execution, fetched, lingering, overdue>>
        /\ hosted' = (hosted \/ Adapter = "local") /\ UsedTree /\ Proceed
    BY DEF RunEnds, RepoPathAfter
  <1>2. OnlyRewritten /\ At({"install", "test", "scan"}) /\ IsThere(Revision)
    BY <1>1, CommandEffect DEF Reports
  <1>3. EvidenceTyped
    BY <1>1, <1>2, UseEffect DEF EvidenceTyped
  <1>4. TaskTyped /\ LateTyped /\ HostTyped
    BY <1>1, <1>2, NextTasks, SameProcesses, RunHost
  <1>5. phase # "idle"
    BY <1>2 DEF At
  <1> QED
    BY <1>1, <1>2, <1>3, <1>4, <1>5, WorkWInv

LEMMA RunTimesOutWInv == WInv /\ RunTimesOut => WInv'
  <1> SUFFICES ASSUME WInv, RunTimesOut PROVE WInv'
    OBVIOUS
  <1>1. /\ CanRun({"install", "test", "scan"})
        /\ disk' \in IF IsTest THEN {disk, Written("unfinished")} ELSE {disk}
        /\ UNCHANGED <<settings, repoPath, prepared, execution, fetched>>
        /\ hosted' = (hosted \/ Adapter = "local") /\ UsedTree
        /\ IF IsTest THEN Proceed ELSE phase' = "leaving" /\ UNCHANGED todo
        /\ overdue' = TRUE
        /\ lingering' \in {lingering,
              lingering \cup {[revision |-> Revision, by |-> execution]}}
    BY DEF RunTimesOut, RepoPathAfter
  <1>2. OnlyRewritten /\ At({"install", "test", "scan"}) /\ IsThere(Revision)
    BY <1>1, CommandEffect DEF Reports
  <1>3. EvidenceTyped
    BY <1>1, <1>2, UseEffect DEF EvidenceTyped
  <1>4. phase # "idle"
    BY <1>2 DEF At
  <1>5. TaskTyped
    BY <1>1, <1>2, <1>4, NextTasks, SameTasks
  <1>6. LateTyped
    <2>1. Revision \in Revisions
      BY <1>2, ProceedEffect
    <2>2. execution \in 1..MaxExecutions
      BY <1>4, WorkspaceAssumption DEF WInv, TypeOK, CacheIsTheDisk
    <2>3. lingering' \subseteq Process
      BY <1>1, <2>1, <2>2 DEF WInv, TypeOK, Process
    <2> QED
      BY <1>1, <2>3 DEF LateTyped
  <1>7. HostTyped
    BY <1>1, RunHost
  <1> QED
    BY <1>1, <1>2, <1>3, <1>4, <1>5, <1>6, <1>7, WorkWInv

LEMMA ReadWInv == WInv /\ (ParseReport \/ ReadFiles) => WInv'
  <1> SUFFICES ASSUME WInv, ParseReport \/ ReadFiles PROVE WInv'
    OBVIOUS
  <1>1. /\ UsedTree /\ Proceed
        /\ UNCHANGED <<settings, disk, repoPath, prepared, execution, fetched, lingering,
                       hosted, overdue>>
    BY DEF ParseReport, ReadFiles
  <1>2. PICK what : At(what) /\ IsThere(Revision)
    BY NoTreeIsNoTree DEF ParseReport, ReadFiles, PathOf, IsThere
  <1>3. OnlyRewritten /\ TaskTyped /\ LateTyped /\ HostTyped
    BY <1>1, <1>2, SameDisk, NextTasks, SameProcesses, SameHost
  <1>4. EvidenceTyped
    BY <1>1, <1>2, UseEffect DEF EvidenceTyped
  <1> QED
    BY <1>1, <1>3, <1>4, WorkWInv

LEMMA ReuseWInv == WInv /\ (Reuse \/ Leave) => WInv'
  <1> SUFFICES ASSUME WInv, Reuse \/ Leave PROVE WInv'
    OBVIOUS
  <1>1. UNCHANGED <<settings, disk, repoPath, prepared, execution, fetched, evidence,
                    lingering, hosted, overdue>>
    BY DEF Reuse, Leave
  <1>2. OnlyRewritten /\ LateTyped /\ HostTyped /\ EvidenceTyped
    BY <1>1, SameDisk, SameProcesses, SameHost, SameEvidence
  <1>3. TaskTyped
    <2>1. Reuse => At({"prepare"}) /\ Proceed
      BY DEF Reuse
    <2>2. Leave => UNCHANGED todo /\ phase # "idle" /\ phase' = "leaving"
      BY DEF Leave
    <2> QED
      BY <2>1, <2>2, NextTasks, SameTasks
  <1> QED
    BY <1>1, <1>2, <1>3, WorkWInv

LEMMA LingeringWInv ==
    ASSUME WInv, NEW p \in lingering, LingeringWrites(p) \/ LingeringEnds(p)
    PROVE  WInv'
  <1>1. UNCHANGED <<settings, repoPath, prepared, todo, phase, execution, fetched, evidence,
                    hosted, overdue>>
    BY DEF LingeringWrites, LingeringEnds
  <1>2. overdue /\ p.revision \in Revisions
    BY DEF WInv, TypeOK, LateIsOverdue, Process
  <1>3. lingering' \subseteq lingering
    BY DEF LingeringWrites, LingeringEnds
  <1>4. OnlyRewritten
    <2>1. CASE LingeringWrites(p)
      <3> DEFINE left == IF disk[p.revision].by = p.by THEN "late" ELSE "foreign"
      <3>1. /\ IsThere(p.revision) /\ disk' = [disk EXCEPT ![p.revision].report = left]
            /\ left \in Reports
        BY <2>1 DEF LingeringWrites, IsThere, Reports
      <3> HIDE DEF left
      <3> QED
        BY <1>1, <1>2, <3>1, WriteEffect
    <2>2. CASE LingeringEnds(p)
      BY <2>2, SameDisk DEF LingeringEnds
    <2> QED
      BY <2>1, <2>2
  <1>5. TaskTyped /\ HostTyped
    BY <1>1, SameHost DEF WInv, TypeOK, BaseIsNeeded, TaskTyped
  <1>6. LateTyped
    BY <1>1, <1>2, <1>3 DEF WInv, TypeOK, LateTyped
  <1>7. EvidenceTyped
    BY <1>1, <1>6, SameEvidence
  <1> QED
    BY <1>1, <1>2, <1>4, <1>5, <1>6, <1>7, WorkWInv

LEMMA ExitWInv == WInv /\ Exit => WInv'
  <1> SUFFICES ASSUME WInv, Exit PROVE WInv'
    OBVIOUS
  <1>1. /\ phase = "leaving" /\ phase' = "idle" /\ todo' = <<>>
        /\ UNCHANGED <<settings, repoPath, prepared, execution, fetched, evidence, lingering,
                       hosted, overdue>>
    BY DEF Exit
  <1>2. disk' = Empty \/ disk' = disk
    BY DEF Exit
  <1>3. ~settings.keep /\ ~overdue => disk' = Empty
    BY DEF Exit, Writing, WInv, LateIsOverdue
  <1>4. \A p \in Places : disk'[p] = NoTree \/ disk'[p] = disk[p]
    BY <1>2 DEF Empty
  <1>5. TypeOK'
    <2>1. disk' \in [Places -> Tree \cup {NoTree}]
      BY <1>2 DEF WInv, TypeOK, Empty
    <2> QED
      BY <1>1, <2>1 DEF WInv, TypeOK
  <1>6. CacheIsTheDisk' /\ LateIsOverdue'
    BY <1>1, <1>4, NoTreeIsNoTree
    DEF WInv, CacheIsTheDisk, LateIsOverdue, IsThere, Places
  <1>7. BaseIsNeeded' /\ FetchedIsPrepared' /\ HostIsSpared' /\ EvidenceIsOfItsRevision'
    BY <1>1
    DEF WInv, BaseIsNeeded, NeedsBase, FetchedIsPrepared, HostIsSpared, EvidenceIsOfItsRevision
  <1>8. WorkspaceIsRemoved'
    BY <1>1, <1>3 DEF WorkspaceIsRemoved
  <1> QED
    BY <1>5, <1>6, <1>7, <1>8 DEF WInv

(* An injective sequence stays injective when something new is appended.   *)
LEMMA AppendNew ==
    ASSUME NEW S, NEW s \in Seq(S), IsInjective(s), NEW x \in S, x \notin Range(s)
    PROVE  /\ Append(s, x) \in Seq(S) /\ IsInjective(Append(s, x))
           /\ Range(Append(s, x)) = Range(s) \cup {x}
  <1> DEFINE t == Append(s, x)
  <1>1. t \in Seq(S) /\ DOMAIN t = DOMAIN s \cup {Len(s) + 1} /\ DOMAIN s = 1..Len(s)
    OBVIOUS
  <1>2. (\A k \in DOMAIN s : t[k] = s[k]) /\ t[Len(s) + 1] = x
    OBVIOUS
  <1> HIDE DEF t
  <1>3. Range(t) = Range(s) \cup {x}
    BY <1>1, <1>2 DEF Range
  <1>4. ASSUME NEW i \in DOMAIN t, NEW j \in DOMAIN t, t[i] = t[j] PROVE i = j
    BY <1>1, <1>2, <1>4 DEF Range, IsInjective
  <1> QED
    BY <1>1, <1>3, <1>4 DEF t, IsInjective

LEMMA PrepareWInv ==
    ASSUME WInv, NEW committed \in BOOLEAN, Prepare(committed) PROVE WInv'
  <1>1. /\ At({"prepare"}) /\ Revision \notin prepared /\ Proceed
        /\ disk' = [disk EXCEPT ![repoPath] = NoTree, ![Revision] = Unpacked(committed)]
        /\ fetched' = Append(fetched, Revision) /\ prepared' = prepared \cup {Revision}
        /\ UNCHANGED <<settings, repoPath, execution, evidence, lingering, hosted, overdue>>
    BY DEF Prepare, PathOf
  <1>2. Revision \in Revisions /\ (Revision = "base" => NeedsBase) /\ phase # "idle"
    BY <1>1, ProceedEffect DEF At
  <1>3. TypeOK /\ disk \in [Places -> Tree \cup {NoTree}] /\ repoPath = "repo"
    BY DEF WInv, TypeOK, CacheIsTheDisk
  <1> DEFINE tree == Unpacked(committed)
  <1>4. /\ tree \in Tree /\ tree.revision = Revision /\ tree.by = execution
        /\ tree.report # "foreign"
    <2>1. execution \in 1..MaxExecutions
      BY <1>2, <1>3, WorkspaceAssumption DEF WInv, TypeOK, CacheIsTheDisk
    <2> QED
      BY <1>2, <2>1 DEF Unpacked, Tree, Reports
  <1> HIDE DEF tree
  <1>5. /\ disk' \in [Places -> Tree \cup {NoTree}] /\ disk'[Revision] = tree
        /\ \A p \in Places : p # Revision => disk'[p] = disk[p]
    <2>1. disk["repo"] = NoTree /\ "repo" \in Places /\ Revision \in Places
      BY <1>2 DEF WInv, CacheIsTheDisk, IsThere, Places
    <2>2. disk' = [disk EXCEPT !["repo"] = NoTree, ![Revision] = tree]
      BY <1>1, <1>3 DEF tree
    <2> QED
      BY <1>3, <1>4, <2>1, <2>2
  <1>6. TaskTyped /\ LateTyped /\ HostTyped
    BY <1>1, NextTasks, SameProcesses, SameHost
  <1>7. EvidenceTyped
    BY <1>1, <1>6, SameEvidence
  <1>8. FetchedIsPrepared' /\ fetched' \in Seq(Revisions)
    BY <1>1, <1>2, <1>3, AppendNew DEF WInv, TypeOK, FetchedIsPrepared
  <1>9. TypeOK'
    BY <1>1, <1>2, <1>3, <1>5, <1>6, <1>7, <1>8
    DEF TypeOK, TaskTyped, LateTyped, HostTyped, EvidenceTyped
  <1>10. CacheIsTheDisk'
    <2>1. disk'["repo"] = NoTree /\ Revision # "repo"
      BY <1>2, <1>5 DEF WInv, CacheIsTheDisk, IsThere, Places, Revisions
    <2>2. disk'[Revision] # NoTree
      BY <1>4, <1>5, NoTreeIsNoTree
    <2>3. \A r \in Revisions : r # Revision => disk'[r] = disk[r]
      BY <1>5 DEF Places
    <2>4. /\ execution > 0
          /\ \A r \in Revisions : /\ r \in prepared <=> disk[r] # NoTree
                                  /\ disk[r] # NoTree => disk[r].revision = r
                                  /\ disk[r] # NoTree => disk[r].by = execution
      BY <1>2 DEF WInv, CacheIsTheDisk, IsThere
    <2>5. ASSUME NEW r \in Revisions
          PROVE  /\ r \in prepared' <=> disk'[r] # NoTree
                 /\ disk'[r] # NoTree => disk'[r].revision = r
                 /\ disk'[r] # NoTree => disk'[r].by = execution
      <3>1. CASE r = Revision
        BY <1>1, <1>4, <1>5, <2>2, <3>1
      <3>2. CASE r # Revision
        BY <1>1, <2>3, <2>4, <3>2
      <3> QED
        BY <3>1, <3>2
    <2> QED
      BY <1>1, <1>3, <2>1, <2>4, <2>5 DEF CacheIsTheDisk, IsThere
  <1>11. LateIsOverdue'
    BY <1>1, <1>4, <1>5 DEF WInv, LateIsOverdue
  <1>12. BaseIsNeeded'
    BY <1>1, <1>2, <1>6 DEF WInv, BaseIsNeeded, NeedsBase, TaskTyped
  <1>13. WorkspaceIsRemoved'
    BY <1>2, <1>6 DEF WorkspaceIsRemoved, TaskTyped
  <1> QED
    BY <1>6, <1>7, <1>8, <1>9, <1>10, <1>11, <1>12, <1>13 DEF WInv, EvidenceTyped, HostTyped

LEMMA NextWInv == WInv /\ [Next]_vars => WInv'
  <1> SUFFICES ASSUME WInv, [Next]_vars PROVE WInv'
    OBVIOUS
  <1>1. CASE Enter \/ Exit
    BY <1>1, EnterWInv, ExitWInv
  <1>2. CASE Reuse \/ Leave
    BY <1>2, ReuseWInv
  <1>3. CASE \E committed \in BOOLEAN : Prepare(committed)
    BY <1>3, PrepareWInv
  <1>4. CASE RunEnds \/ RunTimesOut
    BY <1>4, RunEndsWInv, RunTimesOutWInv
  <1>5. CASE ParseReport \/ ReadFiles
    BY <1>5, ReadWInv
  <1>6. CASE \E p \in lingering : LingeringWrites(p) \/ LingeringEnds(p)
    BY <1>6, LingeringWInv
  <1>7. CASE UNCHANGED vars
    BY <1>7
    DEF vars, WInv, TypeOK, CacheIsTheDisk, IsThere, LateIsOverdue, BaseIsNeeded, NeedsBase,
        FetchedIsPrepared, EvidenceIsOfItsRevision, WorkspaceIsRemoved, HostIsSpared
  <1> QED
    BY <1>1, <1>2, <1>3, <1>4, <1>5, <1>6, <1>7 DEF Next

LEMMA WInvImplies == WInv => TypeOK /\ WorkspaceIsSound
  <1> SUFFICES ASSUME WInv PROVE TypeOK /\ WorkspaceIsSound
    OBVIOUS
  <1>1. PreparedTreesStay
    BY DEF WInv, TypeOK, CacheIsTheDisk, PreparedTreesStay
  <1>2. RevisionsAreFetchedOnce
    BY DEF WInv, FetchedIsPrepared, BaseIsNeeded, NeedsBase, RevisionsAreFetchedOnce
  <1> QED
    BY <1>1, <1>2 DEF WInv, WorkspaceIsSound

(* What the workspace has on its disk, what its gates have still to do and *)
(* what they used are well typed.                                          *)
THEOREM WorkspaceTypes == Spec => []TypeOK
  <1>1. WInv /\ [Next]_vars => WInv'
    BY NextWInv
  <1> QED
    BY InitWInv, <1>1, WInvImplies, PTL DEF Spec

(* A gate is given the tree of the revision it asked for, unpacked by this *)
(* execution, and the tree stays while the execution lasts; a revision is  *)
(* downloaded once; nothing is left behind when no command timed out; and  *)
(* production runs commands on the host only where that was allowed.       *)
THEOREM SoundWorkspace == Spec => []WorkspaceIsSound
  <1>1. WInv /\ [Next]_vars => WInv'
    BY NextWInv
  <1> QED
    BY InitWInv, <1>1, WInvImplies, PTL DEF Spec

-----------------------------------------------------------------------------
(* ConfigSpec => ConfigurationFits.  Every object a request works on is a  *)
(* row, of which nothing more is known: when it was overtaken, the row it  *)
(* is flushed to may end unlike either of them.                            *)
Loaded == [phase : {"loaded"}, payload : Payload, row : Row]
CInv ==
    /\ config \in Row /\ FormatFitsLanguage /\ CommandFitsLanguage
    /\ request \in [Requests -> {Idle} \cup Loaded]
    /\ response \in [Requests -> {0, 200, 422}]
    /\ torn \subseteq {"format", "command"}

LEMMA LoadedIsNotIdle == Idle \notin Loaded
  BY DEF Idle, Loaded

LEMMA PresetFits ==
    ASSUME NEW l \in Languages, NEW c \in BOOLEAN
    PROVE  /\ Preset(l, c) \in Row /\ Preset(l, c).language = l
           /\ Preset(l, c).format = Format(l) /\ Preset(l, c).command = Command(l)
  <1>1. Format(l) \in Formats /\ Command(l) \in Commands
    BY DEF Formats, Commands
  <1> QED
    BY <1>1 DEF Preset, Row

(* What an update makes of a row whose commands fit.                       *)
LEMMA EditedEffect ==
    ASSUME NEW row \in Row, NEW payload \in Payload
    PROVE  LET edited == Edited(row, payload)
           IN /\ edited \in Row
              /\ \/ row.command \in Custom \cup {Command(row.language)}
                 \/ payload.language # Unset
                 => edited.command \in Custom \cup {Command(edited.language)}
              /\ payload.language \in {Unset, edited.language}
              /\ payload.command \in {Unset, edited.command}
              /\ payload.format \in {Unset, edited.format}
  <1> DEFINE base == IF payload.language = Unset THEN row ELSE Preset(payload.language, TRUE)
             edited == Edited(row, payload)
  <1>1. /\ payload.language \in Languages \cup {Unset} /\ payload.command \in Custom \cup {Unset}
        /\ payload.format \in Formats \cup {Unset}
    BY DEF Payload
  <1> DEFINE fits == \/ row.command \in Custom \cup {Command(row.language)}
                     \/ payload.language # Unset
  <1>2. /\ base \in Row /\ payload.language \in {Unset, base.language}
        /\ fits => base.command \in Custom \cup {Command(base.language)}
    BY <1>1, PresetFits
  <1>3. edited = [base EXCEPT !.confirmed = TRUE,
                    !.command = IF payload.command = Unset THEN @ ELSE payload.command,
                    !.format = IF payload.format = Unset THEN @ ELSE payload.format]
    BY DEF Edited
  <1> HIDE DEF base, edited, fits
  <1>4. /\ edited.language = base.language
        /\ edited.command = IF payload.command = Unset THEN base.command ELSE payload.command
        /\ edited.format = IF payload.format = Unset THEN base.format ELSE payload.format
    BY <1>2, <1>3 DEF Row
  <1>5. Custom \subseteq Commands
    BY DEF Commands
  <1>6. edited \in Row
    BY <1>1, <1>2, <1>3, <1>5 DEF Row
  <1>7. /\ fits => edited.command \in Custom \cup {Command(edited.language)}
        /\ payload.language \in {Unset, edited.language}
        /\ payload.command \in {Unset, edited.command}
        /\ payload.format \in {Unset, edited.format}
    BY <1>1, <1>2, <1>4
  <1> QED
    BY <1>6, <1>7 DEF edited, fits

LEMMA InitCInv == ConfigInit => CInv
  <1> SUFFICES ASSUME ConfigInit PROVE CInv
    OBVIOUS
  <1>1. PICK l \in Languages, c \in BOOLEAN : config = Preset(l, c)
    <2>1. "python" \in Languages
      BY DEF Languages
    <2> QED
      BY <2>1 DEF ConfigInit
  <1>2. config \in Row /\ FormatFitsLanguage /\ CommandFitsLanguage
    BY <1>1, PresetFits DEF FormatFitsLanguage, CommandFitsLanguage
  <1> QED
    BY <1>2 DEF ConfigInit, CInv

LEMMA NextCInv == CInv /\ [ConfigNext]_configVars => CInv' /\ (Answered \/ UNCHANGED configVars)
  <1> SUFFICES ASSUME CInv, [ConfigNext]_configVars
               PROVE  CInv' /\ (Answered \/ UNCHANGED configVars)
    OBVIOUS
  <1>1. CASE UNCHANGED configVars
    BY <1>1 DEF CInv, configVars, FormatFitsLanguage, CommandFitsLanguage
  <1>2. ASSUME NEW r \in Requests, NEW payload \in Payload, Load(r, payload)
        PROVE  CInv' /\ Answered
    <2> DEFINE new == [phase |-> "loaded", payload |-> payload, row |-> config]
    <2>1. new \in Loaded
      BY DEF CInv, Loaded
    <2>2. /\ request' = [request EXCEPT ![r] = new]
          /\ response' = [response EXCEPT ![r] = 0] /\ UNCHANGED <<config, torn>>
      BY <1>2 DEF Load
    <2> HIDE DEF new
    <2>3. /\ request' \in [Requests -> {Idle} \cup Loaded] /\ request'[r] = new
          /\ response' \in [Requests -> {0, 200, 422}]
          /\ \A q \in Requests \ {r} : request'[q] = request[q]
      BY <2>1, <2>2 DEF CInv
    <2>4. Answered
      BY <2>1, <2>3, LoadedIsNotIdle DEF Answered
    <2> QED
      BY <2>2, <2>3, <2>4 DEF CInv, FormatFitsLanguage, CommandFitsLanguage
  <1>3. ASSUME NEW r \in Requests, Finish(r) PROVE CInv' /\ Answered
    <2> DEFINE payload == request[r].payload
               loaded == request[r].row
               edited == Edited(loaded, payload)
    <2>1. request[r] \in Loaded /\ loaded \in Row /\ payload \in Payload
      BY <1>3 DEF Finish, CInv, Loaded
    <2>2. /\ edited \in Row
          /\ \/ loaded.command \in Custom \cup {Command(loaded.language)}
             \/ payload.language # Unset
             => edited.command \in Custom \cup {Command(edited.language)}
          /\ payload.language \in {Unset, edited.language}
          /\ payload.command \in {Unset, edited.command}
          /\ payload.format \in {Unset, edited.format}
      BY <2>1, EditedEffect
    <2>3. /\ request' = [request EXCEPT ![r] = Idle]
          /\ \/ /\ edited.format # Format(edited.language)
                /\ response' = [response EXCEPT ![r] = 422] /\ UNCHANGED <<config, torn>>
             \/ /\ edited.format = Format(edited.language)
                /\ response' = [response EXCEPT ![r] = 200] /\ torn' = TornBy(r)
                /\ config' = [f \in DOMAIN config |->
                                IF edited[f] = loaded[f] THEN config[f] ELSE edited[f]]
      BY <1>3 DEF Finish, Invalid
    <2>4. Overtaken(r) <=> config # loaded
      BY DEF Overtaken
    <2>5. torn' = TornBy(r) => torn' =
            IF Overtaken(r) THEN {"format", "command"}
            ELSE IF payload.language = Unset THEN torn \ {"format"} ELSE {}
      BY DEF TornBy
    <2>o. \A q \in Requests : request[q] # Idle /\ request'[q] = Idle => q = r
      BY <2>3 DEF CInv
    <2>a. Answered <=> (response'[r] = 200 =>
            \A f \in {"language", "command", "format"} :
               \/ payload[f] \in {Unset, config'[f]}
               \/ Overtaken(r) /\ payload[f] = loaded[f])
      <3>1. request[r] # Idle /\ request'[r] = Idle
        BY <1>3, <2>3 DEF CInv, Finish
      <3> QED
        BY <2>o, <3>1 DEF Answered
    <2> HIDE DEF edited, payload, loaded
    <2>6. request' \in [Requests -> {Idle} \cup Loaded]
      BY <2>3 DEF CInv
    <2>7. CASE edited.format # Format(edited.language)
      <3>1. /\ response'[r] = 422 /\ response' \in [Requests -> {0, 200, 422}]
            /\ UNCHANGED <<config, torn>>
        BY <2>3, <2>7 DEF CInv
      <3> QED
        BY <2>6, <2>a, <3>1 DEF CInv, FormatFitsLanguage, CommandFitsLanguage
    <2>8. CASE edited.format = Format(edited.language)
      <3>1. /\ response' \in [Requests -> {0, 200, 422}] /\ torn' = TornBy(r)
            /\ config' = [f \in DOMAIN config |->
                            IF edited[f] = loaded[f] THEN config[f] ELSE edited[f]]
        BY <2>3, <2>8 DEF CInv
      <3>2. DOMAIN config = {"language", "confirmed", "command", "format"}
        BY DEF CInv, Row
      <3>3. config' \in Row
        BY <2>1, <2>2, <3>1, <3>2 DEF CInv, Row
      <3>4. \A f \in {"language", "command", "format"} :
              config'[f] = IF edited[f] = loaded[f] THEN config[f] ELSE edited[f]
        BY <3>1, <3>2
      <3>5. \A f \in {"language", "command", "format"} : payload[f] \in {Unset, edited[f]}
        BY <2>2
      <3>6. config = loaded => config' = edited
        <4> SUFFICES ASSUME config = loaded PROVE config' = edited
          OBVIOUS
        <4>1. config' = [f \in DOMAIN edited |-> edited[f]]
          BY <2>2, <3>1, <3>2 DEF Row
        <4> QED
          BY <2>2, <4>1 DEF Row
      <3>7. Answered
        BY <2>4, <2>a, <3>4, <3>5, <3>6
      <3>8. CASE Overtaken(r)
        <4>1. torn' = {"format", "command"}
          BY <2>5, <3>1, <3>8
        <4> QED
          BY <2>6, <3>1, <3>3, <3>7, <4>1 DEF CInv, FormatFitsLanguage, CommandFitsLanguage
      <3>9. CASE ~Overtaken(r)
        <4>1. config' = edited /\ config = loaded
          BY <2>4, <3>6, <3>9
        <4>2. /\ torn' \subseteq torn
              /\ "command" \in torn /\ payload.language = Unset => "command" \in torn'
          BY <2>5, <3>1, <3>9
        <4>3. FormatFitsLanguage'
          BY <2>8, <4>1 DEF FormatFitsLanguage
        <4>4. CommandFitsLanguage'
          <5> SUFFICES ASSUME "command" \notin torn'
                       PROVE  edited.command \in Custom \cup {Command(edited.language)}
            BY <4>1 DEF CommandFitsLanguage
          <5>1. \/ loaded.command \in Custom \cup {Command(loaded.language)}
                \/ payload.language # Unset
            BY <4>1, <4>2 DEF CInv, CommandFitsLanguage
          <5> QED
            BY <2>2, <5>1
        <4> QED
          BY <2>6, <3>1, <3>3, <3>7, <4>2, <4>3, <4>4 DEF CInv
      <3> QED
        BY <3>8, <3>9
    <2> QED
      BY <2>7, <2>8
  <1> QED
    BY <1>1, <1>2, <1>3 DEF ConfigNext

(* However many updates of a configuration are under way at once: unless   *)
(* one of them was overtaken and nothing has repaired that, its report     *)
(* format is the language's and its commands are an administrator's or the *)
(* language's; and what a successful update asked for is stored, except    *)
(* what was to stay as it was when another update overtook it.             *)
THEOREM FittingConfiguration == ConfigSpec => ConfigurationFits
  <1>1. CInv /\ [ConfigNext]_configVars => CInv'
    BY NextCInv
  <1>2. CInv /\ [ConfigNext]_configVars => [Answered]_configVars
    BY NextCInv
  <1>3. CInv => ConfigTypeOK /\ FormatFitsLanguage /\ CommandFitsLanguage
    BY DEF CInv, ConfigTypeOK, Loaded
  <1> QED
    BY InitCInv, <1>1, <1>2, <1>3, PTL DEF ConfigSpec, ConfigurationFits, AnsweredAsAsked

-----------------------------------------------------------------------------
(* The inductive invariant of a review: its snapshot is sound from the     *)
(* moment it is stored, and the report is made of it.                      *)
Drafting == {"start", "draft", "validate"}
Reporting == {"report", "publish", "end"}
InEvidence(some) == {[f EXCEPT !.title = Redacted(@)] : f \in some}
Report == [heading : {"pass", "fail"}, text : AllTexts, reasons : SUBSET AllTexts]
ReportMade ==
    [heading |-> decision, text |-> snapshot.text,
     reasons |-> snapshot.reasons \cup Blockers(findings)]
SnapshotIsSound ==
    /\ snapshot \in Snapshot /\ Contradiction \notin Said(snapshot)
    /\ snapshot.status = "generated" =>
         /\ draft \in Review
         /\ decision = "fail" => snapshot.reasons # {}
         /\ {"secret", "other_file"} \cap Said(snapshot) = {}

RTypes ==
    /\ key \in BOOLEAN /\ findings \subseteq Finding /\ decision = Decision(findings)
    /\ pc \in Drafting \cup {"store"} \cup Reporting
RSteps ==
    /\ redacted \in {{}, InEvidence(findings)}
    /\ pc \in {"draft", "validate"} => redacted = InEvidence(findings)
    /\ draft = None \/ draft \in Review
    /\ pc = "validate" => draft \in Review
    /\ IF pc \in Drafting THEN snapshot = None ELSE SnapshotIsSound
    /\ score = None \/ score \in 0..100
    /\ pc \in Reporting => ((score # None) <=> (snapshot.status = "generated"))
    /\ report = IF pc \in {"publish", "end"} THEN ReportMade ELSE None
    /\ comment = IF pc = "end" THEN RedactedAll(Passages(report)) ELSE None
RInv == RTypes /\ RSteps

LEMMA RedactedIsNoSecret ==
    ASSUME NEW text \in AllTexts
    PROVE  /\ Redacted(text) \in AllTexts /\ "secret" \notin Redacted(text)
           /\ Redacted(text) \subseteq text \cup {"marker"}
  BY DEF Redacted, AllTexts, Paths

(* A run that fails has a blocking finding, also in the evidence.          *)
LEMMA EvidenceKeepsBlockers ==
    ASSUME NEW some \in SUBSET Finding
    PROVE  /\ InEvidence(some) \subseteq [blocking : BOOLEAN, title : AllTexts]
           /\ Blockers(InEvidence(some)) \subseteq AllTexts
           /\ Blockers(some) \subseteq AllTexts
           /\ Decision(some) = "fail" => Blockers(InEvidence(some)) # {}
           /\ Decision(some) \in {"pass", "fail"}
  <1>1. ASSUME NEW f \in some
        PROVE  /\ [f EXCEPT !.title = Redacted(@)] \in [blocking : BOOLEAN, title : AllTexts]
               /\ [f EXCEPT !.title = Redacted(@)].blocking = f.blocking
               /\ f.title \in AllTexts
    <2>1. f \in Finding /\ f.title \in AllTexts
      BY ReviewGraphAssumption DEF Finding
    <2>2. Redacted(f.title) \in AllTexts
      BY <2>1, RedactedIsNoSecret
    <2> QED
      BY <2>1, <2>2 DEF Finding
  <1>2. InEvidence(some) \subseteq [blocking : BOOLEAN, title : AllTexts]
    BY <1>1 DEF InEvidence
  <1>3. Blockers(InEvidence(some)) \subseteq AllTexts
    BY <1>2 DEF Blockers
  <1>4. Blockers(some) \subseteq AllTexts
    <2>1. \A f \in some : f.title \in AllTexts
      BY <1>1
    <2> QED
      BY <2>1 DEF Blockers
  <1>5. ASSUME Decision(some) = "fail" PROVE Blockers(InEvidence(some)) # {}
    <2>1. PICK f \in some : f.blocking
      BY <1>5 DEF Decision
    <2>2. [f EXCEPT !.title = Redacted(@)] \in InEvidence(some)
      BY DEF InEvidence
    <2> QED
      BY <1>1, <2>1, <2>2 DEF Blockers
  <1> QED
    BY <1>2, <1>3, <1>4, <1>5 DEF Decision

LEMMA CorrectedEffect ==
    ASSUME RTypes, redacted = InEvidence(findings), NEW review \in Review
    PROVE  /\ Corrected(review) \in Review
           /\ Said(Corrected(review))
              \subseteq Said(review) \cup (UNION Blockers(redacted)) \cup {"marker"}
           /\ "secret" \notin Said(Corrected(review))
           /\ decision = "fail" => Corrected(review).reasons # {}
  <1> DEFINE filled == decision = "fail" /\ Blockers(redacted) # {} /\ review.reasons = {}
             reasons == IF filled THEN Blockers(redacted) ELSE review.reasons
             after == Corrected(review)
  <1>1. /\ Blockers(redacted) \subseteq AllTexts
        /\ decision = "fail" => Blockers(redacted) # {}
    BY EvidenceKeepsBlockers DEF RTypes
  <1>2. review.text \in AllTexts /\ review.reasons \subseteq AllTexts
    BY DEF Review
  <1>3. reasons \subseteq AllTexts /\ (decision = "fail" => reasons # {})
    BY <1>1, <1>2
  <1>4. /\ after.text = Redacted(review.text) /\ after.reasons = RedactedAll(reasons)
        /\ Redacted(review.text) \in AllTexts /\ RedactedAll(reasons) \subseteq AllTexts
        /\ after \in Review
    <2>1. Redacted(review.text) \in AllTexts
      BY <1>2, RedactedIsNoSecret
    <2>2. RedactedAll(reasons) \subseteq AllTexts
      BY <1>3, RedactedIsNoSecret DEF RedactedAll
    <2>3. after = [review EXCEPT !.text = Redacted(@), !.reasons = RedactedAll(reasons)]
      BY DEF Corrected, Review
    <2> HIDE DEF after, reasons, filled
    <2> QED
      BY <2>1, <2>2, <2>3 DEF Review
  <1>5. reasons \subseteq review.reasons \cup Blockers(redacted)
    OBVIOUS
  <1> HIDE DEF after, reasons, filled
  <1>6. ASSUME NEW passage \in Passages(after)
        PROVE  /\ "secret" \notin passage
               /\ passage \subseteq Said(review) \cup (UNION Blockers(redacted)) \cup {"marker"}
    <2>1. PICK text \in {review.text} \cup reasons : passage = Redacted(text)
      BY <1>4 DEF Passages, RedactedAll
    <2>2. text \in AllTexts
      BY <1>2, <1>3
    <2>3. text \subseteq Said(review) \cup (UNION Blockers(redacted))
      BY <1>5, <2>1 DEF Said, Passages
    <2> QED
      BY <2>1, <2>2, <2>3, RedactedIsNoSecret
  <1>7. /\ Said(after) \subseteq Said(review) \cup (UNION Blockers(redacted)) \cup {"marker"}
        /\ "secret" \notin Said(after)
    BY <1>6 DEF Said
  <1>8. decision = "fail" => after.reasons # {}
    BY <1>3, <1>4 DEF RedactedAll
  <1> QED
    BY <1>4, <1>7, <1>8 DEF after

LEMMA InitRInv == ReviewInit => RInv
  BY DEF ReviewInit, RInv, RTypes, RSteps, Drafting, Reporting

(* Without a review there is nothing that could contradict the gates.      *)
LEMMA NothingSaid ==
    ASSUME NEW status \in {"skipped", "error"}
    PROVE  /\ Without(status) \in Snapshot /\ Said(Without(status)) = {}
           /\ Without(status).status = status
  BY DEF Without, Snapshot, Said, Passages, AllTexts

LEMMA StoppedRInv ==
    ASSUME RInv, pc \in Drafting, NEW status \in {"skipped", "error"},
           snapshot' = Without(status), pc' = "store",
           UNCHANGED <<key, ofRun, redacted, draft, score, report, comment>>
    PROVE  RInv'
  <1>1. SnapshotIsSound'
    BY NothingSaid DEF SnapshotIsSound
  <1> QED
    BY <1>1 DEF RInv, RTypes, RSteps, Drafting, Reporting, ofRun

LEMMA ValidateRInv == RInv /\ Validate => RInv'
  <1> SUFFICES ASSUME RInv, Validate PROVE RInv'
    OBVIOUS
  <1> DEFINE after == Corrected(draft)
  <1>1. RTypes /\ redacted = InEvidence(findings) /\ draft \in Review /\ pc = "validate"
    BY DEF Validate, RInv, RSteps
  <1>2. /\ after \in Review /\ "secret" \notin Said(after)
        /\ decision = "fail" => after.reasons # {}
    BY <1>1, CorrectedEffect
  <1>3. CASE IsValid(after)
    <2>1. snapshot' = [status |-> "generated", text |-> after.text, reasons |-> after.reasons]
      BY <1>3 DEF Validate
    <2> HIDE DEF after
    <2>2. /\ snapshot' \in Snapshot /\ Said(snapshot') = Said(after)
          /\ snapshot'.status = "generated" /\ snapshot'.reasons = after.reasons
      BY <1>2, <2>1 DEF Snapshot, Review, Said, Passages
    <2>3. Contradiction \notin Said(after) /\ "other_file" \notin Said(after)
      BY <1>3 DEF IsValid, Paths
    <2>4. UNCHANGED <<decision, draft>>
      BY DEF Validate, ofRun
    <2>5. SnapshotIsSound'
      BY <1>1, <1>2, <2>2, <2>3, <2>4 DEF SnapshotIsSound, Contradiction, Said, Passages
    <2> QED
      BY <1>1, <2>5 DEF Validate, RInv, RTypes, RSteps, Drafting, Reporting, ofRun
  <1>4. CASE ~IsValid(after)
    <2>1. snapshot' = Without("error")
      BY <1>4 DEF Validate
    <2> QED
      BY <1>1, <2>1, StoppedRInv DEF Validate, Drafting
  <1> QED
    BY <1>3, <1>4

LEMMA NextRInv == RInv /\ [ReviewNext]_reviewVars => RInv'
  <1> SUFFICES ASSUME RInv, [ReviewNext]_reviewVars PROVE RInv'
    OBVIOUS
  <1>1. CASE Skip
    BY <1>1, StoppedRInv DEF Skip, Drafting
  <1>2. CASE LoadEvidence
    BY <1>2 DEF LoadEvidence, InEvidence, RInv, RTypes, RSteps, Drafting, Reporting, ofRun
  <1>3. CASE Raise
    BY <1>3, StoppedRInv DEF Raise, Drafting
  <1>4. ASSUME NEW text \in Texts, NEW reasons \in SUBSET Texts, NEW points \in Scores,
               Draft(text, reasons, points)
        PROVE  RInv'
    <2>1. draft' \in Review
      BY <1>4, ReviewGraphAssumption DEF Draft, Review
    <2> QED
      BY <1>4, <2>1 DEF Draft, RInv, RTypes, RSteps, Drafting, Reporting, ofRun
  <1>5. CASE Validate
    BY <1>5, ValidateRInv
  <1>6. CASE StoreScore
    <2>1. SnapshotIsSound /\ SnapshotIsSound'
      BY <1>6 DEF StoreScore, RInv, RSteps, SnapshotIsSound, Contradiction, Said, Passages,
                  Drafting, ofRun
    <2>2. /\ score' = None \/ score' \in 0..100
          /\ (score' # None) <=> (snapshot.status = "generated")
      BY <1>6, <2>1, ReviewGraphAssumption DEF StoreScore, SnapshotIsSound, Review
    <2> QED
      BY <1>6, <2>1, <2>2 DEF StoreScore, RInv, RTypes, RSteps, Drafting, Reporting, ofRun
  <1>7. CASE BuildReport
    <2>1. SnapshotIsSound /\ SnapshotIsSound'
      BY <1>7 DEF BuildReport, RInv, RSteps, SnapshotIsSound, Contradiction, Said, Passages,
                  Drafting, ofRun
    <2>2. report' = ReportMade'
      BY <1>7 DEF BuildReport, ReportMade, ofRun
    <2> QED
      BY <1>7, <2>1, <2>2 DEF BuildReport, RInv, RTypes, RSteps, Drafting, Reporting, ofRun
  <1>8. CASE Publish
    <2>1. SnapshotIsSound /\ SnapshotIsSound'
      BY <1>8 DEF Publish, RInv, RSteps, SnapshotIsSound, Contradiction, Said, Passages,
                  Drafting, ofRun
    <2>2. report' = ReportMade'
      BY <1>8 DEF Publish, RInv, RSteps, ReportMade, ofRun
    <2> QED
      BY <1>8, <2>1, <2>2 DEF Publish, RInv, RTypes, RSteps, Drafting, Reporting, ofRun
  <1>9. CASE UNCHANGED reviewVars
    BY <1>9 DEF reviewVars, ofRun, RInv, RTypes, RSteps, SnapshotIsSound, Contradiction,
                Said, Passages, ReportMade
  <1> QED
    BY <1>1, <1>2, <1>3, <1>4, <1>5, <1>6, <1>7, <1>8, <1>9 DEF ReviewNext

LEMMA RInvImplies == RInv => ReviewTypeOK /\ StoredReviewIsSound /\ ReportIsTheGates
  <1> SUFFICES ASSUME RInv PROVE ReviewTypeOK /\ StoredReviewIsSound /\ ReportIsTheGates
    OBVIOUS
  <1>1. /\ InEvidence(findings) \subseteq [blocking : BOOLEAN, title : AllTexts]
        /\ Blockers(findings) \subseteq AllTexts /\ decision \in {"pass", "fail"}
    BY EvidenceKeepsBlockers DEF RInv, RTypes
  <1>2. CASE pc \in {"publish", "end"}
    <2>1. SnapshotIsSound /\ report = ReportMade
      BY <1>2 DEF RInv, RSteps, Drafting
    <2>2. /\ report \in Report /\ report.heading = decision /\ report.text = snapshot.text
          /\ report.reasons = snapshot.reasons \cup Blockers(findings)
      BY <1>1, <2>1 DEF ReportMade, Report, SnapshotIsSound, Snapshot
    <2>3. Passages(report) \subseteq AllTexts
      BY <2>2 DEF Report, Passages
    <2>4. /\ RedactedAll(Passages(report)) \subseteq AllTexts
          /\ \A passage \in RedactedAll(Passages(report)) : "secret" \notin passage
      BY <2>3, RedactedIsNoSecret DEF RedactedAll
    <2>5. comment = None \/ comment = RedactedAll(Passages(report))
      BY DEF RInv, RSteps
    <2>6. \A f \in findings : f.blocking => f.title \in report.reasons
      BY <2>2 DEF Blockers
    <2>7. Contradiction \notin report.text
      BY <2>1, <2>2 DEF SnapshotIsSound, Said, Passages
    <2>8. ReviewTypeOK
      BY <1>1, <1>2, <2>1, <2>2, <2>4, <2>5
      DEF RInv, RTypes, RSteps, ReviewTypeOK, SnapshotIsSound, Report
    <2>9. StoredReviewIsSound
      BY <2>1 DEF StoredReviewIsSound, SnapshotIsSound, Contradiction
    <2>10. ReportIsTheGates
      BY <1>2, <2>2, <2>4, <2>5, <2>6, <2>7 DEF ReportIsTheGates, RInv, RTypes, RSteps, Reporting
    <2> QED
      BY <2>8, <2>9, <2>10
  <1>3. CASE pc \notin {"publish", "end"}
    <2>1. report = None /\ comment = None
      BY <1>3 DEF RInv, RSteps
    <2>2. snapshot = None \/ SnapshotIsSound
      BY DEF RInv, RSteps
    <2>3. ReviewTypeOK
      BY <1>1, <1>3, <2>1, <2>2
      DEF RInv, RTypes, RSteps, ReviewTypeOK, SnapshotIsSound, Drafting, Reporting
    <2>4. StoredReviewIsSound
      BY <2>2 DEF StoredReviewIsSound, SnapshotIsSound, Contradiction
    <2> QED
      BY <2>1, <2>3, <2>4 DEF ReportIsTheGates, RInv, RTypes
  <1> QED
    BY <1>2, <1>3

LEMMA CorrectionsAreSaved == RInv => Saved
  <1> SUFFICES ASSUME RInv, Validate,
                      Said(draft) \cap (Paths \cup {Contradiction}) \subseteq {"changed_file"},
                      (UNION Blockers(redacted)) \cap (Paths \cup {Contradiction})
                      \subseteq {"changed_file"}
               PROVE  snapshot'.status = "generated"
    BY DEF Saved
  <1> DEFINE after == Corrected(draft)
  <1>1. RTypes /\ redacted = InEvidence(findings) /\ draft \in Review
    BY DEF Validate, RInv, RSteps
  <1>2. /\ Said(after) \subseteq Said(draft) \cup (UNION Blockers(redacted)) \cup {"marker"}
        /\ "secret" \notin Said(after)
        /\ decision = "fail" => after.reasons # {}
    BY <1>1, CorrectedEffect
  <1> HIDE DEF after
  <1>3. IsValid(after)
    BY <1>2 DEF IsValid, Contradiction, Paths
  <1> QED
    BY <1>3 DEF Validate, after

(* Whatever the model answers, whatever the titles of the findings say and *)
(* whether it is asked at all: a review that is stored agrees with the     *)
(* gates and holds no secret, the report has the gates' decision and       *)
(* blocking findings, and a draft that only lacks its reasons is stored.   *)
THEOREM SoundReview == ReviewSpec => ReviewIsOfTheGates
  <1>1. RInv /\ [ReviewNext]_reviewVars => RInv'
    BY NextRInv
  <1>2. RInv /\ [ReviewNext]_reviewVars => [Saved]_reviewVars
    BY CorrectionsAreSaved
  <1> QED
    BY InitRInv, <1>1, <1>2, RInvImplies, PTL DEF ReviewSpec, ReviewIsOfTheGates, CorrectionSaves

-----------------------------------------------------------------------------
(* The inductive invariant of the screens: the runs of a pull request are  *)
(* numbered without a gap, recent ones last, and the run of an orderly     *)
(* pull request's head is the last one.                                    *)
HasRuns(p) == {sha \in Shas : HasRun(p, sha)}
LastOf(p) == Cardinality(HasRuns(p))
DecidedIfCompleted(run) == run.status = "completed" <=> run.decision # "none"

STables ==
    /\ head \in [PullRequests -> Shas] /\ open \subseteq PullRequests
    /\ pushed \in [PullRequests -> SUBSET Shas]
    /\ runs \in [PullRequests -> [Shas -> Run \cup {NoRun}]]
    /\ \A p \in PullRequests :
         /\ head[p] \in pushed[p] /\ HasRuns(p) \subseteq pushed[p]
         /\ \A s \in HasRuns(p) : runs[p][s].sha = s
    /\ flags \in [comment : BOOLEAN, status : BOOLEAN] /\ orderly \subseteq PullRequests
Numbered ==
    \A p \in PullRequests :
       /\ IsFiniteSet(HasRuns(p))
       /\ HasRuns(p) # {} => \E s \in HasRuns(p) : runs[p][s].at = LastOf(p)
       /\ \A s \in HasRuns(p) :
            /\ runs[p][s].at <= LastOf(p) /\ DecidedIfCompleted(runs[p][s])
            /\ \A t \in HasRuns(p) :
                 /\ runs[p][s].at = runs[p][t].at => s = t
                 /\ runs[p][s].recent /\ runs[p][s].at < runs[p][t].at => runs[p][t].recent
HeadIsLast ==
    \A p \in orderly : head[p] \in HasRuns(p) => runs[p][head[p]].at = LastOf(p)
ListTyped ==
    \/ listing = NotAsked
    \/ /\ listing.phase = "fetched" /\ DOMAIN listing.heads \subseteq PullRequests
       /\ \A p \in DOMAIN listing.heads : listing.heads[p] \in Shas
    \/ listing.phase = "answered" /\ Range(listing.states) \subseteq ReviewStates
DashboardTyped ==
    \/ dashboard = NotAsked
    \/ /\ dashboard.phase = "read" /\ DOMAIN dashboard.latest \subseteq PullRequests
       /\ \A p \in DOMAIN dashboard.latest :
            /\ dashboard.latest[p] \in Run /\ dashboard.latest[p].sha \in HasRuns(p)
            /\ DecidedIfCompleted(dashboard.latest[p])
    \/ dashboard.phase = "answered" /\ Range(dashboard.actions) \subseteq Actions
SInv == STables /\ Numbered /\ HeadIsLast /\ ListTyped /\ DashboardTyped

LEMMA NoRunIsNoRun == NoRun \notin Run /\ NotAsked.phase = "idle"
  BY DEF NoRun, Run, NotAsked

(* The runs of a pull request, as a set and by sha.                        *)
LEMMA RunsByHead ==
    ASSUME STables, NEW p \in PullRequests
    PROVE  /\ RunsOf(p) = {runs[p][s] : s \in HasRuns(p)}
           /\ \A s \in HasRuns(p) : runs[p][s] \in Run
           /\ \A r \in RunsOf(p) : /\ r \in Run /\ r.sha \in HasRuns(p) /\ runs[p][r.sha] = r
           /\ \A s \in Shas : s \in HasRuns(p) <=> HasRun(p, s)
  <1>1. runs[p] \in [Shas -> Run \cup {NoRun}]
    BY DEF STables
  <1>2. RunsOf(p) = {runs[p][s] : s \in HasRuns(p)}
    BY <1>1 DEF RunsOf, HasRuns, HasRun, Range
  <1>3. \A s \in HasRuns(p) : runs[p][s] \in Run /\ runs[p][s].sha = s
    BY <1>1 DEF HasRuns, HasRun, STables
  <1> QED
    BY <1>2, <1>3 DEF HasRuns

LEMMA RunsCounted ==
    ASSUME STables, NEW p \in PullRequests, IsFiniteSet(HasRuns(p))
    PROVE  Cardinality(RunsOf(p)) = LastOf(p) /\ LastOf(p) \in Nat
  <1> DEFINE f == [s \in HasRuns(p) |-> runs[p][s]]
  <1>1. f \in Bijection(HasRuns(p), RunsOf(p))
    <2>1. /\ RunsOf(p) = {runs[p][s] : s \in HasRuns(p)}
          /\ \A s \in HasRuns(p) : runs[p][s].sha = s
      BY RunsByHead DEF STables
    <2> QED
      BY <2>1 DEF Bijection, Injection, Surjection, IsInjective
  <1>2. ExistsBijection(HasRuns(p), RunsOf(p))
    BY <1>1 DEF ExistsBijection
  <1> QED
    BY <1>2, FS_Bijection, FS_CardinalityType DEF LastOf

(* The newest of some runs that have the last one is the last one.         *)
LEMMA LatestIsLast ==
    ASSUME STables, Numbered, NEW p \in PullRequests, NEW some \in SUBSET RunsOf(p),
           NEW s \in HasRuns(p), runs[p][s] \in some, runs[p][s].at = LastOf(p)
    PROVE  Latest(some) = runs[p][s]
  <1>1. \A r \in some : r.sha \in HasRuns(p) /\ runs[p][r.sha] = r /\ r.at \in Int
    BY RunsByHead DEF Run
  <1>2. \A r \in some : r.at <= runs[p][s].at
    BY <1>1 DEF Numbered
  <1>3. \E r \in some : \A q \in some : q.at <= r.at
    BY <1>2
  <1> DEFINE chosen == Latest(some)
  <1>4. chosen \in some /\ \A q \in some : q.at <= chosen.at
    BY <1>3 DEF Latest
  <1> HIDE DEF chosen
  <1>5. chosen.at = runs[p][s].at
    BY <1>1, <1>2, <1>4
  <1>6. chosen.sha = s
    BY <1>1, <1>4, <1>5 DEF Numbered
  <1>7. chosen = runs[p][s]
    BY <1>1, <1>4, <1>6
  <1> QED
    BY <1>7 DEF chosen

LEMMA LatestOfAll ==
    ASSUME STables, Numbered, NEW p \in PullRequests, RunsOf(p) # {}
    PROVE  \E s \in HasRuns(p) : /\ runs[p][s].at = LastOf(p) /\ Latest(RunsOf(p)) = runs[p][s]
                                 /\ runs[p][s] \in Run /\ runs[p][s].sha = s
  <1>1. HasRuns(p) # {} /\ \A s \in HasRuns(p) : runs[p][s] \in RunsOf(p)
    BY RunsByHead
  <1>2. PICK s \in HasRuns(p) : runs[p][s].at = LastOf(p)
    BY <1>1 DEF Numbered
  <1>3. Latest(RunsOf(p)) = runs[p][s]
    BY <1>1, <1>2, LatestIsLast
  <1> QED
    BY <1>2, <1>3, RunsByHead DEF STables

LEMMA LatestOfRecent ==
    ASSUME STables, Numbered, NEW p \in PullRequests, Recent(p) # {}
    PROVE  \E s \in HasRuns(p) : /\ runs[p][s].at = LastOf(p) /\ Latest(Recent(p)) = runs[p][s]
                                 /\ runs[p][s] \in Run /\ runs[p][s].sha = s
  <1>1. PICK r \in RunsOf(p) : r.recent
    BY DEF Recent
  <1>2. PICK s \in HasRuns(p) : /\ runs[p][s].at = LastOf(p)
                                /\ runs[p][s] \in Run /\ runs[p][s].sha = s
    BY <1>1, LatestOfAll
  <1>3. r.sha \in HasRuns(p) /\ runs[p][r.sha] = r /\ r.at \in Int
    BY <1>1, RunsByHead DEF Run
  <1>4. r.at <= runs[p][s].at
    BY <1>2, <1>3 DEF Numbered
  <1>5. runs[p][s].at \in Int
    BY <1>2 DEF Run
  <1>6. runs[p][s].recent
    BY <1>1, <1>2, <1>3, <1>4, <1>5 DEF Numbered
  <1>7. runs[p][s] \in Recent(p) /\ Recent(p) \subseteq RunsOf(p)
    BY <1>2, <1>6, RunsByHead DEF Recent
  <1>8. Latest(Recent(p)) = runs[p][s]
    BY <1>2, <1>7, LatestIsLast
  <1> QED
    BY <1>2, <1>8

LEMMA InitSInv == ScreensInit => SInv
  <1> SUFFICES ASSUME ScreensInit PROVE SInv
    OBVIOUS
  <1>1. \A p \in PullRequests : HasRuns(p) = {}
    BY DEF ScreensInit, HasRuns, HasRun
  <1>2. STables
    BY <1>1 DEF ScreensInit, STables
  <1>3. Numbered /\ HeadIsLast
    BY <1>1, FS_EmptySet DEF ScreensInit, Numbered, HeadIsLast
  <1> QED
    BY <1>2, <1>3 DEF ScreensInit, SInv, ListTyped, DashboardTyped

(* What has to be shown of a step that leaves the runs alone.              *)
LEMMA SameRuns ==
    ASSUME Numbered, UNCHANGED runs
    PROVE  Numbered' /\ \A p \in PullRequests : HasRuns(p)' = HasRuns(p) /\ LastOf(p)' = LastOf(p)
  <1>1. \A p \in PullRequests : HasRuns(p)' = HasRuns(p) /\ LastOf(p)' = LastOf(p)
    BY DEF HasRuns, HasRun, LastOf
  <1> QED
    BY <1>1 DEF Numbered

LEMMA SameTables ==
    ASSUME SInv, UNCHANGED <<github, runs, flags, orderly>>, ListTyped', DashboardTyped'
    PROVE  SInv'
  <1>1. Numbered' /\ \A p \in PullRequests : HasRuns(p)' = HasRuns(p) /\ LastOf(p)' = LastOf(p)
    BY SameRuns DEF SInv
  <1> QED
    BY <1>1 DEF SInv, STables, HeadIsLast, github

LEMMA SameRequests ==
    ASSUME SInv, UNCHANGED <<listing, dashboard>>,
           \A p \in PullRequests : HasRuns(p) \subseteq HasRuns(p)'
    PROVE  ListTyped' /\ DashboardTyped'
  BY DEF SInv, ListTyped, DashboardTyped

(* The world changes without the runs.                                     *)
LEMMA PushSInv ==
    ASSUME SInv, NEW p \in PullRequests, NEW sha \in Shas, Push(p, sha)
    PROVE  SInv'
  <1>1. /\ Numbered'
        /\ \A q \in PullRequests : HasRuns(q)' = HasRuns(q) /\ LastOf(q)' = LastOf(q)
    BY SameRuns DEF Push, SInv
  <1>2. STables'
    BY <1>1 DEF Push, SInv, STables
  <1>3. ASSUME NEW q \in orderly', head'[q] \in HasRuns(q)'
        PROVE  runs'[q][head'[q]].at = LastOf(q)'
    <2>1. q \in orderly /\ q \in PullRequests
      BY DEF Push, SInv, STables
    <2>2. q # p
      BY <1>1, <1>3, <2>1 DEF Push, SInv, STables
    <2> QED
      BY <1>1, <1>3, <2>1, <2>2 DEF Push, SInv, STables, HeadIsLast
  <1>4. HeadIsLast'
    BY <1>3 DEF HeadIsLast
  <1>5. ListTyped' /\ DashboardTyped'
    BY <1>1, SameRequests DEF Push
  <1> QED
    BY <1>1, <1>2, <1>4, <1>5 DEF SInv

LEMMA WorldSInv ==
    ASSUME SInv, UNCHANGED <<head, pushed, runs, listing, dashboard, orderly>>,
           open' \subseteq PullRequests, flags' \in [comment : BOOLEAN, status : BOOLEAN]
    PROVE  SInv'
  <1>1. /\ Numbered'
        /\ \A q \in PullRequests : HasRuns(q)' = HasRuns(q) /\ LastOf(q)' = LastOf(q)
    BY SameRuns DEF SInv
  <1>2. STables' /\ HeadIsLast'
    BY <1>1 DEF SInv, STables, HeadIsLast
  <1>3. ListTyped' /\ DashboardTyped'
    BY <1>1, SameRequests
  <1> QED
    BY <1>1, <1>2, <1>3 DEF SInv

(* A run is put in its row.                                                *)
LEMMA PutEffect ==
    ASSUME STables, NEW p \in PullRequests, NEW run \in Run, Put(p, run)
    PROVE  /\ runs' \in [PullRequests -> [Shas -> Run \cup {NoRun}]]
           /\ \A q \in PullRequests, s \in Shas :
                runs'[q][s] = IF q = p /\ s = run.sha THEN run ELSE runs[q][s]
           /\ \A q \in PullRequests :
                HasRuns(q)' = IF q = p THEN HasRuns(q) \cup {run.sha} ELSE HasRuns(q)
  <1>1. run.sha \in Shas /\ run # NoRun
    BY NoRunIsNoRun DEF Run
  <1>2. /\ runs' \in [PullRequests -> [Shas -> Run \cup {NoRun}]]
        /\ \A q \in PullRequests, s \in Shas :
             runs'[q][s] = IF q = p /\ s = run.sha THEN run ELSE runs[q][s]
    BY <1>1 DEF Put, STables
  <1>3. ASSUME NEW q \in PullRequests
        PROVE  HasRuns(q)' = IF q = p THEN HasRuns(q) \cup {run.sha} ELSE HasRuns(q)
    BY <1>1, <1>2 DEF HasRuns, HasRun
  <1> QED
    BY <1>2, <1>3

LEMMA PutSInv ==
    ASSUME SInv, NEW p \in PullRequests, NEW run \in Run, Put(p, run),
           run.sha \in pushed[p], Numbered', HeadIsLast', orderly' \subseteq orderly
    PROVE  SInv'
  <1> DEFINE has(q) == HasRuns(q)'
  <1>1. /\ runs' \in [PullRequests -> [Shas -> Run \cup {NoRun}]]
        /\ \A q \in PullRequests, s \in Shas :
             runs'[q][s] = IF q = p /\ s = run.sha THEN run ELSE runs[q][s]
        /\ \A q \in PullRequests :
             HasRuns(q)' = IF q = p THEN HasRuns(q) \cup {run.sha} ELSE HasRuns(q)
    BY PutEffect DEF SInv
  <1>2. STables'
    <2>1. \A q \in PullRequests : HasRuns(q)' \subseteq pushed[q]
      BY <1>1 DEF SInv, STables
    <2>2. ASSUME NEW q \in PullRequests, NEW s \in HasRuns(q)' PROVE runs'[q][s].sha = s
      <3>1. s \in Shas
        BY <2>1, <2>2 DEF SInv, STables
      <3> QED
        BY <1>1, <3>1 DEF SInv, STables
    <2> QED
      BY <1>1, <2>1, <2>2 DEF Put, github, SInv, STables
  <1>3. ListTyped' /\ DashboardTyped'
    BY <1>1, SameRequests DEF Put
  <1> QED
    BY <1>2, <1>3 DEF SInv

(* A run goes on: its number stays, and who is recent is still newer.      *)
LEMMA ReplaceSInv ==
    ASSUME SInv, NEW p \in PullRequests, NEW sha \in HasRuns(p), NEW run \in Run, Put(p, run),
           UNCHANGED orderly, run.sha = sha, run.at = runs[p][sha].at, DecidedIfCompleted(run),
           \/ run.recent = runs[p][sha].recent
           \/ ~run.recent /\ \A t \in HasRuns(p) : runs[p][t].at < run.at => ~runs[p][t].recent
    PROVE  SInv'
  <1>1. /\ runs' \in [PullRequests -> [Shas -> Run \cup {NoRun}]]
        /\ \A q \in PullRequests, s \in Shas :
             runs'[q][s] = IF q = p /\ s = sha THEN run ELSE runs[q][s]
        /\ \A q \in PullRequests : HasRuns(q)' = HasRuns(q)
    <2>1. STables
      BY DEF SInv
    <2>2. /\ runs' \in [PullRequests -> [Shas -> Run \cup {NoRun}]]
          /\ \A q \in PullRequests, s \in Shas :
               runs'[q][s] = IF q = p /\ s = run.sha THEN run ELSE runs[q][s]
          /\ \A q \in PullRequests :
               HasRuns(q)' = IF q = p THEN HasRuns(q) \cup {run.sha} ELSE HasRuns(q)
      BY <2>1, PutEffect
    <2>3. \A q \in PullRequests : HasRuns(q)' = HasRuns(q)
      BY <2>2
    <2> QED
      BY <2>2, <2>3
  <1>2. \A q \in PullRequests : LastOf(q)' = LastOf(q) /\ HasRuns(q) \subseteq Shas
    BY <1>1 DEF LastOf, HasRuns
  <1>3. \A q \in PullRequests : \A s \in HasRuns(q) : runs'[q][s].at = runs[q][s].at
    BY <1>1, <1>2
  <1>4. ASSUME NEW q \in PullRequests, NEW s \in HasRuns(q)
        PROVE  /\ runs'[q][s].at <= LastOf(q) /\ DecidedIfCompleted(runs'[q][s])
               /\ \A t \in HasRuns(q) : runs'[q][s].at = runs'[q][t].at => s = t
    <2>1. DecidedIfCompleted(runs'[q][s])
      BY <1>1, <1>2 DEF SInv, Numbered
    <2> QED
      BY <1>3, <2>1 DEF SInv, Numbered
  <1>5. ASSUME NEW q \in PullRequests, NEW s \in HasRuns(q), NEW t \in HasRuns(q),
               runs'[q][s].recent, runs'[q][s].at < runs'[q][t].at
        PROVE  runs'[q][t].recent
    <2>1. runs[q][s].at < runs[q][t].at
      BY <1>3, <1>5
    <2>2. runs[q][s].recent
      BY <1>1, <1>2, <1>5
    <2>3. runs[q][t].recent
      BY <2>1, <2>2 DEF SInv, Numbered
    <2>4. CASE q = p /\ t = sha
      BY <1>1, <1>2, <2>1, <2>2, <2>3, <2>4
    <2>5. CASE ~(q = p /\ t = sha)
      BY <1>1, <1>2, <2>3, <2>5
    <2> QED
      BY <2>4, <2>5
  <1>6. \A q \in PullRequests :
          HasRuns(q) # {} => \E s \in HasRuns(q) : runs'[q][s].at = LastOf(q)
    BY <1>3 DEF SInv, Numbered
  <1>7. Numbered'
    BY <1>1, <1>2, <1>4, <1>5, <1>6 DEF SInv, Numbered
  <1>8. HeadIsLast'
    BY <1>1, <1>2, <1>3 DEF SInv, STables, HeadIsLast, Put, github
  <1>9. run.sha \in pushed[p]
    BY DEF SInv, STables
  <1> QED
    BY <1>7, <1>8, <1>9, PutSInv

LEMMA CreateSInv ==
    ASSUME SInv, NEW p \in PullRequests, NEW sha \in Shas, NEW status \in {"pending", "error"},
           CreateRun(p, sha, status)
    PROVE  SInv'
  <1> DEFINE run == [sha |-> sha, at |-> Cardinality(RunsOf(p)) + 1, recent |-> TRUE,
                     status |-> status, decision |-> "none"]
  <1>1. /\ IsFiniteSet(HasRuns(p)) /\ Cardinality(RunsOf(p)) = LastOf(p) /\ LastOf(p) \in Nat
        /\ sha \notin HasRuns(p)
    BY RunsCounted DEF SInv, Numbered, CreateRun, HasRuns
  <1>2. /\ run \in Run /\ run.sha = sha /\ run.at = LastOf(p) + 1 /\ run.recent
        /\ DecidedIfCompleted(run) /\ Put(p, run)
    BY <1>1, ScreensAssumption DEF CreateRun, Run, DecidedIfCompleted
  <1> HIDE DEF run
  <1>3. /\ runs' \in [PullRequests -> [Shas -> Run \cup {NoRun}]]
        /\ \A q \in PullRequests, s \in Shas :
             runs'[q][s] = IF q = p /\ s = sha THEN run ELSE runs[q][s]
        /\ \A q \in PullRequests :
             HasRuns(q)' = IF q = p THEN HasRuns(q) \cup {sha} ELSE HasRuns(q)
    BY <1>2, PutEffect DEF SInv
  <1>4. /\ \A q \in PullRequests \ {p} : HasRuns(q)' = HasRuns(q) /\ LastOf(q)' = LastOf(q)
        /\ IsFiniteSet(HasRuns(p)') /\ LastOf(p)' = LastOf(p) + 1
    BY <1>1, <1>3, FS_AddElement DEF LastOf
  <1>5. \A q \in PullRequests \ {p} : \A s \in HasRuns(q) : runs'[q][s] = runs[q][s]
    BY <1>3 DEF HasRuns
  <1>6. /\ runs'[p][sha] = run
        /\ \A s \in HasRuns(p) : /\ runs'[p][s] = runs[p][s] /\ runs[p][s].at \in Int
                                 /\ runs[p][s].at <= LastOf(p)
    BY <1>1, <1>3, RunsByHead DEF SInv, HasRuns, Numbered, Run
  <1>7. ASSUME NEW q \in PullRequests \ {p}
        PROVE  /\ IsFiniteSet(HasRuns(q)')
               /\ HasRuns(q)' # {} => \E s \in HasRuns(q)' : runs'[q][s].at = LastOf(q)'
               /\ \A s \in HasRuns(q)' :
                    /\ runs'[q][s].at <= LastOf(q)' /\ DecidedIfCompleted(runs'[q][s])
                    /\ \A t \in HasRuns(q)' :
                         /\ runs'[q][s].at = runs'[q][t].at => s = t
                         /\ runs'[q][s].recent /\ runs'[q][s].at < runs'[q][t].at
                            => runs'[q][t].recent
    BY <1>4, <1>5 DEF SInv, Numbered
  <1>8. ASSUME NEW s \in HasRuns(p)'
        PROVE  /\ runs'[p][s].at <= LastOf(p)' /\ DecidedIfCompleted(runs'[p][s])
               /\ \A t \in HasRuns(p)' :
                    /\ runs'[p][s].at = runs'[p][t].at => s = t
                    /\ runs'[p][s].recent /\ runs'[p][s].at < runs'[p][t].at
                       => runs'[p][t].recent
    <2>1. s = sha \/ s \in HasRuns(p)
      BY <1>3
    <2>2. runs'[p][s].at <= LastOf(p)' /\ DecidedIfCompleted(runs'[p][s])
      BY <1>1, <1>2, <1>4, <1>6, <2>1 DEF SInv, Numbered
    <2>3. ASSUME NEW t \in HasRuns(p)'
          PROVE  /\ runs'[p][s].at = runs'[p][t].at => s = t
                 /\ runs'[p][s].recent /\ runs'[p][s].at < runs'[p][t].at
                    => runs'[p][t].recent
      <3>1. t = sha \/ t \in HasRuns(p)
        BY <1>3
      <3>2. CASE t = sha \/ s = sha
        BY <1>1, <1>2, <1>6, <2>1, <3>1, <3>2
      <3>3. CASE t # sha /\ s # sha
        BY <1>6, <2>1, <3>1, <3>3 DEF SInv, Numbered
      <3> QED
        BY <3>2, <3>3
    <2> QED
      BY <2>2, <2>3
  <1>9. sha \in HasRuns(p)' /\ runs'[p][sha].at = LastOf(p)'
    BY <1>2, <1>3, <1>4, <1>6
  <1>10. Numbered'
    BY <1>4, <1>7, <1>8, <1>9 DEF Numbered
  <1>11. ASSUME NEW q \in orderly', head'[q] \in HasRuns(q)'
         PROVE  runs'[q][head'[q]].at = LastOf(q)'
    <2>1. q \in orderly /\ q \in PullRequests /\ head' = head
      BY DEF CreateRun, Put, github, SInv, STables
    <2>2. CASE q = p
      <3>1. head[p] = sha
        BY <1>11, <2>1, <2>2 DEF CreateRun
      <3> QED
        BY <1>9, <2>1, <2>2, <3>1
    <2>3. CASE q # p
      BY <1>4, <1>5, <1>11, <2>1, <2>3 DEF SInv, HeadIsLast
    <2> QED
      BY <2>2, <2>3
  <1>12. HeadIsLast'
    BY <1>11 DEF HeadIsLast
  <1>13. run.sha \in pushed[p] /\ orderly' \subseteq orderly
    BY <1>2 DEF CreateRun
  <1> QED
    BY <1>2, <1>10, <1>12, <1>13, PutSInv

LEMMA EndRunSInv ==
    ASSUME SInv, NEW p \in PullRequests, NEW sha \in Shas, NEW status \in Ended,
           NEW outcome \in {"none", "pass", "fail"}, EndRun(p, sha, status, outcome)
    PROVE  SInv'
  <1> DEFINE old == runs[p][sha]
             run == [old EXCEPT !.status = status, !.decision = outcome]
  <1>1. sha \in HasRuns(p) /\ old \in Run /\ old.sha = sha
    BY RunsByHead DEF SInv, STables, EndRun
  <1>2. /\ run \in Run /\ run.sha = sha /\ run.at = old.at /\ run.recent = old.recent
        /\ DecidedIfCompleted(run) /\ Put(p, run) /\ UNCHANGED orderly
    BY <1>1 DEF EndRun, Run, Ended, DecidedIfCompleted
  <1> HIDE DEF run
  <1> QED
    BY <1>1, <1>2, ReplaceSInv

LEMMA RestartRunSInv ==
    ASSUME SInv, NEW p \in PullRequests, NEW sha \in Shas, RestartRun(p, sha)
    PROVE  SInv'
  <1> DEFINE old == runs[p][sha]
             run == [old EXCEPT !.status = "pending"]
  <1>1. sha \in HasRuns(p) /\ old \in Run /\ old.sha = sha
    BY RunsByHead DEF SInv, STables, RestartRun
  <1>2. DecidedIfCompleted(old) /\ old.status = "error"
    BY <1>1 DEF RestartRun, SInv, Numbered
  <1>3. /\ run \in Run /\ run.sha = sha /\ run.at = old.at /\ run.recent = old.recent
        /\ DecidedIfCompleted(run) /\ Put(p, run) /\ UNCHANGED orderly
    BY <1>1, <1>2 DEF RestartRun, Run, DecidedIfCompleted
  <1> HIDE DEF run
  <1> QED
    BY <1>1, <1>3, ReplaceSInv

LEMMA AgeRunSInv ==
    ASSUME SInv, NEW p \in PullRequests, NEW sha \in Shas, AgeRun(p, sha)
    PROVE  SInv'
  <1> DEFINE old == runs[p][sha]
             run == [old EXCEPT !.recent = FALSE]
  <1>1. /\ sha \in HasRuns(p) /\ old \in Run /\ old.sha = sha
        /\ \A t \in HasRuns(p) : runs[p][t] \in RunsOf(p)
    BY RunsByHead DEF SInv, STables, AgeRun
  <1>2. DecidedIfCompleted(old)
    BY <1>1 DEF SInv, Numbered
  <1>3. /\ run \in Run /\ run.sha = sha /\ run.at = old.at /\ ~run.recent
        /\ DecidedIfCompleted(run) /\ Put(p, run) /\ UNCHANGED orderly
    BY <1>1, <1>2 DEF AgeRun, Run, DecidedIfCompleted
  <1>4. \A t \in HasRuns(p) : runs[p][t].at < run.at => ~runs[p][t].recent
    BY <1>1, <1>3 DEF AgeRun
  <1> HIDE DEF run
  <1> QED
    BY <1>1, <1>3, <1>4, ReplaceSInv

(* The requests that read and answer.                                      *)
LEMMA ListSInv == SInv /\ (FetchPulls \/ AnswerList) => SInv'
  <1>1. ASSUME SInv, FetchPulls PROVE SInv'
    <2>1. ListTyped'
      BY <1>1 DEF FetchPulls, LivePulls, Listed, ListTyped, SInv, STables
    <2>2. DashboardTyped'
      BY <1>1 DEF FetchPulls, DashboardTyped, HasRuns, HasRun, SInv
    <2> QED
      BY <1>1, <2>1, <2>2, SameTables DEF FetchPulls
  <1>2. ASSUME SInv, AnswerList PROVE SInv'
    <2>1. \A p \in DOMAIN listing.heads : StateOf(p, listing.heads[p]) \in ReviewStates
      BY DEF StateOf, ReviewStates
    <2>2. ListTyped'
      BY <1>2, <2>1 DEF AnswerList, ListTyped, Range
    <2>3. DashboardTyped'
      BY <1>2 DEF AnswerList, DashboardTyped, HasRuns, HasRun, SInv
    <2> QED
      BY <1>2, <2>2, <2>3, SameTables DEF AnswerList
  <1> QED
    BY <1>1, <1>2

(* A candidate is the last run of its pull request.                        *)
LEMMA CandidateIsLast ==
    ASSUME SInv, NEW p \in PullRequests, Candidate(p) # NoRun
    PROVE  /\ Candidate(p) \in Run /\ Candidate(p).sha \in HasRuns(p)
           /\ Candidate(p) = runs[p][Candidate(p).sha] /\ Candidate(p).at = LastOf(p)
           /\ DecidedIfCompleted(Candidate(p)) /\ Candidate(p).status \in Ended
  <1>1. /\ Recent(p) # {} /\ Candidate(p) = Latest(Recent(p))
        /\ Candidate(p).status \in Ended
    BY DEF Candidate
  <1>2. PICK s \in HasRuns(p) : /\ runs[p][s].at = LastOf(p) /\ Latest(Recent(p)) = runs[p][s]
                                /\ runs[p][s] \in Run /\ runs[p][s].sha = s
    BY <1>1, LatestOfRecent DEF SInv
  <1>3. DecidedIfCompleted(runs[p][s])
    BY DEF SInv, Numbered
  <1> QED
    BY <1>1, <1>2, <1>3

LEMMA DashboardSInv ==
    SInv /\ (ReadCandidates \/ AnswerDashboard \/ AnswerWithoutGitHub \/ Forget) => SInv'
  <1>1. ASSUME SInv, ReadCandidates PROVE SInv'
    <2>1. DashboardTyped'
      <3> DEFINE candidates == {p \in PullRequests : Candidate(p) # NoRun}
      <3>1. /\ dashboard'.phase = "read"
            /\ dashboard'.latest = [p \in candidates |-> Candidate(p)]
            /\ UNCHANGED runs
        BY <1>1 DEF ReadCandidates
      <3>2. \A p \in candidates : /\ Candidate(p) \in Run /\ Candidate(p).sha \in HasRuns(p)
                                  /\ DecidedIfCompleted(Candidate(p))
        BY <1>1, CandidateIsLast
      <3>3. \A p \in candidates : HasRuns(p)' = HasRuns(p)
        BY <3>1 DEF HasRuns, HasRun
      <3>4. DOMAIN dashboard'.latest = candidates
        BY <3>1
      <3>5. \A p \in candidates : dashboard'.latest[p] = Candidate(p)
        BY <3>1
      <3> QED
        BY <3>1, <3>2, <3>3, <3>4, <3>5 DEF DashboardTyped
    <2>2. ListTyped'
      BY <1>1 DEF ReadCandidates, ListTyped, SInv
    <2> QED
      BY <1>1, <2>1, <2>2, SameTables DEF ReadCandidates
  <1>2. ASSUME SInv, NEW live, AnswerWith(live) PROVE SInv'
    <2>1. \A run, sha, published : ActionFor(run, sha, published) \in Actions
      BY DEF ActionFor, Actions
    <2>2. DashboardTyped'
      BY <1>2, <2>1 DEF AnswerWith, DashboardTyped, Range
    <2>3. ListTyped'
      BY <1>2 DEF AnswerWith, ListTyped, SInv
    <2> QED
      BY <1>2, <2>2, <2>3, SameTables DEF AnswerWith
  <1>3. ASSUME SInv, Forget PROVE SInv'
    <2>1. ListTyped' /\ DashboardTyped'
      BY <1>3 DEF Forget, ListTyped, DashboardTyped, HasRuns, HasRun, SInv
    <2> QED
      BY <1>3, <2>1, SameTables DEF Forget
  <1> QED
    BY <1>1, <1>2, <1>3 DEF AnswerDashboard, AnswerWithoutGitHub

LEMMA NextSInv == SInv /\ [ScreensNext]_screensVars => SInv'
  <1> SUFFICES ASSUME SInv, [ScreensNext]_screensVars PROVE SInv'
    OBVIOUS
  <1>1. ASSUME NEW p \in PullRequests, CloseOrReopen(p) PROVE SInv'
    <2>1. open' \subseteq PullRequests /\ flags' \in [comment : BOOLEAN, status : BOOLEAN]
      BY <1>1 DEF CloseOrReopen, SInv, STables
    <2> QED
      BY <1>1, <2>1, WorldSInv DEF CloseOrReopen
  <1>2. ASSUME NEW new \in [comment : BOOLEAN, status : BOOLEAN], ChangeConfig(new)
        PROVE  SInv'
    <2>1. open' \subseteq PullRequests
      BY <1>2 DEF ChangeConfig, github, SInv, STables
    <2> QED
      BY <1>2, <2>1, WorldSInv DEF ChangeConfig, github
  <1>3. ASSUME NEW p \in PullRequests, NEW sha \in Shas,
               \/ Push(p, sha) \/ RestartRun(p, sha) \/ AgeRun(p, sha)
               \/ \E status \in {"pending", "error"} : CreateRun(p, sha, status)
               \/ \E status \in Ended, outcome \in {"none", "pass", "fail"} :
                     EndRun(p, sha, status, outcome)
        PROVE  SInv'
    BY <1>3, PushSInv, RestartRunSInv, AgeRunSInv, CreateSInv, EndRunSInv
  <1>4. CASE World
    BY <1>1, <1>2, <1>3, <1>4 DEF World
  <1>5. CASE UNCHANGED screensVars
    <2>1. ListTyped' /\ DashboardTyped'
      BY <1>5 DEF screensVars, ListTyped, DashboardTyped, HasRuns, HasRun, SInv
    <2> QED
      BY <1>5, <2>1, SameTables DEF screensVars
  <1> QED
    BY <1>4, <1>5, ListSInv, DashboardSInv DEF ScreensNext

-----------------------------------------------------------------------------
LEMMA SInvImplies == SInv => ScreensTypeOK
  <1> SUFFICES ASSUME SInv PROVE ScreensTypeOK
    OBVIOUS
  <1>1. \A p \in PullRequests : \A r \in RunsOf(p) : r.sha \in pushed[p] /\ runs[p][r.sha] = r
    BY RunsByHead DEF SInv, STables
  <1>2. \/ listing = NotAsked
        \/ /\ listing.phase = "fetched"
           /\ DOMAIN listing.heads \subseteq PullRequests /\ Range(listing.heads) \subseteq Shas
        \/ listing.phase = "answered" /\ Range(listing.states) \subseteq ReviewStates
    BY DEF SInv, ListTyped, Range
  <1>3. \/ dashboard = NotAsked
        \/ /\ dashboard.phase = "read"
           /\ DOMAIN dashboard.latest \subseteq PullRequests
           /\ Range(dashboard.latest) \subseteq Run
        \/ dashboard.phase = "answered" /\ Range(dashboard.actions) \subseteq Actions
    BY DEF SInv, DashboardTyped, Range
  <1>4. \A p \in PullRequests : head[p] \in pushed[p] /\ pushed[p] \subseteq Shas
    BY DEF SInv, STables
  <1> QED
    BY <1>1, <1>2, <1>3, <1>4 DEF SInv, STables, ScreensTypeOK

(* The last run of an orderly pull request is that of its head, if the     *)
(* head has one.                                                           *)
LEMMA OrderlyHead ==
    ASSUME SInv, NEW p \in orderly, NEW s \in HasRuns(p), runs[p][s].at = LastOf(p),
           HasRun(p, head[p])
    PROVE  s = head[p]
  <1>1. p \in PullRequests /\ head[p] \in HasRuns(p)
    BY RunsByHead DEF SInv, STables
  <1>2. runs[p][head[p]].at = LastOf(p)
    BY <1>1 DEF SInv, HeadIsLast
  <1> QED
    BY <1>1, <1>2 DEF SInv, Numbered

LEMMA ListsHonestly == SInv => ListedHonestly
  <1> SUFFICES ASSUME SInv, AnswerList, NEW p \in DOMAIN listing.heads
               PROVE  LET state == listing'.states[p]
                      IN /\ state = "current" => HasRun(p, listing.heads[p])
                         /\ state = "not_run" => \A sha \in Shas : ~HasRun(p, sha)
                         /\ state = "outdated" /\ p \in orderly /\ head[p] = listing.heads[p]
                            => ~HasRun(p, listing.heads[p])
    BY DEF ListedHonestly
  <1> DEFINE live == listing.heads[p]
  <1>1. p \in PullRequests /\ live \in Shas
    BY NoRunIsNoRun DEF AnswerList, SInv, ListTyped
  <1>2. listing'.states[p] = StateOf(p, live)
    BY DEF AnswerList
  <1> HIDE DEF live
  <1>3. CASE RunsOf(p) = {}
    <2>1. \A sha \in Shas : ~HasRun(p, sha)
      BY <1>1, <1>3, RunsByHead DEF SInv
    <2> QED
      BY <1>2, <1>3, <2>1 DEF StateOf
  <1>4. CASE RunsOf(p) # {}
    <2>1. PICK s \in HasRuns(p) : /\ runs[p][s].at = LastOf(p) /\ Latest(RunsOf(p)) = runs[p][s]
                                  /\ runs[p][s] \in Run /\ runs[p][s].sha = s
      BY <1>1, <1>4, LatestOfAll DEF SInv
    <2>2. HasRun(p, s)
      BY DEF HasRuns
    <2>3. listing'.states[p] = IF s = live THEN "current" ELSE "outdated"
      BY <1>2, <1>4, <2>1 DEF StateOf
    <2>4. p \in orderly /\ head[p] = live /\ HasRun(p, live) => s = live
      BY <2>1, OrderlyHead
    <2> QED
      BY <2>2, <2>3, <2>4 DEF live
  <1> QED
    BY <1>3, <1>4

LEMMA AnswersDashboard == SInv => DashboardAnswered
  <1> SUFFICES ASSUME SInv, AnswerDashboard PROVE DashboardAnswered
    BY DEF DashboardAnswered
  <1>1. /\ dashboard.phase = "read" /\ DOMAIN dashboard.latest \subseteq PullRequests
        /\ \A p \in DOMAIN dashboard.latest :
             /\ dashboard.latest[p] \in Run /\ dashboard.latest[p].sha \in HasRuns(p)
             /\ DecidedIfCompleted(dashboard.latest[p])
    BY NoRunIsNoRun DEF AnswerDashboard, AnswerWith, SInv, DashboardTyped
  <1>2. /\ DOMAIN dashboard'.actions = DOMAIN dashboard.latest \cap Listed
        /\ \A p \in DOMAIN dashboard.latest \cap Listed :
             ShownAs(p) = ActionFor(dashboard.latest[p], head[p], dashboard.flags)
    BY DEF AnswerDashboard, AnswerWith, LivePulls, ShownAs
  <1>3. ASSUME NEW p \in DOMAIN dashboard'.actions,
               ShownAs(p) \in {"error", "fail", "publication_off"}
        PROVE  HasRun(p, head[p])
    <2>1. dashboard.latest[p].sha = head[p]
      BY <1>2, <1>3 DEF ActionFor
    <2> QED
      BY <1>1, <1>2, <2>1 DEF HasRuns
  <1>4. ASSUME NEW p \in Listed \cap DOMAIN dashboard.latest, HasRun(p, head[p]),
               runs[p][head[p]] = dashboard.latest[p]
        PROVE  LET run == runs[p][head[p]]
               IN  /\ run.status = "error" => ShownAs(p) = "error"
                   /\ run.decision = "fail" => ShownAs(p) \in {"fail", "publication_off"}
                   /\ run.decision = "pass" => ShownAs(p) = "none"
    <2>1. head[p] \in HasRuns(p) /\ runs[p][head[p]].sha = head[p]
      BY <1>1, <1>4, RunsByHead DEF SInv, STables
    <2>2. ShownAs(p) = ActionFor(runs[p][head[p]], head[p], dashboard.flags)
      BY <1>2, <1>4
    <2>3. DecidedIfCompleted(runs[p][head[p]])
      BY <1>1, <1>4
    <2> QED
      BY <2>1, <2>2, <2>3 DEF ActionFor, DecidedIfCompleted
  <1> QED
    BY <1>3, <1>4 DEF DashboardAnswered

LEMMA NewerRunsSilence == SInv => Silenced
  <1> SUFFICES ASSUME SInv, ReadCandidates, NEW p \in DOMAIN dashboard'.latest,
                      NEW r \in RunsOf(p), r.status = "pending"
               PROVE  r.at < dashboard'.latest[p].at
    BY DEF Silenced
  <1>1. p \in PullRequests /\ Candidate(p) # NoRun /\ dashboard'.latest[p] = Candidate(p)
    BY DEF ReadCandidates
  <1>2. /\ Candidate(p) \in Run /\ Candidate(p).sha \in HasRuns(p)
        /\ Candidate(p) = runs[p][Candidate(p).sha] /\ Candidate(p).at = LastOf(p)
        /\ Candidate(p).status \in Ended
    BY <1>1, CandidateIsLast
  <1>3. r \in Run /\ r.sha \in HasRuns(p) /\ runs[p][r.sha] = r
    BY <1>1, RunsByHead DEF SInv
  <1>4. r.at <= LastOf(p)
    BY <1>1, <1>3 DEF SInv, Numbered
  <1>5. r.at # LastOf(p)
    <2>1. r.sha # Candidate(p).sha
      BY <1>2, <1>3 DEF Ended
    <2> QED
      BY <1>1, <1>2, <1>3, <2>1 DEF SInv, Numbered
  <1>6. r.at \in Int /\ LastOf(p) \in Int
    BY <1>2, <1>3 DEF Run
  <1> QED
    BY <1>1, <1>2, <1>4, <1>5, <1>6

(* However people push, close and reopen and runs come, end and restart    *)
(* while a screen is read: the list shows no run next to a head it is not  *)
(* of, the dashboard misses no failure of a live head of a pull request    *)
(* whose branch only went on, and nobody is asked to act on a run that a   *)
(* newer one replaces.                                                     *)
THEOREM HonestScreens == ScreensSpec => ScreensAreHonest
  <1>1. SInv /\ [ScreensNext]_screensVars => SInv'
    BY NextSInv
  <1>2. SInv => ListedHonestly /\ DashboardAnswered /\ Silenced
    BY ListsHonestly, AnswersDashboard, NewerRunsSilence
  <1> QED
    BY InitSInv, <1>1, <1>2, SInvImplies, PTL
    DEF ScreensSpec, ScreensAreHonest, ListIsHonest, DashboardIsComplete, NewerRunSilences
=============================================================================
