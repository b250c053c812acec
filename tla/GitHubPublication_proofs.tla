------------------------ MODULE GitHubPublication_proofs ------------------------
(***************************************************************************)
(* Theorems about GitHubPublication: what GitHub shows of a run, for any   *)
(* number of runs, workers, administrators, comments and failures.         *)
(***************************************************************************)
EXTENDS GitHubPublication, FiniteSetTheorems, SequenceTheorems,
        WellFoundedInduction, TLAPS

-----------------------------------------------------------------------------
(* The inductive invariant behind TypeOK                                   *)

(* A worker holds one run, which no other worker holds.                    *)
HoldersAreAlone ==
    /\ \A r \in active : outcome[r] # "absent"
    /\ \A w \in Workers : IF worker[w].pc = "idle" THEN worker[w] = IdleWorker
                                                   ELSE worker[w].run \in active
    /\ \A v, w \in Workers : worker[v].pc # "idle" /\ worker[v].run = worker[w].run => v = w

(* What the row of the run says when its worker has come this far.         *)
RowAllows(pc, seen) ==
    /\ pc \in {"announce", "pipeline"} => seen = "running"
    /\ pc = "reread" => seen \in Verdict
    /\ pc \in {"publish", "release"} => seen \in Publishable
RowsAllowTheStep == \A w \in Workers : RowAllows(worker[w].pc, outcome[worker[w].run])

(* The two kinds of publication: a worker's announcement, and the others.  *)
Announces(p) == p \in Workers /\ worker[p].pc = "announce"
WellFormed(p, b) ==
    /\ b.run \in Runs /\ outcome[b.run] # "absent" /\ b.todo # {}
    /\ b.step \in {"find", "write"} => "comment" \in b.todo
    /\ b.step = "post" => "status" \in b.todo
    /\ IF Announces(p) THEN b.seen = "running" /\ b.todo = {"status"}
                       ELSE b.seen \in Publishable /\ b.todo = Enabled
    /\ p \in Workers => /\ worker[p].pc \in {"announce", "publish"}
                        /\ b.run = worker[p].run /\ b.seen = outcome[b.run]

(* The comment that is going to be updated is the run's own.               *)
Located(b) ==
    b.step = "write" => \/ b.found = 0
                        \/ b.found \in DOMAIN comments /\ comments[b.found].run = b.run

PublicationsAreSound ==
    \A p \in Publishers : ~At(p, "idle") =>
        WellFormed(p, publishing[p]) /\ Located(publishing[p])

PInv == TypeOK /\ HoldersAreAlone /\ RowsAllowTheStep /\ PublicationsAreSound

-----------------------------------------------------------------------------
(* VerdictShownIsTheRuns: no verdict is shown of a run that can still lose *)
(* it.                                                                     *)
ShowsVerdict(r) ==
    \/ status[r] \in {"success", "failure"}
    \/ \E i \in CommentsOf(r) : comments[i].body \in Verdict

ShownIsSettled ==
    clicks = 0 =>
        /\ \A a \in Admins : At(a, "idle")
        /\ \A w \in Workers : worker[w].pc = "reread" => ~ShowsVerdict(worker[w].run)
        /\ \A r \in Runs : ShowsVerdict(r) => outcome[r] \in Verdict

VInv == ShownIsSettled /\ VerdictShownIsTheRuns

-----------------------------------------------------------------------------
(* RetriesFindTheComment: a run that is not in raced has one publication   *)
(* under way at most, which knows its row and whether it has a comment.    *)
OneAtATime ==
    \A r \in Runs \ raced : \A p, q \in Publishers :
        Under(publishing[p], r) /\ Under(publishing[q], r) => p = q
SeenIsCurrent ==
    \A p \in Publishers : ~At(p, "idle") /\ publishing[p].run \notin raced =>
        publishing[p].seen = outcome[publishing[p].run]
OneComment ==
    Fits => \A r \in Runs \ raced : \A i, j \in CommentsOf(r) : i = j
MissingIsNone ==
    Fits => \A p \in Publishers :
        At(p, "write") /\ publishing[p].found = 0 /\ publishing[p].run \notin raced =>
            CommentsOf(publishing[p].run) = {}

CInv == OneAtATime /\ SeenIsCurrent /\ OneComment /\ MissingIsNone

-----------------------------------------------------------------------------
(* ReleasedRunIsShown: what is shown once the last word has been said, and *)
(* that a publication posts the status after the comment.                  *)
CommentShown(r) == \E i \in CommentsOf(r) : comments[i].body = outcome[r]
Shown(r) ==
    /\ "status" \in Enabled => status[r] = StateOf(outcome[r])
    /\ "comment" \in Enabled /\ Fits => CommentShown(r)

SettledIsShown ==
    \A r \in Runs \ raced :
        /\ \A w \in Workers : worker[w].run = r => worker[w].pc \in {"start", "release"}
        /\ outcome[r] \in Verdict \/ status[r] # "none"
        => Shown(r)
CommentGoesFirst ==
    \A p \in Publishers : 
        At(p, "post") /\ "comment" \in publishing[p].todo /\ publishing[p].run \notin raced /\ Fits
        => CommentShown(publishing[p].run)
AbsentIsNotShown == \A r \in Runs : outcome[r] = "absent" => status[r] = "none"

SInv == AbsentIsNotShown /\ (failures = 0 => SettledIsShown /\ CommentGoesFirst)
-----------------------------------------------------------------------------
(* What the operators of the model do                                      *)

(* PutComment writes the comment that was found, or a new last one, and    *)
(* changes no other.                                                       *)
PutAt(b) == IF b.found = 0 THEN Len(comments) + 1 ELSE b.found

LEMMA PutEffect ==
    ASSUME NEW b \in Publication, comments \in Seq(Comment), PutComment(b),
           b.found = 0 \/ b.found \in DOMAIN comments
    PROVE  /\ comments' \in Seq(Comment) /\ Len(comments) <= Len(comments')
           /\ PutAt(b) \in DOMAIN comments'
           /\ comments'[PutAt(b)] = [run |-> b.run, body |-> b.seen]
           /\ \A i \in DOMAIN comments' : i # PutAt(b) =>
                i \in DOMAIN comments /\ comments'[i] = comments[i]
           /\ \A i \in DOMAIN comments : i \in DOMAIN comments'
  <1> DEFINE c == [run |-> b.run, body |-> b.seen]
  <1>c. c \in Comment
    BY DEF Comment, Publication
  <1>1. CASE b.found = 0
    <2>1. comments' = Append(comments, c)
      BY <1>1 DEF PutComment
    <2> QED
      BY <1>1, <1>c, <2>1, AppendProperties DEF PutAt
  <1>2. CASE b.found # 0
    <2>1. comments' = [comments EXCEPT ![b.found] = c]
      BY <1>2 DEF PutComment
    <2> QED
      BY <1>2, <1>c, <2>1, ExceptSeq DEF PutAt
  <1> QED
    BY <1>1, <1>2

(* A comment by somebody else is appended, and is no run's.                *)
LEMMA StrangerEffect ==
    ASSUME TypeOK, StrangerComments
    PROVE  /\ comments' \in Seq(Comment) /\ Len(comments) <= Len(comments')
           /\ \A i \in DOMAIN comments' :
                \/ i \in DOMAIN comments /\ comments'[i] = comments[i]
                \/ comments'[i].run = NoRun
           /\ \A i \in DOMAIN comments :
                i \in DOMAIN comments' /\ comments'[i] = comments[i]
  <1> DEFINE c == [run |-> NoRun, body |-> "absent"]
  <1>1. c \in Comment /\ comments \in Seq(Comment)
    BY DEF Comment, Outcome, TypeOK
  <1>2. comments' = Append(comments, c)
    BY DEF StrangerComments
  <1> QED
    BY <1>1, <1>2, AppendProperties

(* A set of natural numbers that is not empty has a least element.         *)
LEMMA LeastOfNaturals ==
    ASSUME NEW S \in SUBSET Nat, S # {} PROVE \E i \in S : \A j \in S : i <= j
  <1> DEFINE R == {pair \in Nat \X Nat : pair[1] < pair[2]}
  <1>1. IsWellFoundedOn(R, Nat)
    BY NatLessThanWellFounded DEF OpToRel
  <1>2. ASSUME NEW i \in S, NEW j \in S, <<j, i>> \notin R PROVE i <= j
    BY <1>2
  <1> HIDE DEF R
  <1>3. PICK i \in S : \A j \in S : <<j, i>> \notin R
    BY <1>1, WFMin, Zenon
  <1> QED
    BY <1>2, <1>3

(* The comment that a lookup returns is the run's, and if it returns none  *)
(* while all comments are in the page there is none.                       *)
LEMMA MarkedCommentIsTheRuns ==
    ASSUME NEW b \in Publication, comments \in Seq(Comment)
    PROVE  /\ MarkedComment(b) \in Nat
           /\ MarkedComment(b) # 0 => /\ MarkedComment(b) \in DOMAIN comments
                                      /\ comments[MarkedComment(b)].run = b.run
           /\ MarkedComment(b) = 0 /\ Fits => CommentsOf(b.run) = {}
  <1> DEFINE marked == {i \in DOMAIN comments : i <= PageSize /\ HasMarker(comments[i], b)}
  <1>1. marked \subseteq Nat /\ marked \subseteq DOMAIN comments /\ 0 \notin marked
    OBVIOUS
  <1>2. marked # {} => \E i \in marked : \A j \in marked : i <= j
    BY <1>1, LeastOfNaturals
  <1>3. MarkedComment(b) = IF marked = {} THEN 0
                           ELSE CHOOSE i \in marked : \A j \in marked : i <= j
    BY DEF MarkedComment
  <1>4. CASE marked = {}
    <2>1. MarkedComment(b) = 0
      BY <1>3, <1>4
    <2>2. ASSUME Fits, NEW i \in DOMAIN comments PROVE comments[i].run # b.run
      BY <1>4, <2>2, PublicationAssumption DEF Fits, HasMarker
    <2> QED
      BY <2>1, <2>2 DEF CommentsOf
  <1>5. CASE marked # {}
    <2>1. MarkedComment(b) \in marked
      BY <1>2, <1>3, <1>5
    <2> QED
      BY <1>1, <2>1 DEF HasMarker
  <1> QED
    BY <1>4, <1>5

-----------------------------------------------------------------------------
(* Spec => []PInv                                                          *)

LEMMA InitPInv == Init => PInv
  <1> SUFFICES ASSUME Init PROVE PInv
    OBVIOUS
  <1>1. TypeOK
    BY PublicationAssumption
    DEF Init, LifecycleInit, TypeOK, Outcome, Execution, IdleWorker, Publication,
        NoPublication, Comment
  <1>2. \A w \in Workers : worker[w] = IdleWorker
    BY DEF Init
  <1>3. \A p \in Publishers : At(p, "idle")
    BY DEF Init, At, NoPublication
  <1>4. active = {}
    BY DEF Init, LifecycleInit
  <1> QED
    BY <1>1, <1>2, <1>3, <1>4
    DEF PInv, HoldersAreAlone, RowsAllowTheStep, RowAllows, PublicationsAreSound, IdleWorker

(* A worker that is idle or alive takes one step forward.                  *)
LEMMA AdvanceEffect ==
    ASSUME TypeOK, NEW w \in Workers, worker[w].pc \in DOMAIN NextPc,
           worker' = [worker EXCEPT ![w].pc = NextPc[@]]
    PROVE  /\ worker' \in [Workers -> Execution]
           /\ worker'[w] = [pc |-> NextPc[worker[w].pc], run |-> worker[w].run]
           /\ \A v \in Workers : v # w => worker'[v] = worker[v]
  <1>1. worker \in [Workers -> Execution]
    BY DEF TypeOK
  <1>2. NextPc[worker[w].pc] \in {"announce", "pipeline", "reread", "publish", "release"}
    BY DEF NextPc
  <1> QED
    BY <1>1, <1>2 DEF Execution

(* The end of a publication moves the worker on, and nobody else.          *)
LEMMA EndEffect ==
    ASSUME TypeOK, NEW p \in Publishers, EndPublication(p),
           p \in Workers => worker[p].pc \in {"announce", "publish"}
    PROVE  /\ publishing' \in [Publishers -> Publication]
           /\ publishing'[p] = NoPublication
           /\ \A q \in Publishers : q # p => publishing'[q] = publishing[q]
           /\ worker' \in [Workers -> Execution]
           /\ p \in Workers =>
                worker'[p] = [pc |-> IF worker[p].pc = "announce" THEN "pipeline" ELSE "release",
                              run |-> worker[p].run]
           /\ \A v \in Workers : v # p => worker'[v] = worker[v]
  <1>1. publishing \in [Publishers -> Publication] /\ worker \in [Workers -> Execution]
    BY DEF TypeOK
  <1>2. NoPublication \in Publication
    BY DEF NoPublication, Publication, Outcome
  <1>3. CASE p \in Workers
    <2>1. worker' = [worker EXCEPT ![p].pc = NextPc[@]]
      BY <1>3 DEF EndPublication
    <2>2. worker[p].pc \in DOMAIN NextPc /\ NextPc["announce"] = "pipeline"
          /\ NextPc["publish"] = "release"
      BY <1>3 DEF NextPc
    <2>3. publishing' = [publishing EXCEPT ![p] = NoPublication]
      BY DEF EndPublication
    <2>4. /\ worker' \in [Workers -> Execution]
          /\ worker'[p] = [pc |-> NextPc[worker[p].pc], run |-> worker[p].run]
          /\ \A v \in Workers : v # p => worker'[v] = worker[v]
      BY <1>3, <2>1, <2>2, AdvanceEffect, Zenon
    <2>5. NextPc[worker[p].pc] = IF worker[p].pc = "announce" THEN "pipeline" ELSE "release"
      BY <1>3, <2>2
    <2> QED
      BY <1>1, <1>2, <2>3, <2>4, <2>5
  <1>4. CASE p \notin Workers
    BY <1>1, <1>2, <1>4 DEF EndPublication
  <1> QED
    BY <1>3, <1>4

(* A publication stays sound as long as nobody touches it, its worker or   *)
(* the row that its worker holds, and comments only come.                  *)
LEMMA SoundStays ==
    ASSUME PublicationsAreSound, NEW q \in Publishers, ~At(q, "idle"),
           publishing'[q] = publishing[q],
           q \in Workers => worker'[q] = worker[q],
           outcome'[publishing[q].run] # "absent",
           q \in Workers => outcome'[publishing[q].run] = outcome[publishing[q].run],
           \A i \in DOMAIN comments : i \in DOMAIN comments'
               /\ (comments[i].run \in Runs => comments'[i].run = comments[i].run)
    PROVE  WellFormed(q, publishing[q])' /\ Located(publishing[q])'
  <1>1. WellFormed(q, publishing[q]) /\ Located(publishing[q])
    BY DEF PublicationsAreSound
  <1>2. WellFormed(q, publishing[q])'
    BY <1>1 DEF WellFormed, Announces
  <1>3. Located(publishing[q])'
    BY <1>1 DEF Located, WellFormed
  <1> QED
    BY <1>2, <1>3

(* A step of a worker w, between its publications, that leaves the others  *)
(* their runs as they are.                                                 *)
LEMMA MovePInv ==
    ASSUME PInv, NEW w \in Workers, At(w, "idle"), NEW e \in Execution,
           worker' = [worker EXCEPT ![w] = e],
           UNCHANGED <<publishing, github, strangers, clicks>>,
           executions' \in 0..MaxExecutions, failures' \in 0..MaxFailures, raced' \subseteq Runs,
           outcome' \in [Runs -> Outcome], active' \subseteq Runs,
           IF e.pc = "idle" THEN e = IdleWorker ELSE e.run \in active',
           \A v \in Workers : worker[v].pc # "idle" /\ v # w =>
               /\ worker[v].run # e.run /\ worker[v].run \in active'
               /\ outcome'[worker[v].run] = outcome[worker[v].run],
           RowAllows(e.pc, outcome'[e.run]),
           \A r \in Runs : outcome[r] # "absent" => outcome'[r] # "absent",
           \A r \in active' : outcome'[r] # "absent"
    PROVE  PInv'
  <1>t. TypeOK /\ HoldersAreAlone /\ RowsAllowTheStep /\ PublicationsAreSound
    BY DEF PInv
  <1>w. /\ worker' \in [Workers -> Execution] /\ worker'[w] = e
        /\ \A v \in Workers : v # w => worker'[v] = worker[v]
    BY <1>t DEF TypeOK
  <1>1. TypeOK'
    BY <1>t, <1>w DEF TypeOK, github
  <1>2. HoldersAreAlone'
    <2>1. \A v \in Workers : IF worker'[v].pc = "idle" THEN worker'[v] = IdleWorker
                                                       ELSE worker'[v].run \in active'
      BY <1>t, <1>w DEF HoldersAreAlone
    <2>2. ASSUME NEW v \in Workers, NEW u \in Workers, worker'[v].pc # "idle",
                 worker'[v].run = worker'[u].run
          PROVE  v = u
      <3>1. worker'[v].run \in Runs
        BY <2>1, <2>2
      <3>2. worker'[u].pc # "idle"
        BY <2>1, <2>2, <3>1, PublicationAssumption DEF IdleWorker
      <3> QED
        BY <1>t, <1>w, <2>2, <3>2 DEF HoldersAreAlone
    <2> QED
      BY <2>1, <2>2 DEF HoldersAreAlone
  <1>3. RowsAllowTheStep'
    <2> SUFFICES ASSUME NEW v \in Workers PROVE RowAllows(worker'[v].pc, outcome'[worker'[v].run])
      BY DEF RowsAllowTheStep, RowAllows
    <2>1. CASE v = w
      BY <1>w, <2>1
    <2>2. CASE v # w /\ worker[v].pc # "idle"
      BY <1>t, <1>w, <2>2 DEF RowsAllowTheStep
    <2>3. CASE v # w /\ worker[v].pc = "idle"
      BY <1>w, <2>3 DEF RowAllows
    <2> QED
      BY <2>1, <2>2, <2>3
  <1>4. PublicationsAreSound'
    <2> SUFFICES ASSUME NEW q \in Publishers, ~At(q, "idle")
                 PROVE  WellFormed(q, publishing[q])' /\ Located(publishing[q])'
      BY DEF PublicationsAreSound, At
    <2>1. WellFormed(q, publishing[q])
      BY <1>t DEF PublicationsAreSound
    <2>2. q # w
      OBVIOUS
    <2>3. q \in Workers => worker[q].pc # "idle" /\ publishing[q].run = worker[q].run
      BY <2>1 DEF WellFormed
    <2>4. /\ publishing'[q] = publishing[q]
          /\ q \in Workers => worker'[q] = worker[q]
          /\ outcome'[publishing[q].run] # "absent"
          /\ q \in Workers => outcome'[publishing[q].run] = outcome[publishing[q].run]
          /\ comments' = comments
      BY <1>w, <2>1, <2>2, <2>3 DEF WellFormed, github
    <2> QED
      BY <1>t, <2>4, SoundStays
  <1> QED
    BY <1>1, <1>2, <1>3, <1>4 DEF PInv

(* The publication p moves on, or ends, and writes something or nothing.   *)
LEMMA PublishPInv ==
    ASSUME PInv, NEW p \in Publishers, raced' \subseteq Runs,
           UNCHANGED <<lifecycleVars, strangers, executions>>,
           clicks' \in 0..MaxClicks, failures' \in 0..MaxFailures,
           publishing' \in [Publishers -> Publication],
           \A q \in Publishers : q # p => publishing'[q] = publishing[q],
           worker' \in [Workers -> Execution],
           \A v \in Workers : v # p => worker'[v] = worker[v],
           p \in Workers => /\ worker[p].pc # "idle" /\ worker'[p].pc # "idle"
                            /\ worker'[p].run = worker[p].run
                            /\ RowAllows(worker'[p].pc, outcome[worker[p].run]),
           comments' \in Seq(Comment),
           \A i \in DOMAIN comments : i \in DOMAIN comments'
               /\ (comments[i].run \in Runs => comments'[i].run = comments[i].run),
           status' \in [Runs -> {"none", "pending", "error", "success", "failure"}],
           publishing'[p].step # "idle" =>
               WellFormed(p, publishing[p])' /\ Located(publishing[p])'
    PROVE  PInv'
  <1>t. TypeOK /\ HoldersAreAlone /\ RowsAllowTheStep /\ PublicationsAreSound
    BY DEF PInv
  <1>u. outcome' = outcome /\ active' = active
    BY DEF lifecycleVars
  <1>1. TypeOK'
    BY <1>t, <1>u DEF TypeOK
  <1>w. \A v \in Workers : worker'[v].run = worker[v].run
                           /\ (worker'[v].pc = "idle" <=> worker[v].pc = "idle")
    OBVIOUS
  <1>2. HoldersAreAlone'
    <2>1. \A v \in Workers : IF worker'[v].pc = "idle" THEN worker'[v] = IdleWorker
                                                       ELSE worker'[v].run \in active'
      BY <1>t, <1>u DEF HoldersAreAlone
    <2> QED
      BY <1>t, <1>u, <1>w, <2>1 DEF HoldersAreAlone
  <1>3. RowsAllowTheStep'
    <2> SUFFICES ASSUME NEW v \in Workers PROVE RowAllows(worker'[v].pc, outcome'[worker'[v].run])
      BY DEF RowsAllowTheStep, RowAllows
    <2> QED
      BY <1>t, <1>u DEF RowsAllowTheStep
  <1>4. PublicationsAreSound'
    <2> SUFFICES ASSUME NEW q \in Publishers, ~At(q, "idle")'
                 PROVE  WellFormed(q, publishing[q])' /\ Located(publishing[q])'
      BY DEF PublicationsAreSound
    <2>1. CASE q = p
      BY <2>1 DEF At
    <2>2. CASE q # p
      <3>1. publishing'[q] = publishing[q] /\ ~At(q, "idle")
        BY <2>2 DEF At
      <3>2. outcome'[publishing[q].run] # "absent"
        BY <1>t, <1>u, <3>1 DEF PublicationsAreSound, WellFormed
      <3> QED
        BY <1>t, <1>u, <2>2, <3>1, <3>2, SoundStays
    <2> QED
      BY <2>1, <2>2
  <1> QED
    BY <1>1, <1>2, <1>3, <1>4 DEF PInv

LEMMA SetPc ==
    ASSUME TypeOK, NEW w \in Workers, NEW pc
    PROVE  [worker EXCEPT ![w].pc = pc] =
               [worker EXCEPT ![w] = [pc |-> pc, run |-> worker[w].run]]
  <1>1. worker[w] \in Execution
    BY DEF TypeOK
  <1>2. [worker[w] EXCEPT !.pc = pc] = [pc |-> pc, run |-> worker[w].run]
    BY <1>1 DEF Execution
  <1> QED
    BY <1>2

LEMMA WorkerPInv ==
    ASSUME PInv, NEW w \in Workers, raced' \subseteq Runs
    PROVE  /\ \A r \in Runs : TakeRun(w, r) => PInv'
           /\ StartRun(w) \/ DecideRun(w) \/ FailRun(w) \/ RereadRun(w) => PInv'
           /\ ReleaseRun(w) \/ GiveUpRun(w) => PInv'
  <1>t. /\ TypeOK /\ HoldersAreAlone /\ RowsAllowTheStep
        /\ outcome \in [Runs -> Outcome] /\ active \subseteq Runs
        /\ worker \in [Workers -> Execution] /\ worker[w] \in Execution
        /\ strangers \in 0..MaxStrangers /\ executions \in 0..MaxExecutions
        /\ clicks \in 0..MaxClicks /\ failures \in 0..MaxFailures
    BY DEF PInv, TypeOK
  <1>r. RowAllows(worker[w].pc, outcome[worker[w].run])
    BY <1>t DEF RowsAllowTheStep
  <1>h. worker[w].pc # "idle" =>
            /\ worker[w].run \in active
            /\ \A v \in Workers : worker[v].pc # "idle" /\ v # w =>
                  worker[v].run # worker[w].run
    BY <1>t DEF HoldersAreAlone
  <1>o. \A v \in Workers : worker[v].pc # "idle" => worker[v].run \in active
    BY <1>t DEF HoldersAreAlone
  <1>i. IdleWorker \in Execution /\ IdleWorker.pc = "idle" /\ IdleWorker.run = NoRun
    BY DEF IdleWorker, Execution
  <1>1. ASSUME NEW r \in Runs, TakeRun(w, r) PROVE PInv'
    <2> DEFINE e == [pc |-> "start", run |-> r]
    <2>1. /\ At(w, "idle") /\ r \notin active /\ outcome[r] # "absent"
          /\ active' = active \cup {r} /\ outcome' = outcome
          /\ worker' = [worker EXCEPT ![w] = e] /\ executions' \in 0..MaxExecutions
          /\ UNCHANGED <<publishing, github, strangers, clicks, failures>>
      BY <1>1, <1>t, PublicationAssumption DEF TakeRun, WorkerAt, Activate
    <2>2. e \in Execution /\ e.pc = "start" /\ e.run = r
      BY DEF Execution
    <2> HIDE DEF e
    <2>3. /\ active' \subseteq Runs /\ e.run \in active' /\ e.pc # "idle"
          /\ \A v \in Workers : worker[v].pc # "idle" /\ v # w =>
                /\ worker[v].run # e.run /\ worker[v].run \in active'
                /\ outcome'[worker[v].run] = outcome[worker[v].run]
          /\ RowAllows(e.pc, outcome'[e.run])
          /\ \A q \in active' : outcome'[q] # "absent"
      BY <1>t, <1>o, <2>1, <2>2 DEF RowAllows, HoldersAreAlone
    <2> QED
      BY <1>t, <2>1, <2>2, <2>3, MovePInv
  <1>w. ASSUME At(w, "idle"), worker[w].pc # "idle",
               NEW pc \in {"announce", "reread", "publish", "release"},
               NEW x \in Outcome \ {"absent"}, RowAllows(pc, x),
               outcome' = [outcome EXCEPT ![worker[w].run] = x], active' = active,
               worker' = [worker EXCEPT ![w] = [pc |-> pc, run |-> worker[w].run]],
               ExecutionOnly
        PROVE  PInv'
    <2> DEFINE e == [pc |-> pc, run |-> worker[w].run]
    <2>1. e \in Execution /\ e.pc = pc /\ e.run = worker[w].run /\ e.pc # "idle"
      BY <1>t DEF Execution
    <2>2. /\ UNCHANGED <<publishing, github, strangers, clicks>>
          /\ executions' \in 0..MaxExecutions /\ failures' \in 0..MaxFailures
      BY <1>w, <1>t DEF ExecutionOnly, counters
    <2>3. /\ outcome' \in [Runs -> Outcome] /\ outcome'[e.run] = x
          /\ \A r \in Runs : r # e.run => outcome'[r] = outcome[r]
      BY <1>t, <1>h, <1>w, <2>1
    <2> HIDE DEF e
    <2>4. /\ e.run \in active' /\ active' \subseteq Runs
          /\ \A v \in Workers : worker[v].pc # "idle" /\ v # w =>
                /\ worker[v].run # e.run /\ worker[v].run \in active'
                /\ outcome'[worker[v].run] = outcome[worker[v].run]
          /\ RowAllows(e.pc, outcome'[e.run])
          /\ \A r \in Runs : outcome[r] # "absent" => outcome'[r] # "absent"
          /\ \A r \in active' : outcome'[r] # "absent"
      BY <1>t, <1>h, <1>o, <1>w, <2>1, <2>3 DEF HoldersAreAlone
    <2>5. worker' = [worker EXCEPT ![w] = e]
      BY <1>w DEF e
    <2>6. At(w, "idle")
      BY <1>w
    <2> QED
      BY <2>1, <2>2, <2>3, <2>4, <2>5, <2>6, MovePInv
  <1>a. ASSUME worker[w].pc \in DOMAIN NextPc, Advance(w)
        PROVE  worker' = [worker EXCEPT ![w] = [pc |-> NextPc[worker[w].pc],
                                                run |-> worker[w].run]]
    BY <1>a, <1>t, SetPc DEF Advance
  <1>n. /\ NextPc["start"] = "announce" /\ NextPc["pipeline"] = "reread"
        /\ NextPc["reread"] = "publish"
        /\ {"start", "pipeline", "reread"} \subseteq DOMAIN NextPc
    BY DEF NextPc
  <1>2. CASE StartRun(w)
    <2>1. /\ At(w, "idle") /\ worker[w].pc = "start" /\ active' = active
          /\ outcome' = [outcome EXCEPT ![worker[w].run] = "running"]
          /\ Advance(w) /\ ExecutionOnly
      BY <1>2 DEF StartRun, WorkerAt, Start, Becomes
    <2> QED
      BY <1>a, <1>n, <1>w, <2>1 DEF Outcome, RowAllows
  <1>3. CASE DecideRun(w)
    <2>1. /\ At(w, "idle") /\ worker[w].pc = "pipeline" /\ active' = active
          /\ \E x \in Verdict : outcome' = [outcome EXCEPT ![worker[w].run] = x]
          /\ Advance(w) /\ ExecutionOnly
      BY <1>3 DEF DecideRun, WorkerAt, Conclude, Becomes
    <2> QED
      BY <1>a, <1>n, <1>w, <2>1 DEF Outcome, Verdict, RowAllows
  <1>4. CASE FailRun(w)
    <2>1. /\ At(w, "idle") /\ worker[w].pc \in {"pipeline", "reread"} /\ active' = active
          /\ outcome' = [outcome EXCEPT ![worker[w].run] = "error"]
          /\ worker' = [worker EXCEPT ![w].pc = "publish"] /\ ExecutionOnly
      BY <1>4 DEF FailRun, WorkerAt, Abort, Becomes
    <2>2. worker' = [worker EXCEPT ![w] = [pc |-> "publish", run |-> worker[w].run]]
      BY <1>t, <2>1, SetPc
    <2> QED
      BY <1>w, <2>1, <2>2 DEF Outcome, RowAllows, Publishable
  <1>5. CASE RereadRun(w)
    <2>1. /\ At(w, "idle") /\ worker[w].pc = "reread" /\ active' = active
          /\ outcome' = outcome /\ Advance(w) /\ ExecutionOnly
      BY <1>5 DEF RereadRun, WorkerAt, lifecycleVars
    <2>2. outcome' = [outcome EXCEPT ![worker[w].run] = outcome[worker[w].run]]
      BY <1>t, <1>h, <2>1
    <2>3. outcome[worker[w].run] \in Verdict
      BY <1>r, <2>1 DEF RowAllows
    <2> DEFINE x == outcome[worker[w].run]
    <2>4. x \in Outcome \ {"absent"} /\ RowAllows("publish", x)
      BY <2>3 DEF Outcome, Verdict, RowAllows, Publishable
    <2>5. worker' = [worker EXCEPT ![w] = [pc |-> "publish", run |-> worker[w].run]]
      BY <1>a, <1>n, <2>1
    <2>6. worker[w].pc # "idle"
      BY <2>1
    <2> HIDE DEF x
    <2>7. outcome' = [outcome EXCEPT ![worker[w].run] = x]
      BY <2>2 DEF x
    <2> QED
      BY <1>w, <2>1, <2>4, <2>5, <2>6, <2>7
  <1>6. CASE ReleaseRun(w) \/ GiveUpRun(w)
    <2>1. /\ At(w, "idle") /\ worker[w].pc # "idle" /\ active' = active \ {worker[w].run}
          /\ outcome' = outcome
          /\ worker' = [worker EXCEPT ![w] = IdleWorker]
          /\ UNCHANGED <<publishing, github, strangers, clicks, executions>>
          /\ failures' \in 0..MaxFailures
      BY <1>6, <1>t, PublicationAssumption
      DEF ReleaseRun, GiveUpRun, WorkerAt, Release, ExecutionOnly, Failure, counters
    <2>2. \A v \in Workers : worker[v].pc # "idle" /\ v # w =>
              worker[v].run # NoRun /\ worker[v].run \in active'
      BY <1>t, <1>h, <1>o, <2>1, PublicationAssumption
    <2> QED
      BY <1>t, <1>i, <2>1, <2>2, MovePInv DEF RowAllows, HoldersAreAlone
  <1> QED
    BY <1>1, <1>2, <1>3, <1>4, <1>5, <1>6

-----------------------------------------------------------------------------
(* What a step of a publication that is under way does, whatever the step  *)

(* It goes on with what it has read, or it ends and its worker moves on.   *)
GoesOn(p) ==
    /\ worker' = worker /\ failures' = failures
    /\ publishing'[p].step # "idle"
    /\ publishing'[p].run = publishing[p].run /\ publishing'[p].seen = publishing[p].seen
    /\ publishing'[p].todo = publishing[p].todo
Ends(p) ==
    /\ publishing'[p] = NoPublication
    /\ p \in Workers =>
         worker'[p] = [pc |-> IF worker[p].pc = "announce" THEN "pipeline" ELSE "release",
                       run |-> worker[p].run]

(* It writes the comment, or the status, or nothing.                       *)
Posts(p) == status' = [status EXCEPT ![publishing[p].run] = StateOf(publishing[p].seen)]
Writes(p) ==
    \/ UNCHANGED github
    \/ At(p, "write") /\ PutComment(publishing[p]) /\ UNCHANGED status
    \/ At(p, "post") /\ Posts(p) /\ UNCHANGED comments

OnlyOwn(p) ==
    /\ publishing' \in [Publishers -> Publication]
    /\ \A q \in Publishers : q # p => publishing'[q] = publishing[q]
    /\ worker' \in [Workers -> Execution]
    /\ \A v \in Workers : v # p => worker'[v] = worker[v]

CommentsGrow ==
    /\ comments' \in Seq(Comment) /\ Len(comments) <= Len(comments')
    /\ \A i \in DOMAIN comments : i \in DOMAIN comments'
         /\ (comments[i].run \in Runs => comments'[i].run = comments[i].run)

LEMMA ProgressEffect ==
    ASSUME PInv, NEW p \in Publishers, PublicationStep(p)
    PROVE  /\ ~At(p, "idle") /\ UNCHANGED <<lifecycleVars, strangers, executions, clicks>>
           /\ failures' \in 0..MaxFailures /\ (failures' = 0 => failures = 0)
           /\ OnlyOwn(p) /\ (GoesOn(p) \/ Ends(p)) /\ Writes(p) /\ CommentsGrow
           /\ status' \in [Runs -> {"none", "pending", "error", "success", "failure"}]
           /\ At(p, "write")' => Located(publishing[p])'
           /\ At(p, "find")' \/ At(p, "write")' => "comment" \in publishing[p].todo
           /\ At(p, "post")' => "status" \in publishing[p].todo
  <1> DEFINE b == publishing[p]
  <1>t. /\ TypeOK /\ publishing \in [Publishers -> Publication] /\ b \in Publication
        /\ worker \in [Workers -> Execution] /\ comments \in Seq(Comment)
        /\ status \in [Runs -> {"none", "pending", "error", "success", "failure"}]
        /\ failures \in 0..MaxFailures
    BY DEF PInv, TypeOK
  <1>s. ~At(p, "idle") => WellFormed(p, b) /\ Located(b)
    BY DEF PInv, PublicationsAreSound
  <1>k. comments' = comments => CommentsGrow
    BY <1>t DEF CommentsGrow
  <1>p. ASSUME At(p, "write"), PutComment(b) PROVE CommentsGrow
    <2>1. Located(b) /\ b.step = "write"
      BY <1>p, <1>s DEF At
    <2> HIDE DEF b
    <2>2. \/ b.found = 0
          \/ b.found \in DOMAIN comments /\ comments[b.found].run = b.run
      BY <2>1 DEF Located
    <2>3. /\ comments' \in Seq(Comment) /\ Len(comments) <= Len(comments')
          /\ comments'[PutAt(b)] = [run |-> b.run, body |-> b.seen]
          /\ \A i \in DOMAIN comments' : i # PutAt(b) => comments'[i] = comments[i]
          /\ \A i \in DOMAIN comments : i \in DOMAIN comments'
      BY <1>p, <1>t, <2>2, PutEffect
    <2>4. ASSUME NEW i \in DOMAIN comments PROVE comments'[i].run = comments[i].run
      <3>1. CASE i = PutAt(b)
        <4>1. i = b.found
          BY <1>t, <3>1 DEF PutAt
        <4>2. i # 0
          BY <1>t
        <4> QED
          BY <2>2, <2>3, <3>1, <4>1, <4>2
      <3>2. CASE i # PutAt(b)
        BY <2>3, <3>2
      <3> QED
        BY <3>1, <3>2
    <2> QED
      BY <2>3, <2>4 DEF CommentsGrow
  <1>e. ASSUME ~At(p, "idle"), EndPublication(p)
        PROVE  OnlyOwn(p) /\ Ends(p) /\ publishing'[p].step = "idle"
    <2>1. p \in Workers => worker[p].pc \in {"announce", "publish"}
      BY <1>e, <1>s DEF WellFormed
    <2>2. OnlyOwn(p) /\ Ends(p)
      BY <1>e, <1>t, <2>1, EndEffect DEF OnlyOwn, Ends
    <2> QED
      BY <2>2 DEF Ends, NoPublication
  <1>g. ASSUME NEW step \in {"token", "find", "write", "post"}, Goto(p, step),
               failures' = failures
        PROVE  /\ OnlyOwn(p) /\ GoesOn(p)
               /\ publishing'[p].step = step /\ publishing'[p].found = b.found
    BY <1>g, <1>t DEF Goto, OnlyOwn, GoesOn, Publication
  <1>o. ASSUME At(p, "post"), Posts(p)
        PROVE  status' \in [Runs -> {"none", "pending", "error", "success", "failure"}]
    <2>1. StateOf(b.seen) \in {"none", "pending", "error", "success", "failure"}
      BY DEF StateOf
    <2> QED
      BY <1>o, <1>t, <2>1 DEF Posts
  <1>1. CASE GetClient(p)
    <2>1. ~At(p, "idle") /\ b.todo # {} /\ b.todo \subseteq {"comment", "status"}
      BY <1>1, <1>s, <1>t DEF GetClient, At, WellFormed, Publication
    <2>2. /\ Goto(p, IF "comment" \in b.todo THEN "find" ELSE "post")
          /\ UNCHANGED <<lifecycleVars, github, counters>>
      BY <1>1 DEF GetClient
    <2>3. /\ OnlyOwn(p) /\ GoesOn(p)
          /\ publishing'[p].step = (IF "comment" \in b.todo THEN "find" ELSE "post")
      BY <1>g, <2>2 DEF counters
    <2> QED
      BY <1>k, <1>t, <2>1, <2>2, <2>3 DEF At, Writes, github, counters
  <1>2. CASE FindComment(p)
    <2>1. ~At(p, "idle") /\ "comment" \in b.todo
      BY <1>2, <1>s DEF FindComment, At, WellFormed
    <2>2. /\ publishing' = [publishing EXCEPT ![p].step = "write",
                                              ![p].found = MarkedComment(b)]
          /\ UNCHANGED <<lifecycleVars, worker, github, counters>>
      BY <1>2 DEF FindComment
    <2>3. /\ MarkedComment(b) \in Nat
          /\ MarkedComment(b) # 0 => /\ MarkedComment(b) \in DOMAIN comments
                                     /\ comments[MarkedComment(b)].run = b.run
      BY <1>t, MarkedCommentIsTheRuns
    <2>4. /\ publishing' \in [Publishers -> Publication]
          /\ publishing'[p].step = "write" /\ publishing'[p].found = MarkedComment(b)
          /\ publishing'[p].run = b.run /\ publishing'[p].seen = b.seen
          /\ publishing'[p].todo = b.todo
          /\ \A q \in Publishers : q # p => publishing'[q] = publishing[q]
      BY <1>t, <2>2, <2>3 DEF Publication
    <2>5. Located(publishing[p])'
      BY <2>2, <2>3, <2>4 DEF Located, github
    <2> QED
      BY <1>k, <1>t, <2>1, <2>2, <2>4, <2>5
      DEF At, Writes, OnlyOwn, GoesOn, github, counters
  <1>3. CASE WriteComment(p)
    <2>1. ~At(p, "idle") /\ At(p, "write")
      BY <1>3 DEF WriteComment, At
    <2>2. /\ PutComment(b) /\ status' = status /\ UNCHANGED <<lifecycleVars, counters>>
          /\ IF "status" \in b.todo THEN Goto(p, "post") ELSE EndPublication(p)
      BY <1>3 DEF WriteComment
    <2>3. /\ OnlyOwn(p) /\ (GoesOn(p) \/ Ends(p))
          /\ publishing'[p].step = IF "status" \in b.todo THEN "post" ELSE "idle"
      BY <1>e, <1>g, <2>1, <2>2 DEF counters
    <2>4. CommentsGrow
      BY <1>p, <2>1, <2>2
    <2> QED
      BY <1>t, <2>1, <2>2, <2>3, <2>4 DEF At, Writes, counters
  <1>4. CASE PostStatus(p)
    <2>1. ~At(p, "idle") /\ At(p, "post")
      BY <1>4 DEF PostStatus, At
    <2>2. /\ Posts(p) /\ EndPublication(p) /\ UNCHANGED <<lifecycleVars, comments, counters>>
      BY <1>4 DEF PostStatus, Posts
    <2> QED
      BY <1>e, <1>k, <1>o, <1>t, <2>1, <2>2 DEF At, Writes, counters
  <1>5. CASE CallFails(p)
    <2>1. /\ ~At(p, "idle") /\ EndPublication(p) /\ UNCHANGED lifecycleVars
          /\ failures < MaxFailures /\ failures' = failures + 1
          /\ UNCHANGED <<strangers, executions, clicks>>
      BY <1>5 DEF CallFails, Failure
    <2>2. failures' \in 0..MaxFailures /\ failures' # 0
      BY <1>t, <2>1, PublicationAssumption
    <2>3. Writes(p)
      BY <1>5 DEF CallFails, Writes, Posts
    <2>4. CommentsGrow
      BY <1>k, <1>p, <2>3 DEF Writes, github
    <2>5. status' \in [Runs -> {"none", "pending", "error", "success", "failure"}]
      BY <1>o, <1>t, <2>3 DEF Writes, github
    <2> QED
      BY <1>e, <2>1, <2>2, <2>3, <2>4, <2>5 DEF At
  <1> QED
    BY <1>1, <1>2, <1>3, <1>4, <1>5 DEF PublicationStep

(* A publication begins with the row as it is, unless nothing is to be     *)
(* published.                                                              *)
Begins(p, r, announcing) ==
    /\ worker' = worker
    /\ Channels(announcing, outcome[r]) # {}
    /\ publishing'[p] = [step |-> "token", run |-> r, seen |-> outcome[r],
                         todo |-> Channels(announcing, outcome[r]), found |-> 0]

LEMMA BeginEffect ==
    ASSUME PInv, NEW p \in Publishers, NEW r \in Runs, NEW announcing \in BOOLEAN,
           p \in Workers => worker[p].pc \in {"announce", "publish"},
           BeginPublication(p, r, announcing)
    PROVE  /\ At(p, "idle") /\ OnlyOwn(p)
           /\ UNCHANGED <<lifecycleVars, github, strangers, executions, failures>>
           /\ \/ Begins(p, r, announcing)
              \/ Ends(p) /\ Channels(announcing, outcome[r]) = {}
  <1> DEFINE todo == Channels(announcing, outcome[r])
             b == [step |-> "token", run |-> r, seen |-> outcome[r],
                   todo |-> todo, found |-> 0]
  <1>t. /\ TypeOK /\ publishing \in [Publishers -> Publication]
        /\ worker \in [Workers -> Execution] /\ outcome \in [Runs -> Outcome]
    BY DEF PInv, TypeOK
  <1>1. At(p, "idle") /\ UNCHANGED <<lifecycleVars, github, strangers, executions, failures>>
    BY DEF BeginPublication
  <1>2. CASE todo = {}
    <2>1. EndPublication(p)
      BY <1>2 DEF BeginPublication
    <2> QED
      BY <1>1, <1>2, <1>t, <2>1, EndEffect DEF OnlyOwn, Ends
  <1>3. CASE todo # {}
    <2>1. publishing' = [publishing EXCEPT ![p] = b] /\ worker' = worker
      BY <1>3 DEF BeginPublication
    <2>2. todo \subseteq {"comment", "status"}
      BY PublicationAssumption DEF Channels
    <2>3. b \in Publication
      BY <1>t, <2>2 DEF Publication
    <2> QED
      BY <1>1, <1>3, <1>t, <2>1, <2>3 DEF OnlyOwn, Begins
  <1> QED
    BY <1>2, <1>3

(* A begun publication is well formed.                                     *)
LEMMA BegunIsWellFormed ==
    ASSUME PInv, NEW p \in Publishers, NEW r \in Runs, NEW announcing \in BOOLEAN,
           outcome[r] # "absent", announcing => p \in Workers,
           p \in Workers => /\ worker[p].pc = IF announcing THEN "announce" ELSE "publish"
                            /\ worker[p].run = r,
           Begins(p, r, announcing), UNCHANGED lifecycleVars
    PROVE  WellFormed(p, publishing[p])' /\ Located(publishing[p])'
  <1>1. outcome' = outcome
    BY DEF lifecycleVars
  <1>2. Announces(p)' <=> announcing
    BY DEF Announces, Begins
  <1>3. CASE announcing
    <2>1. outcome[r] = "running" /\ Enabled \ {"comment"} # {}
      BY <1>3 DEF Begins, Channels
    <2>2. Channels(announcing, outcome[r]) = {"status"}
      BY <1>3, <2>1, PublicationAssumption DEF Channels
    <2>3. p \in Workers /\ worker[p].pc = "announce" /\ worker[p].run = r
      BY <1>3
    <2>4. /\ worker' = worker /\ publishing'[p] = [step |-> "token", run |-> r,
               seen |-> "running", todo |-> {"status"}, found |-> 0]
      BY <2>1, <2>2 DEF Begins
    <2> QED
      BY <1>1, <1>2, <1>3, <2>1, <2>3, <2>4 DEF WellFormed, Located
  <1>4. CASE ~announcing
    <2>1. outcome[r] \in Publishable /\ Channels(announcing, outcome[r]) = Enabled
      BY <1>4 DEF Begins, Channels
    <2> QED
      BY <1>1, <1>2, <1>4, <2>1 DEF Begins, WellFormed, Located
  <1> QED
    BY <1>3, <1>4

LEMMA BeginPInv ==
    ASSUME PInv, NEW p \in Publishers, NEW r \in Runs, NEW announcing \in BOOLEAN,
           outcome[r] # "absent", announcing => p \in Workers,
           p \in Workers => /\ worker[p].pc = IF announcing THEN "announce" ELSE "publish"
                            /\ worker[p].run = r,
           BeginPublication(p, r, announcing),
           clicks' \in 0..MaxClicks, raced' \subseteq Runs
    PROVE  PInv'
  <1>t. TypeOK /\ RowsAllowTheStep
    BY DEF PInv
  <1>1. /\ OnlyOwn(p)
        /\ UNCHANGED <<lifecycleVars, github, strangers, executions, failures>>
        /\ Begins(p, r, announcing) \/ (Ends(p) /\ Channels(announcing, outcome[r]) = {})
    BY BeginEffect
  <1>2. /\ publishing' \in [Publishers -> Publication] /\ worker' \in [Workers -> Execution]
        /\ \A q \in Publishers : q # p => publishing'[q] = publishing[q]
        /\ \A v \in Workers : v # p => worker'[v] = worker[v]
    BY <1>1 DEF OnlyOwn
  <1>3. p \in Workers => /\ worker[p].pc # "idle" /\ worker'[p].pc # "idle"
                         /\ worker'[p].run = worker[p].run
                         /\ RowAllows(worker'[p].pc, outcome[worker[p].run])
    <2> SUFFICES ASSUME p \in Workers
                 PROVE  /\ worker[p].pc # "idle" /\ worker'[p].pc # "idle"
                        /\ worker'[p].run = worker[p].run
                        /\ RowAllows(worker'[p].pc, outcome[worker[p].run])
      OBVIOUS
    <2>1. RowAllows(worker[p].pc, outcome[worker[p].run])
      BY <1>t DEF RowsAllowTheStep
    <2> QED
      BY <1>1, <2>1 DEF Begins, Ends, RowAllows
  <1>4. publishing'[p].step # "idle" => WellFormed(p, publishing[p])' /\ Located(publishing[p])'
    <2>1. Ends(p) => publishing'[p].step = "idle"
      BY DEF Ends, NoPublication
    <2> QED
      BY <1>1, <2>1, BegunIsWellFormed
  <1>5. /\ comments' = comments /\ status' = status /\ comments \in Seq(Comment)
        /\ status \in [Runs -> {"none", "pending", "error", "success", "failure"}]
        /\ failures' \in 0..MaxFailures
        /\ UNCHANGED <<lifecycleVars, strangers, executions>>
    BY <1>1, <1>t DEF TypeOK, github
  <1> QED
    BY <1>2, <1>3, <1>4, <1>5, PublishPInv

LEMMA ProgressPInv ==
    ASSUME PInv, NEW p \in Publishers, PublicationStep(p), raced' \subseteq Runs
    PROVE  PInv'
  <1>t. TypeOK /\ RowsAllowTheStep /\ PublicationsAreSound
    BY DEF PInv
  <1>1. /\ ~At(p, "idle") /\ UNCHANGED <<lifecycleVars, strangers, executions, clicks>>
        /\ failures' \in 0..MaxFailures
        /\ OnlyOwn(p) /\ (GoesOn(p) \/ Ends(p)) /\ CommentsGrow
        /\ status' \in [Runs -> {"none", "pending", "error", "success", "failure"}]
        /\ At(p, "write")' => Located(publishing[p])'
        /\ At(p, "find")' \/ At(p, "write")' => "comment" \in publishing[p].todo
        /\ At(p, "post")' => "status" \in publishing[p].todo
    BY ProgressEffect
  <1>b. WellFormed(p, publishing[p])
    BY <1>1, <1>t DEF PublicationsAreSound
  <1>2. p \in Workers => /\ worker[p].pc # "idle" /\ worker'[p].pc # "idle"
                         /\ worker'[p].run = worker[p].run
                         /\ RowAllows(worker'[p].pc, outcome[worker[p].run])
    <2> SUFFICES ASSUME p \in Workers
                 PROVE  /\ worker[p].pc # "idle" /\ worker'[p].pc # "idle"
                        /\ worker'[p].run = worker[p].run
                        /\ RowAllows(worker'[p].pc, outcome[worker[p].run])
      OBVIOUS
    <2>1. RowAllows(worker[p].pc, outcome[worker[p].run])
          /\ worker[p].pc \in {"announce", "publish"}
      BY <1>b, <1>t DEF RowsAllowTheStep, WellFormed
    <2> QED
      BY <1>1, <2>1 DEF GoesOn, Ends, RowAllows
  <1>3. publishing'[p].step # "idle" => WellFormed(p, publishing[p])' /\ Located(publishing[p])'
    <2> SUFFICES ASSUME publishing'[p].step # "idle"
                 PROVE  WellFormed(p, publishing[p])' /\ Located(publishing[p])'
      OBVIOUS
    <2>1. GoesOn(p)
      BY <1>1 DEF Ends, NoPublication
    <2>2. outcome' = outcome
      BY <1>1 DEF lifecycleVars
    <2>3. WellFormed(p, publishing[p])'
      BY <1>1, <1>b, <2>1, <2>2 DEF GoesOn, WellFormed, Announces, At
    <2>4. Located(publishing[p])'
      BY <1>1 DEF At, Located
    <2> QED
      BY <2>3, <2>4
  <1>4. clicks' \in 0..MaxClicks
    BY <1>1, <1>t DEF TypeOK
  <1> QED
    BY <1>1, <1>2, <1>3, <1>4, PublishPInv DEF OnlyOwn, CommentsGrow

LEMMA KillPInv ==
    ASSUME PInv, NEW w \in Workers, KillWorker(w), raced' \subseteq Runs
    PROVE  PInv'
  <1>t. /\ TypeOK /\ HoldersAreAlone /\ RowsAllowTheStep /\ PublicationsAreSound
        /\ w \in Publishers
    BY DEF PInv, Publishers
  <1>1. /\ worker' = [worker EXCEPT ![w] = IdleWorker]
        /\ publishing' = [publishing EXCEPT ![w] = NoPublication]
        /\ UNCHANGED <<lifecycleVars, github, strangers, executions, clicks>>
        /\ failures < MaxFailures /\ failures' = failures + 1
    BY DEF KillWorker, Failure
  <1>2. /\ NoPublication \in Publication /\ NoPublication.step = "idle"
        /\ IdleWorker \in Execution /\ IdleWorker.pc = "idle" /\ IdleWorker.run = NoRun
    BY DEF NoPublication, Publication, Outcome, IdleWorker, Execution
  <1>3. /\ outcome' = outcome /\ active' = active /\ comments' = comments /\ status' = status
        /\ worker' \in [Workers -> Execution] /\ worker'[w] = IdleWorker
        /\ \A v \in Workers : v # w => worker'[v] = worker[v]
        /\ publishing' \in [Publishers -> Publication] /\ publishing'[w] = NoPublication
        /\ \A q \in Publishers : q # w => publishing'[q] = publishing[q]
        /\ failures' \in 0..MaxFailures
    BY <1>t, <1>1, <1>2, PublicationAssumption DEF TypeOK, lifecycleVars, github
  <1>4. TypeOK'
    BY <1>t, <1>1, <1>3 DEF TypeOK
  <1>5. HoldersAreAlone'
    <2>1. \A v \in Workers : IF worker'[v].pc = "idle" THEN worker'[v] = IdleWorker
                                                       ELSE worker'[v].run \in active'
      BY <1>t, <1>2, <1>3 DEF HoldersAreAlone
    <2>2. \A v \in Workers : worker'[v].pc # "idle" => worker'[v].run \in Runs
      BY <1>t, <1>3, <2>1 DEF TypeOK
    <2> QED
      BY <1>t, <1>2, <1>3, <2>1, <2>2, PublicationAssumption DEF HoldersAreAlone
  <1>6. RowsAllowTheStep'
    <2> SUFFICES ASSUME NEW v \in Workers PROVE RowAllows(worker'[v].pc, outcome'[worker'[v].run])
      BY DEF RowsAllowTheStep, RowAllows
    <2>1. CASE v = w
      BY <1>2, <1>3, <2>1 DEF RowAllows
    <2>2. CASE v # w
      BY <1>t, <1>3, <2>2 DEF RowsAllowTheStep
    <2> QED
      BY <2>1, <2>2
  <1>7. PublicationsAreSound'
    <2> SUFFICES ASSUME NEW q \in Publishers, ~At(q, "idle")'
                 PROVE  WellFormed(q, publishing[q])' /\ Located(publishing[q])'
      BY DEF PublicationsAreSound
    <2>1. q # w /\ publishing'[q] = publishing[q] /\ ~At(q, "idle")
      BY <1>2, <1>3 DEF At
    <2>2. outcome'[publishing[q].run] # "absent"
      BY <1>t, <1>3, <2>1 DEF PublicationsAreSound, WellFormed
    <2> QED
      BY <1>t, <1>3, <2>1, <2>2, SoundStays
  <1> QED
    BY <1>4, <1>5, <1>6, <1>7 DEF PInv

(* Accepting a run and a stranger's comment concern nobody who is at work. *)
LEMMA OthersPInv ==
    ASSUME PInv, raced' \subseteq Runs
    PROVE  /\ \A r \in Runs : AcceptRun(r) => PInv'
           /\ StrangerComments => PInv'
           /\ UNCHANGED vars => PInv'
  <1>t. /\ TypeOK /\ HoldersAreAlone /\ RowsAllowTheStep /\ PublicationsAreSound
        /\ strangers \in 0..MaxStrangers
    BY DEF PInv, TypeOK
  <1>s. ASSUME UNCHANGED <<worker, publishing>>, outcome' = outcome, CommentsGrow
        PROVE  PublicationsAreSound'
    <2> SUFFICES ASSUME NEW q \in Publishers, ~At(q, "idle")
                 PROVE  WellFormed(q, publishing[q])' /\ Located(publishing[q])'
      BY <1>s DEF PublicationsAreSound, At
    <2>1. outcome'[publishing[q].run] # "absent"
      BY <1>s, <1>t DEF PublicationsAreSound, WellFormed
    <2> QED
      BY <1>s, <1>t, <2>1, SoundStays DEF CommentsGrow
  <1>1. ASSUME NEW r \in Runs, AcceptRun(r) PROVE PInv'
    <2>1. PICK first \in {"pending", "error"} : outcome' = [outcome EXCEPT ![r] = first]
      BY <1>1 DEF AcceptRun, Accept, Becomes
    <2>2. /\ outcome[r] = "absent" /\ active' = active
          /\ UNCHANGED <<worker, publishing, github, counters>>
      BY <1>1 DEF AcceptRun, Accept, Becomes
    <2>3. /\ outcome' \in [Runs -> Outcome] /\ outcome'[r] # "absent"
          /\ \A s \in Runs : s # r => outcome'[s] = outcome[s]
          /\ \A s \in active : s # r
          /\ comments' = comments
      BY <1>t, <2>1, <2>2 DEF TypeOK, Outcome, HoldersAreAlone, github
    <2>4. TypeOK'
      BY <1>t, <2>2, <2>3 DEF TypeOK, github, counters
    <2>5. HoldersAreAlone'
      BY <1>t, <2>2, <2>3 DEF HoldersAreAlone, TypeOK
    <2>6. RowsAllowTheStep'
      <3> SUFFICES ASSUME NEW v \in Workers
                   PROVE  RowAllows(worker'[v].pc, outcome'[worker'[v].run])
        BY DEF RowsAllowTheStep, RowAllows
      <3>1. worker[v].pc # "idle" => outcome'[worker[v].run] = outcome[worker[v].run]
        BY <1>t, <2>3 DEF HoldersAreAlone, TypeOK
      <3> QED
        BY <1>t, <2>2, <3>1 DEF RowsAllowTheStep, RowAllows
    <2>7. PublicationsAreSound'
      <3> SUFFICES ASSUME NEW q \in Publishers, ~At(q, "idle")
                   PROVE  WellFormed(q, publishing[q])' /\ Located(publishing[q])'
        BY <2>2 DEF PublicationsAreSound, At
      <3>1. /\ outcome'[publishing[q].run] = outcome[publishing[q].run]
            /\ outcome[publishing[q].run] # "absent"
        BY <1>t, <2>2, <2>3 DEF PublicationsAreSound, WellFormed
      <3> QED
        BY <1>t, <2>2, <2>3, <3>1, SoundStays
    <2> QED
      BY <2>4, <2>5, <2>6, <2>7 DEF PInv
  <1>2. CASE StrangerComments
    <2>1. /\ UNCHANGED <<lifecycleVars, worker, publishing, status, executions, clicks, failures>>
          /\ strangers' \in 0..MaxStrangers
      BY <1>2, <1>t, PublicationAssumption DEF StrangerComments
    <2>2. outcome' = outcome /\ active' = active
      BY <2>1 DEF lifecycleVars
    <2>3. CommentsGrow
      BY <1>2, <1>t, StrangerEffect DEF CommentsGrow
    <2>4. TypeOK'
      BY <1>t, <2>1, <2>2, <2>3 DEF TypeOK, CommentsGrow
    <2>5. HoldersAreAlone' /\ RowsAllowTheStep'
      BY <1>t, <2>1, <2>2 DEF HoldersAreAlone, RowsAllowTheStep, RowAllows
    <2> QED
      BY <1>s, <2>1, <2>2, <2>3, <2>4, <2>5 DEF PInv
  <1>3. CASE UNCHANGED vars
    <2>1. /\ UNCHANGED <<outcome, active, worker, publishing, comments, status,
                         strangers, executions, clicks, failures>>
      BY <1>3 DEF vars, lifecycleVars, github, counters
    <2>2. TypeOK' /\ HoldersAreAlone' /\ RowsAllowTheStep' /\ CommentsGrow
      BY <1>t, <2>1
      DEF TypeOK, HoldersAreAlone, RowsAllowTheStep, RowAllows, CommentsGrow
    <2> QED
      BY <1>s, <2>1, <2>2 DEF PInv
  <1> QED
    BY <1>1, <1>2, <1>3

(* A worker publishes its own run, announced first and then as it ended;   *)
(* an administrator publishes any run that exists.                         *)
LEMMA Beginnings ==
    ASSUME PInv
    PROVE  /\ \A w \in Workers :
                /\ Announce(w) => /\ worker[w].pc = "announce" /\ clicks' = clicks
                                  /\ BeginPublication(w, worker[w].run, TRUE)
                                  /\ outcome[worker[w].run] # "absent"
                                  /\ worker[w].run \in Runs
                /\ Publish(w) => /\ worker[w].pc = "publish" /\ clicks' = clicks
                                 /\ BeginPublication(w, worker[w].run, FALSE)
                                 /\ outcome[worker[w].run] # "absent"
                                 /\ worker[w].run \in Runs
           /\ \A a \in Admins, r \in Runs :
                Republish(a, r) => /\ BeginPublication(a, r, FALSE)
                                   /\ outcome[r] # "absent" /\ a \notin Workers
                                   /\ clicks' = clicks + 1 /\ clicks' \in 0..MaxClicks
                                   /\ clicks' # 0
  <1>t. TypeOK /\ HoldersAreAlone
    BY DEF PInv
  <1>1. \A w \in Workers : worker[w].pc # "idle" =>
            worker[w].run \in Runs /\ outcome[worker[w].run] # "absent"
    BY <1>t DEF TypeOK, HoldersAreAlone
  <1>2. \A w \in Workers : (Announce(w) => worker[w].pc = "announce")
                           /\ (Publish(w) => worker[w].pc = "publish")
    BY DEF Announce, Publish, WorkerAt
  <1>3. ASSUME NEW a \in Admins, NEW r \in Runs, Republish(a, r)
        PROVE  /\ BeginPublication(a, r, FALSE)
               /\ outcome[r] # "absent" /\ a \notin Workers
               /\ clicks' = clicks + 1 /\ clicks' \in 0..MaxClicks
               /\ clicks' # 0
    <2>1. clicks \in Nat /\ clicks < MaxClicks /\ clicks' = clicks + 1 /\ MaxClicks \in Nat
      BY <1>3, <1>t, PublicationAssumption DEF Republish, TypeOK
    <2>2. clicks' \in 0..MaxClicks /\ clicks' # 0
      BY <2>1
    <2>3. BeginPublication(a, r, FALSE) /\ outcome[r] # "absent" /\ a \notin Workers
      BY <1>3, PublicationAssumption DEF Republish
    <2> QED
      BY <2>1, <2>2, <2>3
  <1> QED
    BY <1>1, <1>2, <1>3 DEF Announce, Publish

LEMMA NextPInv == PInv /\ [Next]_vars => PInv'
  <1> SUFFICES ASSUME PInv, [Next]_vars PROVE PInv'
    OBVIOUS
  <1>r. raced' \subseteq Runs
    <2>1. raced \subseteq Runs
      BY DEF PInv, TypeOK
    <2> QED
      BY <2>1 DEF Next, vars
  <1>c. clicks \in 0..MaxClicks
    BY DEF PInv, TypeOK
  <1>1. ASSUME NEW r \in Runs, AcceptRun(r) PROVE PInv'
    BY <1>1, <1>r, OthersPInv
  <1>2. ASSUME NEW w \in Workers, WorkerStep(w) PROVE PInv'
    <2>1. CASE Announce(w)
      <3>1. BeginPublication(w, worker[w].run, TRUE)
        BY <2>1, Beginnings
      <3> QED
        BY <1>c, <1>r, <2>1, <3>1, Beginnings, BeginPInv DEF Publishers
    <2>2. CASE Publish(w)
      <3>1. BeginPublication(w, worker[w].run, FALSE)
        BY <2>2, Beginnings
      <3> QED
        BY <1>c, <1>r, <2>2, <3>1, Beginnings, BeginPInv DEF Publishers
    <2>3. CASE PublicationStep(w)
      BY <1>r, <2>3, ProgressPInv DEF Publishers
    <2>4. CASE StartRun(w) \/ DecideRun(w) \/ FailRun(w) \/ RereadRun(w)
      BY <1>r, <2>4, WorkerPInv
    <2>5. CASE ReleaseRun(w) \/ GiveUpRun(w)
      BY <1>r, <2>5, WorkerPInv
    <2> QED
      BY <1>2, <2>1, <2>2, <2>3, <2>4, <2>5 DEF WorkerStep
  <1>3. ASSUME NEW w \in Workers, KillWorker(w) PROVE PInv'
    BY <1>3, <1>r, KillPInv
  <1>4. ASSUME NEW w \in Workers, NEW r \in Runs, TakeRun(w, r) PROVE PInv'
    BY <1>4, <1>r, WorkerPInv
  <1>5. ASSUME NEW a \in Admins, PublicationStep(a) PROVE PInv'
    BY <1>5, <1>r, ProgressPInv DEF Publishers
  <1>6. ASSUME NEW a \in Admins, NEW r \in Runs, Republish(a, r) PROVE PInv'
    BY <1>6, <1>r, Beginnings, BeginPInv DEF Publishers
  <1>7. CASE StrangerComments
    BY <1>7, <1>r, OthersPInv
  <1>8. CASE UNCHANGED vars
    BY <1>8, <1>r, OthersPInv
  <1> QED
    BY <1>1, <1>2, <1>3, <1>4, <1>5, <1>6, <1>7, <1>8 DEF Next, Step

(* Every state has the types that the model declares.                      *)
THEOREM TypeCorrect == Spec => []TypeOK
  <1>1. PInv => TypeOK
    BY DEF PInv
  <1> QED
    BY <1>1, InitPInv, NextPInv, PTL DEF Spec

-----------------------------------------------------------------------------
(* What a step leaves of a run's comments and status                       *)

(* The comments of the run r after the step.                               *)
After(r) == {i \in DOMAIN comments' : comments'[i].run = r}

(* Nothing about r is written.                                             *)
SameShown(r) ==
    /\ status'[r] = status[r]
    /\ After(r) = CommentsOf(r)
    /\ \A i \in CommentsOf(r) : comments'[i] = comments[i]

(* What the publication b has read is written: the status, a comment, or   *)
(* nothing.                                                                *)
Rewritten(r, seen) ==
    /\ status'[r] \in {status[r], StateOf(seen)}
    /\ CommentsOf(r) \subseteq After(r)
    /\ \A i \in After(r) :
         \/ comments'[i].body = seen
         \/ i \in CommentsOf(r) /\ comments'[i] = comments[i]

LEMMA UnchangedIsSame == ASSUME UNCHANGED github, NEW r PROVE SameShown(r)
  BY DEF github, SameShown, CommentsOf, After

LEMMA StrangerIsSame ==
    ASSUME TypeOK, StrangerComments, NEW r \in Runs PROVE SameShown(r)
  <1>1. status' = status
    BY DEF StrangerComments
  <1>2. After(r) = CommentsOf(r) /\ \A i \in CommentsOf(r) : comments'[i] = comments[i]
    BY StrangerEffect, PublicationAssumption DEF CommentsOf, After
  <1> QED
    BY <1>1, <1>2 DEF SameShown

LEMMA WritesEffect ==
    ASSUME PInv, NEW p \in Publishers, ~At(p, "idle"), Writes(p)
    PROVE  /\ \A r \in Runs : r # publishing[p].run => SameShown(r)
           /\ Rewritten(publishing[p].run, publishing[p].seen)
           /\ At(p, "write") /\ PutComment(publishing[p]) =>
                /\ PutAt(publishing[p]) \in After(publishing[p].run)
                /\ comments'[PutAt(publishing[p])].body = publishing[p].seen
                /\ \A i \in After(publishing[p].run) :
                      i # PutAt(publishing[p]) => i \in CommentsOf(publishing[p].run)
  <1> DEFINE b == publishing[p]
  <1>t. /\ b \in Publication /\ comments \in Seq(Comment)
        /\ status \in [Runs -> {"none", "pending", "error", "success", "failure"}]
        /\ b.run \in Runs /\ Located(b)
    BY DEF PInv, TypeOK, PublicationsAreSound, WellFormed
  <1> HIDE DEF b
  <1>1. CASE UNCHANGED github /\ ~(At(p, "write") /\ PutComment(b))
    <2>1. Rewritten(b.run, b.seen)
      BY <1>1 DEF github, Rewritten, CommentsOf, After
    <2> QED
      BY <1>1, <2>1, UnchangedIsSame DEF b
  <1>2. CASE At(p, "write") /\ PutComment(b) /\ status' = status
    <2>0. b.step = "write"
      BY <1>2 DEF At, b
    <2>1. \/ b.found = 0
          \/ b.found \in DOMAIN comments /\ comments[b.found].run = b.run
      BY <1>t, <2>0 DEF Located
    <2>2. /\ comments' \in Seq(Comment) /\ Len(comments) <= Len(comments')
          /\ PutAt(b) \in DOMAIN comments'
          /\ comments'[PutAt(b)] = [run |-> b.run, body |-> b.seen]
          /\ \A i \in DOMAIN comments' : i # PutAt(b) =>
               i \in DOMAIN comments /\ comments'[i] = comments[i]
          /\ \A i \in DOMAIN comments : i \in DOMAIN comments'
      BY <1>2, <1>t, <2>1, PutEffect
    <2>3. PutAt(b) \in DOMAIN comments => comments[PutAt(b)].run = b.run
      BY <1>t, <2>1 DEF PutAt
    <2>4. ASSUME NEW r \in Runs, r # b.run PROVE SameShown(r)
      BY <1>2, <2>2, <2>3, <2>4 DEF SameShown, CommentsOf, After
    <2>5. /\ CommentsOf(b.run) \subseteq After(b.run)
          /\ \A i \in After(b.run) : i # PutAt(b) =>
                i \in CommentsOf(b.run) /\ comments'[i] = comments[i]
          /\ PutAt(b) \in After(b.run) /\ comments'[PutAt(b)].body = b.seen
      BY <2>2, <2>3 DEF CommentsOf, After
    <2>6. Rewritten(b.run, b.seen)
      BY <1>2, <2>5 DEF Rewritten
    <2> QED
      BY <2>4, <2>5, <2>6 DEF b
  <1>3. CASE At(p, "post") /\ Posts(p) /\ UNCHANGED comments
    <2>1. status' = [status EXCEPT ![b.run] = StateOf(b.seen)] /\ comments' = comments
          /\ b.step = "post"
      BY <1>3 DEF Posts, At, b
    <2>2. ASSUME NEW r \in Runs, r # b.run PROVE SameShown(r)
      BY <1>t, <2>1, <2>2 DEF SameShown, CommentsOf, After
    <2>3. Rewritten(b.run, b.seen)
      BY <1>t, <2>1 DEF Rewritten, CommentsOf, After
    <2> QED
      BY <2>1, <2>2, <2>3 DEF b, At
  <1>4. status' = status \/ ~At(p, "write")
    BY DEF Writes, At, github
  <1> QED
    BY <1>1, <1>2, <1>3, <1>4 DEF Writes, b

-----------------------------------------------------------------------------
(* Spec => []VerdictShownIsTheRuns                                         *)

LEMMA InitVInv == Init => VInv
  <1> SUFFICES ASSUME Init PROVE VInv
    OBVIOUS
  <1>1. \A r \in Runs : status[r] = "none" /\ CommentsOf(r) = {}
    <2>1. comments = <<>> /\ DOMAIN comments = {}
      BY DEF Init
    <2> QED
      BY <2>1 DEF Init, CommentsOf
  <1>2. \A r \in Runs : ~ShowsVerdict(r)
    BY <1>1 DEF ShowsVerdict
  <1>3. \A a \in Admins : At(a, "idle")
    BY DEF Init, At, NoPublication, Publishers
  <1>4. \A w \in Workers : worker[w].pc = "idle"
    BY DEF Init, IdleWorker
  <1> QED
    BY <1>1, <1>2, <1>3, <1>4 DEF VInv, ShownIsSettled, VerdictShownIsTheRuns

(* A run either is left alone, its row too if it shows a verdict, or what  *)
(* its row says is written.                                                *)
LeftAlone(r) == SameShown(r) /\ (ShowsVerdict(r) => outcome'[r] = outcome[r])
Refreshed(r) ==
    /\ outcome'[r] = outcome[r] /\ outcome[r] \in Publishable \cup {"running"}
    /\ Rewritten(r, outcome[r])

LEMMA VMove ==
    ASSUME VInv, clicks = 0,
           \A a \in Admins : At(a, "idle")',
           \A r \in Runs : LeftAlone(r) \/ Refreshed(r),
           \A w \in Workers : worker'[w].pc = "reread" =>
               /\ worker'[w].run \in Runs
               /\ LeftAlone(worker'[w].run) /\ ~ShowsVerdict(worker'[w].run)
    PROVE  VInv'
  <1>a. \A r \in Runs : CommentsOf(r)' = After(r)
    BY DEF CommentsOf, After
  <1>1. \A r \in Runs : SameShown(r) => (ShowsVerdict(r)' <=> ShowsVerdict(r))
    BY <1>a DEF SameShown, ShowsVerdict
  <1>2. ASSUME NEW r \in Runs
        PROVE  /\ ShowsVerdict(r)' => outcome'[r] \in Verdict
               /\ status'[r] \in {"success", "failure"} => status'[r] = StateOf(outcome'[r])
               /\ \A i \in After(r) : comments'[i].body \in Verdict =>
                    comments'[i].body = outcome'[r]
    <2>t. /\ ShowsVerdict(r) => outcome[r] \in Verdict
          /\ status[r] \in {"success", "failure"} => status[r] = StateOf(outcome[r])
          /\ \A i \in CommentsOf(r) : comments[i].body \in Verdict =>
               comments[i].body = outcome[r]
      BY DEF VInv, ShownIsSettled, VerdictShownIsTheRuns
    <2>1. CASE LeftAlone(r)
      <3>1. SameShown(r) /\ (ShowsVerdict(r) => outcome'[r] = outcome[r])
        BY <2>1 DEF LeftAlone
      <3>2. CASE ShowsVerdict(r)
        BY <1>1, <2>t, <3>1, <3>2 DEF SameShown
      <3>3. CASE ~ShowsVerdict(r)
        BY <1>1, <1>a, <3>1, <3>3 DEF ShowsVerdict
      <3> QED
        BY <3>2, <3>3
    <2>2. CASE Refreshed(r)
      <3>1. /\ outcome'[r] = outcome[r] /\ outcome[r] \in Publishable \cup {"running"}
            /\ status'[r] \in {status[r], StateOf(outcome[r])}
            /\ \A i \in After(r) :
                 \/ comments'[i].body = outcome[r]
                 \/ i \in CommentsOf(r) /\ comments'[i] = comments[i]
        BY <2>2 DEF Refreshed, Rewritten
      <3>2. StateOf(outcome[r]) \in {"success", "failure"} => outcome[r] \in Verdict
        BY <3>1 DEF StateOf, Publishable
      <3>3. ShowsVerdict(r)' => outcome[r] \in Verdict
        BY <1>a, <2>t, <3>1, <3>2 DEF ShowsVerdict
      <3> QED
        BY <2>t, <3>1, <3>3
    <2> QED
      BY <2>1, <2>2
  <1>3. ASSUME NEW w \in Workers, worker'[w].pc = "reread"
        PROVE  ~ShowsVerdict(worker[w].run)'
    <2>1. PICK r \in Runs : r = worker'[w].run
      BY <1>3
    <2>2. ~ShowsVerdict(r)'
      BY <1>1, <1>3, <2>1 DEF LeftAlone
    <2> QED
      BY <2>1, <2>2
  <1>4. ShownIsSettled'
    BY <1>2, <1>3 DEF ShownIsSettled
  <1>5. VerdictShownIsTheRuns'
    BY <1>2, <1>a DEF VerdictShownIsTheRuns
  <1> QED
    BY <1>4, <1>5 DEF VInv

(* What a worker does between its publications: it takes a run; it changes *)
(* the row of its run, which announces the next publication or precedes    *)
(* it; it lets the run go.                                                 *)
WorkerMove(w) ==
    \/ \E r \in Runs : TakeRun(w, r)
    \/ StartRun(w) \/ DecideRun(w) \/ FailRun(w) \/ RereadRun(w) \/ ReleaseRun(w) \/ GiveUpRun(w)

KeepsRow(r) == outcome'[r] = outcome[r]
Moves(w, from, to) ==
    worker[w].pc \in from /\ worker'[w].pc = to /\ worker'[w].run = worker[w].run

MoveFrame(w) ==
    /\ At(w, "idle") /\ UNCHANGED <<publishing, github, clicks>>
    /\ \A v \in Workers : v # w => worker'[v] = worker[v]
    /\ \A r \in Runs : r # worker[w].run => KeepsRow(r)
    /\ failures' = 0 => failures = 0
Takes(w) ==
    /\ worker[w].pc = "idle" /\ worker'[w].pc = "start"
    /\ worker'[w].run \in Runs \ active /\ \A r \in Runs : KeepsRow(r)
Starts(w) ==
    /\ Moves(w, {"start"}, "announce")
    /\ outcome[worker[w].run] \in {"pending", "error", "running"}
Decides(w) == Moves(w, {"pipeline"}, "reread") /\ outcome[worker[w].run] = "running"
LetsGo(w) ==
    /\ worker[w].pc \in {"start", "release"} \/ failures' # 0
    /\ worker'[w] = IdleWorker /\ \A r \in Runs : KeepsRow(r)

LEMMA MoveEffect ==
    ASSUME PInv, NEW w \in Workers, WorkerMove(w)
    PROVE  /\ MoveFrame(w)
           /\ \/ Takes(w) \/ Starts(w) \/ Decides(w) \/ LetsGo(w)
              \/ Moves(w, {"pipeline", "reread"}, "publish")
  <1>t. /\ TypeOK /\ outcome \in [Runs -> Outcome] /\ failures \in Nat
        /\ worker \in [Workers -> Execution]
    BY PublicationAssumption DEF PInv, TypeOK
  <1>o. ASSUME NEW x, outcome' = [outcome EXCEPT ![worker[w].run] = x]
        PROVE  \A r \in Runs : r # worker[w].run => KeepsRow(r)
    BY <1>o, <1>t DEF KeepsRow
  <1>a. ASSUME NEW pc, worker' = [worker EXCEPT ![w].pc = pc]
        PROVE  /\ worker'[w].pc = pc /\ worker'[w].run = worker[w].run
               /\ \A v \in Workers : v # w => worker'[v] = worker[v]
    <2>1. worker' = [worker EXCEPT ![w] = [pc |-> pc, run |-> worker[w].run]]
      BY <1>a, <1>t, SetPc
    <2> QED
      BY <1>t, <2>1
  <1>n. /\ NextPc["start"] = "announce" /\ NextPc["pipeline"] = "reread"
        /\ NextPc["reread"] = "publish"
    BY DEF NextPc
  <1>f. ASSUME At(w, "idle"), ExecutionOnly,
               \A v \in Workers : v # w => worker'[v] = worker[v],
               \A r \in Runs : r # worker[w].run => KeepsRow(r)
        PROVE  MoveFrame(w)
    BY <1>f DEF MoveFrame, ExecutionOnly, counters
  <1>1. ASSUME NEW r \in Runs, TakeRun(w, r) PROVE MoveFrame(w) /\ Takes(w)
    <2>1. /\ worker[w].pc = "idle" /\ r \notin active /\ outcome' = outcome /\ At(w, "idle")
          /\ UNCHANGED <<publishing, github, clicks, failures>>
          /\ worker' = [worker EXCEPT ![w] = [pc |-> "start", run |-> r]]
      BY <1>1 DEF TakeRun, WorkerAt, Activate
    <2> QED
      BY <1>t, <2>1 DEF MoveFrame, Takes, KeepsRow
  <1>2. CASE StartRun(w)
    <2>1. /\ At(w, "idle") /\ worker[w].pc = "start" /\ Advance(w) /\ ExecutionOnly
          /\ outcome[worker[w].run] \in {"pending", "error", "running"}
          /\ outcome' = [outcome EXCEPT ![worker[w].run] = "running"]
      BY <1>2 DEF StartRun, WorkerAt, Start, Becomes
    <2>2. worker' = [worker EXCEPT ![w].pc = "announce"]
      BY <1>n, <2>1 DEF Advance
    <2>3. MoveFrame(w)
      BY <1>a, <1>f, <1>o, <2>1, <2>2
    <2>4. Starts(w)
      BY <1>a, <2>1, <2>2 DEF Starts, Moves
    <2> QED
      BY <2>3, <2>4
  <1>3. CASE DecideRun(w)
    <2>1. /\ At(w, "idle") /\ worker[w].pc = "pipeline" /\ Advance(w) /\ ExecutionOnly
          /\ outcome[worker[w].run] = "running"
          /\ \E x \in Verdict : outcome' = [outcome EXCEPT ![worker[w].run] = x]
      BY <1>3 DEF DecideRun, WorkerAt, Conclude, Becomes
    <2>2. worker' = [worker EXCEPT ![w].pc = "reread"]
      BY <1>n, <2>1 DEF Advance
    <2>3. MoveFrame(w)
      BY <1>a, <1>f, <1>o, <2>1, <2>2
    <2>4. Decides(w)
      BY <1>a, <2>1, <2>2 DEF Decides, Moves
    <2> QED
      BY <2>3, <2>4
  <1>4. CASE FailRun(w)
    <2>1. /\ At(w, "idle") /\ worker[w].pc \in {"pipeline", "reread"} /\ ExecutionOnly
          /\ worker' = [worker EXCEPT ![w].pc = "publish"]
          /\ outcome' = [outcome EXCEPT ![worker[w].run] = "error"]
      BY <1>4 DEF FailRun, WorkerAt, Abort, Becomes
    <2>2. MoveFrame(w)
      BY <1>a, <1>f, <1>o, <2>1
    <2>3. Moves(w, {"pipeline", "reread"}, "publish")
      BY <1>a, <2>1 DEF Moves
    <2> QED
      BY <2>2, <2>3
  <1>5. CASE RereadRun(w)
    <2>1. /\ At(w, "idle") /\ worker[w].pc = "reread" /\ Advance(w) /\ ExecutionOnly
          /\ outcome' = outcome
      BY <1>5 DEF RereadRun, WorkerAt, lifecycleVars
    <2>2. worker' = [worker EXCEPT ![w].pc = "publish"]
      BY <1>n, <2>1 DEF Advance
    <2>3. MoveFrame(w)
      BY <1>a, <1>f, <2>1, <2>2 DEF KeepsRow
    <2>4. Moves(w, {"pipeline", "reread"}, "publish")
      BY <1>a, <2>1, <2>2 DEF Moves
    <2> QED
      BY <2>3, <2>4
  <1>6. CASE ReleaseRun(w)
    <2>1. /\ At(w, "idle") /\ worker[w].pc \in {"start", "release"} /\ ExecutionOnly
          /\ outcome' = outcome /\ worker' = [worker EXCEPT ![w] = IdleWorker]
      BY <1>6 DEF ReleaseRun, WorkerAt, Release
    <2> QED
      BY <1>f, <1>t, <2>1 DEF KeepsRow, LetsGo
  <1>7. CASE GiveUpRun(w)
    <2>1. /\ At(w, "idle") /\ failures' = failures + 1 /\ failures' # 0
          /\ UNCHANGED <<publishing, github, clicks>>
          /\ outcome' = outcome /\ worker' = [worker EXCEPT ![w] = IdleWorker]
      BY <1>7, <1>t DEF GiveUpRun, WorkerAt, Release, Failure
    <2> QED
      BY <1>t, <2>1 DEF MoveFrame, KeepsRow, LetsGo
  <1>8. CASE \E r \in Runs : TakeRun(w, r)
    BY <1>1, <1>8
  <1> QED
    BY <1>2, <1>3, <1>4, <1>5, <1>6, <1>7, <1>8 DEF WorkerMove

(* The kinds of steps.                                                     *)
LEMMA NextKinds ==
    ASSUME Next
    PROVE  \/ \E r \in Runs : AcceptRun(r)
           \/ \E w \in Workers : WorkerMove(w) \/ KillWorker(w) \/ Announce(w) \/ Publish(w)
           \/ \E p \in Publishers : PublicationStep(p)
           \/ \E a \in Admins, r \in Runs : Republish(a, r)
           \/ StrangerComments
  <1>1. ASSUME NEW w \in Workers, WorkerStep(w)
        PROVE  WorkerMove(w) \/ Announce(w) \/ Publish(w) \/ PublicationStep(w)
    BY <1>1 DEF WorkerStep, WorkerMove
  <1>2. ASSUME NEW w \in Workers, NEW r \in Runs, TakeRun(w, r) PROVE WorkerMove(w)
    BY <1>2 DEF WorkerMove
  <1> QED
    BY <1>1, <1>2 DEF Next, Step, Publishers

LEMMA NextVInv == PInv /\ VInv /\ [Next]_vars => VInv'
  <1> SUFFICES ASSUME PInv, VInv, [Next]_vars, clicks' = 0 PROVE VInv'
    BY DEF VInv, ShownIsSettled, VerdictShownIsTheRuns
  <1>t. /\ TypeOK /\ HoldersAreAlone /\ RowsAllowTheStep /\ PublicationsAreSound
        /\ outcome \in [Runs -> Outcome]
    BY DEF PInv, TypeOK
  <1>s. clicks = 0 =>
          /\ \A a \in Admins : At(a, "idle") /\ a \in Publishers
          /\ \A w \in Workers : worker[w].pc = "reread" =>
               worker[w].run \in Runs /\ ~ShowsVerdict(worker[w].run)
          /\ \A r \in Runs : ShowsVerdict(r) => outcome[r] \in Verdict
    BY <1>t DEF VInv, ShownIsSettled, TypeOK, HoldersAreAlone, Publishers
  <1>g. ASSUME UNCHANGED github, NEW r \in Runs, ShowsVerdict(r) => KeepsRow(r)
        PROVE  LeftAlone(r)
    BY <1>g, UnchangedIsSame DEF LeftAlone, KeepsRow
  <1>v. Verdict \cap {"absent", "pending", "running", "error"} = {}
    BY DEF Verdict
  <1>1. CASE \E r \in Runs : AcceptRun(r)
    <2>1. PICK r \in Runs : AcceptRun(r)
      BY <1>1
    <2>2. PICK first \in {"pending", "error"} : outcome' = [outcome EXCEPT ![r] = first]
      BY <2>1 DEF AcceptRun, Accept, Becomes
    <2>3. /\ outcome[r] = "absent" /\ UNCHANGED <<worker, publishing, github, counters>>
      BY <2>1 DEF AcceptRun, Accept, Becomes
    <2>4. clicks = 0
      BY <2>3 DEF counters
    <2>5. \A q \in Runs : ShowsVerdict(q) => KeepsRow(q)
      BY <1>s, <1>t, <1>v, <2>2, <2>3, <2>4 DEF KeepsRow
    <2>6. \A q \in Runs : LeftAlone(q)
      BY <1>g, <2>3, <2>5
    <2>7. \A a \in Admins : At(a, "idle")'
      BY <1>s, <2>3, <2>4 DEF At
    <2> QED
      BY <1>s, <2>3, <2>4, <2>6, <2>7, VMove
  <1>2. ASSUME NEW w \in Workers, WorkerMove(w) PROVE VInv'
    <2>1. /\ At(w, "idle") /\ UNCHANGED <<publishing, github, clicks>>
          /\ \A v \in Workers : v # w => worker'[v] = worker[v]
          /\ \A r \in Runs : r # worker[w].run => KeepsRow(r)
      BY <1>2, MoveEffect DEF MoveFrame
    <2>2. clicks = 0
      BY <2>1
    <2>r. worker[w].pc \in {"announce", "pipeline"} => outcome[worker[w].run] = "running"
      BY <1>t DEF RowsAllowTheStep, RowAllows
    <2>3. \A r \in Runs : ShowsVerdict(r) => KeepsRow(r)
      <3> SUFFICES ASSUME NEW r \in Runs, ShowsVerdict(r), r = worker[w].run PROVE KeepsRow(r)
        BY <2>1
      <3> QED
        BY <1>2, <1>s, <1>v, <2>2, <2>r, MoveEffect DEF Moves, Takes, Starts, Decides, LetsGo
    <2>4. ASSUME NEW v \in Workers, worker'[v].pc = "reread"
          PROVE  worker'[v].run \in Runs /\ ~ShowsVerdict(worker'[v].run)
      <3>1. CASE v # w
        BY <1>s, <2>1, <2>2, <2>4, <3>1
      <3>2. CASE v = w
        <4>1. /\ worker'[w].run = worker[w].run /\ worker[w].pc = "pipeline"
              /\ outcome[worker[w].run] = "running"
          BY <1>2, <2>4, <3>2, MoveEffect
          DEF Moves, Takes, Starts, Decides, LetsGo, IdleWorker
        <4>2. worker[w].run \in Runs
          BY <1>t, <4>1 DEF HoldersAreAlone, TypeOK
        <4> QED
          BY <1>s, <1>v, <2>2, <3>2, <4>1, <4>2
      <3> QED
        BY <3>1, <3>2
    <2>5. \A r \in Runs : LeftAlone(r)
      BY <1>g, <2>1, <2>3
    <2>6. \A a \in Admins : At(a, "idle")'
      BY <1>s, <2>1, <2>2 DEF At
    <2> QED
      BY <2>2, <2>4, <2>5, <2>6, VMove
  <1>3. ASSUME NEW w \in Workers, KillWorker(w) PROVE VInv'
    <2>1. /\ worker' = [worker EXCEPT ![w] = IdleWorker]
          /\ publishing' = [publishing EXCEPT ![w] = NoPublication]
          /\ outcome' = outcome /\ clicks = 0 /\ UNCHANGED github
      BY <1>3 DEF KillWorker, Failure, lifecycleVars
    <2>2. \A r \in Runs : LeftAlone(r)
      BY <1>g, <2>1 DEF KeepsRow
    <2>3. \A a \in Admins : At(a, "idle")'
      BY <1>s, <1>t, <2>1 DEF At, NoPublication, TypeOK
    <2>4. \A v \in Workers : worker'[v].pc = "reread" =>
              worker'[v].run \in Runs /\ ~ShowsVerdict(worker'[v].run)
      BY <1>s, <1>t, <2>1 DEF IdleWorker, TypeOK
    <2> QED
      BY <2>1, <2>2, <2>3, <2>4, VMove
  <1>4. ASSUME NEW w \in Workers, Announce(w) \/ Publish(w) PROVE VInv'
    <2>1. PICK announcing \in BOOLEAN :
            /\ BeginPublication(w, worker[w].run, announcing)
            /\ worker[w].pc \in {"announce", "publish"} /\ clicks' = clicks
            /\ worker[w].run \in Runs
      BY <1>4, Beginnings
    <2>2. /\ OnlyOwn(w) /\ UNCHANGED <<lifecycleVars, github>>
          /\ worker' = worker \/ Ends(w)
      BY <2>1, BeginEffect DEF Publishers, Begins
    <2>3. \A r \in Runs : LeftAlone(r)
      BY <1>g, <2>2 DEF KeepsRow, lifecycleVars
    <2>4. \A a \in Admins : At(a, "idle")'
      BY <1>s, <2>1, <2>2, PublicationAssumption DEF At, OnlyOwn
    <2>5. \A v \in Workers : worker'[v].pc = "reread" =>
              worker'[v].run \in Runs /\ ~ShowsVerdict(worker'[v].run)
      BY <1>s, <2>1, <2>2 DEF OnlyOwn, Ends
    <2> QED
      BY <2>1, <2>3, <2>4, <2>5, VMove
  <1>5. ASSUME NEW p \in Publishers, PublicationStep(p) PROVE VInv'
    <2>1. /\ ~At(p, "idle") /\ UNCHANGED <<lifecycleVars, clicks>>
          /\ OnlyOwn(p) /\ (GoesOn(p) \/ Ends(p)) /\ Writes(p)
      BY <1>5, ProgressEffect
    <2>2. clicks = 0 /\ outcome' = outcome
      BY <2>1 DEF lifecycleVars
    <2>3. /\ p \in Workers /\ worker[p].pc \in {"announce", "publish"}
          /\ publishing[p].run = worker[p].run
          /\ publishing[p].seen = outcome[publishing[p].run]
          /\ publishing[p].run \in Runs
      BY <1>s, <1>t, <2>1, <2>2 DEF Publishers, PublicationsAreSound, WellFormed
    <2>4. /\ \A r \in Runs : r # publishing[p].run => SameShown(r)
          /\ Rewritten(publishing[p].run, publishing[p].seen)
      BY <2>1, WritesEffect
    <2>5. outcome[publishing[p].run] \in Publishable \cup {"running"}
      BY <1>t, <2>3 DEF RowsAllowTheStep, RowAllows
    <2>6. \A r \in Runs : r # publishing[p].run => LeftAlone(r)
      BY <2>2, <2>4 DEF LeftAlone
    <2>7. Refreshed(publishing[p].run)
      BY <2>2, <2>3, <2>4, <2>5 DEF Refreshed
    <2>8. \A a \in Admins : At(a, "idle")'
      BY <1>s, <2>1, <2>2, <2>3, PublicationAssumption DEF At, OnlyOwn
    <2>9. ASSUME NEW v \in Workers, worker'[v].pc = "reread"
          PROVE  /\ worker'[v].run \in Runs /\ LeftAlone(worker'[v].run)
                 /\ ~ShowsVerdict(worker'[v].run)
      <3>1. v # p
        BY <2>1, <2>3, <2>9 DEF GoesOn, Ends
      <3>2. worker'[v] = worker[v] /\ worker[v].pc = "reread"
        BY <2>1, <2>9, <3>1 DEF OnlyOwn
      <3>3. worker[v].run # publishing[p].run
        BY <1>t, <2>3, <3>1, <3>2 DEF HoldersAreAlone
      <3> QED
        BY <1>s, <2>2, <2>6, <3>2, <3>3
    <2> QED
      BY <2>2, <2>6, <2>7, <2>8, <2>9, VMove
  <1>6. ASSUME NEW a \in Admins, NEW r \in Runs, Republish(a, r) PROVE FALSE
    BY <1>6, Beginnings
  <1>7. CASE StrangerComments
    <2>1. UNCHANGED <<lifecycleVars, worker, publishing, clicks>> /\ outcome' = outcome
      BY <1>7 DEF StrangerComments, lifecycleVars
    <2>2. \A r \in Runs : LeftAlone(r)
      BY <1>7, <1>t, <2>1, StrangerIsSame DEF LeftAlone
    <2>3. \A a \in Admins : At(a, "idle")'
      BY <1>s, <2>1 DEF At
    <2> QED
      BY <1>s, <2>1, <2>2, <2>3, VMove
  <1>8. CASE UNCHANGED vars
    <2>1. UNCHANGED <<lifecycleVars, worker, publishing, clicks, github>> /\ outcome' = outcome
      BY <1>8 DEF vars, lifecycleVars, counters
    <2>2. \A r \in Runs : LeftAlone(r)
      BY <1>g, <2>1 DEF KeepsRow
    <2>3. \A a \in Admins : At(a, "idle")'
      BY <1>s, <2>1 DEF At
    <2> QED
      BY <1>s, <2>1, <2>2, <2>3, VMove
  <1> QED
    BY <1>1, <1>2, <1>3, <1>4, <1>5, <1>6, <1>7, <1>8, NextKinds

(* ADR-0043: as long as nobody republishes, a verdict that GitHub shows is *)
(* the run's, whatever fails or dies.                                      *)
THEOREM ShownVerdicts == Spec => []VerdictShownIsTheRuns
  <1>1. VInv => VerdictShownIsTheRuns
    BY DEF VInv
  <1> QED
    BY <1>1, InitPInv, NextPInv, InitVInv, NextVInv, PTL DEF Spec

-----------------------------------------------------------------------------
(* Spec => []RetriesFindTheComment                                         *)

(* A publication that is under way has begun in this step or goes on.      *)
Carries(p) ==
    /\ publishing'[p] = publishing[p] \/ PublicationStep(p)
    /\ ~At(p, "idle") /\ publishing'[p].run = publishing[p].run
    /\ publishing'[p].seen = publishing[p].seen /\ publishing'[p].todo = publishing[p].todo

(* The order of a publication's steps, which ends well with the last one.  *)
LEMMA StepOrder ==
    ASSUME PInv, NEW p \in Publishers, PublicationStep(p)
    PROVE  /\ At(p, "write")' => FindComment(p)
           /\ At(p, "post")' /\ "comment" \in publishing[p].todo =>
                At(p, "write") /\ PutComment(publishing[p])
           /\ At(p, "idle")' /\ failures' = 0 =>
                \/ /\ At(p, "write") /\ PutComment(publishing[p]) /\ status' = status
                   /\ "status" \notin publishing[p].todo
                \/ At(p, "post") /\ Posts(p) /\ comments' = comments
  <1>t. publishing \in [Publishers -> Publication] /\ failures \in Nat
    BY PublicationAssumption DEF PInv, TypeOK
  <1>g. \A step : Goto(p, step) => publishing'[p].step = step
    BY <1>t DEF Goto, Publication
  <1>e. EndPublication(p) => publishing'[p].step = "idle"
    BY <1>t DEF EndPublication, NoPublication
  <1>1. CASE GetClient(p)
    <2>1. Goto(p, IF "comment" \in publishing[p].todo THEN "find" ELSE "post")
      BY <1>1 DEF GetClient
    <2> QED
      BY <1>g, <2>1 DEF At
  <1>2. CASE FindComment(p)
    <2>1. publishing'[p].step = "write"
      BY <1>2, <1>t DEF FindComment, Publication
    <2> QED
      BY <1>2, <2>1 DEF At
  <1>3. CASE WriteComment(p)
    <2>1. /\ At(p, "write") /\ PutComment(publishing[p]) /\ status' = status
          /\ IF "status" \in publishing[p].todo THEN Goto(p, "post") ELSE EndPublication(p)
      BY <1>3 DEF WriteComment
    <2>2. publishing'[p].step = IF "status" \in publishing[p].todo THEN "post" ELSE "idle"
      BY <1>e, <1>g, <2>1
    <2> QED
      BY <2>1, <2>2 DEF At
  <1>4. CASE PostStatus(p)
    BY <1>4, <1>e DEF PostStatus, Posts, At
  <1>5. CASE CallFails(p)
    BY <1>5, <1>e, <1>t DEF CallFails, Failure, At
  <1> QED
    BY <1>1, <1>2, <1>3, <1>4, <1>5 DEF PublicationStep

LEMMA PublishingKinds ==
    ASSUME PInv, [Next]_vars, NEW p \in Publishers, ~At(p, "idle")'
    PROVE  \/ Carries(p)
           \/ /\ publishing'[p].step = "token" /\ outcome' = outcome
              /\ publishing'[p].seen = outcome'[publishing'[p].run]
  <1>u. ASSUME publishing'[p] = publishing[p] PROVE Carries(p)
    BY <1>u DEF Carries, At
  <1>b. ASSUME NEW q \in Publishers, NEW r \in Runs, NEW announcing \in BOOLEAN,
               q \in Workers => worker[q].pc \in {"announce", "publish"},
               BeginPublication(q, r, announcing)
        PROVE  \/ Carries(p)
               \/ /\ publishing'[p].step = "token" /\ outcome' = outcome
                  /\ publishing'[p].seen = outcome'[publishing'[p].run]
    <2>1. /\ OnlyOwn(q) /\ outcome' = outcome /\ (Begins(q, r, announcing) \/ Ends(q))
      BY <1>b, BeginEffect DEF lifecycleVars
    <2>2. CASE q # p
      BY <1>u, <2>1, <2>2 DEF OnlyOwn
    <2>3. CASE q = p
      BY <2>1, <2>3 DEF Begins, Ends, NoPublication, At
    <2> QED
      BY <2>2, <2>3
  <1>1. CASE \E r \in Runs : AcceptRun(r)
    BY <1>1, <1>u DEF AcceptRun
  <1>2. ASSUME NEW w \in Workers, WorkerMove(w) PROVE Carries(p)
    BY <1>2, <1>u, MoveEffect DEF MoveFrame
  <1>3. ASSUME NEW w \in Workers, KillWorker(w) PROVE Carries(p)
    <2>1. publishing' = [publishing EXCEPT ![w] = NoPublication]
      BY <1>3 DEF KillWorker
    <2>2. publishing \in [Publishers -> Publication]
      BY DEF PInv, TypeOK
    <2> QED
      BY <1>u, <2>1, <2>2 DEF At, NoPublication
  <1>4. ASSUME NEW w \in Workers, Announce(w) \/ Publish(w)
        PROVE  \E announcing \in BOOLEAN :
                 /\ BeginPublication(w, worker[w].run, announcing) /\ worker[w].run \in Runs
                 /\ worker[w].pc \in {"announce", "publish"} /\ w \in Publishers
    BY <1>4, Beginnings DEF Publishers
  <1>5. ASSUME NEW q \in Publishers, PublicationStep(q) PROVE Carries(p)
    <2>1. ~At(q, "idle") /\ OnlyOwn(q) /\ (GoesOn(q) \/ Ends(q))
      BY <1>5, ProgressEffect
    <2>2. CASE q # p
      BY <1>u, <2>1, <2>2 DEF OnlyOwn
    <2>3. CASE q = p
      BY <1>5, <2>1, <2>3 DEF GoesOn, Ends, NoPublication, At, Carries
    <2> QED
      BY <2>2, <2>3
  <1>6. ASSUME NEW a \in Admins, NEW r \in Runs, Republish(a, r)
        PROVE  BeginPublication(a, r, FALSE) /\ a \notin Workers /\ a \in Publishers
    BY <1>6, Beginnings DEF Publishers
  <1>7. CASE StrangerComments \/ UNCHANGED vars
    BY <1>7, <1>u DEF StrangerComments, vars
  <1> QED
    BY <1>1, <1>2, <1>3, <1>4, <1>5, <1>6, <1>7, <1>b, NextKinds

(* Comments are not deleted, and only publications write a run's.          *)
LEMMA CommentsKinds ==
    ASSUME PInv, [Next]_vars
    PROVE  /\ Fits' => Fits
           /\ \/ \A r \in Runs : SameShown(r)
              \/ \E p \in Publishers : PublicationStep(p)
  <1>t. TypeOK /\ comments \in Seq(Comment)
    BY DEF PInv, TypeOK
  <1>g. ASSUME UNCHANGED github PROVE (Fits' => Fits) /\ \A r \in Runs : SameShown(r)
    BY <1>g, UnchangedIsSame DEF github, Fits
  <1>f. ASSUME comments' \in Seq(Comment), Len(comments) <= Len(comments') PROVE Fits' => Fits
    BY <1>f, <1>t, PublicationAssumption DEF Fits
  <1>1. CASE \E r \in Runs : AcceptRun(r)
    BY <1>1, <1>g DEF AcceptRun
  <1>2. CASE \E w \in Workers : WorkerMove(w) \/ KillWorker(w)
    BY <1>2, <1>g, MoveEffect DEF MoveFrame, KillWorker
  <1>3. CASE \E w \in Workers : Announce(w) \/ Publish(w)
    BY <1>3, <1>g DEF Announce, Publish, BeginPublication
  <1>4. CASE \E p \in Publishers : PublicationStep(p)
    BY <1>4, <1>f, ProgressEffect DEF CommentsGrow
  <1>5. CASE \E a \in Admins, r \in Runs : Republish(a, r)
    BY <1>5, <1>g DEF Republish, BeginPublication
  <1>6. CASE StrangerComments
    BY <1>6, <1>f, <1>t, StrangerEffect, StrangerIsSame
  <1>7. CASE UNCHANGED vars
    BY <1>7, <1>g DEF vars
  <1> QED
    BY <1>1, <1>2, <1>3, <1>4, <1>5, <1>6, <1>7, NextKinds

(* What the history says of a run that is not in it.                       *)
LEMMA NotRaced ==
    ASSUME [Next]_vars, OneAtATime, NEW r \in Runs, r \notin raced'
    PROVE  /\ r \notin raced
           /\ \A p, q \in Publishers :
                Under(publishing'[p], r) /\ Under(publishing'[q], r) => p = q
           /\ outcome'[r] # outcome[r] => \A p \in Publishers : ~Under(publishing[p], r)
  <1>1. CASE Next
    BY <1>1 DEF Next, Overlap
  <1>2. CASE UNCHANGED vars
    BY <1>2 DEF vars, lifecycleVars, OneAtATime
  <1> QED
    BY <1>1, <1>2

LEMMA InitCInv == Init => CInv
  <1> SUFFICES ASSUME Init PROVE CInv
    OBVIOUS
  <1>1. \A p \in Publishers : At(p, "idle")
    BY DEF Init, At, NoPublication
  <1>2. \A r \in Runs : CommentsOf(r) = {}
    <2>1. DOMAIN comments = {}
      BY DEF Init
    <2> QED
      BY <2>1 DEF CommentsOf
  <1> QED
    BY <1>1, <1>2 DEF CInv, OneAtATime, SeenIsCurrent, OneComment, MissingIsNone, Under, At

LEMMA NextCInv == PInv /\ CInv /\ [Next]_vars => CInv'
  <1> SUFFICES ASSUME PInv, CInv, [Next]_vars PROVE CInv'
    OBVIOUS
  <1>c. OneAtATime /\ SeenIsCurrent /\ OneComment /\ MissingIsNone
    BY DEF CInv
  <1>p. PInv'
    BY NextPInv
  <1>r. \A p \in Publishers : publishing'[p].step # "idle" => publishing'[p].run \in Runs
    BY <1>p DEF PInv, PublicationsAreSound, WellFormed, At
  <1>q. \A p \in Publishers : ~At(p, "idle") =>
            publishing[p].run \in Runs /\ Located(publishing[p])
    BY DEF PInv, PublicationsAreSound, WellFormed
  <1>n. \A r \in Runs : r \notin raced' => r \notin raced
    BY <1>c, NotRaced
  <1>f. Fits' => Fits
    BY CommentsKinds
  <1>a. \A r \in Runs : CommentsOf(r)' = After(r)
    BY DEF CommentsOf, After
  <1>1. OneAtATime'
    <2>1. ASSUME NEW r \in Runs, r \notin raced', NEW p \in Publishers, NEW q \in Publishers,
                 Under(publishing'[p], r), Under(publishing'[q], r)
          PROVE  p = q
      BY <1>c, <2>1, NotRaced
    <2> QED
      BY <2>1 DEF OneAtATime, Under
  <1>2. SeenIsCurrent'
    <2> SUFFICES ASSUME NEW p \in Publishers, publishing'[p].step # "idle",
                        publishing'[p].run \notin raced'
                 PROVE  publishing'[p].seen = outcome'[publishing'[p].run]
      BY DEF SeenIsCurrent, At
    <2>1. PICK r \in Runs : r = publishing'[p].run
      BY <1>r
    <2>2. CASE Carries(p)
      <3>1. Under(publishing[p], r) /\ r \notin raced
        BY <1>n, <2>1, <2>2 DEF Carries, Under, At
      <3>2. outcome'[r] = outcome[r]
        BY <1>c, <2>1, <3>1, NotRaced
      <3> QED
        BY <1>c, <2>1, <2>2, <3>1, <3>2 DEF Carries, SeenIsCurrent
    <2>3. CASE ~Carries(p)
      BY <2>3, PublishingKinds DEF At
    <2> QED
      BY <2>2, <2>3
  <1>3. ASSUME NEW p \in Publishers, NEW r \in Runs, r \notin raced', PublicationStep(p),
               At(p, "write"), PutComment(publishing[p]), publishing[p].run = r, Fits
        PROVE  \A i \in After(r) : i = PutAt(publishing[p])
    <2>1. ~At(p, "idle") /\ Writes(p)
      BY <1>3, ProgressEffect
    <2>2. \A i \in After(r) : i # PutAt(publishing[p]) => i \in CommentsOf(r)
      BY <1>3, <2>1, WritesEffect
    <2>3. CASE publishing[p].found = 0
      <3>1. CommentsOf(r) = {}
        BY <1>3, <1>c, <1>n, <2>3 DEF MissingIsNone
      <3> QED
        BY <2>2, <3>1
    <2>4. CASE publishing[p].found # 0
      <3>1. publishing[p].found \in CommentsOf(r) /\ PutAt(publishing[p]) = publishing[p].found
        BY <1>3, <1>q, <2>1, <2>4 DEF Located, CommentsOf, PutAt, At
      <3>2. \A i, j \in CommentsOf(r) : i = j
        BY <1>3, <1>c, <1>n DEF OneComment
      <3> QED
        BY <2>2, <3>1, <3>2
    <2> QED
      BY <2>3, <2>4
  <1>4. ASSUME NEW p \in Publishers, NEW r \in Runs, PublicationStep(p)
        PROVE  \/ SameShown(r)
               \/ After(r) = CommentsOf(r)
               \/ At(p, "write") /\ PutComment(publishing[p]) /\ publishing[p].run = r
    <2>1. ~At(p, "idle") /\ Writes(p)
      BY <1>4, ProgressEffect
    <2>2. CASE publishing[p].run # r
      BY <2>1, <2>2, WritesEffect
    <2>3. CASE publishing[p].run = r
      BY <2>1, <2>3 DEF Writes, github, After, CommentsOf
    <2> QED
      BY <2>2, <2>3
  <1>5. OneComment'
    <2> SUFFICES ASSUME Fits', NEW r \in Runs, r \notin raced' PROVE \A i, j \in After(r) : i = j
      BY <1>a DEF OneComment
    <2>1. \A i, j \in CommentsOf(r) : i = j
      BY <1>c, <1>f, <1>n DEF OneComment
    <2>2. CASE After(r) = CommentsOf(r) \/ SameShown(r)
      BY <2>1, <2>2 DEF SameShown
    <2>3. CASE \E p \in Publishers : PublicationStep(p)
      BY <1>3, <1>4, <1>f, <2>2, <2>3
    <2> QED
      BY <2>2, <2>3, CommentsKinds
  <1>6. MissingIsNone'
    <2> SUFFICES ASSUME Fits', NEW p \in Publishers, NEW r \in Runs, r \notin raced',
                        publishing'[p].run = r, publishing'[p].step = "write",
                        publishing'[p].found = 0
                 PROVE  After(r) = {}
      <3>1. ASSUME Fits', NEW p \in Publishers, (publishing[p].run \notin raced)',
                   publishing'[p].step = "write", publishing'[p].found = 0
            PROVE  CommentsOf(publishing[p].run)' = {}
        <4>1. PICK r \in Runs : r = publishing'[p].run
          BY <1>r, <3>1
        <4> QED
          BY <1>a, <3>1, <4>1
      <3> QED
        BY <3>1 DEF MissingIsNone, At
    <2>f. Fits /\ r \notin raced /\ publishing \in [Publishers -> Publication]
          /\ comments \in Seq(Comment)
      BY <1>f, <1>n DEF PInv, TypeOK
    <2>1. CASE FindComment(p)
      <3>1. /\ publishing'[p].found = MarkedComment(publishing[p]) /\ comments' = comments
            /\ publishing'[p].run = publishing[p].run
        BY <2>1, <2>f DEF FindComment, github
      <3> QED
        BY <2>f, <3>1, MarkedCommentIsTheRuns DEF After, CommentsOf
    <2>2. CASE publishing'[p] = publishing[p]
      <3>1. CommentsOf(r) = {} /\ Under(publishing[p], r)
        BY <1>c, <2>2, <2>f DEF MissingIsNone, At, Under
      <3>2. ASSUME NEW q \in Publishers, PublicationStep(q), At(q, "write"),
                   publishing[q].run = r
            PROVE  FALSE
        <4>1. Under(publishing[q], r)
          BY <3>2 DEF Under, At
        <4>2. q = p
          BY <1>c, <2>f, <3>1, <4>1 DEF OneAtATime
        <4>3. publishing'[p].step # "write"
          BY <3>2, <4>2, StepOrder DEF FindComment, At
        <4> QED
          BY <4>3
      <3> QED
        BY <1>4, <3>1, <3>2, CommentsKinds DEF SameShown
    <2>3. publishing'[p] = publishing[p] \/ FindComment(p)
      BY PublishingKinds, StepOrder DEF Carries, At
    <2> QED
      BY <2>1, <2>2, <2>3
  <1> QED
    BY <1>1, <1>2, <1>5, <1>6 DEF CInv

(* As long as the comments fit into one page, a run whose publications do  *)
(* not overlap has one comment at most: re-executions, republications and  *)
(* retries after a lost answer find the comment that is there.             *)
THEOREM OneCommentPerRun == Spec => []RetriesFindTheComment
  <1>1. CInv => RetriesFindTheComment
    <2> SUFFICES ASSUME CInv, NEW r \in Runs, Fits, r \notin raced
                 PROVE  Cardinality(CommentsOf(r)) <= 1
      BY DEF RetriesFindTheComment
    <2>1. \A i, j \in CommentsOf(r) : i = j
      BY DEF CInv, OneComment
    <2>2. CASE CommentsOf(r) = {}
      BY <2>2, FS_EmptySet
    <2>3. CASE CommentsOf(r) # {}
      <3>1. PICK i : CommentsOf(r) = {i}
        BY <2>1, <2>3
      <3>2. Cardinality({i}) = 1
        BY FS_Singleton
      <3> QED
        BY <3>1, <3>2
    <2> QED
      BY <2>2, <2>3
  <1> QED
    BY <1>1, InitPInv, NextPInv, InitCInv, NextCInv, PTL DEF Spec

-----------------------------------------------------------------------------
(* Spec => []ReleasedRunIsShown                                            *)

LEMMA InitSInv == Init => SInv
  <1> SUFFICES ASSUME Init PROVE SInv
    OBVIOUS
  <1>1. \A r \in Runs : status[r] = "none" /\ outcome[r] \notin Verdict
    BY DEF Init, LifecycleInit, Verdict
  <1>2. \A p \in Publishers : At(p, "idle")
    BY DEF Init, At, NoPublication
  <1> QED
    BY <1>1, <1>2 DEF SInv, AbsentIsNotShown, SettledIsShown, CommentGoesFirst, At

LEMMA NextAbsentIsNotShown == PInv /\ AbsentIsNotShown /\ [Next]_vars => AbsentIsNotShown'
  <1> SUFFICES ASSUME PInv, AbsentIsNotShown, [Next]_vars, NEW r \in Runs, outcome'[r] = "absent"
               PROVE  status'[r] = "none"
    BY DEF AbsentIsNotShown
  <1>t. outcome \in [Runs -> Outcome] /\ PublicationsAreSound
    BY DEF PInv, TypeOK
  <1>1. outcome[r] = "absent"
    <2>1. ASSUME NEW q, outcome[r] # "absent",
                 \/ Accept(q) \/ Activate(q) \/ Start(q) \/ Conclude(q) \/ Abort(q) \/ Release(q)
                 \/ UNCHANGED lifecycleVars
          PROVE  FALSE
      BY <1>t, <2>1 DEF Accept, Activate, Start, Conclude, Abort, Release, Becomes, Verdict,
           lifecycleVars
    <2>2. CASE \E q \in Runs : AcceptRun(q)
      BY <2>1, <2>2 DEF AcceptRun
    <2>3. CASE \E w \in Workers : WorkerMove(w) \/ KillWorker(w) \/ Announce(w) \/ Publish(w)
      BY <2>1, <2>3 DEF WorkerMove, TakeRun, StartRun, DecideRun, FailRun, RereadRun, ReleaseRun,
           GiveUpRun, KillWorker, Announce, Publish, BeginPublication
    <2>4. CASE \E p \in Publishers : PublicationStep(p)
      BY <2>1, <2>4, ProgressEffect
    <2>5. CASE \/ \E a \in Admins, q \in Runs : Republish(a, q)
               \/ StrangerComments \/ UNCHANGED vars
      BY <2>1, <2>5 DEF Republish, BeginPublication, StrangerComments, vars
    <2> QED
      BY <2>2, <2>3, <2>4, <2>5, NextKinds
  <1>2. ASSUME NEW p \in Publishers, PublicationStep(p) PROVE SameShown(r)
    BY <1>1, <1>2, <1>t, ProgressEffect, WritesEffect DEF PublicationsAreSound, WellFormed
  <1>3. SameShown(r)
    BY <1>2, CommentsKinds
  <1> QED
    BY <1>1, <1>3 DEF SameShown, AbsentIsNotShown

(* A run whose row is not changed and about which nothing is written is    *)
(* shown as before.                                                        *)
LEMMA ShownStays ==
    ASSUME NEW r \in Runs, SameShown(r), KeepsRow(r), Fits' => Fits
    PROVE  /\ CommentShown(r) => CommentShown(r)'
           /\ Shown(r) => Shown(r)'
  <1>1. CommentShown(r) => CommentShown(r)'
    BY DEF SameShown, KeepsRow, CommentShown, CommentsOf, After
  <1> QED
    BY <1>1 DEF SameShown, KeepsRow, Shown

(* What is written of a run is what its row says.                          *)
LEMMA ShownAgain ==
    ASSUME NEW r \in Runs, Rewritten(r, outcome[r]), KeepsRow(r), CommentShown(r)
    PROVE  CommentShown(r)'
  <1>1. PICK i \in CommentsOf(r) : comments[i].body = outcome[r]
    BY DEF CommentShown
  <1>2. i \in After(r) /\ comments'[i].body = outcome[r]
    BY <1>1 DEF Rewritten
  <1> QED
    BY <1>2 DEF CommentShown, CommentsOf, After, KeepsRow

LEMMA ShownFirst ==
    ASSUME PInv, NEW p \in Publishers, PublicationStep(p), At(p, "write"),
           PutComment(publishing[p]), NEW r \in Runs, r = publishing[p].run,
           publishing[p].seen = outcome[r]
    PROVE  CommentShown(r)'
  <1>1. Writes(p) /\ ~At(p, "idle") /\ outcome' = outcome
    BY ProgressEffect DEF lifecycleVars
  <1>2. /\ PutAt(publishing[p]) \in After(r)
        /\ comments'[PutAt(publishing[p])].body = outcome[r]
    BY <1>1, WritesEffect
  <1> QED
    BY <1>1, <1>2 DEF CommentShown, CommentsOf, After

LEMMA NextCommentGoesFirst ==
    ASSUME PInv, CInv, CommentGoesFirst, [Next]_vars PROVE CommentGoesFirst'
  <1> SUFFICES ASSUME NEW p \in Publishers, NEW r \in Runs, publishing'[p].step = "post",
                      "comment" \in publishing'[p].todo, publishing'[p].run = r,
                      r \notin raced', Fits'
               PROVE  CommentShown(r)'
    <2>1. \A p \in Publishers : publishing'[p].step # "idle" => publishing'[p].run \in Runs
      BY NextPInv DEF PInv, PublicationsAreSound, WellFormed, At
    <2>2. ASSUME NEW p \in Publishers, publishing'[p].step = "post",
                 "comment" \in publishing'[p].todo, publishing'[p].run \notin raced', Fits'
          PROVE  CommentShown(publishing[p].run)'
      <3>1. PICK r \in Runs : r = publishing'[p].run
        BY <2>1, <2>2
      <3>2. CommentShown(r)'
        BY <2>2, <3>1
      <3> QED
        BY <3>1, <3>2
    <2> QED
      BY <2>2 DEF CommentGoesFirst, At
  <1>1. Carries(p)
    BY PublishingKinds DEF At
  <1>2. /\ Under(publishing[p], r) /\ publishing[p].run = r /\ r \notin raced
        /\ Fits /\ KeepsRow(r) /\ publishing[p].seen = outcome[r]
    BY <1>1, CommentsKinds, NotRaced DEF Carries, Under, At, CInv, SeenIsCurrent, KeepsRow
  <1>3. CASE publishing'[p] = publishing[p]
    <2>1. CommentShown(r)
      BY <1>2, <1>3 DEF CommentGoesFirst, At
    <2>2. ASSUME NEW q \in Publishers, PublicationStep(q)
          PROVE  SameShown(r) \/ Rewritten(r, outcome[r])
      <3>1. Writes(q) /\ ~At(q, "idle")
        BY <2>2, ProgressEffect
      <3>2. CASE publishing[q].run = r
        <4>1. q = p
          BY <1>2, <3>1, <3>2 DEF CInv, OneAtATime, Under, At
        <4> QED
          BY <1>2, <3>1, <4>1, WritesEffect
      <3>3. CASE publishing[q].run # r
        BY <3>1, <3>3, WritesEffect
      <3> QED
        BY <3>2, <3>3
    <2> QED
      BY <1>2, <2>1, <2>2, CommentsKinds, ShownStays, ShownAgain
  <1>4. CASE PublicationStep(p)
    <2>1. At(p, "write") /\ PutComment(publishing[p])
      BY <1>1, <1>4, StepOrder DEF Carries, At
    <2> QED
      BY <1>2, <1>4, <2>1, ShownFirst
  <1> QED
    BY <1>1, <1>3, <1>4 DEF Carries

(* A worker that has not yet done anything with its run, or is done, does  *)
(* not count.                                                              *)
Quiet(r) == \A w \in Workers : worker[w].run = r => worker[w].pc \in {"start", "release"}
ToBeShown(r) == outcome[r] \in Verdict \/ status[r] # "none"

LEMMA ProgressShown ==
    ASSUME PInv, CInv, CommentGoesFirst, SettledIsShown, [Next]_vars, failures' = 0,
           NEW r \in Runs, r \notin raced', Quiet(r)', ToBeShown(r)',
           NEW p \in Publishers, PublicationStep(p), publishing[p].run = r
    PROVE  Shown(r)'
  <1>1. /\ ~At(p, "idle") /\ OnlyOwn(p) /\ (GoesOn(p) \/ Ends(p)) /\ Writes(p)
        /\ outcome' = outcome
    BY ProgressEffect DEF lifecycleVars
  <1>2. /\ WellFormed(p, publishing[p]) /\ Under(publishing[p], r)
        /\ r \notin raced /\ publishing[p].seen = outcome[r]
    BY <1>1, NotRaced DEF PInv, PublicationsAreSound, CInv, SeenIsCurrent, Under, At
  <1>3. ~Announces(p) /\ publishing[p].todo = Enabled
    <2>1. ASSUME Announces(p) PROVE FALSE
      <3>1. p \in Workers /\ worker[p].run = r /\ worker[p].pc = "announce"
        BY <1>2, <2>1 DEF Announces, WellFormed
      <3>2. worker'[p].run = r /\ worker'[p].pc \in {"announce", "pipeline"}
        BY <1>1, <3>1 DEF GoesOn, Ends
      <3> QED
        BY <3>1, <3>2 DEF Quiet
    <2> QED
      BY <1>2, <2>1 DEF WellFormed
  <1>4. Rewritten(r, outcome[r]) /\ (Fits' => Fits)
    BY <1>1, <1>2, WritesEffect, CommentsKinds
  <1>5. CASE GoesOn(p)
    <2>1. status' = status
      <3>1. CASE At(p, "post")
        BY <1>5, <3>1 DEF GoesOn, PublicationStep, GetClient, FindComment, WriteComment,
             PostStatus, CallFails, At, EndPublication, PInv, TypeOK, NoPublication
      <3>2. CASE ~At(p, "post")
        BY <1>1, <3>2 DEF Writes, github
      <3> QED
        BY <3>1, <3>2
    <2>2. Shown(r)
      BY <1>1, <1>2, <1>5, <2>1 DEF SettledIsShown, GoesOn, Quiet, ToBeShown
    <2>3. CommentShown(r) => CommentShown(r)'
      BY <1>1, <1>4, ShownAgain DEF KeepsRow
    <2> QED
      BY <1>1, <1>4, <2>1, <2>2, <2>3 DEF Shown
  <1>6. CASE Ends(p)
    <2>1. At(p, "idle")'
      BY <1>6 DEF Ends, NoPublication, At
    <2>2. CASE At(p, "write") /\ PutComment(publishing[p]) /\ "status" \notin publishing[p].todo
      BY <1>2, <1>3, <2>2, ShownFirst DEF Shown
    <2>3. CASE At(p, "post") /\ Posts(p) /\ comments' = comments
      <3>1. status'[r] = StateOf(outcome[r])
        BY <1>2, <2>3 DEF Posts, PInv, TypeOK
      <3>2. "comment" \in Enabled /\ Fits => CommentShown(r)
        BY <1>2, <1>3, <2>3 DEF CommentGoesFirst
      <3>3. CommentShown(r) => CommentShown(r)'
        BY <1>1, <1>4, ShownAgain DEF KeepsRow
      <3> QED
        BY <1>1, <1>4, <3>1, <3>2, <3>3 DEF Shown
    <2> QED
      BY <2>1, <2>2, <2>3, StepOrder
  <1> QED
    BY <1>1, <1>5, <1>6

LEMMA NextSettledIsShown ==
    ASSUME PInv, CInv, AbsentIsNotShown, CommentGoesFirst, SettledIsShown, [Next]_vars,
           failures' = 0
    PROVE  SettledIsShown'
  <1> SUFFICES ASSUME NEW r \in Runs, r \notin raced', Quiet(r)', ToBeShown(r)'
               PROVE  Shown(r)'
    BY DEF SettledIsShown, Quiet, ToBeShown
  <1>t. /\ r \notin raced /\ (Fits' => Fits) /\ outcome \in [Runs -> Outcome]
        /\ worker \in [Workers -> Execution] /\ failures \in Nat /\ r # NoRun
    BY CommentsKinds, NotRaced, PublicationAssumption DEF CInv, PInv, TypeOK
  <1>g. ASSUME SameShown(r), KeepsRow(r), Quiet(r) PROVE Shown(r)'
    <2>1. Shown(r)
      BY <1>g, <1>t DEF SettledIsShown, Quiet, ToBeShown, SameShown, KeepsRow
    <2> QED
      BY <1>g, <1>t, <2>1, ShownStays
  <1>w. worker' = worker => Quiet(r)
    BY DEF Quiet
  <1>1. ASSUME NEW q \in Runs, AcceptRun(q) PROVE Shown(r)'
    <2>1. PICK first \in {"pending", "error"} : outcome' = [outcome EXCEPT ![q] = first]
      BY <1>1 DEF AcceptRun, Accept, Becomes
    <2>2. outcome[q] = "absent" /\ worker' = worker /\ UNCHANGED github
      BY <1>1 DEF AcceptRun, Accept, Becomes
    <2>3. CASE q = r
      BY <1>t, <2>1, <2>2, <2>3 DEF ToBeShown, AbsentIsNotShown, github, Verdict
    <2>4. CASE q # r
      BY <1>g, <1>w, <2>1, <2>2, <2>4, UnchangedIsSame DEF KeepsRow
    <2> QED
      BY <2>3, <2>4
  <1>2. ASSUME NEW w \in Workers, WorkerMove(w) PROVE Shown(r)'
    <2>1. /\ UNCHANGED github /\ \A v \in Workers : v # w => worker'[v] = worker[v]
          /\ r # worker[w].run => KeepsRow(r)
      BY <1>2, MoveEffect DEF MoveFrame
    <2>2. CASE r # worker[w].run
      <3>1. Quiet(r)
        BY <2>1, <2>2 DEF Quiet
      <3> QED
        BY <1>g, <2>1, <2>2, <3>1, UnchangedIsSame
    <2>3. CASE r = worker[w].run
      <3>1. worker[w].pc # "idle"
        BY <1>t, <2>3 DEF PInv, HoldersAreAlone, IdleWorker
      <3>2. ~Takes(w) /\ ~Starts(w) /\ ~Decides(w)
            /\ ~Moves(w, {"pipeline", "reread"}, "publish")
        BY <2>3, <3>1 DEF Takes, Starts, Decides, Moves, Quiet
      <3>3. worker[w].pc \in {"start", "release"} /\ KeepsRow(r)
        BY <1>2, <3>2, MoveEffect DEF LetsGo
      <3>4. Quiet(r)
        BY <2>1, <3>3 DEF Quiet
      <3> QED
        BY <1>g, <2>1, <3>3, <3>4, UnchangedIsSame
    <2> QED
      BY <2>2, <2>3
  <1>3. ASSUME NEW w \in Workers, KillWorker(w) PROVE FALSE
    BY <1>3, <1>t DEF KillWorker, Failure
  <1>4. ASSUME NEW p \in Publishers, NEW q \in Runs, NEW announcing \in BOOLEAN,
               p \in Workers => /\ worker[p].run = q
                                /\ worker[p].pc = IF announcing THEN "announce" ELSE "publish",
               BeginPublication(p, q, announcing)
        PROVE  Shown(r)'
    <2>1. /\ OnlyOwn(p) /\ UNCHANGED <<lifecycleVars, github>> /\ SameShown(r) /\ KeepsRow(r)
          /\ \/ worker' = worker
             \/ Ends(p) /\ Channels(announcing, outcome[q]) = {}
      BY <1>4, BeginEffect, UnchangedIsSame DEF Begins, KeepsRow, lifecycleVars
    <2>2. CASE worker' = worker \/ p \notin Workers \/ q # r
      <3>1. Quiet(r)
        BY <1>4, <2>1, <2>2 DEF Quiet, OnlyOwn, Ends
      <3> QED
        BY <1>g, <2>1, <3>1
    <2>3. CASE Ends(p) /\ Channels(announcing, outcome[q]) = {} /\ p \in Workers /\ q = r
      <3>1. ~announcing
        BY <1>4, <2>3 DEF Ends, Quiet
      <3>2. outcome[q] \in Publishable
        BY <1>4, <2>3, <3>1 DEF PInv, RowsAllowTheStep, RowAllows
      <3>3. Enabled = {}
        BY <2>3, <3>1, <3>2 DEF Channels
      <3> QED
        BY <3>3 DEF Shown
    <2> QED
      BY <2>1, <2>2, <2>3
  <1>5. ASSUME NEW w \in Workers, Announce(w) \/ Publish(w) PROVE Shown(r)'
    <2>1. PICK announcing \in BOOLEAN :
            /\ BeginPublication(w, worker[w].run, announcing)
            /\ worker[w].pc = IF announcing THEN "announce" ELSE "publish"
            /\ worker[w].run \in Runs
      BY <1>5, Beginnings
    <2> QED
      BY <1>4, <2>1 DEF Publishers
  <1>6. ASSUME NEW p \in Publishers, PublicationStep(p) PROVE Shown(r)'
    <2>1. /\ ~At(p, "idle") /\ OnlyOwn(p) /\ (GoesOn(p) \/ Ends(p)) /\ Writes(p)
          /\ outcome' = outcome
      BY <1>6, ProgressEffect DEF lifecycleVars
    <2>2. CASE publishing[p].run = r
      BY <1>6, <2>2, ProgressShown
    <2>3. CASE publishing[p].run # r
      <3>1. SameShown(r) /\ KeepsRow(r)
        BY <2>1, <2>3, WritesEffect DEF KeepsRow
      <3>2. p \in Workers => worker[p].run = publishing[p].run
        BY <2>1 DEF PInv, PublicationsAreSound, WellFormed
      <3>3. Quiet(r)
        BY <2>1, <2>3, <3>2 DEF Quiet, OnlyOwn
      <3> QED
        BY <1>g, <3>1, <3>3
    <2> QED
      BY <2>2, <2>3
  <1>7. ASSUME NEW a \in Admins, NEW q \in Runs, Republish(a, q) PROVE Shown(r)'
    <2>1. BeginPublication(a, q, FALSE) /\ a \notin Workers /\ a \in Publishers
      BY <1>7, Beginnings DEF Publishers
    <2> QED
      BY <1>4, <2>1
  <1>8. CASE StrangerComments
    <2>1. SameShown(r) /\ KeepsRow(r) /\ worker' = worker
      BY <1>8, StrangerIsSame DEF StrangerComments, lifecycleVars, KeepsRow, PInv
    <2> QED
      BY <1>g, <1>w, <2>1
  <1>9. CASE UNCHANGED vars
    BY <1>9, <1>g, <1>w, UnchangedIsSame DEF vars, lifecycleVars, KeepsRow
  <1> QED
    BY <1>1, <1>2, <1>3, <1>5, <1>6, <1>7, <1>8, <1>9, NextKinds

LEMMA NextSInv == PInv /\ CInv /\ SInv /\ [Next]_vars => SInv'
  <1> SUFFICES ASSUME PInv, CInv, SInv, [Next]_vars PROVE SInv'
    OBVIOUS
  <1>1. AbsentIsNotShown'
    BY NextAbsentIsNotShown DEF SInv
  <1>2. ASSUME failures' = 0 PROVE failures = 0
    <2>t. failures \in Nat
      BY DEF PInv, TypeOK
    <2>1. ASSUME NEW w \in Workers, KillWorker(w) PROVE failures = 0
      BY <1>2, <2>1, <2>t DEF KillWorker, Failure
    <2> QED
      BY <1>2, <2>1, NextKinds, MoveEffect, ProgressEffect
      DEF MoveFrame, AcceptRun, counters, Announce, Publish, Republish, BeginPublication,
          StrangerComments, vars
  <1> QED
    BY <1>1, <1>2, NextCommentGoesFirst, NextSettledIsShown DEF SInv

(* As long as no call failed, a run that is let go and whose publications  *)
(* overlapped nothing is shown as its row says.                            *)
THEOREM ReleasedRuns == Spec => []ReleasedRunIsShown
  <1>1. PInv /\ SInv => ReleasedRunIsShown
    <2> SUFFICES ASSUME PInv, SInv, NEW r \in Runs, failures = 0, r \notin active,
                        r \notin raced, outcome[r] \in Verdict \/ status[r] # "none"
                 PROVE  Shown(r)
      BY DEF ReleasedRunIsShown, Shown, CommentShown
    <2>1. \A w \in Workers : worker[w].run # r
      BY PublicationAssumption DEF PInv, HoldersAreAlone, IdleWorker
    <2> QED
      BY <2>1 DEF SInv, SettledIsShown
  <1> QED
    BY <1>1, InitPInv, NextPInv, InitCInv, NextCInv, InitSInv, NextSInv, PTL DEF Spec
=============================================================================
