------------------------------ MODULE ReviewGraph ------------------------------
(***************************************************************************)
(* The AI review of a run that completed its gates, from load_evidence to  *)
(* the report and the comment made of it.  The language model may answer   *)
(* anything; what it is asked with (prompt, tools) is left out.  A text is *)
(* the set of what matters in it.                                          *)
(***************************************************************************)
EXTENDS Integers, FiniteSets

CONSTANTS
    Texts,   \* the texts of a model considered, of AllTexts
    Titles,  \* the titles of findings considered
    Scores,  \* the scores considered, some out of range
    None

(* says_pass and says_fail are phrases of evaluators.py that claim a       *)
(* decision; changed_file is a path of the evidence; other_file and        *)
(* dotted_word (os.system, Node.js) look like paths to PATH_RE.            *)
Paths == {"changed_file", "other_file", "dotted_word"}
AllTexts == SUBSET ({"says_pass", "says_fail", "secret", "marker"} \cup Paths)

ASSUME ReviewGraphAssumption ==
    /\ Texts \subseteq AllTexts /\ Titles \subseteq AllTexts /\ Scores \subseteq Int
    /\ None \notin 0..100

VARIABLES
    key,       \* whether there is an OPENAI_API_KEY
    findings,  \* of the gates
    decision,  \* the run's
    redacted,  \* the findings as the evidence has them
    draft,     \* what the model answered
    snapshot,  \* ai_review_json
    score,     \* the run's
    report,    \* final_report_markdown
    comment,   \* what is published of it
    pc

ofRun == <<findings, decision>>
reviewVars == <<key, ofRun, redacted, draft, snapshot, score, report, comment, pc>>

Finding == [blocking : BOOLEAN, title : Titles]
Decision(some) == IF \E f \in some : f.blocking THEN "fail" ELSE "pass"

(* text: the summary, the assessments and the suggestions; reasons: the    *)
(* blocking reasons.                                                       *)
Review == [text : AllTexts, reasons : SUBSET AllTexts, score : 0..100]
Snapshot == [status : {"generated", "skipped", "error"},
             text : AllTexts, reasons : SUBSET AllTexts]
Without(status) == [status |-> status, text |-> {}, reasons |-> {}]

Passages(thing) == {thing.text} \cup thing.reasons
Said(thing) == UNION Passages(thing)

(* redact_text; what it leaves is no secret any more.                      *)
Redacted(text) == IF "secret" \in text THEN (text \ {"secret"}) \cup {"marker"} ELSE text
RedactedAll(texts) == {Redacted(text) : text \in texts}

ReviewTypeOK ==
    /\ key \in BOOLEAN
    /\ findings \subseteq Finding /\ decision \in {"pass", "fail"}
    /\ redacted \subseteq [blocking : BOOLEAN, title : AllTexts]
    /\ draft = None \/ draft \in Review
    /\ snapshot = None \/ snapshot \in Snapshot
    /\ score = None \/ score \in 0..100
    /\ report = None \/ report \in [heading : {"pass", "fail"}, text : AllTexts,
                                    reasons : SUBSET AllTexts]
    /\ comment = None \/ comment \subseteq AllTexts
    /\ pc \in {"start", "draft", "validate", "store", "report", "publish", "end"}

ReviewInit ==
    /\ key \in BOOLEAN
    /\ findings \in SUBSET Finding /\ decision = Decision(findings)
    /\ redacted = {} /\ draft = None /\ snapshot = None /\ score = None
    /\ report = None /\ comment = None /\ pc = "start"

Blockers(some) == {f.title : f \in {g \in some : g.blocking}}

-----------------------------------------------------------------------------
(* generate_ai_review_snapshot without a key.                              *)
Skip ==
    /\ pc = "start" /\ ~key
    /\ snapshot' = Without("skipped") /\ pc' = "store"
    /\ UNCHANGED <<key, ofRun, redacted, draft, score, report, comment>>

LoadEvidence ==
    /\ pc = "start" /\ key
    /\ redacted' = {[f EXCEPT !.title = Redacted(@)] : f \in findings}
    /\ pc' = "draft"
    /\ UNCHANGED <<key, ofRun, draft, snapshot, score, report, comment>>

(* A node may raise, as the model may: AIReviewError.                      *)
Raise ==
    /\ key /\ pc \in {"start", "draft"}
    /\ snapshot' = Without("error") /\ pc' = "store"
    /\ UNCHANGED <<key, ofRun, redacted, draft, score, report, comment>>

(* The schema refuses a score that is out of range, which raises.          *)
Draft(text, reasons, points) ==
    /\ pc = "draft" /\ points \in 0..100
    /\ draft' = [text |-> text, reasons |-> reasons, score |-> points]
    /\ pc' = "validate"
    /\ UNCHANGED <<key, ofRun, redacted, snapshot, score, report, comment>>

(* Mutant of Corrected: missing reasons are not filled in.                 *)
CorrectedOnlyRedacted(review) ==
    [review EXCEPT !.text = Redacted(@), !.reasons = RedactedAll(@)]
(* _correct_draft: redacts, and fills missing reasons from the findings.   *)
Corrected(review) ==
    LET filled == decision = "fail" /\ Blockers(redacted) # {} /\ review.reasons = {}
    IN [review EXCEPT !.text = Redacted(@),
                      !.reasons = RedactedAll(IF filled THEN Blockers(redacted) ELSE @)]

Contradiction == IF decision = "fail" THEN "says_pass" ELSE "says_fail"

(* Mutant of IsValid: only the text is looked at.                          *)
IsValidText(review) ==
    /\ Contradiction \notin review.text
    /\ review.text \cap Paths \subseteq {"changed_file"}
    /\ "secret" \notin review.text
(* decision_lock, citation_grounding and no_secrets.                       *)
IsValid(review) ==
    /\ Contradiction \notin Said(review)
    /\ decision = "fail" /\ Blockers(redacted) # {} => review.reasons # {}
    /\ Said(review) \cap Paths \subseteq {"changed_file"}
    /\ "secret" \notin Said(review)

Validate ==
    /\ pc = "validate"
    /\ LET corrected == Corrected(draft)
       IN snapshot' = IF IsValid(corrected)
                      THEN [status |-> "generated", text |-> corrected.text,
                            reasons |-> corrected.reasons]
                      ELSE Without("error")
    /\ pc' = "store"
    /\ UNCHANGED <<key, ofRun, redacted, draft, score, report, comment>>

(* _run_pipeline copies the score of a generated review.                   *)
StoreScore ==
    /\ pc = "store" /\ pc' = "report"
    /\ score' = IF snapshot.status = "generated" THEN draft.score ELSE None
    /\ UNCHANGED <<key, ofRun, redacted, draft, snapshot, report, comment>>

(* Mutant of BuildReport: the review's reasons go before the gates'.       *)
ReportOfReview ==
    /\ pc = "report" /\ pc' = "publish"
    /\ report' = [heading |-> decision, text |-> snapshot.text,
                  reasons |-> IF snapshot.reasons # {} THEN snapshot.reasons
                              ELSE Blockers(findings)]
    /\ UNCHANGED <<key, ofRun, redacted, draft, snapshot, score, comment>>
(* build_final_report: the review's text, or what the gates said, and the  *)
(* reasons of both.                                                        *)
BuildReport ==
    /\ pc = "report" /\ pc' = "publish"
    /\ report' = [heading |-> decision, text |-> snapshot.text,
                  reasons |-> snapshot.reasons \cup Blockers(findings)]
    /\ UNCHANGED <<key, ofRun, redacted, draft, snapshot, score, comment>>

(* build_github_comment_body.                                              *)
Publish ==
    /\ pc = "publish" /\ pc' = "end"
    /\ comment' = RedactedAll(Passages(report))
    /\ UNCHANGED <<key, ofRun, redacted, draft, snapshot, score, report>>

ReviewNext ==
    \/ Skip \/ LoadEvidence \/ Raise \/ Validate \/ StoreScore \/ BuildReport \/ Publish
    \/ \E text \in Texts, reasons \in SUBSET Texts, points \in Scores :
          Draft(text, reasons, points)

ReviewSpec == ReviewInit /\ [][ReviewNext]_reviewVars

-----------------------------------------------------------------------------
(* Properties                                                              *)

(* Whatever the model answered, a review that is stored does not say the   *)
(* opposite of the gates' decision, names no file but those of the run,    *)
(* has reasons when the run failed, and holds no secret.                   *)
StoredReviewIsSound ==
    snapshot # None /\ snapshot.status = "generated" =>
        /\ decision = "fail" => "says_pass" \notin Said(snapshot) /\ snapshot.reasons # {}
        /\ decision = "pass" => "says_fail" \notin Said(snapshot)
        /\ {"secret", "other_file"} \cap Said(snapshot) = {}

(* The report carries the decision of the gates and the title of every     *)
(* blocking finding, whether the model was asked, failed, was refused or   *)
(* named other reasons; the run has a score only from a stored review; and *)
(* what is published has no secret even when the findings do.              *)
ReportIsTheGates ==
    /\ decision = Decision(findings)
    /\ report # None =>
         /\ report.heading = Decision(findings)
         /\ \A f \in findings : f.blocking => f.title \in report.reasons
         /\ (score # None) <=> (snapshot.status = "generated")
         /\ Contradiction \notin report.text
    /\ comment # None => \A passage \in comment : "secret" \notin passage

(* A model that leaves the reasons out is helped out: its draft is stored  *)
(* unless it, or the title of a blocking finding, says something wrong.    *)
Saved ==
    /\ Validate
    /\ Said(draft) \cap (Paths \cup {Contradiction}) \subseteq {"changed_file"}
    /\ (UNION Blockers(redacted)) \cap (Paths \cup {Contradiction}) \subseteq {"changed_file"}
    => snapshot'.status = "generated"
CorrectionSaves == [][Saved]_reviewVars

(* Whatever the model answers, the review, the report and what is          *)
(* published agree with the gates, and a correction is not in vain.        *)
ReviewIsOfTheGates ==
    [](ReviewTypeOK /\ StoredReviewIsSound /\ ReportIsTheGates) /\ CorrectionSaves
=============================================================================
