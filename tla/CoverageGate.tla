----------------------------- MODULE CoverageGate -----------------------------
(***************************************************************************)
(* The coverage gate: the commands are run on the head revision, their     *)
(* report is read in one of three formats, the base revision follows when  *)
(* a drop is limited, the changed source files are looked up in the report *)
(* and the policy decides.  The report is written by a test tool, line by  *)
(* line as the parser reads it; told keeps what it says, so that what the  *)
(* gate makes of it can be compared.                                       *)
(*                                                                         *)
(* A percentage is its number of hundredths, 10000 for 100%.               *)
(***************************************************************************)
EXTENDS Totals, Functions, SequencesExt

CONSTANTS
    SourceFiles,   \* of the repository, sequences of path segments
    Formats,       \* how a repository is measured:
                   \*   format: "cobertura_xml", "lcov" or "go_coverprofile",
                   \*   style: how the report names files, see PathIn,
                   \*   workingDir, modulePath: path segments
    MinTotals, MaxDrops, MinChanged, \* settings of the policy
    NoLimit, NoFile,
    BaseReports,   \* what base revisions may measure, pairs covered, total
    TiesDown,      \* percentages midway between two hundredths that are rounded
                   \* down, as floating point has it: what of, covered, total
    MaxLines,      \* bound: lines measured on the head
    MaxRepeated    \* bound: lines counted once more than the report has them

Percentages == {p \in Nat : p <= 10000}

ASSUME CoverageAssumption ==
    /\ IsFiniteSet(SourceFiles) /\ NoFile \notin SourceFiles
    /\ \A m \in Formats : m.format \in {"cobertura_xml", "lcov", "go_coverprofile"}
    /\ MinTotals \cup MinChanged \subseteq Percentages
    /\ NoLimit \in Int /\ NoLimit < 0 /\ MaxDrops \subseteq Percentages \cup {NoLimit}
    /\ BaseReports \subseteq Nat \X Nat /\ \A r \in BaseReports : r[1] <= r[2]
    /\ \A tie \in TiesDown :
          /\ tie[3] \in Nat \ {0} /\ tie[2] \in 0..tie[3]
          /\ (20000 * tie[2] + tie[3]) % (2 * tie[3]) = 0
    /\ MaxLines \in Nat /\ MaxRepeated \in Nat

VARIABLES
    measure,     \* how the repository is measured
    thresholds,  \* of the quality gate config
    stage, testsFailed,
    told,        \* history: what the head's report says of each file
    twice,       \* history: files of which it tells in two LCOV records, or
                 \* some of whose lines it has twice
    reader,      \* the record an LCOV report is at
    files,       \* CoverageReport.files
    base,        \* the base revision's coverage, NoLimit when not measured
    changed, pending,     \* changed source files, and those to look up
    sums, unmatched,      \* what was looked up
    outcome

vars == <<measure, thresholds, stage, testsFailed, told, twice, reader, files, base,
          changed, pending, sums, unmatched, outcome>>
settings == <<measure, thresholds, changed>>
report == <<told, twice>>

Count == [there : BOOLEAN, covered : Nat, total : Nat]
Absent == [there |-> FALSE, covered |-> 0, total |-> 0]
NoRecord == [file |-> NoFile, covered |-> 0, total |-> 0]
Rules == {"total", "drop", "changed"}

(* Mutant of Hundredths: the ratio is turned round.                        *)
HundredthsOfMissed(of, covered, total) ==
    IF covered = 0 THEN 0 ELSE (20000 * total + covered) \div (2 * covered)
(* round(100 * covered / total, 2).                                        *)
Hundredths(of, covered, total) ==
    IF total = 0 THEN 0
    ELSE (20000 * covered + total) \div (2 * total)
         - (IF <<of, covered, total>> \in TiesDown THEN 1 ELSE 0)

(* calculate_total.                                                        *)
Covered(counts, of) == TotalOf([f \in of |-> counts[f].covered])
Total(counts, of) == TotalOf([f \in of |-> counts[f].total])
TotalCoverage(counts) ==
    Hundredths("total", Covered(counts, SourceFiles), Total(counts, SourceFiles))

TypeOK ==
    /\ measure \in Formats
    /\ thresholds \in [minTotal : MinTotals, maxDrop : MaxDrops, minChanged : MinChanged]
    /\ stage \in {"commands", "report", "base", "match", "done"}
    /\ testsFailed \in BOOLEAN
    /\ told \in [SourceFiles -> Count] /\ twice \subseteq SourceFiles
    /\ files \in [SourceFiles -> Count]
    /\ reader \in [file : SourceFiles \cup {NoFile}, covered : Nat, total : Nat]
    /\ base \in Percentages \cup {NoLimit}
    /\ pending \subseteq changed /\ unmatched \subseteq changed /\ changed \subseteq SourceFiles
    /\ sums \in [covered : Nat, total : Nat] /\ sums.covered <= sums.total
    /\ outcome \in [status : {"none", "error", "pass", "fail"}, broken : SUBSET Rules]

Init ==
    /\ measure \in Formats
    /\ thresholds \in [minTotal : MinTotals, maxDrop : MaxDrops, minChanged : MinChanged]
    /\ stage = "commands" /\ testsFailed = FALSE
    /\ told = [f \in SourceFiles |-> Absent] /\ twice = {} /\ files = told
    /\ reader = NoRecord
    /\ base = NoLimit
    /\ changed \in SUBSET SourceFiles /\ pending = changed
    /\ sums = [covered |-> 0, total |-> 0] /\ unmatched = {}
    /\ outcome = [status |-> "none", broken |-> {}]

-----------------------------------------------------------------------------
(* The head revision                                                       *)

(* The exit code of the test command decides nothing.                      *)
RunCommands ==
    /\ stage = "commands" /\ stage' = "report"
    /\ testsFailed' \in BOOLEAN
    /\ UNCHANGED <<settings, report, reader, files, base, pending, sums, unmatched, outcome>>

(* The installation fails, the report is missing or cannot be parsed.      *)
RevisionFails ==
    /\ stage \in {"commands", "report", "base"}
    /\ stage' = "done"
    /\ outcome' = [status |-> "error", broken |-> {}]
    /\ testsFailed' \in {testsFailed, TRUE}
    /\ UNCHANGED <<settings, report, reader, files, base, pending, sums, unmatched>>

Reading(format) == stage = "report" /\ measure.format = format
Told(f, covered, total) ==
    /\ Total(told, SourceFiles) + total <= MaxLines
    /\ told' = [told EXCEPT ![f] = [there |-> TRUE, covered |-> @.covered + covered,
                                    total |-> @.total + total]]
Read == UNCHANGED <<settings, stage, testsFailed, base, pending, sums, unmatched, outcome>>

(* Mutant of FlushReader: the counters go on into the next record.         *)
FlushReaderKeepingCounts == [reader EXCEPT !.file = NoFile]
(* flush of parse_lcov.                                                    *)
FlushReader == IF reader.file = NoFile THEN reader ELSE NoRecord
FlushedFiles ==
    IF reader.file = NoFile THEN files
    ELSE [files EXCEPT ![reader.file] =
              [there |-> TRUE, covered |-> reader.covered, total |-> reader.total]]

(* SF: a record may lack its end.  The record of a file that has one takes *)
(* its place.                                                              *)
ReadSourceFile(f) ==
    /\ Reading("lcov")
    /\ Told(f, 0, 0)
    /\ twice' = IF told[f].there THEN twice \cup {f} ELSE twice
    /\ files' = FlushedFiles
    /\ reader' = [FlushReader EXCEPT !.file = f]
    /\ Read

(* DA.                                                                     *)
ReadLine(covered) ==
    /\ Reading("lcov") /\ reader.file # NoFile
    /\ Told(reader.file, covered, 1)
    /\ reader' = [reader EXCEPT !.covered = @ + covered, !.total = @ + 1]
    /\ UNCHANGED <<twice, files>>
    /\ Read

(* LF and LH of a record without lines; after lines they repeat the count. *)
ReadSummary(covered, total) ==
    /\ Reading("lcov") /\ reader.file # NoFile /\ reader.total = 0
    /\ Told(reader.file, covered, total)
    /\ reader' = [reader EXCEPT !.covered = covered, !.total = total]
    /\ UNCHANGED <<twice, files>>
    /\ Read

EndRecord ==
    /\ Reading("lcov") /\ reader.file # NoFile
    /\ files' = FlushedFiles
    /\ reader' = FlushReader
    /\ UNCHANGED report
    /\ Read

Accumulated(count, covered, total) ==
    [there |-> TRUE, covered |-> count.covered + covered, total |-> count.total + total]

(* A class element of Cobertura, or a block of a Go cover profile, whose   *)
(* statements are covered together.                                        *)
ReadElement(f, covered, total) ==
    /\ \/ Reading("cobertura_xml")
       \/ Reading("go_coverprofile") /\ covered \in {0, total}
    /\ Told(f, covered, total)
    /\ files' = [files EXCEPT ![f] = Accumulated(@, covered, total)]
    /\ UNCHANGED <<twice, reader>>
    /\ Read

(* Lines of the file that are counted again: those of a Cobertura class's  *)
(* methods, being below the class, and the blocks that a Go profile of     *)
(* several test runs repeats.                                              *)
RepeatElement(f, covered, total) ==
    /\ \/ /\ Reading("cobertura_xml") /\ covered <= told[f].covered
          /\ total - covered <= told[f].total - told[f].covered
       \/ Reading("go_coverprofile") /\ covered \in {0, total} /\ total <= told[f].total
    /\ told[f].there
    /\ Total(files, SourceFiles) + total <= Total(told, SourceFiles) + MaxRepeated
    /\ files' = [files EXCEPT ![f] = Accumulated(@, covered, total)]
    /\ twice' = twice \cup {f}
    /\ UNCHANGED <<told, reader>>
    /\ Read

FinishReport ==
    /\ stage = "report"
    /\ files' = FlushedFiles
    /\ reader' = FlushReader
    /\ stage' = IF thresholds.maxDrop = NoLimit THEN "match" ELSE "base"
    /\ UNCHANGED <<settings, testsFailed, report, base, pending, sums, unmatched, outcome>>

MeasureBase ==
    /\ stage = "base" /\ stage' = "match"
    /\ \E r \in BaseReports : base' = Hundredths("total", r[1], r[2])
    /\ UNCHANGED <<settings, testsFailed, report, reader, files, pending, sums, unmatched, outcome>>

-----------------------------------------------------------------------------
(* The changed files                                                       *)

(* Where the report has a file, by its path in the repository, in the      *)
(* working directory, or in the module.                                    *)
InWorkingDir(m, f) == IsStrictPrefix(m.workingDir, f)
Within(m, f) == IF InWorkingDir(m, f) THEN SubSeq(f, Len(m.workingDir) + 1, Len(f)) ELSE f
PathIn(m, f) == CASE m.style = "repository" -> f
                  [] m.style = "working" -> Within(m, f)
                  [] m.style = "module" -> m.modulePath \o f

(* _lookup_coverage: a key of _match_keys, or else the first entry that    *)
(* ends with the changed path or that the changed path ends with; which    *)
(* of several is met first is left open.                                   *)
IsKeyOf(m, f, g) == PathIn(m, g) \in {f, Within(m, f)}
EndsLike(m, f, g) == IsStrictSuffix(f, PathIn(m, g)) \/ IsStrictSuffix(PathIn(m, g), f)
Exact(f) == {g \in SourceFiles : files[g].there /\ IsKeyOf(measure, f, g)}
BySuffix(f) == {g \in SourceFiles : files[g].there /\ EndsLike(measure, f, g)}
Candidates(f) == IF Exact(f) # {} THEN Exact(f) ELSE BySuffix(f)

(* calculate_changed_files_coverage.                                       *)
MatchFile(f) ==
    /\ stage = "match" /\ f \in pending
    /\ pending' = pending \ {f}
    /\ \/ /\ Candidates(f) = {}
          /\ unmatched' = unmatched \cup {f}
          /\ UNCHANGED sums
       \/ /\ \E g \in Candidates(f) :
                sums' = [covered |-> sums.covered + files[g].covered,
                         total |-> sums.total + files[g].total]
          /\ UNCHANGED unmatched
    /\ UNCHANGED <<settings, stage, testsFailed, report, reader, files, base, outcome>>

-----------------------------------------------------------------------------
(* The policy                                                              *)

(* Mutant of Drop: how far the coverages are apart.                        *)
DropEitherWay(total) ==
    IF base = NoLimit THEN 0 ELSE IF total < base THEN base - total ELSE total - base
Drop(total) == IF base = NoLimit THEN 0 ELSE base - total

(* Mutant of BrokenRules: the minimum itself is too little.                *)
BrokenRulesAtMinimum(total, changedCoverage) ==
    (IF total <= thresholds.minTotal THEN {"total"} ELSE {})
    \cup (IF base # NoLimit /\ Drop(total) > thresholds.maxDrop THEN {"drop"} ELSE {})
    \cup (IF changedCoverage \in 0..thresholds.minChanged - 1 THEN {"changed"} ELSE {})
(* apply_coverage_policy; changedCoverage is NoLimit when nothing was      *)
(* measured of the changed files.                                          *)
BrokenRules(total, changedCoverage) ==
    (IF total < thresholds.minTotal THEN {"total"} ELSE {})
    \cup (IF base # NoLimit /\ Drop(total) > thresholds.maxDrop THEN {"drop"} ELSE {})
    \cup (IF changedCoverage \in 0..thresholds.minChanged - 1 THEN {"changed"} ELSE {})

ChangedCoverage(counts) ==
    IF counts.total = 0 THEN NoLimit
    ELSE Hundredths("changed", counts.covered, counts.total)

ApplyPolicy ==
    /\ stage = "match" /\ pending = {}
    /\ stage' = "done"
    /\ LET broken == BrokenRules(TotalCoverage(files), ChangedCoverage(sums))
       IN outcome' = [status |-> IF broken = {} THEN "pass" ELSE "fail", broken |-> broken]
    /\ UNCHANGED <<settings, testsFailed, report, reader, files, base, pending, sums,
                   unmatched>>

-----------------------------------------------------------------------------
Next ==
    \/ RunCommands \/ RevisionFails
    \/ \E f \in SourceFiles : ReadSourceFile(f) \/ MatchFile(f)
    \/ \E c \in 0..1 : ReadLine(c)
    \/ \E t \in 0..2 : \E c \in 0..t :
          \/ ReadSummary(c, t)
          \/ \E f \in SourceFiles : ReadElement(f, c, t) \/ RepeatElement(f, c, t)
    \/ EndRecord \/ FinishReport \/ MeasureBase \/ ApplyPolicy

Spec == Init /\ [][Next]_vars

-----------------------------------------------------------------------------
(* Properties                                                              *)

(* Whatever the format, in whatever order and in however many pieces the   *)
(* report tells of the files, the parser ends with what the report says of *)
(* every file it tells of once.  No file of the report is lost; of a file  *)
(* that is told twice the last LCOV record is left, and lines that another *)
(* report has twice count twice.                                           *)
ReportIsReadFaithfully ==
    stage \in {"base", "match"}
    => \A f \in SourceFiles :
          /\ files[f].there = told[f].there
          /\ f \notin twice => files[f] = told[f]
          /\ IF measure.format = "lcov" THEN files[f].total <= told[f].total
             ELSE files[f].total >= told[f].total

(* A percentage is below a minimum, of the exact ratio: half a hundredth   *)
(* of a percent is allowed.                                                *)
Below(of, covered, total, minimum) ==
    \/ 20000 * covered < (2 * minimum - 1) * total
    \/ <<of, covered, total>> \in TiesDown /\ 20000 * covered = (2 * minimum - 1) * total

(* The rules that are broken by what the report says, without the parser's *)
(* and the matching's intermediate results.  Changed files that the report *)
(* omits are left out, as the code and its tests have it; what ADR 0021    *)
(* decides for them is OmittedFilesCountAsZero.                            *)
BrokenByMeasurement ==
    LET known == {f \in changed : told[f].there}
        covered == Covered(told, SourceFiles)
        total == Total(told, SourceFiles)
    IN {rule \in Rules :
          \/ /\ rule = "total"
             /\ IF total = 0 THEN thresholds.minTotal > 0
                ELSE Below("total", covered, total, thresholds.minTotal)
          \/ /\ rule = "drop" /\ thresholds.maxDrop # NoLimit
             /\ IF total = 0 THEN base > thresholds.maxDrop
                ELSE Below("total", covered, total, base - thresholds.maxDrop)
          \/ /\ rule = "changed"
             /\ Below("changed", Covered(told, known), Total(told, known),
                      thresholds.minChanged)}

(* Files are found under their own names in such reports, and no file      *)
(* under the name of another one.                                          *)
NamesAreOwn(m) ==
    \A f, g \in SourceFiles : IsKeyOf(m, f, g) \/ EndsLike(m, f, g) <=> f = g

(* The gate fails exactly when it names a rule, and the rules it names are *)
(* those that the measured coverage breaks: for the whole, if the report   *)
(* tells no file twice; for the changed files, if it tells none of them    *)
(* twice and the names of files are their own.                             *)
VerdictFollowsMeasurement ==
    outcome.status \in {"pass", "fail"}
    => /\ outcome.status = "fail" <=> outcome.broken # {}
       /\ twice = {} => outcome.broken \ {"changed"} = BrokenByMeasurement \ {"changed"}
       /\ NamesAreOwn(measure) /\ changed \cap twice = {}
             => ("changed" \in outcome.broken <=> "changed" \in BrokenByMeasurement)

(* Covering one line more breaks no rule that was kept.                    *)
MoreCoverageBreaksNothing ==
    outcome.status \in {"pass", "fail"}
    => \A f \in {g \in SourceFiles : files[g].covered < files[g].total} :
          LET more == [files EXCEPT ![f].covered = @ + 1]
              changedMore == IF sums.covered < sums.total
                             THEN [sums EXCEPT !.covered = @ + 1] ELSE sums
          IN \A c \in {sums, changedMore} :
                BrokenRules(TotalCoverage(more), ChangedCoverage(c)) \subseteq outcome.broken

(* A coverage verdict is of what was measured: the parsers end with what   *)
(* the report says of the files it tells once, in however many pieces and  *)
(* with however many records left open, and lose no file; the gate fails   *)
(* exactly when the coverage measured breaks a rule, and names those that  *)
(* are broken; and covering one line more breaks no rule that was kept.    *)
CoverageVerdictIsMeasured ==
    ReportIsReadFaithfully /\ VerdictFollowsMeasurement /\ MoreCoverageBreaksNothing

(* ADR 0021 for a change none of whose files is in the report: it has 0%   *)
(* coverage, and breaks the rule for changed files unless that asks for    *)
(* nothing.  The code measures nothing then, and the rule is kept.         *)
OmittedFilesCountAsZero ==
    /\ outcome.status \in {"pass", "fail"}
    /\ changed # {} /\ \A f \in changed : ~told[f].there
    /\ thresholds.minChanged > 0
    => "changed" \in outcome.broken
=============================================================================
