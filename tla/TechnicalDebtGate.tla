--------------------------- MODULE TechnicalDebtGate ---------------------------
(***************************************************************************)
(* The technical debt gate: new TODO markers are looked for in the patches *)
(* of the changed files, then the changed files of the head revision are   *)
(* searched for functions over the limits, Python files in their syntax    *)
(* tree and files of the other languages line by line.                     *)
(*                                                                         *)
(* GitHub's patches and the source files are written line by line as the   *)
(* gate reads them; added, open and head keep what is true of them.        *)
(***************************************************************************)
EXTENDS Totals, Functions, SequencesExt

CONSTANTS
    Setups,         \* what gates are run on:
                    \*   language: "python" or a language with braces,
                    \*   files: the changed source files,
                    \*   sources: what such a file may be on the head, see Source,
                    \*   quirks: of "plus", "no_newline", the forms that occur,
                    \*   lengths: of functions, that the policy may allow,
                    \*   maxPatch, maxSource: bounds, lines read
    MaxComplexity,
    MaxGap          \* bound: lines between hunks

(* A function has its first and last line and the branches directly in it; *)
(* plain says that the analysis of the language looks for its form: in     *)
(* Python each, with braces one that BRACE_FUNCTION_PATTERN matches, that  *)
(* has its brace on that line, and that lies in no other such function.    *)
(* Reading a file ends well, with an OSError or a SyntaxError, or with     *)
(* another exception, such as that of bytes that are not UTF-8.            *)
(* The functions of a file with braces are written line by line.           *)
Function == [first : Nat, last : Nat, branches : Nat, plain : BOOLEAN]
Source == [there : BOOLEAN, read : {"well", "error", "raises"}, functions : SUBSET Function]

ASSUME DebtAssumption ==
    /\ \A s \in Setups :
          /\ s.lengths \subseteq Nat \ {0} /\ s.maxPatch \in Nat /\ s.maxSource \in Nat
          /\ s.sources \subseteq Source
          /\ \A text \in s.sources :
                /\ IsFiniteSet(text.functions)
                /\ \A g \in text.functions : 1 <= g.first /\ g.first <= g.last
                /\ text.functions # {} =>
                      s.language = "python" /\ text.there /\ text.read = "well"
                /\ \A g \in text.functions : g.plain
    /\ MaxComplexity \in Nat \ {0} /\ MaxGap \in Nat

VARIABLES
    setup,      \* of Setups
    limits,     \* failOnTodo and maxLines of the quality gate config
    patched,    \* files whose patch GitHub includes
    diff,       \* whether the run has a diff snapshot
    head,       \* history: the changed files on the head revision
    phase, todo, file,   \* todo: files the loop has not reached
    line,       \* current_line of the patch, index in the source
    depth, start,        \* of the block that is followed, start 0 for none
    position,   \* history: lines of the head the patch has passed
    added,      \* history: places of the markers that are added
    open,       \* history: where the nested blocks begin, and which are functions
    signature,  \* history: where the function begins whose brace is to come, or 0
    findings, decision

debtVars == <<setup, limits, patched, diff, head, phase, todo, file, line, depth, start,
              position, added, open, signature, findings, decision>>
debtGiven == <<setup, limits, patched, diff>>
reading == <<line, depth, start, position, open, signature>>

Finding(kind, l, blocking) == [kind |-> kind, file |-> file, line |-> l, blocking |-> blocking]
Length(f) == f.last - f.first + 1

(* Mutant of Complexity: without the functions inside.                     *)
ComplexityAlone(f, functions) == 1 + f.branches
(* _python_complexity counts the branches of the functions inside too.     *)
Complexity(f, functions) ==
    LET inside == {g \in functions : g.first >= f.first /\ g.last <= f.last}
    IN 1 + TotalOf([g \in inside |-> g.branches])

Kinds == {"block", "function", "plain"}

DebtTypeOK ==
    /\ setup \in Setups
    /\ limits \in [failOnTodo : BOOLEAN, maxLines : setup.lengths]
    /\ patched \subseteq setup.files /\ diff \in BOOLEAN
    /\ head \in [setup.files -> Source]
    /\ \A f \in setup.files : \A g \in head[f].functions : 1 <= g.first /\ g.first <= g.last
    /\ phase \in {"todos", "patch", "functions", "scan", "done"}
    /\ todo \subseteq setup.files
    /\ phase \in {"patch", "scan"} => file \in setup.files \ todo
    /\ line \in Nat /\ position \in Nat /\ depth \in 0..line /\ start \in 0..line
    /\ added \subseteq setup.files \X (Nat \ {0})
    /\ open \in Seq([first : 1..line, kind : Kinds]) /\ signature \in 0..line
    /\ \A x \in findings : /\ x.kind \in {"todo", "length", "complexity"}
                           /\ x.file \in setup.files /\ x.line \in Nat \ {0}
                           /\ x.blocking \in BOOLEAN
    /\ decision \in {"none", "error", "raised", "pass", "fail"}

Rewind == /\ line' = 0 /\ depth' = 0 /\ start' = 0 /\ position' = 0
          /\ open' = <<>> /\ signature' = 0

DebtInit ==
    /\ setup \in Setups
    /\ limits \in [failOnTodo : BOOLEAN, maxLines : setup.lengths]
    /\ patched \in SUBSET setup.files /\ diff \in BOOLEAN
    /\ head \in [setup.files -> setup.sources]
    /\ phase = "todos" /\ todo = setup.files /\ file = CHOOSE f \in setup.files : TRUE
    /\ line = 0 /\ depth = 0 /\ start = 0 /\ position = 0
    /\ open = <<>> /\ signature = 0
    /\ added = {} /\ findings = {} /\ decision = "none"

EndGate(result) == phase' = "done" /\ decision' = result

-----------------------------------------------------------------------------
(* New markers                                                             *)

Evidence == diff \/ patched # {}

(* validate_diff_evidence.                                                 *)
RefuseEvidence ==
    /\ phase = "todos" /\ todo = setup.files /\ ~Evidence
    /\ EndGate("error")
    /\ UNCHANGED <<debtGiven, head, todo, file, added, findings, reading>>

(* A file without a patch is passed over, whatever it adds.                *)
OpenPatch(f) ==
    /\ phase = "todos" /\ f \in todo /\ Evidence
    /\ todo' = todo \ {f} /\ file' = f
    /\ IF f \in patched
       THEN phase' = "patch" /\ UNCHANGED added
       ELSE phase' = "todos" /\ added' \in {added, added \cup {<<f, 1>>}}
    /\ Rewind
    /\ UNCHANGED <<debtGiven, head, findings, decision>>

(* One line of the patch moves the file's position by passed and the       *)
(* gate's line by counted; a marker is added to the head and is found.     *)
ReadPatch(passed, counted, marker, found) ==
    /\ phase = "patch" /\ line < setup.maxPatch
    /\ position' = position + passed
    /\ line' = line + counted
    /\ added' = IF marker THEN added \cup {<<file, position'>>} ELSE added
    /\ findings' = IF found THEN findings \cup {Finding("todo", line', limits.failOnTodo)}
                   ELSE findings
    /\ UNCHANGED <<debtGiven, head, phase, todo, file, depth, start, open, signature, decision>>

HunkLine(hunk) == hunk

HunkHeader(gap) ==
    /\ phase = "patch" /\ line < setup.maxPatch /\ gap > 0
    /\ position' = position + gap
    /\ line' = HunkLine(position')
    /\ UNCHANGED <<debtGiven, head, phase, todo, file, depth, start, open, signature, added,
                   findings, decision>>
AddedLine(marker) == ReadPatch(1, 1, marker, marker)
(* Mutant of ContextLine: markers that were there before are found.        *)
ContextLineSearched == ReadPatch(1, 1, FALSE, TRUE)
ContextLine == ReadPatch(1, 1, FALSE, FALSE)
(* Mutant of RemovedLine: it counts like any other line.                   *)
RemovedLineCounted == ReadPatch(0, 1, FALSE, FALSE)
(* Whether it holds a marker makes no difference.                          *)
RemovedLine == ReadPatch(0, 0, FALSE, FALSE)
(* An added line whose own text begins with two plus signs.                *)
AddedPlusLine(marker) == "plus" \in setup.quirks /\ ReadPatch(1, 1, marker, FALSE)
(* "\ No newline at end of file", after a removed line.                    *)
NoNewlineLine == "no_newline" \in setup.quirks /\ ReadPatch(0, 1, FALSE, FALSE)

EndPatch ==
    /\ phase = "patch" /\ phase' = "todos"
    /\ Rewind
    /\ UNCHANGED <<debtGiven, head, todo, file, added, findings, decision>>

-----------------------------------------------------------------------------
(* Long and complex functions                                              *)

(* The head revision is prepared; this may fail, with a RunnerError or     *)
(* with an exception that leaves the gate.                                 *)
PrepareDebtHead ==
    /\ phase = "todos" /\ todo = {} /\ Evidence
    /\ \/ phase' = "functions" /\ todo' = setup.files /\ UNCHANGED decision
       \/ \E result \in {"error", "raised"} : EndGate(result) /\ UNCHANGED todo
    /\ UNCHANGED <<debtGiven, head, file, added, findings, reading>>

(* A file that is not on the head, having been deleted, is passed over.    *)
SkipFile(f) ==
    /\ phase = "functions" /\ f \in todo /\ ~head[f].there
    /\ todo' = todo \ {f}
    /\ UNCHANGED <<debtGiven, head, phase, file, added, findings, decision, reading>>

TakeFile(f) == phase = "functions" /\ f \in todo /\ head[f].there /\ todo' = todo \ {f} /\ file' = f

(* The exceptions of reading and parsing a file that end the gate; others  *)
(* leave it.                                                               *)
FailToRead(f) == EndGate(IF head[f].read = "error" THEN "error" ELSE "raised")

(* Mutant of TooLong: as many lines as allowed are too many.               *)
TooLongAtLimit(lines) == lines >= limits.maxLines
TooLong(lines) == lines > limits.maxLines

(* analyze_python_file.                                                    *)
AnalyzePythonFile(f) ==
    /\ setup.language = "python" /\ TakeFile(f)
    /\ IF head[f].read = "well"
       THEN LET functions == head[f].functions
                long == {g \in functions : TooLong(Length(g))}
                complex == {g \in functions : Complexity(g, functions) > MaxComplexity}
            IN /\ findings' = findings
                     \cup {[kind |-> "length", file |-> f, line |-> g.first, blocking |-> TRUE] :
                            g \in long}
                     \cup {[kind |-> "complexity", file |-> f, line |-> g.first,
                            blocking |-> TRUE] : g \in complex}
               /\ UNCHANGED <<phase, decision>>
       ELSE FailToRead(f) /\ UNCHANGED findings
    /\ UNCHANGED <<debtGiven, head, added, reading>>

(* analyze_brace_language_file.                                            *)
OpenSource(f) ==
    /\ setup.language # "python" /\ TakeFile(f)
    /\ IF head[f].read = "well"
       THEN phase' = "scan" /\ Rewind /\ UNCHANGED decision
       ELSE FailToRead(f) /\ UNCHANGED reading
    /\ UNCHANGED <<debtGiven, head, added, findings>>

LengthFinding(first, last) ==
    IF TooLong(last - first + 1) THEN {Finding("length", first, FALSE)} ELSE {}

(* Mutant of BlockEnds: the first block that closes ends the function.     *)
BlockEndsAtFirst(before, after) == after <= 0 \/ after < before
BlockEnds(before, after) == after <= 0

(* The scan takes a line whose opening braces exceed its closing ones by   *)
(* net and which matches BRACE_FUNCTION_PATTERN or not.                    *)
Scan(net, matches) ==
    LET first == IF start = 0 /\ matches THEN line + 1 ELSE start
        deeper == depth + net
    IN IF first = 0 THEN UNCHANGED <<depth, start, findings>>
       ELSE IF BlockEnds(depth, deeper)
       THEN /\ findings' = findings \cup LengthFinding(first, line + 1)
            /\ depth' = 0 /\ start' = 0
       ELSE depth' = deeper /\ start' = first /\ UNCHANGED findings

ReadSource(net, matches) ==
    /\ phase = "scan" /\ line < setup.maxSource
    /\ line' = line + 1
    /\ Scan(net, matches)
    /\ UNCHANGED <<debtGiven, phase, todo, file, position, added, decision>>

Opening(first, kind) == Append(open, [first |-> first, kind |-> kind])
InPlain == \E i \in 1..Len(open) : open[i].kind = "plain"

(* The author of the file writes it: lines that open and close nothing,    *)
(* among them functions of one line,                                       *)
PlainLine(matches) == ReadSource(0, matches) /\ UNCHANGED <<head, open, signature>>
(* a function whose brace is on a later line, for the pattern or not,      *)
SignatureLine(matches) ==
    /\ signature = 0
    /\ ReadSource(0, matches) /\ UNCHANGED <<head, open>>
    /\ signature' = line + 1
(* a line that opens a block, that of the function whose brace is to come  *)
(* if there is one,                                                        *)
BlockLine ==
    /\ ReadSource(1, FALSE) /\ UNCHANGED head
    /\ open' = IF signature = 0 THEN Opening(line + 1, "block")
               ELSE Opening(signature, "function")
    /\ signature' = 0
(* a function with its brace, for the pattern or not,                      *)
FunctionLine(matches) ==
    /\ signature = 0
    /\ ReadSource(1, matches) /\ UNCHANGED <<head, signature>>
    /\ open' = Opening(line + 1, IF matches /\ ~InPlain THEN "plain" ELSE "function")
(* and a line that closes a block, or ends a function.                     *)
Ended(block) ==
    [first |-> block.first, last |-> line + 1, branches |-> 0, plain |-> block.kind = "plain"]
CloseLine ==
    /\ open # <<>> /\ signature = 0
    /\ ReadSource(-1, FALSE)
    /\ open' = Front(open)
    /\ head' = IF Last(open).kind = "block" THEN head
               ELSE [head EXCEPT ![file].functions = @ \cup {Ended(Last(open))}]
    /\ UNCHANGED signature

EndSource ==
    /\ phase = "scan" /\ open = <<>> /\ signature = 0
    /\ phase' = "functions"
    /\ findings' = IF start = 0 THEN findings ELSE findings \cup LengthFinding(start, line)
    /\ Rewind
    /\ UNCHANGED <<debtGiven, head, todo, file, added, decision>>

(* build_technical_debt_snapshot.                                          *)
Status == IF \E x \in findings : x.blocking THEN "fail" ELSE "pass"

BuildSnapshot ==
    /\ phase = "functions" /\ todo = {}
    /\ EndGate(Status)
    /\ UNCHANGED <<debtGiven, head, todo, file, added, findings, reading>>

-----------------------------------------------------------------------------
DebtNext ==
    \/ RefuseEvidence \/ PrepareDebtHead \/ BuildSnapshot
    \/ \E f \in setup.files : OpenPatch(f) \/ SkipFile(f) \/ AnalyzePythonFile(f) \/ OpenSource(f)
    \/ \E gap \in 1..MaxGap : HunkHeader(gap)
    \/ \E marker \in BOOLEAN : AddedLine(marker) \/ AddedPlusLine(marker)
    \/ ContextLine \/ RemovedLine \/ NoNewlineLine \/ EndPatch
    \/ \E matches \in BOOLEAN :
          PlainLine(matches) \/ SignatureLine(matches) \/ FunctionLine(matches)
    \/ BlockLine \/ CloseLine \/ EndSource

DebtSpec == DebtInit /\ [][DebtNext]_debtVars

-----------------------------------------------------------------------------
(* Properties                                                              *)

Todos == {<<x.file, x.line>> : x \in {y \in findings : y.kind = "todo"}}
InPatches == {p \in added : p[1] \in patched}

(* The markers the gate finds are those the patches add, each at its line  *)
(* of the head: not removed ones, not those of the context.                *)
FindsWhatPatchesAdd == setup.quirks \cap {"plus", "no_newline"} = {} => Todos = InPatches

(* However the patches are written, no marker is found that is not added.  *)
InventsNoMarkers == Cardinality(Todos) <= Cardinality(InPatches)

(* When a file has been looked at, the functions found too long are the    *)
(* plain ones that are, wherever they lie, whatever blocks they contain    *)
(* and whatever comes before them: functions of other forms too, whose     *)
(* length is not measured.                                                 *)
LinesFoundLong(f) == {x.line : x \in {y \in findings : y.kind = "length" /\ y.file = f}}
LongFunctions(f) == {g \in head[f].functions : Length(g) > limits.maxLines}
LinesOfLong(f) == {g.first : g \in {h \in LongFunctions(f) : h.plain}}
LongFunctionsAreFound ==
    phase = "functions" \/ decision \in {"pass", "fail"}
    => \A f \in setup.files \ todo : LinesFoundLong(f) = LinesOfLong(f)

(* The design of the gate: in every language functions above the limit are *)
(* detected.  Functions with their brace on a later line, and those that   *)
(* BRACE_FUNCTION_PATTERN does not know, are not.                          *)
DetectsFunctionsAboveLimit ==
    decision \in {"pass", "fail"}
    => \A f \in setup.files : \A g \in LongFunctions(f) :
          \/ g.first \in LinesFoundLong(f)
          \/ \E h \in LongFunctions(f) : h.first < g.first /\ g.last < h.last

(* What the policy calls a failure, of the files themselves: in Python a   *)
(* function is too long or, with all it contains, too complex.             *)
Overgrown(f) ==
    /\ setup.language = "python" /\ head[f].there
    /\ \E g \in head[f].functions :
          \/ Length(g) > limits.maxLines
          \/ \E inside \in SUBSET head[f].functions :
                /\ \A h \in inside : g.first <= h.first /\ h.last <= g.last
                /\ TotalOf([h \in inside |-> h.branches]) >= MaxComplexity

(* A gate that passes has looked at every changed file of the head: no     *)
(* patch adds a marker where that is a failure, each file can be read and  *)
(* no Python file is overgrown.                                            *)
PassMeansClean ==
    decision = "pass"
    => /\ limits.failOnTodo /\ "plus" \notin setup.quirks => InPatches = {}
       /\ \A f \in setup.files : ~Overgrown(f) /\ (head[f].there => head[f].read = "well")

(* A gate fails for what the pull request adds or for what its files are,  *)
(* never for markers that were there before, nor for a function of a       *)
(* language with braces.                                                   *)
FailureHasAReason ==
    decision = "fail" => \/ limits.failOnTodo /\ InPatches # {}
                         \/ \E f \in setup.files : Overgrown(f)

(* A debt verdict is of what the pull request adds and of what its files   *)
(* are: the markers that the patches add are found, at their lines, and no *)
(* others, however the patches are written; the plain functions that are   *)
(* too long are found, and nothing else is; the gate passes only when it   *)
(* has looked at every changed file of the head, and fails for a reason.   *)
DebtVerdictIsOfTheChange ==
    /\ FindsWhatPatchesAdd /\ InventsNoMarkers
    /\ LongFunctionsAreFound
    /\ PassMeansClean /\ FailureHasAReason
=============================================================================
