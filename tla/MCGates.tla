-------------------------------- MODULE MCGates --------------------------------
(* The three gates of an execution for TLC.  _run_pipeline runs them one   *)
(* after the other and they share no state, so each is checked by itself:  *)
(* gate says whose behaviour this is, and the others stay as they may      *)
(* begin.  Each gate has several settings.                                 *)
EXTENDS CoverageGate, TechnicalDebtGate, SecurityGate

CONSTANTS f1, f2

VARIABLE gate

-----------------------------------------------------------------------------
(* Coverage: a working directory "app" with two files, or a Go module.     *)
AppFiles == {<<"app", "a">>, <<"app", "lib", "b">>}
Measured(format, style, dir) ==
    [format |-> format, style |-> style, workingDir |-> dir, modulePath |-> <<"mod">>]
Lcov == Measured("lcov", "working", <<"app">>)
Cobertura == Measured("cobertura_xml", "repository", <<"app">>)
GoProfile == Measured("go_coverprofile", "module", <<>>)
ReportFormats == {Lcov, Cobertura, GoProfile}
Measurements == {<<1, 3>>, <<2, 2>>}
Unlimited == -1
DropLimits == {Unlimited, 0, 3334}
CoverageInit ==
    /\ Init
    /\ thresholds.minTotal = 5000 \/ thresholds.maxDrop = 0
       => measure = Lcov /\ thresholds.minChanged = 0 /\ changed = {}

ASSUME FilesHaveTheirNames == \A m \in ReportFormats : NamesAreOwn(m)

-----------------------------------------------------------------------------
(* Technical debt: files that are deleted on the head, have a syntax       *)
(* error or bytes that are not UTF-8, or have functions that are long,     *)
(* complex or nested.                                                      *)
File(read, functions) == [there |-> TRUE, read |-> read, functions |-> functions]
Text(functions) == File("well", functions)
Fun(first, last, branches) ==
    [first |-> first, last |-> last, branches |-> branches, plain |-> TRUE]
Deleted == [there |-> FALSE, read |-> "error", functions |-> {}]
Unparsable == File("error", {})
Undecodable == File("raises", {})
PythonSources ==
    {Deleted, Unparsable, Undecodable, Text({Fun(1, 3, 1)}), Text({Fun(1, 2, 0), Fun(4, 4, 2)}),
     Text({Fun(1, 3, 1), Fun(2, 3, 1)})}
BraceSources == {Deleted, Unparsable, Undecodable, Text({})}

PythonDebt ==
    [language |-> "python", files |-> {f1, f2}, sources |-> PythonSources, quirks |-> {},
     lengths |-> {2, 3}, maxPatch |-> 3, maxSource |-> 0]
BraceDebt ==
    [language |-> "go", files |-> {f1}, sources |-> BraceSources, quirks |-> {},
     lengths |-> {2, 4}, maxPatch |-> 2, maxSource |-> 6]
AnyPatchDebt ==
    [language |-> "javascript", files |-> {f1}, sources |-> BraceSources,
     quirks |-> {"plus", "no_newline"},
     lengths |-> {2}, maxPatch |-> 3, maxSource |-> 4]
ChangeSets == {PythonDebt, BraceDebt, AnyPatchDebt}

-----------------------------------------------------------------------------
(* Security: the default policy, lists, one of them empty, dictionaries    *)
(* that switch severities, and a value of another kind.                    *)
Policy(form, on, off) == [form |-> form, on |-> on, off |-> off]
FailOn ==
    {Policy("list", {"critical", "high"}, {}), Policy("list", {}, {}),
     Policy("list", {"medium"}, {}), Policy("dict", {"critical"}, {"high"}),
     Policy("dict", {"critical", "high"}, {"low"}), Policy("other", {}, {})}

MostItems == [l \in {"python", "go"} |-> IF l = "go" THEN 2 ELSE 1]

-----------------------------------------------------------------------------
(* A gate that does not run.                                               *)
NoCoverage ==
    /\ Init /\ measure = Lcov /\ changed = {}
    /\ thresholds = [minTotal |-> 0, maxDrop |-> Unlimited, minChanged |-> 0]
NoDebt ==
    /\ DebtInit /\ setup = AnyPatchDebt /\ patched = {} /\ ~diff
    /\ ~limits.failOnTodo /\ head = [f \in {f1} |-> Deleted]
NoSecurity ==
    SecurityInit /\ language = "go" /\ policy = Policy("other", {}, {})

GatesInit ==
    \/ gate = "coverage" /\ CoverageInit /\ NoDebt /\ NoSecurity
    \/ gate = "debt" /\ DebtInit /\ NoCoverage /\ NoSecurity
    \/ gate = "security" /\ SecurityInit /\ NoCoverage /\ NoDebt

GatesNext ==
    \/ gate = "coverage" /\ Next /\ UNCHANGED <<gate, debtVars, securityVars>>
    \/ gate = "debt" /\ DebtNext /\ UNCHANGED <<gate, vars, securityVars>>
    \/ gate = "security" /\ SecurityNext /\ UNCHANGED <<gate, vars, debtVars>>

GatesSpec == GatesInit /\ [][GatesNext]_<<gate, vars, debtVars, securityVars>>

(* The types of the three gates.                                           *)
GatesTypeOK == TypeOK /\ DebtTypeOK /\ SecurityTypeOK

-----------------------------------------------------------------------------
(* The sum that the units of TotalOf count.                                *)
ASSUME TotalsAreSums ==
    \A S \in SUBSET {"a", "b", "c"} : \A n \in [S -> 0..3] : TotalOf(n) = SumFunction(n)
=============================================================================
