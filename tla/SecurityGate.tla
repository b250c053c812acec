----------------------------- MODULE SecurityGate -----------------------------
(***************************************************************************)
(* The security gate runs its scanners one after the other on the head     *)
(* revision, normalises what each reports to four severities and fails     *)
(* when a finding's severity is one the policy blocks.  A scanner's exit   *)
(* code is ignored: it may have found something, or failed.                *)
(***************************************************************************)
EXTENDS Integers, FiniteSets, Functions, SequencesExt

CONSTANTS
    LanguagesScanned, \* languages of the repositories
    Policies,         \* values of security_fail_on: lists of what is on, dictionaries
                      \* of what is on and off, or something else
    Words,            \* severities as the tools write them
    NotGiven,         \* a severity that is not given
    MaxItems          \* bound: items of one scanner's output, for each language

\* What is high or critical when a tool says it.
SevereWords == {"critical", "error", "high", "warning", "warn"}

ASSUME SecurityAssumption ==
    /\ NotGiven \notin Words \cup SevereWords
    /\ \A p \in Policies : p.form \in {"list", "dict", "other"}
    /\ MaxItems \in [LanguagesScanned -> Nat]

VARIABLES language, policy, headReady, ran, reported, found, verdict

securityVars == <<language, policy, headReady, ran, reported, found, verdict>>
given == <<language, policy>>

Severities == {"low", "medium", "high", "critical"}

(* _scanner_commands.                                                      *)
Scanners ==
    IF language = "python" THEN <<"semgrep", "detect-secrets", "bandit", "pip-audit">>
    ELSE <<"semgrep", "detect-secrets">>

(* Mutant of BlockingSeverities: switched off severities block too.        *)
BlockingOfKeys(value) ==
    IF value.form = "other" THEN {"critical", "high"} ELSE value.on \cup value.off
(* _blocking_severities.                                                   *)
BlockingSeverities(value) ==
    IF value.form = "other" THEN {"critical", "high"} ELSE value.on

(* _normalize_severity.                                                    *)
Normalized(word) ==
    CASE word = "critical" -> "critical"
      [] word \in {"error", "high", "warning", "warn"} -> "high"
      [] word \in {"medium", "moderate"} -> "medium"
      [] OTHER -> "low"

Given(word, default) == IF word = NotGiven THEN default ELSE word

(* Mutant of SeverityOf: the rule's severity goes before its impact.       *)
SeverityOfRule(scanner, item) ==
    CASE scanner = "semgrep" -> Normalized(Given(item.severity, Given(item.impact, "low")))
      [] scanner = "detect-secrets" -> "high"
      [] scanner = "bandit" -> Normalized(Given(item.severity, "low"))
      [] scanner = "pip-audit" -> Normalized(Given(item.severity, "high"))
(* normalize_semgrep, normalize_detect_secrets, normalize_bandit and       *)
(* normalize_pip_audit.                                                    *)
SeverityOf(scanner, item) ==
    CASE scanner = "semgrep" -> Normalized(Given(item.impact, Given(item.severity, "low")))
      [] scanner = "detect-secrets" -> "high"
      [] scanner = "bandit" -> Normalized(Given(item.severity, "low"))
      [] scanner = "pip-audit" -> Normalized(Given(item.severity, "high"))

(* An item of a scanner's output; only Semgrep's rules have an impact, and *)
(* detect-secrets gives no severity.                                       *)
ItemOf(scanner) ==
    [impact : IF scanner = "semgrep" THEN Words \cup {NotGiven} ELSE {NotGiven},
     severity : IF scanner = "detect-secrets" THEN {NotGiven} ELSE Words \cup {NotGiven}]

Found == [scanner : Range(Scanners), severity : Severities, blocking : BOOLEAN]
NoCounts == [s \in Severities |-> 0]

SecurityTypeOK ==
    /\ language \in LanguagesScanned /\ policy \in Policies /\ headReady \in BOOLEAN
    /\ IsPrefix(ran, Scanners)
    /\ \A i \in 1..Len(reported) : reported[i].scanner \in Range(ran)
    /\ found \in Seq(Found) /\ Len(found) = Len(reported)
    /\ verdict \in [status : {"none", "error", "raised", "pass", "fail"},
                    counts : [Severities -> Nat]]

SecurityInit ==
    /\ language \in LanguagesScanned /\ policy \in Policies /\ headReady = FALSE
    /\ ran = <<>> /\ reported = <<>> /\ found = <<>>
    /\ verdict = [status |-> "none", counts |-> NoCounts]

Running == verdict.status = "none"
Scanner == Scanners[Len(ran) + 1]
Conclude(status) == verdict' = [status |-> status, counts |-> NoCounts]

PrepareHead ==
    /\ Running /\ ~headReady
    /\ \/ headReady' = TRUE /\ UNCHANGED verdict
       \/ Conclude("error") /\ UNCHANGED headReady
    /\ UNCHANGED <<given, ran, reported, found>>

(* The scanner ends in time and prints a JSON document with its items.     *)
ScannerReports(items) ==
    /\ Running /\ headReady /\ Len(ran) < Len(Scanners)
    /\ ran' = Append(ran, Scanner)
    /\ reported' = reported \o [i \in 1..Len(items) |->
                                   [scanner |-> Scanner, item |-> items[i]]]
    /\ found' = found \o [i \in 1..Len(items) |->
            LET severity == SeverityOf(Scanner, items[i])
            IN [scanner |-> Scanner, severity |-> severity,
                blocking |-> severity \in BlockingSeverities(policy)]]
    /\ UNCHANGED <<given, headReady, verdict>>

(* It times out, prints nothing, or prints what is no JSON; a missing      *)
(* scanner prints nothing.                                                 *)
ScannerFails ==
    /\ Running /\ headReady /\ Len(ran) < Len(Scanners)
    /\ Conclude("error")
    /\ UNCHANGED <<given, headReady, ran, reported, found>>

(* JSON of a shape the normaliser does not expect raises out of the gate,  *)
(* whose findings are lost with it.                                        *)
NormaliserRaises ==
    /\ Running /\ headReady /\ Len(ran) < Len(Scanners)
    /\ Conclude("raised")
    /\ ran' = Append(ran, Scanner)
    /\ reported' = <<>> /\ found' = <<>>
    /\ UNCHANGED <<given, headReady>>

Fails == \E i \in 1..Len(found) : found[i].blocking

(* build_security_snapshot.                                                *)
Decide ==
    /\ Running /\ headReady /\ Len(ran) = Len(Scanners)
    /\ verdict' = [status |-> IF Fails THEN "fail" ELSE "pass",
                   counts |-> [s \in Severities |->
                      Cardinality({i \in 1..Len(found) : found[i].severity = s})]]
    /\ UNCHANGED <<given, headReady, ran, reported, found>>

Outputs(scanner) == UNION {[1..n -> ItemOf(scanner)] : n \in 0..MaxItems[language]}

SecurityNext ==
    \/ PrepareHead \/ ScannerFails \/ NormaliserRaises \/ Decide
    \/ /\ Len(ran) < Len(Scanners)
       /\ \E items \in Outputs(Scanner) : ScannerReports(items)

SecuritySpec == SecurityInit /\ [][SecurityNext]_securityVars

-----------------------------------------------------------------------------
(* Properties                                                              *)

(* What a tool's word is worth, of the four severities.                    *)
Severe(word) == word \in SevereWords
Blocks(severity) ==
    \/ policy.form = "other" /\ severity \in {"critical", "high"}
    \/ policy.form \in {"list", "dict"} /\ severity \in policy.on

(* A gate that passes has the output of every scanner of the language.     *)
(* When high and critical block, none of it is a secret, nor rated severe: *)
(* by its impact in Semgrep, by its severity when it has no impact, and    *)
(* by default for a vulnerable dependency.                                 *)
PassMeansScanned ==
    verdict.status = "pass"
    => /\ {"semgrep", "detect-secrets"} \subseteq Range(ran)
       /\ language = "python" => {"bandit", "pip-audit"} \subseteq Range(ran)
       /\ Blocks("high") /\ Blocks("critical") =>
            \A i \in 1..Len(reported) :
                LET item == reported[i].item
                IN /\ reported[i].scanner # "detect-secrets"
                   /\ ~Severe(item.impact)
                   /\ item.impact = NotGiven => ~Severe(item.severity)
                   /\ ~(reported[i].scanner = "pip-audit" /\ item.severity = NotGiven)

(* The gate ends only after each scanner ran, or at the one that failed    *)
(* with the findings of those before it; what is counted by severity is    *)
(* all that was reported, and it fails exactly when a severity that blocks *)
(* is counted.                                                             *)
VerdictIsTheCounts ==
    /\ verdict.status \in {"pass", "fail"} =>
         /\ Len(ran) = Len(Scanners)
         /\ verdict.counts["low"] + verdict.counts["medium"] + verdict.counts["high"]
              + verdict.counts["critical"] = Len(reported)
         /\ verdict.status = "fail"
            <=> \E s \in Severities : verdict.counts[s] > 0 /\ Blocks(s)
    /\ verdict.status = "error" =>
         Len(ran) < Len(Scanners) /\ Len(found) = Len(reported)

(* A security gate that passes has the output of every scanner, and none   *)
(* of it blocks; what it counts is all that was reported, and it fails     *)
(* exactly when a severity that blocks is counted.                         *)
SecurityVerdictIsOfTheScans == PassMeansScanned /\ VerdictIsTheCounts
=============================================================================
