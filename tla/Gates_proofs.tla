------------------------------ MODULE Gates_proofs ------------------------------
(***************************************************************************)
(* Theorems about the three gates of an execution: what a verdict says of  *)
(* the report, the patches and files, or the scans it was made from.  For  *)
(* any reports, patches, sources, outputs and policies, of any length.     *)
(***************************************************************************)
EXTENDS MCGates, FiniteSetTheorems, SequenceTheorems, TLAPS

-----------------------------------------------------------------------------
(* Totals.                                                                 *)

LEMMA UnitsAreFinite ==
    ASSUME NEW S, IsFiniteSet(S), NEW n \in [S -> Nat]
    PROVE  IsFiniteSet(Units(n))
  <1> DEFINE of == [x \in S |-> {x} \X (1..n[x])]
             all == {{x} \X (1..n[x]) : x \in S}
  <1>1. of \in Surjection(S, all)
    BY DEF Surjection
  <1>2. IsFiniteSet(all)
    BY <1>1, FS_Surjection
  <1>3. \A T \in all : IsFiniteSet(T)
    <2>1. ASSUME NEW x \in S PROVE IsFiniteSet({x} \X (1..n[x]))
      <3>1. IsFiniteSet({x})
        BY FS_Singleton
      <3>2. IsFiniteSet(1..n[x])
        BY FS_Interval
      <3> QED
        BY <3>1, <3>2, FS_Product
    <2> QED
      BY <2>1
  <1>4. Units(n) = UNION all
    BY DEF Units
  <1> QED
    BY <1>2, <1>3, <1>4, FS_UNION

LEMMA TotalIsNatural ==
    ASSUME NEW S, IsFiniteSet(S), NEW n \in [S -> Nat]
    PROVE  TotalOf(n) \in Nat
  BY UnitsAreFinite, FS_CardinalityType DEF TotalOf

LEMMA TotalOfParts ==
    ASSUME NEW S, IsFiniteSet(S), NEW n \in [S -> Nat], NEW T \in SUBSET S
    PROVE  TotalOf(n) = TotalOf([x \in T |-> n[x]]) + TotalOf([x \in S \ T |-> n[x]])
  <1> DEFINE a == [x \in T |-> n[x]]
             b == [x \in S \ T |-> n[x]]
  <1>1. IsFiniteSet(T) /\ IsFiniteSet(S \ T)
    BY FS_Subset
  <1>2. a \in [T -> Nat] /\ b \in [S \ T -> Nat]
    OBVIOUS
  <1> HIDE DEF a, b
  <1>3. IsFiniteSet(Units(a)) /\ IsFiniteSet(Units(b))
    BY <1>1, <1>2, UnitsAreFinite
  <1>4. Units(n) = Units(a) \cup Units(b)
    BY DEF Units, a, b
  <1>5. Units(a) \cap Units(b) = {}
    BY DEF Units, a, b
  <1>6. Cardinality(Units(a) \cap Units(b)) = 0
    BY <1>5, FS_EmptySet
  <1>7. Cardinality(Units(a)) \in Nat /\ Cardinality(Units(b)) \in Nat
    BY <1>3, FS_CardinalityType
  <1>8. Cardinality(Units(a) \cup Units(b))
        = Cardinality(Units(a)) + Cardinality(Units(b)) - Cardinality(Units(a) \cap Units(b))
    BY <1>3, FS_Union
  <1>9. TotalOf(n) = TotalOf(a) + TotalOf(b)
    BY <1>4, <1>6, <1>7, <1>8 DEF TotalOf
  <1> QED
    BY <1>9 DEF a, b

LEMMA TotalOfOne ==
    ASSUME NEW e, NEW n \in [{e} -> Nat]
    PROVE  TotalOf(n) = n[e]
  <1>1. Units(n) = {e} \X (1..n[e])
    BY DEF Units
  <1>2. IsFiniteSet({e}) /\ Cardinality({e}) = 1
    BY FS_Singleton
  <1>3. IsFiniteSet(1..n[e]) /\ Cardinality(1..n[e]) = n[e]
    BY FS_Interval
  <1>4. Cardinality({e} \X (1..n[e])) = Cardinality({e}) * Cardinality(1..n[e])
    BY <1>2, <1>3, FS_Product
  <1> QED
    BY <1>1, <1>2, <1>3, <1>4 DEF TotalOf

LEMMA TotalOfNone == ASSUME NEW n, DOMAIN n = {} PROVE TotalOf(n) = 0
  <1>1. Units(n) = {}
    BY DEF Units
  <1> QED
    BY <1>1, FS_EmptySet DEF TotalOf

LEMMA TotalsInOrder ==
    ASSUME NEW S, IsFiniteSet(S), NEW m \in [S -> Nat], NEW n \in [S -> Nat],
           \A x \in S : m[x] <= n[x]
    PROVE  TotalOf(m) <= TotalOf(n)
  <1>1. Units(m) \subseteq Units(n)
    BY DEF Units
  <1> QED
    BY <1>1, UnitsAreFinite, FS_Subset DEF TotalOf

-----------------------------------------------------------------------------
(* COVERAGE.                                                               *)

(* The inductive invariant of the coverage gate ... *)
Measures(counts) == \A f \in SourceFiles : counts[f].covered <= counts[f].total
Decided == outcome.status \in {"pass", "fail"}

(* What is read of each file, as the report tells of it.                   *)
AsTold(counts) ==
    \A f \in SourceFiles :
       /\ counts[f].there = told[f].there
       /\ f \notin twice => counts[f] = told[f]
       /\ IF measure.format = "lcov" THEN counts[f].total <= told[f].total
          ELSE counts[f].total >= told[f].total

ReportIsFollowed ==
    /\ AsTold(FlushedFiles) /\ Measures(FlushedFiles)
    /\ reader.file = NoFile => reader = NoRecord
    /\ measure.format # "lcov" \/ stage \in {"commands", "base", "match"} \/ Decided
         => reader.file = NoFile
    /\ \A f \in SourceFiles : ~told[f].there => told[f] = Absent
    /\ Measures(told) /\ Measures(files)
(* Every changed file is looked up under its own name.                     *)
LookupsAreOwn == \A f \in changed : Candidates(f) = {g \in {f} : files[g].there}
BaseIsMeasured ==
    /\ stage \in {"commands", "report"} => base = NoLimit
    /\ stage = "base" => thresholds.maxDrop # NoLimit
    /\ stage = "match" \/ Decided => (base = NoLimit <=> thresholds.maxDrop = NoLimit)
LookedUp == {f \in changed \ pending : files[f].there}
SumsAreOfLookups ==
    /\ stage \in {"commands", "report", "base"} =>
         pending = changed /\ sums.covered = 0 /\ sums.total = 0
    /\ LookupsAreOwn =>
         sums.covered = Covered(files, LookedUp) /\ sums.total = Total(files, LookedUp)
OutcomeIsOfPolicy ==
    /\ stage # "done" => outcome.status = "none"
    /\ Decided =>
         /\ pending = {}
         /\ outcome.broken = BrokenRules(TotalCoverage(files), ChangedCoverage(sums))
         /\ outcome.status = "fail" <=> outcome.broken # {}

CInv == TypeOK /\ ReportIsFollowed /\ BaseIsMeasured /\ SumsAreOfLookups /\ OutcomeIsOfPolicy

-----------------------------------------------------------------------------
(* Percentages.                                                            *)

LEMMA PercentagesAreNumbers ==
    \A p : p \in Percentages <=> p \in Int /\ 0 <= p /\ p <= 10000
  BY DEF Percentages

LEMMA TimesIsMonotone ==
    ASSUME NEW a \in Int, NEW b \in Int, a <= b, NEW y \in Nat
    PROVE  a * y <= b * y
  OBVIOUS

LEMMA Quotient ==
    ASSUME NEW x \in Int, NEW y \in Nat \ {0}
    PROVE  /\ x \div y \in Int
           /\ (x \div y) * y <= x /\ x < (x \div y) * y + y
           /\ x % y = 0 => (x \div y) * y = x
  OBVIOUS

LEMMA QuotientBelow ==
    ASSUME NEW x \in Int, NEW y \in Nat \ {0}, NEW m \in Int
    PROVE  x \div y < m <=> x < m * y
  <1> DEFINE q == x \div y
  <1>1. q \in Int /\ q * y <= x /\ x < q * y + y
    BY Quotient
  <1> HIDE DEF q
  <1>2. CASE q < m
    <2>1. (q + 1) * y <= m * y
      BY <1>1, <1>2, TimesIsMonotone
    <2>2. (q + 1) * y = q * y + y
      BY <1>1
    <2> QED
      BY <1>1, <1>2, <2>1, <2>2 DEF q
  <1>3. CASE ~(q < m)
    <2>1. m * y <= q * y
      BY <1>1, <1>3, TimesIsMonotone
    <2> QED
      BY <1>1, <1>3, <2>1 DEF q
  <1> QED
    BY <1>2, <1>3

LEMMA TieDown ==
    ASSUME NEW of, NEW c, NEW t, <<of, c, t>> \in TiesDown
    PROVE  /\ t \in Nat \ {0} /\ c \in 0..t
           /\ ((20000 * c + t) \div (2 * t)) * (2 * t) = 20000 * c + t
  <1>1. t \in Nat \ {0} /\ c \in 0..t /\ (20000 * c + t) % (2 * t) = 0
    BY CoverageAssumption
  <1> DEFINE x == 20000 * c + t
             y == 2 * t
  <1>2. x \in Int /\ y \in Nat \ {0} /\ x % y = 0
    BY <1>1
  <1> HIDE DEF x, y
  <1>3. (x \div y) * y = x
    BY <1>2, Quotient
  <1> QED
    BY <1>1, <1>3 DEF x, y

LEMMA HundredthsBelow ==
    ASSUME NEW of, NEW c \in Nat, NEW t \in Nat \ {0}, NEW m \in Int
    PROVE  /\ Hundredths(of, c, t) \in Int
           /\ Hundredths(of, c, t) < m <=> Below(of, c, t, m)
  <1> DEFINE x == 20000 * c + t
             y == 2 * t
             q == x \div y
  <1>1. x \in Int /\ y \in Nat \ {0}
    OBVIOUS
  <1>2. q \in Int /\ (q < m <=> x < m * y)
    BY <1>1, Quotient, QuotientBelow
  <1>3. m * y = 2 * m * t /\ (2 * m - 1) * t = 2 * m * t - t /\ 2 * m * t \in Int
    OBVIOUS
  <1>4. q < m <=> 20000 * c < (2 * m - 1) * t
    BY <1>2, <1>3
  <1>5. CASE <<of, c, t>> \in TiesDown
    <2>1. q * y = x
      BY <1>5, TieDown
    <2>2. Hundredths(of, c, t) = q - 1
      BY <1>5 DEF Hundredths
    <2>3. q = m <=> 20000 * c = (2 * m - 1) * t
      <3>1. q = m => x = m * y
        BY <2>1
      <3>2. x = m * y => q = m
        <4>1. SUFFICES ASSUME x = m * y PROVE ~(q < m) /\ ~(m < q)
          BY <1>2
        <4>2. x < (m + 1) * y
          BY <1>1, <4>1
        <4>3. q < m + 1
          BY <1>1, <4>2, QuotientBelow
        <4> HIDE DEF x, y
        <4> QED
          BY <1>2, <1>1, <4>1, <4>3 
      <3> QED
        BY <3>1, <3>2, <1>3
    <2> HIDE DEF x, y, q
    <2> QED
      BY <1>2, <1>4, <1>5, <2>2, <2>3 DEF Below
  <1>6. CASE <<of, c, t>> \notin TiesDown
    BY <1>2, <1>4, <1>6 DEF Hundredths, Below
  <1> QED
    BY <1>5, <1>6

LEMMA HundredthsInRange ==
    ASSUME NEW of, NEW t \in Nat, NEW c \in 0..t
    PROVE  Hundredths(of, c, t) \in Percentages
  <1>1. CASE t = 0
    BY <1>1, PercentagesAreNumbers DEF Hundredths
  <1>2. CASE t # 0
    <2> DEFINE h == Hundredths(of, c, t)
    <2>1. ~Below(of, c, t, 0) /\ Below(of, c, t, 10001)
      BY <1>2 DEF Below
    <2>2. /\ h \in Int
          /\ h < 0 <=> Below(of, c, t, 0)
          /\ h < 10001 <=> Below(of, c, t, 10001)
      BY <1>2, HundredthsBelow
    <2> HIDE DEF h
    <2>3. h \in Percentages
      BY <2>1, <2>2, PercentagesAreNumbers
    <2> QED
      BY <2>3 DEF h
  <1> QED
    BY <1>1, <1>2

LEMMA HundredthsGrow ==
    ASSUME NEW of, NEW t \in Nat \ {0}, NEW c \in Nat
    PROVE  /\ Hundredths(of, c, t) \in Int /\ Hundredths(of, c + 1, t) \in Int
           /\ Hundredths(of, c, t) <= Hundredths(of, c + 1, t)
  <1> DEFINE m == Hundredths(of, c + 1, t) + 1
  <1>1. /\ m \in Int /\ Hundredths(of, c + 1, t) < m
        /\ Hundredths(of, c, t) \in Int /\ Hundredths(of, c + 1, t) \in Int
    BY HundredthsBelow
  <1> HIDE DEF m
  <1>2. Below(of, c + 1, t, m)
    BY <1>1, HundredthsBelow
  <1>3. (2 * m - 1) * t \in Int
    BY <1>1
  <1>4. Below(of, c, t, m)
    BY <1>2, <1>3 DEF Below
  <1>5. Hundredths(of, c, t) < m
    BY <1>1, <1>4, HundredthsBelow
  <1> QED
    BY <1>1, <1>5 DEF m

-----------------------------------------------------------------------------
(* What a report measures.                                                 *)

LEMMA CountFields ==
    ASSUME NEW c \in Count
    PROVE  c.there \in BOOLEAN /\ c.covered \in Nat /\ c.total \in Nat
  BY DEF Count

LEMMA MeasuredIsNatural ==
    ASSUME NEW counts \in [SourceFiles -> Count], NEW T \in SUBSET SourceFiles
    PROVE  /\ Covered(counts, T) \in Nat /\ Total(counts, T) \in Nat
           /\ Measures(counts) => Covered(counts, T) <= Total(counts, T)
  <1> DEFINE c == [f \in T |-> counts[f].covered]
             t == [f \in T |-> counts[f].total]
  <1>1. IsFiniteSet(T)
    BY FS_Subset, CoverageAssumption
  <1>2. c \in [T -> Nat] /\ t \in [T -> Nat]
    BY CountFields
  <1>3. Measures(counts) => \A f \in T : c[f] <= t[f]
    BY DEF Measures
  <1>4. Covered(counts, T) = TotalOf(c) /\ Total(counts, T) = TotalOf(t)
    BY DEF Covered, Total
  <1> HIDE DEF c, t
  <1> QED
    BY <1>1, <1>2, <1>3, <1>4, TotalIsNatural, TotalsInOrder

LEMMA TotalWithOneMore ==
    ASSUME NEW T, IsFiniteSet(T), NEW f, f \notin T, NEW n \in [T \cup {f} -> Nat]
    PROVE  TotalOf(n) = TotalOf([x \in T |-> n[x]]) + n[f]
  <1> DEFINE S == T \cup {f}
             one == [x \in {f} |-> n[x]]
  <1>1. IsFiniteSet(S) /\ T \in SUBSET S /\ S \ T = {f} /\ n \in [S -> Nat]
    BY FS_AddElement
  <1>2. one \in [{f} -> Nat] /\ one[f] = n[f]
    OBVIOUS
  <1> HIDE DEF S
  <1>3. TotalOf(n) = TotalOf([x \in T |-> n[x]]) + TotalOf([x \in S \ T |-> n[x]])
    BY <1>1, TotalOfParts
  <1>4. TotalOf(one) = n[f]
    BY <1>2, TotalOfOne
  <1> QED
    BY <1>1, <1>3, <1>4

LEMMA MeasuredWithOneMore ==
    ASSUME NEW counts \in [SourceFiles -> Count],
           NEW T \in SUBSET SourceFiles, NEW f \in SourceFiles \ T
    PROVE  /\ Covered(counts, T \cup {f}) = Covered(counts, T) + counts[f].covered
           /\ Total(counts, T \cup {f}) = Total(counts, T) + counts[f].total
  <1> DEFINE S == T \cup {f}
             c == [g \in S |-> counts[g].covered]
             t == [g \in S |-> counts[g].total]
  <1>1. IsFiniteSet(T)
    BY FS_Subset, CoverageAssumption
  <1>2. /\ c \in [T \cup {f} -> Nat] /\ c[f] = counts[f].covered
        /\ t \in [T \cup {f} -> Nat] /\ t[f] = counts[f].total
    BY CountFields
  <1>3. /\ [g \in T |-> c[g]] = [g \in T |-> counts[g].covered]
        /\ [g \in T |-> t[g]] = [g \in T |-> counts[g].total]
    OBVIOUS
  <1>4. Covered(counts, S) = TotalOf(c) /\ Total(counts, S) = TotalOf(t)
    BY DEF Covered, Total
  <1>5. /\ Covered(counts, T) = TotalOf([g \in T |-> c[g]])
        /\ Total(counts, T) = TotalOf([g \in T |-> t[g]])
    BY <1>3 DEF Covered, Total
  <1> HIDE DEF c, t
  <1>6. TotalOf(c) = TotalOf([g \in T |-> c[g]]) + c[f]
    BY <1>1, <1>2, TotalWithOneMore
  <1>7. TotalOf(t) = TotalOf([g \in T |-> t[g]]) + t[f]
    BY <1>1, <1>2, TotalWithOneMore
  <1> QED
    BY <1>2, <1>4, <1>5, <1>6, <1>7

LEMMA NothingMeasured ==
    ASSUME NEW counts PROVE Covered(counts, {}) = 0 /\ Total(counts, {}) = 0
  BY TotalOfNone DEF Covered, Total

LEMMA CoveringOneMore ==
    ASSUME NEW counts \in [SourceFiles -> Count], NEW f \in SourceFiles
    PROVE  LET more == [counts EXCEPT ![f].covered = @ + 1]
           IN /\ Covered(more, SourceFiles) = Covered(counts, SourceFiles) + 1
              /\ Total(more, SourceFiles) = Total(counts, SourceFiles)
  <1> DEFINE more == [counts EXCEPT ![f].covered = @ + 1]
             T == SourceFiles \ {f}
  <1>1. T \in SUBSET SourceFiles /\ f \in SourceFiles \ T /\ T \cup {f} = SourceFiles
    OBVIOUS
  <1>2. /\ more \in [SourceFiles -> Count]
        /\ more[f].covered = counts[f].covered + 1 /\ more[f].total = counts[f].total
        /\ \A g \in T : more[g] = counts[g]
    BY DEF Count
  <1> HIDE DEF more
  <1>3. Covered(more, T) = Covered(counts, T) /\ Total(more, T) = Total(counts, T)
    BY <1>2 DEF Covered, Total
  <1> HIDE DEF T
  <1>4. /\ Covered(more, SourceFiles) = Covered(more, T) + more[f].covered
        /\ Total(more, SourceFiles) = Total(more, T) + more[f].total
    BY <1>1, <1>2, MeasuredWithOneMore
  <1>5. /\ Covered(counts, SourceFiles) = Covered(counts, T) + counts[f].covered
        /\ Total(counts, SourceFiles) = Total(counts, T) + counts[f].total
    BY <1>1, MeasuredWithOneMore
  <1>6. /\ Covered(counts, T) \in Nat /\ Total(counts, T) \in Nat
        /\ counts[f].covered \in Nat /\ counts[f].total \in Nat
    BY <1>1, MeasuredIsNatural, CountFields
  <1> QED
    BY <1>2, <1>3, <1>4, <1>5, <1>6 DEF more

-----------------------------------------------------------------------------
(* The steps of the coverage gate.                                         *)

LEMMA NoLimitIsNegative == NoLimit \in Int /\ NoLimit < 0
  BY CoverageAssumption

LEMMA CountsAreRecords ==
    /\ Absent \in Count
    /\ \A c \in Nat, t \in Nat : [there |-> TRUE, covered |-> c, total |-> t] \in Count
  BY DEF Absent, Count

LEMMA FlushingIsTyped ==
    ASSUME TypeOK
    PROVE  /\ FlushedFiles \in [SourceFiles -> Count]
           /\ FlushReader \in [file : SourceFiles \cup {NoFile}, covered : Nat, total : Nat]
           /\ reader.file \in SourceFiles \cup {NoFile}
           /\ reader.covered \in Nat /\ reader.total \in Nat
           /\ NoRecord.file = NoFile
  <1>1. reader \in [file : SourceFiles \cup {NoFile}, covered : Nat, total : Nat]
        /\ files \in [SourceFiles -> Count]
    BY DEF TypeOK
  <1>2. NoRecord \in [file : SourceFiles \cup {NoFile}, covered : Nat, total : Nat]
        /\ NoRecord.file = NoFile
    BY DEF NoRecord
  <1>3. /\ reader.file \in SourceFiles \cup {NoFile}
        /\ reader.covered \in Nat /\ reader.total \in Nat
    BY <1>1
  <1>4. FlushedFiles \in [SourceFiles -> Count]
    BY <1>1, <1>3, CountsAreRecords DEF FlushedFiles
  <1> QED
    BY <1>1, <1>2, <1>3, <1>4 DEF FlushReader

LEMMA InitCInv == Init => CInv
  <1> SUFFICES ASSUME Init PROVE CInv
    OBVIOUS
  <1>1. told = [f \in SourceFiles |-> Absent] /\ files = told /\ reader = NoRecord
        /\ reader.file = NoFile
    BY DEF Init, NoRecord
  <1>2. told \in [SourceFiles -> Count] /\ Measures(told) /\ Measures(files)
    BY <1>1, CountsAreRecords DEF Measures, Absent
  <1>3. reader \in [file : SourceFiles \cup {NoFile}, covered : Nat, total : Nat]
    BY <1>1 DEF NoRecord
  <1>4. TypeOK
    <2>1. sums \in [covered : Nat, total : Nat] /\ sums.covered <= sums.total
      BY DEF Init
    <2>2. outcome \in [status : {"none", "error", "pass", "fail"}, broken : SUBSET Rules]
      BY DEF Init
    <2>3. /\ measure \in Formats /\ testsFailed \in BOOLEAN /\ base \in Percentages \cup {NoLimit}
          /\ thresholds \in [minTotal : MinTotals, maxDrop : MaxDrops, minChanged : MinChanged]
          /\ stage \in {"commands", "report", "base", "match", "done"}
          /\ pending \subseteq changed /\ unmatched \subseteq changed
          /\ changed \subseteq SourceFiles /\ twice \subseteq SourceFiles
      BY DEF Init
    <2> QED
      BY <1>1, <1>2, <1>3, <2>1, <2>2, <2>3 DEF TypeOK
  <1>5. ReportIsFollowed
    <2>1. FlushedFiles = told /\ twice = {}
      BY <1>1 DEF FlushedFiles, Init
    <2>2. \A f \in SourceFiles : told[f].total <= told[f].total
      BY <1>2, CountFields
    <2> QED
      BY <1>1, <1>2, <2>1, <2>2 DEF ReportIsFollowed, AsTold
  <1>6. BaseIsMeasured /\ OutcomeIsOfPolicy
    BY DEF Init, BaseIsMeasured, OutcomeIsOfPolicy, Decided
  <1>7. SumsAreOfLookups
    <2>1. LookedUp = {} /\ pending = changed /\ sums.covered = 0 /\ sums.total = 0
      BY DEF LookedUp, Init
    <2> QED
      BY <2>1, NothingMeasured DEF SumsAreOfLookups
  <1> QED
    BY <1>4, <1>5, <1>6, <1>7 DEF CInv

LEMMA RulesAreRules ==
    ASSUME NEW total, NEW part PROVE BrokenRules(total, part) \in SUBSET Rules
  BY DEF BrokenRules, Rules

LEMMA TellingIsTyped ==
    ASSUME TypeOK, NEW f \in SourceFiles, NEW c \in Nat, NEW t \in Nat, Told(f, c, t)
    PROVE  /\ told' \in [SourceFiles -> Count]
           /\ told'[f] = [there |-> TRUE, covered |-> told[f].covered + c,
                          total |-> told[f].total + t]
           /\ \A g \in SourceFiles \ {f} : told'[g] = told[g]
           /\ told' = [told EXCEPT ![f] = [there |-> TRUE, covered |-> told[f].covered + c,
                                           total |-> told[f].total + t]]
  <1>1. told \in [SourceFiles -> Count] /\ told[f].covered \in Nat /\ told[f].total \in Nat
    BY CountFields DEF TypeOK
  <1>2. told' = [told EXCEPT ![f] = [there |-> TRUE, covered |-> told[f].covered + c,
                                     total |-> told[f].total + t]]
    BY <1>1 DEF Told
  <1>3. [there |-> TRUE, covered |-> told[f].covered + c, total |-> told[f].total + t] \in Count
    BY <1>1, CountsAreRecords
  <1> QED
    BY <1>1, <1>2, <1>3

LEMMA TypesOfReading ==
    ASSUME TypeOK, Read, files' \in [SourceFiles -> Count], told' \in [SourceFiles -> Count],
           reader' \in [file : SourceFiles \cup {NoFile}, covered : Nat, total : Nat],
           twice' \subseteq SourceFiles
    PROVE  TypeOK'
  BY DEF TypeOK, Read, settings

(* What every step of the report's keeps.                                  *)
LEMMA ReadingFollows ==
    ASSUME CInv, Read, stage = "report",
           measure.format = "lcov" \/ reader'.file = NoFile,
           AsTold(FlushedFiles)', Measures(FlushedFiles)',
           reader'.file = NoFile => reader' = NoRecord,
           \A f \in SourceFiles : ~told'[f].there => told'[f] = Absent,
           Measures(told)', Measures(files)'
    PROVE  ReportIsFollowed' /\ BaseIsMeasured' /\ SumsAreOfLookups' /\ OutcomeIsOfPolicy'
  <1>1. /\ stage' = "report" /\ measure' = measure /\ outcome' = outcome /\ base' = base
        /\ pending' = pending /\ changed' = changed /\ sums' = sums
        /\ thresholds' = thresholds /\ outcome.status = "none"
    BY DEF Read, settings, CInv, OutcomeIsOfPolicy
  <1>2. ~Decided /\ ~Decided'
    BY <1>1 DEF Decided
  <1>3. ReportIsFollowed'
    BY <1>1, <1>2 DEF ReportIsFollowed
  <1>4. BaseIsMeasured' /\ OutcomeIsOfPolicy'
    BY <1>1, <1>2 DEF BaseIsMeasured, OutcomeIsOfPolicy, CInv
  <1>5. SumsAreOfLookups'
    <2>1. pending = changed /\ sums.covered = 0 /\ sums.total = 0
      BY DEF CInv, SumsAreOfLookups
    <2>2. LookedUp' = {}
      BY <1>1, <2>1 DEF LookedUp
    <2> QED
      BY <1>1, <2>1, <2>2, NothingMeasured DEF SumsAreOfLookups
  <1> QED
    BY <1>3, <1>4, <1>5

LEMMA ReadingInv ==
    ASSUME CInv, Read, stage = "report",
           measure.format = "lcov" \/ reader'.file = NoFile,
           files' \in [SourceFiles -> Count], told' \in [SourceFiles -> Count],
           reader' \in [file : SourceFiles \cup {NoFile}, covered : Nat, total : Nat],
           twice' \subseteq SourceFiles, AsTold(FlushedFiles)', Measures(FlushedFiles)',
           reader'.file = NoFile => reader' = NoRecord,
           \A f \in SourceFiles : ~told'[f].there => told'[f] = Absent,
           Measures(told)', Measures(files)'
    PROVE  CInv'
  <1>1. TypeOK'
    BY TypesOfReading DEF CInv
  <1>2. ReportIsFollowed' /\ BaseIsMeasured' /\ SumsAreOfLookups' /\ OutcomeIsOfPolicy'
    BY ReadingFollows
  <1> QED
    BY <1>1, <1>2 DEF CInv

(* The counts that would be those of the report if it ended here.          *)
LEMMA RecordIsTold ==
    ASSUME CInv
    PROVE  /\ AsTold(FlushedFiles) /\ FlushedFiles \in [SourceFiles -> Count]
           /\ Measures(FlushedFiles) /\ Measures(told) /\ Measures(files)
           /\ told \in [SourceFiles -> Count] /\ files \in [SourceFiles -> Count]
           /\ twice \subseteq SourceFiles /\ FlushReader = NoRecord
           /\ reader.file = NoFile => reader = NoRecord /\ files = FlushedFiles
           /\ reader.file # NoFile =>
                /\ reader.file \in SourceFiles
                /\ FlushedFiles = [files EXCEPT ![reader.file] =
                      [there |-> TRUE, covered |-> reader.covered, total |-> reader.total]]
                /\ FlushedFiles[reader.file] =
                      [there |-> TRUE, covered |-> reader.covered, total |-> reader.total]
  <1>1. /\ AsTold(FlushedFiles) /\ told \in [SourceFiles -> Count]
        /\ Measures(FlushedFiles) /\ FlushedFiles \in [SourceFiles -> Count]
        /\ files \in [SourceFiles -> Count] /\ Measures(told) /\ Measures(files)
        /\ reader.file = NoFile => reader = NoRecord
        /\ reader.file \in SourceFiles \cup {NoFile} /\ twice \subseteq SourceFiles
    BY FlushingIsTyped DEF CInv, ReportIsFollowed, TypeOK
  <1>2. reader.file = NoFile => files = FlushedFiles
    BY DEF FlushedFiles
  <1>3. FlushReader = NoRecord
    BY <1>1 DEF FlushReader
  <1>4. reader.file # NoFile =>
           /\ reader.file \in SourceFiles
           /\ FlushedFiles = [files EXCEPT ![reader.file] =
                 [there |-> TRUE, covered |-> reader.covered, total |-> reader.total]]
    BY <1>1 DEF FlushedFiles
  <1>5. reader.file # NoFile => FlushedFiles[reader.file] =
           [there |-> TRUE, covered |-> reader.covered, total |-> reader.total]
    BY <1>1, <1>4
  <1> QED
    BY <1>1, <1>2, <1>3, <1>4, <1>5

(* The counts of one file change, and what the report tells of it.         *)
LEMMA OneFileIsTold ==
    ASSUME CInv, NEW f \in SourceFiles, NEW read \in Count, NEW said \in Count,
           measure' = measure, told' = [told EXCEPT ![f] = said],
           FlushedFiles' = [FlushedFiles EXCEPT ![f] = read],
           twice' = twice \/ twice' = twice \cup {f},
           read.there /\ said.there, f \notin twice' => read = said,
           IF measure.format = "lcov" THEN read.total <= said.total
           ELSE read.total >= said.total,
           read.covered <= read.total, said.covered <= said.total
    PROVE  /\ AsTold(FlushedFiles)' /\ Measures(FlushedFiles)' /\ Measures(told)'
           /\ \A g \in SourceFiles : ~told'[g].there => told'[g] = Absent
           /\ told' \in [SourceFiles -> Count] /\ twice' \subseteq SourceFiles
  <1> DEFINE now == FlushedFiles
  <1>1. /\ now \in [SourceFiles -> Count] /\ told \in [SourceFiles -> Count]
        /\ AsTold(now) /\ Measures(now) /\ Measures(told)
    BY RecordIsTold
  <1>2. /\ now'[f] = read /\ told'[f] = said
        /\ \A g \in SourceFiles \ {f} : /\ now'[g] = now[g] /\ told'[g] = told[g]
                                        /\ g \in twice' <=> g \in twice
    BY <1>1
  <1> HIDE DEF now
  <1>3. AsTold(now)'
    <2>1. \A g \in SourceFiles :
             /\ now'[g].there = told'[g].there
             /\ g \notin twice' => now'[g] = told'[g]
             /\ IF measure.format = "lcov" THEN now'[g].total <= told'[g].total
                ELSE now'[g].total >= told'[g].total
      <3> SUFFICES ASSUME NEW g \in SourceFiles
                   PROVE  /\ now'[g].there = told'[g].there
                          /\ g \notin twice' => now'[g] = told'[g]
                          /\ IF measure.format = "lcov" THEN now'[g].total <= told'[g].total
                             ELSE now'[g].total >= told'[g].total
        OBVIOUS
      <3>1. CASE g = f
        <4>1. read.there = said.there
          BY CountFields
        <4> QED
          BY <1>2, <3>1, <4>1
      <3>2. CASE g # f
        BY <1>1, <1>2, <3>2 DEF AsTold
      <3> QED
        BY <3>1, <3>2
    <2> QED
      BY <2>1 DEF AsTold
  <1>4. Measures(now)' /\ Measures(told)'
    BY <1>1, <1>2 DEF Measures
  <1>5. \A g \in SourceFiles : ~told'[g].there => told'[g] = Absent
    BY <1>2 DEF CInv, ReportIsFollowed
  <1>6. twice' \subseteq SourceFiles
    BY RecordIsTold
  <1> QED
    BY <1>1, <1>3, <1>4, <1>5, <1>6 DEF now

LEMMA SourceFileInv ==
    ASSUME CInv, NEW f \in SourceFiles, ReadSourceFile(f) PROVE CInv'
  <1> DEFINE fresh == [there |-> TRUE, covered |-> 0, total |-> 0]
             said == [there |-> TRUE, covered |-> told[f].covered + 0,
                      total |-> told[f].total + 0]
  <1>1. /\ measure.format = "lcov" /\ stage = "report" /\ Told(f, 0, 0)
        /\ twice' = IF told[f].there THEN twice \cup {f} ELSE twice
        /\ files' = FlushedFiles /\ reader' = [NoRecord EXCEPT !.file = f] /\ Read
    BY RecordIsTold DEF ReadSourceFile, Reading
  <1>2. /\ reader' \in [file : SourceFiles \cup {NoFile}, covered : Nat, total : Nat]
        /\ reader'.file = f /\ reader'.covered = 0 /\ reader'.total = 0
        /\ reader'.file # NoFile
    BY <1>1, CoverageAssumption DEF NoRecord
  <1>3. /\ told[f].covered \in Nat /\ told[f].total \in Nat
        /\ told[f].covered <= told[f].total
    BY RecordIsTold, CountFields DEF Measures
  <1>4. ~told[f].there => told[f].covered = 0 /\ told[f].total = 0
    BY <1>1 DEF CInv, ReportIsFollowed, Absent
  <1>5. told' = [told EXCEPT ![f] = said]
    <2>1. TypeOK /\ Told(f, 0, 0)
      BY <1>1 DEF CInv
    <2>2. 0 \in Nat
      OBVIOUS
    <2> QED
      BY <2>1, <2>2, TellingIsTyped
  <1>6. FlushedFiles' = [FlushedFiles EXCEPT ![f] = fresh]
    BY <1>1, <1>2 DEF FlushedFiles
  <1>7. fresh \in Count /\ said \in Count
    BY <1>3, CountsAreRecords
  <1>8. /\ fresh.there /\ said.there /\ fresh.covered <= fresh.total
        /\ fresh.total <= said.total /\ said.covered <= said.total
    BY <1>3
  <1>9. f \notin twice' => fresh = said
    <2>1. f \notin twice' => ~told[f].there
      BY <1>1
    <2>2. ~told[f].there => said.covered = 0 /\ said.total = 0
      BY <1>3, <1>4
    <2> QED
      BY <2>1, <2>2
  <1>10. /\ AsTold(FlushedFiles)' /\ Measures(FlushedFiles)' /\ Measures(told)'
         /\ \A g \in SourceFiles : ~told'[g].there => told'[g] = Absent
         /\ told' \in [SourceFiles -> Count] /\ twice' \subseteq SourceFiles
    <2>1. measure' = measure /\ (twice' = twice \/ twice' = twice \cup {f})
      BY <1>1 DEF Read, settings
    <2> HIDE DEF fresh, said
    <2> QED
      BY <1>1, <1>5, <1>6, <1>7, <1>8, <1>9, <2>1, OneFileIsTold
  <1>11. files' \in [SourceFiles -> Count] /\ Measures(files)'
    BY <1>1, RecordIsTold DEF Measures
  <1> QED
    BY <1>1, <1>2, <1>10, <1>11, ReadingInv

(* A line, or the counts of a record, that the reader adds to its record.  *)
LEMMA RecordGrows ==
    ASSUME CInv, measure.format = "lcov", stage = "report", Read, UNCHANGED <<twice, files>>,
           reader.file # NoFile, NEW t \in Nat, NEW c \in 0..t, Told(reader.file, c, t),
           reader' = [file |-> reader.file, covered |-> reader.covered + c,
                      total |-> reader.total + t]
    PROVE  CInv'
  <1> DEFINE f == reader.file
             grown == [there |-> TRUE, covered |-> reader.covered + c, total |-> reader.total + t]
             said == [there |-> TRUE, covered |-> told[f].covered + c, total |-> told[f].total + t]
  <1>1. /\ f \in SourceFiles /\ reader.covered \in Nat /\ reader.total \in Nat
        /\ FlushedFiles[f] = [there |-> TRUE, covered |-> reader.covered,
                              total |-> reader.total]
        /\ told \in [SourceFiles -> Count] /\ files \in [SourceFiles -> Count] /\ c \in Nat
    BY RecordIsTold, FlushingIsTyped DEF CInv
  <1>2. /\ told[f].covered \in Nat /\ told[f].total \in Nat
        /\ told[f].covered <= told[f].total /\ reader.covered <= reader.total
        /\ reader.total <= told[f].total
    BY <1>1, RecordIsTold, CountFields DEF Measures, AsTold
  <1>3. reader' \in [file : SourceFiles \cup {NoFile}, covered : Nat, total : Nat]
    BY <1>1
  <1>4. told' = [told EXCEPT ![f] = said]
    BY <1>1, TellingIsTyped DEF CInv
  <1>5. FlushedFiles' = [FlushedFiles EXCEPT ![f] = grown]
    <2>1. FlushedFiles' = [files EXCEPT ![f] = grown]
      BY DEF FlushedFiles
    <2> QED
      BY <1>1, <2>1, RecordIsTold
  <1>6. grown \in Count /\ said \in Count
    BY <1>1, <1>2, CountsAreRecords
  <1>7. /\ grown.there /\ said.there /\ grown.covered <= grown.total
        /\ grown.total <= said.total /\ said.covered <= said.total
    BY <1>1, <1>2
  <1>8. f \notin twice' => grown = said
    <2>1. f \notin twice => told[f].covered = reader.covered /\ told[f].total = reader.total
      BY <1>1, RecordIsTold DEF AsTold
    <2> QED
      BY <2>1
  <1>9. /\ AsTold(FlushedFiles)' /\ Measures(FlushedFiles)' /\ Measures(told)'
        /\ \A g \in SourceFiles : ~told'[g].there => told'[g] = Absent
        /\ told' \in [SourceFiles -> Count] /\ twice' \subseteq SourceFiles
    <2>1. measure' = measure /\ twice' = twice
      BY DEF Read, settings
    <2> HIDE DEF f, grown, said
    <2> QED
      BY <1>1, <1>4, <1>5, <1>6, <1>7, <1>8, <2>1, OneFileIsTold
  <1>10. files' \in [SourceFiles -> Count] /\ Measures(files)'
    BY RecordIsTold DEF Measures
  <1> QED
    BY <1>1, <1>3, <1>9, <1>10, ReadingInv

LEMMA LineInv == ASSUME CInv, NEW c \in 0..1, ReadLine(c) PROVE CInv'
  <1>1. reader \in [file : SourceFiles \cup {NoFile}, covered : Nat, total : Nat]
    BY DEF CInv, TypeOK
  <1>2. reader' = [file |-> reader.file, covered |-> reader.covered + c,
                   total |-> reader.total + 1]
    BY <1>1 DEF ReadLine
  <1> QED
    BY <1>2, RecordGrows DEF ReadLine, Reading

LEMMA SummaryInv == ASSUME CInv, NEW t \in Nat, NEW c \in 0..t, ReadSummary(c, t) PROVE CInv'
  <1>1. /\ reader \in [file : SourceFiles \cup {NoFile}, covered : Nat, total : Nat]
        /\ reader.file # NoFile /\ reader.total = 0
    BY DEF CInv, TypeOK, ReadSummary
  <1>2. reader.covered = 0
    <2>1. reader.covered <= reader.total
      BY <1>1, RecordIsTold DEF Measures
    <2> QED
      BY <1>1, <2>1
  <1>3. reader' = [file |-> reader.file, covered |-> reader.covered + c,
                   total |-> reader.total + t]
    <2>1. reader' = [file |-> reader.file, covered |-> c, total |-> t]
      BY <1>1 DEF ReadSummary
    <2>2. reader.covered + c = c /\ reader.total + t = t
      BY <1>1, <1>2
    <2> QED
      BY <2>1, <2>2
  <1> QED
    BY <1>3, RecordGrows DEF ReadSummary, Reading

LEMMA RecordEndInv == ASSUME CInv, EndRecord PROVE CInv'
  <1>1. /\ measure.format = "lcov" /\ stage = "report" /\ Read /\ measure' = measure
        /\ files' = FlushedFiles /\ reader' = NoRecord /\ told' = told /\ twice' = twice
    BY RecordIsTold DEF EndRecord, Reading, report, Read, settings
  <1>2. /\ reader' \in [file : SourceFiles \cup {NoFile}, covered : Nat, total : Nat]
        /\ reader'.file = NoFile
    BY <1>1 DEF NoRecord
  <1>3. FlushedFiles' = FlushedFiles
    BY <1>1, <1>2 DEF FlushedFiles
  <1>4. \A g \in SourceFiles : ~told'[g].there => told'[g] = Absent
    BY <1>1 DEF CInv, ReportIsFollowed
  <1>5. AsTold(FlushedFiles)' /\ Measures(FlushedFiles)' /\ Measures(told)' /\ Measures(files)'
    BY <1>1, <1>3, RecordIsTold DEF Measures, AsTold
  <1> QED
    BY <1>1, <1>2, <1>4, <1>5, RecordIsTold, ReadingInv

(* Counts that are added to a file's, as the report tells or once more.    *)
LEMMA CountsGrow ==
    ASSUME CInv, NEW f \in SourceFiles, NEW t \in Nat, NEW c \in 0..t,
           NEW told1 \in Nat, NEW told0 \in 0..told1,
           measure.format # "lcov", stage = "report", Read, reader' = reader,
           files' = [files EXCEPT ![f] = Accumulated(files[f], c, t)],
           told' = [told EXCEPT ![f] = [there |-> TRUE, covered |-> told[f].covered + told0,
                                        total |-> told[f].total + told1]],
           told1 <= t, twice' = twice \/ twice' = twice \cup {f},
           f \notin twice' => c = told0 /\ t = told1
    PROVE  CInv'
  <1> DEFINE grown == [there |-> TRUE, covered |-> files[f].covered + c,
                       total |-> files[f].total + t]
             said == [there |-> TRUE, covered |-> told[f].covered + told0,
                      total |-> told[f].total + told1]
  <1>1. reader.file = NoFile /\ reader = NoRecord /\ files = FlushedFiles
    BY RecordIsTold DEF CInv, ReportIsFollowed
  <1>2. /\ files \in [SourceFiles -> Count] /\ told \in [SourceFiles -> Count]
        /\ files[f].covered \in Nat /\ files[f].total \in Nat
        /\ told[f].covered \in Nat /\ told[f].total \in Nat
        /\ files[f].covered <= files[f].total /\ told[f].covered <= told[f].total
        /\ files[f].total >= told[f].total /\ c \in Nat /\ told0 \in Nat
    BY <1>1, RecordIsTold, CountFields DEF Measures, AsTold
  <1>3. FlushedFiles' = files' /\ FlushedFiles' = [FlushedFiles EXCEPT ![f] = grown]
    BY <1>1 DEF FlushedFiles, Accumulated
  <1>4. grown \in Count /\ said \in Count
    BY <1>2, CountsAreRecords
  <1>5. /\ grown.there /\ said.there /\ grown.covered <= grown.total
        /\ grown.total >= said.total /\ said.covered <= said.total
    BY <1>2
  <1>6. f \notin twice' => grown = said
    <2>1. f \notin twice' => files[f] = told[f]
      BY <1>1, RecordIsTold DEF AsTold
    <2> QED
      BY <2>1
  <1>7. /\ AsTold(FlushedFiles)' /\ Measures(FlushedFiles)' /\ Measures(told)'
        /\ \A g \in SourceFiles : ~told'[g].there => told'[g] = Absent
        /\ told' \in [SourceFiles -> Count] /\ twice' \subseteq SourceFiles
    <2>1. measure' = measure
      BY DEF Read, settings
    <2> HIDE DEF grown, said
    <2> QED
      BY <1>3, <1>4, <1>5, <1>6, <2>1, OneFileIsTold DEF said
  <1>8. files' \in [SourceFiles -> Count] /\ Measures(files)'
    <2>1. files' \in [SourceFiles -> Count]
      <3>1. files' = [files EXCEPT ![f] = grown]
        BY <1>1, <1>3
      <3> QED
        BY <1>2, <1>4, <3>1
    <2> QED
      BY <1>3, <1>7, <2>1 DEF Measures
  <1>9. reader' \in [file : SourceFiles \cup {NoFile}, covered : Nat, total : Nat]
    BY DEF CInv, TypeOK
  <1> QED
    BY <1>1, <1>7, <1>8, <1>9, ReadingInv

LEMMA ElementInv ==
    ASSUME CInv, NEW f \in SourceFiles, NEW t \in Nat, NEW c \in 0..t, ReadElement(f, c, t)
    PROVE  CInv'
  <1>1. /\ measure.format # "lcov" /\ stage = "report" /\ Read /\ Told(f, c, t)
        /\ reader' = reader /\ twice' = twice /\ c \in Nat
        /\ files' = [files EXCEPT ![f] = Accumulated(files[f], c, t)]
    BY RecordIsTold DEF ReadElement, Reading
  <1>2. told' = [told EXCEPT ![f] = [there |-> TRUE, covered |-> told[f].covered + c,
                                     total |-> told[f].total + t]]
    <2>1. TypeOK /\ Told(f, c, t) /\ c \in Nat
      BY <1>1 DEF CInv
    <2> QED
      BY <2>1, TellingIsTyped
  <1>3. t <= t
    OBVIOUS
  <1> QED
    BY <1>1, <1>2, <1>3, CountsGrow

LEMMA RepetitionInv ==
    ASSUME CInv, NEW f \in SourceFiles, NEW t \in Nat, NEW c \in 0..t, RepeatElement(f, c, t)
    PROVE  CInv'
  <1>1. /\ measure.format # "lcov" /\ stage = "report" /\ Read
        /\ reader' = reader /\ twice' = twice \cup {f} /\ told' = told /\ told[f].there
        /\ files' = [files EXCEPT ![f] = Accumulated(files[f], c, t)]
    BY RecordIsTold DEF RepeatElement, Reading
  <1>2. told' = [told EXCEPT ![f] = [there |-> TRUE, covered |-> told[f].covered + 0,
                                     total |-> told[f].total + 0]]
    <2>1. told \in [SourceFiles -> Count]
      BY RecordIsTold
    <2>2. told[f] = [there |-> TRUE, covered |-> told[f].covered + 0,
                     total |-> told[f].total + 0]
      BY <1>1, <2>1, CountFields DEF Count
    <2> QED
      BY <1>1, <2>1, <2>2
  <1>3. 0 \in Nat /\ 0 \in 0..0 /\ 0 <= t /\ f \in twice'
    BY <1>1
  <1> QED
    BY <1>1, <1>2, <1>3, CountsGrow

(* What looks files up or decides depends on the report only.              *)
LEMMA SameLookups ==
    ASSUME UNCHANGED <<measure, files, changed>>
    PROVE  /\ LookupsAreOwn' = LookupsAreOwn
           /\ \A f : Candidates(f)' = Candidates(f)
  <1>1. /\ \A f, g : IsKeyOf(measure, f, g)' = IsKeyOf(measure, f, g)
        /\ \A f, g : EndsLike(measure, f, g)' = EndsLike(measure, f, g)
    BY DEF IsKeyOf, EndsLike, PathIn, Within, InWorkingDir
  <1>2. \A f : Candidates(f)' = Candidates(f)
    BY <1>1 DEF Candidates, Exact, BySuffix
  <1> QED
    BY <1>2 DEF LookupsAreOwn

LEMMA OwnNamesAreLookedUp ==
    ASSUME TypeOK, NamesAreOwn(measure) PROVE LookupsAreOwn
  <1> SUFFICES ASSUME NEW f \in changed PROVE Candidates(f) = {g \in {f} : files[g].there}
    BY DEF LookupsAreOwn
  <1>1. f \in SourceFiles
    BY DEF TypeOK
  <1>2. \A g \in SourceFiles : IsKeyOf(measure, f, g) \/ EndsLike(measure, f, g) <=> f = g
    BY <1>1 DEF NamesAreOwn
  <1>3. Exact(f) \cup BySuffix(f) = {g \in {f} : files[g].there}
    BY <1>1, <1>2 DEF Exact, BySuffix
  <1> QED
    BY <1>3 DEF Candidates

LEMMA SameRules ==
    ASSUME UNCHANGED <<thresholds, base, files, sums>>
    PROVE  BrokenRules(TotalCoverage(files), ChangedCoverage(sums))'
           = BrokenRules(TotalCoverage(files), ChangedCoverage(sums))
  BY DEF BrokenRules, Drop, TotalCoverage, Covered, Total, ChangedCoverage, Hundredths

LEMMA CommandsInv == ASSUME CInv, RunCommands PROVE CInv'
  <1>1. /\ UNCHANGED <<measure, thresholds, changed, told, twice, reader, files, base, pending,
                       sums, unmatched, outcome>>
        /\ stage = "commands" /\ stage' = "report" /\ testsFailed' \in BOOLEAN
        /\ outcome.status = "none"
    BY DEF RunCommands, settings, report, CInv, OutcomeIsOfPolicy
  <1>2. TypeOK'
    BY <1>1 DEF CInv, TypeOK
  <1>3. ~Decided'
    BY <1>1 DEF Decided
  <1>4. ReportIsFollowed'
    BY <1>1, <1>3 DEF CInv, ReportIsFollowed, AsTold, FlushedFiles, Measures
  <1>5. BaseIsMeasured' /\ OutcomeIsOfPolicy'
    BY <1>1, <1>3 DEF CInv, BaseIsMeasured, OutcomeIsOfPolicy
  <1>6. SumsAreOfLookups'
    BY <1>1, SameLookups DEF CInv, SumsAreOfLookups, LookedUp, Covered, Total
  <1> QED
    BY <1>2, <1>4, <1>5, <1>6 DEF CInv

LEMMA FailureInv == ASSUME CInv, RevisionFails PROVE CInv'
  <1>1. /\ UNCHANGED <<measure, thresholds, changed, told, twice, reader, files, base, pending,
                       sums,
                       unmatched>>
        /\ stage \in {"commands", "report", "base"} /\ stage' = "done"
        /\ outcome' = [status |-> "error", broken |-> {}]
    BY DEF RevisionFails, settings, report
  <1>2. outcome' \in [status : {"none", "error", "pass", "fail"}, broken : SUBSET Rules]
    BY <1>1
  <1>3. TypeOK'
    <2>1. testsFailed \in BOOLEAN
      BY DEF CInv, TypeOK
    <2>2. testsFailed' \in BOOLEAN
      BY <2>1, Zenon DEF RevisionFails
    <2> QED
      BY <1>1, <1>2, <2>2 DEF CInv, TypeOK
  <1>4. ~Decided'
    BY <1>1 DEF Decided
  <1>5. ReportIsFollowed'
    BY <1>1, <1>4 DEF CInv, ReportIsFollowed, AsTold, FlushedFiles, Measures
  <1>6. BaseIsMeasured' /\ OutcomeIsOfPolicy'
    BY <1>1, <1>4 DEF BaseIsMeasured, OutcomeIsOfPolicy
  <1>7. SumsAreOfLookups'
    BY <1>1, SameLookups DEF CInv, SumsAreOfLookups, LookedUp, Covered, Total
  <1> QED
    BY <1>3, <1>5, <1>6, <1>7 DEF CInv

LEMMA ReportEndInv == ASSUME CInv, FinishReport PROVE CInv'
  <1>1. /\ UNCHANGED <<measure, thresholds, changed, told, twice, base, pending, sums, unmatched,
                       outcome, testsFailed>>
        /\ stage = "report" /\ stage' = IF thresholds.maxDrop = NoLimit THEN "match" ELSE "base"
        /\ files' = FlushedFiles /\ reader' = NoRecord
        /\ outcome.status = "none" /\ base = NoLimit
        /\ pending = changed /\ sums.covered = 0 /\ sums.total = 0
        /\ FlushedFiles \in [SourceFiles -> Count]
    BY RecordIsTold
    DEF FinishReport, settings, report, CInv, OutcomeIsOfPolicy, BaseIsMeasured, SumsAreOfLookups
  <1>2. /\ reader' \in [file : SourceFiles \cup {NoFile}, covered : Nat, total : Nat]
        /\ reader'.file = NoFile
    BY <1>1 DEF NoRecord
  <1>3. TypeOK'
    BY <1>1, <1>2 DEF CInv, TypeOK
  <1>4. ~Decided'
    BY <1>1 DEF Decided
  <1>5. ReportIsFollowed'
    BY <1>1, <1>2, <1>4, RecordIsTold DEF CInv, ReportIsFollowed, AsTold, FlushedFiles, Measures
  <1>6. BaseIsMeasured' /\ OutcomeIsOfPolicy'
    BY <1>1, <1>4 DEF BaseIsMeasured, OutcomeIsOfPolicy
  <1>7. SumsAreOfLookups'
    <2>1. LookedUp' = {}
      BY <1>1 DEF LookedUp
    <2> QED
      BY <1>1, <2>1, NothingMeasured DEF SumsAreOfLookups
  <1> QED
    BY <1>3, <1>5, <1>6, <1>7 DEF CInv

LEMMA BaseInv == ASSUME CInv, MeasureBase PROVE CInv'
  <1>1. /\ UNCHANGED <<measure, thresholds, changed, told, twice, reader, files, pending, sums,
                       unmatched, outcome, testsFailed>>
        /\ stage = "base" /\ stage' = "match" /\ outcome.status = "none"
    BY DEF MeasureBase, settings, report, CInv, OutcomeIsOfPolicy
  <1>2. base' \in Percentages
    <2>1. PICK r \in BaseReports : base' = Hundredths("total", r[1], r[2])
      BY DEF MeasureBase
    <2>2. PICK c \in Nat, t \in Nat : r = <<c, t>>
      <3>1. r \in Nat \X Nat
        BY CoverageAssumption
      <3> QED
        BY <3>1
    <2>3. c \in 0..t /\ base' = Hundredths("total", c, t)
      BY <2>1, <2>2, CoverageAssumption
    <2> QED
      BY <2>3, HundredthsInRange
  <1>3. TypeOK'
    BY <1>1, <1>2 DEF CInv, TypeOK
  <1>4. ~Decided'
    BY <1>1 DEF Decided
  <1>5. ReportIsFollowed'
    BY <1>1, <1>4 DEF CInv, ReportIsFollowed, AsTold, FlushedFiles, Measures
  <1>6. base' # NoLimit /\ thresholds.maxDrop # NoLimit
    <2>1. base' # NoLimit
      <3>1. base' \in Int /\ 0 <= base'
        BY <1>2, PercentagesAreNumbers
      <3> QED
        BY <3>1, NoLimitIsNegative
    <2>2. thresholds.maxDrop # NoLimit
      BY <1>1 DEF CInv, BaseIsMeasured
    <2> QED
      BY <2>1, <2>2
  <1>7. BaseIsMeasured' /\ OutcomeIsOfPolicy'
    BY <1>1, <1>4, <1>6 DEF BaseIsMeasured, OutcomeIsOfPolicy
  <1>8. SumsAreOfLookups'
    BY <1>1, SameLookups DEF CInv, SumsAreOfLookups, LookedUp, Covered, Total
  <1> QED
    BY <1>3, <1>5, <1>7, <1>8 DEF CInv

LEMMA MatchInv == ASSUME CInv, NEW f \in SourceFiles, MatchFile(f) PROVE CInv'
  <1>1. /\ UNCHANGED <<measure, thresholds, changed, told, twice, reader, files, base, stage,
                       outcome, testsFailed>>
        /\ stage = "match" /\ outcome.status = "none"
        /\ f \in pending /\ pending' = pending \ {f}
    BY DEF MatchFile, settings, report, CInv, OutcomeIsOfPolicy
  <1>2. /\ f \in changed /\ changed \subseteq SourceFiles /\ pending \subseteq changed
        /\ unmatched \subseteq changed
        /\ sums \in [covered : Nat, total : Nat]
        /\ sums.covered \in Nat /\ sums.total \in Nat /\ sums.covered <= sums.total
        /\ files \in [SourceFiles -> Count] /\ Measures(files)
    BY <1>1, RecordIsTold DEF CInv, TypeOK
  <1>3. ~Decided /\ ~Decided'
    BY <1>1 DEF Decided
  <1>4. \/ /\ Candidates(f) = {} /\ sums' = sums /\ unmatched' = unmatched \cup {f}
        \/ /\ unmatched' = unmatched
           /\ \E g \in Candidates(f) :
                /\ sums' = [covered |-> sums.covered + files[g].covered,
                            total |-> sums.total + files[g].total]
                /\ g \in SourceFiles /\ files[g].there
    BY DEF MatchFile, Candidates, Exact, BySuffix
  <1>5. \A g \in SourceFiles : /\ files[g].covered \in Nat /\ files[g].total \in Nat
                                /\ files[g].covered <= files[g].total
    BY <1>2, CountFields DEF Measures
  <1>6. sums' \in [covered : Nat, total : Nat] /\ sums'.covered <= sums'.total
    BY <1>2, <1>4, <1>5
  <1>7. TypeOK'
    BY <1>1, <1>2, <1>4, <1>6 DEF CInv, TypeOK
  <1>8. ReportIsFollowed'
    BY <1>1, <1>3 DEF CInv, ReportIsFollowed, AsTold, FlushedFiles, Measures
  <1>9. BaseIsMeasured' /\ OutcomeIsOfPolicy'
    BY <1>1, <1>3 DEF CInv, BaseIsMeasured, OutcomeIsOfPolicy
  <1>10. SumsAreOfLookups'
    <2>1. SUFFICES ASSUME LookupsAreOwn
                   PROVE  /\ sums'.covered = Covered(files, LookedUp')
                          /\ sums'.total = Total(files, LookedUp')
      <3>1. Covered(files, LookedUp)' = Covered(files, LookedUp')
            /\ Total(files, LookedUp)' = Total(files, LookedUp')
        BY <1>1 DEF Covered, Total
      <3> QED
        BY <1>1, <3>1, SameLookups DEF SumsAreOfLookups
    <2>2. /\ sums.covered = Covered(files, LookedUp) /\ sums.total = Total(files, LookedUp)
          /\ Candidates(f) = {g \in {f} : files[g].there}
      BY <1>2, <2>1 DEF CInv, SumsAreOfLookups, LookupsAreOwn
    <2>3. LookedUp \in SUBSET SourceFiles /\ f \in SourceFiles \ LookedUp
      BY <1>1, <1>2 DEF LookedUp
    <2>4. CASE files[f].there
      <3>1. LookedUp' = LookedUp \cup {f}
        BY <1>1, <1>2, <2>4 DEF LookedUp
      <3>2. /\ sums'.covered = sums.covered + files[f].covered
            /\ sums'.total = sums.total + files[f].total
        BY <1>4, <2>2, <2>4
      <3> QED
        BY <1>2, <2>2, <2>3, <3>1, <3>2, MeasuredWithOneMore
    <2>5. CASE ~files[f].there
      <3>1. LookedUp' = LookedUp
        BY <1>1, <1>2, <2>5 DEF LookedUp
      <3>2. sums' = sums
        BY <1>4, <2>2, <2>5
      <3> QED
        BY <2>2, <3>1, <3>2
    <2> QED
      BY <2>4, <2>5
  <1> QED
    BY <1>7, <1>8, <1>9, <1>10 DEF CInv

LEMMA PolicyInv == ASSUME CInv, ApplyPolicy PROVE CInv'
  <1> DEFINE broken == BrokenRules(TotalCoverage(files), ChangedCoverage(sums))
  <1>1. /\ UNCHANGED <<measure, thresholds, changed, told, twice, reader, files, base, pending,
                       sums, unmatched, testsFailed>>
        /\ stage = "match" /\ stage' = "done" /\ pending = {}
        /\ outcome' = [status |-> IF broken = {} THEN "pass" ELSE "fail", broken |-> broken]
    BY DEF ApplyPolicy, settings, report
  <1>2. broken' = broken
    BY <1>1, SameRules
  <1>3. broken \in SUBSET Rules
    BY RulesAreRules
  <1> HIDE DEF broken
  <1>4. /\ outcome' \in [status : {"none", "error", "pass", "fail"}, broken : SUBSET Rules]
        /\ outcome'.broken = broken /\ outcome'.status \in {"pass", "fail"}
        /\ outcome'.status = "fail" <=> broken # {}
    BY <1>1, <1>3
  <1>5. TypeOK'
    BY <1>1, <1>4 DEF CInv, TypeOK
  <1>6. ReportIsFollowed'
    BY <1>1 DEF CInv, ReportIsFollowed, AsTold, FlushedFiles, Measures
  <1>7. BaseIsMeasured'
    BY <1>1 DEF CInv, BaseIsMeasured
  <1>8. OutcomeIsOfPolicy'
    BY <1>1, <1>2, <1>4 DEF OutcomeIsOfPolicy, broken
  <1>9. SumsAreOfLookups'
    BY <1>1, SameLookups DEF CInv, SumsAreOfLookups, LookedUp, Covered, Total
  <1> QED
    BY <1>5, <1>6, <1>7, <1>8, <1>9 DEF CInv

LEMMA CoverageStutters == ASSUME CInv, UNCHANGED vars PROVE CInv'
  <1>1. UNCHANGED <<measure, thresholds, changed, told, twice, reader, files, base, pending, sums,
                    unmatched, testsFailed, stage, outcome>>
    BY DEF vars
  <1>2. Decided' = Decided /\ TypeOK'
    BY <1>1 DEF Decided, CInv, TypeOK
  <1>3. ReportIsFollowed'
    BY <1>1, <1>2 DEF CInv, ReportIsFollowed, AsTold, FlushedFiles, Measures
  <1>4. BaseIsMeasured'
    BY <1>1, <1>2 DEF CInv, BaseIsMeasured
  <1>5. OutcomeIsOfPolicy'
    BY <1>1, <1>2, SameRules DEF CInv, OutcomeIsOfPolicy
  <1>6. SumsAreOfLookups'
    BY <1>1, SameLookups DEF CInv, SumsAreOfLookups, LookedUp, Covered, Total
  <1> QED
    BY <1>2, <1>3, <1>4, <1>5, <1>6 DEF CInv

LEMMA NextCInv == CInv /\ [Next]_vars => CInv'
  <1> SUFFICES ASSUME CInv, [Next]_vars PROVE CInv'
    OBVIOUS
  <1>1. CASE RunCommands
    BY <1>1, CommandsInv
  <1>2. CASE RevisionFails
    BY <1>2, FailureInv
  <1>3. ASSUME NEW f \in SourceFiles, ReadSourceFile(f) \/ MatchFile(f) PROVE CInv'
    BY <1>3, SourceFileInv, MatchInv
  <1>4. ASSUME NEW c \in 0..1, ReadLine(c) PROVE CInv'
    BY <1>4, LineInv
  <1>5. ASSUME NEW t \in 0..2, NEW c \in 0..t, ReadSummary(c, t) PROVE CInv'
    BY <1>5, SummaryInv
  <1>6. ASSUME NEW t \in 0..2, NEW c \in 0..t, NEW f \in SourceFiles,
               ReadElement(f, c, t) \/ RepeatElement(f, c, t)
        PROVE  CInv'
    BY <1>6, ElementInv, RepetitionInv
  <1>7. CASE EndRecord
    BY <1>7, RecordEndInv
  <1>8. CASE FinishReport
    BY <1>8, ReportEndInv
  <1>9. CASE MeasureBase
    BY <1>9, BaseInv
  <1>10. CASE ApplyPolicy
    BY <1>10, PolicyInv
  <1>11. CASE UNCHANGED vars
    BY <1>11, CoverageStutters
  <1> QED
    BY <1>1, <1>2, <1>3, <1>4, <1>5, <1>6, <1>7, <1>8, <1>9, <1>10, <1>11 DEF Next

-----------------------------------------------------------------------------
(* The verdict.                                                            *)

LEMMA ThresholdsAreNumbers ==
    ASSUME TypeOK
    PROVE  /\ thresholds.minTotal \in Nat /\ thresholds.minChanged \in Nat
           /\ thresholds.maxDrop # NoLimit => thresholds.maxDrop \in Nat
           /\ base # NoLimit => base \in Nat
  <1>1. /\ MinTotals \subseteq Percentages /\ MinChanged \subseteq Percentages
        /\ MaxDrops \subseteq Percentages \cup {NoLimit}
    BY CoverageAssumption
  <1>2. /\ thresholds.minTotal \in MinTotals /\ thresholds.minChanged \in MinChanged
        /\ thresholds.maxDrop \in MaxDrops /\ base \in Percentages \cup {NoLimit}
    BY DEF TypeOK
  <1> QED
    BY <1>1, <1>2, PercentagesAreNumbers

LEMMA BrokenRulesAre ==
    ASSUME TypeOK, NEW total \in Int, NEW part \in Int
    PROVE  /\ "total" \in BrokenRules(total, part) <=> total < thresholds.minTotal
           /\ "drop" \in BrokenRules(total, part)
              <=> base # NoLimit /\ base - total > thresholds.maxDrop
           /\ "changed" \in BrokenRules(total, part)
              <=> 0 <= part /\ part < thresholds.minChanged
           /\ BrokenRules(total, part) \subseteq Rules
  BY ThresholdsAreNumbers DEF BrokenRules, Drop, Rules

(* With everything read, a percentage of the report.                       *)
LEMMA TotalCoverageIs ==
    ASSUME CInv
    PROVE  LET covered == Covered(files, SourceFiles)
               total == Total(files, SourceFiles)
           IN /\ covered \in Nat /\ total \in Nat
              /\ TotalCoverage(files) = Hundredths("total", covered, total)
              /\ TotalCoverage(files) \in Int
              /\ total = 0 => TotalCoverage(files) = 0
              /\ total # 0 => \A m \in Int :
                    TotalCoverage(files) < m <=> Below("total", covered, total, m)
  <1> DEFINE covered == Covered(files, SourceFiles)
             total == Total(files, SourceFiles)
             coverage == TotalCoverage(files)
  <1>1. covered \in Nat /\ total \in Nat
    BY RecordIsTold, MeasuredIsNatural
  <1>2. coverage = Hundredths("total", covered, total)
    BY DEF TotalCoverage
  <1> HIDE DEF covered, total, coverage
  <1>3. total = 0 => coverage = 0
    BY <1>2 DEF Hundredths
  <1>4. total # 0 => /\ coverage \in Int
                     /\ \A m \in Int : coverage < m <=> Below("total", covered, total, m)
    BY <1>1, <1>2, HundredthsBelow
  <1> QED
    BY <1>1, <1>2, <1>3, <1>4 DEF covered, total, coverage

LEMMA ChangedCoverageIs ==
    ASSUME NEW c \in Nat, NEW t \in Nat, NEW counts, counts.covered = c, counts.total = t
    PROVE  /\ ChangedCoverage(counts) \in Int
           /\ t # 0 => ChangedCoverage(counts) = Hundredths("changed", c, t)
           /\ c <= t => \A m \in Int :
                0 <= ChangedCoverage(counts) /\ ChangedCoverage(counts) < m
                <=> Below("changed", c, t, m)
  <1>1. CASE t = 0
    <2>1. ChangedCoverage(counts) = NoLimit
      BY <1>1 DEF ChangedCoverage
    <2>2. ASSUME NEW m \in Int, c <= t PROVE ~Below("changed", c, t, m)
      <3>1. c = 0
        BY <1>1, <2>2
      <3>2. <<"changed", c, t>> \notin TiesDown
        BY <1>1, TieDown
      <3> QED
        BY <1>1, <3>1, <3>2 DEF Below
    <2> QED
      BY <1>1, <2>1, <2>2, NoLimitIsNegative
  <1>2. CASE t # 0
    <2>1. ChangedCoverage(counts) = Hundredths("changed", c, t)
      BY <1>2 DEF ChangedCoverage
    <2>2. /\ Hundredths("changed", c, t) \in Int
          /\ \A m \in Int : Hundredths("changed", c, t) < m <=> Below("changed", c, t, m)
      BY <1>2, HundredthsBelow
    <2>3. c <= t => 0 <= Hundredths("changed", c, t)
      BY HundredthsInRange, PercentagesAreNumbers
    <2> QED
      BY <1>2, <2>1, <2>2, <2>3
  <1> QED
    BY <1>1, <1>2

(* What the gate works with is what the report told.                       *)
LEMMA ReportIsRead ==
    ASSUME CInv, stage \in {"base", "match"} \/ Decided
    PROVE  AsTold(files)
  <1>1. reader.file = NoFile
    BY DEF CInv, ReportIsFollowed
  <1> QED
    BY <1>1, RecordIsTold

LEMMA ReportsAreReadFaithfully == CInv => ReportIsReadFaithfully
  BY ReportIsRead DEF AsTold, ReportIsReadFaithfully

LEMMA SameCounts ==
    ASSUME NEW T \in SUBSET SourceFiles, \A f \in T : files[f] = told[f]
    PROVE  Covered(files, T) = Covered(told, T) /\ Total(files, T) = Total(told, T)
  <1>1. /\ [f \in T |-> files[f].covered] = [f \in T |-> told[f].covered]
        /\ [f \in T |-> files[f].total] = [f \in T |-> told[f].total]
    OBVIOUS
  <1> QED
    BY <1>1 DEF Covered, Total

LEMMA VerdictsFollowMeasurement == CInv => VerdictFollowsMeasurement
  <1> SUFFICES ASSUME CInv, Decided PROVE VerdictFollowsMeasurement
    BY DEF Decided, VerdictFollowsMeasurement
  <1> DEFINE known == {f \in changed : told[f].there}
             coverage == TotalCoverage(files)
             part == ChangedCoverage(sums)
             covered == Covered(told, SourceFiles)
             total == Total(told, SourceFiles)
             c == sums.covered
             t == sums.total
             min == thresholds.minTotal
             minPart == thresholds.minChanged
             max == thresholds.maxDrop
  <1>1. /\ TypeOK /\ AsTold(files) /\ changed \subseteq SourceFiles
        /\ files \in [SourceFiles -> Count] /\ told \in [SourceFiles -> Count]
    BY ReportIsRead DEF CInv, TypeOK
  <1>2. /\ pending = {} /\ outcome.broken = BrokenRules(coverage, part)
        /\ outcome.status = "fail" <=> outcome.broken # {}
    BY DEF CInv, OutcomeIsOfPolicy
  <1>3. /\ min \in Nat /\ minPart \in Nat /\ (max # NoLimit => max \in Nat)
        /\ (base # NoLimit => base \in Nat)
    BY <1>1, ThresholdsAreNumbers
  <1>4. base = NoLimit <=> max = NoLimit
    BY DEF CInv, BaseIsMeasured
  <1>5. /\ coverage \in Int
        /\ twice = {} =>
             /\ total = 0 => coverage = 0
             /\ total # 0 => \A m \in Int : coverage < m <=> Below("total", covered, total, m)
    <2>1. twice = {} => Covered(files, SourceFiles) = covered /\ Total(files, SourceFiles) = total
      BY <1>1, SameCounts DEF AsTold
    <2> HIDE DEF covered, total
    <2> QED
      BY <2>1, TotalCoverageIs
  <1>6. c \in Nat /\ t \in Nat /\ c <= t
    BY <1>1 DEF TypeOK
  <1>7. /\ part \in Int
        /\ \A m \in Int : 0 <= part /\ part < m <=> Below("changed", c, t, m)
    BY <1>6, ChangedCoverageIs
  <1>8. LookupsAreOwn /\ changed \cap twice = {}
        => c = Covered(told, known) /\ t = Total(told, known)
    <2>1. LookedUp = known
      BY <1>1, <1>2 DEF LookedUp, AsTold
    <2>2. known \in SUBSET SourceFiles
      BY <1>1
    <2>3. changed \cap twice = {} => \A f \in known : files[f] = told[f]
      BY <1>1 DEF AsTold
    <2>4. LookupsAreOwn => c = Covered(files, known) /\ t = Total(files, known)
      BY <2>1 DEF CInv, SumsAreOfLookups
    <2> HIDE DEF known
    <2> QED
      BY <2>2, <2>3, <2>4, SameCounts
  <1>9. /\ "total" \in BrokenByMeasurement
           <=> IF total = 0 THEN min > 0 ELSE Below("total", covered, total, min)
        /\ "drop" \in BrokenByMeasurement
           <=> max # NoLimit /\ IF total = 0 THEN base > max
                                ELSE Below("total", covered, total, base - max)
        /\ "changed" \in BrokenByMeasurement
           <=> Below("changed", Covered(told, known), Total(told, known), minPart)
        /\ BrokenByMeasurement \subseteq Rules
    BY DEF BrokenByMeasurement, Rules
  <1> HIDE DEF known, coverage, part, covered, total, c, t
  <1>10. /\ "total" \in outcome.broken <=> coverage < min
         /\ "drop" \in outcome.broken <=> base # NoLimit /\ base - coverage > max
         /\ "changed" \in outcome.broken <=> 0 <= part /\ part < minPart
         /\ outcome.broken \subseteq Rules
    BY <1>1, <1>2, <1>5, <1>7, BrokenRulesAre
  <1> HIDE DEF min, minPart, max
  <1>11. twice = {} => ("total" \in outcome.broken <=> "total" \in BrokenByMeasurement)
    BY <1>3, <1>5, <1>9, <1>10
  <1>12. ASSUME twice = {}
         PROVE  "drop" \in outcome.broken <=> "drop" \in BrokenByMeasurement
    <2>1. CASE max = NoLimit
      BY <1>4, <1>9, <1>10, <2>1
    <2>2. CASE max # NoLimit
      <3>1. base \in Nat /\ max \in Nat /\ base - max \in Int
        BY <1>3, <1>4, <2>2
      <3>2. base - coverage > max <=> coverage < base - max
        BY <1>5, <3>1
      <3>3. "drop" \in outcome.broken <=> coverage < base - max
        BY <1>4, <1>10, <2>2, <3>2
      <3>4. CASE total = 0
        BY <1>5, <1>9, <1>12, <2>2, <3>1, <3>3, <3>4
      <3>5. CASE total # 0
        BY <1>5, <1>9, <1>12, <2>2, <3>1, <3>3, <3>5
      <3> QED
        BY <3>4, <3>5
    <2> QED
      BY <2>1, <2>2
  <1>13. NamesAreOwn(measure) /\ changed \cap twice = {}
         => ("changed" \in outcome.broken <=> "changed" \in BrokenByMeasurement)
    <2>1. NamesAreOwn(measure) => LookupsAreOwn
      BY <1>1, OwnNamesAreLookedUp
    <2> QED
      BY <1>3, <1>7, <1>8, <1>9, <1>10, <2>1
  <1>14. twice = {} => outcome.broken \ {"changed"} = BrokenByMeasurement \ {"changed"}
    BY <1>9, <1>10, <1>11, <1>12 DEF Rules
  <1> QED
    BY <1>2, <1>13, <1>14 DEF VerdictFollowsMeasurement

LEMMA CoveringMoreBreaksNothing == CInv => MoreCoverageBreaksNothing
  <1> SUFFICES ASSUME CInv, Decided, NEW f \in SourceFiles,
                      files[f].covered < files[f].total,
                      NEW counts,
                      \/ counts = sums
                      \/ sums.covered < sums.total /\ counts = [sums EXCEPT !.covered = @ + 1]
               PROVE  BrokenRules(TotalCoverage([files EXCEPT ![f].covered = @ + 1]),
                                  ChangedCoverage(counts)) \subseteq outcome.broken
    BY DEF Decided, MoreCoverageBreaksNothing
  <1> DEFINE more == [files EXCEPT ![f].covered = @ + 1]
             covered == Covered(files, SourceFiles)
             total == Total(files, SourceFiles)
             c == sums.covered
             t == sums.total
             old == TotalCoverage(files)
             new == TotalCoverage(more)
             oldPart == ChangedCoverage(sums)
             newPart == ChangedCoverage(counts)
  <1>1. /\ TypeOK /\ files \in [SourceFiles -> Count]
        /\ outcome.broken = BrokenRules(old, oldPart)
    BY RecordIsTold DEF CInv, OutcomeIsOfPolicy
  <1>2. covered \in Nat /\ total \in Nat /\ old = Hundredths("total", covered, total)
    BY TotalCoverageIs
  <1>3. new = Hundredths("total", covered + 1, total)
    <2>1. Covered(more, SourceFiles) = covered + 1 /\ Total(more, SourceFiles) = total
      BY <1>1, CoveringOneMore
    <2> QED
      BY <2>1 DEF TotalCoverage
  <1>4. total # 0
    <2> DEFINE T == SourceFiles \ {f}
    <2>1. T \in SUBSET SourceFiles /\ f \in SourceFiles \ T /\ T \cup {f} = SourceFiles
      OBVIOUS
    <2> HIDE DEF T
    <2>2. total = Total(files, T) + files[f].total
      BY <1>1, <2>1, MeasuredWithOneMore
    <2>3. Total(files, T) \in Nat /\ files[f].total \in Nat /\ files[f].covered \in Nat
      BY <1>1, <2>1, MeasuredIsNatural, CountFields
    <2> QED
      BY <2>2, <2>3
  <1>5. c \in Nat /\ t \in Nat /\ c <= t /\ sums \in [covered : Nat, total : Nat]
    BY <1>1 DEF TypeOK
  <1>6. \/ counts = sums
        \/ c < t /\ counts.covered = c + 1 /\ counts.total = t
    BY <1>5
  <1>7. oldPart \in Int /\ (t # 0 => oldPart = Hundredths("changed", c, t))
    BY <1>5, ChangedCoverageIs
  <1>8. newPart \in Int /\ (newPart >= 0 => 0 <= oldPart /\ oldPart <= newPart)
    <2>1. CASE counts = sums
      BY <1>7, <2>1
    <2>2. CASE c < t /\ counts.covered = c + 1 /\ counts.total = t
      <3>1. t # 0 /\ c + 1 \in Nat
        BY <1>5, <2>2
      <3>2. newPart \in Int /\ newPart = Hundredths("changed", c + 1, t)
        BY <1>5, <2>2, <3>1, ChangedCoverageIs
      <3>3. Hundredths("changed", c, t) <= Hundredths("changed", c + 1, t)
        BY <1>5, <3>1, HundredthsGrow
      <3>4. Hundredths("changed", c, t) \in Percentages
        BY <1>5, HundredthsInRange
      <3> QED
        BY <1>7, <3>1, <3>2, <3>3, <3>4, PercentagesAreNumbers
    <2> QED
      BY <1>6, <2>1, <2>2
  <1> HIDE DEF more, covered, total, c, t, old, new, oldPart, newPart
  <1>9. old \in Int /\ new \in Int /\ old <= new
    BY <1>2, <1>3, <1>4, HundredthsGrow
  <1>10. /\ "total" \in BrokenRules(new, newPart) => "total" \in BrokenRules(old, oldPart)
         /\ "drop" \in BrokenRules(new, newPart) => "drop" \in BrokenRules(old, oldPart)
         /\ "changed" \in BrokenRules(new, newPart) => "changed" \in BrokenRules(old, oldPart)
    <2>1. /\ thresholds.minTotal \in Nat /\ thresholds.minChanged \in Nat
          /\ base # NoLimit => base \in Nat /\ thresholds.maxDrop \in Nat
      BY <1>1, ThresholdsAreNumbers DEF CInv, BaseIsMeasured
    <2> QED
      BY <1>1, <1>7, <1>8, <1>9, <2>1, BrokenRulesAre
  <1>11. BrokenRules(new, newPart) \subseteq Rules
    BY <1>1, <1>8, <1>9, BrokenRulesAre
  <1>12. BrokenRules(new, newPart) \subseteq outcome.broken
    BY <1>1, <1>10, <1>11 DEF Rules
  <1> QED
    BY <1>12 DEF more, new, newPart

(* The types of the coverage gate: the base is measured between 0 and 100  *)
(* percent, and of the changed files no more is covered than measured.     *)
THEOREM CoverageTypes == Spec => []TypeOK
  <1>1. CInv => TypeOK
    BY DEF CInv
  <1> QED
    BY InitCInv, NextCInv, <1>1, PTL DEF Spec

(* A coverage verdict is of what the report says, whatever the format, the *)
(* order and the pieces it is told in, and however many files it has; of   *)
(* files that it tells twice, what LCOV and the other formats make of it.  *)
THEOREM CoverageIsMeasured == Spec => []CoverageVerdictIsMeasured
  <1>1. CInv => CoverageVerdictIsMeasured
    BY ReportsAreReadFaithfully, VerdictsFollowMeasurement, CoveringMoreBreaksNothing
    DEF CoverageVerdictIsMeasured
  <1> QED
    BY InitCInv, NextCInv, <1>1, PTL DEF Spec

-----------------------------------------------------------------------------
(* TECHNICAL DEBT.                                                         *)

(* The inductive invariant of the technical debt gate.                     *)
Plain == setup.quirks \cap {"plus", "no_newline"} = {}
Analysed == phase \in {"functions", "scan"} \/ decision \in {"pass", "fail"}
Blocking == \E x \in findings : x.blocking

(* The patch that is read is of a file that has one, markers are added to  *)
(* files that the loop has reached and behind the position, and the gate's *)
(* line is the position.                                                   *)
PatchIsFollowed ==
    /\ phase = "patch" => file \in patched
    /\ phase \in {"todos", "patch"} => \A p \in added : p[1] \notin todo
    /\ phase = "patch" => /\ \A p \in added : p[1] = file => p[2] <= position
                          /\ Plain => line = position
                          /\ depth = 0 /\ start = 0 /\ open = <<>> /\ signature = 0

MarkersAreFound ==
    /\ IsFiniteSet(added) /\ IsFiniteSet(Todos)
    /\ Cardinality(Todos) <= Cardinality(InPatches)
    /\ Plain => Todos = InPatches
    /\ "plus" \notin setup.quirks /\ InPatches # {} => Todos # {}

(* A file with braces has no functions before it is scanned.               *)
HeadIsRead ==
    \A f \in setup.files :
       /\ head[f].functions # {} => head[f].there /\ head[f].read = "well"
       /\ setup.language = "python" => /\ IsFiniteSet(head[f].functions)
                                       /\ \A g \in head[f].functions : g.plain
       /\ setup.language # "python" /\ (f \in todo \/ phase \in {"todos", "patch"})
            => head[f].functions = {}

FindingsHaveReasons ==
    \A x \in findings :
       /\ x.kind = "todo" => (x.blocking = limits.failOnTodo)
       /\ x.kind = "length" => (x.blocking = (setup.language = "python"))
       /\ x.kind # "todo" /\ x.blocking => Overgrown(x.file)

SourcesAreAnalysed ==
    Analysed => \A f \in setup.files \ todo : /\ head[f].there => head[f].read = "well"
                                              /\ Overgrown(f) => Blocking

LengthsAreFound ==
    /\ phase \in {"todos", "patch"} => \A x \in findings : x.kind = "todo"
    /\ \A f \in todo : LinesFoundLong(f) = {}
    /\ Analysed =>
         \A f \in setup.files \ todo : LinesFoundLong(f) = LinesOfLong(f)

(* The scan follows the one plain function that is open, if any, and depth *)
(* counts the blocks that are open in it, its own included.                *)
Followed(k) == \A i \in 1..Len(open) : open[i].kind = "plain" <=> i = k
BlockIsFollowed ==
    phase = "scan" =>
      /\ setup.language # "python" /\ head[file].there /\ head[file].read = "well"
      /\ IF start = 0 THEN depth = 0 /\ ~InPlain
         ELSE \E k \in 1..Len(open) :
                 Followed(k) /\ start = open[k].first /\ depth = Len(open) - k + 1

DecisionIsOfFindings ==
    /\ phase # "done" => decision = "none"
    /\ decision \in {"pass", "fail"} => todo = {} /\ (decision = "fail" <=> Blocking)

DInv == /\ DebtTypeOK /\ PatchIsFollowed /\ MarkersAreFound /\ HeadIsRead
        /\ FindingsHaveReasons /\ SourcesAreAnalysed /\ LengthsAreFound
        /\ BlockIsFollowed /\ DecisionIsOfFindings

-----------------------------------------------------------------------------
(* What the parts of the invariant depend on.                              *)

LEMMA SetupIsTyped ==
    ASSUME setup \in Setups
    PROVE  /\ \A l \in setup.lengths : l \in Nat \ {0}
           /\ setup.maxPatch \in Nat /\ setup.maxSource \in Nat
           /\ MaxComplexity \in Nat \ {0} /\ MaxGap \in Nat
           /\ \A text \in setup.sources :
                 /\ text \in Source /\ IsFiniteSet(text.functions)
                 /\ \A g \in text.functions : 1 <= g.first /\ g.first <= g.last /\ g.plain
                 /\ text.functions # {} =>
                       setup.language = "python" /\ text.there /\ text.read = "well"
  BY DebtAssumption

LEMMA TodosStay ==
    ASSUME NEW more, \A x \in more : x.kind # "todo", findings' = findings \cup more
    PROVE  Todos' = Todos
  BY DEF Todos

LEMMA LengthsStay ==
    ASSUME NEW more, NEW f, \A x \in more : x.file # f \/ x.kind # "length",
           findings' = findings \cup more
    PROVE  LinesFoundLong(f)' = LinesFoundLong(f)
  BY DEF LinesFoundLong

LEMMA OvergrownStays ==
    ASSUME NEW f, UNCHANGED <<setup, limits, head>>
    PROVE  Overgrown(f)' <=> Overgrown(f)
  BY DEF Overgrown

LEMMA OnlyPythonIsOvergrown ==
    ASSUME NEW f, setup.language # "python"
    PROVE  ~Overgrown(f)
  BY DEF Overgrown

LEMMA LongLinesStay ==
    ASSUME NEW f, UNCHANGED <<limits, head>>
    PROVE  LinesOfLong(f)' = LinesOfLong(f)
  BY DEF LinesOfLong, LongFunctions

(* Findings and patches as they were: what is known of markers stays.      *)
LEMMA MarkersStay ==
    ASSUME MarkersAreFound, NEW more, \A x \in more : x.kind # "todo",
           findings' = findings \cup more, UNCHANGED <<setup, patched, added>>
    PROVE  MarkersAreFound'
  <1>1. Todos' = Todos
    BY TodosStay
  <1>2. InPatches' = InPatches
    BY DEF InPatches
  <1> QED
    BY <1>1, <1>2 DEF MarkersAreFound, Plain

-----------------------------------------------------------------------------
LEMMA InitDInv == DebtInit => DInv
  <1> SUFFICES ASSUME DebtInit PROVE DInv
    OBVIOUS
  <1> USE DEF DebtInit
  <1>1. \A f \in setup.files : head[f] \in setup.sources
    OBVIOUS
  <1>2. DebtTypeOK
    <2>1. head \in [setup.files -> Source]
      BY <1>1, SetupIsTyped
    <2>2. \A f \in setup.files : \A g \in head[f].functions : 1 <= g.first /\ g.first <= g.last
      BY <1>1, SetupIsTyped
    <2>3. open \in Seq([first : 1..line, kind : Kinds])
      OBVIOUS
    <2> QED
      BY <2>1, <2>2, <2>3 DEF DebtTypeOK
  <1>3. PatchIsFollowed
    BY DEF PatchIsFollowed
  <1>4. MarkersAreFound
    <2>1. Todos = {} /\ InPatches = {}
      BY DEF Todos, InPatches
    <2> QED
      BY <2>1, FS_EmptySet DEF MarkersAreFound
  <1>5. HeadIsRead
    BY <1>1, SetupIsTyped DEF HeadIsRead
  <1>6. FindingsHaveReasons /\ SourcesAreAnalysed
    BY DEF FindingsHaveReasons, SourcesAreAnalysed, Analysed
  <1>7. LengthsAreFound
    BY DEF LengthsAreFound, Analysed, LinesFoundLong
  <1>8. BlockIsFollowed /\ DecisionIsOfFindings
    BY DEF BlockIsFollowed, DecisionIsOfFindings
  <1> QED
    BY <1>2, <1>3, <1>4, <1>5, <1>6, <1>7, <1>8 DEF DInv

(* The gate stops: what it has found stays.                                *)
LEMMA Stopping ==
    ASSUME DInv, phase # "done", phase' = "done",
           \/ decision' \in {"error", "raised"}
           \/ phase = "functions" /\ todo = {} /\ decision' = Status,
           todo' \subseteq todo,
           UNCHANGED <<debtGiven, head, added, findings, reading>>
    PROVE  DInv'
  <1> USE DEF DInv, debtGiven, reading
  <1> DEFINE none == {}
  <1>0. UNCHANGED <<setup, limits, patched, diff, head, added, findings, line, depth, start,
                    position, open, signature>> /\ findings' = findings \cup none
    OBVIOUS
  <1>1. \A f : /\ Overgrown(f)' <=> Overgrown(f)
               /\ LinesOfLong(f)' = LinesOfLong(f) /\ LinesFoundLong(f)' = LinesFoundLong(f)
    BY <1>0, OvergrownStays, LongLinesStay, LengthsStay
  <1>2. Analysed' => Analysed
    BY <1>0 DEF Analysed
  <1>3. DebtTypeOK'
    BY <1>0 DEF DebtTypeOK, Status
  <1>4. PatchIsFollowed'
    BY DEF PatchIsFollowed
  <1>5. MarkersAreFound'
    BY <1>0, MarkersStay
  <1>6. HeadIsRead'
    BY <1>0 DEF HeadIsRead
  <1>7. FindingsHaveReasons'
    BY <1>0, <1>1 DEF FindingsHaveReasons
  <1>8. SourcesAreAnalysed'
    BY <1>0, <1>1, <1>2 DEF SourcesAreAnalysed, Blocking, Analysed
  <1>9. LengthsAreFound'
    BY <1>0, <1>1, <1>2 DEF LengthsAreFound, Analysed
  <1>10. BlockIsFollowed'
    BY DEF BlockIsFollowed
  <1>11. DecisionIsOfFindings'
    BY <1>0 DEF DecisionIsOfFindings, Blocking, Status
  <1> QED
    BY <1>3, <1>4, <1>5, <1>6, <1>7, <1>8, <1>9, <1>10, <1>11

LEMMA RefuseEvidenceDInv == DInv /\ RefuseEvidence => DInv'
  BY Stopping DEF RefuseEvidence, EndGate

LEMMA BuildSnapshotDInv == DInv /\ BuildSnapshot => DInv'
  BY Stopping DEF BuildSnapshot, EndGate

-----------------------------------------------------------------------------
(* While markers are searched for, no source is analysed.                  *)

LEMMA NothingIsOpen ==
    <<>> \in Seq([first : 1..line, kind : Kinds])'
  OBVIOUS

LEMMA SearchingForMarkers ==
    ASSUME DInv, phase \in {"todos", "patch"}, phase' \in {"todos", "patch"}, todo' \subseteq todo,
           NEW more, findings' = findings \cup more,
           \A x \in more : x.kind = "todo" /\ (x.blocking = limits.failOnTodo),
           UNCHANGED <<debtGiven, head, decision>>
    PROVE  /\ HeadIsRead' /\ FindingsHaveReasons' /\ SourcesAreAnalysed' /\ LengthsAreFound'
           /\ BlockIsFollowed' /\ DecisionIsOfFindings'
  <1> USE DEF DInv, debtGiven
  <1>1. HeadIsRead'
    BY DEF HeadIsRead
  <1>2. FindingsHaveReasons'
    <2>1. \A f : Overgrown(f)' <=> Overgrown(f)
      BY OvergrownStays
    <2> QED
      BY <2>1 DEF FindingsHaveReasons
  <1>3. decision' = "none" /\ ~Analysed'
    BY DEF DecisionIsOfFindings, Analysed
  <1>4. SourcesAreAnalysed'
    BY <1>3 DEF SourcesAreAnalysed
  <1>5. LengthsAreFound'
    <2>1. \A x \in findings' : x.kind = "todo"
      BY DEF LengthsAreFound
    <2>2. \A f : LinesFoundLong(f)' = {}
      BY <2>1 DEF LinesFoundLong
    <2> QED
      BY <1>3, <2>1, <2>2 DEF LengthsAreFound
  <1>6. BlockIsFollowed' /\ DecisionIsOfFindings'
    BY <1>3 DEF BlockIsFollowed, DecisionIsOfFindings
  <1> QED
    BY <1>1, <1>2, <1>4, <1>5, <1>6

LEMMA OpenPatchDInv ==
    ASSUME DInv, NEW f \in setup.files, OpenPatch(f)
    PROVE  DInv'
  <1> USE DEF DInv, OpenPatch, Rewind, debtGiven
  <1> DEFINE none == {}
  <1>0. findings' = findings \cup none /\ \A x \in none : FALSE
    OBVIOUS
  <1> HIDE DEF none
  <1>1. DebtTypeOK'
    <2>1. open' \in Seq([first : 1..line, kind : Kinds])'
      BY NothingIsOpen
    <2>2. added' \subseteq setup'.files \X (Nat \ {0})
      BY DEF DebtTypeOK
    <2> QED
      BY <2>1, <2>2 DEF DebtTypeOK
  <1>2. PatchIsFollowed'
    <2>1. \A p \in added' : p[1] \notin todo'
      BY DEF PatchIsFollowed
    <2> QED
      BY <2>1 DEF PatchIsFollowed
  <1>3. MarkersAreFound'
    <2>1. Todos' = Todos
      BY <1>0, TodosStay
    <2>2. InPatches' = InPatches
      BY DEF InPatches
    <2>3. IsFiniteSet(added')
      <3>1. IsFiniteSet(added) /\ IsFiniteSet(added \cup {<<f, 1>>})
        BY FS_AddElement DEF MarkersAreFound
      <3> QED
        BY <3>1
    <2> QED
      BY <2>1, <2>2, <2>3 DEF MarkersAreFound, Plain
  <1> QED
    BY <1>0, <1>1, <1>2, <1>3, SearchingForMarkers

LEMMA HunkHeaderDInv ==
    ASSUME DInv, NEW gap \in 1..MaxGap, HunkHeader(gap)
    PROVE  DInv'
  <1> USE DEF DInv, HunkHeader, debtGiven
  <1> DEFINE none == {}
  <1>0. findings' = findings \cup none /\ \A x \in none : FALSE
    OBVIOUS
  <1> HIDE DEF none
  <1>t. gap \in Nat /\ position \in Nat
    BY DebtAssumption DEF DebtTypeOK
  <1>1. DebtTypeOK'
    <2>1. open' \in Seq([first : 1..line, kind : Kinds])'
      BY NothingIsOpen DEF PatchIsFollowed
    <2>2. depth' = 0 /\ start' = 0 /\ signature' = 0 /\ line' \in Nat /\ position' \in Nat
      BY <1>t DEF PatchIsFollowed, HunkLine
    <2> QED
      BY <2>1, <2>2 DEF DebtTypeOK
  <1>2. PatchIsFollowed'
    <2>1. \A p \in added' : p[1] = file' => p[2] <= position'
      BY <1>t DEF PatchIsFollowed, DebtTypeOK
    <2> QED
      BY <2>1 DEF PatchIsFollowed, HunkLine, Plain
  <1>3. MarkersAreFound'
    BY <1>0, MarkersStay
  <1> QED
    BY <1>0, <1>1, <1>2, <1>3, SearchingForMarkers

LEMMA EndPatchDInv == DInv /\ EndPatch => DInv'
  <1> SUFFICES ASSUME DInv, EndPatch PROVE DInv'
    OBVIOUS
  <1> USE DEF DInv, EndPatch, Rewind, debtGiven
  <1> DEFINE none == {}
  <1>0. findings' = findings \cup none /\ \A x \in none : FALSE
    OBVIOUS
  <1> HIDE DEF none
  <1>1. DebtTypeOK'
    <2>1. open' \in Seq([first : 1..line, kind : Kinds])'
      BY NothingIsOpen
    <2> QED
      BY <2>1 DEF DebtTypeOK
  <1>2. PatchIsFollowed'
    BY DEF PatchIsFollowed
  <1>3. MarkersAreFound'
    BY <1>0, MarkersStay
  <1> QED
    BY <1>0, <1>1, <1>2, <1>3, SearchingForMarkers

LEMMA MarkerIsAdded ==
    ASSUME IsFiniteSet(added), NEW place, place \notin added, place[1] \in patched,
           added' = added \cup {place}, patched' = patched
    PROVE  /\ IsFiniteSet(added') /\ IsFiniteSet(InPatches)
           /\ InPatches' = InPatches \cup {place}
           /\ Cardinality(InPatches') = Cardinality(InPatches) + 1
  <1>1. InPatches' = InPatches \cup {place} /\ place \notin InPatches /\ InPatches \subseteq added
    BY DEF InPatches
  <1>2. IsFiniteSet(InPatches)
    BY <1>1, FS_Subset
  <1>3. IsFiniteSet(added \cup {place})
    BY FS_AddElement
  <1>4. Cardinality(InPatches \cup {place}) = Cardinality(InPatches) + 1
    BY <1>1, <1>2, FS_AddElement
  <1> QED
    BY <1>1, <1>2, <1>3, <1>4

LEMMA MarkerIsFound ==
    ASSUME IsFiniteSet(Todos), NEW x, x.kind = "todo", findings' = findings \cup {x}
    PROVE  /\ IsFiniteSet(Todos')
           /\ Todos' = Todos \cup {<<x.file, x.line>>}
           /\ Cardinality(Todos') <= Cardinality(Todos) + 1
  <1> DEFINE place == <<x.file, x.line>>
  <1>1. Todos' = Todos \cup {place}
    BY DEF Todos
  <1> HIDE DEF place
  <1>2. /\ IsFiniteSet(Todos \cup {place})
        /\ Cardinality(Todos) \in Nat
        /\ Cardinality(Todos \cup {place}) = Cardinality(Todos)
           \/ Cardinality(Todos \cup {place}) = Cardinality(Todos) + 1
    BY FS_AddElement, FS_CardinalityType
  <1> QED
    BY <1>1, <1>2 DEF place

(* A line of the patch: what it adds lies behind all that was added, and   *)
(* is found unless it is written with plus signs.                          *)
LEMMA ReadPatchDInv ==
    ASSUME DInv, NEW passed \in {0, 1}, NEW counted \in {0, 1},
           NEW marker \in BOOLEAN, NEW seen \in BOOLEAN, ReadPatch(passed, counted, marker, seen),
           marker => passed = 1, seen => marker /\ counted = 1,
           marker /\ ~seen => "plus" \in setup.quirks,
           passed # counted => ~Plain
    PROVE  DInv'
  <1> DEFINE place == <<file, position + passed>>
             new == Finding("todo", line + counted, limits.failOnTodo)
             more == IF seen THEN {new} ELSE {}
  <1>t. /\ DebtTypeOK /\ MarkersAreFound /\ phase = "patch"
        /\ UNCHANGED <<setup, limits, patched, diff, head, phase, todo, file, depth, start, open,
                       signature, decision>>
        /\ position \in Nat /\ line \in Nat /\ file \in setup.files \ todo /\ file \in patched
        /\ limits.failOnTodo \in BOOLEAN
        /\ position' = position + passed /\ line' = line + counted
        /\ depth = 0 /\ start = 0 /\ open = <<>> /\ signature = 0 /\ (Plain => line = position)
        /\ \A p \in added : p[1] = file => p[2] <= position
        /\ \A p \in added : p[1] \notin todo
    BY DEF DebtTypeOK, PatchIsFollowed, ReadPatch, DInv, debtGiven
  <1>f. findings' = findings \cup more
    BY <1>t DEF ReadPatch, Finding
  <1>n. /\ new.kind = "todo" /\ new.file = file /\ new.line = line + counted
        /\ new.blocking = limits.failOnTodo
    BY DEF Finding
  <1>m. \A x \in more : x = new
    OBVIOUS
  <1>a. added' = IF marker THEN added \cup {place} ELSE added
    BY <1>t DEF ReadPatch
  <1>p. place[1] = file /\ place[2] = position + passed /\ (marker => place \notin added)
    BY <1>t
  <1>1. DebtTypeOK'
    <2>1. open' \in Seq([first : 1..line, kind : Kinds])'
      BY <1>t, NothingIsOpen
    <2>2. added' \subseteq setup.files \X (Nat \ {0})
      BY <1>a, <1>t DEF DebtTypeOK
    <2>3. \A x \in findings' : /\ x.kind \in {"todo", "length", "complexity"}
                               /\ x.file \in setup.files /\ x.line \in Nat \ {0}
                               /\ x.blocking \in BOOLEAN
      BY <1>f, <1>n, <1>m, <1>t DEF DebtTypeOK
    <2>4. line' \in Nat /\ position' \in Nat
      BY <1>t
    <2> HIDE DEF place, new, more
    <2> QED
      BY <1>t, <2>1, <2>2, <2>3, <2>4 DEF DebtTypeOK
  <1>2. PatchIsFollowed'
    <2>1. \A p \in added' : p[1] \notin todo' /\ (p[1] = file' => p[2] <= position')
      BY <1>a, <1>t, <1>p DEF DebtTypeOK
    <2>2. Plain' => line' = position'
      BY <1>t DEF Plain
    <2> QED
      BY <1>t, <2>1, <2>2 DEF PatchIsFollowed
  <1> HIDE DEF place, new, more
  <1>3. MarkersAreFound'
    <2>1. CASE ~marker
      <3>1. \A x \in more : x.kind # "todo"
        BY <2>1 DEF more
      <3> QED
        BY <2>1, <3>1, <1>a, <1>f, <1>t, MarkersStay
    <2>2. CASE marker
      <3>1. /\ IsFiniteSet(added') /\ IsFiniteSet(InPatches)
            /\ InPatches' = InPatches \cup {place}
            /\ Cardinality(InPatches') = Cardinality(InPatches) + 1
        BY <2>2, <1>a, <1>p, <1>t, MarkerIsAdded DEF MarkersAreFound
      <3>2. Cardinality(InPatches) \in Nat /\ Cardinality(Todos) \in Nat
        BY <3>1, <1>t, FS_CardinalityType DEF MarkersAreFound
      <3>3. CASE seen
        <4>1. findings' = findings \cup {new}
          BY <3>3, <1>f DEF more
        <4>2. /\ IsFiniteSet(Todos') /\ Todos' = Todos \cup {<<new.file, new.line>>}
              /\ Cardinality(Todos') <= Cardinality(Todos) + 1 /\ Cardinality(Todos') \in Nat
          BY <4>1, <1>n, <1>t, MarkerIsFound, FS_CardinalityType DEF MarkersAreFound
        <4>3. Cardinality(Todos') <= Cardinality(InPatches')
          BY <4>2, <3>1, <3>2, <1>t DEF MarkersAreFound
        <4>4. Plain => <<new.file, new.line>> = place
          BY <1>n, <1>t, <3>3, <2>2 DEF place
        <4> QED
          BY <4>2, <4>3, <4>4, <3>1, <1>t DEF MarkersAreFound, Plain
      <3>4. CASE ~seen
        <4>1. \A x \in more : x.kind # "todo"
          BY <3>4 DEF more
        <4>2. Todos' = Todos
          BY <4>1, <1>f, TodosStay
        <4>3. "plus" \in setup.quirks /\ ~Plain
          BY <2>2, <3>4 DEF Plain
        <4>4. Cardinality(Todos') <= Cardinality(InPatches')
          BY <4>2, <3>1, <3>2, <1>t DEF MarkersAreFound
        <4> QED
          BY <4>2, <4>3, <4>4, <3>1, <1>t DEF MarkersAreFound, Plain
      <3> QED
        BY <3>3, <3>4
    <2> QED
      BY <2>1, <2>2
  <1>4. \A x \in more : x.kind = "todo" /\ (x.blocking = limits.failOnTodo)
    BY <1>m, <1>n
  <1>5. /\ HeadIsRead' /\ FindingsHaveReasons' /\ SourcesAreAnalysed' /\ LengthsAreFound'
        /\ BlockIsFollowed' /\ DecisionIsOfFindings'
    BY <1>4, <1>f, <1>t, SearchingForMarkers DEF debtGiven
  <1> QED
    BY <1>1, <1>2, <1>3, <1>5 DEF DInv

LEMMA PatchLinesDInv ==
    ASSUME DInv,
           \/ \E marker \in BOOLEAN : AddedLine(marker) \/ AddedPlusLine(marker)
           \/ ContextLine \/ RemovedLine \/ NoNewlineLine
    PROVE  DInv'
  <1>1. ASSUME NEW marker \in BOOLEAN, AddedLine(marker)
        PROVE  DInv'
    BY <1>1, ReadPatchDInv DEF AddedLine
  <1>2. ASSUME NEW marker \in BOOLEAN, AddedPlusLine(marker)
        PROVE  DInv'
    BY <1>2, ReadPatchDInv DEF AddedPlusLine
  <1>3. CASE ContextLine
    BY <1>3, ReadPatchDInv DEF ContextLine
  <1>4. CASE RemovedLine
    BY <1>4, ReadPatchDInv DEF RemovedLine
  <1>5. CASE NoNewlineLine
    BY <1>5, ReadPatchDInv DEF NoNewlineLine, Plain
  <1> QED
    BY <1>1, <1>2, <1>3, <1>4, <1>5

-----------------------------------------------------------------------------
(* Then each changed file is analysed.                                     *)

LEMMA PrepareDebtHeadDInv == DInv /\ PrepareDebtHead => DInv'
  <1> SUFFICES ASSUME DInv, PrepareDebtHead PROVE DInv'
    OBVIOUS
  <1>1. CASE \E result \in {"error", "raised"} : EndGate(result) /\ UNCHANGED todo
    BY <1>1, Stopping DEF PrepareDebtHead, EndGate
  <1>2. CASE phase' = "functions" /\ todo' = setup.files /\ UNCHANGED decision
    <2> USE <1>2 DEF DInv, debtGiven, reading
    <2> DEFINE none == {}
    <2>0. /\ phase = "todos" /\ findings' = findings \cup none /\ \A x \in none : FALSE
          /\ UNCHANGED <<debtGiven, head, file, added, findings, reading, decision>>
      BY DEF PrepareDebtHead
    <2> HIDE DEF none
    <2>1. DebtTypeOK' /\ PatchIsFollowed' /\ BlockIsFollowed'
      BY <2>0 DEF DebtTypeOK, PatchIsFollowed, BlockIsFollowed
    <2>2. MarkersAreFound'
      BY <2>0, MarkersStay
    <2>3. HeadIsRead'
      BY <2>0 DEF HeadIsRead
    <2>4. FindingsHaveReasons'
      <3>1. \A f : Overgrown(f)' <=> Overgrown(f)
        BY <2>0, OvergrownStays
      <3> QED
        BY <2>0, <3>1 DEF FindingsHaveReasons
    <2>5. SourcesAreAnalysed'
      BY <2>0 DEF SourcesAreAnalysed
    <2>6. LengthsAreFound'
      <3>1. \A x \in findings' : x.kind = "todo"
        BY <2>0 DEF LengthsAreFound
      <3>2. \A f : LinesFoundLong(f)' = {}
        BY <3>1 DEF LinesFoundLong
      <3> QED
        BY <2>0, <3>2 DEF LengthsAreFound
    <2>7. DecisionIsOfFindings'
      BY <2>0 DEF DecisionIsOfFindings
    <2> QED
      BY <2>1, <2>2, <2>3, <2>4, <2>5, <2>6, <2>7
  <1> QED
    BY <1>1, <1>2 DEF PrepareDebtHead

(* A file is taken whose findings are of its long and overgrown functions. *)
LEMMA FileIsTaken ==
    ASSUME DInv, phase = "functions", phase' \in {"functions", "scan"},
           NEW f \in todo, todo' = todo \ {f},
           NEW more, findings' = findings \cup more,
           \A x \in more : /\ x.kind \in {"length", "complexity"} /\ x.file = f
                           /\ x.kind = "length" => (x.blocking = (setup.language = "python"))
                           /\ x.blocking => Overgrown(f),
           head[f].there => head[f].read = "well",
           Overgrown(f) => \E x \in more : x.blocking,
           {x.line : x \in {y \in more : y.kind = "length"}} = LinesOfLong(f),
           UNCHANGED <<debtGiven, head, added, decision>>
    PROVE  /\ PatchIsFollowed' /\ MarkersAreFound' /\ HeadIsRead' /\ FindingsHaveReasons'
           /\ SourcesAreAnalysed' /\ LengthsAreFound' /\ DecisionIsOfFindings'
  <1> USE DEF DInv, debtGiven
  <1>1. \A g : /\ Overgrown(g)' <=> Overgrown(g)
               /\ LinesOfLong(g)' = LinesOfLong(g)
    BY OvergrownStays, LongLinesStay
  <1>2. Blocking => Blocking'
    BY DEF Blocking
  <1>3. \A g : g # f => LinesFoundLong(g)' = LinesFoundLong(g)
    BY LengthsStay
  <1>4. PatchIsFollowed'
    BY DEF PatchIsFollowed
  <1>5. MarkersAreFound'
    BY MarkersStay
  <1>6. HeadIsRead'
    BY DEF HeadIsRead
  <1>7. FindingsHaveReasons'
    <2> SUFFICES ASSUME NEW x \in findings'
                 PROVE  /\ x.kind = "todo" => (x.blocking = limits'.failOnTodo)
                        /\ x.kind = "length" => (x.blocking = (setup'.language = "python"))
                        /\ x.kind # "todo" /\ x.blocking => Overgrown(x.file)'
      BY DEF FindingsHaveReasons
    <2>1. CASE x \in findings
      BY <2>1, <1>1 DEF FindingsHaveReasons
    <2>2. CASE x \in more
      BY <2>2, <1>1
    <2> QED
      BY <2>1, <2>2
  <1>8. SourcesAreAnalysed'
    <2> SUFFICES ASSUME NEW g \in setup.files \ todo'
                 PROVE  /\ head[g].there => head[g].read = "well"
                        /\ Overgrown(g) => Blocking'
      BY <1>1 DEF SourcesAreAnalysed
    <2>1. CASE g = f
      BY <2>1 DEF Blocking
    <2>2. CASE g # f
      BY <2>2, <1>2 DEF SourcesAreAnalysed, Analysed
    <2> QED
      BY <2>1, <2>2
  <1>9. LengthsAreFound'
    <2>1. LinesFoundLong(f) = {}
      BY DEF LengthsAreFound
    <2>2. LinesFoundLong(f)' = LinesOfLong(f)
      BY <2>1 DEF LinesFoundLong
    <2>3. \A g \in todo' : LinesFoundLong(g)' = {}
      BY <1>3 DEF LengthsAreFound
    <2>4. ASSUME NEW g \in setup.files \ todo'
          PROVE  LinesFoundLong(g)' = LinesOfLong(g)'
      BY <2>2, <2>4, <1>1, <1>3 DEF LengthsAreFound, Analysed
    <2> QED
      BY <2>3, <2>4 DEF LengthsAreFound
  <1>10. DecisionIsOfFindings'
    BY DEF DecisionIsOfFindings
  <1> QED
    BY <1>4, <1>5, <1>6, <1>7, <1>8, <1>9, <1>10

(* Of a file without functions there is nothing to find.                   *)
LEMMA NothingIsLong ==
    ASSUME NEW f, head[f].functions = {}
    PROVE  ~Overgrown(f) /\ LinesOfLong(f) = {}
  BY DEF Overgrown, LinesOfLong, LongFunctions

LEMMA SkipFileDInv ==
    ASSUME DInv, NEW f \in setup.files, SkipFile(f)
    PROVE  DInv'
  <1> DEFINE none == {}
  <1>0. /\ phase = "functions" /\ phase' = phase /\ f \in todo /\ todo' = todo \ {f}
        /\ ~head[f].there
        /\ UNCHANGED <<debtGiven, head, file, added, findings, decision, reading>>
        /\ findings' = findings \cup none /\ \A x \in none : FALSE
    BY DEF SkipFile
  <1>1. head[f].functions = {}
    BY <1>0 DEF DInv, HeadIsRead
  <1>2. {x.line : x \in {y \in none : y.kind = "length"}} = LinesOfLong(f)
    BY <1>1, NothingIsLong
  <1>3. ~Overgrown(f)
    BY <1>1, NothingIsLong
  <1> HIDE DEF none
  <1>4. DebtTypeOK' /\ BlockIsFollowed'
    BY <1>0 DEF DInv, DebtTypeOK, BlockIsFollowed, debtGiven, reading
  <1>5. /\ PatchIsFollowed' /\ MarkersAreFound' /\ HeadIsRead' /\ FindingsHaveReasons'
        /\ SourcesAreAnalysed' /\ LengthsAreFound' /\ DecisionIsOfFindings'
    BY <1>0, <1>2, <1>3, FileIsTaken
  <1> QED
    BY <1>4, <1>5 DEF DInv

LEMMA OpenSourceDInv ==
    ASSUME DInv, NEW f \in setup.files, OpenSource(f)
    PROVE  DInv'
  <1> DEFINE none == {}
  <1>0. /\ phase = "functions" /\ f \in todo /\ todo' = todo \ {f} /\ file' = f
        /\ setup.language # "python" /\ head[f].there
        /\ UNCHANGED <<debtGiven, head, added, findings>>
        /\ findings' = findings \cup none /\ \A x \in none : FALSE
    BY DEF OpenSource, TakeFile
  <1>1. head[f].functions = {}
    BY <1>0 DEF DInv, HeadIsRead
  <1>2. {x.line : x \in {y \in none : y.kind = "length"}} = LinesOfLong(f)
    BY <1>1, NothingIsLong
  <1>3. ~Overgrown(f)
    BY <1>1, NothingIsLong
  <1> HIDE DEF none
  <1>4. CASE head[f].read = "well"
    <2>1. phase' = "scan" /\ Rewind /\ UNCHANGED decision
      BY <1>4 DEF OpenSource
    <2>2. DebtTypeOK' /\ BlockIsFollowed'
      <3>1. open' \in Seq([first : 1..line, kind : Kinds])'
        BY <2>1, NothingIsOpen DEF Rewind
      <3>2. open' = <<>> /\ Len(open') = 0
        BY <2>1 DEF Rewind
      <3>3. DebtTypeOK'
        BY <1>0, <2>1, <3>1 DEF DInv, DebtTypeOK, debtGiven, Rewind
      <3>4. BlockIsFollowed'
        BY <1>0, <1>4, <2>1, <3>2 DEF DInv, BlockIsFollowed, debtGiven, Rewind, InPlain
      <3> QED
        BY <3>3, <3>4
    <2>3. /\ PatchIsFollowed' /\ MarkersAreFound' /\ HeadIsRead' /\ FindingsHaveReasons'
          /\ SourcesAreAnalysed' /\ LengthsAreFound' /\ DecisionIsOfFindings'
      BY <1>0, <1>2, <1>3, <1>4, <2>1, FileIsTaken
    <2> QED
      BY <2>2, <2>3 DEF DInv
  <1>5. CASE head[f].read # "well"
    BY <1>0, <1>5, Stopping DEF OpenSource, EndGate, FailToRead
  <1> QED
    BY <1>4, <1>5

(* A function is too complex when some of what lies in it is.              *)
LEMMA ComplexityOfParts ==
    ASSUME NEW S \in SUBSET Function, IsFiniteSet(S), NEW g \in S
    PROVE  Complexity(g, S) > MaxComplexity
           <=> \E inside \in SUBSET S :
                  /\ \A h \in inside : g.first <= h.first /\ h.last <= g.last
                  /\ TotalOf([h \in inside |-> h.branches]) >= MaxComplexity
  <1> DEFINE all == {h \in S : h.first >= g.first /\ h.last <= g.last}
             n == [h \in all |-> h.branches]
  <1>1. MaxComplexity \in Nat
    BY DebtAssumption
  <1>2. all \in SUBSET S /\ IsFiniteSet(all) /\ n \in [all -> Nat]
    <2>1. all \subseteq S /\ n \in [all -> Nat]
      BY DEF Function
    <2> HIDE DEF all
    <2> QED
      BY <2>1, FS_Subset
  <1>3. \A h \in S : /\ h.first \in Nat /\ h.last \in Nat /\ g.first \in Nat /\ g.last \in Nat
                     /\ h \in all <=> g.first <= h.first /\ h.last <= g.last
    BY DEF Function
  <1>4. Complexity(g, S) = 1 + TotalOf(n)
    BY DEF Complexity
  <1>5. \A T \in SUBSET all : [h \in T |-> n[h]] = [h \in T |-> h.branches]
    BY DEF n
  <1>5a. n = [h \in all |-> h.branches]
    BY DEF n
  <1> HIDE DEF all, n
  <1>6. TotalOf(n) \in Nat
    BY <1>2, TotalIsNatural
  <1>7. ASSUME Complexity(g, S) > MaxComplexity
        PROVE  \E inside \in SUBSET S :
                  /\ \A h \in inside : g.first <= h.first /\ h.last <= g.last
                  /\ TotalOf([h \in inside |-> h.branches]) >= MaxComplexity
    <2>1. TotalOf([h \in all |-> h.branches]) >= MaxComplexity
      BY <1>1, <1>4, <1>5a, <1>6, <1>7
    <2>2. \A h \in all : g.first <= h.first /\ h.last <= g.last
      BY <1>2, <1>3
    <2> QED
      BY <1>2, <2>1, <2>2
  <1>8. ASSUME NEW inside \in SUBSET S,
               \A h \in inside : g.first <= h.first /\ h.last <= g.last,
               TotalOf([h \in inside |-> h.branches]) >= MaxComplexity
        PROVE  Complexity(g, S) > MaxComplexity
    <2>1. inside \in SUBSET all
      BY <1>3, <1>8
    <2> DEFINE part == [h \in inside |-> n[h]]
               rest == [h \in all \ inside |-> n[h]]
    <2>2. TotalOf(n) = TotalOf(part) + TotalOf(rest)
      BY <1>2, <2>1, TotalOfParts
    <2>3. IsFiniteSet(inside) /\ IsFiniteSet(all \ inside)
      BY <1>2, <2>1, FS_Subset
    <2>4. part \in [inside -> Nat] /\ rest \in [all \ inside -> Nat]
      BY <1>2, <2>1
    <2>5. part = [h \in inside |-> h.branches]
      BY <1>5, <2>1
    <2> HIDE DEF part, rest
    <2>6. TotalOf(part) \in Nat /\ TotalOf(rest) \in Nat
      BY <2>3, <2>4, TotalIsNatural
    <2>7. TotalOf(part) >= MaxComplexity
      BY <1>8, <2>5
    <2> QED
      BY <1>1, <1>4, <1>6, <2>2, <2>6, <2>7
  <1> QED
    BY <1>7, <1>8

LEMMA AnalyzePythonFileDInv ==
    ASSUME DInv, NEW f \in setup.files, AnalyzePythonFile(f)
    PROVE  DInv'
  <1> DEFINE functions == head[f].functions
             long == {g \in functions : TooLong(Length(g))}
             complex == {g \in functions : Complexity(g, functions) > MaxComplexity}
             ofLong == {[kind |-> "length", file |-> f, line |-> g.first, blocking |-> TRUE] :
                            g \in long}
             ofComplex == {[kind |-> "complexity", file |-> f, line |-> g.first,
                            blocking |-> TRUE] : g \in complex}
             more == ofLong \cup ofComplex
  <1>0. /\ phase = "functions" /\ f \in todo /\ todo' = todo \ {f} /\ file' = f
        /\ setup.language = "python" /\ head[f].there
        /\ UNCHANGED <<debtGiven, head, added, reading>>
    BY DEF AnalyzePythonFile, TakeFile
  <1>1. CASE head[f].read = "well"
    <2>1. findings' = findings \cup more /\ UNCHANGED <<phase, decision>>
      BY <1>1 DEF AnalyzePythonFile
    <2>2. /\ functions \in SUBSET Function /\ IsFiniteSet(functions)
          /\ \A g \in functions : g.first \in Nat \ {0} /\ g.plain
      BY <1>0 DEF DInv, DebtTypeOK, HeadIsRead, Source, Function
    <2>3. \A g \in functions : TooLong(Length(g)) => Overgrown(f)
      BY <1>0 DEF Overgrown, TooLong
    <2>4. \A g \in functions : Complexity(g, functions) > MaxComplexity => Overgrown(f)
      BY <1>0, <2>2, ComplexityOfParts DEF Overgrown
    <2>5. Overgrown(f) => \E g \in functions : \/ TooLong(Length(g))
                                               \/ Complexity(g, functions) > MaxComplexity
      BY <2>2, ComplexityOfParts DEF Overgrown, TooLong
    <2>6. \A x \in more : /\ x.kind \in {"length", "complexity"} /\ x.file = f
                          /\ x.line \in Nat \ {0} /\ x.blocking = TRUE
                          /\ \E g \in functions : \/ TooLong(Length(g))
                                                  \/ Complexity(g, functions) > MaxComplexity
      BY <2>2
    <2>7. \A g \in functions : TooLong(Length(g)) \/ Complexity(g, functions) > MaxComplexity
                               => \E x \in more : x.blocking
      <3> SUFFICES ASSUME NEW g \in functions,
                          TooLong(Length(g)) \/ Complexity(g, functions) > MaxComplexity
                   PROVE  \E x \in more : x.blocking
        OBVIOUS
      <3> DEFINE l == [kind |-> "length", file |-> f, line |-> g.first, blocking |-> TRUE]
                 c == [kind |-> "complexity", file |-> f, line |-> g.first, blocking |-> TRUE]
      <3>1. l.blocking /\ c.blocking
        OBVIOUS
      <3>2. (g \in long => l \in more) /\ (g \in complex => c \in more)
        OBVIOUS
      <3>3. g \in long \/ g \in complex
        OBVIOUS
      <3> HIDE DEF l, c, long, complex, more
      <3> QED
        BY <3>1, <3>2, <3>3
    <2>8. {x.line : x \in {y \in more : y.kind = "length"}} = LinesOfLong(f)
      <3>1. {y \in more : y.kind = "length"} = ofLong
        OBVIOUS
      <3>2. {x.line : x \in ofLong} = {g.first : g \in long}
        <4> HIDE DEF long
        <4>1. \A x \in ofLong : \E g \in long : x.line = g.first
          OBVIOUS
        <4>2. ASSUME NEW g \in long PROVE \E x \in ofLong : x.line = g.first
          <5> DEFINE l == [kind |-> "length", file |-> f, line |-> g.first, blocking |-> TRUE]
          <5>1. l \in ofLong /\ l.line = g.first
            OBVIOUS
          <5> HIDE DEF l, ofLong
          <5> QED
            BY <5>1
        <4> HIDE DEF ofLong
        <4> QED
          BY <4>1, <4>2
      <3>3. {g.first : g \in long} = LinesOfLong(f)
        BY <2>2 DEF LinesOfLong, LongFunctions, TooLong
      <3> QED
        BY <3>1, <3>2, <3>3
    <2> HIDE DEF functions, more
    <2>9. DebtTypeOK' /\ BlockIsFollowed'
      <3>1. DebtTypeOK'
        BY <1>0, <2>1, <2>6 DEF DInv, DebtTypeOK, debtGiven, reading
      <3>2. BlockIsFollowed'
        BY <1>0, <2>1 DEF BlockIsFollowed
      <3> QED
        BY <3>1, <3>2
    <2>10. \A x \in more : /\ x.kind \in {"length", "complexity"} /\ x.file = f
                           /\ x.kind = "length" => (x.blocking = (setup.language = "python"))
                           /\ x.blocking => Overgrown(f)
      BY <1>0, <2>3, <2>4, <2>6
    <2>11. Overgrown(f) => \E x \in more : x.blocking
      BY <2>5, <2>7
    <2>12. /\ PatchIsFollowed' /\ MarkersAreFound' /\ HeadIsRead' /\ FindingsHaveReasons'
           /\ SourcesAreAnalysed' /\ LengthsAreFound' /\ DecisionIsOfFindings'
      BY <1>0, <1>1, <2>1, <2>8, <2>10, <2>11, FileIsTaken
    <2> QED
      BY <2>9, <2>12 DEF DInv
  <1>2. CASE head[f].read # "well"
    BY <1>0, <1>2, Stopping DEF AnalyzePythonFile, EndGate, FailToRead
  <1> QED
    BY <1>1, <1>2

-----------------------------------------------------------------------------
(* A file with braces is scanned.                                          *)

(* What one line does to the block that is followed.                       *)
LEMMA ScanIsOneOf ==
    ASSUME DebtTypeOK, NEW net \in {-1, 0, 1}, NEW matches \in BOOLEAN, Scan(net, matches),
           NEW first, first = IF start = 0 /\ matches THEN line + 1 ELSE start
    PROVE  /\ first \in 0..(line + 1)
           /\ \/ first = 0 /\ UNCHANGED <<depth, start, findings>>
              \/ /\ first # 0 /\ depth + net <= 0 /\ depth' = 0 /\ start' = 0
                 /\ findings' = findings \cup LengthFinding(first, line + 1)
              \/ /\ first # 0 /\ depth + net > 0 /\ depth' = depth + net /\ start' = first
                 /\ UNCHANGED findings
  <1>1. first \in 0..(line + 1) /\ depth \in Int
    BY DEF DebtTypeOK
  <1>2. CASE first = 0
    BY <1>1, <1>2 DEF Scan
  <1>3. CASE first # 0 /\ depth + net <= 0
    BY <1>1, <1>3 DEF Scan, BlockEnds
  <1>4. CASE first # 0 /\ depth + net > 0
    BY <1>1, <1>4 DEF Scan, BlockEnds
  <1> QED
    BY <1>1, <1>2, <1>3, <1>4

(* While a source is scanned, its functions are written to the head and    *)
(* findings are of lengths.                                                *)
HeadGrows ==
    /\ head' \in [setup.files -> Source]
    /\ \A f \in setup.files : \A g \in head'[f].functions : 1 <= g.first /\ g.first <= g.last
    /\ \A f \in setup.files \ {file} : head'[f] = head[f]
    /\ head'[file].there = head[file].there /\ head'[file].read = head[file].read

LEMMA ScanLengths ==
    ASSUME DInv, phase = "scan", phase' \in {"scan", "functions"},
           UNCHANGED <<setup, limits, todo, file>>,
           NEW more, findings' = findings \cup more,
           \A x \in more : x.file = file, HeadGrows,
           LinesFoundLong(file)' = LinesOfLong(file)'
    PROVE  LengthsAreFound'
  <1> USE DEF DInv
  <1>1. \A f : f # file => LinesFoundLong(f)' = LinesFoundLong(f)
    BY LengthsStay
  <1>2. \A f \in setup.files \ {file} : LinesOfLong(f)' = LinesOfLong(f)
    BY DEF LinesOfLong, LongFunctions, HeadGrows
  <1>3. file \in setup.files \ todo /\ todo \subseteq setup.files
    BY DEF DebtTypeOK
  <1>4. \A f \in todo' : LinesFoundLong(f)' = {}
    BY <1>1, <1>3 DEF LengthsAreFound
  <1>5. ASSUME NEW f \in setup.files \ todo
        PROVE  LinesFoundLong(f)' = LinesOfLong(f)'
    <2>1. CASE f = file
      BY <1>5, <2>1
    <2>2. CASE f # file
      BY <1>1, <1>2, <1>5, <2>2 DEF LengthsAreFound, Analysed
    <2> QED
      BY <2>1, <2>2
  <1> QED
    BY <1>4, <1>5 DEF LengthsAreFound

LEMMA ScanFrame ==
    ASSUME DInv, phase = "scan", phase' \in {"scan", "functions"},
           UNCHANGED <<debtGiven, todo, file, added, decision>>,
           NEW more, findings' = findings \cup more,
           \A x \in more : x.kind = "length" /\ x.file = file /\ x.blocking = FALSE,
           HeadGrows
    PROVE  /\ PatchIsFollowed' /\ MarkersAreFound' /\ HeadIsRead' /\ FindingsHaveReasons'
           /\ SourcesAreAnalysed' /\ DecisionIsOfFindings'
  <1> USE DEF DInv, debtGiven
  <1>0. /\ file \in setup.files \ todo /\ setup.language # "python"
        /\ head[file].there /\ head[file].read = "well"
    BY DEF DebtTypeOK, BlockIsFollowed
  <1>1. \A f : ~Overgrown(f) /\ ~Overgrown(f)'
    BY <1>0 DEF Overgrown
  <1>2. PatchIsFollowed'
    BY DEF PatchIsFollowed
  <1>3. MarkersAreFound'
    BY MarkersStay
  <1>4. HeadIsRead'
    <2>1. \A f \in setup.files : f # file => head'[f] = head[f]
      BY DEF HeadGrows
    <2> QED
      BY <2>1, <1>0 DEF HeadIsRead, HeadGrows
  <1>5. FindingsHaveReasons'
    BY <1>0, <1>1 DEF FindingsHaveReasons
  <1>6. SourcesAreAnalysed'
    <2>1. \A f \in setup.files \ todo : head'[f].there => head'[f].read = "well"
      BY <1>0 DEF HeadGrows, SourcesAreAnalysed, Analysed
    <2> QED
      BY <1>1, <2>1 DEF SourcesAreAnalysed
  <1>7. DecisionIsOfFindings'
    BY DEF DecisionIsOfFindings
  <1> QED
    BY <1>2, <1>3, <1>4, <1>5, <1>6, <1>7

(* The line that is read, whatever the block it is of.                     *)
LEMMA LineIsRead ==
    ASSUME DInv, NEW net \in {-1, 0, 1}, NEW matches \in BOOLEAN, ReadSource(net, matches),
           HeadGrows, open' \in Seq([first : 1..(line + 1), kind : Kinds]),
           signature' \in 0..(line + 1),
           LinesFoundLong(file)' = LinesOfLong(file)',
           BlockIsFollowed'
    PROVE  DInv'
  <1> DEFINE first == IF start = 0 /\ matches THEN line + 1 ELSE start
             more == IF findings' = findings THEN {} ELSE LengthFinding(first, line + 1)
  <1>0. /\ phase = "scan" /\ phase' = phase /\ line' = line + 1 /\ Scan(net, matches)
        /\ UNCHANGED <<debtGiven, todo, file, position, added, decision>>
        /\ DebtTypeOK
    BY DEF ReadSource, DInv
  <1> HIDE DEF first
  <1>1. /\ first \in 0..(line + 1)
        /\ \/ first = 0 /\ UNCHANGED <<depth, start, findings>>
           \/ /\ first # 0 /\ depth + net <= 0 /\ depth' = 0 /\ start' = 0
              /\ findings' = findings \cup LengthFinding(first, line + 1)
           \/ /\ first # 0 /\ depth + net > 0 /\ depth' = depth + net /\ start' = first
              /\ UNCHANGED findings
    BY <1>0, ScanIsOneOf DEF first
  <1>2. findings' = findings \cup more
    BY <1>1
  <1>3. \A x \in more : /\ x.kind = "length" /\ x.file = file /\ x.blocking = FALSE
                        /\ x.line = first /\ first # 0
    <2>1. CASE findings' = findings
      BY <2>1 DEF more
    <2>2. CASE findings' # findings
      <3>1. more = LengthFinding(first, line + 1) /\ first # 0
        BY <1>1, <2>2 DEF more
      <3>2. \A x \in LengthFinding(first, line + 1) :
               x.kind = "length" /\ x.file = file /\ x.line = first /\ x.blocking = FALSE
        BY DEF LengthFinding, Finding
      <3> QED
        BY <3>1, <3>2
    <2> QED
      BY <2>1, <2>2
  <1> HIDE DEF more
  <1>4. DebtTypeOK'
    <2>1. line \in Nat /\ depth \in 0..line /\ start \in 0..line
      BY <1>0 DEF DebtTypeOK
    <2>2. line' \in Nat /\ depth' \in 0..line' /\ start' \in 0..line'
      BY <1>0, <1>1, <2>1
    <2>3. \A x \in findings' : /\ x.kind \in {"todo", "length", "complexity"}
                               /\ x.file \in setup.files /\ x.line \in Nat \ {0}
                               /\ x.blocking \in BOOLEAN
      <3>1. \A x \in more : x.line \in Nat \ {0} /\ x.file \in setup.files
        <4>1. file \in setup.files /\ (first # 0 => first \in Nat \ {0})
          BY <1>0, <1>1, <2>1 DEF DebtTypeOK
        <4> QED
          BY <4>1, <1>3
      <3> QED
        BY <3>1, <1>0, <1>2, <1>3 DEF DebtTypeOK
    <2>4. /\ head' \in [setup'.files -> Source]
          /\ \A f \in setup'.files : \A g \in head'[f].functions :
                1 <= g.first /\ g.first <= g.last
      BY <1>0 DEF HeadGrows, debtGiven
    <2>5. open' \in Seq([first : 1..line, kind : Kinds])'
      BY <1>0
    <2> QED
      BY <1>0, <2>2, <2>3, <2>4, <2>5 DEF DebtTypeOK, debtGiven
  <1>5. /\ PatchIsFollowed' /\ MarkersAreFound' /\ HeadIsRead' /\ FindingsHaveReasons'
        /\ SourcesAreAnalysed' /\ DecisionIsOfFindings'
    BY <1>0, <1>2, <1>3, ScanFrame
  <1>6. LengthsAreFound'
    BY <1>0, <1>2, <1>3, ScanLengths DEF debtGiven
  <1> QED
    BY <1>4, <1>5, <1>6 DEF DInv

LEMMA OpenBlocks ==
    ASSUME DebtTypeOK
    PROVE  /\ Len(open) \in Nat /\ DOMAIN open = 1..Len(open)
           /\ \A i \in 1..Len(open) : /\ open[i].first \in 1..line /\ open[i].kind \in Kinds
                                      /\ open[i] \in [first : 1..line, kind : Kinds]
           /\ line \in Nat
           /\ open \in Seq([first : 1..(line + 1), kind : Kinds])
  <1> DEFINE Block(n) == [first : 1..n, kind : Kinds]
  <1>1. open \in Seq(Block(line)) /\ line \in Nat
    BY DEF DebtTypeOK
  <1>2. Block(line) \subseteq Block(line + 1)
    BY <1>1
  <1>3. \A b \in Block(line) : b.first \in 1..line /\ b.kind \in Kinds
    OBVIOUS
  <1> HIDE DEF Block
  <1>4. open \in Seq(Block(line + 1))
    BY <1>1, <1>2, SeqMonotonic
  <1>5. \A i \in 1..Len(open) : open[i] \in Block(line)
    BY <1>1, ElementOfSeq
  <1> QED
    BY <1>1, <1>3, <1>4, <1>5, LenProperties DEF Block

LEMMA HeadStays == ASSUME DebtTypeOK, UNCHANGED <<setup, head>> PROVE HeadGrows
  BY DEF HeadGrows, DebtTypeOK

(* Lines that write nothing to the head and end no function.               *)
LEMMA LengthsStayFound ==
    ASSUME DInv, phase = "scan", UNCHANGED <<file, limits, head, findings>>
    PROVE  LinesFoundLong(file)' = LinesOfLong(file)'
  <1>1. LinesFoundLong(file) = LinesOfLong(file)
    BY DEF DInv, LengthsAreFound, Analysed, DebtTypeOK
  <1> QED
    BY <1>1 DEF LinesFoundLong, LinesOfLong, LongFunctions

(* A line of as many opening as closing braces, a function of this line    *)
(* alone among them, leaves the block that is followed as it is, and is    *)
(* not too long.                                                           *)
LEMMA LevelLine ==
    ASSUME DInv, NEW matches \in BOOLEAN, ReadSource(0, matches), UNCHANGED <<head, open>>,
           signature' \in 0..(line + 1)
    PROVE  DInv'
  <1>0. /\ phase = "scan" /\ phase' = phase /\ Scan(0, matches) /\ DebtTypeOK
        /\ UNCHANGED <<setup, limits, file>> /\ BlockIsFollowed
    BY DEF ReadSource, DInv, debtGiven
  <1>1. HeadGrows /\ open' \in Seq([first : 1..(line + 1), kind : Kinds])
    BY <1>0, HeadStays, OpenBlocks
  <1>2. UNCHANGED <<depth, start, findings>>
    <2>1. (start = 0 => depth = 0) /\ (start # 0 => depth > 0) /\ depth \in Nat /\ line \in Nat
      BY <1>0, OpenBlocks DEF BlockIsFollowed, DebtTypeOK
    <2>2. LengthFinding(line + 1, line + 1) = {}
      <3>1. limits.maxLines \in Nat \ {0}
        BY <1>0, SetupIsTyped DEF DebtTypeOK
      <3>2. ~TooLong((line + 1) - (line + 1) + 1) /\ (line + 1) - (line + 1) + 1 = 1
        BY <2>1, <3>1 DEF TooLong
      <3> QED
        BY <3>2 DEF LengthFinding, TooLong
    <2> QED
      BY <1>0, <2>1, <2>2 DEF Scan, BlockEnds
  <1>3. LinesFoundLong(file)' = LinesOfLong(file)'
    BY <1>0, <1>2, LengthsStayFound
  <1>4. BlockIsFollowed'
    BY <1>0, <1>2 DEF BlockIsFollowed, Followed, InPlain
  <1> QED
    BY <1>1, <1>3, <1>4, LineIsRead

LEMMA PlainLineDInv == ASSUME DInv, NEW matches \in BOOLEAN, PlainLine(matches) PROVE DInv'
  <1>1. signature' \in 0..(line + 1)
    BY DEF PlainLine, DInv, DebtTypeOK
  <1> QED
    BY <1>1, LevelLine DEF PlainLine

LEMMA SignatureLineDInv ==
    ASSUME DInv, NEW matches \in BOOLEAN, SignatureLine(matches)
    PROVE  DInv'
  <1>1. signature' \in 0..(line + 1)
    BY DEF SignatureLine, DInv, DebtTypeOK
  <1> QED
    BY <1>1, LevelLine DEF SignatureLine

(* A block that opens; the scan follows it when it is plain.               *)
LEMMA BlockOpens ==
    ASSUME DInv, NEW first \in 1..(line + 1), NEW kind \in Kinds, NEW matches \in BOOLEAN,
           ReadSource(1, matches), UNCHANGED head, open' = Opening(first, kind),
           kind = "plain" <=> matches /\ ~InPlain, kind = "plain" => first = line + 1,
           signature' \in 0..(line + 1)
    PROVE  DInv'
  <1> DEFINE block == [first |-> first, kind |-> kind]
             n == Len(open)
  <1>0. /\ phase = "scan" /\ phase' = phase /\ Scan(1, matches) /\ DebtTypeOK
        /\ UNCHANGED <<setup, limits, file>> /\ n \in Nat /\ line \in Nat /\ depth \in Nat
        /\ setup.language # "python" /\ head[file].there /\ head[file].read = "well"
    BY OpenBlocks DEF ReadSource, DInv, debtGiven, BlockIsFollowed, DebtTypeOK
  <1>1. HeadGrows
    BY <1>0, HeadStays
  <1>2. open' \in Seq([first : 1..(line + 1), kind : Kinds])
    <2>1. block \in [first : 1..(line + 1), kind : Kinds]
      OBVIOUS
    <2> QED
      BY <1>0, <2>1, OpenBlocks DEF Opening
  <1>3. /\ Len(open') = n + 1 /\ open'[n + 1].first = first /\ open'[n + 1].kind = kind
        /\ \A i \in 1..n : open'[i] = open[i]
    <2>1. /\ Len(Append(open, block)) = n + 1 /\ Append(open, block)[n + 1] = block
          /\ \A i \in 1..n : Append(open, block)[i] = open[i]
      BY <1>0, OpenBlocks, AppendProperties
    <2> QED
      BY <2>1 DEF Opening
  <1> HIDE DEF block, n
  <1>4. IF start = 0 THEN depth = 0 /\ \A i \in 1..n : open[i].kind # "plain"
        ELSE \E k \in 1..n : Followed(k) /\ start = open[k].first /\ depth = n - k + 1
    BY <1>0 DEF DInv, BlockIsFollowed, InPlain, n
  <1>5. InPlain <=> start # 0
    BY <1>4 DEF InPlain, Followed, n
  <1>6. /\ UNCHANGED findings
        /\ start = 0 /\ kind # "plain" => UNCHANGED <<depth, start>>
        /\ start = 0 /\ kind = "plain" => depth' = 1 /\ start' = first
        /\ start # 0 => depth' = depth + 1 /\ start' = start /\ kind # "plain"
    BY <1>0, <1>4, <1>5 DEF Scan, BlockEnds
  <1>7. LinesFoundLong(file)' = LinesOfLong(file)'
    BY <1>0, <1>6, LengthsStayFound
  <1>8. IF start' = 0 THEN depth' = 0 /\ \A i \in 1..Len(open') : open'[i].kind # "plain"
        ELSE \E k \in 1..Len(open') :
                /\ Followed(k)' /\ start' = open'[k].first
                /\ depth' = Len(open') - k + 1
    <2>1. CASE start = 0 /\ kind # "plain"
      BY <2>1, <1>0, <1>3, <1>4, <1>6
    <2>2. CASE start = 0 /\ kind = "plain"
      <3>1. PICK m \in Nat : m = n + 1
        BY <1>0
      <3>2. Followed(m)' /\ m \in 1..Len(open') /\ open'[m].first = first /\ Len(open') = m
        BY <2>2, <3>1, <1>0, <1>3, <1>4 DEF Followed
      <3> QED
        BY <3>1, <3>2, <2>2, <1>0, <1>6
    <2>3. CASE start # 0
      <3>1. PICK k \in 1..n : Followed(k) /\ start = open[k].first /\ depth = n - k + 1
        BY <1>4, <2>3
      <3>2. Followed(k)' /\ start' = open'[k].first /\ depth' = Len(open') - k + 1
        BY <3>1, <2>3, <1>0, <1>3, <1>6 DEF Followed, n
      <3> QED
        BY <3>2, <2>3, <1>0, <1>3, <1>6
    <2> QED
      BY <2>1, <2>2, <2>3
  <1>9. BlockIsFollowed'
    BY <1>0, <1>8 DEF BlockIsFollowed, InPlain
  <1> QED
    BY <1>0, <1>1, <1>2, <1>7, <1>9, LineIsRead

LEMMA BlockLineDInv == DInv /\ BlockLine => DInv'
  <1> SUFFICES ASSUME DInv, BlockLine PROVE DInv'
    OBVIOUS
  <1>1. /\ ReadSource(1, FALSE) /\ UNCHANGED head /\ signature' = 0
        /\ signature \in 0..line /\ line \in Nat
    BY DEF BlockLine, DInv, DebtTypeOK
  <1>s. signature' \in 0..(line + 1)
    BY <1>1
  <1>k. "block" \in Kinds /\ "function" \in Kinds
    BY DEF Kinds
  <1>2. CASE signature = 0
    <2>1. open' = Opening(line + 1, "block") /\ line + 1 \in 1..(line + 1)
      BY <1>1, <1>2 DEF BlockLine
    <2> QED
      BY <1>1, <1>s, <1>k, <2>1, BlockOpens
  <1>3. CASE signature # 0
    <2>1. open' = Opening(signature, "function") /\ signature \in 1..(line + 1)
      BY <1>1, <1>3 DEF BlockLine
    <2> QED
      BY <1>1, <1>s, <1>k, <2>1, BlockOpens
  <1> QED
    BY <1>2, <1>3

LEMMA FunctionLineDInv ==
    ASSUME DInv, NEW matches \in BOOLEAN, FunctionLine(matches)
    PROVE  DInv'
  <1>1. /\ ReadSource(1, matches) /\ UNCHANGED head /\ signature' = 0
        /\ line \in Nat /\ line + 1 \in 1..(line + 1)
        /\ open' = Opening(line + 1, IF matches /\ ~InPlain THEN "plain" ELSE "function")
    BY DEF FunctionLine, DInv, DebtTypeOK
  <1> QED
    BY <1>1, BlockOpens DEF Kinds

LEMMA HeadIsWritten ==
    ASSUME DebtTypeOK, file \in setup.files, NEW block \in [first : 1..line, kind : Kinds],
           head' = [head EXCEPT ![file].functions = @ \cup {Ended(block)}]
    PROVE  /\ HeadGrows
           /\ head'[file].functions = head[file].functions \cup {Ended(block)}
  <1> DEFINE text == [head[file] EXCEPT !.functions = @ \cup {Ended(block)}]
  <1>0. line \in Nat /\ head \in [setup.files -> Source]
    BY DEF DebtTypeOK
  <1>1. /\ Ended(block) \in Function
        /\ 1 <= Ended(block).first /\ Ended(block).first <= Ended(block).last
    BY <1>0 DEF Function, Ended
  <1>2. head[file] \in Source
    BY <1>0
  <1>3. /\ text \in Source /\ text.there = head[file].there /\ text.read = head[file].read
        /\ text.functions = head[file].functions \cup {Ended(block)}
    BY <1>1, <1>2 DEF Source
  <1>4. head' = [head EXCEPT ![file] = text]
    OBVIOUS
  <1>5. head'[file] = text /\ \A f \in setup.files \ {file} : head'[f] = head[f]
    BY <1>0, <1>4
  <1>6. head' \in [setup.files -> Source]
    BY <1>0, <1>3, <1>4
  <1> HIDE DEF text
  <1>7. \A f \in setup.files : \A g \in head'[f].functions : 1 <= g.first /\ g.first <= g.last
    BY <1>1, <1>3, <1>5 DEF DebtTypeOK
  <1> QED
    BY <1>3, <1>5, <1>6, <1>7 DEF HeadGrows

(* What closes is the innermost block, and of the plain function its end,  *)
(* where the scan finds its length; the length of another is not looked    *)
(* for.                                                                    *)
LEMMA CloseLineDInv == DInv /\ CloseLine => DInv'
  <1> SUFFICES ASSUME DInv, CloseLine PROVE DInv'
    OBVIOUS
  <1> DEFINE n == Len(open)
             new == Ended(open[n])
  <1>0. /\ phase = "scan" /\ phase' = phase /\ Scan(-1, FALSE) /\ DebtTypeOK
        /\ ReadSource(-1, FALSE) /\ signature' \in 0..(line + 1)
        /\ UNCHANGED <<setup, limits, file>> /\ line \in Nat /\ n \in Nat \ {0}
        /\ setup.language # "python" /\ head[file].there /\ head[file].read = "well"
        /\ file \in setup.files \ todo
        /\ open' = Front(open)
        /\ head' = IF open[n].kind = "block" THEN head
                   ELSE [head EXCEPT ![file].functions = @ \cup {new}]
        /\ depth \in Nat
    <2>1. /\ phase = "scan" /\ phase' = phase /\ Scan(-1, FALSE) /\ DebtTypeOK /\ open # <<>>
          /\ ReadSource(-1, FALSE) /\ UNCHANGED <<setup, limits, file, signature>>
          /\ open' = Front(open) /\ BlockIsFollowed
          /\ head' = IF Last(open).kind = "block" THEN head
                     ELSE [head EXCEPT ![file].functions = @ \cup {Ended(Last(open))}]
      BY DEF CloseLine, ReadSource, DInv, debtGiven
    <2>2. n \in Nat \ {0} /\ line \in Nat
      BY <2>1, EmptySeq, OpenBlocks DEF DebtTypeOK
    <2>3. Last(open) = open[n]
      BY DEF Last
    <2>4. depth \in Nat /\ file \in setup.files \ todo /\ signature' \in 0..(line + 1)
      BY <2>1 DEF DebtTypeOK
    <2>5. setup.language # "python" /\ head[file].there /\ head[file].read = "well"
      BY <2>1 DEF BlockIsFollowed
    <2> HIDE DEF n
    <2> QED
      BY <2>1, <2>2, <2>3, <2>4, <2>5
  <1>b. open[n] \in [first : 1..line, kind : Kinds]
    BY <1>0, OpenBlocks
  <1>w. open[n].kind # "block" =>
          HeadGrows /\ head'[file].functions = head[file].functions \cup {new}
    BY <1>0, <1>b, HeadIsWritten
  <1>1. HeadGrows
    BY <1>0, <1>w, HeadStays
  <1>2. /\ open' \in Seq([first : 1..(line + 1), kind : Kinds]) /\ Len(open') = n - 1
        /\ \A i \in 1..(n - 1) : open'[i] = open[i]
    <2> DEFINE BlockType == [first : 1..(line + 1), kind : Kinds]
    <2>1. \A i \in 1..(n - 1) : open[i] \in BlockType
      BY <1>0, OpenBlocks
    <2> HIDE DEF BlockType
    <2>2. n - 1 \in Int /\ open' = SubSeq(open, 1, n - 1)
      BY <1>0 DEF Front
    <2>3. /\ SubSeq(open, 1, n - 1) \in Seq(BlockType)
          /\ Len(SubSeq(open, 1, n - 1)) = IF 1 <= n - 1 THEN n - 1 - 1 + 1 ELSE 0
          /\ \A i \in 1..(n - 1 - 1 + 1) : SubSeq(open, 1, n - 1)[i] = open[1 + i - 1]
      BY <2>1, <2>2, SubSeqProperties
    <2>4. \A i \in 1..(n - 1) : i \in 1..(n - 1 - 1 + 1) /\ 1 + i - 1 = i
      BY <1>0
    <2> HIDE DEF n
    <2> QED
      BY <2>2, <2>3, <2>4, <1>0 DEF BlockType
  <1>3. /\ new.first = open[n].first /\ new.plain = (open[n].kind = "plain")
        /\ Length(new) = (line + 1) - open[n].first + 1
    BY DEF Ended, Length
  <1> HIDE DEF n, new
  <1>4. LinesFoundLong(file) = LinesOfLong(file)
    BY <1>0 DEF DInv, LengthsAreFound, Analysed
  <1>5. LinesOfLong(file)'
        = LinesOfLong(file) \cup (IF open[n].kind = "plain" /\ Length(new) > limits.maxLines
                                  THEN {open[n].first} ELSE {})
    <2>1. CASE open[n].kind = "block"
      BY <2>1, <1>0 DEF LinesOfLong, LongFunctions
    <2>2. CASE open[n].kind # "block"
      <3> DEFINE more == IF open[n].kind = "plain" /\ Length(new) > limits.maxLines
                         THEN {new} ELSE {}
      <3>1. {h \in LongFunctions(file)' : h.plain} = {h \in LongFunctions(file) : h.plain} \cup more
        BY <2>2, <1>0, <1>3, <1>w DEF LongFunctions
      <3> QED
        BY <3>1, <1>3 DEF LinesOfLong
    <2> QED
      BY <2>1, <2>2
  <1>6. /\ LinesFoundLong(file)' = LinesOfLong(file)'
        /\ IF start' = 0 THEN depth' = 0 /\ \A i \in 1..Len(open') : open'[i].kind # "plain"
           ELSE \E k \in 1..Len(open') :
                   /\ Followed(k)' /\ start' = open'[k].first
                   /\ depth' = Len(open') - k + 1
    <2>0. IF start = 0 THEN depth = 0 /\ \A i \in 1..n : open[i].kind # "plain"
          ELSE \E k \in 1..n : Followed(k) /\ start = open[k].first /\ depth = n - k + 1
      BY <1>0 DEF DInv, BlockIsFollowed, InPlain, n
    <2>1. CASE start = 0
      <3>1. UNCHANGED <<depth, start, findings>>
        BY <1>0, <2>1 DEF Scan
      <3>2. LinesFoundLong(file)' = LinesFoundLong(file)
        BY <3>1, <1>0 DEF LinesFoundLong
      <3> QED
        BY <3>1, <3>2, <2>0, <2>1, <1>0, <1>2, <1>4, <1>5
    <2>2. CASE start # 0
      <3>1. PICK k \in 1..n : Followed(k) /\ start = open[k].first /\ depth = n - k + 1
        BY <2>0, <2>2
      <3>2. CASE k < n
        <4>1. depth' = depth - 1 /\ start' = start /\ UNCHANGED findings
          BY <1>0, <2>2, <3>1, <3>2 DEF Scan, BlockEnds
        <4>2. k \in 1..(n - 1) /\ open[n].kind # "plain"
          BY <1>0, <3>1, <3>2 DEF Followed, n
        <4>3. LinesFoundLong(file)' = LinesFoundLong(file)
          BY <4>1, <1>0 DEF LinesFoundLong
        <4>4. Followed(k)' /\ start' = open'[k].first /\ depth' = Len(open') - k + 1
          <5>1. n \in Nat /\ Len(open') = n - 1 /\ open'[k] = open[k]
            BY <4>2, <1>0, <1>2
          <5>2. Followed(k)'
            BY <5>1, <3>1, <1>2 DEF Followed, n
          <5>3. depth' = Len(open') - k + 1
            BY <4>1, <5>1, <3>1, <1>0
          <5> QED
            BY <4>1, <5>1, <5>2, <5>3, <3>1
        <4> QED
          BY <4>1, <4>2, <4>3, <4>4, <1>4, <1>5, <2>2, <1>0, <1>2
      <3>3. CASE k = n
        <4>1. /\ depth' = 0 /\ start' = 0
              /\ findings' = findings \cup LengthFinding(start, line + 1)
          BY <1>0, <2>2, <3>1, <3>3 DEF Scan, BlockEnds
        <4>2. /\ \A i \in 1..(n - 1) : open[i].kind # "plain"
              /\ open[n].kind = "plain" /\ start = open[n].first
          BY <1>0, <3>1, <3>3 DEF Followed, n
        <4>3. LinesFoundLong(file)'
              = LinesFoundLong(file) \cup {x.line : x \in LengthFinding(start, line + 1)}
          <5>1. \A x \in LengthFinding(start, line + 1) : x.kind = "length" /\ x.file = file
            BY DEF LengthFinding, Finding
          <5> QED
            BY <4>1, <5>1, <1>0 DEF LinesFoundLong
        <4>4. {x.line : x \in LengthFinding(start, line + 1)}
              = IF (line + 1) - start + 1 > limits.maxLines THEN {start} ELSE {}
          <5> DEFINE r == Finding("length", start, FALSE)
          <5>1. r.line = start
            BY DEF Finding
          <5> HIDE DEF r
          <5>2. LengthFinding(start, line + 1)
                = IF (line + 1) - start + 1 > limits.maxLines THEN {r} ELSE {}
            BY DEF LengthFinding, TooLong, r
          <5>3. CASE (line + 1) - start + 1 > limits.maxLines
            BY <5>1, <5>2, <5>3
          <5>4. CASE ~((line + 1) - start + 1 > limits.maxLines)
            BY <5>2, <5>4
          <5> QED
            BY <5>3, <5>4
        <4> QED
          BY <4>1, <4>2, <4>3, <4>4, <1>3, <1>4, <1>5, <1>0, <1>2
      <3> QED
        BY <3>2, <3>3, <3>1, <1>0
    <2> QED
      BY <2>1, <2>2
  <1>7. BlockIsFollowed'
    BY <1>0, <1>1, <1>6 DEF BlockIsFollowed, HeadGrows, InPlain
  <1> QED
    BY <1>0, <1>1, <1>2, <1>6, <1>7, LineIsRead

LEMMA EndSourceDInv == DInv /\ EndSource => DInv'
  <1> SUFFICES ASSUME DInv, EndSource PROVE DInv'
    OBVIOUS
  <1> DEFINE more == IF start = 0 THEN {} ELSE LengthFinding(start, line)
  <1>0. /\ phase = "scan" /\ phase' = "functions" /\ DebtTypeOK /\ open = <<>> /\ Len(open) = 0
        /\ findings' = findings \cup more /\ Rewind
        /\ UNCHANGED <<debtGiven, head, todo, file, added, decision>>
    BY DEF EndSource, DInv
  <1>1. \A x \in more : /\ x.kind = "length" /\ x.file = file /\ x.blocking = FALSE
                        /\ x.line = start /\ start # 0
    BY DEF LengthFinding, Finding
  <1>2. HeadGrows
    BY <1>0, HeadStays DEF debtGiven
  <1>3. LinesFoundLong(file)' = LinesOfLong(file)'
    <2>1. start = 0
      BY <1>0 DEF DInv, BlockIsFollowed
    <2>2. findings' = findings
      BY <1>0, <2>1
    <2> QED
      BY <2>2, <1>0, LengthsStayFound DEF debtGiven
  <1> HIDE DEF more
  <1>4. DebtTypeOK'
    <2>1. open' \in Seq([first : 1..line, kind : Kinds])'
      BY <1>0, NothingIsOpen DEF Rewind
    <2>2. \A x \in findings' : /\ x.kind \in {"todo", "length", "complexity"}
                               /\ x.file \in setup.files /\ x.line \in Nat \ {0}
                               /\ x.blocking \in BOOLEAN
      <3>1. start # 0 => start \in Nat \ {0}
        BY <1>0 DEF DebtTypeOK
      <3>2. file \in setup.files
        BY <1>0 DEF DebtTypeOK
      <3>3. \A x \in more : x.line \in Nat \ {0} /\ x.file \in setup.files
        BY <1>1, <3>1, <3>2
      <3> QED
        BY <3>3, <1>0, <1>1 DEF DebtTypeOK
    <2> QED
      BY <1>0, <2>1, <2>2 DEF DebtTypeOK, debtGiven, Rewind
  <1>5. /\ PatchIsFollowed' /\ MarkersAreFound' /\ HeadIsRead' /\ FindingsHaveReasons'
        /\ SourcesAreAnalysed' /\ DecisionIsOfFindings'
    BY <1>0, <1>1, <1>2, ScanFrame
  <1>6. LengthsAreFound'
    BY <1>0, <1>1, <1>2, <1>3, ScanLengths DEF debtGiven
  <1>7. BlockIsFollowed'
    BY <1>0 DEF BlockIsFollowed
  <1> QED
    BY <1>4, <1>5, <1>6, <1>7 DEF DInv

-----------------------------------------------------------------------------
LEMMA StutterDInv == DInv /\ UNCHANGED debtVars => DInv'
  <1> SUFFICES ASSUME DInv, UNCHANGED debtVars PROVE DInv'
    OBVIOUS
  <1>1. DebtTypeOK' /\ PatchIsFollowed' /\ HeadIsRead' /\ DecisionIsOfFindings'
    BY DEF DInv, debtVars, DebtTypeOK, PatchIsFollowed, HeadIsRead, DecisionIsOfFindings,
           Blocking, Plain
  <1>2. MarkersAreFound'
    BY DEF DInv, debtVars, MarkersAreFound, Todos, InPatches, Plain
  <1>3. \A f : /\ Overgrown(f)' <=> Overgrown(f)
               /\ LinesOfLong(f)' = LinesOfLong(f) /\ LinesFoundLong(f)' = LinesFoundLong(f)
    BY DEF debtVars, Overgrown, LinesOfLong, LongFunctions, LinesFoundLong
  <1>4. FindingsHaveReasons' /\ SourcesAreAnalysed' /\ LengthsAreFound'
    BY <1>3 DEF DInv, debtVars, FindingsHaveReasons, SourcesAreAnalysed, LengthsAreFound,
                Analysed, Blocking
  <1>5. BlockIsFollowed'
    BY DEF DInv, debtVars, BlockIsFollowed, Followed, InPlain
  <1> QED
    BY <1>1, <1>2, <1>4, <1>5 DEF DInv

LEMMA NextDInv == DInv /\ [DebtNext]_debtVars => DInv'
  BY RefuseEvidenceDInv, PrepareDebtHeadDInv, BuildSnapshotDInv, OpenPatchDInv, SkipFileDInv,
     AnalyzePythonFileDInv, OpenSourceDInv, HunkHeaderDInv, PatchLinesDInv, EndPatchDInv,
     PlainLineDInv, SignatureLineDInv, BlockLineDInv, FunctionLineDInv, CloseLineDInv,
     EndSourceDInv, StutterDInv
     DEF DebtNext

LEMMA DInvHolds == DebtSpec => []DInv
  BY InitDInv, NextDInv, PTL DEF DebtSpec

(* The types of the debt gate: it reads on within what it has opened, and  *)
(* what it finds lies in changed files.                                    *)
THEOREM DebtTypes == DebtSpec => []DebtTypeOK
  <1>1. DInv => DebtTypeOK
    BY DEF DInv
  <1> QED
    BY <1>1, DInvHolds, PTL

LEMMA DebtVerdictOfInvariant == DInv => DebtVerdictIsOfTheChange
  <1> SUFFICES ASSUME DInv PROVE DebtVerdictIsOfTheChange
    OBVIOUS
  <1> USE DEF DInv
  <1>1. FindsWhatPatchesAdd /\ InventsNoMarkers
    BY DEF MarkersAreFound, FindsWhatPatchesAdd, InventsNoMarkers, Plain
  <1>2. LongFunctionsAreFound
    BY DEF LongFunctionsAreFound, LengthsAreFound, Analysed
  <1>3. PassMeansClean
    <2> SUFFICES ASSUME decision = "pass"
                 PROVE  /\ limits.failOnTodo /\ "plus" \notin setup.quirks => InPatches = {}
                        /\ \A f \in setup.files :
                              ~Overgrown(f) /\ (head[f].there => head[f].read = "well")
      BY DEF PassMeansClean
    <2>1. todo = {} /\ ~Blocking
      BY DEF DecisionIsOfFindings
    <2>2. ASSUME limits.failOnTodo, "plus" \notin setup.quirks, InPatches # {}
          PROVE  FALSE
      <3>1. PICK x \in findings : x.kind = "todo"
        BY <2>2 DEF MarkersAreFound, Todos
      <3> QED
        BY <3>1, <2>1, <2>2 DEF FindingsHaveReasons, Blocking
    <2> QED
      BY <2>1, <2>2 DEF SourcesAreAnalysed, Analysed
  <1>4. FailureHasAReason
    <2> SUFFICES ASSUME decision = "fail"
                 PROVE  \/ limits.failOnTodo /\ InPatches # {}
                        \/ \E f \in setup.files : Overgrown(f)
      BY DEF FailureHasAReason
    <2>1. PICK x \in findings : x.blocking
      BY DEF DecisionIsOfFindings, Blocking
    <2>2. CASE x.kind # "todo"
      BY <2>1, <2>2 DEF FindingsHaveReasons, DebtTypeOK
    <2>3. CASE x.kind = "todo"
      <3>1. limits.failOnTodo
        BY <2>1, <2>3 DEF FindingsHaveReasons
      <3>2. Todos # {}
        BY <2>3 DEF Todos
      <3>3. InPatches # {}
        <4>1. IsFiniteSet(Todos) /\ Cardinality(Todos) <= Cardinality(InPatches)
          BY DEF MarkersAreFound
        <4>2. Cardinality(Todos) \in Nat /\ Cardinality(Todos) # 0
          BY <3>2, <4>1, FS_EmptySet, FS_CardinalityType
        <4>3. ASSUME InPatches = {} PROVE FALSE
          BY <4>1, <4>2, <4>3, FS_EmptySet
        <4> QED
          BY <4>3
      <3> QED
        BY <3>1, <3>3
    <2> QED
      BY <2>2, <2>3
  <1> QED
    BY <1>1, <1>2, <1>3, <1>4 DEF DebtVerdictIsOfTheChange

(* A debt verdict is of what the pull request adds and of what its files   *)
(* are, however the patches and the files are written and however many     *)
(* lines they have.                                                        *)
THEOREM DebtIsOfTheChange == DebtSpec => []DebtVerdictIsOfTheChange
  BY DebtVerdictOfInvariant, DInvHolds, PTL

-----------------------------------------------------------------------------
(* SECURITY.                                                               *)

(* The inductive invariant of the gate: the scanners ran in their order,   *)
(* every finding is what an item of a scanner that ran is worth, and the   *)
(* verdict is that of the findings.                                        *)
Item == [impact : Words \cup {NotGiven}, severity : Words \cup {NotGiven}]
FindingOf(r) ==
    [scanner |-> r.scanner, severity |-> SeverityOf(r.scanner, r.item),
     blocking |-> SeverityOf(r.scanner, r.item) \in BlockingSeverities(policy)]
ScannerNames == {"semgrep", "detect-secrets", "bandit", "pip-audit"}
Reported == [scanner : ScannerNames, item : Item]
FoundOf(s) == {i \in 1..Len(found) : found[i].severity = s}

GateTypes ==
    /\ language \in LanguagesScanned /\ policy \in Policies /\ headReady \in BOOLEAN
    /\ ran \in Seq(ScannerNames) /\ reported \in Seq(Reported)
    /\ found \in Seq(Found)
    /\ verdict \in [status : {"none", "error", "raised", "pass", "fail"},
                    counts : [Severities -> Nat]]
RanInOrder ==
    /\ Len(ran) <= Len(Scanners)
    /\ \A i \in 1..Len(ran) : ran[i] = Scanners[i]
    /\ ~headReady => ran = <<>>
FindingsAreReports ==
    /\ Len(found) = Len(reported)
    /\ \A i \in 1..Len(reported) : /\ reported[i].scanner \in Range(ran)
                                   /\ reported[i].item \in ItemOf(reported[i].scanner)
                                   /\ found[i] = FindingOf(reported[i])
VerdictIsOfFindings ==
    /\ verdict.status = "error" => Len(ran) < Len(Scanners)
    /\ verdict.status \in {"pass", "fail"} =>
         /\ Len(ran) = Len(Scanners)
         /\ verdict.status = "fail" <=> Fails
         /\ verdict.counts = [s \in Severities |-> Cardinality(FoundOf(s))]

GInv == GateTypes /\ RanInOrder /\ FindingsAreReports /\ VerdictIsOfFindings

-----------------------------------------------------------------------------
LEMMA RangeOfSequence ==
    ASSUME NEW S, NEW s \in Seq(S)
    PROVE  /\ Range(s) = {s[i] : i \in 1..Len(s)} /\ Range(s) \subseteq S
           /\ \A x \in S : Range(Append(s, x)) = Range(s) \cup {x}
  <1>1. DOMAIN s = 1..Len(s)
    OBVIOUS
  <1>2. Range(s) = {s[i] : i \in 1..Len(s)}
    BY <1>1 DEF Range
  <1>3. ASSUME NEW x \in S PROVE Range(Append(s, x)) = Range(s) \cup {x}
    <2>1. /\ Append(s, x) \in Seq(S) /\ Len(Append(s, x)) = Len(s) + 1 /\ Len(s) \in Nat
          /\ Append(s, x)[Len(s) + 1] = x
          /\ \A i \in 1..Len(s) : Append(s, x)[i] = s[i]
      OBVIOUS
    <2>2. Range(Append(s, x)) = {Append(s, x)[i] : i \in 1..(Len(s) + 1)}
      BY <2>1 DEF Range
    <2>3. 1..(Len(s) + 1) = (1..Len(s)) \cup {Len(s) + 1}
      BY <2>1
    <2> QED
      BY <1>2, <2>1, <2>2, <2>3
  <1> QED
    BY <1>2, <1>3

LEMMA Concatenation ==
    ASSUME NEW S, NEW s \in Seq(S), NEW t \in Seq(S)
    PROVE  /\ s \o t \in Seq(S) /\ Len(s \o t) = Len(s) + Len(t)
           /\ \A i \in 1..Len(s) : (s \o t)[i] = s[i]
           /\ \A i \in 1..Len(t) : (s \o t)[Len(s) + i] = t[i]
  OBVIOUS

LEMMA TheScanners ==
    /\ Scanners \in Seq(ScannerNames) /\ Len(Scanners) \in {2, 4}
    /\ Range(Scanners) \subseteq ScannerNames
    /\ Scanners[1] = "semgrep" /\ Scanners[2] = "detect-secrets"
    /\ language = "python" => /\ Len(Scanners) = 4
                              /\ Scanners[3] = "bandit" /\ Scanners[4] = "pip-audit"
  <1> DEFINE Two == <<"semgrep", "detect-secrets">>
             Four == <<"semgrep", "detect-secrets", "bandit", "pip-audit">>
  <1>1. /\ Two \in Seq(ScannerNames) /\ Len(Two) = 2
        /\ Two[1] = "semgrep" /\ Two[2] = "detect-secrets"
    BY DEF ScannerNames
  <1>2. /\ Four \in Seq(ScannerNames) /\ Len(Four) = 4
        /\ Four[1] = "semgrep" /\ Four[2] = "detect-secrets"
        /\ Four[3] = "bandit" /\ Four[4] = "pip-audit"
    BY DEF ScannerNames
  <1>3. Scanners = IF language = "python" THEN Four ELSE Two
    BY DEF Scanners
  <1> HIDE DEF Two, Four
  <1>4. Range(Scanners) \subseteq ScannerNames
    BY <1>1, <1>2, <1>3, RangeOfSequence
  <1> QED
    BY <1>1, <1>2, <1>3, <1>4

LEMMA NormalizedIsSeverity == ASSUME NEW word PROVE Normalized(word) \in Severities
  BY DEF Normalized, Severities

LEMMA SeverityIsSeverity ==
    ASSUME NEW scanner \in Range(Scanners), NEW item
    PROVE  SeverityOf(scanner, item) \in Severities
  BY TheScanners, NormalizedIsSeverity DEF SeverityOf, Severities, ScannerNames

LEMMA DisjointUnion ==
    ASSUME NEW S, IsFiniteSet(S), NEW T, IsFiniteSet(T), S \cap T = {}
    PROVE  /\ IsFiniteSet(S \cup T)
           /\ Cardinality(S \cup T) = Cardinality(S) + Cardinality(T)
  <1>1. /\ IsFiniteSet(S \cup T)
        /\ Cardinality(S \cup T) = Cardinality(S) + Cardinality(T) - Cardinality(S \cap T)
    BY FS_Union
  <1>2. Cardinality(S) \in Nat /\ Cardinality(T) \in Nat /\ Cardinality(S \cap T) = 0
    BY FS_CardinalityType, FS_EmptySet
  <1> QED
    BY <1>1, <1>2

(* What was found of each severity is finite, and together all there is.   *)
LEMMA FoundAddUp ==
    ASSUME found \in Seq(Found)
    PROVE  /\ \A s \in Severities : /\ Cardinality(FoundOf(s)) \in Nat
                                    /\ Cardinality(FoundOf(s)) > 0 <=> FoundOf(s) # {}
           /\ Cardinality(FoundOf("low")) + Cardinality(FoundOf("medium"))
                + Cardinality(FoundOf("high")) + Cardinality(FoundOf("critical")) = Len(found)
  <1>1. IsFiniteSet(1..Len(found)) /\ Cardinality(1..Len(found)) = Len(found)
    <2>1. Len(found) \in Nat
      OBVIOUS
    <2> HIDE DEF FoundOf
    <2> QED
      BY <2>1, FS_Interval
  <1>2. ASSUME NEW s
        PROVE  /\ IsFiniteSet(FoundOf(s)) /\ Cardinality(FoundOf(s)) \in Nat
               /\ Cardinality(FoundOf(s)) > 0 <=> FoundOf(s) # {}
    <2>1. FoundOf(s) \in SUBSET (1..Len(found))
      BY DEF FoundOf
    <2>2. IsFiniteSet(FoundOf(s))
      BY <1>1, <2>1, FS_Subset
    <2> QED
      BY <2>2, FS_CardinalityType, FS_EmptySet
  <1> DEFINE Lower == FoundOf("low") \cup FoundOf("medium")
             Upper == FoundOf("high") \cup FoundOf("critical")
  <1>3. /\ IsFiniteSet(Lower)
        /\ Cardinality(Lower) = Cardinality(FoundOf("low")) + Cardinality(FoundOf("medium"))
    <2>1. FoundOf("low") \cap FoundOf("medium") = {}
      BY DEF FoundOf
    <2> QED
      BY <1>2, <2>1, DisjointUnion
  <1>4. /\ IsFiniteSet(Upper)
        /\ Cardinality(Upper) = Cardinality(FoundOf("high")) + Cardinality(FoundOf("critical"))
    <2>1. FoundOf("high") \cap FoundOf("critical") = {}
      BY DEF FoundOf
    <2> QED
      BY <1>2, <2>1, DisjointUnion
  <1>5. Lower \cap Upper = {}
    BY DEF FoundOf
  <1>6. Lower \cup Upper = 1..Len(found)
    <2>1. \A i \in 1..Len(found) : found[i] \in Found
      OBVIOUS
    <2>2. \A i \in 1..Len(found) : found[i].severity \in Severities
      BY <2>1 DEF Found
    <2> QED
      BY <2>2 DEF FoundOf, Severities
  <1>7. Cardinality(Lower \cup Upper) = Cardinality(Lower) + Cardinality(Upper)
    BY <1>3, <1>4, <1>5, DisjointUnion
  <1> QED
    <2>1. ASSUME NEW s \in Severities
          PROVE  /\ Cardinality(FoundOf(s)) \in Nat
                 /\ Cardinality(FoundOf(s)) > 0 <=> FoundOf(s) # {}
      BY <1>2
    <2>2. Cardinality(Lower \cup Upper) = Len(found)
      BY <1>1, <1>6
    <2>3. /\ Cardinality(FoundOf("low")) \in Nat /\ Cardinality(FoundOf("medium")) \in Nat
          /\ Cardinality(FoundOf("high")) \in Nat /\ Cardinality(FoundOf("critical")) \in Nat
      BY <1>2
    <2> HIDE DEF Lower, Upper
    <2> QED
      BY <1>3, <1>4, <1>7, <2>1, <2>2, <2>3

-----------------------------------------------------------------------------
LEMMA InitGInv == SecurityInit => GInv
  <1> SUFFICES ASSUME SecurityInit PROVE GInv
    OBVIOUS
  <1>1. /\ ran = <<>> /\ reported = <<>> /\ found = <<>>
        /\ verdict = [status |-> "none", counts |-> NoCounts]
    BY DEF SecurityInit
  <1>2. GateTypes
    <2>1. NoCounts \in [Severities -> Nat]
      BY DEF NoCounts
    <2>2. verdict \in [status : {"none", "error", "raised", "pass", "fail"},
                      counts : [Severities -> Nat]]
      BY <1>1, <2>1
    <2>3. ran \in Seq(ScannerNames) /\ found \in Seq(Found)
      BY <1>1
    <2>4. reported \in Seq(Reported)
      BY <1>1
    <2> QED
      BY <2>2, <2>3, <2>4 DEF SecurityInit, GateTypes
  <1>3. RanInOrder
    BY <1>1, TheScanners DEF RanInOrder
  <1>4. FindingsAreReports /\ VerdictIsOfFindings
    BY <1>1 DEF FindingsAreReports, VerdictIsOfFindings
  <1> QED
    BY <1>2, <1>3, <1>4 DEF GInv

(* A step that finds nothing keeps what is true of the findings.           *)
LEMMA SameFindings ==
    ASSUME GateTypes, FindingsAreReports, UNCHANGED <<language, policy, ran, reported, found>>
    PROVE  /\ FindingsAreReports' /\ Scanners' = Scanners /\ Fails' = Fails
           /\ \A s : FoundOf(s)' = FoundOf(s)
           /\ found' \in Seq(Found') /\ reported' \in Seq(Reported)'
  <1>1. Scanners' = Scanners
    BY DEF Scanners
  <1>2. Found' = Found
    BY <1>1 DEF Found
  <1>3. \A n : ItemOf(n)' = ItemOf(n)
    BY DEF ItemOf
  <1>4. \A x : FindingOf(x)' = FindingOf(x)
    BY DEF FindingOf, BlockingSeverities
  <1>5. FindingsAreReports'
    BY <1>3, <1>4 DEF FindingsAreReports
  <1>6. Fails' = Fails /\ \A s : FoundOf(s)' = FoundOf(s)
    BY DEF Fails, FoundOf
  <1> QED
    BY <1>1, <1>2, <1>5, <1>6 DEF GateTypes, Item, Reported

(* A step that adds a scanner to those that ran keeps their order.         *)
LEMMA AppendInOrder ==
    ASSUME GateTypes, RanInOrder, headReady, Len(ran) < Len(Scanners),
           ran' = Append(ran, Scanner), UNCHANGED <<given, headReady>>
    PROVE  /\ ran' \in Seq(ScannerNames) /\ RanInOrder' /\ Range(ran') = Range(ran) \cup {Scanner}
           /\ Scanner \in Range(Scanners) /\ Scanners' = Scanners
  <1>1. Scanners' = Scanners
    BY DEF given, Scanners
  <1>2. Len(ran) + 1 \in 1..Len(Scanners)
    BY DEF GateTypes
  <1>3. Scanner = Scanners[Len(ran) + 1] /\ Scanner \in ScannerNames /\ Scanner \in Range(Scanners)
    BY <1>2, TheScanners DEF Scanner, Range
  <1>4. ran' \in Seq(ScannerNames) /\ Len(ran') = Len(ran) + 1
    BY <1>3 DEF GateTypes
  <1>5. RanInOrder'
    BY <1>1, <1>2, <1>3, <1>4 DEF GateTypes, RanInOrder
  <1>6. Range(ran') = Range(ran) \cup {Scanner}
    BY <1>3, RangeOfSequence DEF GateTypes
  <1> QED
    BY <1>1, <1>3, <1>4, <1>5, <1>6

LEMMA ReportsGInv ==
    ASSUME GInv, Len(ran) < Len(Scanners), NEW items \in Outputs(Scanner), ScannerReports(items)
    PROVE  GInv'
  <1> DEFINE Added == [i \in 1..Len(items) |-> [scanner |-> Scanner, item |-> items[i]]]
             Found1(i) == LET severity == SeverityOf(Scanner, items[i])
                          IN [scanner |-> Scanner, severity |-> severity,
                              blocking |-> severity \in BlockingSeverities(policy)]
             AddedFound == [i \in 1..Len(items) |-> Found1(i)]
  <1>1. /\ ran' \in Seq(ScannerNames) /\ RanInOrder' /\ Range(ran') = Range(ran) \cup {Scanner}
        /\ Scanner \in Range(Scanners) /\ Scanners' = Scanners
    BY AppendInOrder DEF GInv, ScannerReports
  <1>2. items \in Seq(ItemOf(Scanner))
    BY DEF Outputs
  <1>3. ItemOf(Scanner) \subseteq Item
    BY DEF ItemOf, Item
  <1>4. Scanner \in ScannerNames
    BY <1>1, TheScanners
  <1>5. Added \in Seq(Reported) /\ Len(Added) = Len(items)
    <2>1. \A i \in 1..Len(items) : [scanner |-> Scanner, item |-> items[i]] \in Reported
      BY <1>2, <1>3, <1>4 DEF Reported
    <2> QED
      BY <1>2, <2>1
  <1>6. AddedFound \in Seq(Found) /\ Len(AddedFound) = Len(items)
    <2>1. \A i \in 1..Len(items) : Found1(i) \in Found
      BY <1>1, SeverityIsSeverity DEF Found
    <2> HIDE DEF Found1
    <2> QED
      BY <1>2, <2>1
  <1>7. reported' = reported \o Added /\ found' = found \o AddedFound
    BY DEF ScannerReports
  <1> HIDE DEF Added, AddedFound
  <1>8. UNCHANGED <<language, policy, headReady, verdict>> /\ Found' = Found
    BY <1>1 DEF ScannerReports, given, Found
  <1>9. GateTypes'
    <2>1. reported' \in Seq(Reported)
      BY <1>5, <1>7, Concatenation DEF GInv, GateTypes
    <2>2. found' \in Seq(Found)
      BY <1>6, <1>7, Concatenation DEF GInv, GateTypes
    <2> QED
      BY <1>1, <1>8, <2>1, <2>2 DEF GInv, GateTypes, Item, Reported
  <1>10. FindingsAreReports'
    <2>1. /\ Len(reported') = Len(reported) + Len(items)
          /\ Len(found') = Len(found) + Len(items)
          /\ Len(found) = Len(reported)
      <3>1. reported \in Seq(Reported) /\ found \in Seq(Found)
        BY DEF GInv, GateTypes
      <3>2. Len(reported \o Added) = Len(reported) + Len(items)
        BY <1>5, <3>1
      <3>3. Len(found \o AddedFound) = Len(found) + Len(items)
        BY <1>6, <3>1
      <3> QED
        BY <1>7, <3>2, <3>3 DEF GInv, FindingsAreReports
    <2>2. ASSUME NEW i \in 1..Len(reported')
          PROVE  /\ reported'[i].scanner \in Range(ran')
                 /\ reported'[i].item \in ItemOf(reported'[i].scanner)
                 /\ found'[i] = FindingOf(reported'[i])
      <3>1. CASE i <= Len(reported)
        <4>1. i \in 1..Len(reported) /\ reported'[i] = reported[i] /\ found'[i] = found[i]
          BY <1>5, <1>6, <1>7, <2>1, <3>1, Concatenation DEF GInv, GateTypes
        <4> QED
          BY <1>1, <4>1 DEF GInv, FindingsAreReports
      <3>2. CASE i > Len(reported)
        <4> DEFINE k == i - Len(reported)
        <4>1. k \in 1..Len(items)
          BY <1>2, <2>1, <3>2 DEF GInv, GateTypes
        <4>2. reported'[i] = Added[k] /\ found'[i] = AddedFound[k]
          BY <1>5, <1>6, <1>7, <2>1, <4>1, Concatenation DEF GInv, GateTypes
        <4>3. items[k] \in ItemOf(Scanner)
          BY <1>2, <4>1
        <4>4. Added[k] = [scanner |-> Scanner, item |-> items[k]] /\ AddedFound[k] = Found1(k)
          BY <4>1 DEF Added, AddedFound
        <4>5. Found1(k) = FindingOf([scanner |-> Scanner, item |-> items[k]])
          BY DEF FindingOf
        <4> QED
          BY <1>1, <4>2, <4>3, <4>4, <4>5
      <3> QED
        BY <3>1, <3>2 DEF GInv, GateTypes
    <2>3. \A r, s : FindingOf(r)' = FindingOf(r) /\ ItemOf(s)' = ItemOf(s)
      BY <1>8 DEF FindingOf, ItemOf, BlockingSeverities
    <2> QED
      BY <1>8, <2>1, <2>2, <2>3 DEF FindingsAreReports, FindingOf, ItemOf, BlockingSeverities
  <1>11. VerdictIsOfFindings'
    BY <1>8 DEF ScannerReports, Running, VerdictIsOfFindings
  <1> QED
    BY <1>1, <1>9, <1>10, <1>11 DEF GInv

LEMMA DecideGInv == GInv /\ Decide => GInv'
  <1> SUFFICES ASSUME GInv, Decide PROVE GInv'
    OBVIOUS
  <1>1. UNCHANGED <<language, policy, headReady, ran, reported, found>>
    BY DEF Decide, given
  <1>2. verdict' = [status |-> IF Fails THEN "fail" ELSE "pass",
                    counts |-> [s \in Severities |-> Cardinality(FoundOf(s))]]
    BY DEF Decide, FoundOf
  <1>3. GateTypes'
    <2>1. \A s \in Severities : Cardinality(FoundOf(s)) \in Nat
      BY FoundAddUp DEF GInv, GateTypes
    <2> QED
      BY <1>1, <1>2, <2>1 DEF GInv, GateTypes, Found, Scanners, Item, Reported
  <1>4. VerdictIsOfFindings'
    BY <1>1, <1>2 DEF Decide, VerdictIsOfFindings, Fails, FoundOf, Scanners
  <1> QED
    BY <1>1, <1>3, <1>4
    DEF GInv, RanInOrder, FindingsAreReports, FindingOf, ItemOf, BlockingSeverities, Scanners

LEMMA NextGInv == GInv /\ [SecurityNext]_securityVars => GInv'
  <1> SUFFICES ASSUME GInv, [SecurityNext]_securityVars PROVE GInv'
    OBVIOUS
  <1> USE DEF GInv
  <1>1. NoCounts \in [Severities -> Nat]
    BY DEF NoCounts
  <1>2. CASE PrepareHead
    <2>1. UNCHANGED <<language, policy, ran, reported, found>> /\ headReady' \in BOOLEAN
      BY <1>2 DEF PrepareHead, given, GateTypes
    <2>2. ran = <<>> /\ Len(ran) < Len(Scanners)
      BY <1>2, TheScanners DEF PrepareHead, RanInOrder
    <2>3. \/ UNCHANGED verdict /\ verdict.status = "none"
          \/ verdict' = [status |-> "error", counts |-> NoCounts]
      BY <1>2 DEF PrepareHead, Conclude, Running
    <2>4. GateTypes'
      BY <1>1, <2>1, <2>3, SameFindings DEF GateTypes
    <2>5. RanInOrder'
      BY <2>1, <2>2, SameFindings DEF RanInOrder
    <2>6. VerdictIsOfFindings'
      BY <2>1, <2>2, <2>3, SameFindings DEF VerdictIsOfFindings
    <2> QED
      BY <2>1, <2>4, <2>5, <2>6, SameFindings
  <1>3. CASE ScannerFails
    <2>1. UNCHANGED <<language, policy, headReady, ran, reported, found>>
      BY <1>3 DEF ScannerFails, given
    <2>2. /\ Len(ran) < Len(Scanners)
          /\ verdict' = [status |-> "error", counts |-> NoCounts]
      BY <1>3 DEF ScannerFails, Conclude
    <2>3. GateTypes'
      BY <1>1, <2>1, <2>2, SameFindings DEF GateTypes
    <2>4. RanInOrder' /\ VerdictIsOfFindings'
      BY <2>1, <2>2, SameFindings DEF RanInOrder, VerdictIsOfFindings
    <2> QED
      BY <2>1, <2>3, <2>4, SameFindings
  <1>4. CASE NormaliserRaises
    <2>1. ran' \in Seq(ScannerNames) /\ RanInOrder'
      BY <1>4, AppendInOrder DEF NormaliserRaises
    <2>2. UNCHANGED <<language, policy, headReady>> /\ reported' = <<>> /\ found' = <<>>
      BY <1>4 DEF NormaliserRaises, given
    <2>3. verdict' = [status |-> "raised", counts |-> NoCounts]
      BY <1>4 DEF NormaliserRaises, Conclude
    <2>4. GateTypes'
      BY <1>1, <2>1, <2>2, <2>3 DEF GateTypes, Item, Reported
    <2>5. FindingsAreReports' /\ VerdictIsOfFindings'
      BY <2>2, <2>3 DEF FindingsAreReports, VerdictIsOfFindings
    <2> QED
      BY <2>1, <2>4, <2>5
  <1>5. CASE Decide
    BY <1>5, DecideGInv
  <1>6. CASE Len(ran) < Len(Scanners) /\ \E items \in Outputs(Scanner) : ScannerReports(items)
    BY <1>6, ReportsGInv
  <1>7. CASE UNCHANGED securityVars
    <2>1. UNCHANGED <<language, policy, headReady, ran, reported, found, verdict>>
      BY <1>7 DEF securityVars
    <2>2. GateTypes'
      BY <2>1, SameFindings DEF GateTypes
    <2>3. RanInOrder' /\ VerdictIsOfFindings'
      BY <2>1, SameFindings DEF RanInOrder, VerdictIsOfFindings
    <2> QED
      BY <2>1, <2>2, <2>3, SameFindings
  <1> QED
    BY <1>2, <1>3, <1>4, <1>5, <1>6, <1>7 DEF SecurityNext

LEMMA SeverityBlocks ==
    ASSUME GInv, NEW s \in Severities
    PROVE  s \in BlockingSeverities(policy) <=> Blocks(s)
  BY SecurityAssumption DEF GInv, GateTypes, BlockingSeverities, Blocks

(* The severities that are counted decide as the findings do.              *)
LEMMA CountsDecide ==
    ASSUME GInv
    PROVE  Fails <=> \E s \in Severities : FoundOf(s) # {} /\ Blocks(s)
  <1>1. \A i \in 1..Len(found) : /\ found[i].severity \in Severities
                                 /\ found[i].blocking <=> Blocks(found[i].severity)
    <2> SUFFICES ASSUME NEW i \in 1..Len(found)
                 PROVE  /\ found[i].severity \in Severities
                        /\ found[i].blocking <=> Blocks(found[i].severity)
      OBVIOUS
    <2>1. found[i] \in Found /\ found[i] = FindingOf(reported[i])
      BY DEF GInv, GateTypes, FindingsAreReports
    <2>2. found[i].blocking = (found[i].severity \in BlockingSeverities(policy))
      BY <2>1 DEF FindingOf
    <2> QED
      BY <2>1, <2>2, SeverityBlocks DEF Found
  <1> QED
    BY <1>1 DEF Fails, FoundOf

LEMMA GInvVerdict == GInv => VerdictIsTheCounts
  <1> SUFFICES ASSUME GInv PROVE VerdictIsTheCounts
    OBVIOUS
  <1>1. CASE verdict.status \in {"pass", "fail"}
    <2>1. \A s \in Severities : verdict.counts[s] = Cardinality(FoundOf(s))
      BY <1>1 DEF GInv, VerdictIsOfFindings
    <2>2. Len(reported) = Len(found)
      BY DEF GInv, FindingsAreReports
    <2>3. verdict.counts["low"] + verdict.counts["medium"] + verdict.counts["high"]
            + verdict.counts["critical"] = Len(reported)
      BY <2>1, <2>2, FoundAddUp DEF GInv, GateTypes, Severities
    <2>4. \A s \in Severities : verdict.counts[s] > 0 <=> FoundOf(s) # {}
      BY <2>1, FoundAddUp DEF GInv, GateTypes
    <2> QED
      BY <1>1, <2>3, <2>4, CountsDecide DEF GInv, VerdictIsOfFindings, VerdictIsTheCounts
  <1>2. CASE verdict.status \notin {"pass", "fail"}
    BY <1>2 DEF GInv, VerdictIsOfFindings, FindingsAreReports, VerdictIsTheCounts
  <1> QED
    BY <1>1, <1>2

(* An item that a severe word, a secret or a default rates is not passed.  *)
LEMMA SevereIsFound ==
    ASSUME NEW scanner \in Range(Scanners), NEW item \in ItemOf(scanner),
           SeverityOf(scanner, item) \notin {"high", "critical"}
    PROVE  /\ scanner # "detect-secrets"
           /\ ~Severe(item.impact)
           /\ item.impact = NotGiven => ~Severe(item.severity)
           /\ ~(scanner = "pip-audit" /\ item.severity = NotGiven)
  <1>1. scanner \in {"semgrep", "detect-secrets", "bandit", "pip-audit"}
    BY TheScanners DEF ScannerNames
  <1>2. ~Severe(NotGiven)
    BY SecurityAssumption DEF Severe
  <1>3. ASSUME NEW word, Severe(word) PROVE Normalized(word) \in {"high", "critical"}
    BY <1>3 DEF Severe, SevereWords, Normalized
  <1>4. item.impact \in Words \cup {NotGiven} /\ item.severity \in Words \cup {NotGiven}
    BY DEF ItemOf
  <1>5. CASE scanner = "semgrep"
    BY <1>2, <1>3, <1>4, <1>5 DEF SeverityOf, Given
  <1>6. CASE scanner = "detect-secrets"
    BY <1>6 DEF SeverityOf
  <1>7. CASE scanner = "bandit"
    <2>1. item.impact = NotGiven
      BY <1>7 DEF ItemOf
    <2> QED
      BY <1>2, <1>3, <1>7, <2>1 DEF SeverityOf, Given
  <1>8. CASE scanner = "pip-audit"
    <2>1. item.impact = NotGiven
      BY <1>8 DEF ItemOf
    <2>2. Severe("high")
      BY DEF Severe, SevereWords
    <2> QED
      BY <1>2, <1>3, <1>8, <2>1, <2>2 DEF SeverityOf, Given
  <1> QED
    BY <1>1, <1>5, <1>6, <1>7, <1>8

LEMMA GInvPass == GInv => PassMeansScanned
  <1> SUFFICES ASSUME GInv, verdict.status = "pass" PROVE PassMeansScanned
    BY DEF PassMeansScanned
  <1>1. Len(ran) = Len(Scanners) /\ ~Fails
    BY DEF GInv, VerdictIsOfFindings
  <1>2. Range(ran) = Range(Scanners)
    <2>1. ran \in Seq(ScannerNames) /\ Scanners \in Seq(ScannerNames)
      BY TheScanners DEF GInv, GateTypes
    <2>2. Range(ran) = {ran[i] : i \in 1..Len(ran)}
      BY <2>1, RangeOfSequence
    <2>3. Range(Scanners) = {Scanners[i] : i \in 1..Len(Scanners)}
      BY <2>1, RangeOfSequence
    <2> QED
      BY <1>1, <2>2, <2>3 DEF GInv, RanInOrder
  <1>3. /\ {"semgrep", "detect-secrets"} \subseteq Range(Scanners)
        /\ language = "python" => {"bandit", "pip-audit"} \subseteq Range(Scanners)
    BY TheScanners DEF Range
  <1>4. ASSUME Blocks("high"), Blocks("critical"), NEW i \in 1..Len(reported)
        PROVE  LET item == reported[i].item
               IN  /\ reported[i].scanner # "detect-secrets"
                   /\ ~Severe(item.impact)
                   /\ item.impact = NotGiven => ~Severe(item.severity)
                   /\ ~(reported[i].scanner = "pip-audit" /\ item.severity = NotGiven)
    <2>1. /\ i \in 1..Len(found) /\ found[i] = FindingOf(reported[i])
          /\ reported[i].scanner \in Range(Scanners)
          /\ reported[i].item \in ItemOf(reported[i].scanner)
      BY <1>2 DEF GInv, FindingsAreReports
    <2>2. SeverityOf(reported[i].scanner, reported[i].item) \notin BlockingSeverities(policy)
      <3>1. ~found[i].blocking
        BY <1>1, <2>1 DEF Fails
      <3>2. found[i].blocking = (SeverityOf(reported[i].scanner, reported[i].item)
                                   \in BlockingSeverities(policy))
        BY <2>1 DEF FindingOf
      <3> QED
        BY <3>1, <3>2
    <2>3. {"high", "critical"} \subseteq BlockingSeverities(policy)
      BY <1>4, SeverityBlocks DEF Severities
    <2> QED
      BY <2>1, <2>2, <2>3, SevereIsFound
  <1> QED
    BY <1>2, <1>3, <1>4 DEF PassMeansScanned

(* Whatever the scanners print, those that ran are the first of the list,  *)
(* in its order, and each report of one of them is a finding of the gate.  *)
THEOREM SecurityTypes == SecuritySpec => []SecurityTypeOK
  <1>1. GInv => SecurityTypeOK
    <2> SUFFICES ASSUME GInv PROVE SecurityTypeOK
      OBVIOUS
    <2>1. ran \in Seq(ScannerNames) /\ Scanners \in Seq(ScannerNames)
      BY TheScanners DEF GInv, GateTypes
    <2>2. SubSeq(ran, 1, Len(ran)) = SubSeq(Scanners, 1, Len(ran))
      BY <2>1 DEF GInv, RanInOrder
    <2>3. IsPrefix(ran, Scanners)
      BY <2>2 DEF GInv, RanInOrder, IsPrefix
    <2> QED
      BY <2>3 DEF GInv, GateTypes, FindingsAreReports, SecurityTypeOK
  <1> QED
    BY InitGInv, NextGInv, <1>1, PTL DEF SecuritySpec

(* A security gate that passes has looked with every scanner and found     *)
(* nothing that blocks, and its counts are of all that was reported,       *)
(* whatever the policy, the tools' words and the number of items.          *)
THEOREM SoundSecurityVerdict == SecuritySpec => []SecurityVerdictIsOfTheScans
  <1>1. GInv => SecurityVerdictIsOfTheScans
    BY GInvVerdict, GInvPass DEF SecurityVerdictIsOfTheScans
  <1> QED
    BY InitGInv, NextGInv, <1>1, PTL DEF SecuritySpec

-----------------------------------------------------------------------------
(* THE GATES OF AN EXECUTION.                                              *)

(* The gate whose behaviour it is takes a step of its own; the others, and *)
(* all of them in a step of another, stay.                                 *)
LEMMA GatesImplement == GatesSpec => Spec /\ DebtSpec /\ SecuritySpec
  <1>1. GatesInit => Init /\ DebtInit /\ SecurityInit
    BY DEF GatesInit, CoverageInit, NoCoverage, NoDebt, NoSecurity
  <1>2. [GatesNext]_<<gate, vars, debtVars, securityVars>>
        => [Next]_vars /\ [DebtNext]_debtVars /\ [SecurityNext]_securityVars
    BY DEF GatesNext
  <1> QED
    BY <1>1, <1>2, PTL DEF GatesSpec, Spec, DebtSpec, SecuritySpec

(* Each gate keeps to its types, whatever the others are given.            *)
THEOREM GatesTypes == GatesSpec => []GatesTypeOK
  BY GatesImplement, CoverageTypes, DebtTypes, SecurityTypes, PTL DEF GatesTypeOK

(* Each verdict of an execution is of what its gate was given.             *)
THEOREM GatesVerdicts ==
    GatesSpec => [](CoverageVerdictIsMeasured /\ DebtVerdictIsOfTheChange
                    /\ SecurityVerdictIsOfTheScans)
  BY GatesImplement, CoverageIsMeasured, DebtIsOfTheChange, SoundSecurityVerdict, PTL
=============================================================================
