----------------------------- MODULE Comparisons -----------------------------
(***************************************************************************)
(* How two scalars become a verdict: evaluation/normalization.py and       *)
(* evaluation/comparisons.py, and beside them evaluation/comparators.py,   *)
(* with which the older runner judges the same pairs.  Operators only.     *)
(*                                                                         *)
(* Decimal numbers are counted in tenths and arithmetic rounds its results *)
(* to Digits significant digits, half to even, as Python's decimal context *)
(* does with its 28.  Moments are counted in hours, from the first of year *)
(* 1 to the last of year 9999.                                             *)
(***************************************************************************)
EXTENDS Integers

CONSTANT Digits

ASSUME DigitsAssumption == Digits \in Nat \ {0}

Scopes == {"SOURCE_TARGET", "SOURCE_ONLY", "TARGET_ONLY"}
Uses(scope) == {"source", "target"} \ (CASE scope = "SOURCE_ONLY" -> {"target"}
                                         [] scope = "TARGET_ONLY" -> {"source"}
                                         [] OTHER -> {})

NumericTypes == {"INTEGER", "NUMBER"}
ResultTypes == NumericTypes \cup {"TEXT", "BOOLEAN", "DATETIME"}

TwoSided == {"EQUAL", "EQUAL_ABS_TOLERANCE", "EQUAL_PCT_TOLERANCE"}
NumericOnly == {"EQUAL_ABS_TOLERANCE", "EQUAL_PCT_TOLERANCE", "EXPECTED_ZERO",
                "LESS_THAN_OR_EQUAL", "GREATER_THAN_OR_EQUAL", "NON_ZERO"}
ComparisonTypes == TwoSided \cup NumericOnly
  \cup {"EXPECTED_EQUAL", "BOOLEAN_TRUE", "TEXT_CASE_INSENSITIVE_EQUAL", "NO_COMPARISON"}

SupportedTypes(comparison) ==
  CASE comparison \in NumericOnly -> NumericTypes
    [] comparison = "BOOLEAN_TRUE" -> {"BOOLEAN"}
    [] comparison = "TEXT_CASE_INSENSITIVE_EQUAL" -> {"TEXT"}
    [] OTHER -> ResultTypes

\* Mutant of RequiresExpected: a limit may be left out.
EqualityRequiresExpected(comparison, scope) ==
  \/ comparison = "EXPECTED_EQUAL"
  \/ comparison = "TEXT_CASE_INSENSITIVE_EQUAL" /\ scope # "SOURCE_TARGET"

RequiresExpected(comparison, scope) ==
  \/ comparison \in {"EXPECTED_EQUAL", "LESS_THAN_OR_EQUAL", "GREATER_THAN_OR_EQUAL"}
  \/ comparison = "TEXT_CASE_INSENSITIVE_EQUAL" /\ scope # "SOURCE_TARGET"

-----------------------------------------------------------------------------
\* Scalars, as a driver or a spreadsheet cell hands them over, and what they
\* normalize to.

\* form: the Python type.  reads: what the value denotes when it is written out,
\* a "number" (n tenths), something "infinite" or "nan", a "moment" (n hours on the
\* clock of a zone so many hours ahead of UTC, or of none), another "word", or
\* "nothing".  (A text that reads both as a number and as a date, 20240102, is left
\* out.)  text and folded: str(value).strip() and its casefold.
ScalarType ==
  [form : {"null", "int", "decimal", "float", "bool", "str", "date", "datetime"},
   reads : {"number", "infinite", "nan", "moment", "word", "nothing"},
   n : Int, zone : SUBSET Int, text : STRING, folded : STRING]
Blank(v) == v.reads = "nothing"

Normal(kind, n, text, folded) == [kind |-> kind, n |-> n, text |-> text, folded |-> folded]
Refused == Normal("refused", 0, "", "")

\* The conversion ended in an exception that is not its refusal, a TypeConversionError.
Raised == Normal("raised", 0, "", "")

\* A side no query was run for, an expectation that was left blank.
Absent == Normal("absent", 0, "", "")

\* Float and text go through their shortest decimal form, so none of them drags
\* a binary expansion along.  A bool is no number, an infinity neither.
IsDecimal(v) == v.form \in {"int", "decimal", "float", "str"} /\ v.reads = "number"
Whole(n) == n % 10 = 0
Truncated(n) == IF n < 0 THEN -((-n) \div 10) ELSE n \div 10

TrueWords == {"true", "t", "yes", "y", "1"}
FalseWords == {"false", "f", "no", "n", "0"}
Truth(b) == Normal("bool", IF b THEN 10 ELSE 0, "", "")

\* int() of a Decimal drops the fraction before 0 and 1 are looked for, and raises for
\* an infinite one or a NaN; a float with a fraction is refused.
AsBoolean(v) ==
  CASE v.form = "bool" -> Truth(v.n # 0)
    [] v.form = "decimal" /\ v.reads # "number" -> Raised
    [] v.reads = "number" /\ (v.form \in {"int", "decimal"} \/ (v.form = "float" /\ Whole(v.n))) ->
         IF Truncated(v.n) \in {0, 1} THEN Truth(Truncated(v.n) = 1) ELSE Refused
    [] v.form = "str" /\ v.folded \in TrueWords -> Truth(TRUE)
    [] v.form = "str" /\ v.folded \in FalseWords -> Truth(FALSE)
    [] OTHER -> Refused

\* The hours a datetime can name.
Calendar == 0..87649415

\* A moment without a zone is taken to be UTC, a date to be its first hour.
Instant(v) == IF v.zone = {} THEN v.n ELSE v.n - (CHOOSE z \in v.zone : TRUE)
\* Mutant of AsMoment: the zone is replaced, not converted.
WallClock(v) == IF v.reads = "moment" THEN Normal("moment", v.n, "", "") ELSE Refused
\* astimezone raises for a moment that has no name in UTC.
AsMoment(v) ==
  CASE v.reads # "moment" -> Refused
    [] v.reads = "moment" /\ Instant(v) \notin Calendar -> Raised
    [] OTHER -> Normal("moment", Instant(v), "", "")

Normalize(v, type) ==
  IF Blank(v) THEN Refused ELSE
  CASE type = "TEXT" -> Normal("text", 0, v.text, v.folded)
    [] type = "BOOLEAN" -> AsBoolean(v)
    [] type = "DATETIME" -> AsMoment(v)
    [] type = "INTEGER" /\ IsDecimal(v) /\ Whole(v.n) -> Normal("int", v.n, "", "")
    [] type = "NUMBER" /\ IsDecimal(v) -> Normal("decimal", v.n, "", "")
    [] OTHER -> Refused

-----------------------------------------------------------------------------
\* Decimal arithmetic.

Abs(n) == IF n < 0 THEN -n ELSE n

\* 10^k.
Power[k \in Nat] == IF k = 0 THEN 1 ELSE 10 * Power[k - 1]

\* The digits of n, for n >= 0.
Width(n) == CHOOSE w \in 1..(n + 1) : /\ n < Power[w]
                                      /\ w = 1 \/ n >= Power[w - 1]

HalfEven(a, b) ==
  LET q == a \div b
      r == 2 * (a % b)
  IN IF r < b \/ (r = b /\ q % 2 = 0) THEN q ELSE q + 1

Rounded(n) ==
  LET w == Width(Abs(n))
      unit == Power[w - Digits]
      m == HalfEven(Abs(n), unit) * unit
  IN IF w <= Digits THEN n ELSE IF n < 0 THEN -m ELSE m

Fits(n) == Rounded(n) = n

\* a / b to Digits digits, for a >= 0 and b > 0, as m / 10^k.
Quotient(a, b) ==
  IF a = 0 THEN [m |-> 0, k |-> 0]
  ELSE IF a >= b * Power[Digits]
  THEN LET unit == Power[Width(a \div b) - Digits]
       IN [m |-> HalfEven(a, b * unit) * unit, k |-> 0]
  ELSE LET least == b * Power[Digits - 1]
           k == CHOOSE i \in 0..least : /\ a * Power[i] >= least
                                        /\ i = 0 \/ a * Power[i - 1] < least
       IN [m |-> HalfEven(a * Power[k], b), k |-> k]

\* abs(percentage) <= tolerance: (variance / abs(source)) * 100, the product
\* exact, against a tolerance in tenths of a percent.
\* Mutant of PercentageWithin: the boundary itself fails.
PercentageBelow(source, variance, tolerance) ==
  LET q == Quotient(Abs(variance), Rounded(Abs(source)))
  IN q.m * 1000 < tolerance * Power[q.k]

PercentageWithin(source, variance, tolerance) ==
  LET q == Quotient(Abs(variance), Rounded(Abs(source)))
  IN q.m * 1000 <= tolerance * Power[q.k]

-----------------------------------------------------------------------------
\* The newer comparisons.  A request has the comparison, the scope, the three
\* normalized values and the two tolerances.

Numeric(v) == v.kind \in {"int", "decimal"}
IsZero(v) == Numeric(v) /\ v.n = 0

\* Mutant of Executed: a test of both sides asserts on the migrated one alone.
OnlyActual(r) == IF "target" \in Uses(r.scope) THEN {r.target} ELSE {r.source}
\* The values the test produced.
Executed(r) == {r[s] : s \in Uses(r.scope)} \ {Absent}

\* target - source, when both are numbers; no variance otherwise.
Variance(r) == IF Numeric(r.source) /\ Numeric(r.target)
               THEN {Rounded(r.target.n - r.source.n)} ELSE {}

\* The values a comparison calls _require_numeric on.
MustBeNumeric(r) ==
  CASE r.comparison \in {"EQUAL_ABS_TOLERANCE", "EQUAL_PCT_TOLERANCE"} -> {r.source, r.target}
    [] r.comparison \in {"LESS_THAN_OR_EQUAL", "GREATER_THAN_OR_EQUAL"} ->
         {r.expected} \cup Executed(r)
    [] OTHER -> {}

\* Mutant of AbsoluteHolds: the boundary itself fails.
AbsoluteBelow(r) == Abs(Rounded(r.target.n - r.source.n)) < r.absTol

AbsoluteHolds(r) == Abs(Rounded(r.target.n - r.source.n)) <= r.absTol

PercentageHolds(r) ==
  IF r.source.n # 0
  THEN PercentageWithin(r.source.n, Rounded(r.target.n - r.source.n), r.pctTol)
  ELSE r.target.n = 0 \/ (r.absTol > 0 /\ AbsoluteHolds(r))

\* What one executed value has to satisfy.
Holds(r, v) ==
  CASE r.comparison = "EXPECTED_EQUAL" -> v = r.expected
    [] r.comparison = "EXPECTED_ZERO" -> IsZero(v)
    [] r.comparison = "NON_ZERO" -> ~IsZero(v)
    [] r.comparison = "LESS_THAN_OR_EQUAL" -> v.n <= r.expected.n
    [] r.comparison = "GREATER_THAN_OR_EQUAL" -> v.n >= r.expected.n
    [] r.comparison = "BOOLEAN_TRUE" -> v = Truth(TRUE)
    [] OTHER -> v.folded = r.expected.folded

Passes(r) ==
  CASE r.comparison = "EQUAL" -> r.source = r.target
    [] r.comparison = "EQUAL_ABS_TOLERANCE" -> AbsoluteHolds(r)
    [] r.comparison = "EQUAL_PCT_TOLERANCE" -> PercentageHolds(r)
    [] r.comparison = "TEXT_CASE_INSENSITIVE_EQUAL" /\ r.scope = "SOURCE_TARGET" ->
         r.source.folded = r.target.folded
    [] OTHER -> \A v \in Executed(r) : Holds(r, v)

FailCode(r) ==
  CASE r.comparison = "EQUAL_ABS_TOLERANCE" -> "TOLERANCE_EXCEEDED"
    [] r.comparison = "EQUAL_PCT_TOLERANCE" ->
         IF r.source.n = 0 THEN "ZERO_SOURCE_BASELINE" ELSE "PERCENTAGE_TOLERANCE_EXCEEDED"
    [] r.comparison \in {"LESS_THAN_OR_EQUAL", "GREATER_THAN_OR_EQUAL"} -> "THRESHOLD_EXCEEDED"
    [] r.comparison = "EXPECTED_ZERO" -> "EXPECTED_ZERO_FAILED"
    [] r.comparison = "NON_ZERO" -> "NON_ZERO_FAILED"
    [] r.comparison = "BOOLEAN_TRUE" -> "BOOLEAN_NOT_TRUE"
    [] OTHER -> "VALUE_MISMATCH"

Verdict(status, code, variance) == [status |-> status, code |-> code, variance |-> variance]

Compare(r) ==
  CASE \E v \in MustBeNumeric(r) : ~Numeric(v) -> Verdict("ERROR", "TYPE_CONVERSION_ERROR", {})
    [] r.comparison = "NO_COMPARISON" -> Verdict("PROFILED", "", Variance(r))
    [] OTHER -> IF Passes(r) THEN Verdict("PASS", "", Variance(r))
                             ELSE Verdict("FAIL", FailCode(r), Variance(r))

\* What a reader must see to before it lets a test through.
WellFormed(t) ==
  /\ t.comparison \in ComparisonTypes /\ t.scope \in Scopes
  /\ t.type \in SupportedTypes(t.comparison)
  /\ t.comparison \in TwoSided => t.scope = "SOURCE_TARGET"
  /\ RequiresExpected(t.comparison, t.scope) => t.expected # Absent
  /\ t.absTol >= 0 /\ t.pctTol >= 0

-----------------------------------------------------------------------------
\* The older comparators, on scalars as they were read.

\* True and False are 1 and 0 here, and text that reads as a number is one.
Classify(v) ==
  IF Blank(v) THEN "null"
  ELSE IF v.reads \in {"number", "infinite", "nan"} THEN "numeric"
  ELSE IF v.form \in {"datetime", "date"} THEN "temporal" ELSE "text"

ToDecimalFails(v) == v.reads # "number"

\* A datetime with a zone never equals one without.
SameValue(a, b) ==
  CASE Classify(a) = "numeric" -> a.reads = b.reads /\ a.reads # "nan" /\ a.n = b.n
    [] Classify(a) = "temporal" -> (a.zone = {}) = (b.zone = {}) /\ Instant(a) = Instant(b)
    [] OTHER -> a.text = b.text

OlderEqual(source, target) ==
  IF Classify(source) = "null" \/ Classify(source) # Classify(target) THEN "ERROR"
  ELSE IF ~SameValue(source, target) THEN "FAIL"
  ELSE IF source.reads = "infinite" THEN "RAISES"  \* variance_of: Infinity - Infinity
  ELSE "PASS"

OlderExpectedZero(values) ==
  IF \E v \in values : ToDecimalFails(v) THEN "ERROR"
  ELSE IF \A v \in values : v.n = 0 THEN "PASS" ELSE "FAIL"

OlderTolerance(source, target, tolerance) ==
  IF tolerance < 0 \/ ToDecimalFails(source) \/ ToDecimalFails(target) THEN "ERROR"
  ELSE IF Abs(Rounded(source.n - target.n)) <= tolerance THEN "PASS" ELSE "FAIL"

\* raw has a scalar for every side the scope names.
OlderCompare(rule, raw, tolerance, scope) ==
  CASE rule = "NO_COMPARISON" -> "PROFILED"
    [] rule = "EXPECTED_ZERO" -> OlderExpectedZero({raw[s] : s \in Uses(scope)})
    [] OTHER -> IF scope # "SOURCE_TARGET" THEN "ERROR"
                ELSE IF rule = "EQUAL" THEN OlderEqual(raw["source"], raw["target"])
                ELSE OlderTolerance(raw["source"], raw["target"], tolerance)
=============================================================================
