------------------------------ MODULE Evaluation ------------------------------
(***************************************************************************)
(* The part of execution/engine.py's _execute_one that follows the         *)
(* queries: the scalars a test's sides returned are normalized one after   *)
(* the other, the first that cannot be ends the test, and the rest go to   *)
(* the comparison the row names.                                           *)
(***************************************************************************)
EXTENDS Comparisons

CONSTANTS
  Tests,    \* definitions the reader lets through, as the evaluation sees them
  Scalars   \* what a query may return

Side == {"source", "target"}

\* An expectation has been read as the declared type, like the values to come.
ASSUME TestsAssumption ==
  \A t \in Tests :
    /\ WellFormed(t) /\ t.absTol \in Nat /\ t.pctTol \in Nat
    /\ t.type \in NumericTypes /\ t.expected # Absent =>
         /\ t.expected.n \in Int
         /\ t.expected = Normal(IF t.type = "INTEGER" THEN "int" ELSE "decimal",
                                t.expected.n, "", "")

\* What a scalar reads as fits its type: neither a date nor NULL is ever written out as
\* a number, a bool reads as 1 or 0, the only numbers among the words for true and
\* false are 1 and 0, and a moment is named in the calendar, in its own zone.
ASSUME ScalarsAssumption ==
  /\ Scalars \subseteq ScalarType
  /\ \A v \in Scalars :
       /\ v.reads = "number" => v.form \notin {"null", "date", "datetime"}
       /\ v.reads = "moment" => v.n \in Calendar /\ v.folded \notin TrueWords \cup FalseWords
       /\ v.form = "bool" => v.reads = "number" /\ v.n \in {0, 10}
       /\ v.form = "str" /\ v.reads = "number" =>
            /\ v.folded \in TrueWords => v.n = 10
            /\ v.folded \in FalseWords => v.n = 0

VARIABLES
  test,        \* the definition being run
  raw,         \* side -> what its query returned; defined for the sides answered
  normalized,  \* side -> its value read as the declared type
  outcome      \* the verdict, its code and the variance; Pending before

vars == <<test, raw, normalized, outcome>>

Pending == Verdict("PENDING", "", {})

Init == /\ test \in Tests
        /\ raw = << >>
        /\ normalized = << >>
        /\ outcome = Pending

Add(values, s, v) == [x \in DOMAIN values \cup {s} |-> IF x = s THEN v ELSE values[x]]

\* The next side to work on, source before target, if any is left.
NextOf(values) ==
  LET left == Uses(test.scope) \ DOMAIN values
  IN CASE left = {} -> {} [] "source" \in left -> {"source"} [] OTHER -> {"target"}

Answer ==
  /\ outcome = Pending
  /\ \E s \in NextOf(raw), v \in Scalars : raw' = Add(raw, s, v)
  /\ UNCHANGED <<test, normalized, outcome>>

\* How a value that cannot be read ends the test: as NULL when there was nothing, as a
\* conversion error when it was refused, and any other exception leaves the method.
Unreadable(value, v) ==
  CASE v = Raised -> Verdict("RAISED", "", {})
    [] v = Refused /\ Blank(value) -> Verdict("ERROR", "NULL_RESULT", {})
    [] OTHER -> Verdict("ERROR", "TYPE_CONVERSION_ERROR", {})

\* A value read as the declared type; one that cannot be ends the test.
NormalizeNext ==
  /\ outcome = Pending /\ NextOf(raw) = {}
  /\ \E s \in NextOf(normalized) :
       LET v == Normalize(raw[s], test.type)
       IN IF v \in {Refused, Raised}
          THEN outcome' = Unreadable(raw[s], v) /\ UNCHANGED normalized
          ELSE normalized' = Add(normalized, s, v) /\ UNCHANGED outcome
  /\ UNCHANGED <<test, raw>>

ValueOf(s) == IF s \in DOMAIN normalized THEN normalized[s] ELSE Absent

Request == [comparison |-> test.comparison, scope |-> test.scope,
            source |-> ValueOf("source"), target |-> ValueOf("target"),
            expected |-> test.expected, absTol |-> test.absTol, pctTol |-> test.pctTol]

Judge ==
  /\ outcome = Pending /\ NextOf(raw) = {} /\ NextOf(normalized) = {}
  /\ outcome' = Compare(Request)
  /\ UNCHANGED <<test, raw, normalized>>

Next == Answer \/ NormalizeNext \/ Judge

Spec == Init /\ [][Next]_vars

-----------------------------------------------------------------------------
\* Properties.

Judged == outcome.status \in {"PASS", "FAIL", "PROFILED"}
BothNumbers == DOMAIN normalized = Side /\ test.type \in NumericTypes

Difference == Abs(normalized["target"].n - normalized["source"].n)

\* The verdict on an exact difference: what is within the bound passes, and what
\* passes exceeds it by half a unit in the last digit at most.
Agrees(exact, bound) ==
  /\ outcome.status = "PASS" => exact <= bound \/ 2 * Power[Digits - 1] * (exact - bound) <= bound
  /\ exact <= bound => outcome.status = "PASS"

\* Rounding to Digits digits is the only slack in a tolerance of at most Digits digits:
\* in a difference (comparisons.py:180-186, 229-255), and, when the source and the
\* difference have at most Digits digits too, in a percentage of the source
\* (comparisons.py:189-195, 258-318).
TolerancesAreExact ==
  LET s == normalized["source"].n
  IN Judged /\ BothNumbers =>
       /\ test.comparison = "EQUAL_ABS_TOLERANCE" /\ Fits(test.absTol) =>
            Agrees(Difference, test.absTol)
       /\ test.comparison = "EQUAL_PCT_TOLERANCE" /\ s # 0
            /\ Fits(s) /\ Fits(Difference) /\ Fits(test.pctTol) =>
            Agrees(Difference * 1000, test.pctTol * Abs(s))

OneValue(a, b) ==
  /\ a.reads = b.reads
  /\ \/ a.reads = "number" /\ a.n = b.n
     \/ a.reads = "moment" /\ Instant(a) = Instant(b)

\* Two drivers that hand over one and the same value in different Python types
\* (normalization.py:63-134), a number as int, Decimal, float, bool or text, or a
\* moment as a date, a datetime in any zone or text, never make a two-sided test of
\* any type but TEXT fail.  It passes, or the value was refused from both, or ended
\* the reading of both in an exception; only under BOOLEAN may one be refused and the
\* other not, as a Decimal of 0.5 is FALSE and the float no boolean; and where a
\* bool meets a number, a numeric type refuses it, as TRUE must not reconcile with 1
\* (normalization.py:84-87).
SameValueReconciles ==
  LET a == raw["source"]
      b == raw["target"]
      refused == outcome = Verdict("ERROR", "TYPE_CONVERSION_ERROR", {})
      Both(v) == Normalize(a, test.type) = v /\ Normalize(b, test.type) = v
      mixed == (a.form = "bool") # (b.form = "bool")
  IN DOMAIN raw = Side /\ outcome # Pending /\ test.comparison \in TwoSided
       /\ test.type # "TEXT" /\ OneValue(a, b) =>
     /\ outcome.status # "FAIL"
     /\ test.type # "BOOLEAN" /\ ~mixed =>
          \/ outcome.status = "PASS"
          \/ refused /\ Both(Refused)
          \/ outcome.status = "RAISED" /\ Both(Raised)
     /\ test.type \in NumericTypes /\ mixed => refused

As(comparison) == Compare([Request EXCEPT !.comparison = comparison]).status

\* The comparisons agree with each other on the values of a test, and with the
\* older runner's comparators (comparators.py:173-297) on the same scalars:
\* at most and at least a value is equal to it; what is zero is not non-zero, on
\* any side executed; equal is a difference within 0; from a source of 0 a
\* percentage test accepts what an absolute one accepts; and EQUAL,
\* EXPECTED_ZERO and an absolute tolerance pass in the one program exactly when
\* they pass in the other, for values both read as numbers.
ComparisonsCohere ==
  Judged /\ test.type \in NumericTypes =>
    /\ test.expected # Absent =>
         ((As("LESS_THAN_OR_EQUAL") = "PASS" /\ As("GREATER_THAN_OR_EQUAL") = "PASS")
            <=> As("EXPECTED_EQUAL") = "PASS")
    /\ ~(As("EXPECTED_ZERO") = "PASS" /\ As("NON_ZERO") = "PASS")
    /\ test.scope # "SOURCE_TARGET" => "PASS" \in {As("EXPECTED_ZERO"), As("NON_ZERO")}
    /\ OlderCompare("EXPECTED_ZERO", raw, 0, test.scope) = As("EXPECTED_ZERO")
    /\ test.scope = "SOURCE_TARGET" =>
         /\ OlderCompare("EQUAL", raw, 0, test.scope) = As("EQUAL")
         /\ OlderCompare("NUMERIC_TOLERANCE", raw, test.absTol, test.scope)
              = As("EQUAL_ABS_TOLERANCE")
         /\ test.absTol = 0 => As("EQUAL") = As("EQUAL_ABS_TOLERANCE")
         /\ normalized["source"].n = 0 =>
              As("EQUAL_PCT_TOLERANCE") = As("EQUAL_ABS_TOLERANCE")
=============================================================================
