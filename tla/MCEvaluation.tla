----------------------------- MODULE MCEvaluation -----------------------------
(***************************************************************************)
(* Instances of Evaluation for TLC.  With two significant digits standing  *)
(* for Decimal's 28, a number of three digits, a difference that needs     *)
(* three and most quotients are rounded.                                   *)
(***************************************************************************)
EXTENDS Evaluation

Scalar(form, reads, n, zone, text, folded) ==
  [form |-> form, reads |-> reads, n |-> n, zone |-> zone, text |-> text, folded |-> folded]
Number(form, n, text) == Scalar(form, "number", n, {}, text, text)
Word(text, folded) == Scalar("str", "word", 0, {}, text, folded)
Moment(form, n, zone, text) == Scalar(form, "moment", n, zone, text, text)

Nothings == {Scalar("null", "nothing", 0, {}, "", ""), Scalar("str", "nothing", 0, {}, "", "")}
Bools == {Scalar("bool", "number", 10, {}, "True", "true"),
          Scalar("bool", "number", 0, {}, "False", "false")}
Words == {Word("Yes", "yes"), Word("yes", "yes"), Word("n", "n"), Word("maybe", "maybe")}
Odd == {Scalar("float", "infinite", 1, {}, "inf", "inf"),
        Scalar("str", "infinite", 1, {}, "Infinity", "infinity"),
        Scalar("decimal", "infinite", 1, {}, "Infinity", "infinity"),
        Scalar("float", "nan", 0, {}, "nan", "nan"),
        Scalar("decimal", "nan", 0, {}, "NaN", "nan")}
\* The last three are, in UTC, before year 1, twice, and past year 9999.
Moments == {Moment("date", 24, {}, "0001-01-02"),
            Moment("datetime", 24, {}, "0001-01-02 00:00:00"),
            Moment("datetime", 26, {2}, "0001-01-02 02:00:00+02:00"),
            Moment("str", 26, {2}, "0001-01-02T02:00:00+02:00"),
            Moment("str", 25, {}, "0001-01-02T01:00:00"),
            Moment("datetime", 1, {2}, "0001-01-01 01:00:00+02:00"),
            Moment("str", 0, {1}, "0001-01-01T00:00:00+01:00"),
            Moment("datetime", 87649415, {-5}, "9999-12-31 23:00:00-05:00")}

\* 0, 1, 0.5 and 10.5 in every type that can hold them.
Forms ==
  {Number("int", 0, "0"), Number("decimal", 0, "0.00"), Number("float", 0, "0.0"),
   Number("str", 0, "0"), Number("int", 10, "1"), Number("decimal", 10, "1.0"),
   Number("float", 10, "1.0"), Number("str", 10, "1"), Number("decimal", 5, "0.5"),
   Number("float", 5, "0.5"), Number("str", 5, "0.5"), Number("decimal", 105, "10.5"),
   Number("float", 105, "10.5")}
Decimals == {Number("decimal", 30, "3"), Number("decimal", 40, "4"), Number("decimal", -10, "-1"),
             Number("decimal", 1, "0.1"), Number("decimal", 990, "99"), Number("int", 1050, "105")}

MCScalars == Nothings \cup Bools \cup Words \cup Odd \cup Moments \cup Forms \cup Decimals

Test(comparison, scope, type, expected, absTol, pctTol) ==
  [comparison |-> comparison, scope |-> scope, type |-> type, expected |-> expected,
   absTol |-> absTol, pctTol |-> pctTol]

Kind(type) == IF type = "INTEGER" THEN "int" ELSE "decimal"
One(type) == Normal(Kind(type), 10, "", "")

MCTests ==
  {Test("EQUAL", "SOURCE_TARGET", t, Absent, 0, 0) : t \in ResultTypes}
  \cup {Test("EQUAL_ABS_TOLERANCE", "SOURCE_TARGET", t, Absent, tol, 0) :
          t \in NumericTypes, tol \in {0, 10, 99, 105}}
  \cup {Test("EQUAL_PCT_TOLERANCE", "SOURCE_TARGET", t, Absent, tol, pct) :
          t \in NumericTypes, tol \in {0, 10}, pct \in {0, 250, 330, 340, 9500}}
  \cup {Test(c, s, t, One(t), 0, 0) :
          c \in {"EXPECTED_EQUAL", "LESS_THAN_OR_EQUAL", "GREATER_THAN_OR_EQUAL"},
          s \in Scopes, t \in NumericTypes}
  \cup {Test(c, s, "NUMBER", Absent, 0, 0) :
          c \in {"EXPECTED_ZERO", "NON_ZERO", "NO_COMPARISON"}, s \in Scopes}
  \cup {Test("BOOLEAN_TRUE", s, "BOOLEAN", Absent, 0, 0) : s \in Scopes}
  \cup {Test("TEXT_CASE_INSENSITIVE_EQUAL", s, "TEXT", Normal("text", 0, "YES", "yes"), 0, 0) :
          s \in Scopes}
=============================================================================
