------------------------------ MODULE MCStartup ------------------------------
(***************************************************************************)
(* Instances of Startup for TLC.  Sheets of one row that differs from a    *)
(* sound one in up to two cells, of three rows that share ids, of three    *)
(* observation rules, each with a profile that leaves nothing open; and    *)
(* one- and two-sided sheets with every profile that leaves something open *)
(* about either side.                                                      *)
(***************************************************************************)
EXTENDS Startup

Scalar(form, reads, n, zone, text, folded) ==
  [form |-> form, reads |-> reads, n |-> n, zone |-> zone, text |-> text, folded |-> folded]
Nothing == Scalar("null", "nothing", 0, {}, "", "")
Count(n, text) == Scalar("int", "number", n, {}, text, text)
Tenth(n, text) == Scalar("float", "number", n, {}, text, text)
Word(text) == Scalar("str", "word", 0, {}, text, text)
Yes == Word("yes")
True == Scalar("bool", "number", 10, {}, "True", "true")
Infinite == Scalar("str", "infinite", 1, {}, "infinity", "infinity")
Day == Scalar("datetime", "moment", 24, {}, "0001-01-02 00:00:00", "0001-01-02 00:00:00")
\* In UTC, before year 1.
Early == Scalar("str", "moment", 1, {2}, "0001-01-01T01:00:00+02:00", "0001-01-01t01:00:00+02:00")

MCSamples == {Nothing, Count(0, "0"), Count(10, "1"), Tenth(5, "0.5"), Yes, True, Infinite, Day, Early}

Row == [blank |-> FALSE, id |-> "A", enabled |-> "yes", scope |-> "SOURCE_TARGET",
        comparison |-> "EQUAL", type |-> "NUMBER", absTol |-> Nothing, pctTol |-> Nothing,
        section |-> [s \in Side |-> s], sql |-> [s \in Side |-> "safe"], expected |-> Nothing]
Only(side, word) == [s \in Side |-> IF s = side THEN word ELSE ""]

\* Changes of one cell, or of the cells of one kind.
Cells ==
  [enabled: {"no", "", "?"}] \cup [scope: {"SOURCE_ONLY", "TARGET_ONLY", "", "?"}]
  \cup [comparison: (ComparisonTypes \cup {"", "?", "NUMERIC_TOLERANCE"}) \ {"EQUAL"}]
  \cup [type: {"INTEGER", "TEXT", "BOOLEAN", "DATETIME", "?"}]
  \cup [absTol: {Count(10, "1"), Count(-10, "-1"), True, Infinite, Yes}]
  \cup [pctTol: {Tenth(5, "0.5"), Infinite}]
  \cup [section: {Only("source", "source"), Only("target", "target"), Only("source", "?"),
                  [s \in Side |-> "target"]}]
  \cup [sql: {Only("source", "safe"), Only("target", "safe"), [s \in Side |-> "unsafe"]}]
  \cup [expected: {Count(0, "0"), Count(10, "1"), Tenth(5, "0.5"), Yes, True, Day, Early}]

With(row, change) == [f \in DOMAIN row |-> IF f \in DOMAIN change THEN change[f] ELSE row[f]]

OneSide == [Row EXCEPT !.scope = "SOURCE_ONLY", !.comparison = "LESS_THAN_OR_EQUAL",
                       !.section = Only("source", "source"), !.sql = Only("source", "safe"),
                       !.expected = Count(10, "1")]
Text == [OneSide EXCEPT !.comparison = "TEXT_CASE_INSENSITIVE_EQUAL", !.type = "TEXT",
                        !.expected = Yes]

Single == {With(With(base, c), d) : base \in {Row, OneSide, Text}, c, d \in Cells}

Empty == [Row EXCEPT !.blank = TRUE, !.id = ""]
Kinds == {Empty, Row, OneSide, [Row EXCEPT !.enabled = "no"], [Row EXCEPT !.scope = "?"],
          [Row EXCEPT !.enabled = "?"], [Row EXCEPT !.id = ""], [Row EXCEPT !.id = "B"],
          [Row EXCEPT !.id = "B", !.enabled = "no"]}

Settings == [version |-> "2.1", workers |-> Nothing, timeout |-> Nothing,
             lengths |-> {Nothing}, flags |-> {Nothing}, output |-> ""]
Controls == {Settings} \cup {[Settings EXCEPT !.version = v] : v \in {"", "3.0"}}
  \cup {[Settings EXCEPT !.workers = v] : v \in {Count(0, "0"), Count(80, "8"), True, Tenth(15, "1.5")}}
  \cup {[Settings EXCEPT !.timeout = v] : v \in {Count(0, "0"), Infinite, Yes}}
  \cup {[Settings EXCEPT !.lengths = {Nothing, v}] : v \in {Count(400, "40"), Count(390, "39")}}
  \cup {[Settings EXCEPT !.flags = {Nothing, v}] : v \in {Yes, True, Word("maybe"), Count(10, "1")}}
  \cup {[Settings EXCEPT !.output = v] : v \in {"IN_PLACE", "?"}}

Rule(status, platform, code, enabled) ==
  [status |-> status, platform |-> platform, code |-> code, enabled |-> enabled,
   template |-> "said"]
Rules ==
  {Rule("FAIL", p, c, TRUE) : p \in {"", "COMPARISON"}, c \in {"", "VALUE_MISMATCH"}}
  \cup {Rule("FAIL", p, "VALUE_MISMATCH", FALSE) : p \in {"", "COMPARISON"}}
  \cup {Rule("ERROR", "SOURCE", "", TRUE), Rule("FAIL", "NONE", "", TRUE),
        [Rule("FAIL", "", "", TRUE) EXCEPT !.template = "said otherwise"],
        Rule("?", "", "", TRUE), [Rule("FAIL", "", "", TRUE) EXCEPT !.template = ""],
        [Rule("", "", "", TRUE) EXCEPT !.template = ""]}

Book(rows, ruleRows) == [control |-> Settings, columns |-> {"plan", "older"},
                         rows |-> rows, rules |-> ruleRows]

Sheets == {Book(rows, << >>) : rows \in {<<Row>>, <<OneSide>>, << [OneSide EXCEPT !.enabled = "no"] >>,
             <<Row, [Row EXCEPT !.scope = "?"]>>, <<[Row EXCEPT !.section = Only("source", "?")]>>,
             <<[OneSide EXCEPT !.enabled = "no"], [Row EXCEPT !.id = "B", !.scope = "TARGET_ONLY",
                 !.comparison = "LESS_THAN_OR_EQUAL", !.section = Only("target", "target"),
                 !.sql = Only("target", "safe"), !.expected = Count(10, "1")]>>}}

MCBooks ==
  {Book(<<r>>, << >>) : r \in Single}
  \cup {Book(rows, << >>) : rows \in [1..3 -> Kinds]}
  \cup {Book(<<Row>>, u) : u \in [1..3 -> Rules]}
  \cup {[Book(<<Row>>, << >>) EXCEPT !.control = c] : c \in Controls}
  \cup {[Book(<<Row>>, << >>) EXCEPT !.columns = c] : c \in {{}, {"plan"}}}
  \cup Sheets

Complete == [type |-> "sqlserver", given |-> {"server", "port", "database"}, trust |-> "yes",
             auth |-> "windows", user |-> FALSE, client |-> "", dir |-> FALSE]
Tables ==
  [type: {"", "sqlserver", "oracle"}, given: {Complete.given, {"port"}}, trust: {"", "yes"},
   auth: {"", "windows", "password"}, user: BOOLEAN, client: {""}, dir: {FALSE}]
  \cup {[Complete EXCEPT !.type = t, !.auth = "", !.client = c, !.dir = d] :
          t \in {"", "sqlserver", "oracle"}, c \in {"", "thin", "thick"}, d \in BOOLEAN}
Profile == [flawed |-> FALSE, workbook |-> "there", sheet |-> "there", named |-> "",
            source |-> Complete, target |-> Complete]
Vague == [Complete EXCEPT !.type = "", !.auth = "windows", !.given = {}]
Silent == [Vague EXCEPT !.trust = "", !.auth = ""]
MCDocuments ==
  {[Profile EXCEPT !.source = t] : t \in Tables} \cup {[Profile EXCEPT !.target = t] : t \in Tables}
  \cup {[Profile EXCEPT !.workbook = w, !.sheet = u, !.source = t, !.target = t] :
          w, u \in {"", "there", "gone"}, t \in {Vague, Silent}}
  \cup {[Profile EXCEPT !.workbook = "", !.source.auth = "password", !.source.user = TRUE]}
  \cup {[Profile EXCEPT !.flawed = TRUE]} \cup {[Profile EXCEPT !.named = n] : n \in {"ledger", "source"}}

Plain == [workbook |-> "", sheet |-> "", unattended |-> FALSE, dry |-> FALSE]
MCCommandLines ==
  {Plain, [Plain EXCEPT !.unattended = TRUE], [Plain EXCEPT !.dry = TRUE]}
  \cup {[Plain EXCEPT !.workbook = w] : w \in {"there", "gone"}}
  \cup {[Plain EXCEPT !.sheet = u] : u \in {"there", "gone"}}

\* The rows of a book are those of the sheet `reconcile run` is to read, which is
\* refused if it is not there whatever its rows are.
Start(d, f) == [document |-> d, flags |-> f]
MCStarts(p, b) ==
  CASE b = Book(<<Row>>, << >>) /\ p = "plan" ->
         {Start(d, f) : d \in {x \in MCDocuments : x.sheet # "gone"},
            f \in {g \in MCCommandLines : g.sheet = ""}}
    [] b = Book(<<Row>>, << >>) /\ p = "older" ->
         {Start(d, f) : d \in MCDocuments,
            f \in {g \in MCCommandLines : ~g.unattended /\ ~g.dry /\ g.workbook = ""}}
    [] b \in Sheets -> {Start(d, Plain) : d \in {Profile, [Profile EXCEPT !.source = Vague]}}
    [] OTHER -> {Start(Profile, Plain)}
=============================================================================
