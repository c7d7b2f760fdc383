------------------------------- MODULE Reading -------------------------------
(***************************************************************************)
(* How a workbook becomes a plan.  build_plan (execution/plan.py) reads    *)
(* the Run Control sheet, then the rows of Test Cases, then the            *)
(* Observation Rules; read_workbook (workbook/reader.py) is the older      *)
(* runner's reading of the same Test Cases.  Either stops at what is wrong *)
(* with the workbook and sets aside what is wrong with a row.              *)
(*                                                                         *)
(* A cell that holds a word is that word, trimmed and in one case; "" is a *)
(* blank cell and "?" any word the column does not know.  Cells that hold  *)
(* values are the scalars of Comparisons.  Whether a query is read-only is *)
(* decided elsewhere: its cell is "safe" or "unsafe".                      *)
(***************************************************************************)
EXTENDS Comparisons, Sequences, FiniteSets

CONSTANTS
  Books,    \* workbooks: [control, columns, rows, rules]
  Samples   \* scalars that queries may return

Side == {"source", "target"}
KnownSections == {"source", "target"}

RowType ==
  [blank : BOOLEAN, id : STRING, enabled : STRING, scope : STRING, comparison : STRING,
   type : STRING, absTol : ScalarType, pctTol : ScalarType, section : [Side -> STRING],
   sql : [Side -> STRING], expected : ScalarType]
RuleType == [status : STRING, platform : STRING, code : STRING, enabled : BOOLEAN, template : STRING]

ASSUME BooksAssumption ==
  \A b \in Books : /\ b.rows \in Seq(RowType) /\ b.rules \in Seq(RuleType)
                   /\ \A k \in DOMAIN b.rows : b.rows[k].blank => b.rows[k].id = ""
ASSUME SamplesAssumption == Samples \subseteq ScalarType

VARIABLES
  program,      \* "plan" or "older": which program reads
  book,         \* the workbook
  pc,           \* "control", "columns", "rows", "rules", then "done" or "refused"
  at,           \* rows, then rules, read so far
  seen,         \* test id -> the row that used it first
  definitions,  \* tests, the disabled ones included
  problems,     \* rows reported as they stand: [row, code]
  duplicates,   \* rows whose id was taken, which the older reader collects
  rules         \* observation rules

vars == <<program, book, pc, at, seen, definitions, problems, duplicates, rules>>

Init == /\ program \in {"plan", "older"} /\ book \in Books
        /\ pc = IF program = "plan" THEN "control" ELSE "columns"
        /\ at = 0 /\ seen = << >>
        /\ definitions = << >> /\ problems = << >> /\ duplicates = {} /\ rules = << >>

Refuse == pc' = "refused" /\ UNCHANGED <<at, definitions, problems, rules>>

-----------------------------------------------------------------------------
\* Run Control.

IntegerValid(v, least, most) ==
  \/ Blank(v)
  \/ /\ v.form # "bool" /\ v.reads = "number" /\ Whole(v.n)
     /\ least <= v.n \div 10 /\ v.n \div 10 <= most

SettingTrue == {"yes", "y", "true", "t", "1", "on", "enabled"}
SettingFalse == {"no", "n", "false", "f", "0", "off", "disabled"}
BooleanValid(v) == Blank(v) \/ v.form = "bool" \/ v.folded \in SettingTrue \cup SettingFalse

\* The first occurrence of a setting counts and an absent sheet is all defaults.
\* lengths: the two maximum lengths.  flags: the four settings of yes or no.
\* An infinite number ends the run too, by an exception of int() nobody expects.
ControlValid(c) ==
  /\ c.version \in {"", "1.0", "2.0", "2.1"}
  /\ IntegerValid(c.workers, 1, 64)
  /\ IntegerValid(c.timeout, 0, 3600)
  /\ \A length \in c.lengths : IntegerValid(length, 40, 4000)
  /\ \A flag \in c.flags : BooleanValid(flag)
  /\ c.output \in {"", "NEW_FILE", "IN_PLACE"}

ReadControl ==
  /\ pc = "control"
  /\ \/ /\ ControlValid(book.control)
        /\ pc' = "columns" /\ UNCHANGED <<at, definitions, problems, rules>>
     \/ ~ControlValid(book.control) /\ Refuse
  /\ UNCHANGED <<program, book, seen, duplicates>>

\* The sheet, its header row and the columns a program cannot do without.
FindColumns ==
  /\ pc = "columns"
  /\ \/ program \in book.columns /\ pc' = "rows" /\ UNCHANGED <<at, definitions, problems, rules>>
     \/ program \notin book.columns /\ Refuse
  /\ UNCHANGED <<program, book, seen, duplicates>>

-----------------------------------------------------------------------------
\* One row of Test Cases.

BlankRow(r) == r.blank

\* Whether one side's section and query suit the scope.  The code has a source and
\* a target version of each error code.
SectionChecks(r, s) ==
  LET used == s \in Uses(r.scope)
  IN << <<"MISSING_SECTION", used /\ r.section[s] \notin KnownSections>>,
        <<"UNEXPECTED_SECTION", ~used /\ r.section[s] # "">> >>

SqlChecks(r, s) ==
  LET used == s \in Uses(r.scope)
  IN << <<"MISSING_SQL", used /\ r.sql[s] = "">>,
        <<"UNSAFE_SQL", used /\ r.sql[s] = "unsafe">>,
        <<"UNEXPECTED_SQL", ~used /\ r.sql[s] # "">> >>

ToleranceValid(v) == Blank(v) \/ (v.form # "bool" /\ v.reads = "number" /\ v.n >= 0)

IdentityChecks(r, taken) ==
  << <<"MISSING_TEST_ID", r.id = "">>,
     <<"DUPLICATE_TEST_ID", r.id \in taken>>,
     <<"INVALID_ENABLED", r.enabled \notin {"yes", "no"}>> >>

DefinitionChecks(r) ==
  << <<"INVALID_SCOPE", r.scope \notin Scopes>>,
     <<"INVALID_COMPARISON_TYPE", r.comparison \notin ComparisonTypes>>,
     <<"INVALID_RESULT_TYPE", r.type \notin ResultTypes>>,
     <<"INVALID_RESULT_TYPE", r.type \notin SupportedTypes(r.comparison)>>,
     <<"INVALID_COMPARISON_TYPE", r.comparison \in TwoSided /\ r.scope # "SOURCE_TARGET">>,
     <<"INVALID_TOLERANCE", ~ToleranceValid(r.absTol) \/ ~ToleranceValid(r.pctTol)>> >>
  \o SectionChecks(r, "source") \o SectionChecks(r, "target")
  \o SqlChecks(r, "source") \o SqlChecks(r, "target")
  \o << <<"MISSING_EXPECTED_VALUE",
          RequiresExpected(r.comparison, r.scope) /\ Blank(r.expected)>>,
        <<"TYPE_CONVERSION_ERROR",
          ~Blank(r.expected) /\ Normalize(r.expected, r.type) = Refused>> >>

\* A disabled row is checked for its identity alone.
Checks(r, taken) ==
  IdentityChecks(r, taken) \o (IF r.enabled = "no" THEN << >> ELSE DefinitionChecks(r))

Failed(r, taken) == {k \in DOMAIN Checks(r, taken) : Checks(r, taken)[k][2]}
FirstCode(r, taken) ==
  Checks(r, taken)[CHOOSE k \in Failed(r, taken) : \A j \in Failed(r, taken) : k <= j][1]

Tolerance(v) == IF Blank(v) THEN 0 ELSE v.n
Known(word, words, default) == IF word \in words THEN word ELSE default

Definition(r, number) ==
  IF r.enabled = "no"
  THEN [row |-> number, id |-> r.id, enabled |-> FALSE,
        scope |-> Known(r.scope, Scopes, "SOURCE_TARGET"),
        comparison |-> Known(r.comparison, ComparisonTypes, "NO_COMPARISON"),
        type |-> Known(r.type, ResultTypes, "TEXT"), section |-> [s \in Side |-> ""],
        sql |-> [s \in Side |-> ""], expected |-> Absent, absTol |-> 0, pctTol |-> 0]
  ELSE [row |-> number, id |-> r.id, enabled |-> TRUE,
        scope |-> r.scope, comparison |-> r.comparison, type |-> r.type,
        section |-> r.section, sql |-> r.sql,
        expected |-> IF Blank(r.expected) THEN Absent ELSE Normalize(r.expected, r.type),
        absTol |-> Tolerance(r.absTol), pctTol |-> Tolerance(r.pctTol)]

\* Mutant of Register: only ids of rows that can be run are remembered.
RegisterIfValid(r, number) ==
  IF r.id \in DOMAIN seen \cup {""} \/ Failed(r, DOMAIN seen) # {} THEN seen
  ELSE [x \in DOMAIN seen \cup {r.id} |-> IF x = r.id THEN number ELSE seen[x]]

\* The row an id was first used on is remembered before anything else of it is
\* looked at.
Register(r, number) == IF r.id \in DOMAIN seen \cup {""} THEN seen
                       ELSE [x \in DOMAIN seen \cup {r.id} |-> IF x = r.id THEN number ELSE seen[x]]

\* An expectation whose conversion raises is the last thing looked at, and no refusal
\* of its row: the exception ends the run.
Raises(r, taken) ==
  /\ ~BlankRow(r) /\ r.enabled = "yes" /\ Failed(r, taken) = {}
  /\ ~Blank(r.expected) /\ Normalize(r.expected, r.type) = Raised

PlaceRow(r, number, taken) ==
  IF BlankRow(r) THEN UNCHANGED <<seen, definitions, problems>>
  ELSE /\ seen' = Register(r, number)
       /\ IF Failed(r, taken) # {}
          THEN /\ problems' = Append(problems, [row |-> number, code |-> FirstCode(r, taken)])
               /\ UNCHANGED definitions
          ELSE /\ definitions' = Append(definitions, Definition(r, number))
               /\ UNCHANGED problems

ReadRow ==
  /\ program = "plan" /\ pc = "rows" /\ at < Len(book.rows)
  /\ LET r == book.rows[at + 1]
     IN \/ Raises(r, DOMAIN seen) /\ Refuse /\ UNCHANGED seen
        \/ ~Raises(r, DOMAIN seen) /\ PlaceRow(r, at + 1, DOMAIN seen)
           /\ at' = at + 1 /\ UNCHANGED <<pc, rules>>
  /\ UNCHANGED <<program, book, duplicates>>

EndRows ==
  /\ program = "plan" /\ pc = "rows" /\ at = Len(book.rows)
  /\ pc' = "rules" /\ at' = 0
  /\ UNCHANGED <<program, book, seen, definitions, problems, duplicates, rules>>

-----------------------------------------------------------------------------
\* The same row, read by the older program with the schema of
\* config/workbook_schema.default.toml: a blank Enabled is Yes, a blank scope
\* SOURCE_TARGET, a blank comparison equal; the queries of the sides in scope are
\* required, the connections are not.

OlderScope(r) == Known(r.scope, Scopes, "SOURCE_TARGET")
OlderRules == {"EQUAL", "EXPECTED_ZERO", "NUMERIC_TOLERANCE", "NO_COMPARISON"}

OlderRefuses(r) ==
  LET used == Uses(OlderScope(r))
  IN \/ r.scope \notin Scopes \cup {""}
     \/ r.enabled \notin {"yes", "no", ""}
     \/ \E s \in Side \ used : r.section[s] # "" \/ r.sql[s] # ""
     \/ \E s \in used : r.sql[s] = ""
     \/ r.comparison \notin OlderRules \cup {""}
     \/ ~Blank(r.absTol) /\ (r.absTol.form = "bool" \/ r.absTol.reads # "number")

OlderCase(r, number) ==
  IF r.enabled = "no" THEN [row |-> number, id |-> r.id, enabled |-> FALSE]
  ELSE [row |-> number, id |-> r.id, enabled |-> TRUE, scope |-> OlderScope(r), sql |-> r.sql,
        rule |-> IF r.comparison = "" THEN "EQUAL" ELSE r.comparison,
        tolerance |-> Tolerance(r.absTol)]

OlderReadRow ==
  /\ program = "older" /\ pc = "rows" /\ at < Len(book.rows)
  /\ LET r == book.rows[at + 1]
         problem == [row |-> at + 1, code |-> "INVALID"]
     IN CASE BlankRow(r) -> UNCHANGED <<seen, definitions, problems, duplicates>>
          [] ~BlankRow(r) /\ r.id = "" ->
               problems' = Append(problems, problem) /\ UNCHANGED <<seen, definitions, duplicates>>
          [] r.id \in DOMAIN seen ->
               duplicates' = duplicates \cup {at + 1} /\ UNCHANGED <<seen, definitions, problems>>
          [] OTHER ->
               /\ seen' = Register(r, at + 1)
               /\ IF OlderRefuses(r)
                  THEN problems' = Append(problems, problem) /\ UNCHANGED definitions
                  ELSE definitions' = Append(definitions, OlderCase(r, at + 1)) /\ UNCHANGED problems
               /\ UNCHANGED duplicates
  /\ at' = at + 1
  /\ UNCHANGED <<program, book, pc, rules>>

OlderEndRows ==
  /\ program = "older" /\ pc = "rows" /\ at = Len(book.rows)
  /\ pc' = IF duplicates = {} THEN "done" ELSE "refused"
  /\ UNCHANGED <<program, book, at, seen, definitions, problems, duplicates, rules>>

-----------------------------------------------------------------------------
\* Observation rules.  "" in a key column is ANY; a row with neither status nor
\* template is no rule; only a word for No disables one.

Platforms == {"SOURCE", "TARGET", "COMPARISON", "WORKBOOK", "PROFILE", "EXECUTOR"}
Statuses == {"PASS", "FAIL", "ERROR"}

RuleRefused(u) ==
  \/ u.status \notin Statuses
  \/ u.template \in {"", "?"}   \* blank, or with a placeholder nobody knows
  \/ u.platform \notin Platforms \cup {""}

Key(u) == <<u.status, u.platform, u.code>>

ReadRule ==
  /\ pc = "rules" /\ at < Len(book.rules)
  /\ LET u == book.rules[at + 1]
     IN \/ u.status = "" /\ u.template = "" /\ at' = at + 1
           /\ UNCHANGED <<pc, definitions, problems, rules>>
        \/ ~(u.status = "" /\ u.template = "") /\ RuleRefused(u) /\ Refuse
        \/ ~RuleRefused(u) /\ rules' = Append(rules, u) /\ at' = at + 1
           /\ UNCHANGED <<pc, definitions, problems>>
  /\ UNCHANGED <<program, book, seen, duplicates>>

\* Mutant of Contradicting: a rule is compared with the one above it only.
NeighboursContradict ==
  \E k \in 2..Len(rules) :
    rules[k - 1].enabled /\ rules[k].enabled /\ Key(rules[k - 1]) = Key(rules[k])

Contradicting ==
  \E j, k \in DOMAIN rules :
    j # k /\ rules[j].enabled /\ rules[k].enabled /\ Key(rules[j]) = Key(rules[k])

EndRules ==
  /\ pc = "rules" /\ at = Len(book.rules)
  /\ \/ Contradicting /\ Refuse
     \/ ~Contradicting /\ pc' = "done" /\ UNCHANGED <<at, definitions, problems, rules>>
  /\ UNCHANGED <<program, book, seen, duplicates>>

Next == ReadControl \/ FindColumns \/ ReadRow \/ EndRows \/ OlderReadRow \/ OlderEndRows \/ ReadRule \/ EndRules

Spec == Init /\ [][Next]_vars

-----------------------------------------------------------------------------
\* How a rule is found for an outcome: by its key, most specific first, among the
\* enabled rules, the last of a key in the order they are listed.

Indexed(listed, key) == {k \in DOMAIN listed : listed[k].enabled /\ Key(listed[k]) = key}

Candidates(o) == << <<o.status, o.platform, o.code>>, <<o.status, o.platform, "">>,
                    <<o.status, "", o.code>>, <<o.status, "", "">> >>

\* The rule selected from a list, as a set: empty means the built-in wording.
Select(listed, o) ==
  LET hits == {c \in 1..4 : Indexed(listed, Candidates(o)[c]) # {}}
      key == Candidates(o)[CHOOSE c \in hits : \A d \in hits : c <= d]
      last == CHOOSE k \in Indexed(listed, key) : \A j \in Indexed(listed, key) : j <= k
  IN IF hits = {} THEN {} ELSE {listed[last]}

-----------------------------------------------------------------------------
\* Properties.

RowsOf(list) == {list[k].row : k \in DOMAIN list}

\* Every row that is not blank is in exactly one place, a test or a problem, and an
\* id names one test: the first row to use it, even if a row above was disabled or
\* refused for something else (testcases.py:265-276, reader.py:168-188).  The older
\* reader hands over no sheet at all in which an id is used twice.
EveryRowHasOnePlace ==
  LET read == IF pc = "rows" THEN 1..at ELSE 1..Len(book.rows)
      filled == {k \in read : ~BlankRow(book.rows[k])}
  IN pc \in {"rows", "rules", "done"} =>
       /\ RowsOf(definitions) \cup RowsOf(problems) \cup duplicates = filled
       /\ Cardinality(filled) = Len(definitions) + Len(problems) + Cardinality(duplicates)
       /\ \A k \in DOMAIN definitions : \A j \in 1..(definitions[k].row - 1) :
            book.rows[j].id # definitions[k].id
       /\ program = "older" /\ pc = "done" =>
            \A j, k \in filled : j # k /\ book.rows[j].id = book.rows[k].id
                                  => book.rows[j].id = ""

Answered(d, raw, s) == IF s \in Uses(d.scope) THEN Normalize(raw[s], d.type) ELSE Absent
RequestOf(d, raw) ==
  [comparison |-> d.comparison, scope |-> d.scope,
   source |-> Answered(d, raw, "source"), target |-> Answered(d, raw, "target"),
   expected |-> d.expected, absTol |-> d.absTol, pctTol |-> d.pctTol]

\* Whatever its queries return, a test the reader lets through never fails inside
\* its comparison (comparisons.py:198-202): once its values are of the declared
\* type there is a verdict.  The reader's checks (testcases.py:319-390) are what
\* the comparisons rely on; nothing else looks again.
ExecutableIsComparable ==
  program = "plan" =>
    \A k \in DOMAIN definitions : definitions[k].enabled =>
      LET d == definitions[k]
      IN /\ WellFormed(d)
         /\ \A raw \in [Uses(d.scope) -> Samples] :
              LET r == RequestOf(d, raw)
              IN {Refused, Raised} \cap {r.source, r.target} = {} => Compare(r).status # "ERROR"

\* The outcomes of the engine: no platform when there is no error, no code when
\* there is nothing to name.
Outcomes == [status: Statuses, platform: Platforms \cup {"NONE"}, code: {"", "VALUE_MISMATCH"}]
Matches(u, o) == /\ u.enabled /\ u.status = o.status
                 /\ u.platform \in {"", o.platform} /\ u.code \in {"", o.code}
Weight(u) == (IF u.platform = "" THEN 0 ELSE 2) + (IF u.code = "" THEN 0 ELSE 1)
Upwards(list) == [k \in DOMAIN list |-> list[Len(list) + 1 - k]]

\* The rules of a plan that was accepted word every outcome the same in whatever
\* order the sheet lists them: by the enabled rule that matches most specifically,
\* the platform before the code, and by the built-in words only when no enabled
\* rule matches (observations.py:129-157, 257-274).
RulesAreUnambiguous ==
  program = "plan" /\ pc = "done" =>
    \A o \in Outcomes :
      LET best == {k \in DOMAIN rules : Matches(rules[k], o) /\
                     \A j \in DOMAIN rules : Matches(rules[j], o) => Weight(rules[j]) <= Weight(rules[k])}
      IN /\ Select(rules, o) = {rules[k] : k \in best}
         /\ Select(Upwards(rules), o) = Select(rules, o)
=============================================================================
