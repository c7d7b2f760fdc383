---------------------------- MODULE RunnerProofs ----------------------------
(***************************************************************************)
(* What holds of every run of the older runner, for every sheet and every  *)
(* set of options: it leaves no session behind, sends no SQL past its      *)
(* gates, reports every row once, keeps its result file up with the run,   *)
(* stops where --fail-fast says, and exits with 0 only from a run that     *)
(* executed what was selected.                                             *)
(***************************************************************************)
EXTENDS Runner, TLAPS, WellFoundedInduction, FiniteSetTheorems, SequenceTheorems

\* However many rows a pass has still to take, there is a first one.
LEMMA FirstOf ==
  ASSUME NEW rows \in SUBSET Nat, rows # {}
  PROVE  Min(rows) \in rows /\ \A y \in rows : Min(rows) =< y
<1> DEFINE less == {pair \in Nat \X Nat : pair[1] < pair[2]}
<1>1. IsWellFoundedOn(less, Nat)
  <2>1. OpToRel(<, Nat) = less
    BY Zenon DEF OpToRel
  <2> QED
    BY <2>1, NatLessThanWellFounded, Zenon
<1> HIDE DEF less
<1>2. PICK x \in rows : \A y \in rows : <<y, x>> \notin less
  BY <1>1, WFMin
<1>3. \A x1, y1 \in Nat : x1 < y1 => <<x1, y1>> \in less
  BY DEF less
<1>4. \A y \in rows : x \in Nat /\ y \in Nat /\ ~(y < x)
  BY <1>2, <1>3
<1>5. \A y \in rows : x =< y
  BY <1>4
<1>6. \A y \in rows : Min(rows) =< y
  BY <1>5, Zenon DEF Min
<1>7. Min(rows) \in rows
  BY <1>5 DEF Min
<1> QED
  BY <1>6, <1>7

----------------------------------------------------------------------------
\* The sessions are closed before the report of a run that compiled first, and
\* after that of one that did not.
CloseInv ==
  /\ pc \in {"report", "reported", "aborted"} => open = {}
  /\ pc = "finish" /\ CompilesFirst => open = {}

LEMMA CloseStep == CloseInv /\ [Next]_vars => CloseInv'
<1> SUFFICES ASSUME CloseInv, [Next]_vars PROVE CloseInv'
  OBVIOUS
<1>1. CASE UNCHANGED vars
  BY <1>1 DEF vars, given, CloseInv, CompilesFirst
<1>2. CASE Save
  <2>1. opts' = opts /\ open' = open /\ (pc' = pc \/ pc' = "unwind")
    BY <1>2 DEF Save, OpenFile, FileWritten, SaveFails, Unwind, given
  <2> QED
    BY <2>1 DEF CloseInv, CompilesFirst
<1>3. CASE Start \/ Compile \/ Interrupt
  <2>1. pc' \notin {"report", "reported", "aborted", "finish"}
    BY <1>3 DEF Start, Compile, Interrupt, Unwind, Connect, ConnectFails, Preflight,
       ReadAndSelect, CreateFile, CreateRefused, RecordUndecided, CheckDialects, CompileFails,
       CompileSide, EndCompile, StopAtGate, StopAfterValidation, PassGate
  <2> QED
    BY <2>1 DEF CloseInv
<1>4. CASE Execute
  <2>1. /\ opts' = opts
        /\ \/ pc' \in {"execute", "halt", "unwind", "close"}
           \/ (pc' = "finish" /\ ~CompilesFirst)
    BY <1>4 DEF Execute, RefuseRow, FirstSideAnswers, LastSideAnswers, QueryFails,
       ResultEscapes, Halt, EndExecution, Sends, EndRow, Unwind, AfterLastRow, given
  <2> QED
    BY <2>1 DEF CloseInv, CompilesFirst
<1>5. CASE End
  <2>1. opts' = opts
    BY <1>5 DEF End, Finish, EndClose, Report, CloseSession, given
  <2>2. CompilesFirst' = CompilesFirst
    BY <2>1 DEF CompilesFirst
  <2>3. \/ pc = "finish" /\ open' = open /\ pc' = IF CompilesFirst THEN "report" ELSE "close"
        \/ open = {} /\ open' = {}
        \/ pc = "report" /\ open' = open
        \/ pc \in {"close", "unwind"} /\ pc' = pc
    BY <1>5 DEF End, Finish, EndClose, Report, CloseSession, AllClosed
  <2> QED
    BY <2>2, <2>3 DEF CloseInv
<1> QED
  BY <1>1, <1>2, <1>3, <1>4, <1>5 DEF Next, Step, Over

\* The finally clauses of the runner and of run_reconciliation.py: no run that is over
\* has left a session open, however it ended.
THEOREM RunnerSessionsClosed == Spec => []SessionsClosed
<1>1. Init => CloseInv
  BY DEF Init, CloseInv
<1>2. CloseInv => SessionsClosed
  BY DEF CloseInv, SessionsClosed
<1> QED
  BY <1>1, <1>2, CloseStep, PTL DEF Spec

----------------------------------------------------------------------------
\* The gates.

\* Rows are numbered, and the ones to run are rows of the sheet.
SheetInv == book \in Seq(RowType) /\ selected \subseteq DOMAIN book

\* Once the dialects were checked, no pass holds a misfit.
TakenInv ==
  pc \in {"compile", "gate", "execute", "halt"} =>
    /\ todo \cup passed \subseteq selected
    /\ \A i \in selected : ~book[i].misfit

OfflineInv == \A q \in asked \cup queried : ~book[q[1]].misfit /\ q[2] \notin book[q[1]].unsafe

\* What the compile pass has come through failed or was asked, side by side.
CheckedInv ==
  /\ pc \in {"compile", "gate"} =>
       \A i \in selected : \/ i \in todo \cup failures
                           \/ {i} \X book[i].sides \subseteq asked
  /\ pc = "compile" /\ todo # {} => {Row} \X (book[Row].sides \ left) \subseteq asked
  /\ pc = "gate" => todo = {}

Before == {"connect", "preflight", "read", "create", "undecided", "dialects", "compile", "gate"}

UnexecutedInv ==
  /\ pc \in Before => queried = {}
  /\ pc \in Before \ {"compile", "gate"} => passed = {}

Cleared ==
  /\ ~opts.validate
  /\ opts.stop => failures = {} /\ \A i \in selected : {i} \X book[i].sides \subseteq asked

ClearedInv == queried # {} \/ pc = "execute" => Cleared

GateInv == SheetInv /\ TakenInv /\ OfflineInv /\ CheckedInv /\ UnexecutedInv /\ ClearedInv

LEMMA GateInit == Init => GateInv
  BY RunnerAssumption DEF Init, GateInv, SheetInv, TakenInv, OfflineInv, CheckedInv,
     UnexecutedInv, ClearedInv

LEMMA RowOfSheet ==
  ASSUME GateInv, pc \in {"compile", "execute"}, todo # {}
  PROVE  Row \in todo /\ Row \in selected /\ ~book[Row].misfit
<1>1. selected \subseteq Nat
  <2>1. PICK n \in Nat : DOMAIN book = 1..n
    BY DEF GateInv, SheetInv
  <2> QED
    BY <2>1 DEF GateInv, SheetInv
<1>2. todo \in SUBSET Nat
  BY <1>1 DEF GateInv, TakenInv
<1>3. Row \in todo
  BY <1>2, FirstOf DEF Row
<1> QED
  BY <1>3 DEF GateInv, TakenInv

\* Most steps take no row and send nothing.
LEMMA NothingTaken ==
  ASSUME GateInv, UNCHANGED <<book, opts, progress, sent>>,
         \/ pc' = pc
         \/ /\ pc' \notin {"compile", "gate", "execute", "halt"}
            /\ pc' \in Before => pc \in Before \ {"compile", "gate"}
  PROVE  GateInv'
<1>1. UNCHANGED Row /\ UNCHANGED Cleared
  BY DEF Row, Cleared, progress, sent
<1>2. SheetInv' /\ TakenInv' /\ OfflineInv'
  BY DEF GateInv, SheetInv, TakenInv, OfflineInv, progress, sent
<1>3. CheckedInv' /\ UnexecutedInv' /\ ClearedInv'
  BY <1>1 DEF GateInv, CheckedInv, UnexecutedInv, ClearedInv, Before, progress, sent
<1> QED
  BY <1>2, <1>3 DEF GateInv

LEMMA GateStart == ASSUME GateInv, Start PROVE GateInv'
<1>1. CASE ReadAndSelect
  <2>1. /\ UNCHANGED <<book, opts, todo, left, passed, failures, asked, queried>>
        /\ pc = "read" /\ pc' \in {"unwind", "create"}
        /\ selected' = selected \/ selected' = WithinLimit
    BY <1>1 DEF ReadAndSelect, Unwind, given, disk, sent
  <2>2. WithinLimit \subseteq DOMAIN book
    BY DEF WithinLimit, InRange, Chosen, Enabled
  <2>3. queried = {}
    BY <2>1 DEF GateInv, UnexecutedInv, Before
  <2> QED
    BY <2>1, <2>2, <2>3 DEF GateInv, SheetInv, TakenInv, OfflineInv, CheckedInv,
       UnexecutedInv, ClearedInv, Before
<1>2. CASE CheckDialects
  <2>1. /\ UNCHANGED <<book, opts, passed, asked, queried>>
        /\ pc = "dialects" /\ failures' = Misfits /\ selected' = selected \ Misfits
        /\ todo' = selected' /\ pc' = IF CompilesFirst THEN "compile" ELSE "execute"
    BY <1>2 DEF CheckDialects, Load, given, sent
  <2>2. queried = {}
    BY <2>1 DEF GateInv, UnexecutedInv, Before
  <2>3. passed' = {}
    BY <2>1 DEF GateInv, UnexecutedInv, Before
  <2>4. /\ \A i \in selected' : ~book[i].misfit
        /\ selected' \subseteq DOMAIN book
    BY <2>1 DEF GateInv, SheetInv, Misfits
  <2>5. todo' # {} => left' = book[Row'].sides
    BY <1>2, <2>1 DEF CheckDialects, Load, Row
  <2>6. SheetInv' /\ TakenInv' /\ OfflineInv'
    BY <2>1, <2>3, <2>4 DEF GateInv, SheetInv, TakenInv, OfflineInv
  <2>7. CheckedInv'
    BY <2>1, <2>5 DEF CheckedInv
  <2>8. UnexecutedInv'
    BY <2>1, <2>2 DEF UnexecutedInv, Before
  <2>9. CASE CompilesFirst
    BY <2>1, <2>2, <2>6, <2>7, <2>8, <2>9 DEF GateInv, ClearedInv
  <2>10. CASE ~CompilesFirst
    <3>1. Cleared'
      BY <2>1, <2>10 DEF Cleared, CompilesFirst
    <3> QED
      BY <3>1, <2>6, <2>7, <2>8 DEF GateInv, ClearedInv
  <2> QED
    BY <2>9, <2>10
<1>3. ASSUME Start, ~ReadAndSelect, ~CheckDialects
      PROVE  /\ UNCHANGED <<book, opts, progress, sent>>
             /\ pc' \notin {"compile", "gate", "execute", "halt"}
             /\ pc \in Before \ {"compile", "gate"}
  BY <1>3 DEF Start, ConnectFails, Preflight, CreateFile, CreateRefused, RecordUndecided,
     Connect, Unwind, given, Before
<1> QED
  BY <1>1, <1>2, <1>3, NothingTaken

LEMMA GateCompile == ASSUME GateInv, Compile PROVE GateInv'
<1> DEFINE Asked(i) == {i} \X book[i].sides \subseteq asked
<1>1. CASE CompileFails
  <2>1. /\ UNCHANGED <<book, opts, pc, selected, passed, queried>>
        /\ pc = "compile" /\ todo # {}
        /\ failures' = failures \cup {Row} /\ todo' = todo \ {Row}
        /\ asked \subseteq asked'
        /\ \A q \in asked' \ asked : q = <<Row, NextSide>> /\ NextSide \notin book[Row].unsafe
        /\ todo' # {} => left' = book[Row'].sides
    BY <1>1 DEF CompileFails, Load, Row, given
  <2>2. Row \in todo /\ Row \in selected /\ ~book[Row].misfit
    BY <2>1, RowOfSheet
  <2>3. queried = {}
    BY <2>1 DEF GateInv, UnexecutedInv, Before
  <2>4. SheetInv' /\ TakenInv' /\ UnexecutedInv' /\ ClearedInv'
    BY <2>1, <2>3 DEF GateInv, SheetInv, TakenInv, UnexecutedInv, ClearedInv, Before
  <2>5. OfflineInv'
    BY <2>1, <2>2 DEF GateInv, OfflineInv
  <2>6. CheckedInv'
    BY <2>1, <2>2 DEF GateInv, CheckedInv
  <2> QED
    BY <2>4, <2>5, <2>6 DEF GateInv
<1>2. ASSUME NEW answer \in {"compiled", "unavailable"}, CompileSide(answer)
      PROVE  GateInv'
  <2>1. /\ UNCHANGED <<book, opts, pc, selected, failures, queried>>
        /\ pc = "compile" /\ todo # {} /\ NextSide \notin book[Row].unsafe
        /\ asked' = asked \cup {<<Row, NextSide>>}
        /\ \/ /\ left # {NextSide} /\ left' = left \ {NextSide}
              /\ todo' = todo /\ passed' = passed
           \/ /\ left = {NextSide} /\ passed' = passed \cup {Row} /\ todo' = todo \ {Row}
              /\ todo' # {} => left' = book[Row'].sides
    BY <1>2 DEF CompileSide, SideChecked, Load, Row, given
  <2>2. Row \in todo /\ Row \in selected /\ ~book[Row].misfit
    BY <2>1, RowOfSheet
  <2>3. queried = {}
    BY <2>1 DEF GateInv, UnexecutedInv, Before
  <2>4. SheetInv' /\ TakenInv' /\ UnexecutedInv' /\ ClearedInv'
    BY <2>1, <2>2, <2>3 DEF GateInv, SheetInv, TakenInv, UnexecutedInv, ClearedInv, Before
  <2>5. OfflineInv'
    BY <2>1, <2>2 DEF GateInv, OfflineInv
  <2>6. {Row} \X (book[Row].sides \ left) \subseteq asked
    BY <2>1 DEF GateInv, CheckedInv
  <2>7. CASE todo' = todo
    <3>1. Row' = Row
      BY <2>7 DEF Row
    <3>2. {Row} \X (book[Row].sides \ left') \subseteq asked'
      BY <2>1, <2>2, <2>6, <2>7
    <3> QED
      BY <2>1, <2>7, <3>1, <3>2, <2>4, <2>5 DEF GateInv, CheckedInv
  <2>8. CASE todo' = todo \ {Row}
    <3>1. {Row} \X book[Row].sides \subseteq asked'
      BY <2>1, <2>2, <2>6, <2>8
    <3> QED
      BY <2>1, <2>2, <2>8, <3>1, <2>4, <2>5 DEF GateInv, CheckedInv
  <2> QED
    BY <2>1, <2>7, <2>8
<1>3. CASE EndCompile
  <2>1. /\ UNCHANGED <<book, opts, progress, sent>>
        /\ pc = "compile" /\ todo = {} /\ pc' = "gate"
    BY <1>3 DEF EndCompile, given
  <2> QED
    BY <2>1 DEF GateInv, SheetInv, TakenInv, OfflineInv, CheckedInv, UnexecutedInv,
       ClearedInv, Cleared, Before, progress, sent
<1>4. CASE PassGate
  <2>1. /\ UNCHANGED <<book, opts, selected, passed, failures, asked, queried>>
        /\ pc = "gate" /\ pc' = "execute" /\ todo' = passed
        /\ ~(failures # {} /\ opts.stop) /\ ~opts.validate
    BY <1>4 DEF PassGate, GateClosed, Load, given, sent
  <2>2. SheetInv' /\ TakenInv' /\ OfflineInv' /\ CheckedInv' /\ UnexecutedInv'
    BY <2>1 DEF GateInv, SheetInv, TakenInv, OfflineInv, CheckedInv, UnexecutedInv, Before
  <2>3. Cleared'
    BY <2>1 DEF GateInv, CheckedInv, Cleared
  <2> QED
    BY <2>2, <2>3 DEF GateInv, ClearedInv
<1>5. ASSUME StopAtGate \/ StopAfterValidation
      PROVE  /\ UNCHANGED <<book, opts, progress, sent>> /\ pc' = "close"
  BY <1>5 DEF StopAtGate, StopAfterValidation, given
<1> QED
  BY <1>1, <1>2, <1>3, <1>4, <1>5, NothingTaken DEF Compile, Before

LEMMA GateExecute == ASSUME GateInv, Execute PROVE GateInv'
<1>1. CASE EndExecution
  <2>1. UNCHANGED <<book, opts, progress, sent>> /\ pc' \in {"close", "finish"}
    BY <1>1 DEF EndExecution, AfterLastRow, given
  <2> QED
    BY <2>1, NothingTaken DEF Before
<1>2. CASE Halt
  <2>1. /\ UNCHANGED <<book, opts, selected, passed, failures, asked, queried>>
        /\ pc = "halt" /\ todo' = {} /\ pc' \in {"close", "finish"}
    BY <1>2 DEF Halt, Load, AfterLastRow, given, sent
  <2> QED
    BY <2>1 DEF GateInv, SheetInv, TakenInv, OfflineInv, CheckedInv, UnexecutedInv,
       ClearedInv, Cleared, Before
<1>3. ASSUME Execute, ~EndExecution, ~Halt
      PROVE  /\ UNCHANGED <<book, opts, selected, passed, failures, asked>>
             /\ pc = "execute" /\ pc' \in {"execute", "halt", "unwind"}
             /\ todo # {} /\ todo' \subseteq todo
             /\ queried \subseteq queried'
             /\ \A q \in queried' \ queried : q = <<Row, NextSide>> /\ book[Row].unsafe = {}
  BY <1>3 DEF Execute, RefuseRow, FirstSideAnswers, LastSideAnswers, QueryFails,
     ResultEscapes, Sends, EndRow, Load, Unwind, given, progress, sent
<1>4. ASSUME Execute, ~EndExecution, ~Halt PROVE GateInv'
  <2>1. Row \in selected /\ ~book[Row].misfit
    BY <1>3, <1>4, RowOfSheet
  <2>2. SheetInv' /\ TakenInv' /\ CheckedInv' /\ UnexecutedInv'
    BY <1>3, <1>4 DEF GateInv, SheetInv, TakenInv, CheckedInv, UnexecutedInv, Before
  <2>3. OfflineInv'
    BY <1>3, <1>4, <2>1 DEF GateInv, OfflineInv
  <2>4. ClearedInv'
    BY <1>3, <1>4 DEF GateInv, ClearedInv, Cleared
  <2> QED
    BY <2>2, <2>3, <2>4 DEF GateInv
<1> QED
  BY <1>1, <1>2, <1>4

LEMMA GateStep == GateInv /\ [Next]_vars => GateInv'
<1> SUFFICES ASSUME GateInv, [Next]_vars PROVE GateInv'
  OBVIOUS
<1>1. CASE UNCHANGED vars \/ Over
  BY <1>1, NothingTaken DEF vars, Over, given
<1>2. CASE Save \/ Interrupt
  <2>1. UNCHANGED <<book, opts, progress, sent>> /\ pc' \in {pc, "unwind"}
    BY <1>2 DEF Save, Interrupt, OpenFile, FileWritten, SaveFails, Unwind, given
  <2> QED
    BY <2>1, NothingTaken DEF Before
<1>3. CASE End
  <2>1. /\ UNCHANGED <<book, opts, progress, sent>>
        /\ pc' \in {pc, "report", "close", "aborted", "finish", "reported"}
    BY <1>3 DEF End, Finish, EndClose, Report, CloseSession, given
  <2> QED
    BY <2>1, NothingTaken DEF Before
<1> QED
  BY <1>1, <1>2, <1>3, GateStart, GateCompile, GateExecute DEF Next, Step

\* ReconciliationRunner.run: whatever the sheet and the options, what the offline
\* checks refused is sent nowhere, --mode validate executes nothing, and under
\* --on-syntax-error stop nothing is executed before every selected row was checked
\* and none failed.
THEOREM RunnerGateHolds == Spec => []GateHolds
<1>1. GateInv => GateHolds
  BY DEF GateInv, OfflineInv, ClearedInv, Cleared, GateHolds
<1> QED
  BY <1>1, GateInit, GateStep, PTL DEF Spec

----------------------------------------------------------------------------
\* Groups of results.

\* A row's place among a finite set of rows numbers them from one, without a gap.
LEMMA PlacesCount ==
  ASSUME NEW rows \in SUBSET Nat, IsFiniteSet(rows)
  PROVE  /\ Cardinality(rows) \in Nat
         /\ \A i \in rows : Place(i, rows) \in 1..Cardinality(rows)
         /\ \A k \in 1..Cardinality(rows) : \E i \in rows : Place(i, rows) = k
         /\ \A i, j \in rows : Place(i, rows) = Place(j, rows) => i = j
<1> DEFINE below(i) == {j \in rows : j <= i}
           place == [i \in rows |-> Place(i, rows)]
           n == Cardinality(rows)
<1>1. n \in Nat
  BY FS_CardinalityType
<1>2. \A i \in rows : IsFiniteSet(below(i)) /\ Place(i, rows) = Cardinality(below(i))
                        /\ Cardinality(below(i)) \in Nat
  <2> SUFFICES ASSUME NEW i \in rows
               PROVE  IsFiniteSet(below(i)) /\ Cardinality(below(i)) \in Nat
    BY DEF Place
  <2>1. below(i) \in SUBSET rows
    OBVIOUS
  <2> QED
    BY <2>1, FS_Subset, FS_CardinalityType
<1>3. \A i \in rows : Place(i, rows) \in 1..n
  <2> SUFFICES ASSUME NEW i \in rows PROVE Cardinality(below(i)) \in 1..n
    BY <1>2
  <2>1. below(i) \in SUBSET rows /\ i \in below(i)
    OBVIOUS
  <2>2. Cardinality(below(i)) <= n
    BY <2>1, FS_Subset
  <2>3. Cardinality(below(i)) # 0
    BY <2>1, <1>2, FS_EmptySet
  <2> QED
    BY <1>1, <1>2, <2>2, <2>3
<1>4. \A i, j \in rows : Place(i, rows) = Place(j, rows) => i >= j
  <2> SUFFICES ASSUME NEW i \in rows, NEW j \in rows, Place(i, rows) = Place(j, rows), i < j
               PROVE  FALSE
    OBVIOUS
  <2>1. below(i) \in SUBSET below(j)
    <3>1. i \in Int /\ j \in Int /\ \A m \in rows : m \in Int
      OBVIOUS
    <3>2. \A m \in rows : m <= i => m <= j
      BY <3>1
    <3> QED
      BY <3>2
  <2>2. j \in below(j) /\ j \notin below(i)
    OBVIOUS
  <2>3. below(j) = below(i)
    BY <1>2, <2>1, FS_Subset
  <2> QED
    BY <2>2, <2>3
<1>5. place \in Injection(rows, 1..n)
  <2>1. place \in [rows -> 1..n]
    BY <1>3
  <2>2. \A i, j \in rows : place[i] = place[j] => i = j
    BY <1>4
  <2> QED
    BY <2>1, <2>2 DEF Injection, IsInjective
<1>6. IsFiniteSet(1..n) /\ Cardinality(1..n) = n
  BY <1>1, FS_Interval
<1>7. place \in Surjection(rows, 1..n)
  BY <1>5, <1>6, FS_Injection
<1>8. \A k \in 1..n : \E i \in rows : place[i] = k
  BY <1>7 DEF Surjection
<1>9. \A i, j \in rows : Place(i, rows) = Place(j, rows) => i = j
  <2>1. \A m \in rows : m \in Int
    OBVIOUS
  <2> QED
    BY <1>4, <2>1
<1> QED
  BY <1>1, <1>3, <1>8, <1>9

RowsIn(list) == {list[k].row : k \in DOMAIN list}

\* A group holds one result for each of its rows.
LEMMA GroupHolds ==
  ASSUME NEW rows \in SUBSET Nat, IsFiniteSet(rows),
         NEW status, DOMAIN status = rows, \A i \in rows : status[i] \in Statuses
  PROVE  /\ Group(status) \in Seq([row : rows, status : Statuses])
         /\ Len(Group(status)) = Cardinality(rows)
         /\ \A k \in DOMAIN Group(status) :
              Group(status)[k].status = status[Group(status)[k].row]
         /\ RowsIn(Group(status)) = rows
<1> DEFINE n == Cardinality(rows)
           at(k) == CHOOSE i \in rows : Place(i, rows) = k
           group == [k \in 1..n |-> [row |-> at(k), status |-> status[at(k)]]]
<1>1. DOMAIN status = rows
  OBVIOUS
<1>2. Group(status) = group
  BY <1>1, Zenon DEF Group
<1>3. n \in Nat
  BY PlacesCount
<1>4. \A k \in 1..n : at(k) \in rows /\ Place(at(k), rows) = k
  BY PlacesCount
<1>5. group \in [1..n -> [row : rows, status : Statuses]]
  BY <1>4
<1>6. group \in Seq([row : rows, status : Statuses]) /\ Len(group) = n
  <2>1. group \in Seq([row : rows, status : Statuses])
    <3> DEFINE R == [row : rows, status : Statuses]
    <3> HIDE DEF group, n, R
    <3>1. group \in UNION {[1..m -> R] : m \in Nat}
      BY <1>3, <1>5 DEF R
    <3> QED
      BY <3>1, SeqDef, Zenon DEF R
  <2>2. DOMAIN group = 1..n
    OBVIOUS
  <2> HIDE DEF group, n
  <2> QED
    BY <1>3, <2>1, <2>2, LenProperties
<1>7. \A i \in rows : Place(i, rows) \in 1..n /\ at(Place(i, rows)) = i
  BY PlacesCount, <1>4
<1> HIDE DEF at
<1>8. RowsIn(group) = rows
  BY <1>4, <1>7 DEF RowsIn
<1>9. \A k \in DOMAIN group : group[k].status = status[group[k].row]
  OBVIOUS
<1> QED
  BY <1>2, <1>6, <1>8, <1>9

ResultsOn(rows) == [row : rows, status : Statuses]

\* What adding a result for a row that had none makes of the record.
LEMMA OneAdded ==
  ASSUME NEW sheet \in SUBSET Nat, IsFiniteSet(sheet),
         NEW list \in Seq([row : sheet, status : Statuses]),
         Len(list) = Cardinality(RowsIn(list)),
         NEW r \in sheet, r \notin RowsIn(list), NEW status \in Statuses
  PROVE  LET new == Append(list, [row |-> r, status |-> status])
         IN /\ new \in Seq([row : sheet, status : Statuses])
            /\ RowsIn(new) = RowsIn(list) \cup {r}
            /\ Len(new) = Cardinality(RowsIn(new))
            /\ \A k \in DOMAIN new : \/ k \in DOMAIN list /\ new[k] = list[k]
                                     \/ new[k] = [row |-> r, status |-> status]
<1> DEFINE R == [row : sheet, status : Statuses]
           one == [row |-> r, status |-> status]
           new == Append(list, one)
<1>1. one \in R
  OBVIOUS
<1>2. list \in Seq(R)
  OBVIOUS
<1>3. \A k \in DOMAIN list : list[k].row \in sheet
  <2>1. \A k \in DOMAIN list : list[k] \in R
    BY <1>2, LenProperties, ElementOfSeq
  <2> QED
    BY <2>1
<1>4. one.row = r
  OBVIOUS
<1> HIDE DEF R, one
<1>5. /\ new \in Seq(R) /\ Len(new) = Len(list) + 1
      /\ \A i \in 1..Len(list) : new[i] = list[i]
      /\ new[Len(list) + 1] = one
  BY <1>1, <1>2, AppendProperties
<1>6. /\ Len(list) \in Nat /\ DOMAIN list = 1..Len(list)
      /\ DOMAIN new = 1..(Len(list) + 1)
  <2>1. DOMAIN new = 1..Len(new)
    BY <1>5, LenProperties
  <2> QED
    BY <1>2, <1>5, <2>1, LenProperties
<1> HIDE DEF new
<1>7. \A k \in DOMAIN new : (k \in DOMAIN list /\ new[k] = list[k]) \/ new[k] = one
  BY <1>5, <1>6
<1>8. RowsIn(new) = RowsIn(list) \cup {r}
  <2>1. \A k \in DOMAIN list : k \in DOMAIN new /\ new[k] = list[k]
    BY <1>5, <1>6
  <2>2. Len(list) + 1 \in DOMAIN new
    BY <1>6
  <2>3. RowsIn(list) \subseteq RowsIn(new)
    BY <2>1 DEF RowsIn
  <2>4. r \in RowsIn(new)
    BY <1>4, <1>5, <2>2 DEF RowsIn
  <2>5. RowsIn(new) \subseteq RowsIn(list) \cup {r}
    BY <1>4, <1>7 DEF RowsIn
  <2> QED
    BY <2>3, <2>4, <2>5
<1>9. Len(new) = Cardinality(RowsIn(new))
  <2>1. RowsIn(list) \in SUBSET sheet
    BY <1>3 DEF RowsIn
  <2>2. IsFiniteSet(RowsIn(list)) /\ Cardinality(RowsIn(list)) \in Nat
    BY <2>1, FS_Subset, FS_CardinalityType
  <2> QED
    BY <1>5, <1>6, <1>8, <2>2, FS_AddElement
<1> QED
  BY <1>5, <1>7, <1>8, <1>9 DEF new, one, R

----------------------------------------------------------------------------
\* Types.

LEMMA SheetOf ==
  ASSUME TypeOK
  PROVE  /\ book \in Seq(RowType) /\ Len(book) \in Nat /\ DOMAIN book = 1..Len(book)
         /\ DOMAIN book \in SUBSET Nat /\ IsFiniteSet(DOMAIN book)
         /\ Cardinality(DOMAIN book) = Len(book)
         /\ \A i \in DOMAIN book : book[i] \in RowType
<1>1. book \in Seq(RowType)
  BY RunnerAssumption DEF TypeOK
<1>2. Len(book) \in Nat /\ DOMAIN book = 1..Len(book)
  BY <1>1, LenProperties
<1>3. IsFiniteSet(1..Len(book)) /\ Cardinality(1..Len(book)) = Len(book)
  <2> DEFINE n == Len(book)
  <2> HIDE DEF n
  <2>1. IsFiniteSet(1..n) /\ Cardinality(1..n) = IF 1 > n THEN 0 ELSE n - 1 + 1
    BY <1>2, FS_Interval DEF n
  <2>2. n \in Nat
    BY <1>2 DEF n
  <2> QED
    BY <2>1, <2>2 DEF n
<1>4. \A i \in DOMAIN book : book[i] \in RowType
  BY <1>1, <1>2, ElementOfSeq
<1> QED
  BY <1>1, <1>2, <1>3, <1>4

\* A pass begins, or goes on, with rows of the sheet.
LEMMA LoadTypes ==
  ASSUME TypeOK, NEW rows \in SUBSET DOMAIN book, Load(rows)
  PROVE  /\ todo' = rows /\ left' \subseteq Side /\ (todo' = {} => left' = {})
         /\ rows # {} => left' = book[Min(rows)].sides
<1>1. todo' = rows /\ left' = IF rows = {} THEN {} ELSE book[Min(rows)].sides
  BY DEF Load
<1>2. rows \in SUBSET Nat
  BY SheetOf
<1>3. rows # {} => book[Min(rows)].sides \subseteq Side
  BY <1>2, FirstOf, SheetOf DEF RowType
<1> QED
  BY <1>1, <1>3

LEMMA RowTypes == ASSUME TypeOK, todo # {} PROVE Row \in todo /\ Row \in DOMAIN book
<1>1. todo \in SUBSET Nat /\ todo \subseteq DOMAIN book
  BY SheetOf DEF TypeOK
<1> QED
  BY <1>1, FirstOf DEF Row

ResultType == ResultsOn(DOMAIN book)

LEMMA RecordAllTypes ==
  ASSUME TypeOK, NEW rows \in SUBSET DOMAIN book, NEW status \in [rows -> Statuses],
         RecordAll(status)
  PROVE  results' \in Seq(ResultType) /\ save' \in {"none", "due"}
<1>1. rows \in SUBSET Nat /\ IsFiniteSet(rows)
  BY SheetOf, FS_Subset
<1>2. Group(status) \in Seq([row : rows, status : Statuses])
  BY <1>1, GroupHolds
<1>3. Group(status) \in Seq(ResultType)
  <2> DEFINE Q == [row : rows, status : Statuses]
  <2>1. Q \subseteq ResultType /\ Group(status) \in Seq(Q)
    BY <1>2 DEF ResultType, ResultsOn
  <2> HIDE DEF Q
  <2> QED
    BY <2>1, SeqMonotonic, Zenon
<1>4. results \in Seq(ResultType)
  BY DEF TypeOK, ResultType, ResultsOn
<1>5. results \o Group(status) \in Seq(ResultType)
  BY <1>3, <1>4, ConcatProperties, Zenon
<1> QED
  BY <1>5 DEF RecordAll

LEMMA RecordOneTypes ==
  ASSUME TypeOK, NEW r \in DOMAIN book, NEW status \in Statuses
  PROVE  Append(results, [row |-> r, status |-> status]) \in Seq(ResultType)
<1>1. results \in Seq(ResultType) /\ [row |-> r, status |-> status] \in ResultType
  BY DEF TypeOK, ResultType, ResultsOn
<1> QED
  BY <1>1, AppendProperties

LEMMA TypesOfStart == ASSUME TypeOK, Start PROVE TypeOK'
<1>1. CASE ReadAndSelect
  <2>1. WithinLimit \subseteq DOMAIN book
    BY DEF WithinLimit, InRange, Chosen, Enabled
  <2> QED
    BY <1>1, <2>1 DEF ReadAndSelect, Unwind, TypeOK, Phases, given, disk, sent
<1>2. CASE RecordUndecided
  <2> DEFINE rows == DOMAIN book \ selected
             status == [i \in rows |-> IF book[i].kind = "invalid" THEN "ERROR" ELSE "SKIPPED"]
  <2>1. status \in [rows -> Statuses]
    BY DEF Statuses
  <2>2. RecordAll(status)
    BY <1>2 DEF RecordUndecided
  <2>3. results' \in Seq(ResultType) /\ save' \in {"none", "due"}
    BY <2>1, <2>2, RecordAllTypes
  <2> QED
    BY <1>2, <2>3 DEF RecordUndecided, TypeOK, ResultType, ResultsOn, Phases, given, progress, sent
<1>3. CASE CheckDialects
  <2> DEFINE status == [i \in Misfits |-> "ERROR"]
  <2>1. status \in [Misfits -> Statuses]
    BY DEF Statuses
  <2>2. RecordAll(status) /\ Load(selected \ Misfits)
    BY <1>3 DEF CheckDialects
  <2>3. Misfits \in SUBSET DOMAIN book /\ selected \ Misfits \in SUBSET DOMAIN book
    BY DEF Misfits, TypeOK
  <2>4. results' \in Seq(ResultType) /\ save' \in {"none", "due"}
    BY <2>1, <2>2, <2>3, RecordAllTypes
  <2>5. todo' = selected \ Misfits /\ left' \subseteq Side /\ (todo' = {} => left' = {})
    BY <2>2, <2>3, LoadTypes
  <2> QED
    BY <1>3, <2>3, <2>4, <2>5 DEF CheckDialects, TypeOK, ResultType, ResultsOn, Phases, given, sent
<1>4. CASE ConnectFails \/ Preflight \/ CreateFile \/ CreateRefused \/ \E s \in Side : Connect(s)
  <2>1. /\ UNCHANGED <<given, progress, results, file, onDisk, sent>>
        /\ pc' \in Phases /\ exit' \in {exit, 2} /\ save' \in {save, "due", "none"}
        /\ open' \subseteq Side
    BY <1>4 DEF ConnectFails, Preflight, CreateFile, CreateRefused, Connect, Unwind, TypeOK,
       Phases, Side, disk
  <2> QED
    BY <2>1 DEF TypeOK, given, progress, sent
<1> QED
  BY <1>1, <1>2, <1>3, <1>4 DEF Start

LEMMA TypesOfCompile == ASSUME TypeOK, Compile PROVE TypeOK'
<1>0. NextSide \in Side
  BY DEF NextSide, Side
<1>1. CASE CompileFails
  <2>1. Row \in todo /\ Row \in DOMAIN book
    BY <1>1, RowTypes DEF CompileFails
  <2>2. todo \ {Row} \in SUBSET DOMAIN book
    BY DEF TypeOK
  <2>3. todo' = todo \ {Row} /\ left' \subseteq Side /\ (todo' = {} => left' = {})
    BY <1>1, <2>2, LoadTypes DEF CompileFails
  <2>4. asked' \subseteq asked \cup {<<Row, NextSide>>} /\ open' \subseteq open \cup {NextSide}
    BY <1>1 DEF CompileFails
  <2> QED
    BY <1>0, <1>1, <2>1, <2>2, <2>3, <2>4 DEF CompileFails, TypeOK, given, disk
<1>2. ASSUME NEW answer \in {"compiled", "unavailable"}, CompileSide(answer) PROVE TypeOK'
  <2>1. Row \in todo /\ Row \in DOMAIN book
    BY <1>2, RowTypes DEF CompileSide
  <2>2. todo \ {Row} \in SUBSET DOMAIN book
    BY DEF TypeOK
  <2>3. /\ todo' \subseteq todo /\ left' \subseteq Side /\ (todo' = {} => left' = {})
        /\ passed' \subseteq passed \cup {Row}
    <3>1. CASE left # {NextSide}
      BY <1>2, <2>1, <3>1 DEF CompileSide, SideChecked, TypeOK
    <3>2. CASE left = {NextSide}
      BY <1>2, <2>2, <3>2, LoadTypes DEF CompileSide, SideChecked
    <3> QED
      BY <3>1, <3>2
  <2>4. asked' = asked \cup {<<Row, NextSide>>} /\ open' \subseteq open \cup {NextSide}
    BY <1>2 DEF CompileSide
  <2> QED
    BY <1>0, <1>2, <2>1, <2>3, <2>4 DEF CompileSide, TypeOK, given, disk
<1>3. CASE EndCompile
  <2> DEFINE status == [i \in FailuresToRecord |-> "ERROR"]
  <2>1. status \in [FailuresToRecord -> Statuses] /\ FailuresToRecord \in SUBSET DOMAIN book
    BY DEF Statuses, FailuresToRecord, TypeOK
  <2>2. results' \in Seq(ResultType) /\ save' \in {"none", "due"}
    BY <1>3, <2>1, RecordAllTypes DEF EndCompile
  <2> QED
    BY <1>3, <2>2 DEF EndCompile, TypeOK, ResultType, ResultsOn, Phases, given, progress, sent
<1>4. CASE StopAtGate \/ StopAfterValidation
  <2>1. passed \in SUBSET DOMAIN book
    BY DEF TypeOK
  <2>2. /\ [i \in passed |-> "NOT_EXECUTED"] \in [passed -> Statuses]
        /\ [i \in passed |-> "VALIDATED"] \in [passed -> Statuses]
    BY DEF Statuses
  <2>3. results' \in Seq(ResultType) /\ save' \in {"none", "due"}
    BY <1>4, <2>1, <2>2, RecordAllTypes DEF StopAtGate, StopAfterValidation
  <2> QED
    BY <1>4, <2>3 DEF StopAtGate, StopAfterValidation, TypeOK, ResultType, ResultsOn, Phases, given,
       progress, sent
<1>5. CASE PassGate
  <2>1. passed \in SUBSET DOMAIN book
    BY DEF TypeOK
  <2>2. todo' = passed /\ left' \subseteq Side /\ (todo' = {} => left' = {})
    BY <1>5, <2>1, LoadTypes DEF PassGate
  <2> QED
    BY <1>5, <2>1, <2>2 DEF PassGate, TypeOK, Phases, given, disk, sent
<1> QED
  BY <1>1, <1>2, <1>3, <1>4, <1>5 DEF Compile

LEMMA TypesOfEndRow ==
  ASSUME TypeOK, todo # {}, NEW status \in Statuses, EndRow(status), UNCHANGED opts
  PROVE  /\ results' \in Seq(ResultType) /\ save' \in {"none", "due"}
         /\ todo' = todo \ {Row} /\ left' \subseteq Side /\ (todo' = {} => left' = {})
         /\ pc' \in {pc, "halt"}
<1>1. Row \in DOMAIN book /\ todo \ {Row} \in SUBSET DOMAIN book
  BY RowTypes DEF TypeOK
<1>2. results' \in Seq(ResultType) /\ save' \in {"none", "due"}
  BY <1>1, RecordOneTypes DEF EndRow, RecordOne
<1>3. todo' = todo \ {Row} /\ left' \subseteq Side /\ (todo' = {} => left' = {})
  BY <1>1, LoadTypes DEF EndRow
<1> QED
  BY <1>2, <1>3 DEF EndRow

LEMMA TypesOfExecute == ASSUME TypeOK, Execute PROVE TypeOK'
<1>0. NextSide \in Side
  BY DEF NextSide, Side
<1>1. CASE Halt
  <2>1. todo \in SUBSET DOMAIN book /\ [i \in todo |-> "SKIPPED"] \in [todo -> Statuses]
    BY DEF TypeOK, Statuses
  <2>2. results' \in Seq(ResultType) /\ save' \in {"none", "due"}
    BY <1>1, <2>1, RecordAllTypes DEF Halt
  <2>3. todo' = {} /\ left' = {}
    BY <1>1 DEF Halt, Load
  <2> QED
    BY <1>1, <2>2, <2>3 DEF Halt, AfterLastRow, TypeOK, ResultType, ResultsOn, Phases, given, sent
<1>2. CASE EndExecution
  BY <1>2 DEF EndExecution, AfterLastRow, TypeOK, Phases, given, progress, disk, sent
<1>3. CASE RefuseRow
  <2>1. /\ results' \in Seq(ResultType) /\ save' \in {"none", "due"}
        /\ todo' = todo \ {Row} /\ left' \subseteq Side /\ (todo' = {} => left' = {})
        /\ pc' \in {pc, "halt"}
    BY <1>3, TypesOfEndRow DEF RefuseRow, given, Statuses
  <2> QED
    BY <1>3, <2>1 DEF RefuseRow, TypeOK, ResultType, ResultsOn, Phases, given, sent
<1>4. ASSUME Sends PROVE /\ Row \in todo /\ Row \in DOMAIN book /\ todo # {} /\ pc = "execute"
                         /\ queried' \subseteq (DOMAIN book) \X Side
  BY <1>0, <1>4, RowTypes DEF Sends, TypeOK
<1>5. CASE FirstSideAnswers
  BY <1>0, <1>4, <1>5 DEF FirstSideAnswers, TypeOK, given, disk
<1>6. ASSUME \/ QueryFails
             \/ \E status \in {"PASS", "FAIL", "ERROR", "PROFILED"} : LastSideAnswers(status)
      PROVE  TypeOK'
  <2>1. PICK status \in Statuses : EndRow(status)
    BY <1>6 DEF QueryFails, LastSideAnswers, Statuses
  <2>2. /\ Sends /\ open' \subseteq open \cup {NextSide}
        /\ UNCHANGED <<given, selected, passed, failures, file, onDisk, asked, exit>>
    BY <1>6 DEF QueryFails, LastSideAnswers
  <2>3. /\ results' \in Seq(ResultType) /\ save' \in {"none", "due"}
        /\ todo' = todo \ {Row} /\ left' \subseteq Side /\ (todo' = {} => left' = {})
        /\ pc' \in {pc, "halt"}
    BY <1>4, <2>1, <2>2, TypesOfEndRow DEF given
  <2> QED
    BY <1>0, <1>4, <2>2, <2>3 DEF TypeOK, ResultType, ResultsOn, Phases, given
<1>7. CASE ResultEscapes
  <2>1. Sends
    BY <1>7 DEF ResultEscapes
  <2>2. results' \in Seq(ResultType)
    <3>1. results \in Seq(ResultType)
      BY DEF TypeOK, ResultType, ResultsOn
    <3>2. \A status \in {"PASS", "FAIL", "ERROR", "PROFILED"} :
            Append(results, [row |-> Row, status |-> status]) \in Seq(ResultType)
      BY <1>4, <2>1, RecordOneTypes DEF Statuses
    <3> QED
      BY <1>7, <3>1, <3>2 DEF ResultEscapes
  <2> QED
    BY <1>0, <1>4, <1>7, <2>1, <2>2 DEF ResultEscapes, Unwind, TypeOK, ResultType, ResultsOn, Phases,
       given, progress, disk
<1> QED
  BY <1>1, <1>2, <1>3, <1>5, <1>6, <1>7 DEF Execute

LEMMA TypeStep == TypeOK /\ [Next]_vars => TypeOK'
<1> SUFFICES ASSUME TypeOK, [Next]_vars PROVE TypeOK'
  OBVIOUS
<1>1. CASE UNCHANGED vars \/ Over
  <2>1. UNCHANGED vars
    BY <1>1 DEF Over
  <2> QED
    BY <2>1 DEF vars, TypeOK, given, progress, disk, sent
<1>2. CASE Save
  <2>1. Recorded \subseteq DOMAIN book
    <3>1. \A k \in DOMAIN results : results[k] \in [row : DOMAIN book, status : Statuses]
      <4>1. results \in Seq(ResultType)
        BY DEF TypeOK, ResultType, ResultsOn
      <4>2. \A k \in DOMAIN results : results[k] \in ResultType
        BY <4>1, LenProperties, ElementOfSeq
      <4> QED
        BY <4>2 DEF ResultType, ResultsOn
    <3> QED
      BY <3>1 DEF Recorded
  <2> QED
    BY <1>2, <2>1 DEF Save, OpenFile, FileWritten, SaveFails, Unwind, TypeOK, Phases, given,
       progress, disk, sent
<1>3. CASE End
  <2>1. /\ UNCHANGED <<given, progress, results, file, onDisk, sent>>
        /\ pc' \in Phases /\ exit' \in {exit, 0, 1} /\ save' \in {save, "due", "none"}
        /\ open' \subseteq open
    BY <1>3 DEF End, Finish, EndClose, Report, CloseSession, ExitCode, TypeOK, Phases, disk
  <2> QED
    BY <2>1 DEF TypeOK, given, progress, sent
<1>4. CASE Interrupt
  BY <1>4 DEF Interrupt, Unwind, TypeOK, Phases, given, progress, sent
<1> QED
  BY <1>1, <1>2, <1>3, <1>4, TypesOfStart, TypesOfCompile, TypesOfExecute DEF Next, Step

\* The types of the run, for any sheets and options.
THEOREM RunnerTypes == Spec => []TypeOK
<1>1. Init => TypeOK
  <2> SUFFICES ASSUME Init PROVE TypeOK
    OBVIOUS
  <2>1. << >> \in Seq([row : DOMAIN book, status : Statuses])
    BY EmptySeq
  <2> QED
    BY <2>1 DEF Init, TypeOK, Phases
<1> QED
  BY <1>1, TypeStep, PTL DEF Spec

----------------------------------------------------------------------------
\* Rows without a result yet, while the run is under way.
Owed ==
  CASE pc \in {"connect", "preflight", "read", "create", "undecided"} -> DOMAIN book
    [] pc \in {"dialects", "compile"} -> selected
    [] pc = "gate" -> passed
    [] pc \in {"execute", "halt"} -> todo
    [] OTHER -> {}

RecordedInv ==
  /\ Len(results) = Cardinality(Recorded)
  /\ pc \notin {"unwind", "aborted"} => Recorded = DOMAIN book \ Owed

SortedInv ==
  /\ pc = "compile" => todo \cup passed = selected \ failures /\ todo \cap passed = {}
  /\ pc = "gate" => passed = selected \ failures

RunInv == TypeOK /\ GateInv /\ RecordedInv /\ SortedInv

LEMMA RecordAllAdds ==
  ASSUME TypeOK, RecordedInv, NEW rows \in SUBSET DOMAIN book, rows \cap Recorded = {},
         NEW status \in [rows -> Statuses], RecordAll(status)
  PROVE  /\ Recorded' = Recorded \cup rows /\ Len(results') = Cardinality(Recorded')
         /\ \A k \in DOMAIN results' :
              \/ k \in DOMAIN results /\ results'[k] = results[k]
              \/ results'[k].row \in rows /\ results'[k].status = status[results'[k].row]
<1> DEFINE R == ResultsOn(DOMAIN book)
           group == Group(status)
           new == results \o group
<1>0. /\ results \in Seq(ResultsOn(DOMAIN book)) /\ Len(results) = Cardinality(RowsIn(results))
      /\ rows \cap RowsIn(results) = {}
      /\ DOMAIN book \in SUBSET Nat /\ IsFiniteSet(DOMAIN book)
  BY SheetOf DEF TypeOK, RecordedInv, Recorded, RowsIn, ResultsOn
<1>1. IsFiniteSet(rows) /\ rows \in SUBSET Nat
  BY <1>0, FS_Subset
<1>2. /\ group \in Seq(ResultsOn(rows))
      /\ Len(group) = Cardinality(rows)
      /\ \A k \in DOMAIN group : group[k].status = status[group[k].row]
      /\ RowsIn(group) = rows
  BY <1>1, GroupHolds DEF ResultsOn
<1> HIDE DEF group
<1>3. group \in Seq(R)
  <2> DEFINE Q == ResultsOn(rows)
  <2>1. Q \subseteq R /\ group \in Seq(Q)
    BY <1>2 DEF ResultsOn
  <2> HIDE DEF Q, R
  <2> QED
    BY <2>1, SeqMonotonic, Zenon
<1> HIDE DEF R
<1>4. /\ new \in Seq(R)
      /\ Len(new) = Len(results) + Len(group)
      /\ \A i \in 1 .. Len(results) + Len(group) :
           new[i] = IF i <= Len(results) THEN results[i] ELSE group[i - Len(results)]
  <2>1. results \in Seq(R)
    BY <1>0 DEF R
  <2> QED
    BY <1>3, <2>1, ConcatProperties, Zenon
<1>5. /\ Len(results) \in Nat /\ DOMAIN results = 1..Len(results)
      /\ Len(group) \in Nat /\ DOMAIN group = 1..Len(group)
      /\ DOMAIN new = 1..(Len(results) + Len(group))
  <2>1. results \in Seq(R)
    BY <1>0 DEF R
  <2>2. Len(results) \in Nat /\ DOMAIN results = 1..Len(results)
    BY <2>1, LenProperties
  <2>3. Len(group) \in Nat /\ DOMAIN group = 1..Len(group)
    BY <1>3, LenProperties
  <2>4. DOMAIN new = 1..Len(new)
    BY <1>4, LenProperties
  <2> QED
    BY <1>4, <2>2, <2>3, <2>4
<1> HIDE DEF new
<1>6. \A k \in DOMAIN results : k \in DOMAIN new /\ new[k] = results[k]
  BY <1>4, <1>5
<1>7. \A k \in DOMAIN group : k + Len(results) \in DOMAIN new /\ new[k + Len(results)] = group[k]
  <2> SUFFICES ASSUME NEW k \in DOMAIN group
               PROVE  k + Len(results) \in DOMAIN new /\ new[k + Len(results)] = group[k]
    OBVIOUS
  <2>1. k \in 1..Len(group)
    BY <1>5
  <2>2. /\ k + Len(results) \in 1..(Len(results) + Len(group)) /\ ~(k + Len(results) <= Len(results))
        /\ (k + Len(results)) - Len(results) = k
    BY <1>5, <2>1
  <2> QED
    BY <1>4, <1>5, <2>2
<1>8. \A k \in DOMAIN new : \/ k \in DOMAIN results /\ new[k] = results[k]
                            \/ k - Len(results) \in DOMAIN group /\ new[k] = group[k - Len(results)]
  <2> SUFFICES ASSUME NEW k \in DOMAIN new
               PROVE  \/ k \in DOMAIN results /\ new[k] = results[k]
                      \/ k - Len(results) \in DOMAIN group /\ new[k] = group[k - Len(results)]
    OBVIOUS
  <2>1. k \in 1..(Len(results) + Len(group))
    BY <1>5
  <2>2. CASE k <= Len(results)
    BY <1>4, <1>5, <2>1, <2>2
  <2>3. CASE ~(k <= Len(results))
    <3>1. k - Len(results) \in 1..Len(group)
      BY <1>5, <2>1, <2>3
    <3> QED
      BY <1>4, <1>5, <2>1, <2>3, <3>1
  <2> QED
    BY <2>2, <2>3
<1>9. RowsIn(new) = RowsIn(results) \cup rows
  <2>1. RowsIn(results) \subseteq RowsIn(new)
    BY <1>6 DEF RowsIn
  <2>2. RowsIn(group) \subseteq RowsIn(new)
    <3>1. \A k \in DOMAIN group : \E m \in DOMAIN new : new[m] = group[k]
      BY <1>7
    <3> QED
      BY <3>1 DEF RowsIn
  <2>3. RowsIn(new) \subseteq RowsIn(results) \cup RowsIn(group)
    BY <1>8 DEF RowsIn
  <2> QED
    BY <1>2, <2>1, <2>2, <2>3
<1>10. Len(new) = Cardinality(RowsIn(new))
  <2>1. RowsIn(results) \in SUBSET DOMAIN book
    <3>1. \A k \in DOMAIN results : results[k].row \in DOMAIN book
      <4>1. results \in Seq(R)
        BY <1>0 DEF R
      <4>2. \A k \in DOMAIN results : results[k] \in R
        BY <1>5, <4>1, ElementOfSeq
      <4> QED
        BY <4>2 DEF R, ResultsOn
    <3> QED
      BY <3>1 DEF RowsIn
  <2>2. IsFiniteSet(RowsIn(results)) /\ Cardinality(RowsIn(results)) \in Nat
    BY <1>0, <2>1, FS_Subset, FS_CardinalityType
  <2>3. Cardinality(RowsIn(results) \cap rows) = 0
    BY <1>0, FS_EmptySet
  <2>4. Cardinality(RowsIn(results) \cup rows)
          = Cardinality(RowsIn(results)) + Cardinality(rows) - Cardinality(RowsIn(results) \cap rows)
    BY <1>1, <2>2, FS_Union
  <2> QED
    BY <1>0, <1>2, <1>4, <1>5, <1>9, <2>2, <2>3, <2>4
<1>11. \A k \in DOMAIN new :
         \/ k \in DOMAIN results /\ new[k] = results[k]
         \/ new[k].row \in rows /\ new[k].status = status[new[k].row]
  BY <1>2, <1>8 DEF RowsIn
<1>12. results' = new
  BY DEF RecordAll, new, group
<1>13. Recorded = RowsIn(results) /\ Recorded' = RowsIn(results')
  BY DEF Recorded, RowsIn
<1> QED
  BY <1>9, <1>10, <1>11, <1>12, <1>13

LEMMA OneResultAdds ==
  ASSUME TypeOK, RecordedInv, NEW r \in DOMAIN book, r \notin Recorded,
         NEW status \in Statuses, results' = Append(results, [row |-> r, status |-> status])
  PROVE  /\ Recorded' = Recorded \cup {r} /\ Len(results') = Cardinality(Recorded')
         /\ \A k \in DOMAIN results' : \/ k \in DOMAIN results /\ results'[k] = results[k]
                                      \/ results'[k] = [row |-> r, status |-> status]
<1>1. /\ results \in Seq([row : DOMAIN book, status : Statuses])
      /\ Len(results) = Cardinality(RowsIn(results)) /\ r \notin RowsIn(results)
  BY DEF TypeOK, RecordedInv, Recorded, RowsIn
<1>2. DOMAIN book \in SUBSET Nat /\ IsFiniteSet(DOMAIN book)
  BY SheetOf
<1>3. /\ RowsIn(results') = RowsIn(results) \cup {r}
      /\ Len(results') = Cardinality(RowsIn(results'))
      /\ \A k \in DOMAIN results' : \/ k \in DOMAIN results /\ results'[k] = results[k]
                                   \/ results'[k] = [row |-> r, status |-> status]
  BY <1>1, <1>2, OneAdded
<1> QED
  BY <1>3 DEF RowsIn, Recorded

LEMMA NothingRecorded ==
  ASSUME RecordedInv, SortedInv, UNCHANGED <<book, results>>,
         \/ UNCHANGED <<selected, todo, passed, failures, pc>>
         \/ pc' \in {"unwind", "aborted"}
         \/ pc' \notin {"compile", "gate"} /\ pc \notin {"unwind", "aborted"} /\ Owed' = Owed
  PROVE  RecordedInv' /\ SortedInv'
<1>1. UNCHANGED Recorded
  BY DEF Recorded
<1>2. UNCHANGED <<selected, todo, passed, failures, pc>> => Owed' = Owed
  BY DEF Owed
<1> QED
  BY <1>1, <1>2 DEF RecordedInv, SortedInv

LEMMA RecordedByStart == ASSUME RunInv, Start PROVE RecordedInv' /\ SortedInv'
<1>1. CASE RecordUndecided
  <2> DEFINE rows == DOMAIN book \ selected
             status == [i \in rows |-> IF book[i].kind = "invalid" THEN "ERROR" ELSE "SKIPPED"]
  <2>1. status \in [rows -> Statuses]
    BY DEF Statuses
  <2>2. /\ RecordAll(status) /\ UNCHANGED <<book, selected>>
        /\ pc = "undecided" /\ pc' = "dialects"
    BY <1>1 DEF RecordUndecided, given, progress
  <2>3. Recorded = {}
    BY <2>2 DEF RunInv, RecordedInv, Owed
  <2>4. Recorded' = rows /\ Len(results') = Cardinality(Recorded')
    BY <2>1, <2>2, <2>3, RecordAllAdds DEF RunInv
  <2> QED
    BY <2>2, <2>4 DEF RecordedInv, SortedInv, Owed
<1>2. CASE CheckDialects
  <2> DEFINE status == [i \in Misfits |-> "ERROR"]
  <2>1. status \in [Misfits -> Statuses]
    BY DEF Statuses
  <2>2. /\ RecordAll(status) /\ UNCHANGED <<book, passed>>
        /\ pc = "dialects" /\ pc' \in {"compile", "execute"}
        /\ selected' = selected \ Misfits /\ failures' = Misfits /\ todo' = selected'
    BY <1>2 DEF CheckDialects, Load, given
  <2>3. Misfits \subseteq selected /\ selected \subseteq DOMAIN book
    BY DEF Misfits, RunInv, TypeOK
  <2>4. Recorded = DOMAIN book \ selected
    BY <2>2 DEF RunInv, RecordedInv, Owed
  <2>5. Recorded' = Recorded \cup Misfits /\ Len(results') = Cardinality(Recorded')
    BY <2>1, <2>2, <2>3, <2>4, RecordAllAdds DEF RunInv
  <2>6. passed = {}
    BY <2>2 DEF RunInv, GateInv, UnexecutedInv, Before
  <2>7. RecordedInv'
    BY <2>2, <2>3, <2>4, <2>5 DEF RecordedInv, Owed
  <2> QED
    BY <2>2, <2>6, <2>7 DEF SortedInv
<1>3. ASSUME Start, ~RecordUndecided, ~CheckDialects
      PROVE  /\ UNCHANGED <<book, results>>
             /\ pc \in {"connect", "preflight", "read", "create", "undecided"}
             /\ pc' \in {"connect", "preflight", "read", "create", "undecided", "unwind"}
  BY <1>3 DEF Start, ConnectFails, Preflight, ReadAndSelect, CreateFile, CreateRefused, Connect,
     Unwind, given
<1>4. ASSUME Start, ~RecordUndecided, ~CheckDialects PROVE RecordedInv' /\ SortedInv'
  <2>1. pc' # "unwind" => Owed' = Owed
    BY <1>3, <1>4 DEF Owed
  <2> QED
    BY <1>3, <1>4, <2>1, NothingRecorded DEF RunInv
<1> QED
  BY <1>1, <1>2, <1>4

LEMMA RecordedByCompile == ASSUME RunInv, Compile PROVE RecordedInv' /\ SortedInv'
<1>1. CASE CompileFails \/ \E answer \in {"compiled", "unavailable"} : CompileSide(answer)
  <2>1. /\ UNCHANGED <<book, results, selected, pc>> /\ pc = "compile" /\ todo # {}
        /\ \/ /\ todo' = todo \ {Row} /\ failures' = failures \cup {Row} /\ passed' = passed
           \/ /\ todo' = todo \ {Row} /\ failures' = failures /\ passed' = passed \cup {Row}
           \/ UNCHANGED <<todo, failures, passed>>
    BY <1>1 DEF CompileFails, CompileSide, SideChecked, Load, given
  <2>2. Row \in todo
    BY <2>1, RowTypes DEF RunInv
  <2>3. SortedInv'
    BY <2>1, <2>2 DEF RunInv, SortedInv
  <2>4. Owed' = Owed /\ Recorded' = Recorded
    BY <2>1 DEF Owed, Recorded
  <2> QED
    BY <2>1, <2>3, <2>4 DEF RunInv, RecordedInv
<1>2. CASE EndCompile
  <2> DEFINE rows == FailuresToRecord
             status == [i \in rows |-> "ERROR"]
  <2>1. status \in [rows -> Statuses] /\ rows \in SUBSET DOMAIN book /\ rows \subseteq selected
    BY DEF Statuses, FailuresToRecord, RunInv, TypeOK
  <2>2. /\ RecordAll(status) /\ UNCHANGED <<book, selected, passed, failures>>
        /\ pc = "compile" /\ pc' = "gate" /\ todo = {}
    BY <1>2 DEF EndCompile, given, progress
  <2>3. Recorded = DOMAIN book \ selected /\ passed = selected \ failures
    BY <2>2 DEF RunInv, RecordedInv, SortedInv, Owed
  <2>4. Recorded' = Recorded \cup rows /\ Len(results') = Cardinality(Recorded')
    BY <2>1, <2>2, <2>3, RecordAllAdds DEF RunInv
  <2>5. DOMAIN book \ passed = Recorded \cup rows
    BY <2>1, <2>3 DEF FailuresToRecord
  <2> QED
    BY <2>2, <2>3, <2>4, <2>5 DEF RecordedInv, SortedInv, Owed
<1>3. CASE StopAtGate \/ StopAfterValidation
  <2>1. PICK status \in [passed -> Statuses] : RecordAll(status)
    <3>1. /\ [i \in passed |-> "NOT_EXECUTED"] \in [passed -> Statuses]
          /\ [i \in passed |-> "VALIDATED"] \in [passed -> Statuses]
      BY DEF Statuses
    <3> QED
      BY <1>3, <3>1 DEF StopAtGate, StopAfterValidation
  <2>2. book' = book /\ pc = "gate" /\ pc' = "close"
    BY <1>3 DEF StopAtGate, StopAfterValidation, given
  <2>3. passed \in SUBSET DOMAIN book /\ Recorded = DOMAIN book \ passed
    BY <2>2 DEF RunInv, TypeOK, RecordedInv, Owed
  <2>4. Recorded' = Recorded \cup passed /\ Len(results') = Cardinality(Recorded')
    BY <2>1, <2>3, RecordAllAdds DEF RunInv
  <2> QED
    BY <2>2, <2>3, <2>4 DEF RecordedInv, SortedInv, Owed
<1>4. CASE PassGate
  <2>1. UNCHANGED <<book, results>> /\ pc = "gate" /\ pc' = "execute" /\ todo' = passed
    BY <1>4 DEF PassGate, Load, given
  <2>2. Owed' = Owed
    BY <2>1 DEF Owed
  <2> QED
    BY <2>1, <2>2, NothingRecorded DEF RunInv
<1> QED
  BY <1>1, <1>2, <1>3, <1>4 DEF Compile

\* The row at hand has no result yet.
LEMMA RowIsOwed ==
  ASSUME RunInv, pc = "execute", todo # {}
  PROVE  Row \in todo /\ Row \in DOMAIN book /\ Row \notin Recorded
<1>1. Row \in todo /\ Row \in DOMAIN book
  BY RowTypes DEF RunInv
<1> QED
  BY <1>1 DEF RunInv, RecordedInv, Owed

\* What ends a row leaves exactly the rest of the pass without a result.
LEMMA EndRowRecords ==
  ASSUME RunInv, pc = "execute", todo # {}, NEW status \in Statuses, EndRow(status),
         UNCHANGED book
  PROVE  /\ Recorded' = Recorded \cup {Row} /\ todo' = todo \ {Row}
         /\ \A k \in DOMAIN results' : \/ k \in DOMAIN results /\ results'[k] = results[k]
                                      \/ results'[k] = [row |-> Row, status |-> status]
         /\ pc' = IF Halts(status) THEN "halt" ELSE "execute"
         /\ save' = IF opts.write THEN "due" ELSE "none"
         /\ RecordedInv' /\ SortedInv'
<1>1. Row \in todo /\ Row \in DOMAIN book /\ Row \notin Recorded
  BY RowIsOwed
<1>2. /\ results' = Append(results, [row |-> Row, status |-> status]) /\ todo' = todo \ {Row}
      /\ pc' = IF Halts(status) THEN "halt" ELSE "execute"
      /\ save' = IF opts.write THEN "due" ELSE "none"
  BY DEF EndRow, RecordOne, Load
<1>3. /\ Recorded' = Recorded \cup {Row} /\ Len(results') = Cardinality(Recorded')
      /\ \A k \in DOMAIN results' : \/ k \in DOMAIN results /\ results'[k] = results[k]
                                   \/ results'[k] = [row |-> Row, status |-> status]
  BY <1>1, <1>2, OneResultAdds DEF RunInv
<1>4. Recorded = DOMAIN book \ todo
  BY DEF RunInv, RecordedInv, Owed
<1>5. RecordedInv' /\ SortedInv'
  BY <1>1, <1>2, <1>3, <1>4 DEF RecordedInv, SortedInv, Owed
<1> QED
  BY <1>2, <1>3, <1>5

LEMMA RecordedByExecute == ASSUME RunInv, Execute PROVE RecordedInv' /\ SortedInv'
<1>1. CASE Halt
  <2>1. todo \in SUBSET DOMAIN book /\ [i \in todo |-> "SKIPPED"] \in [todo -> Statuses]
    BY DEF RunInv, TypeOK, Statuses
  <2>2. /\ RecordAll([i \in todo |-> "SKIPPED"]) /\ book' = book
        /\ pc = "halt" /\ pc' \in {"close", "finish"}
    BY <1>1 DEF Halt, AfterLastRow, given
  <2>3. Recorded = DOMAIN book \ todo
    BY <2>2 DEF RunInv, RecordedInv, Owed
  <2>4. Recorded' = Recorded \cup todo /\ Len(results') = Cardinality(Recorded')
    BY <2>1, <2>2, <2>3, RecordAllAdds DEF RunInv
  <2> QED
    BY <2>1, <2>2, <2>3, <2>4 DEF RecordedInv, SortedInv, Owed
<1>2. CASE EndExecution
  <2>1. /\ UNCHANGED <<book, results>> /\ pc = "execute" /\ todo = {}
        /\ pc' \in {"close", "finish"}
    BY <1>2 DEF EndExecution, AfterLastRow, given
  <2>2. Owed' = Owed
    BY <2>1 DEF Owed
  <2> QED
    BY <2>1, <2>2, NothingRecorded DEF RunInv
<1>3. CASE FirstSideAnswers
  BY <1>3, NothingRecorded DEF FirstSideAnswers, RunInv, given
<1>4. ASSUME \/ RefuseRow \/ QueryFails
             \/ \E status \in {"PASS", "FAIL", "ERROR", "PROFILED"} : LastSideAnswers(status)
      PROVE  RecordedInv' /\ SortedInv'
  <2>1. /\ \E status \in Statuses : EndRow(status)
        /\ pc = "execute" /\ todo # {} /\ book' = book
    BY <1>4 DEF RefuseRow, QueryFails, LastSideAnswers, Sends, Statuses, given
  <2> QED
    BY <2>1, EndRowRecords
<1>5. CASE ResultEscapes
  <2>1. pc = "execute" /\ todo # {} /\ book' = book /\ pc' = "unwind"
    BY <1>5 DEF ResultEscapes, Sends, Unwind, given
  <2>2. CASE results' = results
    BY <2>1, <2>2, NothingRecorded DEF RunInv
  <2>3. CASE \E status \in Statuses : results' = Append(results, [row |-> Row, status |-> status])
    <3>1. Row \in DOMAIN book /\ Row \notin Recorded
      BY <2>1, RowIsOwed
    <3>2. Len(results') = Cardinality(Recorded')
      BY <2>3, <3>1, OneResultAdds DEF RunInv
    <3> QED
      BY <2>1, <3>2 DEF RecordedInv, SortedInv
  <2> QED
    BY <1>5, <2>2, <2>3 DEF ResultEscapes, Statuses
<1> QED
  BY <1>1, <1>2, <1>3, <1>4, <1>5 DEF Execute

LEMMA RunStep == RunInv /\ [Next]_vars => RunInv'
<1> SUFFICES ASSUME RunInv, [Next]_vars PROVE RecordedInv' /\ SortedInv'
  BY TypeStep, GateStep DEF RunInv
<1>1. CASE UNCHANGED vars \/ Over
  <2>1. UNCHANGED vars
    BY <1>1 DEF Over
  <2> QED
    BY <2>1, NothingRecorded DEF RunInv, vars, given, progress
<1>2. CASE Save \/ Interrupt
  <2>1. UNCHANGED <<book, selected, todo, passed, failures, results>> /\ pc' \in {pc, "unwind"}
    BY <1>2 DEF Save, Interrupt, OpenFile, FileWritten, SaveFails, Unwind, given, progress
  <2> QED
    BY <2>1, NothingRecorded DEF RunInv
<1>3. CASE End
  <2>1. /\ UNCHANGED <<book, selected, todo, passed, failures, results>>
        /\ \/ pc' = pc \/ pc' = "aborted"
           \/ /\ pc \in {"finish", "close", "report"}
              /\ pc' \in {"finish", "close", "report", "reported"}
    BY <1>3 DEF End, Finish, EndClose, Report, CloseSession, given, progress
  <2>2. pc \in {"finish", "close", "report"} /\ pc' \in {"finish", "close", "report", "reported"}
          => Owed' = Owed
    BY DEF Owed
  <2> QED
    BY <2>1, <2>2, NothingRecorded DEF RunInv
<1> QED
  BY <1>1, <1>2, <1>3, RecordedByStart, RecordedByCompile, RecordedByExecute DEF Next, Step

----------------------------------------------------------------------------
\* Every row, once.

LEMMA RunInit == Init => RunInv
<1> SUFFICES ASSUME Init PROVE RunInv
  OBVIOUS
<1>1. results = << >> /\ pc \in {"connect", "read"}
  BY DEF Init
<1>2. Recorded = {} /\ Len(results) = 0
  BY <1>1 DEF Recorded
<1>3. RecordedInv
  BY <1>1, <1>2, FS_EmptySet DEF RecordedInv, Owed
<1>4. TypeOK
  <2>1. << >> \in Seq([row : DOMAIN book, status : Statuses])
    BY EmptySeq
  <2> QED
    BY <2>1 DEF Init, TypeOK, Phases
<1> QED
  BY <1>1, <1>3, <1>4, GateInit DEF RunInv, SortedInv

\* From the first save on, a file no save is due to holds what was recorded.
DiskInv ==
  /\ opts.write /\ save = "none"
       /\ pc \notin {"connect", "preflight", "read", "create", "unwind", "aborted"} =>
       file = "whole" /\ onDisk = Recorded
  /\ pc = "reported" => save = "none"

RecordsGroup == RecordUndecided \/ CheckDialects \/ EndCompile \/ StopAtGate
                  \/ StopAfterValidation \/ Halt

\* A group is a set of rows that have no result, and it is decided between saves;
\* only the rest of a pass that --fail-fast stopped is skipped, and only rows of
\* a run that executes nothing are reported as validated.
GroupOf(rows, status) ==
  /\ rows \in SUBSET DOMAIN book /\ rows \cap Recorded = {}
  /\ status \in [rows -> Statuses] /\ RecordAll(status)
  /\ save = "none" /\ UNCHANGED <<book, opts, file, onDisk, queried>>
  /\ pc \in {"undecided", "dialects", "compile", "gate", "halt"}
  /\ pc' \notin {"reported", "halt"} /\ (pc' = "execute" => pc = "dialects")
  /\ selected' \subseteq selected /\ (pc # "dialects" => UNCHANGED <<selected, failures>>)
  /\ pc = "halt" => rows = todo /\ \A i \in rows : status[i] = "SKIPPED"
  /\ \/ pc = "halt"
     \/ rows \cap selected' = {}
     \/ pc' = "gate" /\ \A i \in rows : status[i] = "ERROR"
     \/ \A i \in rows : status[i] = "NOT_EXECUTED"
     \/ opts.validate /\ \A i \in rows : status[i] = "VALIDATED"

LEMMA GroupSteps == ASSUME RunInv, RecordsGroup PROVE \E rows, status : GroupOf(rows, status)
<1>0. /\ selected \subseteq DOMAIN book /\ passed \subseteq DOMAIN book
      /\ todo \subseteq DOMAIN book /\ failures \subseteq DOMAIN book
      /\ pc \notin {"unwind", "aborted"} => Recorded = DOMAIN book \ Owed
  BY DEF RunInv, TypeOK, RecordedInv
<1>1. CASE RecordUndecided
  <2> DEFINE rows == DOMAIN book \ selected
             status == [i \in rows |-> IF book[i].kind = "invalid" THEN "ERROR" ELSE "SKIPPED"]
  <2>1. status \in [rows -> Statuses]
    BY DEF Statuses
  <2>2. RecordAll(status) /\ pc = "undecided" /\ save = "none" /\ pc' = "dialects"
    BY <1>1 DEF RecordUndecided
  <2>3. UNCHANGED <<book, opts, file, onDisk, queried, selected, failures>>
    BY <1>1 DEF RecordUndecided, given, progress, sent
  <2>4. rows \cap Recorded = {}
    BY <1>0, <2>2 DEF Owed
  <2> HIDE DEF status
  <2> QED
    BY <2>1, <2>2, <2>3, <2>4 DEF GroupOf
<1>2. CASE CheckDialects
  <2> DEFINE rows == Misfits
             status == [i \in rows |-> "ERROR"]
  <2>1. status \in [rows -> Statuses]
    BY DEF Statuses
  <2>2. /\ RecordAll(status) /\ pc = "dialects" /\ save = "none" /\ pc' \in {"compile", "execute"}
        /\ selected' = selected \ rows
    BY <1>2 DEF CheckDialects
  <2>3. UNCHANGED <<book, opts, file, onDisk, queried>>
    BY <1>2 DEF CheckDialects, given, sent
  <2>4. rows \subseteq selected /\ rows \cap Recorded = {}
    BY <1>0, <2>2 DEF Owed, Misfits
  <2> HIDE DEF status, rows
  <2>5. rows \in SUBSET DOMAIN book /\ rows \cap selected' = {}
    BY <1>0, <2>2, <2>4
  <2> QED
    BY <2>1, <2>2, <2>3, <2>4, <2>5 DEF GroupOf
<1>3. CASE EndCompile
  <2> DEFINE rows == FailuresToRecord
             status == [i \in rows |-> "ERROR"]
  <2>1. status \in [rows -> Statuses] /\ \A i \in rows : status[i] = "ERROR"
    BY DEF Statuses
  <2>2. RecordAll(status) /\ pc = "compile" /\ save = "none" /\ pc' = "gate"
    BY <1>3 DEF EndCompile
  <2>3. UNCHANGED <<book, opts, file, onDisk, queried, selected, failures>>
    BY <1>3 DEF EndCompile, given, progress, sent
  <2>4. rows \in SUBSET DOMAIN book /\ rows \cap Recorded = {}
    BY <1>0, <2>2 DEF Owed, FailuresToRecord
  <2> HIDE DEF status, rows
  <2> QED
    BY <2>1, <2>2, <2>3, <2>4 DEF GroupOf
<1>4. CASE StopAtGate
  <2> DEFINE rows == passed
             status == [i \in rows |-> "NOT_EXECUTED"]
  <2>1. status \in [rows -> Statuses] /\ \A i \in rows : status[i] = "NOT_EXECUTED"
    BY DEF Statuses
  <2>2. RecordAll(status) /\ pc = "gate" /\ save = "none" /\ pc' = "close"
    BY <1>4 DEF StopAtGate
  <2>3. UNCHANGED <<book, opts, file, onDisk, queried, selected, failures>>
    BY <1>4 DEF StopAtGate, given, progress, sent
  <2>4. rows \in SUBSET DOMAIN book /\ rows \cap Recorded = {}
    BY <1>0, <2>2 DEF Owed
  <2> HIDE DEF status, rows
  <2> QED
    BY <2>1, <2>2, <2>3, <2>4 DEF GroupOf
<1>5. CASE StopAfterValidation
  <2> DEFINE rows == passed
             status == [i \in rows |-> "VALIDATED"]
  <2>1. status \in [rows -> Statuses] /\ \A i \in rows : status[i] = "VALIDATED"
    BY DEF Statuses
  <2>2. RecordAll(status) /\ pc = "gate" /\ save = "none" /\ pc' = "close" /\ opts.validate
    BY <1>5 DEF StopAfterValidation
  <2>3. UNCHANGED <<book, opts, file, onDisk, queried, selected, failures>>
    BY <1>5 DEF StopAfterValidation, given, progress, sent
  <2>4. rows \in SUBSET DOMAIN book /\ rows \cap Recorded = {}
    BY <1>0, <2>2 DEF Owed
  <2> HIDE DEF status, rows
  <2> QED
    BY <2>1, <2>2, <2>3, <2>4 DEF GroupOf
<1>6. CASE Halt
  <2> DEFINE rows == todo
             status == [i \in rows |-> "SKIPPED"]
  <2>1. status \in [rows -> Statuses] /\ \A i \in rows : status[i] = "SKIPPED"
    BY DEF Statuses
  <2>2. RecordAll(status) /\ pc = "halt" /\ save = "none" /\ pc' \in {"close", "finish"}
    BY <1>6 DEF Halt, AfterLastRow
  <2>3. UNCHANGED <<book, opts, file, onDisk, queried, selected, failures>>
    BY <1>6 DEF Halt, given, sent
  <2>4. rows \in SUBSET DOMAIN book /\ rows \cap Recorded = {}
    BY <1>0, <2>2 DEF Owed
  <2> HIDE DEF status
  <2> QED
    BY <2>1, <2>2, <2>3, <2>4 DEF GroupOf
<1> QED
  BY <1>1, <1>2, <1>3, <1>4, <1>5, <1>6 DEF RecordsGroup

LEMMA GroupAdds ==
  ASSUME RunInv, NEW rows, NEW status, GroupOf(rows, status)
  PROVE  /\ Recorded' = Recorded \cup rows
         /\ save' = IF opts.write /\ rows # {} THEN "due" ELSE "none"
         /\ \A k \in DOMAIN results' :
              \/ k \in DOMAIN results /\ results'[k] = results[k]
              \/ results'[k].row \in rows /\ results'[k].status = status[results'[k].row]
<1>1. /\ rows \in SUBSET DOMAIN book /\ rows \cap Recorded = {}
      /\ status \in [rows -> Statuses] /\ RecordAll(status)
  BY DEF GroupOf
<1>2. save' = IF opts.write /\ rows # {} THEN "due" ELSE "none"
  BY <1>1 DEF RecordAll
<1> QED
  BY <1>1, <1>2, RecordAllAdds DEF RunInv

\* A step of execute_case: the row ends with a result, its first side answered, or
\* the run is left. Only a row whose last query was sent gets another status than ERROR.
LastSent == left = {NextSide} /\ <<Row, NextSide>> \in queried'

RowSteps == RefuseRow \/ FirstSideAnswers \/ QueryFails \/ ResultEscapes
              \/ \E status \in {"PASS", "FAIL", "ERROR", "PROFILED"} : LastSideAnswers(status)

RowStep ==
  /\ UNCHANGED <<book, opts, selected, file, onDisk>>
  /\ pc = "execute" /\ todo # {} /\ save = "none"
  /\ queried' = queried \/ queried' = queried \cup {<<Row, NextSide>>}
  /\ \/ /\ UNCHANGED <<pc, save, todo, results>>
        /\ left' = left \ {NextSide} /\ <<Row, NextSide>> \in queried'
     \/ \E status \in Statuses : (status = "ERROR" \/ LastSent) /\ EndRow(status)
     \/ /\ UNCHANGED <<save, todo, left>> /\ pc' = "unwind"
        /\ \/ UNCHANGED results
           \/ \E status \in Statuses :
                /\ status = "ERROR" \/ LastSent
                /\ results' = Append(results, [row |-> Row, status |-> status])

LEMMA RowStepsAre == ASSUME RowSteps PROVE RowStep
<1>1. CASE RefuseRow
  BY <1>1 DEF RefuseRow, RowStep, given, sent, Statuses
<1>2. CASE FirstSideAnswers
  BY <1>2 DEF FirstSideAnswers, Sends, RowStep, given, disk
<1>3. CASE QueryFails
  BY <1>3 DEF QueryFails, Sends, RowStep, given, Statuses
<1>4. CASE ResultEscapes
  BY <1>4 DEF ResultEscapes, Sends, RowStep, Unwind, LastSent, given, progress, disk, Statuses
<1>5. ASSUME NEW status \in {"PASS", "FAIL", "ERROR", "PROFILED"}, LastSideAnswers(status)
      PROVE  RowStep
  <2>1. status \in Statuses
    BY DEF Statuses
  <2> QED
    BY <1>5, <2>1 DEF LastSideAnswers, Sends, RowStep, LastSent, given
<1> QED
  BY <1>1, <1>2, <1>3, <1>4, <1>5 DEF RowSteps

\* The other steps neither record, select, take a row nor send a query.
Quiet ==
  /\ UNCHANGED <<book, opts, selected, todo, left, failures, results, queried>>
  /\ pc' = pc \/ pc' \notin {"compile", "gate", "execute", "halt"}

CompilesRow == CompileFails \/ \E answer \in {"compiled", "unavailable"} : CompileSide(answer)

LEMMA StepKinds ==
  ASSUME [Next]_vars
  PROVE  RecordsGroup \/ RowSteps \/ CompilesRow \/ ReadAndSelect \/ PassGate \/ Quiet
<1>1. CASE UNCHANGED vars \/ Over
  BY <1>1 DEF Over, vars, Quiet, given, progress, sent
<1>2. CASE Save \/ Interrupt
  BY <1>2 DEF Save, Interrupt, OpenFile, FileWritten, SaveFails, Unwind, Quiet, given, progress, sent
<1>3. CASE End
  BY <1>3 DEF End, Finish, EndClose, Report, CloseSession, Quiet, given, progress, sent
<1>4. CASE Start
  <2>1. CASE ConnectFails \/ Preflight \/ CreateFile \/ CreateRefused \/ \E s \in Side : Connect(s)
    BY <2>1 DEF ConnectFails, Preflight, CreateFile, CreateRefused, Connect, Unwind, Quiet, given,
       progress, sent
  <2> QED
    BY <1>4, <2>1 DEF Start, RecordsGroup
<1>5. CASE Compile
  BY <1>5 DEF Compile, RecordsGroup, CompilesRow
<1>6. CASE Execute
  <2>1. CASE EndExecution
    BY <2>1 DEF EndExecution, AfterLastRow, Quiet, given, progress, sent
  <2> QED
    BY <1>6, <2>1 DEF Execute, RecordsGroup, RowSteps
<1> QED
  BY <1>1, <1>2, <1>3, <1>4, <1>5, <1>6 DEF Next, Step

LEMMA DiskStep == RunInv /\ DiskInv /\ [Next]_vars => DiskInv'
<1> SUFFICES ASSUME RunInv, DiskInv, [Next]_vars PROVE DiskInv'
  OBVIOUS
<1> DEFINE Early == {"connect", "preflight", "read", "create", "unwind", "aborted"}
<1>1. CASE RecordsGroup
  <2>1. PICK rows, status : GroupOf(rows, status)
    BY <1>1, GroupSteps
  <2>2. Recorded' = Recorded \cup rows /\ save' = IF opts.write /\ rows # {} THEN "due" ELSE "none"
    BY <2>1, GroupAdds
  <2> QED
    BY <2>1, <2>2 DEF DiskInv, GroupOf
<1>2. CASE RowSteps
  <2>1. RowStep
    BY <1>2, RowStepsAre
  <2>2. CASE UNCHANGED <<pc, save, results>>
    BY <2>1, <2>2 DEF RowStep, DiskInv, Recorded
  <2>3. CASE pc' = "unwind"
    BY <2>1, <2>3 DEF RowStep, DiskInv
  <2>4. CASE \E status \in Statuses : EndRow(status)
    BY <2>1, <2>4 DEF RowStep, DiskInv, EndRow, RecordOne
  <2> QED
    BY <2>1, <2>2, <2>3, <2>4 DEF RowStep
<1>3. CASE OpenFile
  BY <1>3 DEF OpenFile, DiskInv, given
<1>4. CASE FileWritten
  BY <1>4 DEF FileWritten, DiskInv, Recorded, given
<1>5. CASE CreateFile \/ Finish
  BY <1>5 DEF CreateFile, Finish, DiskInv, Recorded, given
<1>6. CASE pc' \in Early
  BY <1>6 DEF DiskInv
<1>7. CASE /\ UNCHANGED <<opts, results, disk>> /\ pc \notin Early
           /\ pc' = "reported" => save = "none"
  BY <1>7 DEF DiskInv, Recorded, disk
<1>8. CASE UNCHANGED <<opts, results, disk, pc>>
  BY <1>8 DEF DiskInv, Recorded, disk
<1>9. CASE CompilesRow \/ PassGate
  BY <1>7, <1>9 DEF CompilesRow, CompileFails, CompileSide, PassGate, given
<1>10. CASE Start
  BY <1>1, <1>5, <1>6, <1>10 DEF Start, ConnectFails, Preflight, ReadAndSelect, CreateRefused,
     Connect, Unwind, RecordsGroup
<1>11. CASE End
  BY <1>5, <1>6, <1>7, <1>8, <1>11 DEF End, EndClose, Report, CloseSession, given
<1>12. CASE SaveFails \/ Interrupt
  BY <1>6, <1>12 DEF SaveFails, Interrupt, Unwind
<1>13. CASE UNCHANGED vars \/ Over
  BY <1>8, <1>13 DEF Over, vars, given
<1>14. CASE EndExecution
  BY <1>7, <1>14 DEF EndExecution, AfterLastRow, given
<1>15. CASE Compile \/ Execute
  BY <1>1, <1>2, <1>9, <1>14, <1>15 DEF Compile, Execute, CompilesRow, RecordsGroup, RowSteps
<1> QED
  BY <1>3, <1>4, <1>10, <1>11, <1>12, <1>13, <1>15 DEF Next, Step, Save

\* ReconciliationRunner.run and _finish: no row is recorded twice, and a run that returns
\* its summary recorded every row of its sheet, in an output file that is whole.
THEOREM RunnerEveryRowReportedOnce == Spec => []EveryRowReportedOnce
<1>1. Init => RunInv /\ DiskInv
  BY RunInit DEF Init, DiskInv
<1>2. RunInv /\ DiskInv => EveryRowReportedOnce
  <2> SUFFICES ASSUME RunInv, DiskInv
               PROVE  /\ Len(results) = Cardinality(Recorded)
                      /\ pc = "reported" =>
                           /\ Recorded = DOMAIN book
                           /\ opts.write => file = "whole" /\ onDisk = DOMAIN book
    BY DEF EveryRowReportedOnce
  <2>1. /\ Len(results) = Cardinality(Recorded)
        /\ pc = "reported" => Recorded = DOMAIN book
    BY DEF RunInv, RecordedInv, Owed
  <2> QED
    BY <2>1 DEF DiskInv
<1> QED
  BY <1>1, <1>2, RunStep, DiskStep, PTL DEF Spec

----------------------------------------------------------------------------
\* What has been executed.

LEMMA UnexecutedYet == ASSUME RunInv, pc \in Before PROVE Executed = {}
  BY DEF RunInv, GateInv, UnexecutedInv, Executed

\* Rows are executed in row order, and none of those --fail-fast leaves was.
QueriedInv ==
  /\ pc = "execute" => \A i \in Executed, j \in todo : i <= j
  /\ pc = "halt" => Executed \cap todo = {}

LEMMA RowAtHand ==
  ASSUME RunInv, QueriedInv, RowStep
  PROVE  /\ Row \in todo /\ Row \in DOMAIN book /\ Row \in selected /\ Row \notin Recorded
         /\ \A j \in todo : Row <= j
         /\ \A i \in Executed' : i <= Row
         /\ Executed' \subseteq Executed \cup {Row}
         /\ DOMAIN book \subseteq Nat
<1>1. pc = "execute" /\ todo # {} /\ book' = book
  BY DEF RowStep
<1>2. Row \in todo /\ Row \in DOMAIN book /\ Row \in selected /\ Row \notin Recorded
  BY <1>1, RowIsOwed, RowOfSheet DEF RunInv
<1>3. DOMAIN book \subseteq Nat /\ todo \in SUBSET Nat
  BY SheetOf DEF RunInv, TypeOK
<1>4. \A j \in todo : Row <= j
  BY <1>1, <1>3, FirstOf DEF Row
<1>5. Executed' \subseteq Executed \cup {Row}
  BY <1>1 DEF RowStep, Executed
<1>6. Row <= Row
  BY <1>2, <1>3
<1>7. \A i \in Executed : i <= Row
  BY <1>1, <1>2 DEF QueriedInv
<1> QED
  BY <1>2, <1>3, <1>4, <1>5, <1>6, <1>7

LEMMA QueriedStep == RunInv /\ QueriedInv /\ [Next]_vars => QueriedInv'
<1> SUFFICES ASSUME RunInv, QueriedInv, [Next]_vars PROVE QueriedInv'
  OBVIOUS
<1>1. CASE RecordsGroup
  <2>1. PICK rows, status : GroupOf(rows, status)
    BY <1>1, GroupSteps
  <2>2. Executed' = Executed /\ pc' # "halt" /\ (pc' = "execute" => pc = "dialects")
    BY <2>1 DEF GroupOf, Executed
  <2>3. pc = "dialects" => Executed = {}
    BY UnexecutedYet DEF Before
  <2> QED
    BY <2>2, <2>3 DEF QueriedInv
<1>2. CASE RowSteps
  <2>1. RowStep
    BY <1>2, RowStepsAre
  <2>2. /\ Row \in todo /\ \A j \in todo : Row <= j /\ \A i \in Executed' : i <= Row
        /\ Executed' \subseteq DOMAIN book /\ todo \subseteq Nat /\ DOMAIN book \subseteq Nat
    <3>1. Executed' \subseteq DOMAIN book /\ todo \subseteq DOMAIN book
      BY <2>1 DEF Executed, RowStep, RunInv, TypeOK
    <3> QED
      BY <2>1, <3>1, RowAtHand
  <2>3. \A i \in Executed', j \in todo : i <= j
    BY <2>2
  <2>4. CASE UNCHANGED <<pc, todo>>
    BY <2>1, <2>3, <2>4 DEF RowStep, QueriedInv
  <2>5. CASE pc' = "unwind"
    BY <2>5 DEF QueriedInv
  <2>6. CASE \E status \in Statuses : EndRow(status)
    <3>1. todo' = todo \ {Row}
      BY <2>6 DEF EndRow, Load
    <3>2. \A i \in Executed' : i \notin todo'
      BY <2>2, <2>3, <3>1
    <3> QED
      BY <2>3, <3>1, <3>2 DEF QueriedInv
  <2> QED
    BY <2>1, <2>4, <2>5, <2>6 DEF RowStep
<1>3. CASE Quiet
  BY <1>3 DEF Quiet, QueriedInv, Executed
<1>4. CASE ReadAndSelect \/ CompilesRow
  <2>1. pc' \notin {"execute", "halt"}
    BY <1>4 DEF ReadAndSelect, CompilesRow, CompileFails, CompileSide, Unwind
  <2> QED
    BY <2>1 DEF QueriedInv
<1>5. CASE PassGate
  <2>1. Executed = {} /\ Executed' = Executed /\ pc' = "execute"
    BY <1>5, UnexecutedYet DEF PassGate, Before, Executed, given, sent
  <2> QED
    BY <2>1 DEF QueriedInv
<1> QED
  BY <1>1, <1>2, <1>3, <1>4, <1>5, StepKinds

\* A file that can be opened lacks the result of one executed row at the most.
BehindInv ==
  opts.write /\ file # "torn" => \E i \in Nat : (Executed \cap Recorded) \ onDisk \subseteq {i}

\* Between saves the file is not behind at all.
LEMMA DiskKept ==
  ASSUME DiskInv, opts.write, save = "none",
         pc \in {"undecided", "dialects", "compile", "gate", "execute", "halt"}
  PROVE  onDisk = Recorded
  BY DEF DiskInv

LEMMA BehindStep == RunInv /\ DiskInv /\ QueriedInv /\ BehindInv /\ [Next]_vars => BehindInv'
<1> SUFFICES ASSUME RunInv, DiskInv, QueriedInv, BehindInv, [Next]_vars,
                    opts'.write, file' # "torn"
             PROVE  \E i \in Nat : (Executed' \cap Recorded') \ onDisk' \subseteq {i}
  BY DEF BehindInv
<1>1. CASE RecordsGroup
  <2>1. PICK rows, status : GroupOf(rows, status)
    BY <1>1, GroupSteps
  <2>2. Recorded' = Recorded \cup rows /\ Executed' = Executed /\ onDisk' = onDisk
    BY <2>1, GroupAdds DEF GroupOf, Executed
  <2>3. onDisk = Recorded
    BY <2>1, DiskKept DEF GroupOf
  <2>4. Executed \cap rows = {}
    <3>1. CASE pc = "halt"
      BY <2>1, <3>1 DEF GroupOf, QueriedInv
    <3>2. CASE pc \in Before
      BY <3>2, UnexecutedYet
    <3> QED
      BY <2>1, <3>1, <3>2 DEF GroupOf, Before
  <2>5. (Executed' \cap Recorded') \ onDisk' \subseteq {0}
    BY <2>2, <2>3, <2>4
  <2> QED
    BY <2>5
<1>2. CASE RowSteps
  <2>1. RowStep
    BY <1>2, RowStepsAre
  <2>2. onDisk = Recorded /\ onDisk' = onDisk
    BY <2>1, DiskKept DEF RowStep
  <2>3. Row \in DOMAIN book /\ Row \in Nat /\ Row \notin Recorded
    BY <2>1, RowAtHand
  <2>4. Recorded' \subseteq Recorded \cup {Row}
    <3>1. CASE UNCHANGED results
      BY <3>1 DEF Recorded
    <3>2. CASE \E status \in Statuses :
                 results' = Append(results, [row |-> Row, status |-> status])
      BY <2>3, <3>2, OneResultAdds DEF RunInv
    <3> QED
      BY <2>1, <3>1, <3>2 DEF RowStep, EndRow, RecordOne
  <2>5. (Executed' \cap Recorded') \ onDisk' \subseteq {Row}
    BY <2>2, <2>4
  <2> QED
    BY <2>3, <2>5
<1>3. CASE FileWritten
  <2>1. onDisk' = Recorded /\ Recorded' = Recorded
    BY <1>3 DEF FileWritten, Recorded
  <2>2. (Executed' \cap Recorded') \ onDisk' \subseteq {0}
    BY <2>1
  <2> QED
    BY <2>2
<1>4. CASE UNCHANGED <<opts, file, onDisk, queried, results, book>>
  <2>1. Executed' = Executed /\ Recorded' = Recorded
    BY <1>4 DEF Executed, Recorded
  <2> QED
    BY <1>4, <2>1 DEF BehindInv
<1>5. CASE OpenFile
  BY <1>5 DEF OpenFile
<1>6. CASE CompilesRow \/ PassGate
  BY <1>4, <1>6 DEF CompilesRow, CompileFails, CompileSide, PassGate, given, disk, sent
<1>7. CASE Start
  BY <1>1, <1>4, <1>7 DEF Start, ConnectFails, Preflight, ReadAndSelect, CreateFile, CreateRefused,
     Connect, Unwind, RecordsGroup, given, disk, sent
<1>8. CASE End \/ SaveFails \/ Interrupt
  BY <1>4, <1>8 DEF End, Finish, EndClose, Report, CloseSession, SaveFails, Interrupt, given, disk,
     sent
<1>9. CASE UNCHANGED vars \/ Over \/ EndExecution
  BY <1>4, <1>9 DEF Over, EndExecution, vars, given, disk, sent
<1>10. CASE Compile \/ Execute
  BY <1>1, <1>2, <1>6, <1>9, <1>10 DEF Compile, Execute, CompilesRow, RecordsGroup, RowSteps
<1> QED
  BY <1>3, <1>5, <1>7, <1>8, <1>9, <1>10 DEF Next, Step, Save

\* ResultWriter: whatever interrupts a run, a result file that can be opened is at
\* most one executed test behind it.
THEOREM RunnerDiskFollowsTheRun == Spec => []DiskFollowsTheRun
<1>1. Init => RunInv /\ DiskInv /\ QueriedInv /\ BehindInv
  <2> SUFFICES ASSUME Init PROVE RunInv /\ DiskInv /\ QueriedInv /\ BehindInv
    OBVIOUS
  <2>1. Executed = {} /\ pc \notin {"execute", "halt", "reported"}
    BY DEF Init, Executed
  <2>2. (Executed \cap Recorded) \ onDisk \subseteq {0}
    BY <2>1
  <2> QED
    BY <2>1, <2>2, RunInit DEF Init, DiskInv, QueriedInv, BehindInv
<1>2. BehindInv => DiskFollowsTheRun
  <2> SUFFICES ASSUME BehindInv, opts.write, file # "torn"
               PROVE  Cardinality((Executed \cap Recorded) \ onDisk) <= 1
    BY DEF DiskFollowsTheRun
  <2> DEFINE behind == (Executed \cap Recorded) \ onDisk
  <2>1. PICK i \in Nat : behind \in SUBSET {i}
    BY DEF BehindInv
  <2>2. IsFiniteSet({i}) /\ Cardinality({i}) = 1
    BY FS_Singleton
  <2>3. Cardinality(behind) <= Cardinality({i})
    BY <2>1, <2>2, FS_Subset, Zenon
  <2> QED
    BY <2>2, <2>3
<1> QED
  BY <1>1, <1>2, RunStep, DiskStep, QueriedStep, BehindStep, PTL DEF Spec

----------------------------------------------------------------------------
\* What --fail-fast stops, and what a clean run has executed.

\* Nothing is executed past a selected row whose result is not PASS.
HaltInv ==
  opts.failFast =>
    \A k \in DOMAIN results, i \in Executed :
      results[k].row \in selected /\ results[k].status \notin {"PASS", "SKIPPED"} =>
        i <= results[k].row

\* While a run under --fail-fast executes, all it executed passed. The rows that were
\* rejected before do not count: with a gate in front of the pass there are none.
FastInv ==
  /\ HaltInv
  /\ opts.failFast /\ pc = "execute" =>
       \A k \in DOMAIN results : results[k].row \in selected => results[k].status = "PASS"
  /\ pc \in {"compile", "gate"} => CompilesFirst
  /\ pc = "halt" => opts.failFast

LEMMA FirstHalfKeepsFast ==
  ASSUME Executed' = {}, pc' \notin {"execute", "halt"},
         pc' \in {"compile", "gate"} => CompilesFirst'
  PROVE  FastInv'
  BY DEF FastInv, HaltInv

LEMMA FastStep == RunInv /\ QueriedInv /\ FastInv /\ [Next]_vars => FastInv'
<1> SUFFICES ASSUME RunInv, QueriedInv, FastInv, [Next]_vars PROVE FastInv'
  OBVIOUS
<1>1. CASE RecordsGroup /\ ~CheckDialects
  <2>1. PICK rows, status : GroupOf(rows, status)
    BY <1>1, GroupSteps
  <2>2. /\ Executed' = Executed /\ UNCHANGED opts /\ pc' \notin {"execute", "halt"}
        /\ pc' \in {"compile", "gate"} => pc \in {"compile", "gate"}
    <3>1. /\ pc' \notin {"execute", "halt"}
          /\ pc' \in {"compile", "gate"} => pc \in {"compile", "gate"}
      BY <1>1 DEF RecordsGroup, RecordUndecided, EndCompile, StopAtGate, StopAfterValidation, Halt,
         AfterLastRow
    <3> QED
      BY <2>1, <3>1 DEF GroupOf, Executed
  <2>3. pc' \in {"compile", "gate"} => CompilesFirst'
    BY <2>2 DEF FastInv, CompilesFirst
  <2>4. CASE pc \in Before
    <3>1. Executed' = {}
      BY <2>2, <2>4, UnexecutedYet
    <3> QED
      BY <2>2, <2>3, <3>1, FirstHalfKeepsFast
  <2>5. CASE pc = "halt"
    <3>1. /\ selected' = selected /\ opts' = opts
          /\ \A i \in rows : status[i] = "SKIPPED"
      BY <1>1, <2>1, <2>5 DEF RecordsGroup, RecordUndecided, EndCompile, StopAtGate,
         StopAfterValidation, Halt, GroupOf
    <3>2. \A k \in DOMAIN results' :
            \/ k \in DOMAIN results /\ results'[k] = results[k]
            \/ results'[k].status = "SKIPPED"
      BY <2>1, <3>1, GroupAdds
    <3> QED
      BY <2>2, <2>3, <3>1, <3>2 DEF FastInv, HaltInv
  <2> QED
    BY <2>1, <2>4, <2>5 DEF GroupOf, Before
<1>2. CASE CheckDialects
  <2>1. /\ pc = "dialects" /\ selected' = selected \ Misfits /\ UNCHANGED <<book, opts, queried>>
        /\ pc' = IF CompilesFirst THEN "compile" ELSE "execute"
    BY <1>2 DEF CheckDialects, given, sent
  <2>2. Executed' = {}
    BY <2>1, UnexecutedYet DEF Before, Executed
  <2>3. pc' \in {"compile", "execute"} => Recorded' \cap selected' = {}
    <3>1. RunInv'
      BY RunStep
    <3>2. pc' = "compile" => Recorded' \cap selected' = {}
      BY <3>1 DEF RunInv, RecordedInv, Owed
    <3>3. pc' = "execute" => Recorded' \cap todo' = {} /\ todo' = selected'
      BY <1>2, <3>1 DEF RunInv, RecordedInv, Owed, CheckDialects, Load
    <3> QED
      BY <3>2, <3>3
  <2>4. pc' = "execute" => \A k \in DOMAIN results' : results'[k].row \notin selected'
    BY <2>3 DEF Recorded
  <2>5. CompilesFirst' = CompilesFirst
    BY <2>1 DEF CompilesFirst
  <2> QED
    BY <2>1, <2>2, <2>4, <2>5 DEF FastInv, HaltInv
<1>3. CASE RowSteps
  <2>1. RowStep
    BY <1>3, RowStepsAre
  <2>2. UNCHANGED <<opts, selected>> /\ pc = "execute" /\ (opts.failFast =>
          \A k \in DOMAIN results : results[k].row \in selected => results[k].status = "PASS")
    BY <2>1 DEF RowStep, FastInv
  <2>3. Row \in DOMAIN book /\ Row \notin Recorded /\ \A i \in Executed' : i <= Row
    BY <2>1, RowAtHand
  <2>4. CASE results' = results
    <3>1. pc' \in {"execute", "unwind"} \/ \E status \in Statuses : EndRow(status)
      BY <2>1, <2>2 DEF RowStep
    <3>2. pc' \in {"execute", "unwind"} \/ (pc' = "halt" /\ opts.failFast)
      BY <2>2, <3>1 DEF EndRow, Halts
    <3> QED
      BY <2>2, <2>4, <3>2 DEF FastInv, HaltInv
  <2>5. ASSUME NEW status \in Statuses, results' = Append(results, [row |-> Row, status |-> status]),
               \/ pc' = "unwind"
               \/ pc' = IF Halts(status) THEN "halt" ELSE "execute"
        PROVE  FastInv'
    <3>1. \A k \in DOMAIN results' : \/ k \in DOMAIN results /\ results'[k] = results[k]
                                    \/ results'[k] = [row |-> Row, status |-> status]
      BY <2>3, <2>5, OneResultAdds DEF RunInv
    <3>2. HaltInv'
      BY <2>2, <2>3, <3>1 DEF HaltInv
    <3>3. opts.failFast /\ pc' = "execute" => status = "PASS"
      BY <2>5 DEF Halts
    <3>4. pc' = "halt" => opts.failFast
      BY <2>5 DEF Halts
    <3> QED
      BY <2>2, <2>5, <3>1, <3>2, <3>3, <3>4 DEF FastInv
  <2>6. ASSUME NEW status \in Statuses, EndRow(status) PROVE FastInv'
    BY <2>2, <2>5, <2>6 DEF EndRow, RecordOne
  <2> QED
    BY <2>1, <2>4, <2>5, <2>6 DEF RowStep
<1>4. CASE CompilesRow
  <2>1. UNCHANGED <<opts, queried, book, pc>> /\ pc = "compile"
    BY <1>4 DEF CompilesRow, CompileFails, CompileSide, given
  <2>2. Executed' = {} /\ CompilesFirst' = CompilesFirst
    BY <2>1, UnexecutedYet DEF Before, Executed, CompilesFirst
  <2> QED
    BY <2>1, <2>2, FirstHalfKeepsFast DEF FastInv
<1>5. CASE ReadAndSelect
  <2>1. UNCHANGED <<opts, queried, book>> /\ pc = "read" /\ pc' \in {"unwind", "create"}
    BY <1>5 DEF ReadAndSelect, Unwind, given, sent
  <2>2. Executed' = {}
    BY <2>1, UnexecutedYet DEF Before, Executed
  <2> QED
    BY <2>1, <2>2, FirstHalfKeepsFast
<1>6. CASE PassGate
  <2>1. /\ UNCHANGED <<opts, queried, book, selected, results>> /\ pc = "gate" /\ pc' = "execute"
        /\ ~opts.validate /\ ~(failures # {} /\ opts.stop)
    BY <1>6 DEF PassGate, GateClosed, given, sent
  <2>2. Executed' = {}
    BY <2>1, UnexecutedYet DEF Before, Executed
  <2>3. failures = {}
    BY <2>1 DEF FastInv, CompilesFirst
  <2>4. Recorded = DOMAIN book \ selected
    BY <2>1, <2>3 DEF RunInv, RecordedInv, SortedInv, Owed
  <2>5. \A k \in DOMAIN results : results[k].row \notin selected
    BY <2>4 DEF Recorded
  <2> QED
    BY <2>1, <2>2, <2>5 DEF FastInv, HaltInv
<1>7. CASE Quiet
  <2>1. Executed' = Executed /\ CompilesFirst' = CompilesFirst
    BY <1>7 DEF Quiet, Executed, CompilesFirst
  <2> QED
    BY <1>7, <2>1 DEF Quiet, FastInv, HaltInv
<1> QED
  BY <1>1, <1>2, <1>3, <1>4, <1>5, <1>6, <1>7, StepKinds

\* The rows behind a problem are skipped. What is recorded before the execution is not
\* selected, or failed a check; a pass takes its rows in order, so that those it has
\* dealt with come before those it has not.
SkippedInv ==
  /\ pc \in Before => \A k \in DOMAIN results : ~Problem(results[k])
  /\ opts.failFast => \A k, j \in DOMAIN results :
       Problem(results[k]) /\ results[j].row \in selected /\ results[k].row < results[j].row =>
         results[j].status = "SKIPPED"
  /\ pc = "execute" => \A i \in selected \ todo, j \in todo : i < j

LEMMA SkippedStep == RunInv /\ QueriedInv /\ FastInv /\ SkippedInv /\ [Next]_vars => SkippedInv'
<1> SUFFICES ASSUME RunInv, QueriedInv, FastInv, SkippedInv, [Next]_vars PROVE SkippedInv'
  OBVIOUS
<1>0. RunInv'
  BY RunStep
<1>1. ASSUME pc' \in Before PROVE SkippedInv'
  <2>1. ASSUME NEW k \in DOMAIN results' PROVE ~Problem(results[k])'
    <3>1. results'[k].row \notin Owed'
      BY <1>0, <1>1 DEF RunInv, RecordedInv, Recorded, Before
    <3>2. results'[k].row \in selected' \ failures' => results'[k].row \in Owed'
      BY <1>0, <1>1 DEF RunInv, TypeOK, SortedInv, Owed, Before
    <3> QED
      BY <3>1, <3>2 DEF Problem
  <2>2. pc' # "execute"
    BY <1>1 DEF Before
  <2> QED
    BY <2>1, <2>2 DEF SkippedInv, Problem
<1>2. CASE RecordsGroup /\ ~CheckDialects
  <2>1. PICK rows, status : GroupOf(rows, status)
    BY <1>2, GroupSteps
  <2>2. pc' # "execute" /\ UNCHANGED opts
    BY <1>2, <2>1 DEF GroupOf, RecordsGroup, RecordUndecided, EndCompile, StopAtGate,
       StopAfterValidation, Halt, AfterLastRow
  <2>3. CASE pc \in {"undecided", "compile"}
    <3>1. pc' \in Before
      BY <1>2, <2>3 DEF RecordsGroup, RecordUndecided, EndCompile, StopAtGate,
         StopAfterValidation, Halt, Before
    <3> QED
      BY <1>1, <3>1
  <2>4. CASE pc \in {"gate", "halt"}
    <3>1. UNCHANGED <<selected, failures>>
      BY <2>1, <2>4 DEF GroupOf
    <3>2. pc' \in {"close", "finish"}
      BY <1>2, <2>4 DEF RecordsGroup, RecordUndecided, EndCompile, StopAtGate,
         StopAfterValidation, Halt, AfterLastRow
    <3>3. \A i \in rows : i \in selected => status[i] \notin {"FAIL", "ERROR"}
      BY <2>1, <3>1, <3>2 DEF GroupOf
    <3>4. pc = "halt" => \A i \in rows : status[i] = "SKIPPED"
      BY <2>1 DEF GroupOf
    <3>5. pc = "gate" => \A k \in DOMAIN results : ~Problem(results[k])
      BY DEF SkippedInv, Before
    <3>6. \A k \in DOMAIN results' : \/ k \in DOMAIN results /\ results'[k] = results[k]
                                    \/ /\ results'[k].row \in rows
                                       /\ results'[k].status = status[results'[k].row]
      BY <2>1, GroupAdds
    <3>7. ASSUME NEW k \in DOMAIN results', Problem(results[k])'
          PROVE  k \in DOMAIN results /\ results'[k] = results[k] /\ Problem(results[k]) /\ pc = "halt"
      BY <2>4, <3>1, <3>3, <3>5, <3>6, <3>7 DEF Problem
    <3>8. ASSUME opts'.failFast, NEW k \in DOMAIN results', NEW j \in DOMAIN results',
                 Problem(results[k])', results'[j].row \in selected', results'[k].row < results'[j].row
          PROVE  results'[j].status = "SKIPPED"
      <4>1. k \in DOMAIN results /\ results'[k] = results[k] /\ Problem(results[k]) /\ pc = "halt"
        BY <3>7, <3>8
      <4>2. CASE j \in DOMAIN results /\ results'[j] = results[j]
        BY <2>2, <3>1, <3>8, <4>1, <4>2 DEF SkippedInv
      <4>3. CASE results'[j].row \in rows /\ results'[j].status = status[results'[j].row]
        BY <3>4, <4>1, <4>3
      <4> QED
        BY <3>6, <4>2, <4>3
    <3> QED
      BY <2>2, <3>2, <3>8 DEF SkippedInv, Before
  <2> QED
    BY <1>2, <2>1, <2>3, <2>4 DEF GroupOf, RecordsGroup, RecordUndecided, EndCompile, StopAtGate,
       StopAfterValidation, Halt
<1>3. CASE CheckDialects
  <2>1. pc' = "compile" \/ (pc' = "execute" /\ todo' = selected')
    BY <1>3 DEF CheckDialects, Load
  <2>2. ASSUME pc' = "execute", todo' = selected' PROVE SkippedInv'
    <3>1. \A k \in DOMAIN results' : results'[k].row \notin selected'
      BY <1>0, <2>2 DEF RunInv, RecordedInv, Recorded, Owed
    <3> QED
      BY <2>2, <3>1 DEF SkippedInv, Before
  <2> QED
    BY <1>1, <2>1, <2>2 DEF Before
<1>4. CASE RowSteps
  <2>1. RowStep
    BY <1>4, RowStepsAre
  <2>2. /\ UNCHANGED <<opts, selected>> /\ pc = "execute"
        /\ \A i \in selected \ todo, j \in todo : i < j
        /\ opts.failFast => \A k \in DOMAIN results : results[k].row \in selected =>
             results[k].status = "PASS"
    BY <2>1 DEF RowStep, FastInv, SkippedInv
  <2>3. /\ Row \in todo /\ Row \in DOMAIN book /\ Row \notin Recorded
        /\ \A j \in todo : Row <= j
        /\ todo \subseteq Nat /\ selected \subseteq Nat
    BY <2>1, RowAtHand, SheetOf DEF RunInv, TypeOK
  <2>4. \A k \in DOMAIN results : results[k].row \in selected => results[k].row < Row
    <3>1. \A k \in DOMAIN results : results[k].row \notin todo
      BY <2>2 DEF RunInv, RecordedInv, Recorded, Owed
    <3> QED
      BY <2>2, <2>3, <3>1
  <2>5. pc' = "execute" => \A i \in selected' \ todo', j \in todo' : i < j
    <3>1. pc' = "execute" => todo' = todo \/ todo' = todo \ {Row}
      BY <2>1 DEF RowStep, EndRow, Load
    <3> QED
      BY <2>2, <2>3, <3>1
  <2>6. \/ results' = results
        \/ \E status \in Statuses : results' = Append(results, [row |-> Row, status |-> status])
    BY <2>1 DEF RowStep, EndRow, RecordOne
  <2>7. \A k \in DOMAIN results' : \/ k \in DOMAIN results /\ results'[k] = results[k]
                                  \/ results'[k].row = Row
    <3>1. CASE results' = results
      BY <3>1
    <3>2. ASSUME NEW status \in Statuses,
                 results' = Append(results, [row |-> Row, status |-> status])
          PROVE  \A k \in DOMAIN results' : \/ k \in DOMAIN results /\ results'[k] = results[k]
                                          \/ results'[k].row = Row
      <4>1. \A k \in DOMAIN results' : \/ k \in DOMAIN results /\ results'[k] = results[k]
                                      \/ results'[k] = [row |-> Row, status |-> status]
        BY <2>3, <3>2, OneResultAdds DEF RunInv
      <4>2. [row |-> Row, status |-> status].row = Row
        OBVIOUS
      <4> QED
        BY <4>1, <4>2
    <3> QED
      BY <2>6, <3>1, <3>2
  <2>8. ASSUME opts'.failFast, NEW k \in DOMAIN results', NEW j \in DOMAIN results',
               Problem(results[k])', results'[j].row \in selected', results'[k].row < results'[j].row
        PROVE  FALSE
    <3>1. results'[k].row \in selected /\ results'[k].status # "PASS"
      BY <2>2, <2>8 DEF Problem
    <3>2. results'[k].row = Row
      BY <2>2, <2>7, <2>8, <3>1
    <3>3. results'[j].row \in selected
      BY <2>2, <2>8
    <3>4. results'[j].row = Row \/ results'[j].row < Row
      BY <2>4, <2>7, <3>3
    <3>5. results'[j].row \in Nat /\ Row \in Nat
      BY <2>3, <3>3
    <3> QED
      BY <2>8, <3>2, <3>4, <3>5
  <2>9. pc' \notin Before
    BY <2>1 DEF RowStep, EndRow, Before
  <2> QED
    BY <2>5, <2>8, <2>9 DEF SkippedInv
<1>5. CASE CompilesRow
  BY <1>1, <1>5 DEF CompilesRow, CompileFails, CompileSide, Before
<1>6. CASE ReadAndSelect
  <2>1. pc = "read" /\ results' = results /\ pc' # "execute"
    BY <1>6 DEF ReadAndSelect, Unwind
  <2>2. Recorded = {}
    BY <2>1 DEF RunInv, RecordedInv, Owed
  <2> QED
    BY <2>1, <2>2 DEF SkippedInv, Recorded
<1>7. CASE PassGate
  <2>1. /\ UNCHANGED <<opts, selected, failures, results>> /\ pc = "gate" /\ todo' = passed
        /\ ~opts.validate /\ ~(failures # {} /\ opts.stop)
    BY <1>7 DEF PassGate, GateClosed, Load, given
  <2>2. \A k \in DOMAIN results : ~Problem(results[k])
    BY <2>1 DEF SkippedInv, Before
  <2>3. passed = selected
    BY <2>1 DEF FastInv, CompilesFirst, RunInv, SortedInv
  <2> QED
    BY <2>1, <2>2, <2>3 DEF SkippedInv, Problem, PassGate
<1>8. CASE Quiet /\ pc' \notin Before
  BY <1>8 DEF Quiet, SkippedInv, Problem
<1> QED
  BY <1>1, <1>2, <1>3, <1>4, <1>5, <1>6, <1>7, <1>8, StepKinds

\* ReconciliationRunner._execute_all: under --fail-fast no query is sent for a row behind
\* one that failed or could not be executed, and those rows are reported as skipped.
THEOREM RunnerFailFastHalts == Spec => []FailFastHalts
<1> DEFINE I == RunInv /\ QueriedInv /\ FastInv /\ SkippedInv
<1>1. Init => I
  <2> SUFFICES ASSUME Init PROVE I
    OBVIOUS
  <2>1. Executed = {} /\ pc \notin {"compile", "gate", "execute", "halt"} /\ results = << >>
    BY DEF Init, Executed
  <2> QED
    BY <2>1, RunInit DEF QueriedInv, FastInv, HaltInv, SkippedInv
<1>2. I /\ [Next]_vars => I'
  BY RunStep, QueriedStep, FastStep, SkippedStep
<1>3. I => FailFastHalts
  <2> SUFFICES ASSUME I, opts.failFast, NEW k \in DOMAIN results, Problem(results[k])
               PROVE  /\ \A i \in Executed : i <= results[k].row
                      /\ pc = "reported" =>
                           \A i \in selected : results[k].row < i =>
                             \E j \in DOMAIN results : results[j] = [row |-> i, status |-> "SKIPPED"]
    BY DEF FailFastHalts
  <2>1. \A i \in Executed : i <= results[k].row
    BY DEF FastInv, HaltInv, Problem
  <2>2. ASSUME pc = "reported", NEW i \in selected, results[k].row < i
        PROVE  \E j \in DOMAIN results : results[j] = [row |-> i, status |-> "SKIPPED"]
    <3>1. i \in Recorded
      BY <2>2 DEF RunInv, RecordedInv, Owed, TypeOK
    <3>2. PICK j \in DOMAIN results : results[j].row = i
      BY <3>1 DEF Recorded
    <3>3. results[j].status = "SKIPPED"
      BY <2>2, <3>2 DEF SkippedInv
    <3>4. results[j] \in [row : DOMAIN book, status : Statuses]
      <4> DEFINE R == [row : DOMAIN book, status : Statuses]
      <4>1. results \in Seq(R)
        BY DEF RunInv, TypeOK
      <4> HIDE DEF R
      <4>2. results[j] \in R
        BY <3>2, <4>1
      <4> QED
        BY <4>2 DEF R
    <3>5. results[j] = [row |-> i, status |-> "SKIPPED"]
      BY <3>2, <3>3, <3>4
    <3> QED
      BY <3>5
  <2> QED
    BY <2>1, <2>2
<1> HIDE DEF I
<1> QED
  BY <1>1, <1>2, <1>3, PTL DEF Spec

----------------------------------------------------------------------------

\* What the row at hand has been asked already.
SideInv == pc = "execute" /\ todo # {} => {Row} \X (book[Row].sides \ left) \subseteq queried

\* A selected row's result says that it was executed, or why it was not.
Accounted(result) ==
  \/ result.status \in {"ERROR", "NOT_EXECUTED"}
  \/ result.status = "VALIDATED" /\ opts.validate
  \/ result.status = "SKIPPED" /\ opts.failFast
  \/ {result.row} \X book[result.row].sides \subseteq queried

WorkInv == \A k \in DOMAIN results : results[k].row \in selected => Accounted(results[k])

LEMMA SideStep == RunInv /\ SideInv /\ [Next]_vars => SideInv'
<1> SUFFICES ASSUME RunInv, SideInv, [Next]_vars, pc' = "execute", todo' # {}
             PROVE  {Row'} \X (book'[Row'].sides \ left') \subseteq queried'
  BY DEF SideInv
<1>1. CASE left' = book'[Row'].sides
  BY <1>1
<1>2. CASE RecordsGroup
  <2>1. CheckDialects
    BY <1>2 DEF RecordsGroup, RecordUndecided, EndCompile, StopAtGate, StopAfterValidation, Halt,
       AfterLastRow
  <2> QED
    BY <1>1, <2>1 DEF CheckDialects, Load, Row, given
<1>3. CASE PassGate
  BY <1>1, <1>3 DEF PassGate, Load, Row, given
<1>4. CASE RowSteps
  <2>1. RowStep
    BY <1>4, RowStepsAre
  <2>2. CASE \E status \in Statuses : EndRow(status)
    BY <1>1, <2>1, <2>2 DEF RowStep, EndRow, Load, Row
  <2>3. CASE UNCHANGED todo /\ left' = left \ {NextSide} /\ <<Row, NextSide>> \in queried'
    <3>1. Row' = Row /\ {Row} \X (book[Row].sides \ left) \subseteq queried /\ queried \subseteq queried'
      BY <2>1, <2>3 DEF RowStep, SideInv, Row
    <3> QED
      BY <2>1, <2>3, <3>1 DEF RowStep
  <2> QED
    BY <2>1, <2>2, <2>3 DEF RowStep
<1>5. CASE Quiet
  BY <1>5 DEF Quiet, SideInv, Row
<1>6. CASE ReadAndSelect \/ CompilesRow
  BY <1>6 DEF ReadAndSelect, CompilesRow, CompileFails, CompileSide, Unwind
<1> QED
  BY <1>2, <1>3, <1>4, <1>5, <1>6, StepKinds

LEMMA WorkStep ==
  RunInv /\ QueriedInv /\ FastInv /\ SideInv /\ WorkInv /\ [Next]_vars => WorkInv'
<1> SUFFICES ASSUME RunInv, QueriedInv, FastInv, SideInv, WorkInv, [Next]_vars PROVE WorkInv'
  OBVIOUS
<1>1. ASSUME UNCHANGED <<book, opts>>, queried \subseteq queried', NEW result, Accounted(result)
      PROVE  Accounted(result)'
  BY <1>1 DEF Accounted
<1>2. UNCHANGED <<book, opts>> /\ queried \subseteq queried'
  <2>1. CASE RecordsGroup
    BY <2>1, GroupSteps DEF GroupOf
  <2>2. CASE RowSteps
    BY <2>2, RowStepsAre DEF RowStep
  <2> QED
    BY <2>1, <2>2, StepKinds DEF CompilesRow, CompileFails, CompileSide, ReadAndSelect, PassGate,
       Quiet, given, sent
<1>3. CASE UNCHANGED <<results, selected>>
  BY <1>1, <1>2, <1>3 DEF WorkInv
<1>4. CASE RecordsGroup
  <2>1. PICK rows, status : GroupOf(rows, status)
    BY <1>4, GroupSteps
  <2>2. selected' \subseteq selected
    BY <2>1 DEF GroupOf
  <2>3. ASSUME NEW k \in DOMAIN results', NEW result, result = results'[k], result.row \in selected',
               result.row \in rows, result.status = status[result.row]
        PROVE  Accounted(result)'
    <3>1. \/ result.status \in {"ERROR", "NOT_EXECUTED"}
          \/ result.status = "VALIDATED" /\ opts.validate
          \/ result.status = "SKIPPED" /\ opts.failFast
      BY <2>1, <2>3 DEF GroupOf, FastInv
    <3> QED
      BY <1>2, <3>1 DEF Accounted
  <2>4. ASSUME NEW k \in DOMAIN results', NEW result, result = results'[k], result.row \in selected',
               k \in DOMAIN results, results'[k] = results[k]
        PROVE  Accounted(result)'
    <3>1. Accounted(result)
      BY <2>2, <2>4 DEF WorkInv
    <3> QED
      BY <1>1, <1>2, <3>1
  <2>5. \A k \in DOMAIN results' : \/ k \in DOMAIN results /\ results'[k] = results[k]
                                  \/ /\ results'[k].row \in rows
                                     /\ results'[k].status = status[results'[k].row]
    BY <2>1, GroupAdds
  <2> QED
    BY <2>3, <2>4, <2>5 DEF WorkInv, Accounted
<1>5. CASE RowSteps
  <2>1. RowStep
    BY <1>5, RowStepsAre
  <2>2. CASE results' = results
    BY <1>3, <2>1, <2>2 DEF RowStep
  <2>3. ASSUME NEW status \in Statuses, status = "ERROR" \/ LastSent,
               results' = Append(results, [row |-> Row, status |-> status])
        PROVE  WorkInv'
    <3>1. Row \in DOMAIN book /\ Row \notin Recorded
      BY <2>1, RowAtHand
    <3>2. \A k \in DOMAIN results' : \/ k \in DOMAIN results /\ results'[k] = results[k]
                                    \/ results'[k] = [row |-> Row, status |-> status]
      BY <2>3, <3>1, OneResultAdds DEF RunInv
    <3>3. CASE status = "ERROR"
      BY <1>2, <2>1, <3>2, <3>3 DEF WorkInv, Accounted, RowStep
    <3>4. CASE LastSent
      <4>1. {Row} \X (book[Row].sides \ left) \subseteq queried
        BY <2>1 DEF RowStep, SideInv
      <4>2. {Row} \X book'[Row].sides \subseteq queried'
        BY <1>2, <3>4, <4>1 DEF LastSent
      <4> QED
        BY <1>2, <2>1, <3>2, <4>2 DEF WorkInv, Accounted, RowStep
    <3> QED
      BY <2>3, <3>3, <3>4
  <2> QED
    BY <2>1, <2>2, <2>3 DEF RowStep, EndRow, RecordOne
<1>6. CASE ReadAndSelect
  <2>1. pc = "read" /\ results' = results
    BY <1>6 DEF ReadAndSelect
  <2>2. Recorded = {}
    BY <2>1 DEF RunInv, RecordedInv, Owed
  <2> QED
    BY <2>1, <2>2 DEF WorkInv, Recorded
<1>7. CASE CompilesRow \/ PassGate \/ Quiet
  BY <1>3, <1>7 DEF CompilesRow, CompileFails, CompileSide, PassGate, Quiet
<1> QED
  BY <1>4, <1>5, <1>6, <1>7, StepKinds

\* Only a finished run exits with 0, and only when every result is clean.
ExitInv == exit = 0 => pc = "reported" /\ IsClean

LEMMA ExitStep == DiskInv /\ ExitInv /\ [Next]_vars => ExitInv'
<1> SUFFICES ASSUME DiskInv, ExitInv, [Next]_vars PROVE ExitInv'
  OBVIOUS
<1>1. CASE Report
  BY <1>1 DEF Report, ExitCode, IsClean, ExitInv
<1>2. CASE pc = "reported"
  <2>1. UNCHANGED vars
    <3>1. save = "none"
      BY <1>2 DEF DiskInv
    <3> QED
      BY <1>2, <3>1 DEF Next, Step, Save, Start, Compile, Execute, End, Over, Interrupt, OpenFile,
         FileWritten, SaveFails, Connect, ConnectFails, Preflight, ReadAndSelect, CreateFile,
         CreateRefused, RecordUndecided, CheckDialects, CompileFails, CompileSide, EndCompile,
         StopAtGate, StopAfterValidation, PassGate, RefuseRow, FirstSideAnswers, LastSideAnswers,
         QueryFails, ResultEscapes, Halt, EndExecution, Sends, Finish, EndClose, Report,
         CloseSession
  <2> QED
    BY <2>1 DEF vars, ExitInv, IsClean
<1>3. CASE exit' = exit /\ pc # "reported"
  BY <1>3 DEF ExitInv
<1>4. CASE exit' \in {1, 2, 130}
  BY <1>4 DEF ExitInv
<1>5. CASE UNCHANGED vars \/ Over
  BY <1>5 DEF Over, vars, ExitInv, IsClean
<1>6. CASE Save \/ Start \/ Interrupt
  BY <1>2, <1>3, <1>4, <1>6 DEF Save, Start, Interrupt, Unwind, OpenFile, FileWritten, SaveFails,
     Connect, ConnectFails, Preflight, ReadAndSelect, CreateFile, CreateRefused, RecordUndecided,
     CheckDialects
<1>7. CASE Compile \/ Execute
  BY <1>2, <1>3, <1>4, <1>7 DEF Compile, Execute, Unwind, CompileFails, CompileSide, EndCompile,
     StopAtGate, StopAfterValidation, PassGate, RefuseRow, FirstSideAnswers, LastSideAnswers,
     QueryFails, ResultEscapes, Halt, EndExecution
<1>8. CASE End
  BY <1>1, <1>2, <1>3, <1>8 DEF End, Finish, EndClose, CloseSession
<1> QED
  BY <1>5, <1>6, <1>7, <1>8 DEF Next, Step

\* RunSummary.is_clean and the exit codes of the command line: 0 from a run that was to
\* execute means that every query of every selected row was executed, unless
\* --fail-fast stopped it.
THEOREM RunnerCleanMeansExecuted == Spec => []CleanMeansExecuted
<1> DEFINE I == RunInv /\ DiskInv /\ QueriedInv /\ FastInv /\ SideInv /\ WorkInv /\ ExitInv
<1>1. Init => I
  <2> SUFFICES ASSUME Init PROVE I
    OBVIOUS
  <2>1. /\ Executed = {} /\ pc \in {"connect", "read"} /\ results = << >> /\ save = "none"
        /\ exit = -1
    BY DEF Init, Executed
  <2>2. exit # 0
    BY <2>1
  <2> QED
    BY <2>1, <2>2, RunInit DEF DiskInv, QueriedInv, FastInv, HaltInv, SideInv, WorkInv, ExitInv
<1>2. I /\ [Next]_vars => I'
  BY RunStep, DiskStep, QueriedStep, FastStep, SideStep, WorkStep, ExitStep
<1>3. I => CleanMeansExecuted
  <2> SUFFICES ASSUME I, exit = 0, ~opts.validate, ~opts.failFast, NEW i \in selected
               PROVE  {i} \X book[i].sides \subseteq queried
    BY DEF CleanMeansExecuted
  <2>1. pc = "reported" /\ IsClean
    BY DEF ExitInv
  <2>2. i \in Recorded
    BY <2>1 DEF RunInv, RecordedInv, Owed, TypeOK
  <2>3. PICK k \in DOMAIN results : results[k].row = i
    BY <2>2 DEF Recorded
  <2> QED
    BY <2>1, <2>3 DEF IsClean, WorkInv, Accounted
<1> HIDE DEF I
<1> QED
  BY <1>1, <1>2, <1>3, PTL DEF Spec
=============================================================================
