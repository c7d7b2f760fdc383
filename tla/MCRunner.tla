------------------------------- MODULE MCRunner -------------------------------
(***************************************************************************)
(* Instances of Runner for TLC: sheets of two or three rows, with a row    *)
(* the reader refused, a disabled one, a misfit, an unsafe one and rows of *)
(* one and of two sides between them; and every mode on each.              *)
(***************************************************************************)
EXTENDS Runner

Case(sides) == [kind |-> "case", sides |-> sides, unsafe |-> {}, misfit |-> FALSE]
Unsafe(sides, s) == [Case(sides) EXCEPT !.unsafe = {s}]
Misfit(sides) == [Case(sides) EXCEPT !.misfit = TRUE]
NotRun(kind) == [Case({}) EXCEPT !.kind = kind]

MCBooks ==
  {<<Case(Side), Case({"target"}), Case({"source"})>>,
   <<Case(Side), Misfit({"source"}), NotRun("disabled")>>,
   <<NotRun("invalid"), Unsafe(Side, "target"), Case(Side)>>,
   <<NotRun("disabled"), NotRun("invalid")>>}

All == [live |-> TRUE, validate |-> FALSE, stop |-> FALSE, failFast |-> FALSE,
        write |-> TRUE, cases |-> {}, start |-> 1, end |-> NoEndRow, limit |-> 4]
Offline == [All EXCEPT !.live = FALSE]

\* Every mode of run_reconciliation, --fail-fast and --no-write offline, and each
\* way of selecting, the refused ones included.
MCRuns ==
  {[All EXCEPT !.validate = v, !.stop = s] : v, s \in BOOLEAN}
  \cup {[Offline EXCEPT !.failFast = f, !.write = w] : f, w \in BOOLEAN}
  \cup {[All EXCEPT !.stop = TRUE, !.cases = {1, 2}, !.start = 2],
        [All EXCEPT !.cases = {3}], [Offline EXCEPT !.limit = 1],
        [All EXCEPT !.end = 2], [Offline EXCEPT !.start = 0],
        [Offline EXCEPT !.start = 3, !.end = 2], [Offline EXCEPT !.limit = -1]}
====
