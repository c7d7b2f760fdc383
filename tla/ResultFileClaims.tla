-------------------------- MODULE ResultFileClaims --------------------------
(***************************************************************************)
(* A statement about result files that runs which overlap do not keep,     *)
(* checked by a run that expects a counterexample.                         *)
(***************************************************************************)
EXTENDS ResultFile

\* columns.py on Run History: "One row per run, appended and never rewritten";
\* README.md: "An existing file is never overwritten: if two runs land in the
\* same second, the second filename also carries the run id".  The name is
\* chosen, and the workbook loaded, before the save: of two runs that overlap
\* there, the last one wins.
FinishedRunsStayOnRecord == \A r \in Done : OnRecord(r)
====
