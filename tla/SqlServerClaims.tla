--------------------------- MODULE SqlServerClaims ---------------------------
(***************************************************************************)
(* A statement about syntax checks that the SQL Server adapter does not    *)
(* keep in every case, checked by a run that expects a counterexample.     *)
(***************************************************************************)
EXTENDS SqlServerSession

\* ARCHITECTURE.md on validate_syntax: "It raises SqlSyntaxError when the
\* database rejects the SQL and SyntaxCheckUnavailableError when the check could
\* not be made at all, and the two are never conflated".  When the server rejects
\* a query and SET NOEXEC OFF then fails, the exception of the finally clause
\* replaces the rejection, and the check is reported as one that was not made.
RejectionsAreReported ==
  \A q \in Query : verdict[q] = "rejected" /\ pc = "idle" /\ stage # "over" => check[q] = "rejected"
====
