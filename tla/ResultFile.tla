----------------------------- MODULE ResultFile -----------------------------
(***************************************************************************)
(* How runs of one template put their result workbooks on disk:            *)
(* _write_results of execution/engine.py over workbook/output.py.          *)
(*                                                                         *)
(* Runs are separate processes that share nothing but the directory, so    *)
(* the steps between two file-system calls interleave freely.  A run may   *)
(* be killed between any two of them, and each call may fail.              *)
(*                                                                         *)
(* Abstracted: a workbook is whole or partly written, and has a Run        *)
(* History with one row per run; the second a run started in is what its   *)
(* file name is made of.                                                   *)
(***************************************************************************)
EXTENDS Integers

CONSTANTS Run,     \* executions of the same template, by run id
          Seconds  \* the seconds they may have started in

Input == <<"input", 0>>
Stamped(second) == <<"stamped", second>>

Named(r, second) == <<"named", r>>

Path == {Input} \cup ({"stamped"} \X Seconds) \cup ({"named"} \X Run)
Workbook == [state : {"absent", "partial", "whole"}, history : SUBSET Run]
Absent   == [state |-> "absent", history |-> {}]
Partial  == [state |-> "partial", history |-> {}]
Original == [state |-> "whole", history |-> {}]

VARIABLES
  mode,     \* Output_Mode of the template's Run Control
  started,  \* the second in each run's timestamp
  pc,       \* what each run does next
  file,     \* the directory
  copy,     \* the workbook each run has loaded
  dest,     \* where it has planned to save it
  temp,     \* its temporary file
  before    \* the runs that were done when it loaded the workbook

vars == <<mode, started, pc, file, copy, dest, temp, before>>

Over == {"done", "failed", "killed"}

Init ==
  /\ mode \in {"NEW_FILE", "IN_PLACE"}
  /\ started \in [Run -> Seconds]
  /\ pc = [r \in Run |-> "load"]
  /\ file = [p \in Path |-> IF p = Input THEN Original ELSE Absent]
  /\ copy = [r \in Run |-> Absent]
  /\ dest = [r \in Run |-> Input]
  /\ temp = [r \in Run |-> Absent]
  /\ before = [r \in Run |-> {}]

Done == {r \in Run : pc[r] = "done"}

At(r, step) == pc[r] = step
Goto(r, step) == pc' = [pc EXCEPT ![r] = step]

----------------------------------------------------------------------------
\* ResultWriter.__init__: the workbook is read again, as it is now.
Load(r) ==
  /\ At(r, "load")
  /\ copy' = [copy EXCEPT ![r] = file[Input]]
  /\ before' = [before EXCEPT ![r] = Done]
  /\ Goto(r, "plan")
  /\ UNCHANGED <<mode, started, file, dest, temp>>

\* Mutants of BuildOutputPath: the directory is not looked at; results go to
\* the input's own name.
BuildOutputPathBlindly(r) == Stamped(started[r])
BuildOutputPathFromStem(r) == Input

\* build_output_path: the run id is added to a name that is taken.
BuildOutputPath(r) ==
  IF file[Stamped(started[r])].state = "absent" THEN Stamped(started[r])
  ELSE Named(r, started[r])

\* plan_destination, then every edit of the loaded copy up to its Run History
\* row; none of it touches the disk.
Plan(r) ==
  /\ At(r, "plan")
  /\ dest' = [dest EXCEPT ![r] = IF mode = "IN_PLACE" THEN Input ELSE BuildOutputPath(r)]
  /\ copy' = [copy EXCEPT ![r].history = @ \cup {r}]
  /\ Goto(r, "mkstemp")
  /\ UNCHANGED <<mode, started, file, temp, before>>

\* Any of the calls so far may fail, with nothing of the run on disk: the
\* workbook cannot be read, the directory is gone or not writable.
FailBeforeSave(r) ==
  /\ pc[r] \in {"load", "plan", "mkstemp"}
  /\ Goto(r, "failed")
  /\ UNCHANGED <<mode, started, file, copy, dest, temp, before>>

MakeTemp(r) ==
  /\ At(r, "mkstemp")
  /\ temp' = [temp EXCEPT ![r] = Partial]
  /\ Goto(r, "save")
  /\ UNCHANGED <<mode, started, file, copy, dest, before>>

\* Mutant of SaveTemp: the workbook is saved under its own name.
SaveToDestination(r) ==
  /\ At(r, "save")
  /\ file' = [file EXCEPT ![dest[r]] = Partial]
  /\ temp' = [temp EXCEPT ![r] = copy[r]]
  /\ Goto(r, "replace")
  /\ UNCHANGED <<mode, started, copy, dest, before>>

SaveTemp(r) ==
  /\ At(r, "save")
  /\ temp' = [temp EXCEPT ![r] = copy[r]]
  /\ Goto(r, "replace")
  /\ UNCHANGED <<mode, started, file, copy, dest, before>>

\* Mutant of FailToSave: the temporary file is left behind.
FailToSaveUncleaned(r) ==
  /\ pc[r] \in {"save", "replace"}
  /\ Goto(r, "failed")
  /\ UNCHANGED <<mode, started, file, copy, dest, temp, before>>

\* The disk is full, or the destination is open in another program.
FailToSave(r) ==
  /\ pc[r] \in {"save", "replace"}
  /\ temp' = [temp EXCEPT ![r] = Absent]
  /\ Goto(r, "failed")
  /\ UNCHANGED <<mode, started, file, copy, dest, before>>

\* os.replace within one directory: the new workbook or the old one.
Replace(r) ==
  /\ At(r, "replace")
  /\ file' = [file EXCEPT ![dest[r]] = temp[r]]
  /\ temp' = [temp EXCEPT ![r] = Absent]
  /\ Goto(r, "done")
  /\ UNCHANGED <<mode, started, copy, dest, before>>

\* The process dies, or Ctrl-C passes through save's handlers, which catch
\* Exception only.
Kill(r) ==
  /\ pc[r] \notin Over
  /\ Goto(r, "killed")
  /\ UNCHANGED <<mode, started, file, copy, dest, temp, before>>

AllOver == (\A r \in Run : pc[r] \in Over) /\ UNCHANGED vars

Next ==
  \/ AllOver
  \/ \E r \in Run : Load(r) \/ Plan(r) \/ FailBeforeSave(r) \/ MakeTemp(r) \/ SaveTemp(r)
                      \/ FailToSave(r) \/ Replace(r) \/ Kill(r)

Spec == Init /\ [][Next]_vars

----------------------------------------------------------------------------
TypeOK ==
  /\ mode \in {"NEW_FILE", "IN_PLACE"} /\ started \in [Run -> Seconds]
  /\ pc \in [Run -> Over \cup {"load", "plan", "mkstemp", "save", "replace"}]
  /\ file \in [Path -> Workbook] /\ copy \in [Run -> Workbook]
  /\ dest \in [Run -> Path] /\ temp \in [Run -> Workbook]
  /\ before \in [Run -> SUBSET Run]

\* output.py, guarantee 3: whoever opens the template or a result finds a whole
\* workbook, whatever the runs that write there are doing or died of.
NeverHalfWritten == \A p \in Path : file[p].state # "partial"

\* output.py, guarantee 2: under NEW_FILE the template stays as it was.
InputSurvives == mode = "NEW_FILE" => file[Input] = Original

\* A run that ends by itself leaves no temporary file next to the results.
NoTempLeftBehind == \A r \in Run : pc[r] \in {"done", "failed"} => temp[r] = Absent

\* Every run is on record: the workbook it reported as its own still has its
\* row in Run History.
OnRecord(r) == r \in file[dest[r]].history

\* Runs that did not overlap: each had loaded the workbook after the other was
\* done.
Serial == \A r, q \in Done : r # q => r \in before[q] \/ q \in before[r]

\* Runs one after the other lose nothing, in the same second (the second name
\* carries the run id) or over the same file (its history is kept).
SerialRunsStayOnRecord == Serial => \A r \in Done : OnRecord(r)
====
