-------------------------- MODULE ResultFileProofs --------------------------
(***************************************************************************)
(* What runs of one template leave on disk, for any number of runs,        *)
(* started in any seconds, interleaved, failing and dying as they please:  *)
(* whole workbooks, an untouched template, no temporary files, and, of     *)
(* runs that came one after the other, every run on record.                *)
(***************************************************************************)
EXTENDS ResultFile, TLAPS

Planned == {"mkstemp", "save", "replace"}
Loaded == {"plan"} \cup Planned

----------------------------------------------------------------------------
\* Types first, record by record.

LEMMA WorkbookOf ==
  /\ Absent \in Workbook /\ Partial \in Workbook /\ Original \in Workbook
  /\ \A w \in Workbook, r \in Run :
       LET added == [w EXCEPT !.history = @ \cup {r}]
       IN added \in Workbook /\ added.state = w.state /\ added.history = w.history \cup {r}
BY DEF Workbook, Absent, Partial, Original

LEMMA Paths ==
  /\ Input \in Path
  /\ \A r \in Run, s \in Seconds :
       /\ Stamped(s) \in Path /\ Named(r, s) \in Path
       /\ Stamped(s) # Input /\ Named(r, s) # Input /\ Stamped(s) # Named(r, s)
BY DEF Path, Input, Stamped, Named

LEMMA InitTypes == Init => TypeOK
<1> SUFFICES ASSUME Init PROVE TypeOK
  OBVIOUS
<1>1. file \in [Path -> Workbook]
  BY WorkbookOf DEF Init
<1>2. copy \in [Run -> Workbook] /\ temp \in [Run -> Workbook] /\ dest \in [Run -> Path]
  BY WorkbookOf, Paths DEF Init
<1> QED
  BY <1>1, <1>2 DEF Init, TypeOK

\* The one run that takes a step, and what the step may change of it.
Advances(r) ==
  Load(r) \/ Plan(r) \/ FailBeforeSave(r) \/ MakeTemp(r) \/ SaveTemp(r)
    \/ FailToSave(r) \/ Replace(r) \/ Kill(r)

LEMMA PlannedPath ==
  ASSUME TypeOK, NEW r \in Run
  PROVE  BuildOutputPath(r) \in {Stamped(started[r]), Named(r, started[r])}
BY DEF BuildOutputPath

LEMMA TypesStep == TypeOK /\ [Next]_vars => TypeOK'
<1> SUFFICES ASSUME TypeOK, [Next]_vars PROVE TypeOK'
  OBVIOUS
<1>1. CASE UNCHANGED vars
  BY <1>1 DEF vars, TypeOK
<1>2. ASSUME NEW r \in Run, Advances(r) PROVE TypeOK'
  <2>1. UNCHANGED <<mode, started>> /\ pc' \in [Run -> Over \cup Loaded \cup {"load"}]
    BY <1>2 DEF Advances, Load, Plan, FailBeforeSave, MakeTemp, SaveTemp, FailToSave, Replace,
       Kill, Goto, TypeOK, Over, Loaded, Planned
  <2>2. copy' \in [Run -> Workbook]
    <3>1. CASE Plan(r)
      <4>1. copy[r] \in Workbook
        BY DEF TypeOK
      <4>2. copy' = [copy EXCEPT ![r] = [copy[r] EXCEPT !.history = @ \cup {r}]]
        BY <3>1 DEF Plan, TypeOK
      <4> QED
        BY <4>1, <4>2, WorkbookOf DEF TypeOK
    <3>2. CASE Load(r)
      BY <3>2, Paths DEF Load, TypeOK
    <3>3. CASE copy' = copy
      BY <3>3 DEF TypeOK
    <3> QED
      BY <1>2, <3>1, <3>2, <3>3 DEF Advances, FailBeforeSave, MakeTemp, SaveTemp, FailToSave,
         Replace, Kill
  <2>3. dest' \in [Run -> Path]
    <3>1. started[r] \in Seconds
      BY DEF TypeOK
    <3>2. BuildOutputPath(r) \in Path
      BY <3>1, PlannedPath, Paths
    <3>3. dest' = dest \/ dest' = [dest EXCEPT ![r] = Input]
                       \/ dest' = [dest EXCEPT ![r] = BuildOutputPath(r)]
      BY <1>2 DEF Advances, Load, Plan, FailBeforeSave, MakeTemp, SaveTemp, FailToSave,
         Replace, Kill
    <3> QED
      BY <3>2, <3>3, Paths DEF TypeOK
  <2>4. temp' \in [Run -> Workbook]
    <3>1. \/ temp' = temp
          \/ \E w \in {Partial, Absent, copy[r]} : temp' = [temp EXCEPT ![r] = w]
      BY <1>2 DEF Advances, Load, Plan, FailBeforeSave, MakeTemp, SaveTemp, FailToSave,
         Replace, Kill
    <3>2. copy[r] \in Workbook
      BY DEF TypeOK
    <3> QED
      BY <3>1, <3>2, WorkbookOf DEF TypeOK
  <2>5. file' \in [Path -> Workbook]
    BY <1>2 DEF Advances, Load, Plan, FailBeforeSave, MakeTemp, SaveTemp, FailToSave,
       Replace, Kill, TypeOK
  <2>6. before' \in [Run -> SUBSET Run]
    BY <1>2 DEF Advances, Load, Plan, FailBeforeSave, MakeTemp, SaveTemp, FailToSave,
       Replace, Kill, TypeOK, Done
  <2> QED
    BY <2>1, <2>2, <2>3, <2>4, <2>5, <2>6 DEF TypeOK, Loaded, Planned
<1> QED
  BY <1>1, <1>2 DEF Next, Advances, AllOver

----------------------------------------------------------------------------
\* What a run holds, and where it means to put it.
HoldsWhole(r) ==
  /\ pc[r] \in Loaded => copy[r].state = "whole"
  /\ pc[r] = "replace" => temp[r] = copy[r]
  /\ pc[r] \in {"load", "plan", "mkstemp", "done", "failed"} => temp[r] = Absent

MeansToWrite(r) ==
  pc[r] \in Planned \cup {"done"} =>
    IF mode = "IN_PLACE" THEN dest[r] = Input
    ELSE dest[r] \in {Stamped(started[r]), Named(r, started[r])}

\* No file is partly written, and those the runs rely on are there.
WholeFiles ==
  /\ NeverHalfWritten /\ InputSurvives
  /\ file[Input].state = "whole"
  /\ \A r \in Run : pc[r] = "done" => file[dest[r]].state = "whole"

FileInv == (\A r \in Run : HoldsWhole(r) /\ MeansToWrite(r)) /\ WholeFiles

LEMMA InitFiles == Init => FileInv
<1> SUFFICES ASSUME Init PROVE FileInv
  OBVIOUS
<1>1. \A r \in Run : HoldsWhole(r) /\ MeansToWrite(r)
  BY DEF Init, HoldsWhole, MeansToWrite, Loaded, Planned
<1>2. \A p \in Path : file[p].state \in {"whole", "absent"}
  BY DEF Init, Original, Absent
<1>3. WholeFiles
  BY <1>2, Paths DEF Init, WholeFiles, NeverHalfWritten, InputSurvives, Original
<1> QED
  BY <1>1, <1>3 DEF FileInv

\* A step of one run leaves the others where they are.
LEMMA OthersUnmoved ==
  ASSUME TypeOK, NEW r \in Run, Advances(r)
  PROVE  /\ UNCHANGED <<mode, started>> /\ pc[r] \notin Over
         /\ \A q \in Run \ {r} : /\ pc'[q] = pc[q] /\ copy'[q] = copy[q]
                                 /\ dest'[q] = dest[q] /\ temp'[q] = temp[q]
                                 /\ before'[q] = before[q]
BY DEF Advances, Load, Plan, FailBeforeSave, MakeTemp, SaveTemp, FailToSave, Replace, Kill,
   At, Goto, TypeOK, Over

\* Only the last step of a save touches the directory.
LEMMA FilesUnmoved ==
  ASSUME NEW r \in Run, Advances(r), ~Replace(r)
  PROVE  file' = file /\ (TypeOK => pc'[r] # "done")
BY DEF Advances, Load, Plan, FailBeforeSave, MakeTemp, SaveTemp, FailToSave, Kill, Goto, TypeOK

LEMMA OwnHold ==
  ASSUME TypeOK, FileInv, NEW r \in Run, Advances(r)
  PROVE  HoldsWhole(r)' /\ MeansToWrite(r)'
<1>0. HoldsWhole(r) /\ MeansToWrite(r) /\ file[Input].state = "whole"
  BY DEF FileInv, WholeFiles
<1>1. UNCHANGED <<mode, started>>
  BY OthersUnmoved
<1>2. CASE Load(r)
  BY <1>0, <1>2 DEF Load, At, Goto, TypeOK, HoldsWhole, MeansToWrite, Loaded, Planned
<1>3. CASE Plan(r)
  <2>1. /\ pc[r] = "plan" /\ pc'[r] = "mkstemp" /\ temp'[r] = temp[r]
        /\ copy'[r] = [copy[r] EXCEPT !.history = @ \cup {r}]
        /\ dest'[r] = IF mode = "IN_PLACE" THEN Input ELSE BuildOutputPath(r)
    BY <1>3 DEF Plan, At, Goto, TypeOK
  <2>2. copy[r] \in Workbook
    BY DEF TypeOK
  <2>3. copy'[r].state = copy[r].state
    BY <2>1, <2>2, WorkbookOf
  <2> QED
    BY <1>0, <1>1, <2>1, <2>3, PlannedPath DEF HoldsWhole, MeansToWrite, Loaded, Planned
<1>4. CASE MakeTemp(r)
  BY <1>0, <1>4 DEF MakeTemp, At, Goto, TypeOK, HoldsWhole, MeansToWrite, Loaded, Planned
<1>5. CASE SaveTemp(r)
  BY <1>0, <1>5 DEF SaveTemp, At, Goto, TypeOK, HoldsWhole, MeansToWrite, Loaded, Planned
<1>6. CASE Replace(r)
  BY <1>0, <1>6 DEF Replace, At, Goto, TypeOK, HoldsWhole, MeansToWrite, Loaded, Planned
<1>7. CASE FailBeforeSave(r) \/ FailToSave(r)
  BY <1>0, <1>7 DEF FailBeforeSave, FailToSave, Goto, TypeOK, HoldsWhole, MeansToWrite,
     Loaded, Planned
<1>8. CASE Kill(r)
  BY <1>0, <1>8 DEF Kill, Goto, TypeOK, HoldsWhole, MeansToWrite, Loaded, Planned
<1> QED
  BY <1>2, <1>3, <1>4, <1>5, <1>6, <1>7, <1>8 DEF Advances

\* What a Replace puts where.
LEMMA ReplacePuts ==
  ASSUME TypeOK, FileInv, NEW r \in Run, Replace(r)
  PROVE  /\ pc[r] = "replace" /\ pc' = [pc EXCEPT ![r] = "done"] /\ dest[r] \in Path
         /\ file' = [file EXCEPT ![dest[r]] = copy[r]] /\ copy[r].state = "whole"
         /\ UNCHANGED <<mode, started, copy, dest, before>>
         /\ IF mode = "IN_PLACE" THEN dest[r] = Input
            ELSE dest[r] \in {Stamped(started[r]), Named(r, started[r])}
BY DEF Replace, At, Goto, TypeOK, FileInv, HoldsWhole, MeansToWrite, Loaded, Planned

LEMMA FilesStep == TypeOK /\ FileInv /\ [Next]_vars => FileInv'
<1> SUFFICES ASSUME TypeOK, FileInv, [Next]_vars PROVE FileInv'
  OBVIOUS
<1>1. CASE UNCHANGED vars
  BY <1>1 DEF vars, FileInv, HoldsWhole, MeansToWrite, WholeFiles, NeverHalfWritten,
     InputSurvives
<1>2. ASSUME NEW r \in Run, Advances(r) PROVE FileInv'
  <2>1. \A q \in Run \ {r} : HoldsWhole(q)' /\ MeansToWrite(q)'
    BY <1>2, OthersUnmoved DEF FileInv, HoldsWhole, MeansToWrite
  <2>2. HoldsWhole(r)' /\ MeansToWrite(r)'
    BY <1>2, OwnHold
  <2>3. CASE ~Replace(r)
    <3>1. /\ file' = file /\ mode' = mode
          /\ \A q \in Run : pc'[q] = "done" => pc[q] = "done" /\ dest'[q] = dest[q]
      BY <1>2, <2>3, OthersUnmoved, FilesUnmoved
    <3>2. WholeFiles'
      BY <3>1 DEF FileInv, WholeFiles, NeverHalfWritten, InputSurvives
    <3> QED
      BY <2>1, <2>2, <3>2 DEF FileInv
  <2>4. CASE Replace(r)
    <3>1. \A p \in Path : file'[p] = IF p = dest[r] THEN copy[r] ELSE file[p]
      BY <2>4, ReplacePuts DEF TypeOK
    <3>2. /\ copy[r].state = "whole" /\ UNCHANGED <<mode, dest>> /\ started[r] \in Seconds
          /\ IF mode = "IN_PLACE" THEN dest[r] = Input
             ELSE dest[r] \in {Stamped(started[r]), Named(r, started[r])}
      BY <2>4, ReplacePuts DEF TypeOK
    <3>3. mode = "NEW_FILE" => dest[r] # Input
      BY <3>2, Paths
    <3>4. \A q \in Run : pc'[q] = "done" => pc[q] = "done" \/ q = r
      BY <2>4, ReplacePuts DEF TypeOK
    <3>5. \A q \in Run : dest[q] \in Path
      BY DEF TypeOK
    <3>6. WholeFiles'
      BY <3>1, <3>2, <3>3, <3>4, <3>5, Paths
         DEF FileInv, WholeFiles, NeverHalfWritten, InputSurvives
    <3> QED
      BY <2>1, <2>2, <3>6 DEF FileInv
  <2> QED
    BY <2>3, <2>4
<1> QED
  BY <1>1, <1>2 DEF Next, Advances, AllOver

----------------------------------------------------------------------------
\* The state of _write_results and save is well formed for every interleaving.
THEOREM ResultFileTypes == Spec => []TypeOK
BY InitTypes, TypesStep, PTL DEF Spec

\* output.py, guarantee 3: save writes a temporary file and replaces the destination
\* with it, so no file is ever seen partly written.
THEOREM ResultFileNeverHalfWritten == Spec => []NeverHalfWritten
<1>1. FileInv => NeverHalfWritten
  BY DEF FileInv, WholeFiles
<1> QED
  BY <1>1, InitTypes, TypesStep, InitFiles, FilesStep, PTL DEF Spec

\* output.py, guarantee 2: build_output_path never names the input, so under NEW_FILE
\* the template stays as it was.
THEOREM ResultFileInputSurvives == Spec => []InputSurvives
<1>1. FileInv => InputSurvives
  BY DEF FileInv, WholeFiles
<1> QED
  BY <1>1, InitTypes, TypesStep, InitFiles, FilesStep, PTL DEF Spec

\* save removes its temporary file whenever it ends by itself.
THEOREM ResultFileNoTempLeftBehind == Spec => []NoTempLeftBehind
<1>1. FileInv => NoTempLeftBehind
  BY DEF FileInv, HoldsWhole, NoTempLeftBehind
<1> QED
  BY <1>1, InitTypes, TypesStep, InitFiles, FilesStep, PTL DEF Spec

----------------------------------------------------------------------------
\* Serial runs. Every pair of runs in S came one after the other.
SerialAmong(S) == \A r, q \in S : r # q => r \in before[q] \/ q \in before[r]

\* What a run about to save owes to those that were done when it loaded its
\* workbook: their rows, if it is to replace their file, or a file of its own.
OwesToEarlier(q) ==
  /\ before[q] \subseteq Done
  /\ pc[q] \in Planned => q \in copy[q].history
  /\ pc[q] \in Loaded /\ mode = "IN_PLACE" /\ SerialAmong(before[q]) =>
       before[q] \subseteq copy[q].history
  /\ pc[q] \in Planned /\ mode = "NEW_FILE" => \A r \in before[q] : dest[q] # dest[r]

RecordInv == (\A q \in Run : OwesToEarlier(q)) /\ SerialRunsStayOnRecord

LEMMA InitRecord == Init => RecordInv
<1> SUFFICES ASSUME Init PROVE RecordInv
  OBVIOUS
<1>1. Done = {}
  BY DEF Init, Done
<1>2. \A q \in Run : before[q] = {} /\ pc[q] = "load"
  BY DEF Init
<1> QED
  BY <1>1, <1>2 DEF RecordInv, OwesToEarlier, SerialRunsStayOnRecord, Loaded, Planned

\* Runs that are done stay done, with what they had loaded before.
LEMMA DoneStays ==
  ASSUME TypeOK, NEW r \in Run, Advances(r)
  PROVE  /\ Done \subseteq Done' /\ r \notin Done
         /\ Done' = IF Replace(r) THEN Done \cup {r} ELSE Done
         /\ \A q \in Done : before'[q] = before[q] /\ dest'[q] = dest[q]
<1>1. r \notin Done /\ \A q \in Done : q \in Run \ {r}
  BY OthersUnmoved DEF Done, Over
<1>2. \A q \in Done : before'[q] = before[q] /\ dest'[q] = dest[q] /\ pc'[q] = pc[q]
  BY <1>1, OthersUnmoved
<1>3. Replace(r) => pc'[r] = "done"
  BY DEF Replace, Goto, TypeOK
<1>4. ~Replace(r) => pc'[r] # "done"
  BY FilesUnmoved
<1> QED
  BY <1>1, <1>2, <1>3, <1>4, OthersUnmoved DEF Done

\* The runs that do not move owe nothing more.
LEMMA OthersOweTheSame ==
  ASSUME TypeOK, RecordInv, NEW r \in Run, Advances(r), NEW q \in Run \ {r}
  PROVE  OwesToEarlier(q)'
<1>1. OwesToEarlier(q)
  BY DEF RecordInv
<1>2. /\ pc'[q] = pc[q] /\ copy'[q] = copy[q] /\ dest'[q] = dest[q]
      /\ before'[q] = before[q] /\ mode' = mode
  BY OthersUnmoved
<1>3. before[q] \subseteq Done /\ Done \subseteq Done'
  BY <1>1, DoneStays DEF OwesToEarlier
<1>4. \A s \in before[q] : before'[s] = before[s] /\ dest'[s] = dest[s]
  BY <1>3, DoneStays
<1>5. SerialAmong(before[q])' => SerialAmong(before[q])
  BY <1>2, <1>4 DEF SerialAmong
<1> QED
  BY <1>1, <1>2, <1>3, <1>4, <1>5 DEF OwesToEarlier

\* What the moving run owes once it has loaded its workbook,
LEMMA LoadOwes ==
  ASSUME TypeOK, FileInv, RecordInv, NEW r \in Run, Load(r)
  PROVE  OwesToEarlier(r)'
<1>1. /\ pc'[r] = "plan" /\ copy'[r] = file[Input] /\ before'[r] = Done /\ mode' = mode
  BY DEF Load, Goto, TypeOK
<1>2. /\ Done' = Done /\ r \notin Done
      /\ \A q \in Done : before'[q] = before[q] /\ dest'[q] = dest[q]
  BY DoneStays DEF Advances, Load, Replace, At
<1>3. ASSUME mode = "IN_PLACE", SerialAmong(before[r])' PROVE Done \subseteq copy'[r].history
  <2>1. Serial
    BY <1>1, <1>2, <1>3 DEF SerialAmong, Serial
  <2>2. \A q \in Done : dest[q] = Input
    BY <1>3 DEF FileInv, MeansToWrite, Done
  <2> QED
    BY <1>1, <2>1, <2>2 DEF RecordInv, SerialRunsStayOnRecord, OnRecord
<1> QED
  BY <1>1, <1>2, <1>3 DEF OwesToEarlier, Planned

\* and once it has planned where to save it: a stamped name that was free, or the
\* one that carries its own id.
LEMMA PlanOwes ==
  ASSUME TypeOK, FileInv, RecordInv, NEW r \in Run, Plan(r)
  PROVE  OwesToEarlier(r)'
<1>0. OwesToEarlier(r) /\ copy[r] \in Workbook
  BY DEF RecordInv, TypeOK
<1>1. /\ pc[r] = "plan" /\ pc'[r] = "mkstemp" /\ UNCHANGED <<mode, file, before>>
      /\ copy'[r] = [copy[r] EXCEPT !.history = @ \cup {r}]
      /\ dest'[r] = IF mode = "IN_PLACE" THEN Input ELSE BuildOutputPath(r)
  BY DEF Plan, At, Goto, TypeOK
<1>2. copy'[r].history = copy[r].history \cup {r}
  BY <1>0, <1>1, WorkbookOf
<1>3. /\ Done' = Done /\ r \notin Done /\ before[r] \subseteq Done
      /\ \A q \in Done : dest'[q] = dest[q]
  BY <1>0, DoneStays DEF Advances, Plan, Replace, At, OwesToEarlier
<1>4. ASSUME mode = "NEW_FILE", NEW q \in Done PROVE dest'[r] # dest[q]
  <2>1. /\ q \in Run /\ q # r /\ file[dest[q]].state = "whole"
        /\ dest[q] \in {Stamped(started[q]), Named(q, started[q])}
    BY <1>3, <1>4 DEF Done, FileInv, WholeFiles, MeansToWrite
  <2>2. started[r] \in Seconds /\ started[q] \in Seconds
    BY <2>1 DEF TypeOK
  <2>3. Named(r, started[r]) # Named(q, started[q])
    BY <2>1 DEF Named
  <2>4. \A s, t \in Seconds : Stamped(s) # Named(r, t)
    BY DEF Stamped, Named
  <2>5. Named(r, started[r]) # dest[q]
    BY <2>1, <2>2, <2>3, <2>4
  <2>6. dest'[r] = BuildOutputPath(r)
    BY <1>1, <1>4
  <2>7. CASE file[Stamped(started[r])].state = "absent"
    BY <2>1, <2>6, <2>7 DEF BuildOutputPath
  <2>8. CASE file[Stamped(started[r])].state # "absent"
    BY <2>5, <2>6, <2>8 DEF BuildOutputPath
  <2> QED
    BY <2>7, <2>8
<1>5. ASSUME SerialAmong(before[r])' PROVE SerialAmong(before[r])
  BY <1>1, <1>5 DEF SerialAmong
<1> QED
  BY <1>0, <1>1, <1>2, <1>3, <1>4, <1>5 DEF OwesToEarlier, Loaded, Planned

LEMMA LaterOwes ==
  ASSUME TypeOK, RecordInv, NEW r \in Run, Advances(r), ~Load(r), ~Plan(r)
  PROVE  OwesToEarlier(r)'
<1>1. OwesToEarlier(r)
  BY DEF RecordInv
<1>2. /\ UNCHANGED <<mode, copy, dest, before>>
      /\ pc'[r] \in Planned => pc[r] \in Planned
      /\ pc'[r] \in Loaded => pc[r] \in Planned
  BY DEF Advances, FailBeforeSave, MakeTemp, SaveTemp, FailToSave, Replace, Kill, At, Goto,
     TypeOK, Loaded, Planned
<1>3. Done \subseteq Done'
  BY DoneStays
<1>4. SerialAmong(before[r])' => SerialAmong(before[r])
  BY <1>2 DEF SerialAmong
<1> QED
  BY <1>1, <1>2, <1>3, <1>4 DEF OwesToEarlier, Loaded

\* A save over an earlier run's workbook keeps its row, and any other save leaves
\* its workbook alone.
LEMMA ReplaceKeepsRecord ==
  ASSUME TypeOK, FileInv, RecordInv, NEW r \in Run, Replace(r), Serial'
  PROVE  \A q \in Done' : OnRecord(q)'
<1>1. /\ pc[r] = "replace" /\ UNCHANGED <<mode, started, copy, dest, before>>
      /\ file' = [file EXCEPT ![dest[r]] = copy[r]] /\ dest[r] \in Path
      /\ mode = "IN_PLACE" => dest[r] = Input
  BY ReplacePuts
<1>2. Done' = Done \cup {r} /\ r \notin Done
  BY DoneStays DEF Advances
<1>3. OwesToEarlier(r) /\ mode \in {"NEW_FILE", "IN_PLACE"}
  BY DEF RecordInv, TypeOK
<1>4. Serial /\ SerialAmong(before[r])
  BY <1>1, <1>2, <1>3 DEF Serial, SerialAmong, OwesToEarlier
<1>5. \A q \in Done : OnRecord(q)
  BY <1>4 DEF RecordInv, SerialRunsStayOnRecord
<1>6. \A q \in Done : r \notin before[q]
  BY <1>2 DEF RecordInv, OwesToEarlier, Done
<1>7. \A q \in Done : q \in before[r]
  BY <1>1, <1>2, <1>6 DEF Serial
<1>8. file'[dest[r]] = copy[r]
  BY <1>1 DEF TypeOK
<1>9. \A q \in Done : dest[q] # dest[r] => file'[dest[q]] = file[dest[q]]
  BY <1>1 DEF TypeOK, Done
<1>10. OnRecord(r)'
  BY <1>1, <1>3, <1>8 DEF OwesToEarlier, OnRecord, Planned
<1>11. ASSUME NEW q \in Done PROVE OnRecord(q)'
  <2>1. CASE mode = "NEW_FILE"
    <3>1. dest[q] # dest[r]
      BY <1>1, <1>3, <1>7, <2>1 DEF OwesToEarlier, Planned
    <3> QED
      BY <1>1, <1>5, <1>9, <3>1 DEF OnRecord
  <2>2. CASE mode = "IN_PLACE"
    <3>1. q \in copy[r].history
      BY <1>1, <1>3, <1>4, <1>7, <2>2 DEF OwesToEarlier, Loaded, Planned
    <3> QED
      BY <1>1, <1>5, <1>8, <1>9, <3>1 DEF OnRecord
  <2> QED
    BY <1>3, <2>1, <2>2
<1> QED
  BY <1>2, <1>10, <1>11

LEMMA RecordStep == TypeOK /\ FileInv /\ RecordInv /\ [Next]_vars => RecordInv'
<1> SUFFICES ASSUME TypeOK, FileInv, RecordInv, [Next]_vars PROVE RecordInv'
  OBVIOUS
<1>1. CASE UNCHANGED vars
  BY <1>1 DEF vars, RecordInv, OwesToEarlier, SerialRunsStayOnRecord, Serial, SerialAmong,
     OnRecord, Done
<1>2. ASSUME NEW r \in Run, Advances(r) PROVE RecordInv'
  <2>1. \A q \in Run : OwesToEarlier(q)'
    BY <1>2, OthersOweTheSame, LoadOwes, PlanOwes, LaterOwes
  <2>2. CASE Replace(r)
    BY <2>1, <2>2, ReplaceKeepsRecord DEF RecordInv, SerialRunsStayOnRecord
  <2>3. CASE ~Replace(r)
    <3>1. /\ Done' = Done /\ file' = file
          /\ \A q \in Done : before'[q] = before[q] /\ dest'[q] = dest[q]
      BY <1>2, <2>3, DoneStays, FilesUnmoved
    <3>2. SerialRunsStayOnRecord'
      BY <3>1 DEF RecordInv, SerialRunsStayOnRecord, Serial, OnRecord
    <3> QED
      BY <2>1, <3>2 DEF RecordInv
  <2> QED
    BY <2>2, <2>3
<1> QED
  BY <1>1, <1>2 DEF Next, Advances, AllOver

\* Runs one after the other lose nothing (_write_results reads the workbook again before
\* it saves, build_output_path adds the run id to a name that is taken), however many
\* they are.
THEOREM ResultFileSerialRunsStayOnRecord == Spec => []SerialRunsStayOnRecord
<1>1. RecordInv => SerialRunsStayOnRecord
  BY DEF RecordInv
<1> QED
  BY <1>1, InitTypes, TypesStep, InitFiles, FilesStep, InitRecord, RecordStep, PTL DEF Spec
====
