--------------------------- MODULE EditFlowProofs ---------------------------
(***************************************************************************)
(* What is deleted stays deleted, what is replaced is kept and what is     *)
(* served fits together, for any number of edits, of crashes and of        *)
(* failing calls.                                                          *)
(***************************************************************************)
EXTENDS EditFlow, FiniteSetTheorems, SequenceTheorems, WellFoundedInduction, TLAPS

(* A row, and the tables of a document that has none: the cascades have    *)
(* emptied them.                                                           *)
RowTyped == row = [status |-> row.status, output |-> row.output]
Emptied  == ~Exists => result = None /\ versions = << >>

GoneInv == RowTyped /\ Emptied

(* Two calls that a deleted document answers like no call at all.          *)
LEMMA ReportsInVain ==
    ASSUME RowTyped, NEW s \in {"PROCESSING", "COMPLETED", "FAILED"}, Reports(s)
    PROVE  /\ RowTyped' /\ Exists' = Exists
           /\ UNCHANGED <<result, versions>>
BY DEF Reports, SetStatus, RowTyped, Exists, Fault

LEMMA StoresInVain ==
    ASSUME NEW data, NEW accepted \in BOOLEAN, Stores(data, accepted)
    PROVE  UNCHANGED <<row, versions>> /\ (~Exists => result' = result)
BY DEF Stores, Fault

(* A step brings back neither the row nor what hung on it.                 *)
Kept == /\ RowTyped'
        /\ ~Exists => ~Exists' /\ UNCHANGED <<result, versions>>
        /\ Exists /\ ~Exists' => result' = None /\ versions' = << >>

LEMMA FormattingKeeps == GoneInv /\ Formatting => Kept
<1> SUFFICES ASSUME GoneInv, Formatting PROVE Kept
  OBVIOUS
<1>1. CASE FmtReports \/ FmtCompletes
  BY <1>1, ReportsInVain DEF FmtReports, FmtCompletes, GoneInv, Kept
<1>2. CASE FmtExports \/ FmtRaises
  BY <1>2 DEF FmtExports, FmtRaises, tables, GoneInv, Kept, RowTyped, Exists
<1>3. CASE FmtInserts
  BY <1>3, StoresInVain DEF FmtInserts, GoneInv, Kept, RowTyped, Exists
<1>4. CASE FmtPublishes
  BY <1>4 DEF FmtPublishes, GoneInv, Kept, RowTyped, Exists
<1> QED BY <1>1, <1>2, <1>3, <1>4 DEF Formatting

LEMMA EditKeeps == ASSUME GoneInv, NEW e \in Edits, Edit(e) PROVE Kept
<1>1. CASE Validates(e) \/ Styles(e) \/ ReportEdited(e) \/ ReportFailure(e)
  BY <1>1, ReportsInVain DEF Validates, Styles, ReportEdited, ReportFailure, GoneInv, Kept
<1>2. CASE ReadSource(e) \/ Exports(e) \/ EditRaises(e) \/ SelectResult(e) \/ NumberVersion(e)
  BY <1>2 DEF ReadSource, Exports, EditRaises, SelectResult, NumberVersion, tables, GoneInv,
     Kept, RowTyped, Exists
<1>3. CASE UpsertResult(e) \/ InsertResult(e)
  BY <1>3, StoresInVain DEF UpsertResult, InsertResult, GoneInv, Kept, RowTyped, Exists
<1>4. CASE Snapshot(e)
  BY <1>4 DEF Snapshot, GoneInv, Kept, RowTyped, Exists
<1>5. CASE UpdateOutput(e)
  BY <1>5 DEF UpdateOutput, GoneInv, Kept, RowTyped, Exists
<1> QED BY <1>1, <1>2, <1>3, <1>4, <1>5 DEF Edit

LEMMA DeletionKeeps == GoneInv /\ (RequestDelete \/ Deletion) => Kept
<1> SUFFICES ASSUME GoneInv, RequestDelete \/ Deletion PROVE Kept
  OBVIOUS
<1>1. CASE RequestDelete \/ DeleteReadsAgain
  BY <1>1 DEF RequestDelete, DeleteReadsAgain, tables, GoneInv, Kept, RowTyped, Exists
<1>2. CASE DeleteResults \/ DeleteVersions
  BY <1>2 DEF DeleteResults, DeleteVersions, GoneInv, Emptied, Kept, RowTyped, Exists
<1>3. CASE DeleteRow
  BY <1>3 DEF DeleteRow, tables, GoneInv, Emptied, Kept, RowTyped, Exists
<1> QED BY <1>1, <1>2, <1>3 DEF Deletion

LEMMA StepKeeps == GoneInv /\ [Next]_vars => Kept
<1> SUFFICES ASSUME GoneInv, [Next]_vars PROVE Kept
  OBVIOUS
<1>1. CASE \E e \in Edits, m \in {"background", "celery"} : RequestEdit(e, m)
  BY <1>1 DEF RequestEdit, tables, GoneInv, Kept, RowTyped, Exists
<1>2. CASE \E e \in Edits : Edit(e)
  BY <1>2, EditKeeps
<1>3. CASE WebCrashes \/ \E e \in Edits : WorkerCrashes(e)
  BY <1>3 DEF WebCrashes, WorkerCrashes, tables, GoneInv, Kept, RowTyped, Exists
<1>4. CASE Restart
  BY <1>4 DEF Restart, GoneInv, Kept, RowTyped, Exists
<1>5. CASE Idle \/ UNCHANGED vars
  BY <1>5 DEF Idle, vars, tables, GoneInv, Kept, RowTyped, Exists
<1> QED
  BY <1>1, <1>2, <1>3, <1>4, <1>5, FormattingKeeps, DeletionKeeps DEF Next

LEMMA GoneInit == Init => GoneInv
<1> SUFFICES ASSUME Init PROVE GoneInv
  OBVIOUS
<1>1. \/ row = [status |-> "PROCESSING", output |-> None]
      \/ row = [status |-> "COMPLETED", output |-> "edited"]
  BY DEF Init
<1> QED BY <1>1 DEF GoneInv, RowTyped, Emptied, Exists

LEMMA GoneStep == GoneInv /\ [Next]_vars => GoneInv'
<1> SUFFICES ASSUME GoneInv, [Next]_vars PROVE GoneInv'
  OBVIOUS
<1>1. Kept
  BY StepKeeps
<1> QED BY <1>1 DEF Kept, GoneInv, Emptied

(* No edit, formatting, redelivery or restart brings back a deleted        *)
(* document, or a result or a version of it: the updates by id match no    *)
(* row and the foreign keys refuse the rest.                               *)
THEOREM DeletionIsFinal == Spec => DeletedStaysDeleted
<1>1. GoneInv /\ [Next]_vars
         => [~Exists => ~Exists' /\ result' = None /\ versions' = << >>]_vars
  BY StepKeeps DEF Kept, GoneInv, Emptied
<1>2. GoneInv /\ [Next]_vars => GoneInv'
  BY GoneStep
<1> QED BY <1>1, <1>2, GoneInit, PTL DEF Spec, DeletedStaysDeleted

-----------------------------------------------------------------------------
(* One at a time                                                           *)

Shapes ==
    /\ RowTyped
    /\ files = [p \in Paths |-> files[p]]
    /\ pc \in [Edits -> Steps \cup Over]
    /\ replaced = [e \in Edits |-> replaced[e]]
    /\ number = [e \in Edits |-> number[e]]
    /\ \E S : versions \in Seq(S)
    /\ faults \in Nat

(* As long as the history does not say that two have met, no two are       *)
(* under way.                                                              *)
Alone(e) == fmt \in Over /\ ~Deleting /\ \A f \in Edits : Live(f) => f = e
SoloInv  == Shapes /\ (~overlapped => \A e \in Edits : Live(e) => Alone(e))

LEMMA NobodyActive ==
    ASSUME Active = 0
    PROVE  fmt \in Over /\ ~Deleting /\ \A e \in Edits : ~Live(e)
<1> DEFINE live == {e \in Edits : Live(e)}
<1>1. IsFiniteSet(live) /\ Cardinality(live) \in Nat
  BY EditAssumption, FS_Subset, FS_CardinalityType DEF EditAssumption
<1>2. Active = Cardinality(live) + (IF fmt \in Over THEN 0 ELSE 1) + (IF Deleting THEN 1 ELSE 0)
  BY DEF Active
<1> HIDE DEF live
<1>3. Cardinality(live) = 0 /\ fmt \in Over /\ ~Deleting
  BY <1>1, <1>2
<1>4. live = {}
  BY <1>1, <1>3, FS_EmptySet
<1> QED BY <1>3, <1>4 DEF live

(* Appending to a sequence of anything.                                    *)
LEMMA AppendFacts ==
    ASSUME NEW v, NEW x, \E S : v \in Seq(S)
    PROVE  /\ \E S : Append(v, x) \in Seq(S)
           /\ Len(v) \in Nat /\ DOMAIN v = 1 .. Len(v)
           /\ DOMAIN Append(v, x) = 1 .. Len(v) + 1
           /\ Len(Append(v, x)) = Len(v) + 1
           /\ \A i \in 1 .. Len(v) : Append(v, x)[i] = v[i]
           /\ Append(v, x)[Len(v) + 1] = x
<1>1. PICK S : v \in Seq(S)
  OBVIOUS
<1>2. v \in Seq(S \cup {x})
  BY <1>1
<1> QED BY <1>2, AppendProperties

LEMMA ShapesInit == Init => Shapes
<1> SUFFICES ASSUME Init PROVE Shapes
  OBVIOUS
<1>1. RowTyped
  BY GoneInit DEF GoneInv
<1>2. \E S : versions \in Seq(S)
  <2>1. PICK n \in Earlier : versions = [i \in 1 .. n |->
                [number |-> i, data |-> IF i = 1 THEN "formatted" ELSE "earlier",
                 path |-> IF i = 1 THEN "main" ELSE "edited"]]
    BY DEF Init
  <2>2. n \in Nat
    BY EditAssumption DEF EditAssumption
  <2> DEFINE S == {versions[i] : i \in 1 .. n}
  <2>3. versions \in [1 .. n -> S]
    BY <2>1
  <2>4. versions \in Seq(S)
    BY <2>2, <2>3
  <2> QED BY <2>4
<1>3. files = [p \in Paths |-> files[p]]
  BY DEF Init
<1>4. pc \in [Edits -> Steps \cup Over]
  BY DEF Init, Over
<1> QED BY <1>1, <1>2, <1>3, <1>4 DEF Init, Shapes

LEMMA ShapesStep == GoneInv /\ Shapes /\ [Next]_vars => Shapes'
<1> SUFFICES ASSUME GoneInv, Shapes, [Next]_vars PROVE Shapes'
  OBVIOUS
<1>0. RowTyped'
  BY StepKeeps DEF Kept
<1>a. Fault => faults' \in Nat
  BY DEF Fault, Shapes
<1>b. ASSUME NEW e \in Edits, NEW l \in Steps \cup Over, Goto(e, l)
      PROVE  pc' \in [Edits -> Steps \cup Over]
  BY <1>b DEF Goto, Shapes
<1>c. ASSUME NEW s \in {"PROCESSING", "COMPLETED", "FAILED"}, Reports(s)
      PROVE  UNCHANGED versions /\ faults' \in Nat
  BY <1>a, <1>c DEF Reports, Shapes
<1>d. ASSUME NEW data, NEW accepted \in BOOLEAN, Stores(data, accepted)
      PROVE  UNCHANGED versions /\ faults' \in Nat
  BY <1>a, <1>d DEF Stores, Shapes
<1>1. CASE Formatting
  <2>1. UNCHANGED <<versions, pc, locals>>
    BY <1>1, <1>c, <1>d DEF Formatting, FmtReports, FmtExports, FmtRaises, FmtInserts,
       FmtPublishes, FmtCompletes, tables
  <2>2. faults' \in Nat
    BY <1>1, <1>a, <1>c, <1>d DEF Formatting, FmtReports, FmtExports, FmtRaises, FmtInserts,
       FmtPublishes, FmtCompletes, bounds, Shapes
  <2>3. files' = [p \in Paths |-> files'[p]]
    BY <1>1 DEF Formatting, FmtReports, FmtExports, FmtRaises, FmtInserts, FmtPublishes,
       FmtCompletes, Shapes
  <2> QED BY <1>0, <2>1, <2>2, <2>3 DEF Shapes, locals
<1>2. ASSUME NEW e \in Edits, Edit(e) PROVE Shapes'
  <2>1. CASE Validates(e) \/ Styles(e) \/ ReportEdited(e) \/ ReportFailure(e)
    <3>1. \E l \in Steps \cup Over : Goto(e, l)
      BY <2>1 DEF Validates, Styles, ReportEdited, ReportFailure, Steps, Over
    <3>2. UNCHANGED <<versions, files, locals>> /\ faults' \in Nat
      BY <2>1, <1>c DEF Validates, Styles, ReportEdited, ReportFailure
    <3> QED BY <1>0, <1>b, <3>1, <3>2 DEF Shapes, locals
  <2>2. CASE ReadSource(e) \/ Exports(e) \/ EditRaises(e) \/ SelectResult(e) \/ NumberVersion(e)
    <3>1. \E l \in Steps \cup Over : Goto(e, l)
      BY <2>2 DEF ReadSource, Exports, EditRaises, SelectResult, NumberVersion, Steps, Over
    <3>2. UNCHANGED versions /\ faults' \in Nat
      BY <2>2, <1>a DEF ReadSource, Exports, EditRaises, SelectResult, NumberVersion, tables,
         bounds, Shapes
    <3>3. files' = [p \in Paths |-> files'[p]]
      BY <2>2 DEF ReadSource, Exports, EditRaises, SelectResult, NumberVersion, Shapes
    <3>4. replaced' = [f \in Edits |-> replaced'[f]] /\ number' = [f \in Edits |-> number'[f]]
      BY <2>2 DEF ReadSource, Exports, EditRaises, SelectResult, NumberVersion, locals, Shapes
    <3> QED BY <1>0, <1>b, <3>1, <3>2, <3>3, <3>4 DEF Shapes
  <2>3. CASE UpsertResult(e) \/ InsertResult(e) \/ UpdateOutput(e)
    <3>1. \E l \in Steps \cup Over : Goto(e, l)
      BY <2>3 DEF UpsertResult, InsertResult, UpdateOutput, Steps, Over
    <3>2. UNCHANGED <<versions, files, locals>> /\ faults' \in Nat
      BY <2>3, <1>a, <1>d DEF UpsertResult, InsertResult, UpdateOutput, Shapes
    <3> QED BY <1>0, <1>b, <3>1, <3>2 DEF Shapes, locals
  <2>4. CASE Snapshot(e)
    <3>1. pc' \in [Edits -> Steps \cup Over]
      BY <2>4, <1>b DEF Snapshot, Steps, Over
    <3>2. UNCHANGED <<files, locals>> /\ faults' \in Nat
      BY <2>4, <1>a DEF Snapshot, Shapes
    <3>3. \E S : versions' \in Seq(S)
      <4>1. versions' = versions \/ \E x : versions' = Append(versions, x)
        BY <2>4 DEF Snapshot
      <4>2. \E S : versions \in Seq(S)
        BY DEF Shapes
      <4>3. \A x : \E S : Append(versions, x) \in Seq(S)
        BY <4>2, AppendFacts
      <4> QED BY <4>1, <4>2, <4>3
    <3> QED BY <1>0, <3>1, <3>2, <3>3 DEF Shapes, locals
  <2> QED BY <1>2, <2>1, <2>2, <2>3, <2>4 DEF Edit
<1>3. CASE RequestDelete \/ Deletion
  <2>1. UNCHANGED <<pc, locals>> /\ faults' \in Nat
    BY <1>3, <1>a DEF RequestDelete, Deletion, DeleteReadsAgain, DeleteResults, DeleteVersions,
       DeleteRow, bounds, Shapes
  <2>2. files' = [p \in Paths |-> files'[p]]
    BY <1>3 DEF RequestDelete, Deletion, DeleteReadsAgain, DeleteResults, DeleteVersions,
       DeleteRow, Removes, Shapes
  <2>3. versions' = versions \/ versions' = << >>
    BY <1>3 DEF RequestDelete, Deletion, DeleteReadsAgain, DeleteResults, DeleteVersions,
       DeleteRow, tables
  <2>4. \E S : versions' \in Seq(S)
    <3>1. << >> \in Seq({})
      OBVIOUS
    <3> QED BY <2>3, <3>1 DEF Shapes
  <2> QED BY <1>0, <2>1, <2>2, <2>4 DEF Shapes, locals
<1>4. CASE \/ \E e \in Edits, m \in {"background", "celery"} : RequestEdit(e, m)
           \/ \E e \in Edits : WorkerCrashes(e)
           \/ WebCrashes \/ Restart \/ Idle \/ UNCHANGED vars
  <2>1. UNCHANGED <<versions, files, replaced, number, faults>>
    BY <1>4 DEF RequestEdit, WorkerCrashes, WebCrashes, Restart, Idle, vars, tables, locals, bounds
  <2>2. pc' \in [Edits -> Steps \cup Over]
    <3>1. CASE \/ \E e \in Edits, m \in {"background", "celery"} : RequestEdit(e, m)
               \/ \E e \in Edits : WorkerCrashes(e)
      <4>1. \E e \in Edits : Goto(e, "queued")
        BY <3>1 DEF RequestEdit, WorkerCrashes
      <4> QED BY <4>1, <1>b DEF Steps
    <3>2. CASE WebCrashes
      <4>1. \A e \in Edits : (IF Live(e) /\ mode[e] = "background" THEN "lost" ELSE pc[e])
                                 \in Steps \cup Over
        BY DEF Shapes, Over
      <4> QED BY <3>2, <4>1 DEF WebCrashes
    <3>3. CASE Restart \/ Idle \/ UNCHANGED vars
      BY <3>3 DEF Restart, Idle, vars, Shapes
    <3> QED BY <1>4, <3>1, <3>2, <3>3
  <2> QED BY <1>0, <2>1, <2>2 DEF Shapes
<1> QED BY <1>1, <1>2, <1>3, <1>4 DEF Next

(* Only the two requests begin something.                                  *)
LEMMA SoloStep == GoneInv /\ SoloInv /\ [Next]_vars => SoloInv'
<1> SUFFICES ASSUME GoneInv, SoloInv, [Next]_vars, ~overlapped',
                    NEW e \in Edits, Live(e)'
             PROVE  Alone(e)'
  BY ShapesStep DEF SoloInv
<1>0. Shapes
  BY DEF SoloInv
<1>1. ASSUME ~overlapped, \A f \in Edits : Live(f)' => Live(f), fmt \in Over => fmt' \in Over,
             Deleting' => Deleting
      PROVE  Alone(e)'
  BY <1>1 DEF SoloInv, Alone
<1>2. CASE Formatting
  <2>1. UNCHANGED <<overlapped, pc, del>> /\ (fmt \in Over => fmt' \in Over)
    BY <1>2 DEF Formatting, FmtReports, FmtExports, FmtRaises, FmtInserts, FmtPublishes,
       FmtCompletes, Reports, history, Over
  <2> QED BY <1>1, <2>1 DEF Live, Deleting
<1>3. ASSUME NEW g \in Edits, Edit(g) PROVE Alone(e)'
  <2>1. UNCHANGED <<overlapped, fmt, del>> /\ Live(g) /\ \E l : Goto(g, l)
    BY <1>3 DEF Edit, ReadSource, Validates, Styles, Exports, EditRaises, SelectResult,
       NumberVersion, Snapshot, UpsertResult, InsertResult, UpdateOutput, ReportEdited,
       ReportFailure, Reports, history, Live, Over
  <2>2. \A f \in Edits : Live(f)' => Live(f)
    BY <1>0, <2>1 DEF Goto, Live, Shapes
  <2> QED BY <1>1, <2>1, <2>2 DEF Deleting
<1>4. ASSUME NEW g \in Edits, NEW m, RequestEdit(g, m) PROVE Alone(e)'
  <2>1. ~overlapped /\ ~(Active > 0) /\ UNCHANGED <<fmt, del>> /\ Goto(g, "queued")
    BY <1>4 DEF RequestEdit
  <2>2. Active = 0
    <3>1. Active \in Nat
      <4>1. Cardinality({f \in Edits : Live(f)}) \in Nat
        BY EditAssumption, FS_Subset, FS_CardinalityType DEF EditAssumption
      <4> QED BY <4>1 DEF Active
    <3> QED BY <2>1, <3>1
  <2>3. \A f \in Edits : Live(f)' => f = g
    BY <1>0, <2>1, <2>2, NobodyActive DEF Goto, Live, Shapes
  <2> QED BY <2>1, <2>2, <2>3, NobodyActive DEF Alone, Deleting
<1>5. CASE RequestDelete
  <2>1. ~(Active > 0) /\ pc' = pc
    BY <1>5 DEF RequestDelete
  <2>2. Active = 0
    <3>1. Active \in Nat
      <4>1. Cardinality({f \in Edits : Live(f)}) \in Nat
        BY EditAssumption, FS_Subset, FS_CardinalityType DEF EditAssumption
      <4> QED BY <4>1 DEF Active
    <3> QED BY <2>1, <3>1
  <2> QED BY <2>1, <2>2, NobodyActive DEF Live
<1>6. CASE Deletion
  <2>1. UNCHANGED <<overlapped, pc, fmt>> /\ (Deleting' => Deleting)
    BY <1>6 DEF Deletion, DeleteReadsAgain, DeleteResults, DeleteVersions, DeleteRow, history,
       Deleting
  <2> QED BY <1>1, <2>1 DEF Live
<1>7. ASSUME NEW g \in Edits, WorkerCrashes(g) PROVE Alone(e)'
  <2>1. UNCHANGED <<overlapped, fmt, del>> /\ Live(g) /\ Goto(g, "queued")
    BY <1>7 DEF WorkerCrashes, history
  <2>2. \A f \in Edits : Live(f)' => Live(f)
    BY <1>0, <2>1 DEF Goto, Live, Shapes
  <2> QED BY <1>1, <2>1, <2>2 DEF Deleting
<1>8. CASE WebCrashes
  <2>1. /\ overlapped' = overlapped /\ (fmt \in Over => fmt' \in Over)
        /\ (Deleting' => Deleting)
        /\ pc' = [f \in Edits |-> IF Live(f) /\ mode[f] = "background" THEN "lost" ELSE pc[f]]
    BY <1>8 DEF WebCrashes, history, Deleting
  <2>2. \A f \in Edits : Live(f)' => Live(f)
    BY <2>1 DEF Live, Over
  <2> QED BY <1>1, <2>1, <2>2
<1>9. CASE Restart \/ Idle \/ UNCHANGED vars
  <2>1. UNCHANGED <<overlapped, pc, fmt, del>>
    BY <1>9 DEF Restart, Idle, vars, history
  <2> QED BY <1>1, <2>1 DEF Live, Deleting
<1> QED BY <1>2, <1>3, <1>4, <1>5, <1>6, <1>7, <1>8, <1>9 DEF Next

LEMMA SoloInit == Init => SoloInv
BY ShapesInit DEF Init, SoloInv, Live, Over

-----------------------------------------------------------------------------
(* Results and files                                                       *)

Undisturbed  == ~overlapped /\ faults = 0 /\ del = "none"
Versioned(c) == \E i \in DOMAIN versions : versions[i].data = c
Consistent   == row.output # None /\ files[row.output] = result

Reported == {"styling", "exporting", "selecting", "numbering", "snapshot", "upserting",
             "inserting", "publishing", "finishing"}
Exported == Reported \ {"styling", "exporting"}

(* What an execution that nothing disturbs has done by where it is.        *)
FmtFlow ==
    /\ fmt \in {"running", "inserting", "publishing"} => row.status # "COMPLETED"
    /\ fmt = "running" => result = None
    /\ fmt = "inserting" => result = None /\ files["main"] = "formatted"
    /\ fmt = "publishing" => result = "formatted" /\ files["main"] = "formatted"
    /\ fmt = "finishing" => Consistent

EditFlowed(e) ==
    /\ pc[e] \in Reported => row.status # "COMPLETED"
    /\ pc[e] \in Exported => files["edited"] = e
    /\ pc[e] \in {"numbering", "snapshot"} => replaced[e] = result
    /\ pc[e] = "upserting" => \A c \in stored : Versioned(c)
    /\ pc[e] = "inserting" => result = None
    /\ pc[e] \in {"publishing", "finishing"} => result = e
    /\ pc[e] = "finishing" => row.output = "edited"

DataInv ==
    /\ Exists
    /\ row.status = "COMPLETED" => Consistent
    /\ \A c \in stored : c # None /\ (c = result \/ Versioned(c))

FlowInv == Undisturbed => DataInv /\ FmtFlow /\ \A e \in Edits : EditFlowed(e)

LEMMA ReportsCleanly ==
    ASSUME RowTyped, Exists, faults \in Nat, faults' = 0, NEW s, Reports(s)
    PROVE  /\ row' = [status |-> s, output |-> row.output] /\ faults = 0
           /\ UNCHANGED <<result, versions, overlapped, stored>>
BY DEF RowTyped, Reports, SetStatus, Fault

LEMMA StoresCleanly ==
    ASSUME Exists, faults \in Nat, faults' = 0, NEW data, NEW accepted \in BOOLEAN,
           Stores(data, accepted)
    PROVE  /\ UNCHANGED <<row, versions>> /\ faults = 0
           /\ accepted => result' = data /\ stored' = stored \cup {data}
BY DEF Stores, Fault

(* Edits are no contents of other origin.                                  *)
LEMMA EditsApart == \A e \in Edits : e # None
BY EditAssumption DEF EditAssumption, None

LEMMA FlowInit == Init => FlowInv
<1> SUFFICES ASSUME Init PROVE FlowInv
  OBVIOUS
<1>1. PICK n \in Earlier :
         /\ versions = [i \in 1 .. n |->
                [number |-> i, data |-> IF i = 1 THEN "formatted" ELSE "earlier",
                 path |-> IF i = 1 THEN "main" ELSE "edited"]]
         /\ IF n = 0
            THEN /\ row = [status |-> "PROCESSING", output |-> None]
                 /\ result = None /\ stored = {}
                 /\ files = [p \in Paths |-> None]
                 /\ fmt = "running"
            ELSE /\ row = [status |-> "COMPLETED", output |-> "edited"]
                 /\ result = "earlier" /\ stored = {"formatted", "earlier"}
                 /\ files = [p \in Paths |-> IF p = "main" THEN "formatted" ELSE "earlier"]
                 /\ fmt = "done"
  BY DEF Init
<1>2. \A e \in Edits : EditFlowed(e)
  BY DEF Init, EditFlowed, Reported, Exported
<1>3. CASE n = 0
  BY <1>1, <1>2, <1>3 DEF FlowInv, DataInv, FmtFlow, Exists
<1>4. CASE n # 0
  <2>1. n \in Nat
    BY EditAssumption DEF EditAssumption
  <2>2. 1 \in DOMAIN versions /\ versions[1].data = "formatted"
    BY <1>1, <1>4, <2>1
  <2>3. Versioned("formatted")
    BY <2>2 DEF Versioned
  <2> QED BY <1>1, <1>2, <1>4, <2>3 DEF FlowInv, DataInv, FmtFlow, Exists, Consistent, Paths, None
<1> QED BY <1>3, <1>4

LEMMA FormattingFlows ==
    ASSUME SoloInv, FlowInv, Formatting, Undisturbed' PROVE FlowInv'
<1>0. /\ Shapes /\ RowTyped /\ faults \in Nat /\ faults' = 0 /\ "main" \in Paths
      /\ files = [p \in Paths |-> files[p]]
  BY DEF SoloInv, Shapes, Undisturbed, Paths
<1>1. ~overlapped /\ del = "none" /\ UNCHANGED <<pc, versions>>
  BY DEF Formatting, FmtReports, FmtExports, FmtRaises, FmtInserts, FmtPublishes, FmtCompletes,
     Undisturbed, Reports, Stores, history, tables
<1>2. fmt \notin Over
  BY DEF Formatting, FmtReports, FmtExports, FmtRaises, FmtInserts, FmtPublishes, FmtCompletes, Over
<1>3. \A e \in Edits : EditFlowed(e)'
  <2>1. \A e \in Edits : pc[e] \in Over
    BY <1>1, <1>2 DEF SoloInv, Alone, Live
  <2> QED BY <1>1, <2>1 DEF EditFlowed, Over, Reported, Exported
<1>4. faults = 0 => DataInv /\ FmtFlow
  BY <1>1 DEF FlowInv, Undisturbed
<1>5. \A c : Versioned(c)' <=> Versioned(c)
  BY <1>1 DEF Versioned
<1>6. CASE FmtReports
  <2>1. faults = 0 /\ result' = result /\ stored' = stored /\ files' = files /\ fmt' = fmt
        /\ row' = [status |-> "PROCESSING", output |-> row.output] /\ fmt = "running"
    <3>1. faults = 0 \/ faults' # 0
      BY <1>0, <1>6 DEF FmtReports, Reports, Fault
    <3>2. Exists
      BY <1>0, <1>4, <3>1 DEF DataInv
    <3> QED BY <1>0, <1>6, <3>2, ReportsCleanly DEF FmtReports
  <2> QED BY <1>3, <1>4, <1>5, <2>1 DEF FlowInv, DataInv, FmtFlow, Exists
<1>7. CASE FmtExports
  <2>1. faults = 0 /\ UNCHANGED <<row, result, stored>> /\ fmt = "running" /\ fmt' = "inserting"
        /\ files' = [files EXCEPT !["main"] = "formatted"]
    BY <1>0, <1>7 DEF FmtExports, tables, history, bounds
  <2>2. files'["main"] = "formatted"
    BY <1>0, <2>1
  <2> QED BY <1>3, <1>4, <1>5, <2>1, <2>2 DEF FlowInv, DataInv, FmtFlow, Exists
<1>8. CASE FmtRaises
  BY <1>0, <1>8 DEF FmtRaises, Fault
<1>9. CASE FmtInserts
  <2>1. faults = 0 /\ fmt = "inserting" /\ fmt' = "publishing" /\ files' = files
        /\ Stores("formatted", result = None)
    BY <1>0, <1>9 DEF FmtInserts, Stores, Fault
  <2>2. result = None /\ Exists
    BY <1>4, <2>1 DEF FmtFlow, DataInv
  <2>3. row' = row /\ result' = "formatted" /\ stored' = stored \cup {"formatted"}
    BY <1>0, <2>1, <2>2, StoresCleanly
  <2>4. "formatted" # None
    BY DEF None
  <2> QED BY <1>3, <1>4, <1>5, <2>1, <2>2, <2>3, <2>4 DEF FlowInv, DataInv, FmtFlow, Exists
<1>10. CASE FmtPublishes
  <2>1. faults = 0 /\ fmt = "publishing" /\ fmt' = "finishing"
        /\ UNCHANGED <<files, result, stored>>
    BY <1>0, <1>10 DEF FmtPublishes, history, Fault
  <2>2. row' = [status |-> "COMPLETED", output |-> "main"]
    BY <1>0, <1>4, <1>10, <2>1 DEF FmtPublishes, Fault, DataInv
  <2>3. Consistent'
    BY <1>4, <2>1, <2>2 DEF FmtFlow, Consistent, None
  <2> QED BY <1>3, <1>4, <1>5, <2>1, <2>2, <2>3 DEF FlowInv, DataInv, FmtFlow, Exists
<1>11. CASE FmtCompletes
  <2>1. faults = 0 \/ faults' # 0
    BY <1>0, <1>11 DEF FmtCompletes, Reports, Fault
  <2>2. Exists /\ Consistent
    BY <1>0, <1>4, <1>11, <2>1 DEF DataInv, FmtFlow, FmtCompletes
  <2>3. row' = [status |-> "COMPLETED", output |-> row.output] /\ fmt' = "done"
        /\ UNCHANGED <<files, result, stored>>
    BY <1>0, <1>11, <2>2, ReportsCleanly DEF FmtCompletes
  <2>4. Consistent'
    BY <2>2, <2>3 DEF Consistent
  <2> QED BY <1>0, <1>3, <1>4, <1>5, <2>1, <2>3, <2>4 DEF FlowInv, DataInv, FmtFlow, Exists
<1> QED BY <1>6, <1>7, <1>8, <1>9, <1>10, <1>11 DEF Formatting

LEMMA EditFlows ==
    ASSUME SoloInv, FlowInv, NEW e \in Edits, Edit(e), Undisturbed' PROVE FlowInv'
<1>0. /\ Shapes /\ RowTyped /\ faults \in Nat /\ faults' = 0 /\ "edited" \in Paths
      /\ files = [p \in Paths |-> files[p]] /\ pc \in [Edits -> Steps \cup Over]
      /\ replaced = [f \in Edits |-> replaced[f]] /\ \E S : versions \in Seq(S)
  BY DEF SoloInv, Shapes, Undisturbed, Paths
<1>1. /\ ~overlapped /\ del = "none" /\ UNCHANGED fmt /\ Live(e)
      /\ faults = 0 \/ faults' # 0
  BY <1>0 DEF Edit, ReadSource, Validates, Styles, Exports, EditRaises, SelectResult,
       NumberVersion, Snapshot, UpsertResult, InsertResult, UpdateOutput, ReportEdited,
       ReportFailure, Reports, Stores, Fault, history, bounds, Live, Over, Undisturbed
<1>2. faults = 0 /\ DataInv /\ EditFlowed(e) /\ Exists
  BY <1>0, <1>1 DEF FlowInv, Undisturbed, DataInv
<1>3. fmt' \in Over /\ \A f \in Edits : f # e => pc[f] \in Over
  BY <1>1 DEF SoloInv, Alone, Live
<1>4. FmtFlow'
  BY <1>3 DEF FmtFlow, Over
<1>5. ASSUME NEW l, Goto(e, l), DataInv', EditFlowed(e)' PROVE FlowInv'
  <2>1. \A f \in Edits : f # e => EditFlowed(f)'
    BY <1>0, <1>3, <1>5 DEF EditFlowed, Over, Goto, Reported, Exported
  <2> QED BY <1>4, <1>5, <2>1 DEF FlowInv
<1>6. \A l : Goto(e, l) => pc'[e] = l
  BY <1>0 DEF Goto
<1>7. CASE ReadSource(e)
  <2>1. Goto(e, "validating") /\ UNCHANGED <<tables, files, history>>
    BY <1>2, <1>7 DEF ReadSource
  <2>2. DataInv' /\ EditFlowed(e)'
    BY <1>2, <1>6, <2>1
    DEF DataInv, EditFlowed, Exists, Consistent, Versioned, tables, history, Reported, Exported
  <2> QED BY <1>5, <2>1, <2>2
<1>8. CASE Validates(e) \/ Styles(e)
  <2>1. /\ row' = [status |-> "PROCESSING", output |-> row.output]
        /\ UNCHANGED <<result, versions, stored, files>>
    BY <1>0, <1>2, <1>8, ReportsCleanly DEF Validates, Styles
  <2>2. PICK l \in {"styling", "exporting"} : Goto(e, l)
    BY <1>8 DEF Validates, Styles
  <2>3. DataInv' /\ EditFlowed(e)'
    BY <1>2, <1>6, <2>1, <2>2 DEF DataInv, EditFlowed, Exists, Versioned, Reported, Exported
  <2> QED BY <1>5, <2>2, <2>3
<1>9. CASE Exports(e)
  <2>1. /\ Goto(e, "selecting") /\ UNCHANGED <<tables, history>> /\ pc[e] = "exporting"
        /\ files' = [files EXCEPT !["edited"] = e]
    BY <1>0, <1>2, <1>9 DEF Exports, Fault
  <2>2. files'["edited"] = e /\ row.status # "COMPLETED"
    BY <1>0, <1>2, <2>1 DEF EditFlowed, Reported
  <2>3. DataInv' /\ EditFlowed(e)'
    BY <1>2, <1>6, <2>1, <2>2
    DEF DataInv, EditFlowed, Exists, Versioned, tables, history, Reported, Exported
  <2> QED BY <1>5, <2>1, <2>3
<1>10. CASE EditRaises(e)
  BY <1>0, <1>2, <1>10 DEF EditRaises, Fault
<1>11. CASE SelectResult(e)
  <2>1. /\ UNCHANGED <<tables, files, history>> /\ pc[e] = "selecting"
        /\ replaced' = [replaced EXCEPT ![e] = result]
        /\ Goto(e, IF result = None THEN "inserting" ELSE "numbering")
    BY <1>11 DEF SelectResult
  <2>2. DataInv'
    BY <1>2, <2>1 DEF DataInv, Exists, Consistent, Versioned, tables, history
  <2>3. replaced'[e] = result /\ row.status # "COMPLETED" /\ files["edited"] = e
    BY <1>0, <1>2, <2>1 DEF EditFlowed, Reported, Exported
  <2>4. pc'[e] = IF result = None THEN "inserting" ELSE "numbering"
    BY <1>6, <2>1
  <2>5. EditFlowed(e)'
    BY <2>1, <2>3, <2>4 DEF EditFlowed, tables, Reported, Exported
  <2> QED BY <1>5, <2>1, <2>2, <2>5
<1>12. CASE NumberVersion(e)
  <2>1. /\ UNCHANGED <<tables, files, replaced, history>> /\ pc[e] = "numbering"
        /\ Goto(e, "snapshot")
    BY <1>12 DEF NumberVersion
  <2>2. DataInv' /\ EditFlowed(e)'
    BY <1>2, <1>6, <2>1
    DEF DataInv, EditFlowed, Exists, Consistent, Versioned, tables, history, Reported, Exported
  <2> QED BY <1>5, <2>1, <2>2
<1>13. CASE Snapshot(e)
  <2>1. /\ UNCHANGED <<row, result, files, stored>> /\ pc[e] = "snapshot" /\ Goto(e, "upserting")
        /\ versions' = Append(versions, [number |-> number[e], data |-> replaced[e],
                                         path |-> source[e]])
    BY <1>0, <1>2, <1>13 DEF Snapshot, Fault, history
  <2>2. /\ Len(versions) \in Nat /\ DOMAIN versions = 1 .. Len(versions)
        /\ DOMAIN versions' = 1 .. Len(versions) + 1
        /\ \A i \in 1 .. Len(versions) : versions'[i] = versions[i]
        /\ versions'[Len(versions) + 1].data = replaced[e]
    BY <1>0, <2>1, AppendFacts
  <2>3. \A c : Versioned(c) => Versioned(c)'
    BY <2>2 DEF Versioned
  <2>4. Versioned(result)'
    <3>1. Len(versions) + 1 \in DOMAIN versions'
      BY <2>2
    <3>2. replaced[e] = result
      BY <1>2, <2>1 DEF EditFlowed
    <3> QED BY <2>1, <2>2, <3>1, <3>2 DEF Versioned
  <2>5. \A c \in stored' : c # None /\ Versioned(c)'
    BY <1>2, <2>1, <2>3, <2>4 DEF DataInv
  <2>6. DataInv'
    BY <1>2, <2>1, <2>5 DEF DataInv, Exists, Consistent
  <2>7. EditFlowed(e)'
    BY <1>2, <1>6, <2>1, <2>5 DEF EditFlowed, Reported, Exported
  <2> QED BY <1>5, <2>1, <2>6, <2>7
<1>14. CASE UpsertResult(e) \/ InsertResult(e)
  <2>1. /\ files' = files /\ Goto(e, "publishing") /\ pc[e] \in {"upserting", "inserting"}
        /\ row' = row /\ versions' = versions /\ result' = e /\ stored' = stored \cup {e}
    <3>1. CASE UpsertResult(e)
      BY <1>0, <1>2, <3>1, StoresCleanly DEF UpsertResult
    <3>2. CASE InsertResult(e)
      <4>1. result = None
        BY <1>2, <3>2 DEF InsertResult, EditFlowed
      <4> QED BY <1>0, <1>2, <3>2, <4>1, StoresCleanly DEF InsertResult
    <3> QED BY <1>14, <3>1, <3>2
  <2>2. \A c \in stored : c # None /\ Versioned(c)
    BY <1>2, <2>1 DEF DataInv, EditFlowed
  <2>3. row.status # "COMPLETED" /\ files["edited"] = e
    BY <1>2, <2>1 DEF EditFlowed, Reported, Exported
  <2>4. DataInv'
    BY <1>2, <2>1, <2>2, <2>3, EditsApart DEF DataInv, Exists, Versioned
  <2>5. EditFlowed(e)'
    BY <1>6, <2>1, <2>3 DEF EditFlowed
  <2> QED BY <1>5, <2>1, <2>4, <2>5
<1>15. CASE UpdateOutput(e)
  <2>1. /\ UNCHANGED <<result, versions, files, stored>> /\ pc[e] = "publishing"
        /\ Goto(e, "finishing") /\ row' = [row EXCEPT !.output = "edited"]
    BY <1>0, <1>2, <1>15 DEF UpdateOutput, Fault, history
  <2>2. row' = [status |-> row.status, output |-> "edited"]
    BY <1>0, <2>1 DEF RowTyped
  <2>3. row.status # "COMPLETED" /\ files["edited"] = e /\ result = e
    BY <1>2, <2>1 DEF EditFlowed, Reported, Exported
  <2>4. DataInv'
    BY <1>2, <2>1, <2>2, <2>3 DEF DataInv, Exists, Versioned
  <2>5. EditFlowed(e)'
    BY <1>6, <2>1, <2>2, <2>3 DEF EditFlowed
  <2> QED BY <1>5, <2>1, <2>4, <2>5
<1>16. CASE ReportEdited(e)
  <2>1. /\ row' = [status |-> "COMPLETED", output |-> row.output]
        /\ UNCHANGED <<result, versions, stored, files>> /\ Goto(e, "done") /\ pc[e] = "finishing"
    BY <1>0, <1>2, <1>16, ReportsCleanly DEF ReportEdited
  <2>2. Consistent'
    BY <1>2, <2>1 DEF EditFlowed, Exported, Reported, Consistent, None
  <2>3. DataInv' /\ EditFlowed(e)'
    BY <1>2, <1>6, <2>1, <2>2 DEF DataInv, EditFlowed, Exists, Versioned, Reported, Exported
  <2> QED BY <1>5, <2>1, <2>3
<1>17. CASE ReportFailure(e)
  <2>1. /\ row' = [status |-> "FAILED", output |-> row.output]
        /\ UNCHANGED <<result, versions, stored, files>> /\ Goto(e, "done")
    BY <1>0, <1>2, <1>17, ReportsCleanly DEF ReportFailure
  <2>2. DataInv' /\ EditFlowed(e)'
    BY <1>2, <1>6, <2>1 DEF DataInv, EditFlowed, Exists, Versioned, Reported, Exported
  <2> QED BY <1>5, <2>1, <2>2
<1> QED BY <1>7, <1>8, <1>9, <1>10, <1>11, <1>12, <1>13, <1>14, <1>15, <1>16, <1>17 DEF Edit

LEMMA FlowStep == SoloInv /\ FlowInv /\ [Next]_vars => FlowInv'
<1> SUFFICES ASSUME SoloInv, FlowInv, [Next]_vars, Undisturbed' PROVE FlowInv'
  BY DEF FlowInv
<1>0. /\ Shapes /\ RowTyped /\ faults \in Nat /\ faults' = 0
      /\ pc \in [Edits -> Steps \cup Over]
  BY DEF SoloInv, Shapes, Undisturbed
<1>1. CASE Formatting
  BY <1>1, FormattingFlows
<1>2. ASSUME NEW e \in Edits, Edit(e) PROVE FlowInv'
  BY <1>2, EditFlows
<1>3. ~RequestDelete /\ ~Deletion
  BY DEF RequestDelete, Deletion, DeleteReadsAgain, DeleteResults, DeleteVersions, DeleteRow,
     Undisturbed
<1>4. ASSUME UNCHANGED <<tables, files, fmt, replaced, stored>>, Undisturbed,
             \A f \in Edits : pc'[f] = pc[f] \/ pc'[f] \in {"queued", "lost"}
      PROVE  FlowInv'
  <2>1. DataInv /\ FmtFlow /\ \A f \in Edits : EditFlowed(f)
    BY <1>4 DEF FlowInv
  <2>2. DataInv' /\ FmtFlow'
    BY <1>4, <2>1 DEF DataInv, FmtFlow, Exists, Consistent, Versioned, tables
  <2>3. ASSUME NEW f \in Edits PROVE EditFlowed(f)'
    <3>1. CASE pc'[f] = pc[f]
      BY <1>4, <2>1, <3>1 DEF EditFlowed, Versioned, tables
    <3>2. CASE pc'[f] \in {"queued", "lost"}
      BY <3>2 DEF EditFlowed, Reported, Exported
    <3> QED BY <1>4, <3>1, <3>2
  <2> QED BY <2>2, <2>3 DEF FlowInv
<1>5. ASSUME NEW e \in Edits, NEW m, RequestEdit(e, m) PROVE FlowInv'
  <2>1. UNCHANGED <<tables, files, fmt, replaced, stored>> /\ Undisturbed /\ Goto(e, "queued")
    BY <1>5 DEF RequestEdit, Undisturbed, bounds
  <2> QED BY <1>0, <1>4, <2>1 DEF Goto
<1>6. ASSUME NEW e \in Edits, WorkerCrashes(e) PROVE FlowInv'
  <2>1. UNCHANGED <<tables, files, fmt, replaced, stored>> /\ Undisturbed /\ Goto(e, "queued")
    BY <1>6 DEF WorkerCrashes, Undisturbed, locals, history
  <2> QED BY <1>0, <1>4, <2>1 DEF Goto
<1>7. CASE WebCrashes
  <2>1. /\ UNCHANGED <<tables, files, replaced, stored>> /\ faults = 0 /\ ~overlapped
        /\ fmt' \in {fmt, "lost"}
        /\ \A f \in Edits : pc'[f] \in {pc[f], "lost"}
    BY <1>7 DEF WebCrashes, Undisturbed, locals, history
  <2>2. del = "none"
    BY <1>7 DEF WebCrashes, Undisturbed, Deleting
  <2>3. DataInv /\ FmtFlow /\ \A f \in Edits : EditFlowed(f)
    BY <2>1, <2>2 DEF FlowInv, Undisturbed
  <2>4. DataInv' /\ FmtFlow'
    BY <2>1, <2>3 DEF DataInv, FmtFlow, Exists, Consistent, Versioned, tables
  <2>5. ASSUME NEW f \in Edits PROVE EditFlowed(f)'
    <3>1. CASE pc'[f] = pc[f]
      BY <2>1, <2>3, <3>1 DEF EditFlowed, Versioned, tables
    <3>2. CASE pc'[f] = "lost"
      BY <3>2 DEF EditFlowed, Reported, Exported
    <3> QED BY <2>1, <3>1, <3>2
  <2> QED BY <2>4, <2>5 DEF FlowInv
<1>8. CASE Restart
  <2>1. /\ UNCHANGED <<result, versions, files, fmt, pc, replaced, stored>> /\ Undisturbed
        /\ row' = IF row.status = "PROCESSING" THEN [status |-> "FAILED", output |-> row.output]
                                               ELSE row
    BY <1>0, <1>8 DEF Restart, Undisturbed, RowTyped, locals, history, bounds
  <2>2. DataInv /\ FmtFlow /\ \A f \in Edits : EditFlowed(f)
    BY <2>1 DEF FlowInv
  <2>3. row'.output = row.output /\ (row'.status = row.status \/ row'.status = "FAILED")
    BY <2>1
  <2>4. DataInv' /\ FmtFlow'
    BY <2>1, <2>2, <2>3 DEF DataInv, FmtFlow, Exists, Consistent, Versioned
  <2>5. ASSUME NEW f \in Edits PROVE EditFlowed(f)'
    <3>1. EditFlowed(f)
      BY <2>2
    <3> QED BY <2>1, <2>3, <3>1 DEF EditFlowed, Versioned
  <2> QED BY <2>4, <2>5 DEF FlowInv
<1>9. CASE Idle \/ UNCHANGED vars
  <2>1. UNCHANGED vars
    BY <1>9 DEF Idle
  <2>2. UNCHANGED <<tables, files, fmt, replaced, stored>> /\ Undisturbed /\ pc' = pc
    BY <2>1 DEF vars, Undisturbed, locals, history, bounds
  <2> QED BY <1>4, <2>2
<1> QED BY <1>1, <1>2, <1>3, <1>5, <1>6, <1>7, <1>8, <1>9 DEF Next

(* Executions that never met, crashed or not and delivered again or not,   *)
(* leave every result that was ever stored in the result or in a version.  *)
THEOREM NothingIsLost == Spec => []NoResultLost
<1>1. FlowInv => NoResultLost
  BY DEF FlowInv, Undisturbed, DataInv, NoResultLost, Versioned
<1> QED BY <1>1, FlowInit, FlowStep, SoloInit, SoloStep, GoneInit, GoneStep, PTL DEF Spec

(* Under the same conditions a document shown as COMPLETED offers the file *)
(* that was made from the very data that the result holds.                 *)
THEOREM ServesWhatItShows == Spec => []ServedIsConsistent
<1>1. FlowInv => ServedIsConsistent
  BY DEF FlowInv, Undisturbed, DataInv, Consistent, ServedIsConsistent
<1> QED BY <1>1, FlowInit, FlowStep, SoloInit, SoloStep, GoneInit, GoneStep, PTL DEF Spec

-----------------------------------------------------------------------------
(* Version numbers                                                         *)

(* The order of the texts is that of the numbers as long as they have one  *)
(* digit.                                                                  *)
LEMMA TextOrder ==
    ASSUME NEW m \in 1 .. 9, NEW n \in 1 .. 9 PROVE Before(m, n) <=> m < n
<1>1. Digits(m) = <<m>> /\ Digits(n) = <<n>>
  BY DEF Digits
<1>2. Before(m, n) <=> \/ m < n
                       \/ m = n /\ Len(<<m>>) < Len(<<n>>)
                       \/ m = n /\ Len(<<m>>) = Len(<<n>>) /\ m < n
  <2>1. /\ Len(<<m>>) = 1 /\ Len(<<n>>) = 1 /\ <<m>>[1] = m /\ <<n>>[1] = n
    OBVIOUS
  <2> QED BY <1>1, <2>1 DEF Before
<1>3. Len(<<m>>) = 1 /\ Len(<<n>>) = 1
  OBVIOUS
<1> QED BY <1>2, <1>3

Numbered == \A i \in DOMAIN versions : versions[i].number = i

LEMMA NextInOrder ==
    ASSUME Shapes, Numbered, Len(versions) <= 9
    PROVE  NextNumber = Len(versions) + 1
<1> DEFINE numbers == {versions[i].number : i \in DOMAIN versions}
           k == Len(versions)
<1>1. k \in 0 .. 9 /\ DOMAIN versions = 1 .. k
  <2>1. k \in Nat /\ DOMAIN versions = 1 .. k
    BY AppendFacts DEF Shapes
  <2>2. k <= 9
    OBVIOUS
  <2> HIDE DEF k
  <2> QED BY <2>1, <2>2
<1>2. numbers = 1 .. k
  <2>1. \A x : x \in numbers <=> x \in 1 .. k
    BY <1>1 DEF Numbered
  <2> QED BY <2>1
<1>3. NextNumber = IF numbers = {} THEN 1
                   ELSE (CHOOSE n \in numbers : \A m \in numbers \ {n} : Before(m, n)) + 1
  BY DEF NextNumber
<1> HIDE DEF numbers, k
<1>4. CASE k = 0
  BY <1>2, <1>3, <1>4 DEF k
<1>5. CASE k # 0
  <2>1. k \in 1 .. 9 /\ k \in numbers /\ numbers \subseteq 1 .. 9
    BY <1>1, <1>2, <1>5
  <2>2. \A m \in numbers \ {k} : Before(m, k)
    <3>1. \A m \in numbers \ {k} : m \in 1 .. 9 /\ m < k
      BY <1>1, <1>2
    <3> QED BY <2>1, <3>1, TextOrder
  <2>3. ASSUME NEW n \in numbers, \A m \in numbers \ {n} : Before(m, n) PROVE n = k
    <3>1. n # k => Before(k, n)
      BY <2>1, <2>3
    <3>2. n \in 1 .. 9 /\ n <= k
      BY <1>1, <1>2, <2>3, <2>1
    <3>3. n # k => k < n
      BY <2>1, <3>1, <3>2, TextOrder
    <3> QED BY <2>1, <3>2, <3>3
  <2>4. (CHOOSE n \in numbers : \A m \in numbers \ {n} : Before(m, n)) = k
    BY <2>1, <2>2, <2>3
  <2>5. numbers # {}
    BY <2>1
  <2> QED BY <1>3, <2>4, <2>5 DEF k
<1> QED BY <1>4, <1>5

(* An edit that is about to store a version has drawn the next number.     *)
NumberInv ==
    ~overlapped =>
        /\ Len(versions) <= 10 => Numbered
        /\ \A e \in Edits :
              pc[e] = "snapshot" /\ Len(versions) <= 9 => number[e] = Len(versions) + 1

LEMMA NumberInit == Init => NumberInv
<1> SUFFICES ASSUME Init PROVE NumberInv
  OBVIOUS
<1>1. Numbered
  BY DEF Init, Numbered
<1> QED BY <1>1 DEF Init, NumberInv

LEMMA NumberStep == SoloInv /\ NumberInv /\ [Next]_vars => NumberInv'
<1> SUFFICES ASSUME SoloInv, NumberInv, [Next]_vars, ~overlapped' PROVE NumberInv'
  BY DEF NumberInv
<1>0. Shapes /\ pc \in [Edits -> Steps \cup Over] /\ Len(versions) \in Nat
  BY AppendFacts DEF SoloInv, Shapes
<1>1. ASSUME UNCHANGED <<versions, number>>, ~overlapped,
             \A e \in Edits : pc'[e] = "snapshot" => pc[e] = "snapshot"
      PROVE  NumberInv'
  BY <1>1 DEF NumberInv, Numbered
<1>2. CASE Formatting
  <2>1. UNCHANGED <<versions, number, overlapped, pc>>
    BY <1>2 DEF Formatting, FmtReports, FmtExports, FmtRaises, FmtInserts, FmtPublishes,
       FmtCompletes, Reports, Stores, history, tables, locals
  <2> QED BY <1>1, <2>1
<1>3. ASSUME NEW e \in Edits, Edit(e), ~NumberVersion(e), ~Snapshot(e) PROVE NumberInv'
  <2>1. /\ UNCHANGED <<versions, number, overlapped>>
        /\ \E l \in (Steps \cup Over) \ {"snapshot"} : Goto(e, l)
    <3>1. CASE Validates(e) \/ Styles(e) \/ ReportEdited(e) \/ ReportFailure(e)
      BY <3>1 DEF Validates, Styles, ReportEdited, ReportFailure, Reports, locals, Steps, Over
    <3>2. CASE ReadSource(e) \/ Exports(e) \/ EditRaises(e) \/ SelectResult(e)
      BY <3>2 DEF ReadSource, Exports, EditRaises, SelectResult, history, tables, locals,
         Steps, Over
    <3>3. CASE UpsertResult(e) \/ InsertResult(e) \/ UpdateOutput(e)
      BY <3>3 DEF UpsertResult, InsertResult, UpdateOutput, Stores, history, locals, Steps, Over
    <3> QED BY <1>3, <3>1, <3>2, <3>3 DEF Edit
  <2> QED BY <1>0, <1>1, <2>1 DEF Goto
<1>4. ASSUME NEW e \in Edits, NumberVersion(e) PROVE NumberInv'
  <2>1. /\ UNCHANGED <<versions, overlapped>> /\ Goto(e, "snapshot") /\ Live(e)
        /\ number' = [number EXCEPT ![e] = NextNumber]
    BY <1>4 DEF NumberVersion, tables, history, Live, Over
  <2>2. \A f \in Edits : f # e => pc'[f] # "snapshot"
    BY <1>0, <2>1 DEF SoloInv, Alone, Live, Over, Goto
  <2>3. number'[e] = NextNumber
    BY <1>0, <2>1 DEF Shapes
  <2>4. Len(versions) <= 9 => number'[e] = Len(versions) + 1
    BY <1>0, <2>1, <2>3, NextInOrder DEF NumberInv
  <2> QED BY <2>1, <2>2, <2>4 DEF NumberInv, Numbered
<1>5. ASSUME NEW e \in Edits, Snapshot(e) PROVE NumberInv'
  <2>1. /\ UNCHANGED <<overlapped, number>> /\ Goto(e, "upserting") /\ pc[e] = "snapshot" /\ Live(e)
    BY <1>5 DEF Snapshot, history, locals, Live, Over
  <2>2. \A f \in Edits : pc'[f] # "snapshot"
    BY <1>0, <2>1 DEF SoloInv, Alone, Live, Over, Goto
  <2>3. CASE versions' = versions
    BY <2>1, <2>2, <2>3 DEF NumberInv, Numbered
  <2>4. ASSUME versions' = Append(versions, [number |-> number[e], data |-> replaced[e],
                                             path |-> source[e]])
        PROVE  NumberInv'
    <3>1. /\ DOMAIN versions = 1 .. Len(versions) /\ Len(versions)' = Len(versions) + 1
          /\ DOMAIN versions' = 1 .. Len(versions) + 1
          /\ \A i \in 1 .. Len(versions) : versions'[i] = versions[i]
          /\ versions'[Len(versions) + 1].number = number[e]
      BY <1>0, <2>4, AppendFacts DEF Shapes
    <3>2. ASSUME Len(versions)' <= 10 PROVE Numbered'
      <4>1. Len(versions) <= 9 /\ Len(versions) <= 10
        BY <1>0, <3>1, <3>2
      <4>2. Numbered /\ number[e] = Len(versions) + 1
        BY <2>1, <4>1 DEF NumberInv
      <4>3. ASSUME NEW i \in 1 .. Len(versions) + 1 PROVE versions'[i].number = i
        <5>1. CASE i = Len(versions) + 1
          BY <3>1, <4>2, <5>1
        <5>2. CASE i \in 1 .. Len(versions)
          BY <3>1, <4>2, <5>2 DEF Numbered
        <5> QED BY <1>0, <5>1, <5>2
      <4> QED BY <3>1, <4>3 DEF Numbered
    <3> QED BY <2>2, <3>2 DEF NumberInv
  <2> QED BY <1>5, <2>3, <2>4 DEF Snapshot
<1>6. ASSUME NEW e \in Edits, NEW m, RequestEdit(e, m) PROVE NumberInv'
  <2>1. UNCHANGED <<versions, number>> /\ ~overlapped /\ Goto(e, "queued")
    BY <1>6 DEF RequestEdit, tables
  <2> QED BY <1>0, <1>1, <2>1 DEF Goto
<1>7. CASE RequestDelete \/ DeleteReadsAgain \/ DeleteResults
  <2>1. UNCHANGED <<versions, number, pc>> /\ ~overlapped
    <3>1. CASE RequestDelete
      BY <3>1 DEF RequestDelete, tables, locals
    <3>2. CASE DeleteReadsAgain
      BY <3>2 DEF DeleteReadsAgain, tables, locals, history
    <3>3. CASE DeleteResults
      BY <3>3 DEF DeleteResults, locals, history
    <3> QED BY <1>7, <3>1, <3>2, <3>3
  <2> QED BY <1>1, <2>1
<1>8. CASE DeleteVersions \/ DeleteRow
  <2>1. UNCHANGED <<number, overlapped, pc>> /\ Deleting
        /\ (versions' = versions \/ versions' = << >>)
    BY <1>8 DEF DeleteVersions, DeleteRow, tables, locals, history, Deleting
  <2>2. \A e \in Edits : pc'[e] # "snapshot"
    BY <2>1 DEF SoloInv, Alone, Live, Over
  <2>3. versions' = << >> => Numbered'
    BY DEF Numbered
  <2> QED BY <2>1, <2>2, <2>3 DEF NumberInv, Numbered
<1>9. ASSUME NEW e \in Edits, WorkerCrashes(e) PROVE NumberInv'
  <2>1. UNCHANGED <<versions, number, overlapped>> /\ Goto(e, "queued")
    BY <1>9 DEF WorkerCrashes, tables, locals, history
  <2> QED BY <1>0, <1>1, <2>1 DEF Goto
<1>10. CASE WebCrashes
  <2>1. UNCHANGED <<versions, number, overlapped>>
        /\ \A e \in Edits : pc'[e] \in {pc[e], "lost"}
    BY <1>10 DEF WebCrashes, tables, locals, history
  <2> QED BY <1>1, <2>1
<1>11. CASE Restart \/ Idle \/ UNCHANGED vars
  <2>1. UNCHANGED <<versions, number, overlapped, pc>>
    BY <1>11 DEF Restart, Idle, vars, tables, locals, history
  <2> QED BY <1>1, <2>1
<1> QED BY <1>2, <1>3, <1>4, <1>5, <1>6, <1>7, <1>8, <1>9, <1>10, <1>11 DEF Next, Deletion

(* Although run_edit_flow orders version numbers as texts, the first ten   *)
(* versions of edits that never met have different ones.                   *)
THEOREM FirstTenDiffer == Spec => []NumbersDistinct
<1>1. SoloInv /\ NumberInv => NumbersDistinct
  BY DEF NumberInv, Numbered, NumbersDistinct
<1> QED BY <1>1, NumberInit, NumberStep, SoloInit, SoloStep, GoneInit, GoneStep, PTL DEF Spec

-----------------------------------------------------------------------------
(* Types                                                                   *)

Small == 1 .. 99

(* Where a number comes in the order of the texts, counted from the end.   *)
Rank(n) == 999 - (IF n < 10 THEN 100 * n ELSE 100 * (n \div 10) + 1 + (n % 10))

LEMMA TwoDigits ==
    ASSUME NEW n \in 10 .. 99
    PROVE  n \div 10 \in 1 .. 9 /\ n % 10 \in 0 .. 9 /\ n = 10 * (n \div 10) + (n % 10)
OBVIOUS

LEMMA RankFacts == \A n \in Small : Rank(n) \in Nat
BY TwoDigits DEF Rank, Small

(* Texts of at most two digits are ordered, and no two are alike.          *)
LEMMA RankOrders ==
    ASSUME NEW m \in Small, NEW n \in Small, m # n, Rank(n) <= Rank(m)
    PROVE  Before(m, n)
<1> DEFINE s == Digits(m)
           t == Digits(n)
<1>0. \A x, y : /\ <<x>>[1] = x /\ Len(<<x>>) = 1
                /\ <<x, y>>[1] = x /\ <<x, y>>[2] = y /\ Len(<<x, y>>) = 2
  OBVIOUS
<1>1. Before(m, n) <=> \/ s[1] < t[1]
                       \/ s[1] = t[1] /\ Len(s) < Len(t)
                       \/ s[1] = t[1] /\ Len(s) = Len(t) /\ s[Len(s)] < t[Len(t)]
  BY DEF Before
<1>s. m \in 1 .. 99 /\ n \in 1 .. 99
  BY DEF Small
<1>2. CASE m < 10 /\ n < 10
  <2>1. s = <<m>> /\ t = <<n>>
    BY <1>s, <1>2 DEF Digits
  <2>2. m < n
    BY <1>s, <1>2 DEF Rank
  <2> HIDE DEF s, t
  <2> QED BY <1>0, <1>1, <2>1, <2>2
<1>3. CASE m < 10 /\ ~(n < 10)
  <2>1. s = <<m>> /\ t = <<n \div 10, n % 10>>
    BY <1>s, <1>3 DEF Digits
  <2>2. n \div 10 \in 1 .. 9 /\ n % 10 \in 0 .. 9
    BY <1>s, <1>3, TwoDigits
  <2>3. 100 * m <= 100 * (n \div 10) + 1 + (n % 10)
    BY <1>s, <1>3, <2>2 DEF Rank
  <2>4. m <= n \div 10
    BY <1>s, <2>2, <2>3
  <2> HIDE DEF s, t
  <2>5. s[1] = m /\ t[1] = n \div 10 /\ Len(s) = 1 /\ Len(t) = 2
    BY <1>0, <2>1
  <2>6. m < n \div 10 \/ m = n \div 10
    BY <1>s, <2>2, <2>4
  <2>7. Len(s) < Len(t)
    BY <2>5
  <2>8. s[1] < t[1] \/ s[1] = t[1]
    BY <2>5, <2>6
  <2> QED BY <1>1, <2>7, <2>8, Zenon
<1>4. CASE ~(m < 10) /\ n < 10
  <2>1. s = <<m \div 10, m % 10>> /\ t = <<n>>
    BY <1>s, <1>4 DEF Digits
  <2>2. m \div 10 \in 1 .. 9 /\ m % 10 \in 0 .. 9
    BY <1>s, <1>4, TwoDigits
  <2>3. 100 * (m \div 10) + 1 + (m % 10) <= 100 * n
    BY <1>s, <1>4, <2>2 DEF Rank
  <2>4. m \div 10 < n
    BY <1>s, <2>2, <2>3
  <2> HIDE DEF s, t
  <2>5. s[1] = m \div 10 /\ t[1] = n
    BY <1>0, <2>1
  <2> QED BY <1>1, <2>4, <2>5
<1>5. CASE ~(m < 10) /\ ~(n < 10)
  <2>1. s = <<m \div 10, m % 10>> /\ t = <<n \div 10, n % 10>>
    BY <1>s, <1>5 DEF Digits
  <2>2. /\ m \div 10 \in 1 .. 9 /\ m % 10 \in 0 .. 9 /\ m = 10 * (m \div 10) + (m % 10)
        /\ n \div 10 \in 1 .. 9 /\ n % 10 \in 0 .. 9 /\ n = 10 * (n \div 10) + (n % 10)
    BY <1>s, <1>5, TwoDigits
  <2>3. 100 * (m \div 10) + 1 + (m % 10) <= 100 * (n \div 10) + 1 + (n % 10)
    BY <1>s, <1>5, <2>2 DEF Rank
  <2>4. \/ m \div 10 < n \div 10
        \/ m \div 10 = n \div 10 /\ m % 10 < n % 10
    BY <1>s, <2>2, <2>3
  <2> HIDE DEF s, t
  <2>5. /\ s[1] = m \div 10 /\ t[1] = n \div 10 /\ Len(s) = 2 /\ Len(t) = 2
        /\ s[Len(s)] = m % 10 /\ t[Len(t)] = n % 10
    BY <1>0, <2>1
  <2> QED BY <1>1, <2>4, <2>5
<1> QED BY <1>2, <1>3, <1>4, <1>5

LEMMA LatestExists ==
    ASSUME NEW S \in SUBSET Small, S # {}
    PROVE  \E n \in S : \A m \in S \ {n} : Before(m, n)
<1> DEFINE T == {Rank(x) : x \in S}
<1>1. T \subseteq Nat
  BY RankFacts, Zenon
<1>2. T # {}
  BY Zenon
<1>3. PICK y \in T : \A z \in T : ~(<<z, y>> \in OpToRel(<, Nat))
  BY <1>1, <1>2, NatLessThanWellFounded, WFMin
<1>a. ASSUME NEW z \in Nat, NEW w \in Nat, z < w
      PROVE  <<z, w>> \in OpToRel(<, Nat)
  <2>1. <<z, w>> \in Nat \X Nat /\ <<z, w>>[1] = z /\ <<z, w>>[2] = w
    OBVIOUS
  <2> QED BY <1>a, <2>1, Zenon DEF OpToRel
<1>4. \A z \in T : ~(z < y)
  BY <1>1, <1>3, <1>a, Zenon
<1>5. \A z \in T : y <= z
  BY <1>1, <1>4
<1>6. PICK n \in S : y = Rank(n)
  BY <1>3
<1>7. ASSUME NEW m \in S \ {n} PROVE Before(m, n)
  <2>1. Rank(n) <= Rank(m)
    BY <1>5, <1>6, <1>7, Zenon
  <2>2. m \in Small /\ n \in Small /\ m # n
    BY <1>6, <1>7
  <2> QED BY <2>1, <2>2, RankOrders, Zenon
<1> QED BY <1>6, <1>7

(* Whatever versions there are, the next one has a number.                 *)
LEMMA NextNumberTyped ==
    ASSUME \A i \in DOMAIN versions : versions[i].number \in Small
    PROVE  NextNumber \in Nat \ {0}
<1> DEFINE numbers == {versions[i].number : i \in DOMAIN versions}
           latest == CHOOSE n \in numbers : \A m \in numbers \ {n} : Before(m, n)
<1>1. NextNumber = IF numbers = {} THEN 1 ELSE latest + 1
  BY DEF NextNumber
<1>2. numbers \in SUBSET Small
  OBVIOUS
<1> HIDE DEF numbers
<1>3. CASE numbers # {}
  <2>1. \E n \in numbers : \A m \in numbers \ {n} : Before(m, n)
    BY <1>2, <1>3, LatestExists
  <2>2. latest \in numbers
    BY <2>1, Zenon
  <2> HIDE DEF latest
  <2> QED BY <1>1, <1>2, <1>3, <2>2 DEF Small
<1> QED BY <1>1, <1>3

(* Types, and where contents come from: a version holds what was once a    *)
(* result, because an edit stores only what it has selected.               *)
Tabled ==
    /\ row \in [status : {"absent", "PROCESSING", "COMPLETED", "FAILED"},
                output : Paths \cup {None}]
    /\ stored \in SUBSET Contents
    /\ result \in stored \cup {None}
    /\ versions \in Seq([number : 1 .. MaxNumber, data : stored, path : Paths \cup {None}])

Placed ==
    /\ files \in [Paths -> Contents \cup {None}]
    /\ fmt \in {"running", "inserting", "publishing", "finishing"} \cup Over
    /\ pc \in [Edits -> Steps \cup Over]
    /\ mode \in [Edits -> {"background", "celery"}]
    /\ del \in {"none", "removing", "results", "versions", "row", "done", "failed"}
    /\ web \in {"up", "down"}
    /\ overlapped \in BOOLEAN /\ silent \in BOOLEAN

Drawn ==
    /\ source \in [Edits -> Paths \cup {None}]
    /\ replaced \in [Edits -> stored \cup {None}]
    /\ number \in [Edits -> 0 .. MaxNumber]
    /\ \A e \in Edits :
          /\ pc[e] \in {"numbering", "snapshot"} => replaced[e] \in stored
          /\ pc[e] = "snapshot" => number[e] \in 1 .. MaxNumber

Counted == crashes \in Nat /\ faults \in Nat /\ crashes + faults \in 0 .. MaxMishaps

TypeInv == Tabled /\ Placed /\ Drawn /\ Counted

LEMMA NoneIsNoContent == None \notin Contents
BY EditAssumption DEF EditAssumption, Contents, None

LEMMA TypeInvTypes == TypeInv => TypeOK
<1> SUFFICES ASSUME TypeInv PROVE TypeOK
  OBVIOUS
<1>1. ASSUME NEW i \in DOMAIN versions
      PROVE  versions[i] \in [number : 1 .. MaxNumber, data : Contents, path : Paths \cup {None}]
  <2>1. versions[i] \in [number : 1 .. MaxNumber, data : stored, path : Paths \cup {None}]
    <3> DEFINE V == [number : 1 .. MaxNumber, data : stored, path : Paths \cup {None}]
    <3>1. versions \in Seq(V)
      BY DEF TypeInv, Tabled
    <3> HIDE DEF V
    <3>2. versions[i] \in V
      BY <1>1, <3>1
    <3> QED BY <3>2 DEF V
  <2> QED BY <2>1 DEF TypeInv, Tabled
<1>2. result \in Contents \cup {None} /\ replaced \in [Edits -> Contents \cup {None}]
  BY DEF TypeInv, Tabled, Drawn
<1> QED BY <1>1, <1>2 DEF TypeInv, Tabled, Placed, Drawn, Counted, TypeOK

LEMMA TypeInit == Init => TypeInv
<1> SUFFICES ASSUME Init PROVE TypeInv
  OBVIOUS
<1>1. PICK n \in Earlier :
         /\ versions = [i \in 1 .. n |->
                [number |-> i, data |-> IF i = 1 THEN "formatted" ELSE "earlier",
                 path |-> IF i = 1 THEN "main" ELSE "edited"]]
         /\ IF n = 0
            THEN /\ row = [status |-> "PROCESSING", output |-> None]
                 /\ result = None /\ stored = {}
                 /\ files = [p \in Paths |-> None]
                 /\ fmt = "running"
            ELSE /\ row = [status |-> "COMPLETED", output |-> "edited"]
                 /\ result = "earlier" /\ stored = {"formatted", "earlier"}
                 /\ files = [p \in Paths |-> IF p = "main" THEN "formatted" ELSE "earlier"]
                 /\ fmt = "done"
  BY DEF Init
<1>2. n \in 0 .. 10 /\ MaxNumber \in 10 .. 99 /\ MaxMishaps \in Nat
  BY EditAssumption DEF EditAssumption
<1>3. versions \in Seq([number : 1 .. MaxNumber, data : stored, path : Paths \cup {None}])
  <2> DEFINE V == [number : 1 .. MaxNumber, data : stored, path : Paths \cup {None}]
  <2>1. ASSUME NEW i \in 1 .. n PROVE versions[i] \in V
    <3>1. versions[i] = [number |-> i, data |-> IF i = 1 THEN "formatted" ELSE "earlier",
                         path |-> IF i = 1 THEN "main" ELSE "edited"]
      BY <1>1
    <3>2. n # 0 /\ i \in 1 .. MaxNumber
      BY <1>2
    <3> QED BY <1>1, <3>1, <3>2 DEF Paths
  <2>2. n \in Nat /\ versions = [i \in 1 .. n |-> versions[i]]
    BY <1>1, <1>2
  <2> HIDE DEF V
  <2>3. versions \in Seq(V)
    BY <2>1, <2>2
  <2> QED BY <2>3 DEF V
<1>4. Tabled
  BY <1>1, <1>3 DEF Tabled, Paths, Contents, None
<1>5. Placed
  <2>1. files \in [Paths -> Contents \cup {None}]
    BY <1>1 DEF Contents, None
  <2>2. fmt \in {"running", "done"}
    BY <1>1
  <2> QED BY <2>1, <2>2 DEF Init, Placed, Over
<1>6. Drawn /\ Counted
  BY <1>2 DEF Init, Drawn, Counted, None
<1> QED BY <1>4, <1>5, <1>6 DEF TypeInv

LEMMA CountedStep == TypeInv /\ [Next]_vars => Counted'
<1> SUFFICES ASSUME TypeInv, [Next]_vars PROVE Counted'
  OBVIOUS
<1> DEFINE Mishap == \/ UNCHANGED <<crashes, faults>>
                     \/ Fault /\ UNCHANGED crashes
                     \/ crashes + faults < MaxMishaps /\ crashes' = crashes + 1 /\ UNCHANGED faults
<1>0. MaxMishaps \in Nat
  BY EditAssumption DEF EditAssumption
<1>1. Mishap => Counted'
  BY <1>0 DEF TypeInv, Counted, Fault
<1>2. CASE Formatting
  BY <1>1, <1>2 DEF Formatting, FmtReports, FmtExports, FmtRaises, FmtInserts, FmtPublishes,
     FmtCompletes, Reports, Stores, bounds
<1>3. ASSUME NEW e \in Edits, Edit(e) PROVE Mishap
  <2>1. CASE ReadSource(e) \/ Validates(e) \/ Styles(e) \/ Exports(e) \/ EditRaises(e)
    BY <2>1 DEF ReadSource, Validates, Styles, Exports, EditRaises, Reports, bounds
  <2>2. CASE SelectResult(e) \/ NumberVersion(e) \/ Snapshot(e) \/ UpsertResult(e)
    BY <2>2 DEF SelectResult, NumberVersion, Snapshot, UpsertResult, Stores, bounds
  <2>3. CASE InsertResult(e) \/ UpdateOutput(e) \/ ReportEdited(e) \/ ReportFailure(e)
    BY <2>3 DEF InsertResult, UpdateOutput, ReportEdited, ReportFailure, Reports, Stores, bounds
  <2> QED BY <1>3, <2>1, <2>2, <2>3 DEF Edit
<1>4. CASE RequestDelete \/ Deletion
  BY <1>1, <1>4 DEF RequestDelete, Deletion, DeleteReadsAgain, DeleteResults, DeleteVersions,
     DeleteRow, bounds
<1>5. CASE \/ \E e \in Edits, m \in {"background", "celery"} : RequestEdit(e, m)
           \/ \E e \in Edits : WorkerCrashes(e)
           \/ WebCrashes \/ Restart \/ Idle \/ UNCHANGED vars
  BY <1>1, <1>5 DEF RequestEdit, WorkerCrashes, WebCrashes, Restart, Idle, vars, bounds
<1> QED BY <1>1, <1>2, <1>3, <1>4, <1>5 DEF Next

(* What a status report and the writing of a result make of the tables.    *)
LEMMA ReportsTyped ==
    ASSUME TypeInv, NEW s \in {"PROCESSING", "COMPLETED", "FAILED"}, Reports(s)
    PROVE  /\ Tabled' /\ silent' \in BOOLEAN
           /\ UNCHANGED <<result, versions, stored, overlapped>>
<1>1. row' = row \/ row' = [row EXCEPT !.status = s]
  BY DEF Reports, SetStatus, Fault
<1>2. row' \in [status : {"absent", "PROCESSING", "COMPLETED", "FAILED"},
                output : Paths \cup {None}]
  BY <1>1 DEF TypeInv, Tabled
<1>3. UNCHANGED <<result, versions, stored, overlapped>> /\ (silent' = silent \/ silent' = TRUE)
  BY DEF Reports, Fault
<1> QED BY <1>2, <1>3 DEF TypeInv, Tabled, Placed

LEMMA MoreStored ==
    ASSUME NEW v, NEW S, NEW T, S \subseteq T,
           v \in Seq([number : 1 .. MaxNumber, data : S, path : Paths \cup {None}])
    PROVE  v \in Seq([number : 1 .. MaxNumber, data : T, path : Paths \cup {None}])
<1> DEFINE A == [number : 1 .. MaxNumber, data : S, path : Paths \cup {None}]
           B == [number : 1 .. MaxNumber, data : T, path : Paths \cup {None}]
<1>1. A \subseteq B
  OBVIOUS
<1> HIDE DEF A, B
<1>2. v \in Seq(A) => v \in Seq(B)
  BY <1>1
<1> QED BY <1>2 DEF A, B

LEMMA StoresTyped ==
    ASSUME TypeInv, NEW data \in Contents, NEW accepted \in BOOLEAN, Stores(data, accepted)
    PROVE  Tabled' /\ UNCHANGED <<row, versions>> /\ stored \subseteq stored'
<1>1. /\ UNCHANGED <<row, versions>>
      /\ \/ UNCHANGED <<result, stored>>
         \/ result' = data /\ stored' = stored \cup {data}
  BY DEF Stores, Fault
<1>2. stored \subseteq stored' /\ stored' \in SUBSET Contents /\ result' \in stored' \cup {None}
  BY <1>1 DEF TypeInv, Tabled
<1>3. versions \in Seq([number : 1 .. MaxNumber, data : stored', path : Paths \cup {None}])
  BY <1>2, MoreStored DEF TypeInv, Tabled
<1> QED BY <1>1, <1>2, <1>3 DEF TypeInv, Tabled

(* Nothing that was stored is forgotten, so what an edit has drawn from it *)
(* keeps its type.                                                         *)
LEMMA DrawnStays ==
    ASSUME TypeInv, UNCHANGED locals, stored \subseteq stored',
           \A e \in Edits : /\ pc'[e] = "snapshot" => pc[e] = "snapshot"
                            /\ pc'[e] = "numbering" => pc[e] = "numbering"
    PROVE  Drawn'
<1>1. replaced' \in [Edits -> stored' \cup {None}]
  BY DEF TypeInv, Drawn, locals
<1> QED BY <1>1 DEF TypeInv, Drawn, locals

LEMMA GotoTyped ==
    ASSUME TypeInv, NEW e \in Edits, NEW l \in Steps \cup Over, Goto(e, l)
    PROVE  pc' \in [Edits -> Steps \cup Over] /\ \A f \in Edits : pc'[f] = IF f = e THEN l ELSE pc[f]
BY DEF TypeInv, Placed, Goto

LEMMA TypeFormatting == TypeInv /\ Formatting => (Tabled /\ Placed /\ Drawn)'
<1> SUFFICES ASSUME TypeInv, Formatting PROVE (Tabled /\ Placed /\ Drawn)'
  OBVIOUS
<1>0. "formatted" \in Contents
  BY DEF Contents
<1>1. CASE FmtReports \/ FmtCompletes
  <2>1. Tabled' /\ silent' \in BOOLEAN /\ UNCHANGED <<stored, overlapped>>
    BY <1>1, ReportsTyped DEF FmtReports, FmtCompletes
  <2>2. UNCHANGED <<files, pc, locals, del, web>> /\ fmt' \in {fmt, "done"}
    BY <1>1 DEF FmtReports, FmtCompletes
  <2>3. Placed'
    BY <2>1, <2>2 DEF TypeInv, Placed, locals, Over
  <2> QED BY <2>1, <2>2, <2>3, DrawnStays
<1>2. CASE FmtExports \/ FmtRaises
  <2>1. UNCHANGED <<tables, stored, pc, locals, del, web, overlapped>>
    BY <1>2 DEF FmtExports, FmtRaises, history
  <2>2. /\ files' = files \/ files' = [files EXCEPT !["main"] = "formatted"]
        /\ fmt' \in {"inserting", "done"} /\ (silent' = silent \/ silent' = TRUE)
    BY <1>2 DEF FmtExports, FmtRaises, history
  <2>3. files' \in [Paths -> Contents \cup {None}]
    BY <1>0, <2>2 DEF TypeInv, Placed
  <2>4. Tabled'
    BY <2>1 DEF TypeInv, Tabled, tables
  <2>5. Placed'
    BY <2>1, <2>2, <2>3 DEF TypeInv, Placed, Over, locals
  <2> QED BY <2>1, <2>4, <2>5, DrawnStays
<1>3. CASE FmtInserts
  <2>1. Tabled' /\ stored \subseteq stored'
    BY <1>0, <1>3, StoresTyped DEF FmtInserts
  <2>2. UNCHANGED <<files, pc, locals, del, web, overlapped, silent>> /\ fmt' = "publishing"
    BY <1>3 DEF FmtInserts
  <2>3. Placed'
    BY <2>2 DEF TypeInv, Placed, locals
  <2> QED BY <2>1, <2>2, <2>3, DrawnStays
<1>4. CASE FmtPublishes
  <2>1. /\ row' = row \/ row' = [status |-> "COMPLETED", output |-> "main"]
        /\ UNCHANGED <<result, versions, stored, files, pc, locals, del, web, overlapped, silent>>
        /\ fmt' = "finishing"
    BY <1>4 DEF FmtPublishes, history, Fault
  <2>2. row' \in [status : {"absent", "PROCESSING", "COMPLETED", "FAILED"},
                   output : Paths \cup {None}]
    BY <2>1 DEF TypeInv, Tabled, Paths
  <2>3. Tabled' /\ Placed'
    BY <2>1, <2>2 DEF TypeInv, Tabled, Placed, locals, Over
  <2> QED BY <2>1, <2>3, DrawnStays
<1> QED BY <1>1, <1>2, <1>3, <1>4 DEF Formatting

LEMMA TypeEdit ==
    ASSUME TypeInv, NEW e \in Edits, Edit(e)
    PROVE  (Tabled /\ Placed /\ Drawn)'
<1>a. ASSUME NEW l \in (Steps \cup Over) \ {"numbering", "snapshot"}, Goto(e, l),
             UNCHANGED locals, stored \subseteq stored'
      PROVE  Drawn'
  BY <1>a, GotoTyped, DrawnStays
<1>b. ASSUME NEW l \in Steps \cup Over, Goto(e, l), UNCHANGED <<fmt, mode, del, web, overlapped>>,
             silent' \in BOOLEAN, files' \in [Paths -> Contents \cup {None}]
      PROVE  Placed'
  BY <1>b, GotoTyped DEF TypeInv, Placed
<1>f. files \in [Paths -> Contents \cup {None}] /\ silent \in BOOLEAN
  BY DEF TypeInv, Placed
<1>1. CASE Validates(e) \/ Styles(e) \/ ReportEdited(e) \/ ReportFailure(e)
  <2>1. \E l \in (Steps \cup Over) \ {"numbering", "snapshot"} : Goto(e, l)
    BY <1>1 DEF Validates, Styles, ReportEdited, ReportFailure, Steps, Over
  <2>2. Tabled' /\ silent' \in BOOLEAN /\ UNCHANGED <<stored, overlapped>>
    BY <1>1, ReportsTyped DEF Validates, Styles, ReportEdited, ReportFailure
  <2>3. UNCHANGED <<files, fmt, locals, del, web>>
    BY <1>1 DEF Validates, Styles, ReportEdited, ReportFailure
  <2> QED BY <1>a, <1>b, <1>f, <2>1, <2>2, <2>3 DEF locals
<1>2. CASE ReadSource(e)
  <2>1. /\ \E l \in (Steps \cup Over) \ {"numbering", "snapshot"} : Goto(e, l)
        /\ UNCHANGED <<tables, files, fmt, mode, replaced, number, del, web, history>>
    BY <1>2 DEF ReadSource, Steps
  <2>2. source' = source \/ source' = [source EXCEPT ![e] = row.output]
    BY <1>2 DEF ReadSource
  <2>3. source' \in [Edits -> Paths \cup {None}]
    BY <2>2 DEF TypeInv, Drawn, Tabled
  <2>4. Drawn'
    BY <2>1, <2>3, GotoTyped DEF TypeInv, Drawn, history
  <2>5. Tabled' /\ Placed'
    BY <1>b, <1>f, <2>1 DEF TypeInv, Tabled, tables, history
  <2> QED BY <2>4, <2>5
<1>3. CASE Exports(e) \/ EditRaises(e)
  <2>1. /\ \E l \in (Steps \cup Over) \ {"numbering", "snapshot"} : Goto(e, l)
        /\ UNCHANGED <<tables, fmt, locals, del, web, history>>
    BY <1>3 DEF Exports, EditRaises, Steps
  <2>2. files' = files \/ files' = [files EXCEPT !["edited"] = e]
    BY <1>3 DEF Exports, EditRaises
  <2>3. files' \in [Paths -> Contents \cup {None}]
    BY <1>f, <2>2 DEF Contents
  <2>4. Tabled'
    BY <2>1 DEF TypeInv, Tabled, tables, history
  <2> QED BY <1>a, <1>b, <1>f, <2>1, <2>3, <2>4 DEF history, locals
<1>4. CASE SelectResult(e)
  <2>1. /\ Goto(e, IF result = None THEN "inserting" ELSE "numbering")
        /\ replaced' = [replaced EXCEPT ![e] = result]
        /\ UNCHANGED <<tables, files, fmt, mode, source, number, del, web, history>>
    BY <1>4 DEF SelectResult
  <2>2. Tabled' /\ Placed'
    BY <1>b, <1>f, <2>1 DEF TypeInv, Tabled, tables, history, Steps
  <2>3. replaced' \in [Edits -> stored \cup {None}] /\ (result # None => replaced'[e] \in stored)
    BY <2>1 DEF TypeInv, Drawn, Tabled
  <2>4. \A f \in Edits : pc'[f] = IF f = e THEN IF result = None THEN "inserting" ELSE "numbering"
                                          ELSE pc[f]
    BY <2>1, GotoTyped DEF Steps
  <2>5. \A f \in Edits : f # e => replaced'[f] = replaced[f]
    BY <2>1 DEF TypeInv, Drawn
  <2>6. Drawn'
    BY <2>1, <2>3, <2>4, <2>5 DEF TypeInv, Drawn, history
  <2> QED BY <2>2, <2>6
<1>5. CASE NumberVersion(e)
  <2>1. /\ Goto(e, "snapshot") /\ number' = [number EXCEPT ![e] = NextNumber]
        /\ UNCHANGED <<tables, files, fmt, mode, source, replaced, del, web, history>>
        /\ pc[e] = "numbering" /\ NextNumber <= MaxNumber
    BY <1>5 DEF NumberVersion
  <2>2. Tabled' /\ Placed'
    BY <1>b, <1>f, <2>1 DEF TypeInv, Tabled, tables, history, Steps
  <2>3. NextNumber \in Nat \ {0}
    <3>1. \A i \in DOMAIN versions : versions[i].number \in 1 .. MaxNumber
      BY TypeInvTypes DEF TypeOK
    <3>2. MaxNumber \in 10 .. 99
      BY EditAssumption DEF EditAssumption
    <3>3. \A i \in DOMAIN versions : versions[i].number \in Small
      BY <3>1, <3>2 DEF Small
    <3> QED BY <3>3, NextNumberTyped
  <2>4. NextNumber \in 1 .. MaxNumber
    BY <2>1, <2>3, EditAssumption DEF EditAssumption
  <2>5. number' \in [Edits -> 0 .. MaxNumber] /\ number'[e] \in 1 .. MaxNumber
        /\ \A f \in Edits : f # e => number'[f] = number[f]
    BY <2>1, <2>4 DEF TypeInv, Drawn
  <2>6. \A f \in Edits : pc'[f] = IF f = e THEN "snapshot" ELSE pc[f]
    BY <2>1, GotoTyped DEF Steps
  <2>7. Drawn'
    BY <2>1, <2>5, <2>6 DEF TypeInv, Drawn, history
  <2> QED BY <2>2, <2>7
<1>6. CASE Snapshot(e)
  <2>1. /\ Goto(e, "upserting") /\ pc[e] = "snapshot"
        /\ UNCHANGED <<row, result, files, fmt, locals, del, web, history>>
        /\ \/ UNCHANGED versions
           \/ versions' = Append(versions, [number |-> number[e], data |-> replaced[e],
                                            path |-> source[e]])
    BY <1>6 DEF Snapshot
  <2> DEFINE V == [number : 1 .. MaxNumber, data : stored, path : Paths \cup {None}]
  <2>2. [number |-> number[e], data |-> replaced[e], path |-> source[e]] \in V
    BY <2>1 DEF TypeInv, Drawn
  <2>3. versions \in Seq(V)
    BY DEF TypeInv, Tabled
  <2>4. versions' \in Seq(V)
    <3> HIDE DEF V
    <3> QED BY <2>1, <2>2, <2>3
  <2>5. Tabled'
    BY <2>1, <2>4 DEF TypeInv, Tabled, history
  <2> QED BY <1>a, <1>b, <1>f, <2>1, <2>5 DEF Steps, Over, history, locals
<1>7. CASE UpsertResult(e) \/ InsertResult(e)
  <2>1. Tabled' /\ stored \subseteq stored'
    <3>1. e \in Contents /\ (result = None) \in BOOLEAN
      BY DEF Contents
    <3> QED BY <1>7, <3>1, StoresTyped DEF UpsertResult, InsertResult
  <2>2. Goto(e, "publishing") /\ UNCHANGED <<files, fmt, locals, del, web, overlapped, silent>>
    BY <1>7 DEF UpsertResult, InsertResult
  <2> QED BY <1>a, <1>b, <1>f, <2>1, <2>2 DEF Steps, Over, locals
<1>8. CASE UpdateOutput(e)
  <2>1. /\ row' = row \/ row' = [row EXCEPT !.output = "edited"]
        /\ Goto(e, "finishing")
        /\ UNCHANGED <<result, versions, files, fmt, locals, del, web, history>>
    BY <1>8 DEF UpdateOutput, Fault
  <2>2. row' \in [status : {"absent", "PROCESSING", "COMPLETED", "FAILED"},
                   output : Paths \cup {None}]
    BY <2>1 DEF TypeInv, Tabled, Paths
  <2>3. Tabled'
    BY <2>1, <2>2 DEF TypeInv, Tabled, history
  <2> QED BY <1>a, <1>b, <1>f, <2>1, <2>3 DEF Steps, Over, history, locals
<1> QED BY <1>1, <1>2, <1>3, <1>4, <1>5, <1>6, <1>7, <1>8 DEF Edit

LEMMA TypeDeletion == TypeInv /\ (RequestDelete \/ Deletion) => (Tabled /\ Placed /\ Drawn)'
<1> SUFFICES ASSUME TypeInv, RequestDelete \/ Deletion PROVE (Tabled /\ Placed /\ Drawn)'
  OBVIOUS
<1>1. UNCHANGED <<fmt, pc, locals, web, silent, stored>> /\ overlapped' \in BOOLEAN
  BY DEF RequestDelete, Deletion, DeleteReadsAgain, DeleteResults, DeleteVersions, DeleteRow,
     history, TypeInv, Placed
<1>2. /\ row' = row \/ row' = [status |-> "absent", output |-> None]
      /\ result' = result \/ result' = None
      /\ versions' = versions \/ versions' = << >>
  BY DEF RequestDelete, Deletion, DeleteReadsAgain, DeleteResults, DeleteVersions, DeleteRow,
     tables
<1>3. files' \in [Paths -> Contents \cup {None}]
  <2>1. files' = files \/ \E p \in Paths : files' = [files EXCEPT ![p] = None]
    BY DEF RequestDelete, Deletion, DeleteReadsAgain, DeleteResults, DeleteVersions, DeleteRow,
       Removes, TypeInv, Tabled
  <2> QED BY <2>1 DEF TypeInv, Placed
<1>4. del' \in {"removing", "results", "versions", "row", "done", "failed"}
  BY DEF RequestDelete, Deletion, DeleteReadsAgain, DeleteResults, DeleteVersions, DeleteRow
<1>5. row' \in [status : {"absent", "PROCESSING", "COMPLETED", "FAILED"},
                output : Paths \cup {None}]
  BY <1>2 DEF TypeInv, Tabled
<1>6. versions' \in Seq([number : 1 .. MaxNumber, data : stored, path : Paths \cup {None}])
  <2> DEFINE V == [number : 1 .. MaxNumber, data : stored, path : Paths \cup {None}]
  <2>1. versions \in Seq(V)
    BY DEF TypeInv, Tabled
  <2>2. << >> \in Seq(V)
    OBVIOUS
  <2> QED BY <1>2, <2>1, <2>2
<1>7. Tabled' /\ Placed'
  BY <1>1, <1>2, <1>3, <1>4, <1>5, <1>6 DEF TypeInv, Tabled, Placed, locals
<1> QED BY <1>1, <1>7, DrawnStays

LEMMA TypeStep == TypeInv /\ [Next]_vars => TypeInv'
<1> SUFFICES ASSUME TypeInv, [Next]_vars PROVE (Tabled /\ Placed /\ Drawn)'
  BY CountedStep DEF TypeInv
<1>1. ASSUME NEW e \in Edits, NEW m \in {"background", "celery"}, RequestEdit(e, m)
      PROVE  (Tabled /\ Placed /\ Drawn)'
  <2>1. /\ Goto(e, "queued") /\ mode' = [mode EXCEPT ![e] = m]
        /\ UNCHANGED <<tables, files, fmt, source, replaced, number, del, web, silent, stored>>
    BY <1>1 DEF RequestEdit
  <2>2. mode' \in [Edits -> {"background", "celery"}] /\ overlapped' \in BOOLEAN
    BY <1>1, <2>1 DEF RequestEdit, TypeInv, Placed
  <2>3. /\ pc' \in [Edits -> Steps \cup Over]
        /\ \A f \in Edits : pc'[f] = IF f = e THEN "queued" ELSE pc[f]
    BY <2>1, GotoTyped DEF Steps
  <2> QED BY <2>1, <2>2, <2>3 DEF TypeInv, Tabled, Placed, Drawn, tables
<1>2. ASSUME NEW e \in Edits, WorkerCrashes(e) PROVE (Tabled /\ Placed /\ Drawn)'
  <2>1. Goto(e, "queued") /\ UNCHANGED <<tables, files, fmt, locals, del, web, history>>
    BY <1>2 DEF WorkerCrashes
  <2>2. /\ pc' \in [Edits -> Steps \cup Over]
        /\ \A f \in Edits : pc'[f] = IF f = e THEN "queued" ELSE pc[f]
    BY <2>1, GotoTyped DEF Steps
  <2>3. Tabled' /\ Placed'
    BY <2>1, <2>2 DEF TypeInv, Tabled, Placed, tables, locals, history
  <2> QED BY <2>1, <2>2, <2>3, DrawnStays DEF history
<1>3. CASE WebCrashes
  <2>1. UNCHANGED <<tables, files, locals, history>> /\ web' = "down"
        /\ fmt' \in {fmt, "lost"} /\ del' \in {del, "failed"}
        /\ pc' = [e \in Edits |-> IF Live(e) /\ mode[e] = "background" THEN "lost" ELSE pc[e]]
    BY <1>3 DEF WebCrashes
  <2>2. pc' \in [Edits -> Steps \cup Over] /\ \A e \in Edits : pc'[e] \in {pc[e], "lost"}
    BY <2>1 DEF TypeInv, Placed, Over
  <2>3. Tabled' /\ Placed'
    BY <2>1, <2>2 DEF TypeInv, Tabled, Placed, tables, locals, history, Over
  <2> QED BY <2>1, <2>2, <2>3, DrawnStays DEF history
<1>4. CASE Restart
  <2>1. /\ UNCHANGED <<result, versions, files, fmt, pc, locals, del, history>> /\ web' = "up"
        /\ row' = row \/ row' = [row EXCEPT !.status = "FAILED"]
    BY <1>4 DEF Restart
  <2>2. row' \in [status : {"absent", "PROCESSING", "COMPLETED", "FAILED"},
                   output : Paths \cup {None}]
    BY <2>1 DEF TypeInv, Tabled
  <2>3. Tabled' /\ Placed'
    BY <2>1, <2>2 DEF TypeInv, Tabled, Placed, locals, history
  <2> QED BY <2>1, <2>3, DrawnStays DEF history
<1>5. CASE Idle \/ UNCHANGED vars
  <2>1. UNCHANGED vars
    BY <1>5 DEF Idle
  <2>2. Tabled' /\ Placed'
    BY <2>1 DEF TypeInv, Tabled, Placed, vars, tables, locals, history
  <2> QED BY <2>1, <2>2, DrawnStays DEF vars, history
<1> QED BY <1>1, <1>2, <1>3, <1>4, <1>5, TypeFormatting, TypeEdit, TypeDeletion DEF Next

(* Every variable keeps its type, the numbers drawn for versions are from  *)
(* 1 on, however executions, deletions and crashes are interleaved.        *)
THEOREM TypeCorrect == Spec => []TypeOK
<1> QED BY TypeInit, TypeStep, TypeInvTypes, PTL DEF Spec

(* What run_edit_flow offers as the result or as a version is data that    *)
(* was stored as the result at some time, even when edits, deletions and   *)
(* redeliveries overlap: it may lose a result, it never makes one up.      *)
NothingInvented ==
    /\ result \in stored \cup {None}
    /\ \A i \in DOMAIN versions : versions[i].data \in stored

THEOREM VersionsWereResults == Spec => []NothingInvented
<1>1. TypeInv => NothingInvented
  <2> SUFFICES ASSUME TypeInv PROVE NothingInvented
    OBVIOUS
  <2> DEFINE V == [number : 1 .. MaxNumber, data : stored, path : Paths \cup {None}]
  <2>1. versions \in Seq(V) /\ result \in stored \cup {None}
    BY DEF TypeInv, Tabled
  <2>2. \A i \in DOMAIN versions : versions[i] \in V
    <3> HIDE DEF V
    <3> QED BY <2>1
  <2> QED BY <2>1, <2>2 DEF NothingInvented
<1> QED BY <1>1, TypeInit, TypeStep, PTL DEF Spec
=============================================================================
