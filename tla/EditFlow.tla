------------------------------ MODULE EditFlow ------------------------------
(***************************************************************************)
(* What happens to one document after its upload: the first formatting,    *)
(* the edits a user submits (run_edit_flow: re-validate, re-format, keep   *)
(* the replaced result as a version, store the new one) and the deletion.  *)
(* Edits take no permit and look at no status, so executions may overlap,  *)
(* and the row may disappear below them.  The tables have the foreign keys *)
(* and cascades of schema.sql.  A step is one database call or one write   *)
(* of a file.                                                              *)
(***************************************************************************)
EXTENDS Naturals, Sequences, FiniteSets

CONSTANTS
    Edits,       \* edits a user may submit; an edit stands for its data too
    Earlier,     \* numbers of edits done one by one before the behaviour
    MaxLive,     \* bound: executions at a time
    MaxNumber,   \* bound: version numbers, of two digits at most
    MaxMishaps   \* bound: crashes, and database calls or stages that fail

ASSUME EditAssumption ==
    /\ IsFiniteSet(Edits) /\ Edits \cap {"none", "formatted", "earlier"} = {}
    /\ Earlier \subseteq 0 .. 10 /\ MaxNumber \in 10 .. 99
    /\ MaxLive \in Nat /\ MaxMishaps \in Nat

(* Output files: the pipeline writes one per upload, every edit writes     *)
(* <job>_edit/<name>_edited.docx.                                          *)
Paths    == {"main", "edited"}
Contents == Edits \cup {"formatted", "earlier"}
None     == "none"

VARIABLES
    row,         \* documents: [status, output]; "absent" once deleted
    result,      \* document_results: the data, or None
    versions,    \* document_versions: [number, data, path] in insertion order
    files,       \* what is in each output file
    fmt,         \* where the first formatting is
    pc,          \* where an edit is
    mode,        \* how it was dispatched
    source,      \* output_path it read at its start
    replaced,    \* the result it is about to replace
    number,      \* the version number it is about to use
    del,         \* where the delete request is
    web,         \* the web process
    overlapped,  \* history: two of formatting, edits, deletion ran together
    silent,      \* history: a status report failed, or the formatting gave up
    stored,      \* history: every result that has been stored
    crashes, faults

tables  == <<row, result, versions>>
locals  == <<mode, source, replaced, number>>
bounds  == <<crashes, faults>>
history == <<overlapped, silent, stored>>
vars    == <<tables, files, fmt, pc, locals, del, web, history, bounds>>

Exists   == row.status # "absent"
Over     == {"idle", "done", "lost"}
Live(e)  == pc[e] \notin Over
Deleting == del \in {"removing", "results", "versions", "row"}
Active   == Cardinality({e \in Edits : Live(e)}) + (IF fmt \in Over THEN 0 ELSE 1)
          + (IF Deleting THEN 1 ELSE 0)
Quiet    == Active = 0 /\ web = "up"

Steps == {"queued", "validating", "styling", "exporting", "selecting", "numbering",
          "snapshot", "upserting", "inserting", "publishing", "finishing", "failing"}

TypeOK ==
    /\ row \in [status : {"absent", "PROCESSING", "COMPLETED", "FAILED"},
                output : Paths \cup {None}]
    /\ result \in Contents \cup {None}
    /\ \A i \in DOMAIN versions :
          versions[i] \in [number : 1 .. MaxNumber, data : Contents, path : Paths \cup {None}]
    /\ files \in [Paths -> Contents \cup {None}]
    /\ fmt \in {"running", "inserting", "publishing", "finishing"} \cup Over
    /\ pc \in [Edits -> Steps \cup Over]
    /\ mode \in [Edits -> {"background", "celery"}]
    /\ source \in [Edits -> Paths \cup {None}]
    /\ replaced \in [Edits -> Contents \cup {None}]
    /\ number \in [Edits -> 0 .. MaxNumber]
    /\ del \in {"none", "removing", "results", "versions", "row", "done", "failed"}
    /\ web \in {"up", "down"}
    /\ overlapped \in BOOLEAN /\ silent \in BOOLEAN
    /\ stored \subseteq Contents
    /\ crashes + faults \in 0 .. MaxMishaps

(* The document has just been uploaded, or was formatted and edited n      *)
(* times: every edit has replaced the data of the one before.              *)
Init ==
    /\ \E n \in Earlier :
         /\ versions = [i \in 1 .. n |->
                [number |-> i, data |-> IF i = 1 THEN "formatted" ELSE "earlier",
                 path |-> IF i = 1 THEN "main" ELSE "edited"]]
         /\ IF n = 0
            THEN /\ row = [status |-> "PROCESSING", output |-> None]
                 /\ result = None /\ stored = {}
                 /\ files = [p \in Paths |-> None]
                 /\ fmt = "running"
            ELSE /\ row = [status |-> "COMPLETED", output |-> "edited"]
                 /\ result = "earlier" /\ stored = {"formatted", "earlier"}
                 /\ files = [p \in Paths |-> IF p = "main" THEN "formatted" ELSE "earlier"]
                 /\ fmt = "done"
    /\ pc = [e \in Edits |-> "idle"]
    /\ mode = [e \in Edits |-> "background"]
    /\ source = [e \in Edits |-> None]
    /\ replaced = [e \in Edits |-> None]
    /\ number = [e \in Edits |-> 0]
    /\ del = "none" /\ web = "up"
    /\ overlapped = FALSE /\ silent = FALSE
    /\ crashes = 0 /\ faults = 0

-----------------------------------------------------------------------------
(* Database calls                                                          *)

Fault == crashes + faults < MaxMishaps /\ faults' = faults + 1

(* An update by id, which matches no row once the document is deleted.     *)
SetStatus(s) == row' = IF Exists THEN [row EXCEPT !.status = s] ELSE row

(* A status report: a failure is swallowed.                                *)
Reports(s) ==
    /\ \/ SetStatus(s) /\ UNCHANGED <<faults, silent>>
       \/ Fault /\ silent' = TRUE /\ UNCHANGED row
    /\ UNCHANGED <<result, versions, overlapped, stored>>

(* Wrong: the tables have no foreign key.                                  *)
StoresAlways(data, accepted) ==
    /\ result' = IF accepted THEN data ELSE result
    /\ stored' = IF accepted THEN stored \cup {data} ELSE stored
    /\ UNCHANGED <<row, versions, faults>>

(* insert_sync and upsert_sync of the result: the foreign key refuses a    *)
(* deleted document and the unique key a second insert; every failure is   *)
(* swallowed.                                                              *)
Stores(data, accepted) ==
    /\ \/ /\ result' = IF Exists /\ accepted THEN data ELSE result
          /\ stored' = IF Exists /\ accepted THEN stored \cup {data} ELSE stored
          /\ UNCHANGED faults
       \/ Fault /\ UNCHANGED <<result, stored>>
    /\ UNCHANGED <<row, versions>>

(* "v10" is before "v9": version_number is a TEXT, ordered as one.         *)
Digits(n) == IF n < 10 THEN <<n>> ELSE <<n \div 10, n % 10>>
Before(m, n) ==
    LET s == Digits(m)
        t == Digits(n)
    IN  \/ s[1] < t[1]
        \/ s[1] = t[1] /\ Len(s) < Len(t)
        \/ s[1] = t[1] /\ Len(s) = Len(t) /\ s[Len(s)] < t[Len(t)]

(* Wrong: the number of the latest version is used again.                  *)
NextNumberLatest ==
    LET numbers == {versions[i].number : i \in DOMAIN versions} IN
    IF numbers = {} THEN 1
    ELSE CHOOSE n \in numbers : \A m \in numbers \ {n} : Before(m, n)

(* Wrong: the first version is number 0.                                   *)
NextNumberZero ==
    LET numbers == {versions[i].number : i \in DOMAIN versions} IN
    IF numbers = {} THEN 0
    ELSE (CHOOSE n \in numbers : \A m \in numbers \ {n} : Before(m, n)) + 1

NextNumber ==
    LET numbers == {versions[i].number : i \in DOMAIN versions} IN
    IF numbers = {} THEN 1
    ELSE (CHOOSE n \in numbers : \A m \in numbers \ {n} : Before(m, n)) + 1

-----------------------------------------------------------------------------
(* The first formatting: the phases of DocPipeline that touch row, result  *)
(* and output file, in the thread of the upload.                           *)

FmtReports ==
    /\ fmt = "running"
    /\ Reports("PROCESSING")
    /\ UNCHANGED <<files, fmt, pc, locals, del, web, crashes>>

FmtExports ==
    /\ fmt = "running"
    /\ files' = [files EXCEPT !["main"] = "formatted"]
    /\ fmt' = "inserting"
    /\ UNCHANGED <<tables, pc, locals, del, web, history, bounds>>

(* safe_execution swallows the error of a stage.                           *)
FmtRaises ==
    /\ fmt = "running"
    /\ Fault
    /\ fmt' = "done" /\ silent' = TRUE
    /\ UNCHANGED <<tables, files, pc, locals, del, web, overlapped, stored, crashes>>

FmtInserts ==
    /\ fmt = "inserting"
    /\ Stores("formatted", result = None)
    /\ fmt' = "publishing"
    /\ UNCHANGED <<files, pc, locals, del, web, overlapped, silent, crashes>>

FmtPublishes ==
    /\ fmt = "publishing"
    /\ \/ row' = (IF Exists THEN [status |-> "COMPLETED", output |-> "main"] ELSE row)
          /\ UNCHANGED faults
       \/ Fault /\ UNCHANGED row
    /\ fmt' = "finishing"
    /\ UNCHANGED <<result, versions, files, pc, locals, del, web, history, crashes>>

FmtCompletes ==
    /\ fmt = "finishing"
    /\ Reports("COMPLETED")
    /\ fmt' = "done"
    /\ UNCHANGED <<files, pc, locals, del, web, crashes>>

Formatting == FmtReports \/ FmtExports \/ FmtRaises \/ FmtInserts \/ FmtPublishes \/ FmtCompletes

-----------------------------------------------------------------------------
(* An edit                                                                 *)

Goto(e, label) == pc' = [pc EXCEPT ![e] = label]

(* edit_document asks for no status; dispatch_edit_flow.                   *)
RequestEdit(e, m) ==
    /\ web = "up" /\ Exists
    /\ pc[e] = "idle" /\ Active < MaxLive
    /\ Goto(e, "queued")
    /\ mode' = [mode EXCEPT ![e] = m]
    /\ overlapped' = (overlapped \/ Active > 0)
    /\ UNCHANGED <<tables, files, fmt, source, replaced, number, del, web, silent,
                   stored, bounds>>

(* run_edit_flow reads filename and output_path.                           *)
ReadSource(e) ==
    /\ pc[e] = "queued"
    /\ IF Exists THEN /\ source' = [source EXCEPT ![e] = row.output]
                      /\ Goto(e, "validating")
                 ELSE Goto(e, "failing") /\ UNCHANGED source
    /\ UNCHANGED <<tables, files, fmt, mode, replaced, number, del, web, history, bounds>>

Validates(e) ==
    /\ pc[e] = "validating"
    /\ Reports("PROCESSING") /\ Goto(e, "styling")
    /\ UNCHANGED <<files, fmt, locals, del, web, crashes>>

Styles(e) ==
    /\ pc[e] = "styling"
    /\ Reports("PROCESSING") /\ Goto(e, "exporting")
    /\ UNCHANGED <<files, fmt, locals, del, web, crashes>>

(* The exporter writes the file; or not, when the formatter swallowed an   *)
(* error and left it no Word document.                                     *)
Exports(e) ==
    /\ pc[e] = "exporting"
    /\ \/ files' = [files EXCEPT !["edited"] = e] /\ UNCHANGED faults
       \/ Fault /\ UNCHANGED files
    /\ Goto(e, "selecting")
    /\ UNCHANGED <<tables, fmt, locals, del, web, history, crashes>>

(* Validation, styling, export or one of the queries raises.               *)
EditRaises(e) ==
    /\ pc[e] \in {"queued", "styling", "exporting", "selecting", "numbering"}
    /\ Fault
    /\ Goto(e, "failing")
    /\ UNCHANGED <<tables, files, fmt, locals, del, web, history, crashes>>

SelectResult(e) ==
    /\ pc[e] = "selecting"
    /\ replaced' = [replaced EXCEPT ![e] = result]
    /\ Goto(e, IF result = None THEN "inserting" ELSE "numbering")
    /\ UNCHANGED <<tables, files, fmt, mode, source, number, del, web, history, bounds>>

NumberVersion(e) ==
    /\ pc[e] = "numbering" /\ NextNumber <= MaxNumber
    /\ number' = [number EXCEPT ![e] = NextNumber]
    /\ Goto(e, "snapshot")
    /\ UNCHANGED <<tables, files, fmt, mode, source, replaced, del, web, history, bounds>>

(* Wrong: the version keeps the data of the edit, not those it replaces.   *)
SnapshotOfEdit(e) ==
    /\ pc[e] = "snapshot"
    /\ \/ /\ versions' = IF Exists THEN Append(versions, [number |-> number[e], data |-> e,
                                                         path |-> source[e]])
                                   ELSE versions
          /\ UNCHANGED faults
       \/ Fault /\ UNCHANGED versions
    /\ Goto(e, "upserting")
    /\ UNCHANGED <<row, result, files, fmt, locals, del, web, history, crashes>>

(* The replaced data become a version, with the output of the start.       *)
Snapshot(e) ==
    /\ pc[e] = "snapshot"
    /\ \/ /\ versions' = IF Exists THEN Append(versions, [number |-> number[e],
                                       data |-> replaced[e], path |-> source[e]])
                                   ELSE versions
          /\ UNCHANGED faults
       \/ Fault /\ UNCHANGED versions
    /\ Goto(e, "upserting")
    /\ UNCHANGED <<row, result, files, fmt, locals, del, web, history, crashes>>

UpsertResult(e) ==
    /\ pc[e] = "upserting"
    /\ Stores(e, TRUE) /\ Goto(e, "publishing")
    /\ UNCHANGED <<files, fmt, locals, del, web, overlapped, silent, crashes>>

InsertResult(e) ==
    /\ pc[e] = "inserting"
    /\ Stores(e, result = None) /\ Goto(e, "publishing")
    /\ UNCHANGED <<files, fmt, locals, del, web, overlapped, silent, crashes>>

(* Wrong: output_path keeps pointing at the file of the first formatting.  *)
UpdateOutputNot(e) ==
    /\ pc[e] = "publishing"
    /\ Goto(e, "finishing")
    /\ UNCHANGED <<tables, files, fmt, locals, del, web, history, bounds>>

UpdateOutput(e) ==
    /\ pc[e] = "publishing"
    /\ \/ row' = (IF Exists THEN [row EXCEPT !.output = "edited"] ELSE row)
          /\ UNCHANGED faults
       \/ Fault /\ UNCHANGED row
    /\ Goto(e, "finishing")
    /\ UNCHANGED <<result, versions, files, fmt, locals, del, web, history, crashes>>

ReportEdited(e) ==
    /\ pc[e] = "finishing"
    /\ Reports("COMPLETED") /\ Goto(e, "done")
    /\ UNCHANGED <<files, fmt, locals, del, web, crashes>>

(* Wrong: an edit that raised does not write its failure.                  *)
ReportFailureNot(e) ==
    /\ pc[e] = "failing"
    /\ Goto(e, "done")
    /\ UNCHANGED <<tables, files, fmt, locals, del, web, history, bounds>>

ReportFailure(e) ==
    /\ pc[e] = "failing"
    /\ Reports("FAILED") /\ Goto(e, "done")
    /\ UNCHANGED <<files, fmt, locals, del, web, crashes>>

Edit(e) ==
    \/ ReadSource(e) \/ Validates(e) \/ Styles(e) \/ Exports(e) \/ EditRaises(e)
    \/ SelectResult(e) \/ NumberVersion(e) \/ Snapshot(e)
    \/ UpsertResult(e) \/ InsertResult(e) \/ UpdateOutput(e)
    \/ ReportEdited(e) \/ ReportFailure(e)

-----------------------------------------------------------------------------
(* The deletion, the crashes and the restart                               *)

Removes(path) == files' = IF path = None THEN files ELSE [files EXCEPT ![path] = None]

(* delete_document_with_cleanup removes the output file of the row it has  *)
(* read; DocumentRepository.delete reads the row and does so again.        *)
RequestDelete ==
    /\ web = "up" /\ Exists
    /\ del \in {"none", "failed"} /\ Active < MaxLive
    /\ Removes(row.output)
    /\ del' = "removing"
    /\ overlapped' = (overlapped \/ Active > 0)
    /\ UNCHANGED <<tables, fmt, pc, locals, web, silent, stored, bounds>>

DeleteReadsAgain ==
    /\ del = "removing"
    /\ Removes(row.output)
    /\ del' = "results"
    /\ UNCHANGED <<tables, fmt, pc, locals, web, history, bounds>>

(* run_cleanup: the first failure skips the rest and is swallowed.         *)
DeleteResults ==
    /\ del = "results"
    /\ \/ result' = None /\ del' = "versions" /\ UNCHANGED faults
       \/ Fault /\ del' = "row" /\ UNCHANGED result
    /\ UNCHANGED <<row, versions, files, fmt, pc, locals, web, history, crashes>>

DeleteVersions ==
    /\ del = "versions"
    /\ \/ versions' = << >> /\ UNCHANGED faults
       \/ Fault /\ UNCHANGED versions
    /\ del' = "row"
    /\ UNCHANGED <<row, result, files, fmt, pc, locals, web, history, crashes>>

(* ON DELETE CASCADE takes what was stored in between.                     *)
DeleteRow ==
    /\ del = "row"
    /\ \/ /\ row' = [status |-> "absent", output |-> None]
          /\ result' = None /\ versions' = << >>
          /\ del' = "done" /\ UNCHANGED faults
       \/ Fault /\ del' = "failed" /\ UNCHANGED tables
    /\ UNCHANGED <<files, fmt, pc, locals, web, history, crashes>>

Deletion == DeleteReadsAgain \/ DeleteResults \/ DeleteVersions \/ DeleteRow

WebCrashes ==
    /\ web = "up" /\ crashes + faults < MaxMishaps
    /\ crashes' = crashes + 1
    /\ web' = "down"
    /\ fmt' = (IF fmt \in Over THEN fmt ELSE "lost")
    /\ pc' = [e \in Edits |-> IF Live(e) /\ mode[e] = "background" THEN "lost" ELSE pc[e]]
    /\ del' = (IF Deleting THEN "failed" ELSE del)
    /\ UNCHANGED <<tables, files, locals, history, faults>>

(* _reset_interrupted_jobs_on_startup, whose two queries are a step here.  *)
Restart ==
    /\ web = "down"
    /\ web' = "up"
    /\ row' = (IF row.status = "PROCESSING" THEN [row EXCEPT !.status = "FAILED"] ELSE row)
    /\ UNCHANGED <<result, versions, files, fmt, pc, locals, del, history, bounds>>

(* The message of a worker that died is delivered again.                   *)
WorkerCrashes(e) ==
    /\ Live(e) /\ pc[e] # "queued" /\ mode[e] = "celery"
    /\ crashes + faults < MaxMishaps
    /\ crashes' = crashes + 1
    /\ Goto(e, "queued")
    /\ UNCHANGED <<tables, files, fmt, locals, del, web, history, faults>>

Idle == Quiet /\ UNCHANGED vars

Next ==
    \/ Formatting \/ RequestDelete \/ Deletion
    \/ \E e \in Edits, m \in {"background", "celery"} : RequestEdit(e, m)
    \/ \E e \in Edits : Edit(e) \/ WorkerCrashes(e)
    \/ WebCrashes \/ Restart \/ Idle

(* Threads and workers run, and a dead web process is started again.       *)
Fairness ==
    /\ WF_vars(Formatting /\ ~FmtReports)
    /\ \A e \in Edits : WF_vars(Edit(e))
    /\ WF_vars(Deletion) /\ WF_vars(Restart)

Spec == Init /\ [][Next]_vars /\ Fairness

-----------------------------------------------------------------------------
(* Properties                                                              *)

(* Once everything is over, a document shown COMPLETED offers a file, and  *)
(* the file was made from the very data the result holds: get_preview      *)
(* reads one, download_document the other.  It takes executions that never *)
(* met, no failing call and no deletion; crashes and redelivery may occur. *)
ServedIsConsistent ==
    Quiet /\ row.status = "COMPLETED" /\ ~overlapped /\ faults = 0 /\ del = "none" =>
        row.output # None /\ files[row.output] = result

(* Editing is not destructive: every result ever stored is still the       *)
(* result or is in a version, when executions never met and no call failed.*)
NoResultLost ==
    ~overlapped /\ faults = 0 /\ del = "none" =>
        \A c \in stored : c = result \/ \E i \in DOMAIN versions : versions[i].data = c

(* Versions made one after the other have different numbers, up to the     *)
(* tenth: from then on the order of the texts makes v10 come again.        *)
NumbersDistinct ==
    ~overlapped /\ Len(versions) <= 10 =>
        \A i, j \in DOMAIN versions : versions[i].number = versions[j].number => i = j

(* What is deleted stays deleted: an execution that goes on after the      *)
(* deletion brings neither the row nor a result or a version back.         *)
DeletedStaysDeleted ==
    [][~Exists => ~Exists' /\ result' = None /\ versions' = << >>]_vars

(* A document does not stay PROCESSING, whatever edits, deletions, crashes *)
(* and redeliveries do to each other; only a formatting that swallowed the *)
(* error of a stage, or a report that failed, leaves it so.                *)
EditSettles == <>[](row.status # "PROCESSING" \/ silent)
=============================================================================
