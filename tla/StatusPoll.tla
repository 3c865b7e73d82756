----------------------------- MODULE StatusPoll -----------------------------
(***************************************************************************)
(* How the owner of a document learns what became of it.  The pipeline     *)
(* writes processing_status, the result and the row of the document; the   *)
(* tabs of a browser poll get_status one request at a time until they read *)
(* a verdict; get_status answers from a cache of the web process, filled   *)
(* by any poll of the owner and by the upload itself, and reads the        *)
(* database in several calls when the entry has expired.                   *)
(*                                                                         *)
(* A step is one database call or one operation on the cache (between two  *)
(* of them the event loop runs the other requests), or one tick of the     *)
(* clock.  The document is followed from its creation; what the pipeline   *)
(* may do wrong is the subject of DocPipeline.                             *)
(***************************************************************************)
EXTENDS Naturals

CONSTANTS
    Tabs,        \* the tabs of the owner that follow the document
    Uploader,    \* the one that uploaded it
    Reports,     \* reports of a complete run, PERSISTENCE PROCESSING the last but one
    Ttl,         \* DOCUMENT_STATUS_CACHE_TTL_SECONDS, in ticks
    MaxTroubles  \* bound: failing reads and inserts, deletions, cancellations

ASSUME PollAssumption ==
    /\ Uploader \in Tabs
    /\ Reports \in Nat \ {0}
    /\ Ttl \in Nat /\ MaxTroubles \in Nat

Statuses == {"PROCESSING", "COMPLETED", "FAILED"}

(* Wrong: the statuses for which there is a result are others.             *)
ReadyForExportMisnamed == {"COMPLETED_WITH_WARNINGS"}

(* _READY_FOR_EXPORT_STATUSES, as far as the pipeline writes them.         *)
ReadyForExport == {"COMPLETED"}

(* The row of the document and what an answer shows of it: how many        *)
(* reports were applied, and the status.                                   *)
Row == [n : 0 .. Reports, status : Statuses]

(* The row as it is created, and _build_initial_status_payload.            *)
Initial == [n |-> 0, status |-> "PROCESSING"]

VARIABLES
    document,    \* documents: the row
    there,       \* the row has not been deleted
    phases,      \* processing_status: reports written
    result,      \* document_results: "none", "saved", or "lost" by a failed insert
    work,        \* the pipeline: "between" reports, "reporting" one, "ended"
    deletion,    \* "no", "cleaning", "cleaned", "ended"
    upload,      \* the upload request: "dispatched", "cached", "answered"
    entry,       \* the entry of the owner in _status_response_cache
    age,         \* ticks since it was stored; Gone without an entry
    pc,          \* how far the poll of a tab is; "idle" between two polls
    draft,       \* what that poll has read: row, phases, a quality score
    told,        \* the kind of the last answer to a tab
    shown,       \* progress that the tab of the upload shows
    watching,    \* the tab goes on polling
    troubles

database == <<document, there, phases, result>>
cache    == <<entry, age>>
polls    == <<pc, draft, told, shown, watching>>
vars     == <<database, work, deletion, upload, cache, polls, troubles>>

(* An entry this old is never used again, as if it were not there.  (It    *)
(* stays for a while as a stale answer for a missing row; see MissesRow.)  *)
Gone == Ttl

Asking == {"document", "phases", "result", "fill"}

TypeOK ==
    /\ document \in Row
    /\ there \in BOOLEAN
    /\ phases \in 0 .. Reports
    /\ result \in {"none", "saved", "lost"}
    /\ work \in {"between", "reporting", "ended"}
    /\ deletion \in {"no", "cleaning", "cleaned", "ended"}
    /\ upload \in {"dispatched", "cached", "answered"}
    /\ entry \in Row
    /\ age \in 0 .. Gone
    /\ pc \in [Tabs -> {"idle"} \cup Asking]
    /\ draft \in [Tabs -> [row : Row, phases : 0 .. Reports, quality : BOOLEAN]]
    /\ told \in [Tabs -> {"nothing", "payload", "503"}]
    /\ shown \in 0 .. Reports
    /\ watching \in [Tabs -> BOOLEAN]
    /\ troubles \in 0 .. MaxTroubles

NothingRead == [row |-> Initial, phases |-> 0, quality |-> FALSE]

Init ==
    /\ document = Initial /\ there = TRUE
    /\ phases = 0 /\ result = "none"
    /\ work = "between" /\ deletion = "no" /\ upload = "dispatched"
    /\ entry = Initial /\ age = Gone
    /\ pc = [t \in Tabs |-> "idle"]
    /\ draft = [t \in Tabs |-> NothingRead]
    /\ told = [t \in Tabs |-> "nothing"]
    /\ shown = 0
    /\ watching = [t \in Tabs |-> t # Uploader]
    /\ troubles = 0

-----------------------------------------------------------------------------
(* The pipeline                                                            *)

(* The first half of _update_status.  Without the row of the document the  *)
(* insert violates its foreign key and the whole report is lost.           *)
ReportsPhase ==
    /\ work = "between" /\ there
    /\ document.n + 1 = Reports => document.status = "COMPLETED"
    /\ phases' = document.n + 1
    /\ work' = "reporting"
    /\ UNCHANGED <<document, there, result, deletion, upload, cache, polls, troubles>>

(* Wrong: a verdict does not end the run.                                  *)
ReportsRowEndless ==
    /\ work = "reporting" /\ there
    /\ \E s \in IF document.n + 1 = Reports THEN {"COMPLETED"} ELSE {"PROCESSING", "FAILED"} :
           /\ document' = [n |-> document.n + 1, status |-> s]
           /\ work' = "between"
    /\ UNCHANGED <<there, phases, result, deletion, upload, cache, polls, troubles>>

(* The second half.  Any report but the last may be one of a failure.      *)
ReportsRow ==
    /\ work = "reporting" /\ there
    /\ \E s \in IF document.n + 1 = Reports THEN {"COMPLETED"} ELSE {"PROCESSING", "FAILED"} :
           /\ document' = [n |-> document.n + 1, status |-> s]
           /\ work' = IF s = "PROCESSING" THEN "between" ELSE "ended"
    /\ UNCHANGED <<there, phases, result, deletion, upload, cache, polls, troubles>>

(* phase_persistence: the result is inserted, insert_sync swallows errors, *)
(* and the row is COMPLETED before the last report.                        *)
InsertsResult ==
    /\ work = "between" /\ there
    /\ document.n = Reports - 1 /\ result = "none" /\ document.status = "PROCESSING"
    /\ \/ result' = "saved" /\ UNCHANGED troubles
       \/ troubles < MaxTroubles /\ result' = "lost" /\ troubles' = troubles + 1
    /\ UNCHANGED <<document, there, phases, work, deletion, upload, cache, polls>>

PublishesOutput ==
    /\ work = "between" /\ there
    /\ document.n = Reports - 1 /\ result # "none" /\ document.status = "PROCESSING"
    /\ document' = [document EXCEPT !.status = "COMPLETED"]
    /\ UNCHANGED <<there, phases, result, work, deletion, upload, cache, polls, troubles>>

(* Writes for a row that is gone change nothing.                           *)
RunsInVain ==
    /\ work # "ended" /\ ~there
    /\ work' = "ended"
    /\ UNCHANGED <<database, deletion, upload, cache, polls, troubles>>

-----------------------------------------------------------------------------
(* The other requests                                                      *)

(* DocumentRepository.delete: statuses and result first, then the row; the *)
(* last call may fail and leave a document without them.                   *)
RequestDelete ==
    /\ deletion = "no" /\ deletion' = "cleaning"
    /\ troubles < MaxTroubles /\ troubles' = troubles + 1
    /\ UNCHANGED <<database, work, upload, cache, polls>>

DeleteCleans ==
    /\ deletion = "cleaning" /\ deletion' = "cleaned"
    /\ phases' = 0 /\ result' = IF result = "saved" THEN "lost" ELSE result
    /\ UNCHANGED <<document, there, work, upload, cache, polls, troubles>>

DeleteRow ==
    /\ deletion = "cleaned" /\ deletion' = "ended"
    /\ \/ there' = FALSE /\ phases' = 0
       \/ UNCHANGED <<there, phases>>
    /\ UNCHANGED <<document, result, work, upload, cache, polls, troubles>>

Drop == entry' = Initial /\ age' = Gone

Store(row) == IF Ttl = 0 THEN Drop ELSE entry' = row /\ age' = 0

(* The upload stores its own payload after the dispatch, then answers.     *)
UploadCaches ==
    /\ upload = "dispatched" /\ upload' = "cached"
    /\ Store(Initial)
    /\ UNCHANGED <<database, work, deletion, polls, troubles>>

UploadAnswers ==
    /\ upload = "cached" /\ upload' = "answered"
    /\ watching' = [watching EXCEPT ![Uploader] = TRUE]
    /\ UNCHANGED <<database, work, deletion, cache, pc, draft, told, shown, troubles>>

(* Wrong: the answer is sent before the payload is stored.                 *)
UploadCachesLate ==
    /\ upload = "dispatched" /\ upload' = "cached"
    /\ watching' = [watching EXCEPT ![Uploader] = TRUE]
    /\ UNCHANGED <<database, work, deletion, cache, pc, draft, told, shown, troubles>>

UploadAnswersEarly ==
    /\ upload = "cached" /\ upload' = "answered"
    /\ Store(Initial)
    /\ UNCHANGED <<database, work, deletion, polls, troubles>>

UploadsReversed == UploadCachesLate \/ UploadAnswersEarly

Uploads == UploadCaches \/ UploadAnswers

Tick ==
    /\ age < Gone
    /\ age' = age + 1
    /\ entry' = IF age' = Gone THEN Initial ELSE entry
    /\ UNCHANGED <<database, work, deletion, upload, polls, troubles>>

-----------------------------------------------------------------------------
(* A poll                                                                  *)

Fresh == age < Ttl

(* What useUpload makes of an answer: a verdict ends the polling, any      *)
(* error leaves things as they are until the next poll.                    *)
Ends(t, kind) ==
    /\ pc' = [pc EXCEPT ![t] = "idle"]
    /\ draft' = [draft EXCEPT ![t] = NothingRead]
    /\ told' = [told EXCEPT ![t] = kind]

Answer(t, row) ==
    /\ Ends(t, "payload")
    /\ shown' = IF t = Uploader /\ watching[t] THEN row.n ELSE shown
    /\ watching' = [watching EXCEPT ![t] = @ /\ row.status \notin {"COMPLETED", "FAILED"}]

Error(t, kind) ==
    /\ Ends(t, kind)
    /\ UNCHANGED <<shown, watching>>

GoesOn(t, next) ==
    /\ pc' = [pc EXCEPT ![t] = next]
    /\ UNCHANGED <<told, shown, watching>>

others == <<database, work, deletion, upload, troubles>>

(* Wrong: a hit makes the entry fresh again.                               *)
AnswersCachedSliding(t) ==
    /\ watching[t] /\ pc[t] = "idle" /\ Fresh
    /\ Answer(t, entry)
    /\ Store(entry)
    /\ UNCHANGED others

AnswersCached(t) ==
    /\ watching[t] /\ pc[t] = "idle" /\ Fresh
    /\ Answer(t, entry)
    /\ UNCHANGED <<others, cache>>

Misses(t) ==
    /\ watching[t] /\ pc[t] = "idle" /\ ~Fresh
    /\ GoesOn(t, "document")
    /\ UNCHANGED <<others, cache, draft>>

ReadsDocument(t) ==
    /\ pc[t] = "document" /\ there
    /\ draft' = [draft EXCEPT ![t].row = document]
    /\ GoesOn(t, "phases")
    /\ UNCHANGED <<others, cache>>

(* For a missing row maybe_single() returns None, of which get takes the   *)
(* data: the exception becomes DatabaseUnavailableError.  The second read, *)
(* the stale answer and the 404 of get_status are never reached.           *)
MissesRow(t) ==
    /\ pc[t] = "document" /\ ~there
    /\ Error(t, "503")
    /\ UNCHANGED <<others, cache>>

ReadsPhases(t) ==
    /\ pc[t] = "phases"
    /\ draft' = [draft EXCEPT ![t].phases = phases]
    /\ GoesOn(t, IF draft[t].row.status \in ReadyForExport THEN "result" ELSE "fill")
    /\ UNCHANGED <<others, cache>>

ReadsResult(t) ==
    /\ pc[t] = "result"
    /\ draft' = [draft EXCEPT ![t].quality = result = "saved"]
    /\ GoesOn(t, "fill")
    /\ UNCHANGED <<others, cache>>

Fills(t) ==
    /\ pc[t] = "fill"
    /\ Store(draft[t].row)
    /\ Answer(t, draft[t].row)
    /\ UNCHANGED others

(* A database call raises: DatabaseUnavailableError, answered by a 503.    *)
ReadFails(t) ==
    /\ pc[t] \in {"document", "phases", "result"}
    /\ troubles < MaxTroubles /\ troubles' = troubles + 1
    /\ Error(t, "503")
    /\ UNCHANGED <<database, work, deletion, upload, cache>>

(* cancelUpload: nothing is sent, and an answer under way is ignored.      *)
Cancels(t) ==
    /\ watching[t]
    /\ watching' = [watching EXCEPT ![t] = FALSE]
    /\ troubles < MaxTroubles /\ troubles' = troubles + 1
    /\ UNCHANGED <<database, work, deletion, upload, cache, pc, draft, told, shown>>

-----------------------------------------------------------------------------
Pipeline == ReportsPhase \/ ReportsRow \/ InsertsResult \/ PublishesOutput \/ RunsInVain
Deletes  == DeleteCleans \/ DeleteRow

Poll(t) ==
    \/ AnswersCached(t) \/ Misses(t)
    \/ ReadsDocument(t) \/ MissesRow(t)
    \/ ReadsPhases(t) \/ ReadsResult(t) \/ Fills(t)

Next ==
    \/ Pipeline \/ RequestDelete \/ Deletes \/ Uploads \/ Tick
    \/ \E t \in Tabs : Poll(t) \/ ReadFails(t) \/ Cancels(t)
    \/ (\A t \in Tabs : ~watching[t] /\ pc[t] = "idle") /\ UNCHANGED vars

(* The polls of the uploading tab go on and time passes.  Nothing is asked *)
(* of the other tabs, whose polls may hang, or of those who delete, cancel *)
(* or fail; DocPipeline says when the pipeline arrives at a verdict.       *)
Fairness == WF_vars(Tick) /\ WF_vars(Poll(Uploader))

Spec == Init /\ [][Next]_vars /\ Fairness

-----------------------------------------------------------------------------
(* Properties                                                              *)

(* An answer is put together from three reads that the pipeline's writes   *)
(* fall between.  Because the pipeline writes phase before row and result  *)
(* before COMPLETED, and get_status reads in the opposite order, the list  *)
(* of phases is never behind the row, and a completed document is shown    *)
(* with its quality; unless the result was lost or a deletion had begun.   *)
PayloadConsistent ==
    \A t \in Tabs :
        pc[t] = "fill" /\ deletion \in {"no", "cleaning"} =>
            /\ draft[t].phases >= draft[t].row.n
            /\ draft[t].row.status = "COMPLETED" /\ result # "lost" => draft[t].quality

(* As long as no other tab asks, the one that uploaded the document never  *)
(* sees its progress go back, however fast the worker was.  (Another tab   *)
(* does: it may ask before the upload stores its own entry.)               *)
AloneNeverGoesBack ==
    [][(\A t \in Tabs \ {Uploader} : told'[t] = "nothing" /\ pc[t] = "idle")
           => shown <= shown']_vars

(* The tab that uploaded the document, if it goes on watching, is told the *)
(* verdict, although slow polls of other tabs and the upload itself store  *)
(* outdated answers over newer ones; or the document is gone.              *)
VerdictShown ==
    document.status \in {"COMPLETED", "FAILED"} /\ watching[Uploader] ~>
        ~watching[Uploader] \/ ~there

(* A tab that nobody cancels stops asking only when the row has the        *)
(* verdict it was told, however old the entry it was answered from.        *)
Verdict == {"COMPLETED", "FAILED"}

StopsOnVerdict ==
    [][\A t \in Tabs : watching[t] /\ ~watching'[t] /\ troubles' = troubles
                           => document.status \in Verdict]_vars

(* A deleted document is not shown for ever: polls under way and the       *)
(* upload may store what they read before, but after some time that tab,   *)
(* if it goes on polling, gets no other answer than the 503 of the missing *)
(* row.  (No answer tells it that the document is gone: it asks for ever.) *)
DeletionShown == ~there ~> [](watching[Uploader] => told[Uploader] = "503")
=============================================================================
