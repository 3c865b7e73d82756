---------------------------- MODULE DocPipeline ----------------------------
(***************************************************************************)
(* The life of a formatting job: the upload handler creates the row of the *)
(* document and dispatches the pipeline, as a FastAPI background task (a   *)
(* thread of the event loop's pool under a 15-minute asyncio.wait_for), as *)
(* a Celery task, or as both when apply_async raises after the message was *)
(* enqueued; the pipeline takes a permit of the process-wide semaphore,    *)
(* reports its phases into the row, writes the result and the output, and  *)
(* gives the permit back; a restarted web process fails the rows it finds  *)
(* PROCESSING.  The row of a document is shared by all of these writers.   *)
(*                                                                         *)
(* A step is one database write or one operation on the semaphore: the     *)
(* stages between two writes touch nothing another actor sees.             *)
(***************************************************************************)
EXTENDS Naturals, Sequences, FiniteSets

CONSTANTS
    Docs,             \* ids of documents that may be uploaded
    Templates,        \* journal templates a user may ask for
    DefaultTemplate,  \* run_pipeline's default, "IEEE"
    NoTemplate,       \* no output / no result yet
    MaxConcurrent,    \* _MAX_CONCURRENT_JOBS
    PoolSize,         \* threads of the event loop's default executor
    CeleryActive,     \* enhancement_manager.is_celery_queue_active()
    MaxExecs,         \* bound: executions dispatched in a behaviour
    MaxCrashes,       \* bound: crashes of the web process or of a worker
    MaxFaults         \* bound: database calls that fail

ASSUME ConstantsAssumption ==
    /\ IsFiniteSet(Docs)
    /\ DefaultTemplate \in Templates
    /\ NoTemplate \notin Templates
    /\ MaxConcurrent \in Nat \ {0}
    /\ PoolSize \in Nat \ {0}
    /\ CeleryActive \in BOOLEAN
    /\ MaxExecs \in Nat /\ MaxCrashes \in Nat /\ MaxFaults \in Nat

Modes == {"background", "celery"}

(* An execution of run_pipeline: the background task or the Celery task of *)
(* a document.                                                             *)
Exec == Docs \X Modes
Doc(e) == e[1]
InWeb(e) == e[2] = "background"

(* The calls of _update_status that _run_pipeline_internal makes in order; *)
(* "raises" when the code between the previous report and this one may     *)
(* raise past the handlers of the stages.                                  *)
Reports == <<
    [phase |-> "UPLOAD",       status |-> "COMPLETED",  raises |-> FALSE],
    [phase |-> "EXTRACTION",   status |-> "PROCESSING", raises |-> TRUE],
    [phase |-> "EXTRACTION",   status |-> "COMPLETED",  raises |-> TRUE],
    [phase |-> "EXTRACTION",   status |-> "PROCESSING", raises |-> FALSE],
    [phase |-> "EXTRACTION",   status |-> "PROCESSING", raises |-> TRUE],
    [phase |-> "NLP_ANALYSIS", status |-> "PROCESSING", raises |-> FALSE],
    [phase |-> "NLP_ANALYSIS", status |-> "COMPLETED",  raises |-> TRUE],
    [phase |-> "VALIDATION",   status |-> "PROCESSING", raises |-> FALSE],
    [phase |-> "VALIDATION",   status |-> "PROCESSING", raises |-> FALSE],
    [phase |-> "PERSISTENCE",  status |-> "PROCESSING", raises |-> TRUE],
    [phase |-> "PERSISTENCE",  status |-> "COMPLETED",  raises |-> TRUE] >>

Last == Len(Reports)

(* Wrong: a phase other than the last one completes the document.          *)
RowStatusAnyPhase(r) == r.status

(* What a report makes of the status of the row.                           *)
RowStatus(r) ==
    CASE r.status = "FAILED"                                -> "FAILED"
      [] r.status = "COMPLETED" /\ r.phase = "PERSISTENCE" -> "COMPLETED"
      [] OTHER                                              -> "PROCESSING"

BusyReport == [phase |-> "SYSTEM", status |-> "FAILED", raises |-> FALSE]

VARIABLES
    docs,       \* documents: [status, template, output] of every id
    results,    \* document_results: the template of the stored result
    handler,    \* the upload request of a document
    pc,         \* where an execution is
    at,         \* how many reports it has made
    outcome,    \* what its run_pipeline returned (response["status"])
    watch,      \* its asyncio.wait_for and the mark_failed task it creates
    permits,    \* _pipeline_semaphore of the web process
    web,        \* the web process
    reset,      \* its _reset_interrupted_jobs_on_startup
    toFail,     \* the ids that reset has selected
    lostWrite,  \* history: documents one of whose database calls failed
    crashes, faults

db   == <<docs, results, lostWrite, faults>>
run  == <<pc, at, outcome>>
boot == <<web, reset, toFail>>
vars == <<db, handler, run, watch, permits, boot, crashes>>

(* pc of an execution that occupies a thread of the pool, resp. that is    *)
(* between acquire and release of the semaphore.                           *)
Holding   == {"running", "inserting", "publishing", "finishing", "closing"}
OnThread  == Holding \cup {"waiting", "rejected"}
Over      == {"idle", "done", "lost"}

Holders == {e \in Exec : InWeb(e) /\ pc[e] \in Holding}
Busy    == {e \in Exec : InWeb(e) /\ pc[e] \in OnThread}

Live(e) == pc[e] \notin Over

(* Executions dispatched or about to be, for the bound MaxExecs.           *)
Admitted == Cardinality({e \in Exec : pc[e] # "idle"})
          + Cardinality({d \in Docs : handler[d] = "created"})

(* The background task passes the template of the upload on; the message   *)
(* to Celery holds the id only, and the task calls run_pipeline without a  *)
(* template.                                                               *)
AppliedTemplate(e) == IF InWeb(e) THEN docs[Doc(e)].template ELSE DefaultTemplate

Row == [status   : {"absent", "PROCESSING", "COMPLETED", "FAILED"},
        template : Templates,
        output   : Templates \cup {NoTemplate}]

Labels == Over \cup OnThread \cup {"queued", "returned", "wrapping", "marking"}

TypeOK ==
    /\ docs \in [Docs -> Row]
    /\ results \in [Docs -> Templates \cup {NoTemplate}]
    /\ handler \in [Docs -> {"none", "created", "answered", "lost"}]
    /\ pc \in [Exec -> Labels]
    /\ at \in [Exec -> 0 .. Last]
    /\ outcome \in [Exec -> {"none", "processing", "success", "failed"}]
    /\ watch \in [Exec -> {"off", "armed", "fired", "over"}]
    /\ permits \in 0 .. MaxConcurrent
    /\ web \in {"up", "down", "starting"}
    /\ reset \in {"off", "select", "update"}
    /\ toFail \in SUBSET Docs
    /\ lostWrite \in SUBSET Docs
    /\ crashes \in Nat
    /\ faults \in Nat

Init ==
    /\ docs = [d \in Docs |-> [status |-> "absent", template |-> DefaultTemplate,
                               output |-> NoTemplate]]
    /\ results = [d \in Docs |-> NoTemplate]
    /\ handler = [d \in Docs |-> "none"]
    /\ pc = [e \in Exec |-> "idle"]
    /\ at = [e \in Exec |-> 0]
    /\ outcome = [e \in Exec |-> "none"]
    /\ watch = [e \in Exec |-> "off"]
    /\ permits = MaxConcurrent
    /\ web = "up" /\ reset = "off" /\ toFail = {}
    /\ lostWrite = {} /\ crashes = 0 /\ faults = 0

-----------------------------------------------------------------------------
(* Database calls on the row of d.  Every write, and the fetch of the      *)
(* Celery task, may fail; each caller says what it does then.              *)

SetRow(d, status) ==
    /\ docs' = [docs EXCEPT ![d].status = status]
    /\ UNCHANGED <<results, lostWrite, faults>>

WriteFails(d) ==
    /\ faults < MaxFaults
    /\ faults' = faults + 1
    /\ lostWrite' = lostWrite \cup {d}
    /\ UNCHANGED <<docs, results>>

(* A write whose failure the code swallows: update_sync, mark_failed, the  *)
(* catch-all of _update_status.                                            *)
TrySetRow(d, status) == SetRow(d, status) \/ WriteFails(d)

Goto(e, label) == pc' = [pc EXCEPT ![e] = label]

-----------------------------------------------------------------------------
(* The upload request.                                                     *)

(* upload_document: the row is created, status PROCESSING, through a       *)
(* thread of the pool.  An insert that fails ends the request with an      *)
(* error and leaves nothing.                                               *)
CreateDocument(d, t) ==
    /\ web = "up"
    /\ docs[d].status = "absent"
    /\ Cardinality(Busy) < PoolSize
    /\ Admitted < MaxExecs
    /\ docs' = [docs EXCEPT ![d] = [status |-> "PROCESSING", template |-> t,
                                    output |-> NoTemplate]]
    /\ handler' = [handler EXCEPT ![d] = "created"]
    /\ UNCHANGED <<results, lostWrite, faults, run, watch, permits, boot, crashes>>

(* dispatch_document_pipeline: Celery when its queue is active, the        *)
(* background task when it is not or when apply_async raised, before or    *)
(* after the broker took the message.                                      *)
DispatchSets ==
    IF CeleryActive THEN {{"celery"}, {"background"}, {"celery", "background"}}
                    ELSE {{"background"}}

Dispatch(d, modes) ==
    /\ web = "up"
    /\ handler[d] = "created"
    /\ Admitted - 1 + Cardinality(modes) <= MaxExecs
    /\ handler' = [handler EXCEPT ![d] = "answered"]
    /\ pc' = [e \in Exec |-> IF e \in {d} \X modes THEN "queued" ELSE pc[e]]
    /\ watch' = [e \in Exec |-> IF e \in {d} \X modes /\ InWeb(e)
                                THEN "armed" ELSE watch[e]]
    /\ UNCHANGED <<db, at, outcome, permits, boot, crashes>>

-----------------------------------------------------------------------------
(* run_pipeline, on a pool thread of the web process or in a Celery worker *)

(* asyncio.to_thread: the default executor has a free thread.              *)
StartThread(e) ==
    /\ InWeb(e)
    /\ pc[e] = "queued"
    /\ watch[e] = "armed"
    /\ Cardinality(Busy) < PoolSize
    /\ Goto(e, "waiting")
    /\ UNCHANGED <<db, handler, at, outcome, watch, permits, boot, crashes>>

(* process_document_task: a worker takes the message, fetches the row and  *)
(* marks it PROCESSING.  When the fetch fails the message is acknowledged  *)
(* and nothing is written; when the update raises it marks the row failed. *)
StartTask(e) ==
    /\ ~InWeb(e)
    /\ pc[e] = "queued"
    /\ \/ SetRow(Doc(e), "PROCESSING") /\ Goto(e, "waiting")
       \/ WriteFails(Doc(e)) /\ Goto(e, "done")
       \/ WriteFails(Doc(e)) /\ Goto(e, "marking")
    /\ UNCHANGED <<handler, at, outcome, watch, permits, boot, crashes>>

(* _pipeline_semaphore.acquire.  A Celery worker is a process of its own   *)
(* that runs one task at a time: its semaphore is always free.             *)
Acquire(e) ==
    /\ pc[e] = "waiting"
    /\ IF InWeb(e) THEN permits > 0 /\ permits' = permits - 1
                   ELSE UNCHANGED permits
    /\ Goto(e, "running")
    /\ UNCHANGED <<db, handler, at, outcome, watch, boot, crashes>>

(* Wrong: the value that acquire returned is ignored.                      *)
AcquireResultIgnored(e) ==
    /\ InWeb(e) /\ pc[e] = "waiting" /\ permits = 0
    /\ Goto(e, "running")
    /\ UNCHANGED <<db, handler, at, outcome, watch, permits, boot, crashes>>

(* The acquire times out; no permit was taken.                             *)
AcquireTimesOut(e) ==
    /\ InWeb(e)
    /\ pc[e] = "waiting"
    /\ permits = 0
    /\ outcome' = [outcome EXCEPT ![e] = "failed"]
    /\ Goto(e, "rejected")
    /\ UNCHANGED <<db, handler, at, watch, permits, boot, crashes>>

(* Wrong: the rejection passes through the finally and releases.           *)
RejectBusyReleasing(e) ==
    /\ pc[e] = "rejected"
    /\ TrySetRow(Doc(e), RowStatus(BusyReport))
    /\ permits' = permits + 1
    /\ Goto(e, "returned")
    /\ UNCHANGED <<handler, at, outcome, watch, boot, crashes>>

(* Wrong: the rejection is returned but not written.                       *)
RejectBusySilently(e) ==
    /\ pc[e] = "rejected"
    /\ Goto(e, "returned")
    /\ UNCHANGED <<db, handler, at, outcome, watch, permits, boot, crashes>>

(* "Server is busy.": returns without releasing.                           *)
RejectBusy(e) ==
    /\ pc[e] = "rejected"
    /\ TrySetRow(Doc(e), RowStatus(BusyReport))
    /\ Goto(e, "returned")
    /\ UNCHANGED <<handler, at, outcome, watch, permits, boot, crashes>>

(* A phase ends and the next report is written.                            *)
Report(e) ==
    /\ pc[e] = "running"
    /\ at[e] < Last - 1
    /\ TrySetRow(Doc(e), RowStatus(Reports[at[e] + 1]))
    /\ at' = [at EXCEPT ![e] = @ + 1]
    /\ UNCHANGED <<handler, pc, outcome, watch, permits, boot, crashes>>

(* A stage raises: safe_execution swallows it, the pipeline skips every    *)
(* remaining phase and the response is still "processing".                 *)
StageRaises(e) ==
    /\ pc[e] = "running"
    /\ Reports[at[e] + 1].raises
    /\ outcome' = [outcome EXCEPT ![e] = "processing"]
    /\ Goto(e, "closing")
    /\ UNCHANGED <<db, handler, at, watch, permits, boot, crashes>>

(* phase_export finds no generated_doc: it fails the row, then raises.     *)
NoArtifact(e) ==
    /\ pc[e] = "running"
    /\ Reports[at[e] + 1].phase = "PERSISTENCE" /\ at[e] < Last - 1
    /\ TrySetRow(Doc(e), "FAILED")
    /\ outcome' = [outcome EXCEPT ![e] = "processing"]
    /\ Goto(e, "closing")
    /\ UNCHANGED <<handler, at, watch, permits, boot, crashes>>

ExplainResults(e) ==
    /\ pc[e] = "running"
    /\ at[e] = Last - 1
    /\ Goto(e, "inserting")
    /\ UNCHANGED <<db, handler, at, outcome, watch, permits, boot, crashes>>

(* insert_sync of the result: document_id is UNIQUE, so the insert of a    *)
(* second run fails, and insert_sync swallows every failure.               *)
InsertResult(e) ==
    /\ pc[e] = "inserting"
    /\ LET d == Doc(e) IN
       \/ /\ results' = [results EXCEPT ![d] = IF @ = NoTemplate THEN AppliedTemplate(e)
                                                                 ELSE @]
          /\ UNCHANGED <<docs, lostWrite, faults>>
       \/ results[d] = NoTemplate /\ WriteFails(d)
    /\ Goto(e, "publishing")
    /\ UNCHANGED <<handler, at, outcome, watch, permits, boot, crashes>>

(* update_sync of status and output_path.                                  *)
PublishOutput(e) ==
    /\ pc[e] = "publishing"
    /\ LET d == Doc(e) IN
       \/ /\ docs' = [docs EXCEPT ![d] = [status   |-> "COMPLETED",
                                         template |-> docs[d].template,
                                         output   |-> AppliedTemplate(e)]]
          /\ UNCHANGED <<results, lostWrite, faults>>
       \/ WriteFails(d)
    /\ Goto(e, "finishing")
    /\ UNCHANGED <<handler, at, outcome, watch, permits, boot, crashes>>

ReportCompleted(e) ==
    /\ pc[e] = "finishing"
    /\ TrySetRow(Doc(e), RowStatus(Reports[Last]))
    /\ at' = [at EXCEPT ![e] = Last]
    /\ outcome' = [outcome EXCEPT ![e] = "success"]
    /\ Goto(e, "closing")
    /\ UNCHANGED <<handler, watch, permits, boot, crashes>>

(* The finally of run_pipeline.                                            *)
Release(e) ==
    /\ pc[e] = "closing"
    /\ IF InWeb(e) THEN permits' = permits + 1 ELSE UNCHANGED permits
    /\ Goto(e, IF InWeb(e) THEN "returned" ELSE "wrapping")
    /\ UNCHANGED <<db, handler, at, outcome, watch, boot, crashes>>

(* The rest of process_document_task: COMPLETED, whatever run_pipeline     *)
(* returned, and mark_failed when that update raises.                      *)
WrapUpTask(e) ==
    /\ pc[e] = "wrapping"
    /\ \/ SetRow(Doc(e), "COMPLETED") /\ Goto(e, "done")
       \/ WriteFails(Doc(e)) /\ Goto(e, "marking")
    /\ UNCHANGED <<handler, at, outcome, watch, permits, boot, crashes>>

MarkTaskFailed(e) ==
    /\ pc[e] = "marking"
    /\ TrySetRow(Doc(e), "FAILED")
    /\ Goto(e, "done")
    /\ UNCHANGED <<handler, at, outcome, watch, permits, boot, crashes>>

-----------------------------------------------------------------------------
(* run_pipeline_with_timeout, on the event loop                            *)

(* Wrong: the timeout gives back the permit of the thread it abandons.     *)
TimesOutReleasing(e) ==
    /\ watch[e] = "armed" /\ Live(e)
    /\ watch' = [watch EXCEPT ![e] = "fired"]
    /\ pc' = [pc EXCEPT ![e] = IF @ = "queued" THEN "done" ELSE @]
    /\ permits' = IF pc[e] \in Holding THEN permits + 1 ELSE permits
    /\ UNCHANGED <<db, handler, at, outcome, boot, crashes>>

(* Wrong: a call cancelled in the queue of the pool is not marked failed.  *)
TimesOutUnmarked(e) ==
    /\ watch[e] = "armed" /\ Live(e)
    /\ watch' = [watch EXCEPT ![e] = IF pc[e] = "queued" THEN "over" ELSE "fired"]
    /\ pc' = [pc EXCEPT ![e] = IF @ = "queued" THEN "done" ELSE @]
    /\ UNCHANGED <<db, handler, at, outcome, permits, boot, crashes>>

(* The 900 s are over.  wait_for cancels the future: that keeps a call     *)
(* still queued from running, and does nothing to one on a thread.         *)
TimesOut(e) ==
    /\ watch[e] = "armed"
    /\ Live(e)
    /\ watch' = [watch EXCEPT ![e] = "fired"]
    /\ pc' = [pc EXCEPT ![e] = IF @ = "queued" THEN "done" ELSE @]
    /\ UNCHANGED <<db, handler, at, outcome, permits, boot, crashes>>

(* The task of _mark_job_as_failed writes, through a thread of the pool.   *)
MarkJobFailed(e) ==
    /\ watch[e] = "fired"
    /\ Cardinality(Busy) < PoolSize
    /\ TrySetRow(Doc(e), "FAILED")
    /\ watch' = [watch EXCEPT ![e] = "over"]
    /\ UNCHANGED <<handler, run, permits, boot, crashes>>

(* The loop learns that the thread has returned.                           *)
Joined(e) ==
    /\ pc[e] = "returned"
    /\ Goto(e, "done")
    /\ watch' = [watch EXCEPT ![e] = IF @ = "armed" THEN "off" ELSE @]
    /\ UNCHANGED <<db, handler, at, outcome, permits, boot, crashes>>

-----------------------------------------------------------------------------
(* Crashes and the startup reset                                           *)

(* The web process dies with its threads, its semaphore and its requests.  *)
WebCrashes ==
    /\ web # "down"
    /\ crashes < MaxCrashes
    /\ crashes' = crashes + 1
    /\ web' = "down" /\ reset' = "off" /\ toFail' = {}
    /\ pc' = [e \in Exec |-> IF InWeb(e) /\ Live(e) THEN "lost" ELSE pc[e]]
    /\ watch' = [e \in Exec |-> "off"]
    /\ handler' = [d \in Docs |-> IF handler[d] = "created" THEN "lost" ELSE handler[d]]
    /\ permits' = MaxConcurrent
    /\ UNCHANGED <<db, at, outcome>>

(* acks_late and reject_on_worker_lost: the message of a worker that died  *)
(* is delivered again.                                                     *)
WorkerCrashes(e) ==
    /\ ~InWeb(e)
    /\ Live(e) /\ pc[e] # "queued"
    /\ crashes < MaxCrashes
    /\ crashes' = crashes + 1
    /\ Goto(e, "queued")
    /\ at' = [at EXCEPT ![e] = 0]
    /\ outcome' = [outcome EXCEPT ![e] = "none"]
    /\ UNCHANGED <<db, handler, watch, permits, boot>>

Startup ==
    /\ web = "down"
    /\ web' = "starting" /\ reset' = "select"
    /\ UNCHANGED <<db, handler, run, watch, permits, toFail, crashes>>

(* The two queries of _reset_interrupted_jobs_on_startup: the ids that are *)
(* PROCESSING, then an update of those ids whatever they have become.      *)
ResetSelect ==
    /\ reset = "select"
    /\ toFail' = {d \in Docs : docs[d].status = "PROCESSING"}
    /\ reset' = IF toFail' = {} THEN "off" ELSE "update"
    /\ UNCHANGED <<db, handler, run, watch, permits, web, crashes>>

(* Wrong: the update has no filter on the selected ids.                    *)
ResetUpdateUnfiltered ==
    /\ reset = "update"
    /\ docs' = [d \in Docs |-> [docs[d] EXCEPT !.status = IF @ = "absent" THEN @ ELSE "FAILED"]]
    /\ toFail' = {} /\ reset' = "off"
    /\ UNCHANGED <<results, lostWrite, faults, handler, run, watch, permits, web, crashes>>

ResetUpdate ==
    /\ reset = "update"
    /\ docs' = [d \in Docs |-> [docs[d] EXCEPT !.status = IF d \in toFail THEN "FAILED" ELSE @]]
    /\ toFail' = {} /\ reset' = "off"
    /\ UNCHANGED <<results, lostWrite, faults, handler, run, watch, permits, web, crashes>>

(* Either query raises: the reset is given up.                             *)
ResetFails ==
    /\ reset # "off"
    /\ faults < MaxFaults
    /\ faults' = faults + 1
    /\ lostWrite' = lostWrite \cup {d \in Docs : docs[d].status = "PROCESSING"}
    /\ toFail' = {} /\ reset' = "off"
    /\ UNCHANGED <<docs, results, handler, run, watch, permits, web, crashes>>

(* The service opens when the reset is over or has taken 8 s: the thread   *)
(* that runs it then goes on beside the requests.                          *)
Serve ==
    /\ web = "starting"
    /\ web' = "up"
    /\ UNCHANGED <<db, handler, run, watch, permits, reset, toFail, crashes>>

-----------------------------------------------------------------------------
(* Nothing is in flight: the service waits for requests the bounds do not  *)
(* let in.                                                                 *)
Idle ==
    /\ web = "up" /\ reset = "off"
    /\ \A e \in Exec : ~Live(e) /\ watch[e] # "fired"
    /\ UNCHANGED vars

Pipeline(e) ==
    \/ StartThread(e) \/ StartTask(e)
    \/ Acquire(e) \/ AcquireTimesOut(e) \/ RejectBusy(e)
    \/ Report(e) \/ StageRaises(e) \/ NoArtifact(e)
    \/ ExplainResults(e) \/ InsertResult(e) \/ PublishOutput(e) \/ ReportCompleted(e)
    \/ Release(e) \/ WrapUpTask(e) \/ MarkTaskFailed(e)

Loop(e) == TimesOut(e) \/ MarkJobFailed(e) \/ Joined(e)

Restart == Startup \/ ResetSelect \/ ResetUpdate \/ ResetFails \/ Serve

Next ==
    \/ \E d \in Docs, t \in Templates : CreateDocument(d, t)
    \/ \E d \in Docs : \E modes \in DispatchSets : Dispatch(d, modes)
    \/ \E e \in Exec : Pipeline(e) \/ Loop(e) \/ WorkerCrashes(e)
    \/ WebCrashes
    \/ Restart
    \/ Idle

(* Threads, workers and the event loop keep running: a stage ends (every   *)
(* external call has a timeout), a task created on the loop is run, a dead *)
(* process is started again.  Nothing makes a timer fire or a write fail.  *)
Fairness ==
    /\ \A e \in Exec : WF_vars(Pipeline(e)) /\ WF_vars(MarkJobFailed(e)) /\ WF_vars(Joined(e))
    /\ \A d \in Docs : WF_vars(\E modes \in DispatchSets : Dispatch(d, modes))
    /\ WF_vars(Startup) /\ WF_vars(Serve)
    /\ WF_vars(ResetSelect \/ ResetUpdate \/ ResetFails)

Spec == Init /\ [][Next]_vars
FairSpec == Spec /\ Fairness

-----------------------------------------------------------------------------
(* Properties                                                              *)

(* No permit of the semaphore is lost or given back twice, whatever path   *)
(* run_pipeline takes: rejection, swallowed crash, success, a timeout that *)
(* leaves the thread running, a restart of the process.                    *)
PermitsConserved == permits + Cardinality(Holders) = MaxConcurrent

(* Somebody will still write the row of d.                                 *)
Attended(d) ==
    \/ handler[d] = "created"
    \/ \E m \in Modes : Live(<<d, m>>) \/ watch[<<d, m>>] = "fired"

(* A crash of a phase of d was swallowed, or a write of its row was lost.  *)
Excused(d) ==
    \/ \E m \in Modes : outcome[<<d, m>>] = "processing"
    \/ d \in lostWrite

(* While the service is up and its startup reset is over, a row that says  *)
(* PROCESSING has someone working on it: requests, threads and timers that *)
(* a dead process took along leave no such row behind.                     *)
NoOrphan ==
    web = "up" /\ reset = "off" =>
        \A d \in Docs : docs[d].status = "PROCESSING" => Attended(d) \/ Excused(d)

(* A document the background task alone has worked on is shown COMPLETED   *)
(* only when its result and its output are there, both made with the       *)
(* template the user asked for: get_status and get_preview fetch them as   *)
(* soon as they see COMPLETED.                                             *)
CompletedIsComplete ==
    \A d \in Docs :
        docs[d].status = "COMPLETED" /\ pc[<<d, "celery">>] = "idle" /\ d \notin lostWrite =>
            results[d] = docs[d].template /\ docs[d].output = docs[d].template

(* A COMPLETED document that one execution has worked on turns FAILED only *)
(* by a timeout that fired before the loop had seen the thread return, or  *)
(* by a startup reset that selected it while it was still PROCESSING.      *)
CompletedIsKept ==
    [][\A d \in Docs :
         /\ docs[d].status = "COMPLETED" /\ docs'[d].status = "FAILED"
         /\ d \notin lostWrite
         /\ Cardinality({m \in Modes : pc[<<d, m>>] # "idle"}) = 1
         => watch[<<d, "background">>] = "fired" \/ d \in toFail]_vars

(* What the documentation says and the code does not do.                   *)

(* A run whose phase crashed leaves its document FAILED.                   *)
CrashedRunFails ==
    \A e \in Exec : pc[e] = "done" /\ outcome[e] = "processing" =>
        docs[Doc(e)].status = "FAILED"

(* The output is styled according to the template the user selected.       *)
OutputHasSelectedTemplate ==
    \A d \in Docs : docs[d].output \in {NoTemplate, docs[d].template}

(* Every document that was accepted gets a verdict that lasts.             *)
EventualVerdict ==
    \A d \in Docs : <>[](docs[d].status # "PROCESSING" \/ Excused(d))

(* The semaphore implements JobSlots: bounded, and every slot comes back.  *)
Slots == INSTANCE JobSlots WITH Jobs <- Exec, Limit <- MaxConcurrent, held <- Holders
ImplementsSlots == Slots!Spec
=============================================================================
