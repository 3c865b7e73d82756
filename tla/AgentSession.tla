---------------------------- MODULE AgentSession ----------------------------
(***************************************************************************)
(* One session of the writing agent.  Its row in generator_sessions is     *)
(* written by the executions of AgentPipeline (run up to the outline,      *)
(* resume after an approval, rewrite_section after completion), by the     *)
(* stop request, and by nobody else; no writer compares the status it      *)
(* overwrites.  Executions look for a cancellation at a few points, through*)
(* the read-through cache of their GeneratorSessionService: the one of the *)
(* web process when they are background tasks, one of their own when they  *)
(* are Celery tasks.                                                       *)
(*                                                                         *)
(* A step is one database call or one operation on a cache, the points     *)
(* between which the event loop may run anything else.                     *)
(***************************************************************************)
EXTENDS Naturals, Sequences, FiniteSets, FiniteSetsExt

CONSTANTS
    Run,          \* the execution of AgentPipeline.run
    Resumes,      \* executions of resume, one for each approval
    Rewrites,     \* executions of rewrite_section, one for each request
    Web,          \* the service (and cache) of the web process
    NSections,    \* sections of the outline, the references not counted
    QueueModes,   \* what enhancement_manager.should_queue_job may answer
    MaxLive,      \* bound: executions under way at a time
    MaxStops,     \* bound: stop requests
    MaxPolls,     \* bound: polls that fetch the row, by the answer
    MaxFaults     \* bound: exceptions and crashes of a worker

ASSUME SessionAssumption ==
    /\ Run \notin Resumes \cup Rewrites /\ Resumes \cap Rewrites = {}
    /\ Web \notin {Run} \cup Resumes \cup Rewrites
    /\ NSections \in Nat \ {0}
    /\ QueueModes \subseteq BOOLEAN
    /\ MaxPolls \in [BOOLEAN -> Nat]
    /\ MaxLive \in Nat /\ MaxStops \in Nat /\ MaxFaults \in Nat

Exec == {Run} \cup Resumes \cup Rewrites

(* The calls on the session service that an execution makes, in order:     *)
(* read and check are get_session, turn is add_message, draft and render   *)
(* are save_document_version without and with a DOCX, restore and the name *)
(* of a status are update_session; boost and floor start an optional part. *)
RunScript == <<"read", "processing", "turn", "check", "processing", "processing",
               "processing", "check", "turn", "processing", "awaiting_approval">>

(* n times the body of a loop.                                             *)
Repeat(body, n) == [i \in 1 .. n * Len(body) |-> body[((i - 1) % Len(body)) + 1]]

(* resume: the loop over the sections, then citations and rendering.       *)
Writing ==
    <<"read", "processing">>
    \o Repeat(<<"check", "turn", "draft", "processing">>, NSections)
    \o <<"processing", "processing">>

(* _boost_quality, optional, over at most three sections; its second save  *)
(* is optional too.                                                        *)
QualityPass ==
    <<"boost">> \o Repeat(<<"boostcheck", "turn">>, Min({NSections, 3}))
    \o <<"render", "floor", "processing">>

(* Wrong: the last update is missing.                                      *)
ResumeScriptUnfinished == Writing \o <<"render", "processing">> \o QualityPass

(* Wrong: the rendered document is not saved before the quality pass.      *)
ResumeScriptUnrendered == Writing \o <<"processing">> \o QualityPass \o <<"completed">>

ResumeScript == Writing \o <<"render", "processing">> \o QualityPass \o <<"completed">>

(* Wrong: the status is written back without having been read.             *)
RewriteScriptUnread == <<"turn", "render", "restore">>

RewriteScript == <<"read", "turn", "render", "restore">>

Script(e) == CASE e = Run          -> RunScript
               [] e \in Resumes    -> ResumeScript
               [] e \in Rewrites   -> RewriteScript

Statuses == {"pending", "processing", "awaiting_approval", "completed", "canceled"}

VARIABLES
    queued,      \* the executions are Celery tasks (the answer never changes)
    status,      \* generator_sessions.status, "absent" before the session
    versions,    \* generator_documents: [number, rendered] in insertion order
    cache,       \* _session_cache of each service: a status or "miss"
    at,          \* the call an execution is about to make; 0 not dispatched
    phase,       \* how far it is inside that call
    got,         \* status it has read last
    number,      \* version_number it is about to insert
    poll,        \* status fetched by a GET of the session, not yet cached
    stopping,    \* a stop request that has yet to invalidate the cache
    stops, polls, faults,
    raised,      \* history: an execution ended with an exception
    overlapped,  \* history: two executions were dispatched at a time
    stale        \* history: a value older than the row went into a cache

exec    == <<at, phase, got, number>>
request == <<poll, polls, stopping, stops>>
history == <<raised, overlapped, stale>>
vars    == <<queued, status, versions, cache, exec, request, faults, history>>

Services == {Web} \cup Exec
Service(e) == IF queued THEN e ELSE Web

Done(e) == Len(Script(e)) + 2
Live(e) == at[e] \in 1 .. Len(Script(e)) + 1
Call(e, calls) == at[e] \in 1 .. Len(Script(e)) /\ Script(e)[at[e]] \in calls
Quiet   == \A e \in Exec : ~Live(e)

Latest == Max({versions[i].number : i \in DOMAIN versions} \cup {0})

TypeOK ==
    /\ queued \in QueueModes
    /\ status \in Statuses \cup {"absent"}
    /\ \A i \in DOMAIN versions : versions[i].number \in Nat /\ versions[i].rendered \in BOOLEAN
    /\ cache \in [Services -> Statuses \cup {"miss"}]
    /\ \A e \in Exec : at[e] \in 0 .. Done(e)
    /\ phase \in [Exec -> {"ready", "fetched", "numbered", "written"}]
    /\ got \in [Exec -> Statuses \cup {"miss"}]
    /\ number \in [Exec -> Nat]
    /\ poll \in Statuses \cup {"none"}
    /\ stopping \in BOOLEAN
    /\ stops \in 0 .. MaxStops /\ polls \in 0 .. MaxPolls[queued] /\ faults \in 0 .. MaxFaults
    /\ raised \in BOOLEAN
    /\ overlapped \in BOOLEAN /\ stale \in BOOLEAN

Init ==
    /\ queued \in QueueModes
    /\ status = "absent" /\ versions = << >>
    /\ cache = [s \in Services |-> "miss"]
    /\ at = [e \in Exec |-> 0]
    /\ phase = [e \in Exec |-> "ready"]
    /\ got = [e \in Exec |-> "miss"]
    /\ number = [e \in Exec |-> 0]
    /\ poll = "none" /\ stopping = FALSE
    /\ stops = 0 /\ polls = 0 /\ faults = 0
    /\ raised = FALSE /\ overlapped = FALSE /\ stale = FALSE

-----------------------------------------------------------------------------
(* The requests                                                            *)

(* _dispatch_agent_task, after an add_message, which invalidates.          *)
DispatchAgentTask(e) ==
    /\ at[e] = 0
    /\ Cardinality({x \in Exec : Live(x)}) < MaxLive
    /\ at' = [at EXCEPT ![e] = 1]
    /\ overlapped' = (overlapped \/ ~Quiet)
    /\ cache' = [cache EXCEPT ![Web] = "miss"]
    /\ UNCHANGED <<versions, phase, got, number, request, faults, raised, stale>>

StartGeneration ==
    /\ status = "absent"
    /\ status' = "pending"
    /\ DispatchAgentTask(Run)

(* approve_outline asks for no particular status.                          *)
ApproveOutline(e) ==
    /\ e \in Resumes
    /\ status # "absent"
    /\ DispatchAgentTask(e)
    /\ UNCHANGED status

(* generation_messages: a rewrite is dispatched when the session it read,  *)
(* perhaps from the cache, is completed.                                   *)
RequestRewrite(e) ==
    /\ e \in Rewrites
    /\ status # "absent"
    /\ "completed" = IF cache[Web] # "miss" THEN cache[Web] ELSE status
    /\ DispatchAgentTask(e)
    /\ UNCHANGED status

(* stop_session                                                            *)
StopWrites ==
    /\ status # "absent" /\ stops < MaxStops /\ ~stopping
    /\ status' = "canceled"
    /\ stops' = stops + 1
    /\ stopping' = TRUE
    /\ UNCHANGED <<versions, cache, exec, poll, polls, faults, history>>

StopInvalidates ==
    /\ stopping
    /\ stopping' = FALSE
    /\ cache' = [cache EXCEPT ![Web] = "miss"]
    /\ UNCHANGED <<status, versions, exec, poll, polls, stops, faults, history>>

(* get_generation_status polls the session: the row is fetched on a thread *)
(* and cached when the coroutine goes on.                                  *)
PollFetches ==
    /\ status # "absent" /\ poll = "none" /\ cache[Web] = "miss"
    /\ polls < MaxPolls[queued]
    /\ polls' = polls + 1
    /\ poll' = status
    /\ UNCHANGED <<status, versions, cache, exec, stopping, stops, faults, history>>

PollCaches ==
    /\ poll # "none"
    /\ cache' = [cache EXCEPT ![Web] = poll]
    /\ poll' = "none"
    /\ stale' = (stale \/ poll # status)
    /\ UNCHANGED <<status, versions, exec, polls, stopping, stops, faults, raised, overlapped>>

(* GENERATOR_SESSION_CACHE_TTL_SECONDS are over.                           *)
Expires(s) ==
    /\ cache[s] # "miss"
    /\ cache' = [cache EXCEPT ![s] = "miss"]
    /\ UNCHANGED <<status, versions, exec, request, faults, history>>

-----------------------------------------------------------------------------
(* The executions                                                          *)

Advance(e) == at' = [at EXCEPT ![e] = @ + 1]

(* The locals of an execution and, when it is a Celery task, its service.  *)
Forgets(e) ==
    /\ got' = [got EXCEPT ![e] = "miss"]
    /\ cache' = IF queued THEN [cache EXCEPT ![e] = "miss"] ELSE cache

(* What get_session returned to e, whose status only rewrite_section keeps *)
(* (the others use the texts of the session).  A check that finds it    *)
(* canceled ends the execution, the one of _boost_quality by an exception: *)
(* its bare return is unpacked into four names.                            *)
Learn(e, s) ==
    LET found == Call(e, {"check", "boostcheck"}) /\ s = "canceled" IN
    /\ got' = [got EXCEPT ![e] = IF e \in Rewrites THEN s ELSE "miss"]
    /\ phase' = [phase EXCEPT ![e] = "ready"]
    /\ at' = [at EXCEPT ![e] = IF found THEN Len(Script(e)) + 1 ELSE @ + 1]
    /\ raised' = (raised \/ (found /\ Call(e, {"boostcheck"})))

Reading(e) == Call(e, {"read", "check", "boostcheck"})

ReadsCached(e) ==
    /\ Reading(e) /\ phase[e] = "ready"
    /\ cache[Service(e)] # "miss"
    /\ Learn(e, cache[Service(e)])
    /\ UNCHANGED <<status, versions, cache, number, request, faults, overlapped, stale>>

Fetches(e) ==
    /\ Reading(e) /\ phase[e] = "ready"
    /\ cache[Service(e)] = "miss"
    /\ got' = [got EXCEPT ![e] = status]
    /\ phase' = [phase EXCEPT ![e] = "fetched"]
    /\ UNCHANGED <<status, versions, cache, at, number, request, faults, history>>

Caches(e) ==
    /\ Reading(e) /\ phase[e] = "fetched"
    /\ cache' = [cache EXCEPT ![Service(e)] = got[e]]
    /\ stale' = (stale \/ got[e] # status)
    /\ Learn(e, got[e])
    /\ UNCHANGED <<status, versions, number, request, faults, overlapped>>

(* update_session; rewrite_section writes the status it has read.          *)
Updates(e) ==
    /\ Call(e, Statuses \cup {"restore"}) /\ phase[e] = "ready"
    /\ status' = IF Call(e, {"restore"}) THEN got[e] ELSE Script(e)[at[e]]
    /\ phase' = [phase EXCEPT ![e] = "written"]
    /\ UNCHANGED <<versions, cache, at, got, number, request, faults, history>>

(* Wrong: the next version gets the number of the latest.                  *)
NumbersAlike(e) ==
    /\ Call(e, {"draft", "render", "floor"}) /\ phase[e] = "ready"
    /\ number' = [number EXCEPT ![e] = Latest]
    /\ phase' = [phase EXCEPT ![e] = "numbered"]
    /\ UNCHANGED <<status, versions, cache, at, got, request, faults, history>>

(* save_document_version reads the greatest version, then inserts.         *)
Numbers(e) ==
    /\ Call(e, {"draft", "render", "floor"}) /\ phase[e] = "ready"
    /\ number' = [number EXCEPT ![e] = Latest + 1]
    /\ phase' = [phase EXCEPT ![e] = "numbered"]
    /\ UNCHANGED <<status, versions, cache, at, got, request, faults, history>>

Inserts(e) ==
    /\ phase[e] = "numbered"
    /\ versions' = Append(versions, [number   |-> number[e],
                                     rendered |-> ~Call(e, {"draft"})])
    /\ number' = [number EXCEPT ![e] = 0]
    /\ phase' = [phase EXCEPT ![e] = "written"]
    /\ UNCHANGED <<status, cache, at, got, request, faults, history>>

(* What follows each of the writes, add_message included.                  *)
Invalidates(e) ==
    /\ phase[e] = "written" \/ Call(e, {"turn"})
    /\ cache' = [cache EXCEPT ![Service(e)] = "miss"]
    /\ phase' = [phase EXCEPT ![e] = "ready"]
    /\ Advance(e)
    /\ UNCHANGED <<status, versions, got, number, request, faults, history>>

(* The quality reaches the target, and the script goes on at the last      *)
(* status; or no section is low, and at the update that ends the pass.     *)
SkipsBoost(e) ==
    /\ Call(e, {"boost"}) /\ phase[e] = "ready"
    /\ \E last \in {Len(Script(e)) - 1, Len(Script(e))} : at' = [at EXCEPT ![e] = last]
    /\ UNCHANGED <<status, versions, cache, phase, got, number, request, faults, history>>

(* The improved draft reaches the target: no floor, no second save.        *)
SkipsFloor(e) ==
    /\ Call(e, {"floor"}) /\ phase[e] = "ready"
    /\ Advance(e)
    /\ UNCHANGED <<status, versions, cache, phase, got, number, request, faults, history>>

(* The quality pass begins by a write of its own.                          *)
Boosts(e) ==
    /\ Call(e, {"boost"}) /\ phase[e] = "ready"
    /\ status' = "processing"
    /\ phase' = [phase EXCEPT ![e] = "written"]
    /\ UNCHANGED <<versions, cache, at, got, number, request, faults, history>>

Ends(e) ==
    /\ at[e] = Len(Script(e)) + 1
    /\ Advance(e)
    /\ Forgets(e)
    /\ UNCHANGED <<status, versions, phase, number, request, faults, history>>

(* The model or the database raises: nobody writes the status (the handler *)
(* of the Celery task marks a row of documents, and there is none of this  *)
(* id).  A crash of the web process ends its background tasks like this.   *)
Raises(e) ==
    /\ at[e] \in 1 .. Len(Script(e)) /\ faults < MaxFaults
    /\ faults' = faults + 1
    /\ at' = [at EXCEPT ![e] = Done(e)]
    /\ phase' = [phase EXCEPT ![e] = "ready"]
    /\ raised' = TRUE
    /\ number' = [number EXCEPT ![e] = 0]
    /\ Forgets(e)
    /\ UNCHANGED <<status, versions, request, overlapped, stale>>

(* A Celery task whose worker died is delivered again (acks_late).         *)
WorkerCrashes(e) ==
    /\ queued /\ Live(e) /\ faults < MaxFaults
    /\ faults' = faults + 1
    /\ at' = [at EXCEPT ![e] = 1]
    /\ phase' = [phase EXCEPT ![e] = "ready"]
    /\ number' = [number EXCEPT ![e] = 0]
    /\ Forgets(e)
    /\ UNCHANGED <<status, versions, request, history>>

-----------------------------------------------------------------------------
Requests ==
    \/ StartGeneration
    \/ \E e \in Exec : ApproveOutline(e) \/ RequestRewrite(e)
    \/ StopWrites \/ StopInvalidates
    \/ PollFetches \/ PollCaches

Pipeline(e) ==
    \/ ReadsCached(e) \/ Fetches(e) \/ Caches(e)
    \/ Updates(e) \/ Numbers(e) \/ Inserts(e) \/ Invalidates(e)
    \/ SkipsBoost(e) \/ SkipsFloor(e) \/ Boosts(e)
    \/ Ends(e)

(* Nothing is under way: the session waits for requests that the bounds do *)
(* not let in.                                                             *)
Idle ==
    /\ Quiet /\ ~stopping /\ poll = "none"
    /\ UNCHANGED vars

Next ==
    /\ UNCHANGED queued
    /\ \/ Requests
       \/ \E e \in Exec : Pipeline(e) \/ Raises(e) \/ WorkerCrashes(e)
       \/ \E s \in Services : Expires(s)
       \/ Idle

Spec == Init /\ [][Next]_vars

-----------------------------------------------------------------------------
(* Properties                                                              *)

(* A session nobody works on does not go on saying that it is processed:   *)
(* whatever stops, polls, expired entries and redelivered tasks came in    *)
(* between, it is then waiting for approval, completed or canceled.  Not   *)
(* so after an exception, after executions that ran at the same time, or   *)
(* after an outdated row went into the cache.                              *)
NoStuckSession ==
    Quiet /\ at[Run] # 0 /\ ~raised /\ ~overlapped /\ ~stale =>
        status \in {"awaiting_approval", "completed", "canceled"}

(* A completed session has a rendered file, even when executions ran at    *)
(* the same time; when they did not, its newest version, the one that      *)
(* get_latest_document returns, is rendered.                               *)
CompletedIsRendered ==
    status = "completed" =>
        /\ \E i \in DOMAIN versions : versions[i].rendered
        /\ overlapped \/ \A i \in DOMAIN versions : versions[i].number = Latest => versions[i].rendered

(* Executions that do not run at the same time number their versions       *)
(* apart, also when a crash repeats one of them.                           *)
VersionsDistinct ==
    ~overlapped => \A i, j \in DOMAIN versions :
                       versions[i].number = versions[j].number => i = j

(* What the documentation says and the code does not do: a session that    *)
(* was stopped, and for which no approval or rewrite was asked, is canceled*)
(* from then on.                                                           *)
StopSticks ==
    stops > 0 /\ (\A e \in Resumes \cup Rewrites : at[e] = 0) => status = "canceled"
=============================================================================
