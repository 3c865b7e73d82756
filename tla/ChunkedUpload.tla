---------------------------- MODULE ChunkedUpload ----------------------------
(***************************************************************************)
(* Upload of a large file in chunks.  Each request writes its chunk to a   *)
(* part file and counts the parts there; the one that finds them all has   *)
(* them put together on a thread, then moves the file, has it scanned and  *)
(* creates the document.  Requests of a file are told apart by nothing but *)
(* the names of the files they write.                                      *)
(*                                                                         *)
(* The client is the browser, which sends the chunks one after the other   *)
(* and starts over with a new file id when anything fails, or a program    *)
(* that sends them in any order and perhaps twice.  A step is what a       *)
(* coroutine or a thread does to one file; a coroutine keeps the event     *)
(* loop until it awaits, a reassembly runs beside it.                      *)
(***************************************************************************)
EXTENDS Naturals, Sequences, FiniteSets

CONSTANTS
    Clients,      \* which of "browser" and "api" the client may be
    Total,        \* chunks of the file
    MaxRepeats,   \* bound: chunks that an API client sends a second time
    MaxAttempts,  \* attempts of the browser (executeUpload)
    MaxFaults     \* bound: crashes, lost answers, failing inserts

ASSUME UploadAssumption ==
    /\ Clients \subseteq {"browser", "api"}
    /\ Total \in Nat \ {0} /\ MaxRepeats \in Nat
    /\ MaxAttempts \in Nat \ {0} /\ MaxFaults \in Nat

Files  == 1 .. MaxAttempts    \* file_id; an API client uses the first only
Chunks == 0 .. Total - 1
Requests == {r \in [file : Files, chunk : Chunks, copy : 1 .. 2] : r.file = 1 \/ r.copy = 1}

NoRequest == [file |-> 0, chunk |-> 0, copy |-> 0]

(* In the order the code goes through them.                                *)
OnLoop    == {"truncated", "written"}
OnThread  == {"opening", "looking", "reading", "removing"}
Finishing == {"assembled", "moved", "scanned"}
Answered  == {"refused", "received", "created", "rejected", "failed", "dead"}

VARIABLES
    client,     \* who uploads, never changed
    oversize,   \* the file exceeds MAX_FILE_SIZE, never changed
    genuine,    \* its magic bytes are those of its extension, never changed
    attempt,    \* attempt of the browser; MaxAttempts + 1 when it gave up
    at,         \* where each request is
    part,       \* <file_id>.part<i>: "absent", "empty" or "whole"
    complete,   \* <file_id>_complete: the inode, named by the request that made it
    inode,      \* the inode a request writes to, later the one of its document
    bytes,      \* contents of an inode: a chunk or a Hole per place
    cursor,     \* next part a reassembly looks at
    hashed,     \* what it has read so far
    faults,
    overlapped, \* history: a chunk was written while its file was reassembled
    torn        \* history: a crash left a part that was not whole

disk     == <<part, complete, bytes>>
assembly == <<inode, cursor, hashed>>
history  == <<overlapped, torn>>
vars     == <<client, oversize, genuine, attempt, at, disk, assembly, faults, history>>

fixed == <<client, oversize, genuine, attempt>>

TypeOK ==
    /\ client \in Clients /\ oversize \in BOOLEAN /\ genuine \in BOOLEAN
    /\ attempt \in 1 .. MaxAttempts + 1
    /\ at \in [Requests -> {"unsent", "sent"} \cup OnLoop \cup OnThread \cup Finishing \cup Answered]
    /\ part \in [Files -> [Chunks -> {"absent", "empty", "whole"}]]
    /\ complete \in [Files -> Requests \cup {NoRequest}]
    /\ inode \in [Requests -> Requests \cup {NoRequest}]
    /\ \A r \in Requests : Len(bytes[r]) <= Total /\ Len(hashed[r]) <= Total
    /\ cursor \in [Requests -> 0 .. Total]
    /\ faults \in 0 .. MaxFaults
    /\ overlapped \in BOOLEAN /\ torn \in BOOLEAN

Init ==
    /\ client \in Clients /\ oversize \in BOOLEAN /\ genuine \in BOOLEAN
    /\ attempt = 1
    /\ at = [r \in Requests |-> "unsent"]
    /\ part = [f \in Files |-> [i \in Chunks |-> "absent"]]
    /\ complete = [f \in Files |-> NoRequest]
    /\ inode = [r \in Requests |-> NoRequest]
    /\ bytes = [r \in Requests |-> << >>]
    /\ cursor = [r \in Requests |-> 0]
    /\ hashed = [r \in Requests |-> << >>]
    /\ faults = 0 /\ overlapped = FALSE /\ torn = FALSE

Goes(r, place) == at' = [at EXCEPT ![r] = place]

Fault == faults < MaxFaults /\ faults' = faults + 1

-----------------------------------------------------------------------------
(* The clients                                                             *)

Sent(f) == {r \in Requests : r.file = f /\ at[r] # "unsent"}

(* uploadChunked awaits each answer before it sends the next chunk.        *)
BrowserSends(r) ==
    /\ client = "browser"
    /\ r.file = attempt /\ r.copy = 1 /\ at[r] = "unsent"
    /\ r.chunk = Cardinality(Sent(attempt))
    /\ \A s \in Sent(attempt) : at[s] = "received"
    /\ Goes(r, "sent")
    /\ UNCHANGED <<fixed, disk, assembly, faults, history>>

(* What makes useUpload start over: an error, no answer, or a last answer  *)
(* that names no job.                                                      *)
AttemptFailed ==
    \/ \E s \in Sent(attempt) : at[s] \in {"refused", "rejected", "failed", "dead"}
    \/ Cardinality(Sent(attempt)) = Total /\ \A s \in Sent(attempt) : at[s] = "received"

BrowserRetries ==
    /\ client = "browser" /\ attempt <= MaxAttempts
    /\ \/ AttemptFailed /\ UNCHANGED faults
       \/ Sent(attempt) # {} /\ Fault
    /\ attempt' = attempt + 1
    /\ UNCHANGED <<client, oversize, genuine, at, disk, assembly, history>>

ProgramSends(r) ==
    /\ client = "api"
    /\ r.file = 1 /\ at[r] = "unsent"
    /\ r.copy = 2 => /\ at[[r EXCEPT !.copy = 1]] # "unsent"
                     /\ Cardinality({s \in Sent(1) : s.copy = 2}) < MaxRepeats
    /\ Goes(r, "sent")
    /\ UNCHANGED <<fixed, disk, assembly, faults, history>>

-----------------------------------------------------------------------------
(* upload_document_chunked up to the await of the reassembly: nobody else  *)
(* has the event loop.                                                     *)

(* Wrong: something is awaited between the write and the count.            *)
LoopShared == TRUE

LoopFree == \A r \in Requests : at[r] \notin OnLoop

(* A quota is asked at the first chunk, and no chunk may have more than    *)
(* 5 MB: the browser cuts smaller ones.  Parts that are there stay there.  *)
RefusesChunk(r) ==
    /\ at[r] = "sent" /\ LoopFree
    /\ r.chunk = 0 \/ client = "api"
    /\ Goes(r, "refused")
    /\ UNCHANGED <<fixed, disk, assembly, faults, history>>

Truncates(r) ==
    /\ at[r] = "sent" /\ LoopFree
    /\ part' = [part EXCEPT ![r.file][r.chunk] = "empty"]
    /\ overlapped' = (overlapped \/ \E s \in Requests \ {r} :
                          s.file = r.file /\ at[s] \in OnThread \cup {"assembled"})
    /\ Goes(r, "truncated")
    /\ UNCHANGED <<fixed, complete, bytes, assembly, faults, torn>>

Writes(r) ==
    /\ at[r] = "truncated"
    /\ part' = [part EXCEPT ![r.file][r.chunk] = "whole"]
    /\ Goes(r, "written")
    /\ UNCHANGED <<fixed, complete, bytes, assembly, faults, history>>

(* Wrong: the parts are counted before the chunk is written.               *)
PartsBefore(r) == {i \in Chunks \ {r.chunk} : part[r.file][i] # "absent"}

(* The parts that the glob finds.                                          *)
PartsThere(r) == {i \in Chunks : part[r.file][i] # "absent"}

Receives(r) ==
    /\ at[r] = "written" /\ Cardinality(PartsThere(r)) # Total
    /\ Goes(r, "received")
    /\ UNCHANGED <<fixed, disk, assembly, faults, history>>

RejectsSize(r) ==
    /\ at[r] = "written" /\ Cardinality(PartsThere(r)) = Total /\ oversize
    /\ part' = [part EXCEPT ![r.file] = [i \in Chunks |-> "absent"]]
    /\ Goes(r, "rejected")
    /\ UNCHANGED <<fixed, complete, bytes, assembly, faults, history>>

StartsThread(r) ==
    /\ at[r] = "written" /\ Cardinality(PartsThere(r)) = Total /\ ~oversize
    /\ Goes(r, "opening")
    /\ UNCHANGED <<fixed, disk, assembly, faults, history>>

-----------------------------------------------------------------------------
(* _reassemble_chunks_sync, on a thread                                    *)

(* A new inode, or the one another reassembly writes to, emptied.          *)
Opens(r) ==
    /\ at[r] = "opening"
    /\ LET i == IF complete[r.file] = NoRequest THEN r ELSE complete[r.file] IN
           /\ complete' = [complete EXCEPT ![r.file] = i]
           /\ inode' = [inode EXCEPT ![r] = i]
           /\ bytes' = [bytes EXCEPT ![i] = << >>]
    /\ Goes(r, "looking")
    /\ UNCHANGED <<fixed, part, cursor, hashed, faults, history>>

(* Wrong: the last part is left out.                                       *)
AllButOneSeen(r) == cursor[r] >= Total - 1

AllSeen(r) == cursor[r] = Total

LooksFor(r) ==
    /\ at[r] = "looking" /\ ~AllSeen(r)
    /\ IF part[r.file][cursor[r]] = "absent"
       THEN cursor' = [cursor EXCEPT ![r] = @ + 1] /\ UNCHANGED at
       ELSE Goes(r, "reading") /\ UNCHANGED cursor
    /\ UNCHANGED <<fixed, disk, inode, hashed, faults, history>>

Hole == Total    \* zeros between what two reassemblies write

(* Wrong: the file is opened to append to it.                              *)
PutLast(seq, place, chunk) == Append(seq, chunk)

(* The chunk goes to the place its own file offset has come to.            *)
Put(seq, place, chunk) ==
    [k \in 1 .. IF place > Len(seq) THEN place ELSE Len(seq) |->
        CASE k = place -> chunk [] k # place /\ k <= Len(seq) -> seq[k] [] OTHER -> Hole]

Reads(r) ==
    /\ at[r] = "reading" /\ part[r.file][cursor[r]] # "absent"
    /\ IF part[r.file][cursor[r]] = "whole"
       THEN /\ hashed' = [hashed EXCEPT ![r] = Append(@, cursor[r])]
            /\ bytes' = [bytes EXCEPT ![inode[r]] = Put(@, Len(hashed[r]) + 1, cursor[r])]
       ELSE UNCHANGED <<hashed, bytes>>
    /\ Goes(r, "removing")
    /\ UNCHANGED <<fixed, part, complete, inode, cursor, faults, history>>

(* Wrong: the part is left there.                                          *)
RemovesNot(r) ==
    /\ at[r] = "removing" /\ part[r.file][cursor[r]] # "absent"
    /\ cursor' = [cursor EXCEPT ![r] = @ + 1]
    /\ Goes(r, "looking")
    /\ UNCHANGED <<fixed, disk, inode, hashed, faults, history>>

Removes(r) ==
    /\ at[r] = "removing" /\ part[r.file][cursor[r]] # "absent"
    /\ part' = [part EXCEPT ![r.file][cursor[r]] = "absent"]
    /\ cursor' = [cursor EXCEPT ![r] = @ + 1]
    /\ Goes(r, "looking")
    /\ UNCHANGED <<fixed, complete, bytes, inode, hashed, faults, history>>

(* Another reassembly has removed the part in the meantime.                *)
MissesPart(r) ==
    /\ at[r] \in {"reading", "removing"} /\ part[r.file][cursor[r]] = "absent"
    /\ Goes(r, "failed")
    /\ UNCHANGED <<fixed, disk, assembly, faults, history>>

Assembled(r) ==
    /\ at[r] = "looking" /\ AllSeen(r)
    /\ Goes(r, "assembled")
    /\ UNCHANGED <<fixed, disk, assembly, faults, history>>

-----------------------------------------------------------------------------
(* The rest of the request                                                 *)

(* The name of the chunk as the browser sends it ends in .part<i>.         *)
NameAccepted == client = "api"

RejectsName(r) ==
    /\ at[r] = "assembled" /\ LoopFree /\ ~NameAccepted
    /\ complete' = [complete EXCEPT ![r.file] = NoRequest]
    /\ Goes(r, "rejected")
    /\ UNCHANGED <<fixed, part, bytes, assembly, faults, history>>

(* Whatever is at the path now: it may be gone, or begin with another      *)
(* chunk, or with the first one and yet not be a file of its type.         *)
FileValid(r) ==
    /\ complete[r.file] # NoRequest
    /\ bytes[complete[r.file]] # << >> /\ bytes[complete[r.file]][1] = 0
    /\ genuine

(* read_bytes fails, or validate_magic_bytes refuses what is there: unlike *)
(* a refused name, that leaves the file where it is.                       *)
FindsNoFile(r) ==
    /\ at[r] = "assembled" /\ LoopFree /\ NameAccepted /\ ~FileValid(r)
    /\ Goes(r, IF complete[r.file] = NoRequest THEN "failed" ELSE "rejected")
    /\ UNCHANGED <<fixed, disk, assembly, faults, history>>

Moves(r) ==
    /\ at[r] = "assembled" /\ LoopFree /\ NameAccepted /\ FileValid(r)
    /\ inode' = [inode EXCEPT ![r] = complete[r.file]]
    /\ complete' = [complete EXCEPT ![r.file] = NoRequest]
    /\ Goes(r, "moved")
    /\ UNCHANGED <<fixed, part, bytes, cursor, hashed, faults, history>>

Scans(r) ==
    /\ at[r] = "moved" /\ LoopFree
    /\ \E verdict \in {"scanned", "rejected"} : Goes(r, verdict)
    /\ UNCHANGED <<fixed, disk, assembly, faults, history>>

(* create_document, dispatch and answer; or the insert fails.              *)
Creates(r) ==
    /\ at[r] = "scanned" /\ LoopFree
    /\ \/ Goes(r, "created") /\ UNCHANGED faults
       \/ Goes(r, "failed") /\ Fault
    /\ UNCHANGED <<fixed, disk, assembly, history>>

(* The web process dies and is started again.                              *)
Crashes ==
    /\ \E r \in Requests : at[r] \notin {"unsent"} \cup Answered
    /\ Fault
    /\ torn' = (torn \/ \E r \in Requests : at[r] = "truncated")
    /\ at' = [r \in Requests |-> IF at[r] \in {"unsent"} \cup Answered THEN at[r] ELSE "dead"]
    /\ UNCHANGED <<fixed, disk, assembly, overlapped>>

-----------------------------------------------------------------------------
Handler(r) ==
    \/ RefusesChunk(r) \/ Truncates(r) \/ Writes(r)
    \/ Receives(r) \/ RejectsSize(r) \/ StartsThread(r)
    \/ Opens(r) \/ LooksFor(r) \/ Reads(r) \/ Removes(r) \/ MissesPart(r) \/ Assembled(r)
    \/ RejectsName(r) \/ FindsNoFile(r) \/ Moves(r) \/ Scans(r) \/ Creates(r)

Settled == \A r \in Requests : at[r] \in {"unsent"} \cup Answered

Next ==
    \/ \E r \in Requests : BrowserSends(r) \/ ProgramSends(r) \/ Handler(r)
    \/ BrowserRetries \/ Crashes
    \/ Settled /\ UNCHANGED vars

(* Threads run, the event loop serves everyone.                            *)
Spec == Init /\ [][Next]_vars /\ WF_vars(\E r \in Requests : Handler(r))

-----------------------------------------------------------------------------
(* Properties                                                              *)

Created == {r \in Requests : at[r] = "created"}

(* A document is created from all the chunks in their order, and the hash  *)
(* stored with it is the one of its file; also after a crash, and when     *)
(* chunks are sent in another order, at the same time or again.  Not when  *)
(* a chunk is sent again while its file is put together, or when a crash   *)
(* has torn a part: parts are counted, never looked into.                  *)
DocumentsWhole ==
    ~overlapped /\ ~torn =>
        \A r \in Created :
            /\ bytes[inode[r]] = [k \in 1 .. Total |-> k - 1]
            /\ hashed[r] = bytes[inode[r]]

(* When no chunk is sent twice, one request at most takes it upon itself   *)
(* to put the file together: writing a part and counting them is one step  *)
(* for the event loop, so the last two chunks do not both find them all.   *)
OneReassembly ==
    \A f \in Files :
        (\A r \in Sent(f) : r.copy = 1) =>
            Cardinality({r \in Sent(f) : cursor[r] > 0 \/ inode[r] # NoRequest
                                         \/ at[r] \in OnThread}) <= 1

(* A file of which every chunk was taken once leaves no part behind when   *)
(* its requests are answered, and the file put together from them stays in *)
(* the temporary directory only if its contents were refused.  (When a     *)
(* chunk was refused, the other parts stay.)                               *)
NothingLeft ==
    faults = 0 =>
        \A f \in Files :
            /\ Cardinality(Sent(f)) = Total
            /\ \A r \in Sent(f) : r.copy = 1 /\ at[r] \in Answered \ {"refused"}
            => /\ \A i \in Chunks : part[f][i] = "absent"
               /\ complete[f] # NoRequest => ~genuine

(* When all the chunks have been sent, somebody finds that they are there, *)
(* in whatever order they came: the answer of one of them is a document or *)
(* a refusal.                                                              *)
UploadSettles ==
    \A f \in Files :
        {r.chunk : r \in Sent(f)} = Chunks ~>
            \/ \E r \in Sent(f) : at[r] \in {"created", "refused", "rejected", "failed"}
            \/ faults > 0

(* What the documentation says and the code does not do: without any fault *)
(* a browser that uploads a genuine file of an accepted size, within its   *)
(* quota and past the scan, gets a document.                               *)
BrowserIsServed ==
    /\ client = "browser" /\ ~oversize /\ genuine /\ faults = 0
    /\ \A r \in Requests : at[r] \notin {"refused", "moved"}
    => attempt = 1
=============================================================================
