------------------------ MODULE ChunkedUploadProofs -------------------------
(***************************************************************************)
(* For any number of chunks, repetitions, attempts and faults: the types;  *)
(* one reassembly at most when no chunk is sent twice; documents that hold *)
(* all the chunks in their order, unless a chunk came again while its file *)
(* was put together or a crash tore a part; and nothing left behind.       *)
(***************************************************************************)
EXTENDS ChunkedUpload, FiniteSetTheorems, TLAPS

Places  == {"unsent", "sent"} \cup OnLoop \cup OnThread \cup Finishing \cup Answered
Early   == {"unsent", "sent", "truncated", "written", "opening"}
Working == {"looking", "reading", "removing"}

(* Who puts a file together or has just done so.                           *)
Busy == OnThread \cup {"assembled"}

(* The first n chunks in their order.                                      *)
UpTo(n) == [k \in 1 .. n |-> k - 1]

-----------------------------------------------------------------------------
(* Types                                                                   *)

(* How far a request has read bounds what it has written; it writes to an  *)
(* inode once it has opened the file.                                      *)
Fitting(r) ==
    /\ at[r] \in Early => cursor[r] = 0 /\ inode[r] = NoRequest /\ hashed[r] = << >>
    /\ at[r] \in {"looking", "reading"} => Len(hashed[r]) <= cursor[r]
    /\ at[r] = "removing" => Len(hashed[r]) <= cursor[r] + 1
    /\ at[r] \in {"reading", "removing"} => cursor[r] < Total
    /\ at[r] \in Working \cup {"assembled"} => inode[r] \in Requests

TypedInv ==
    /\ TypeOK
    /\ bytes \in [Requests -> Seq(Nat)] /\ hashed \in [Requests -> Seq(Nat)]
    /\ \A r \in Requests : Fitting(r)

LEMMA RequestType ==
    /\ NoRequest \notin Requests
    /\ \A r \in Requests : r.file \in Files /\ r.chunk \in Chunks /\ r.copy \in 1 .. 2
    /\ \A r, s \in Requests : r.file = s.file /\ r.chunk = s.chunk /\ r.copy = s.copy => r = s
    /\ Chunks \subseteq Nat /\ \A i \in Nat : i < Total => i \in Chunks
BY UploadAssumption DEF Requests, NoRequest, Files, Chunks

LEMMA PlaceNames ==
    /\ Places = {"unsent", "sent", "truncated", "written", "opening", "looking", "reading",
                 "removing", "assembled", "moved", "scanned", "refused", "received",
                 "created", "rejected", "failed", "dead"}
    /\ OnLoop = {"truncated", "written"}
    /\ OnThread = {"opening", "looking", "reading", "removing"}
    /\ Busy = {"opening", "looking", "reading", "removing", "assembled"}
    /\ Finishing = {"assembled", "moved", "scanned"}
    /\ Answered = {"refused", "received", "created", "rejected", "failed", "dead"}
BY DEF Places, OnLoop, OnThread, Finishing, Answered, Busy

(* Where a request may be after a step of its handler.                     *)
LEMMA Going ==
    ASSUME TypedInv, NEW r \in Requests, NEW p \in Places, Goes(r, p)
    PROVE  /\ at' \in [Requests -> Places] /\ at'[r] = p
           /\ \A s \in Requests : s # r => at'[s] = at[s]
BY DEF TypedInv, TypeOK, Goes, Places

(* What is put somewhere in a file, and what is put at its end.            *)
LEMMA PutType ==
    ASSUME NEW seq \in Seq(Nat), NEW place \in Nat \ {0}, NEW chunk \in Nat
    PROVE  /\ Put(seq, place, chunk) \in Seq(Nat)
           /\ Len(Put(seq, place, chunk)) = IF place > Len(seq) THEN place ELSE Len(seq)
<1> DEFINE n == IF place > Len(seq) THEN place ELSE Len(seq)
<1>1. n \in Nat
  OBVIOUS
<1>2. \A k \in 1 .. n : (CASE k = place -> chunk [] k # place /\ k <= Len(seq) -> seq[k]
                           [] OTHER -> Hole) \in Nat
  <2> TAKE k \in 1 .. n
  <2>1. CASE k = place
    BY <2>1
  <2>2. CASE k # place /\ k <= Len(seq)
    BY <2>2, <1>1
  <2>3. CASE k # place /\ ~(k <= Len(seq))
    BY <2>3, UploadAssumption DEF Hole
  <2> QED BY <2>1, <2>2, <2>3
<1>3. Put(seq, place, chunk) \in [1 .. n -> Nat]
  BY <1>2 DEF Put
<1> QED BY <1>1, <1>3

LEMMA UpToExtends ==
    /\ UpTo(0) = << >>
    /\ \A n \in Nat : /\ UpTo(n) \in Seq(Nat) /\ Len(UpTo(n)) = n
                      /\ Append(UpTo(n), n) = UpTo(n + 1)
                      /\ Put(UpTo(n), n + 1, n) = UpTo(n + 1)
<1>1. UpTo(0) = << >>
  BY DEF UpTo
<1>2. ASSUME NEW n \in Nat
      PROVE  /\ UpTo(n) \in Seq(Nat) /\ Len(UpTo(n)) = n
             /\ Append(UpTo(n), n) = UpTo(n + 1)
             /\ Put(UpTo(n), n + 1, n) = UpTo(n + 1)
  <2>1. UpTo(n) \in Seq(Nat) /\ Len(UpTo(n)) = n
    BY DEF UpTo
  <2>2. Append(UpTo(n), n) = UpTo(n + 1)
    BY <2>1 DEF UpTo
  <2>3. Put(UpTo(n), n + 1, n) = UpTo(n + 1)
    BY <2>1 DEF UpTo, Put
  <2> QED BY <2>1, <2>2, <2>3
<1> QED BY <1>1, <1>2

(* What a step of the handler of r leaves alone.                           *)
Local(r) ==
    /\ UNCHANGED fixed
    /\ \A s \in Requests : s # r =>
          /\ at'[s] = at[s] /\ inode'[s] = inode[s]
          /\ cursor'[s] = cursor[s] /\ hashed'[s] = hashed[s]
    /\ \A f \in Files : f # r.file => part'[f] = part[f] /\ complete'[f] = complete[f]
    /\ at'[r] \in Places /\ at[r] \notin {"unsent"} \cup Answered

LEMMA HandlerIsLocal == ASSUME TypedInv, NEW r \in Requests, Handler(r) PROVE Local(r)
<1> USE RequestType, PlaceNames DEF Local, TypedInv, TypeOK, fixed, disk, assembly, history, Goes, Places
<1>1. CASE RefusesChunk(r) \/ Truncates(r) \/ Writes(r) \/ Receives(r) \/ RejectsSize(r) \/ StartsThread(r)
  BY <1>1 DEF RefusesChunk, Truncates, Writes, Receives, RejectsSize, StartsThread
<1>2. CASE Opens(r) \/ LooksFor(r) \/ Reads(r) \/ Removes(r) \/ MissesPart(r) \/ Assembled(r)
  BY <1>2 DEF Opens, LooksFor, Reads, Removes, MissesPart, Assembled
<1>3. CASE RejectsName(r) \/ FindsNoFile(r) \/ Moves(r) \/ Scans(r) \/ Creates(r)
  BY <1>3 DEF RejectsName, FindsNoFile, Moves, Scans, Creates
<1> QED BY <1>1, <1>2, <1>3 DEF Handler

(* The other requests keep fitting.                                        *)
LEMMA OthersFit ==
    ASSUME TypedInv, NEW r \in Requests, Local(r)
    PROVE  \A s \in Requests : s # r => Fitting(s)'
BY DEF TypedInv, Fitting, Local

(* The types, one variable at a time.                                      *)
LEMMA PlaceTyped == ASSUME TypedInv, NEW r \in Requests, Handler(r) PROVE at' \in [Requests -> Places]
<1>1. \E p \in Places : Goes(r, p) \/ UNCHANGED at
  BY PlaceNames DEF Handler, RefusesChunk, Truncates, Writes, Receives, RejectsSize, StartsThread, Opens,
     LooksFor, Reads, Removes, MissesPart, Assembled, RejectsName, FindsNoFile, Moves, Scans,
     Creates, assembly
<1> QED BY <1>1, Going DEF TypedInv, TypeOK, Places

Others(r) ==
    \/ RefusesChunk(r) \/ Receives(r) \/ StartsThread(r) \/ LooksFor(r) \/ MissesPart(r) \/ Assembled(r)
    \/ FindsNoFile(r) \/ Scans(r) \/ Creates(r)

LEMMA OthersKeep ==
    ASSUME TypedInv, NEW r \in Requests, Others(r)
    PROVE  UNCHANGED <<part, complete, bytes, inode, hashed, overlapped, torn>>
BY DEF Others, RefusesChunk, Receives, StartsThread, LooksFor, MissesPart, Assembled, FindsNoFile, Scans, Creates,
   disk, assembly, history

LEMMA DiskTyped ==
    ASSUME TypedInv, NEW r \in Requests, Handler(r)
    PROVE  /\ part' \in [Files -> [Chunks -> {"absent", "empty", "whole"}]]
           /\ complete' \in [Files -> Requests \cup {NoRequest}]
           /\ inode' \in [Requests -> Requests \cup {NoRequest}]
<1> USE RequestType DEF TypedInv, TypeOK, disk, assembly
<1>1. CASE Truncates(r) \/ Writes(r) \/ RejectsSize(r) \/ Removes(r)
  <2>1. \E f \in Files, g \in [Chunks -> {"absent", "empty", "whole"}] : part' = [part EXCEPT ![f] = g]
    <3>1. \A i \in Chunks, x \in {"absent", "empty", "whole"} :
             [part[r.file] EXCEPT ![i] = x] \in [Chunks -> {"absent", "empty", "whole"}]
      OBVIOUS
    <3>2. [i \in Chunks |-> "absent"] \in [Chunks -> {"absent", "empty", "whole"}]
      OBVIOUS
    <3>3. CASE RejectsSize(r)
      BY <3>2, <3>3 DEF RejectsSize
    <3>4. CASE Removes(r)
      <4>1. cursor[r] \in Chunks
        BY <3>4, PlaceNames DEF Removes, Fitting
      <4> QED BY <3>1, <3>4, <4>1 DEF Removes
    <3>5. CASE Truncates(r) \/ Writes(r)
      BY <3>1, <3>5 DEF Truncates, Writes
    <3> QED BY <1>1, <3>3, <3>4, <3>5
  <2>2. UNCHANGED <<complete, inode>>
    BY <1>1 DEF Truncates, Writes, RejectsSize, Removes
  <2> QED BY <2>1, <2>2
<1>2. CASE Opens(r) \/ Reads(r) \/ RejectsName(r) \/ Moves(r)
  <2>1. part' = part
    BY <1>2 DEF Opens, Reads, RejectsName, Moves
  <2>2. CASE Opens(r)
    BY <2>1, <2>2 DEF Opens
  <2>3. CASE Reads(r)
    BY <2>1, <2>3 DEF Reads
  <2>4. CASE RejectsName(r)
    BY <2>1, <2>4 DEF RejectsName
  <2>5. CASE Moves(r)
    BY <2>1, <2>5 DEF Moves
  <2> QED BY <1>2, <2>2, <2>3, <2>4, <2>5
<1>3. CASE Others(r)
  BY <1>3, OthersKeep
<1> QED BY <1>1, <1>2, <1>3 DEF Handler, Others

LEMMA ReadTyped ==
    ASSUME TypedInv, NEW r \in Requests, Handler(r)
    PROVE  /\ bytes' \in [Requests -> Seq(Nat)] /\ hashed' \in [Requests -> Seq(Nat)]
           /\ cursor' \in [Requests -> 0 .. Total]
           /\ \A s \in Requests : Len(bytes'[s]) <= Total /\ Len(hashed'[s]) <= Total
           /\ at[r] = "reading" => Len(hashed'[r]) <= cursor[r] + 1
<1>1. /\ bytes \in [Requests -> Seq(Nat)] /\ hashed \in [Requests -> Seq(Nat)]
      /\ cursor \in [Requests -> 0 .. Total] /\ Total \in Nat /\ Fitting(r)
      /\ inode \in [Requests -> Requests \cup {NoRequest}]
      /\ complete \in [Files -> Requests \cup {NoRequest}]
      /\ \A s \in Requests : Len(bytes[s]) <= Total /\ Len(hashed[s]) <= Total
  BY UploadAssumption DEF TypedInv, TypeOK
<1>2. CASE Opens(r)
  <2> DEFINE i == IF complete[r.file] = NoRequest THEN r ELSE complete[r.file]
  <2>1. i \in Requests
    BY <1>1, RequestType
  <2>2. /\ bytes' = [bytes EXCEPT ![i] = << >>]
        /\ UNCHANGED <<cursor, hashed>> /\ at[r] = "opening"
    BY <1>2 DEF Opens
  <2> HIDE DEF i
  <2> QED BY <1>1, <2>1, <2>2
<1>3. CASE Reads(r)
  <2>1. cursor[r] \in Nat /\ cursor[r] < Total /\ inode[r] \in Requests
        /\ hashed[r] \in Seq(Nat) /\ Len(hashed[r]) \in Nat /\ Len(hashed[r]) <= cursor[r]
    BY <1>1, <1>3, PlaceNames DEF Reads, Fitting, Working
  <2> DEFINE h == Append(hashed[r], cursor[r])
             b == Put(bytes[inode[r]], Len(hashed[r]) + 1, cursor[r])
  <2>2. h \in Seq(Nat) /\ Len(h) = Len(hashed[r]) + 1
    BY <2>1
  <2>3. b \in Seq(Nat) /\ Len(b) <= Total
    <3>1. /\ b \in Seq(Nat)
          /\ Len(b) = IF Len(hashed[r]) + 1 > Len(bytes[inode[r]])
                       THEN Len(hashed[r]) + 1 ELSE Len(bytes[inode[r]])
      BY <1>1, <2>1, PutType
    <3> QED BY <1>1, <2>1, <3>1
  <2>4. /\ UNCHANGED cursor
        /\ \/ hashed' = [hashed EXCEPT ![r] = h] /\ bytes' = [bytes EXCEPT ![inode[r]] = b]
           \/ UNCHANGED <<hashed, bytes>>
    BY <1>3 DEF Reads
  <2>5. r \in Requests /\ Len(h) <= Total /\ Len(h) <= cursor[r] + 1
    BY <1>1, <2>1, <2>2
  <2> HIDE DEF h, b
  <2>6. bytes' \in [Requests -> Seq(Nat)] /\ \A s \in Requests : Len(bytes'[s]) <= Total
    <3>1. CASE UNCHANGED bytes
      BY <1>1, <3>1
    <3>2. CASE bytes' = [bytes EXCEPT ![inode[r]] = b]
      BY <1>1, <2>1, <2>3, <3>2
    <3> QED BY <2>4, <3>1, <3>2
  <2>7. /\ hashed' \in [Requests -> Seq(Nat)] /\ \A s \in Requests : Len(hashed'[s]) <= Total
        /\ Len(hashed'[r]) <= cursor[r] + 1
    <3>1. CASE UNCHANGED hashed
      BY <1>1, <2>1, <3>1
    <3>2. CASE hashed' = [hashed EXCEPT ![r] = h]
      BY <1>1, <2>2, <2>5, <3>2
    <3> QED BY <2>4, <3>1, <3>2
  <2> QED BY <1>1, <2>4, <2>6, <2>7
<1>4. CASE LooksFor(r) \/ Removes(r)
  <2>1. UNCHANGED <<bytes, hashed>> /\ at[r] # "reading"
    BY <1>4 DEF LooksFor, Removes, disk
  <2>2. cursor[r] < Total /\ (UNCHANGED cursor \/ cursor' = [cursor EXCEPT ![r] = @ + 1])
    BY <1>1, <1>4 DEF LooksFor, Removes, AllSeen, Fitting
  <2> QED BY <1>1, <2>1, <2>2
<1>5. CASE ~(Opens(r) \/ Reads(r) \/ LooksFor(r) \/ Removes(r))
  <2>1. UNCHANGED <<bytes, hashed, cursor>>
    BY <1>5 DEF Handler, RefusesChunk, Truncates, Writes, Receives, RejectsSize, StartsThread, MissesPart,
       Assembled, RejectsName, FindsNoFile, Moves, Scans, Creates, disk, assembly
  <2> QED BY <1>1, <2>1 DEF Fitting
<1> QED BY <1>2, <1>3, <1>4, <1>5

LEMMA HandlerFits == ASSUME TypedInv, NEW r \in Requests, Handler(r) PROVE Fitting(r)'
<1>1. /\ cursor[r] \in 0 .. Total /\ Total \in Nat /\ Fitting(r) /\ Len(hashed[r]) \in Nat
      /\ inode \in [Requests -> Requests \cup {NoRequest}]
      /\ complete \in [Files -> Requests \cup {NoRequest}]
      /\ r \in DOMAIN at /\ r \in DOMAIN cursor /\ r \in DOMAIN inode
  BY UploadAssumption DEF TypedInv, TypeOK
<1> USE DEF Fitting, Early, Working, disk, assembly, Goes
<1>2. CASE RefusesChunk(r) \/ Truncates(r) \/ Writes(r) \/ Receives(r) \/ RejectsSize(r) \/ StartsThread(r)
  BY <1>1, <1>2 DEF RefusesChunk, Truncates, Writes, Receives, RejectsSize, StartsThread
<1>3. CASE Opens(r)
  BY <1>1, <1>3, RequestType DEF Opens
<1>4. CASE LooksFor(r)
  BY <1>1, <1>4 DEF LooksFor, AllSeen
<1>5. CASE Reads(r)
  BY <1>1, <1>5, ReadTyped DEF Reads
<1>6. CASE Removes(r)
  BY <1>1, <1>6 DEF Removes
<1>7. CASE MissesPart(r) \/ Assembled(r)
  BY <1>1, <1>7 DEF MissesPart, Assembled
<1>8. CASE RejectsName(r) \/ FindsNoFile(r) \/ Moves(r) \/ Scans(r) \/ Creates(r)
  BY <1>1, <1>8 DEF RejectsName, FindsNoFile, Moves, Scans, Creates
<1> QED BY <1>2, <1>3, <1>4, <1>5, <1>6, <1>7, <1>8 DEF Handler

LEMMA TypedHandler == ASSUME TypedInv, NEW r \in Requests, Handler(r) PROVE TypedInv'
<1>1. faults' \in 0 .. MaxFaults /\ overlapped' \in BOOLEAN /\ torn' \in BOOLEAN
  <2>1. faults \in 0 .. MaxFaults /\ overlapped \in BOOLEAN /\ torn \in BOOLEAN /\ MaxFaults \in Nat
    BY UploadAssumption DEF TypedInv, TypeOK
  <2>2. UNCHANGED faults \/ Fault
    BY DEF Handler, RefusesChunk, Truncates, Writes, Receives, RejectsSize, StartsThread, Opens,
       LooksFor, Reads, Removes, MissesPart, Assembled, RejectsName, FindsNoFile, Moves, Scans, Creates
  <2>3. torn' = torn /\ overlapped' \in BOOLEAN
    BY <2>1 DEF Handler, RefusesChunk, Truncates, Writes, Receives, RejectsSize, StartsThread, Opens, history,
       LooksFor, Reads, Removes, MissesPart, Assembled, RejectsName, FindsNoFile, Moves, Scans, Creates
  <2> QED BY <2>1, <2>2, <2>3 DEF Fault
<1>2. Local(r) /\ \A s \in Requests : s # r => Fitting(s)'
  BY HandlerIsLocal, OthersFit
<1>3. Fitting(r)'
  BY HandlerFits
<1> QED BY <1>1, <1>2, <1>3, PlaceTyped, DiskTyped, ReadTyped DEF TypedInv, TypeOK, Local, Places,
   fixed

(* The clients only send, and a crash only ends requests.                  *)
LEMMA ClientSteps ==
    ASSUME TypedInv, NEW r \in Requests, BrowserSends(r) \/ ProgramSends(r)
    PROVE  /\ at[r] = "unsent" /\ at' = [at EXCEPT ![r] = "sent"]
           /\ UNCHANGED <<fixed, disk, assembly, faults, history>>
BY DEF BrowserSends, ProgramSends, Goes

LEMMA CrashStep ==
    ASSUME TypedInv, Crashes
    PROVE  /\ \A r \in Requests : at'[r] \in {at[r], "dead"} /\ (at[r] = "unsent" => at'[r] = "unsent")
           /\ at' \in [Requests -> Places]
           /\ \A r \in Requests : at[r] \notin Answered => at'[r] \in {"unsent", "dead"}
           /\ UNCHANGED <<fixed, disk, assembly, overlapped>>
           /\ faults' = faults + 1 /\ torn' = (torn \/ \E r \in Requests : at[r] = "truncated")
BY PlaceNames DEF Crashes, Fault, TypedInv, TypeOK, Places

LEMMA TypedStep == TypedInv /\ [Next]_vars => TypedInv'
<1> SUFFICES ASSUME TypedInv, [Next]_vars PROVE TypedInv'
  OBVIOUS
<1>1. ASSUME NEW r \in Requests, BrowserSends(r) \/ ProgramSends(r) PROVE TypedInv'
  <2>1. /\ at[r] = "unsent" /\ at' = [at EXCEPT ![r] = "sent"]
        /\ UNCHANGED <<fixed, disk, assembly, faults, history>>
    BY <1>1, ClientSteps
  <2>2. at \in [Requests -> Places] /\ at' \in [Requests -> Places]
    BY <2>1, PlaceNames DEF TypedInv, TypeOK, Places
  <2>3. \A s \in Requests : Fitting(s)'
    BY <2>1, <2>2 DEF TypedInv, Fitting, assembly, Early, Working
  <2> QED BY <2>1, <2>2, <2>3 DEF TypedInv, TypeOK, fixed, disk, assembly, history, Places
<1>2. ASSUME NEW r \in Requests, Handler(r) PROVE TypedInv'
  BY <1>2, TypedHandler
<1>3. CASE BrowserRetries
  BY <1>3, UploadAssumption DEF BrowserRetries, Fitting, Fault, TypedInv, TypeOK, disk, assembly,
     history
<1>4. CASE Crashes
  <2>1. /\ \A r \in Requests : at'[r] \in {at[r], "dead"}
        /\ at' \in [Requests -> Places]
        /\ UNCHANGED <<fixed, disk, assembly, overlapped>>
        /\ faults' = faults + 1
    BY <1>4, CrashStep
  <2>2. faults' \in 0 .. MaxFaults /\ torn' \in BOOLEAN
    BY <1>4, UploadAssumption DEF Crashes, Fault, TypedInv, TypeOK
  <2>3. \A r \in Requests : Fitting(r)'
    BY <2>1 DEF TypedInv, Fitting, assembly, Early, Working
  <2>4. overlapped' \in BOOLEAN /\ client' \in Clients /\ oversize' \in BOOLEAN
        /\ genuine' \in BOOLEAN /\ attempt' \in 1 .. MaxAttempts + 1
    BY <2>1 DEF TypedInv, TypeOK, fixed
  <2>5. UNCHANGED <<part, complete, bytes, inode, cursor, hashed>>
    BY <2>1 DEF disk, assembly
  <2>6. /\ part' \in [Files -> [Chunks -> {"absent", "empty", "whole"}]]
        /\ complete' \in [Files -> Requests \cup {NoRequest}]
        /\ inode' \in [Requests -> Requests \cup {NoRequest}]
        /\ \A r \in Requests : Len(bytes'[r]) <= Total /\ Len(hashed'[r]) <= Total
        /\ cursor' \in [Requests -> 0 .. Total]
        /\ bytes' \in [Requests -> Seq(Nat)] /\ hashed' \in [Requests -> Seq(Nat)]
    BY <2>5 DEF TypedInv, TypeOK
  <2> QED BY <2>1, <2>2, <2>3, <2>4, <2>6 DEF TypedInv, TypeOK, Places
<1>5. CASE UNCHANGED vars
  BY <1>5 DEF vars, Fitting, TypedInv, TypeOK, fixed, disk, assembly, history
<1> QED BY <1>1, <1>2, <1>3, <1>4, <1>5 DEF Next

LEMMA TypedInit == Init => TypedInv
<1> SUFFICES ASSUME Init PROVE TypedInv
  OBVIOUS
<1>1. << >> \in Seq(Nat) /\ Len(<< >>) = 0
  OBVIOUS
<1>2. /\ client \in Clients /\ oversize \in BOOLEAN /\ genuine \in BOOLEAN
      /\ attempt \in 1 .. MaxAttempts + 1
      /\ faults \in 0 .. MaxFaults /\ overlapped \in BOOLEAN /\ torn \in BOOLEAN
      /\ cursor \in [Requests -> 0 .. Total]
  <2>1. faults \in 0 .. MaxFaults /\ attempt \in 1 .. MaxAttempts + 1 /\ 0 \in 0 .. Total
    BY UploadAssumption DEF Init
  <2> QED BY <2>1 DEF Init
<1>3. /\ at \in [Requests -> Places]
      /\ part \in [Files -> [Chunks -> {"absent", "empty", "whole"}]]
      /\ complete \in [Files -> Requests \cup {NoRequest}]
      /\ inode \in [Requests -> Requests \cup {NoRequest}]
  BY PlaceNames DEF Init
<1>4. /\ bytes \in [Requests -> Seq(Nat)] /\ hashed \in [Requests -> Seq(Nat)]
      /\ \A r \in Requests : Len(bytes[r]) <= Total /\ Len(hashed[r]) <= Total
  BY <1>1, UploadAssumption DEF Init
<1>5. \A r \in Requests : Fitting(r)
  BY DEF Init, Fitting, Early, Working
<1> QED BY <1>2, <1>3, <1>4, <1>5 DEF TypedInv, TypeOK, Places

LEMMA Typed == Spec => []TypedInv
BY TypedInit, TypedStep, PTL DEF Spec

(* Every variable has its type: no reassembly reads or writes behind the   *)
(* last chunk, however many requests open the same file at a time.         *)
THEOREM TypeCorrect == Spec => []TypeOK
BY Typed, PTL DEF TypedInv

-----------------------------------------------------------------------------
(* Names of inodes, and the event loop                                     *)

(* An inode is named after the request that made it when it opened the     *)
(* file, and belongs to one file.                                          *)
NamesInv ==
    /\ \A r \in Requests :
          inode[r] # NoRequest => inode[r].file = r.file /\ at[inode[r]] \notin Early
    /\ \A f \in Files :
          complete[f] # NoRequest => complete[f].file = f /\ at[complete[f]] \notin Early

(* One coroutine at a time is between its write and its count; what it has *)
(* truncated is the only part that is empty, unless a crash left one.      *)
LoopInv ==
    /\ \A r, s \in Requests : at[r] \in OnLoop /\ at[s] \in OnLoop => r = s
    /\ ~torn => \A f \in Files, i \in Chunks : part[f][i] = "empty" =>
                    \E r \in Requests : at[r] = "truncated" /\ r.file = f /\ r.chunk = i

SharedInv == TypedInv /\ NamesInv /\ LoopInv

LEMMA Onward ==
    ASSUME TypedInv, [Next]_vars, NEW r \in Requests, at[r] \notin Early
    PROVE  at'[r] \notin Early
<1> USE DEF Early
<1>1. ASSUME NEW s \in Requests, BrowserSends(s) \/ ProgramSends(s) PROVE at'[r] \notin Early
  BY <1>1, ClientSteps, RequestType DEF TypedInv, TypeOK
<1>2. ASSUME NEW s \in Requests, Handler(s) PROVE at'[r] \notin Early
  <2>1. CASE r # s
    BY <1>2, <2>1, HandlerIsLocal DEF Local
  <2>2. CASE r = s
    BY <1>2, <2>2, PlaceNames DEF TypedInv, TypeOK, Handler, RefusesChunk, Truncates, Writes, Receives, RejectsSize,
       StartsThread, Opens, LooksFor, Reads, Removes, MissesPart, Assembled, RejectsName,
       FindsNoFile, Moves, Scans, Creates, Goes
  <2> QED BY <2>1, <2>2
<1>3. CASE BrowserRetries \/ UNCHANGED vars
  BY <1>3 DEF BrowserRetries, vars
<1>4. CASE Crashes
  BY <1>4, CrashStep
<1> QED BY <1>1, <1>2, <1>3, <1>4 DEF Next

LEMMA NamesStep == TypedInv /\ NamesInv /\ [Next]_vars => NamesInv'
<1> SUFFICES ASSUME TypedInv, NamesInv, [Next]_vars PROVE NamesInv'
  OBVIOUS
<1>1. \A r \in Requests : at[r] \notin Early => at'[r] \notin Early
  BY Onward
<1>2. /\ inode \in [Requests -> Requests \cup {NoRequest}]
      /\ complete \in [Files -> Requests \cup {NoRequest}]
      /\ at \in [Requests -> Places]
  BY DEF TypedInv, TypeOK, Places
<1>3. CASE UNCHANGED <<inode, complete>>
  BY <1>1, <1>2, <1>3 DEF NamesInv
<1>4. ASSUME NEW r \in Requests, Opens(r) PROVE NamesInv'
  <2> DEFINE i == IF complete[r.file] = NoRequest THEN r ELSE complete[r.file]
  <2>1. i \in Requests /\ i.file = r.file /\ r.file \in Files
    BY <1>2, RequestType DEF NamesInv
  <2>2. at'[i] \notin Early
    BY <1>1, <1>2, <1>4, RequestType DEF NamesInv, Opens, Goes, Early
  <2>3. complete' = [complete EXCEPT ![r.file] = i] /\ inode' = [inode EXCEPT ![r] = i]
    BY <1>4 DEF Opens
  <2> HIDE DEF i
  <2> QED BY <1>1, <1>2, <2>1, <2>2, <2>3 DEF NamesInv
<1>5. ASSUME NEW r \in Requests, Moves(r) PROVE NamesInv'
  BY <1>1, <1>2, <1>5, RequestType DEF Moves, FileValid, NamesInv
<1>6. ASSUME NEW r \in Requests, RejectsName(r) PROVE NamesInv'
  BY <1>1, <1>2, <1>6, RequestType DEF RejectsName, NamesInv, assembly
<1>7. ASSUME NEW r \in Requests, Handler(r), ~Opens(r), ~Moves(r), ~RejectsName(r)
      PROVE UNCHANGED <<inode, complete>>
  BY <1>7 DEF Handler, RefusesChunk, Truncates, Writes, Receives, RejectsSize, StartsThread, LooksFor, Reads,
     Removes, MissesPart, Assembled, FindsNoFile, Scans, Creates, disk, assembly
<1>8. ASSUME NEW r \in Requests, BrowserSends(r) \/ ProgramSends(r) PROVE UNCHANGED <<inode, complete>>
  BY <1>8 DEF BrowserSends, ProgramSends, disk, assembly
<1>9. CASE BrowserRetries \/ Crashes \/ UNCHANGED vars
  BY <1>3, <1>9 DEF BrowserRetries, Crashes, vars, disk, assembly
<1> QED BY <1>3, <1>4, <1>5, <1>6, <1>7, <1>8, <1>9 DEF Next

LEMMA LoopStep == TypedInv /\ LoopInv /\ [Next]_vars => LoopInv'
<1> SUFFICES ASSUME TypedInv, LoopInv, [Next]_vars PROVE LoopInv'
  OBVIOUS
<1>1. /\ at \in [Requests -> Places] /\ cursor \in [Requests -> 0 .. Total]
      /\ part \in [Files -> [Chunks -> {"absent", "empty", "whole"}]]
  BY DEF TypedInv, TypeOK, Places
<1>2. CASE BrowserRetries \/ UNCHANGED vars
  <2>1. UNCHANGED <<at, part, torn>>
    BY <1>2 DEF BrowserRetries, vars, disk, history
  <2> QED BY <2>1 DEF LoopInv
<1>3. CASE Crashes
  <2>1. ~torn' => ~torn /\ \A r \in Requests : at[r] # "truncated"
    BY <1>3 DEF Crashes, TypedInv, TypeOK
  <2>2. UNCHANGED part /\ \A r \in Requests : at'[r] \notin OnLoop
    BY <1>3, CrashStep, PlaceNames DEF disk
  <2> QED BY <2>1, <2>2 DEF LoopInv
<1> USE PlaceNames, RequestType
<1>4. ASSUME NEW r \in Requests, BrowserSends(r) \/ ProgramSends(r) PROVE LoopInv'
  <2>1. \A s \in Requests : at'[s] = at[s] \/ (at[s] = "unsent" /\ at'[s] = "sent")
    BY <1>1, <1>4, ClientSteps
  <2> QED BY <1>4, <2>1, ClientSteps DEF LoopInv, disk, history
<1>5. ASSUME NEW r \in Requests, Truncates(r) PROVE LoopInv'
  BY <1>1, <1>5 DEF Truncates, LoopInv, LoopFree, Goes
<1>6. ASSUME NEW r \in Requests, Writes(r) PROVE LoopInv'
  BY <1>1, <1>6 DEF Writes, LoopInv, Goes, history
<1>7. ASSUME NEW r \in Requests, Handler(r), ~Truncates(r), ~Writes(r) PROVE LoopInv'
  <2>1. \A s \in Requests : at'[s] = at[s] \/ (at[s] # "truncated" /\ at'[s] \notin OnLoop)
    BY <1>1, <1>7 DEF Handler, RefusesChunk, Receives, RejectsSize, StartsThread, Opens, LooksFor, Reads, Removes,
       MissesPart, Assembled, RejectsName, FindsNoFile, Moves, Scans, Creates, Goes
  <2>2. UNCHANGED part \/ RejectsSize(r) \/ Removes(r)
    BY <1>7 DEF Handler, RefusesChunk, Receives, StartsThread, Opens, LooksFor, Reads,
       MissesPart, Assembled, RejectsName, FindsNoFile, Moves, Scans, Creates, disk
  <2>3. \A f \in Files, i \in Chunks : part'[f][i] \in {part[f][i], "absent"}
    BY <1>1, <2>2 DEF RejectsSize, Removes
  <2>4. torn' = torn
    BY <1>7 DEF Handler, RefusesChunk, Receives, RejectsSize, StartsThread, Opens, LooksFor, Reads, Removes,
       MissesPart, Assembled, RejectsName, FindsNoFile, Moves, Scans, Creates, history
  <2> QED BY <1>1, <2>1, <2>3, <2>4 DEF LoopInv
<1> QED BY <1>2, <1>3, <1>4, <1>5, <1>6, <1>7 DEF Next

LEMMA Shared == Spec => []SharedInv
<1>1. Init => NamesInv /\ LoopInv
  <2> SUFFICES ASSUME Init PROVE NamesInv /\ LoopInv
    OBVIOUS
  <2>1. NamesInv
    BY DEF Init, NamesInv
  <2>2. \A r \in Requests : at[r] \notin OnLoop
    BY PlaceNames DEF Init
  <2>3. \A f \in Files, i \in Chunks : part[f][i] # "empty"
    BY DEF Init
  <2> QED BY <2>1, <2>2, <2>3 DEF LoopInv
<1> QED BY <1>1, TypedInit, TypedStep, NamesStep, LoopStep, PTL DEF Spec, SharedInv

-----------------------------------------------------------------------------
(* One reassembly                                                          *)

Started(r) == cursor[r] > 0 \/ inode[r] # NoRequest \/ at[r] \in OnThread
SentOnce(f) == \A r \in Requests : r.file = f /\ at[r] # "unsent" => r.copy = 1

(* When no chunk is sent twice: only a chunk that has been written has a   *)
(* part, and behind a request that began to put the file together there is *)
(* nobody who has yet to count the parts.                                  *)
PartsAreWritten(f) ==
    \A r \in Requests : r.file = f /\ r.copy = 1 /\ part[f][r.chunk] # "absent" =>
        at[r] \notin {"unsent", "sent", "refused"}
NobodyBehind(f) ==
    \A r, s \in Requests : r.file = f /\ s.file = f /\ s.copy = 1 /\ s # r /\ Started(r) =>
        at[s] \notin {"unsent", "sent"} \cup OnLoop /\ ~Started(s)

SingleInv == \A f \in Files : SentOnce(f) => PartsAreWritten(f) /\ NobodyBehind(f)

LEMMA ChunksCounted == IsFiniteSet(Chunks) /\ Cardinality(Chunks) = Total
BY FS_Interval, UploadAssumption DEF Chunks

LEMMA AllParts ==
    ASSUME TypedInv, NEW r \in Requests, Cardinality(PartsThere(r)) = Total
    PROVE  \A i \in Chunks : part[r.file][i] # "absent"
<1>1. PartsThere(r) = Chunks
  BY ChunksCounted, FS_Subset DEF PartsThere
<1> QED BY <1>1 DEF PartsThere

LEMMA StaysSent ==
    ASSUME TypedInv, [Next]_vars, NEW r \in Requests, at[r] # "unsent"
    PROVE  at'[r] # "unsent"
<1>1. ASSUME NEW s \in Requests, BrowserSends(s) \/ ProgramSends(s) PROVE at'[r] # "unsent"
  BY <1>1, ClientSteps DEF TypedInv, TypeOK
<1>2. ASSUME NEW s \in Requests, Handler(s) PROVE at'[r] # "unsent"
  <2>1. CASE r # s
    BY <1>2, <2>1, HandlerIsLocal DEF Local
  <2>2. CASE r = s
    BY <1>2, <2>2, PlaceNames DEF TypedInv, TypeOK, Handler, RefusesChunk, Truncates, Writes, Receives, RejectsSize,
       StartsThread, Opens, LooksFor, Reads, Removes, MissesPart, Assembled, RejectsName,
       FindsNoFile, Moves, Scans, Creates, Goes
  <2> QED BY <2>1, <2>2
<1>3. CASE BrowserRetries \/ UNCHANGED vars
  BY <1>3 DEF BrowserRetries, vars
<1>4. CASE Crashes
  BY <1>4, CrashStep
<1> QED BY <1>1, <1>2, <1>3, <1>4 DEF Next

(* Only StartsThread makes somebody start.                                 *)
LEMMA Starting ==
    ASSUME TypedInv, NEW r \in Requests, Handler(r), Started(r)'
    PROVE  Started(r) \/ StartsThread(r)
<1>1. /\ at \in [Requests -> Places] /\ cursor[r] \in Nat /\ Fitting(r)
  BY UploadAssumption DEF TypedInv, TypeOK, Places
<1>2. CASE at[r] \in OnThread \/ inode[r] # NoRequest
  BY <1>2 DEF Started
<1>3. CASE at[r] \notin OnThread /\ inode[r] = NoRequest
  <2>1. ~(Opens(r) \/ LooksFor(r) \/ Reads(r) \/ Removes(r) \/ MissesPart(r) \/ Assembled(r) \/ Moves(r))
    BY <1>1, <1>3, PlaceNames, RequestType DEF Opens, LooksFor, Reads, Removes, MissesPart, Assembled,
       Moves, Fitting
  <2>2. CASE RefusesChunk(r) \/ Truncates(r) \/ Writes(r) \/ Receives(r) \/ RejectsSize(r) \/ RejectsName(r)
             \/ FindsNoFile(r) \/ Scans(r) \/ Creates(r)
    BY <1>1, <1>3, <2>2, PlaceNames DEF Started, RefusesChunk, Truncates, Writes, Receives, RejectsSize,
       RejectsName, FindsNoFile, Scans, Creates, Goes, assembly
  <2> QED BY <2>1, <2>2 DEF Handler
<1> QED BY <1>2, <1>3

LEMMA SingleStep == SharedInv /\ SingleInv /\ [Next]_vars => SingleInv'
<1> SUFFICES ASSUME SharedInv, SingleInv, [Next]_vars, NEW f \in Files, SentOnce(f)'
             PROVE  PartsAreWritten(f)' /\ NobodyBehind(f)'
  BY DEF SingleInv
<1>1. /\ at \in [Requests -> Places] /\ TypedInv
      /\ part \in [Files -> [Chunks -> {"absent", "empty", "whole"}]]
      /\ SentOnce(f) /\ PartsAreWritten(f) /\ NobodyBehind(f)
  BY StaysSent DEF SharedInv, TypedInv, TypeOK, Places, SentOnce, SingleInv
<1>2. \A r \in Requests : Started(r) => at[r] \notin {"unsent", "sent"} \cup OnLoop
  BY PlaceNames, UploadAssumption DEF SharedInv, TypedInv, TypeOK, Started, Fitting, Early
<1>3. ASSUME NEW r \in Requests, BrowserSends(r) \/ ProgramSends(r)
      PROVE PartsAreWritten(f)' /\ NobodyBehind(f)'
  <2>1. /\ at[r] = "unsent" /\ at'[r] = "sent" /\ \A s \in Requests : s # r => at'[s] = at[s]
        /\ UNCHANGED <<part, inode, cursor>>
    BY <1>1, <1>3, ClientSteps DEF disk, assembly
  <2>2. \A s \in Requests : Started(s)' => Started(s)
    BY <2>1, PlaceNames DEF Started
  <2> QED BY <1>1, <2>1, <2>2, PlaceNames DEF PartsAreWritten, NobodyBehind
<1>4. ASSUME NEW r \in Requests, Truncates(r) PROVE PartsAreWritten(f)' /\ NobodyBehind(f)'
  <2>1. /\ at[r] = "sent" /\ at'[r] = "truncated" /\ \A s \in Requests : s # r => at'[s] = at[s]
        /\ UNCHANGED <<inode, cursor>>
        /\ \A g \in Files, i \in Chunks :
              part'[g][i] = part[g][i] \/ (g = r.file /\ i = r.chunk)
    BY <1>1, <1>4, PlaceNames, RequestType DEF Truncates, Goes, assembly
  <2>2. \A s \in Requests : Started(s)' => Started(s)
    BY <2>1, PlaceNames DEF Started
  <2>3. r.file = f => r.copy = 1
    BY <1>1, <2>1 DEF SentOnce
  <2>4. PartsAreWritten(f)'
    <3> SUFFICES ASSUME NEW s \in Requests, s.file = f, s.copy = 1,
                        part'[f][s.chunk] # "absent"
                 PROVE  at'[s] \notin {"unsent", "sent", "refused"}
      BY DEF PartsAreWritten
    <3>1. CASE s = r
      BY <2>1, <3>1
    <3>2. CASE s # r
      <4>1. ~(f = r.file /\ s.chunk = r.chunk)
        BY <2>3, <3>2, RequestType DEF Requests
      <4>2. part[f][s.chunk] # "absent"
        BY <2>1, <4>1, RequestType
      <4> QED BY <1>1, <2>1, <3>2, <4>2 DEF PartsAreWritten
    <3> QED BY <3>1, <3>2
  <2>5. NobodyBehind(f)'
    BY <1>1, <1>2, <2>1, <2>2, <2>3 DEF NobodyBehind
  <2> QED BY <2>4, <2>5
<1>5. ASSUME NEW r \in Requests, StartsThread(r) PROVE PartsAreWritten(f)' /\ NobodyBehind(f)'
  <2>1. /\ at[r] = "written" /\ at'[r] = "opening" /\ \A s \in Requests : s # r => at'[s] = at[s]
        /\ UNCHANGED <<part, inode, cursor>>
    BY <1>1, <1>5, PlaceNames DEF StartsThread, Goes, disk, assembly
  <2>2. \A s \in Requests : s # r => (Started(s)' <=> Started(s))
    BY <2>1 DEF Started
  <2>3. CASE r.file = f
    <3>1. \A s \in Requests : s.file = f /\ s.copy = 1 => at[s] \notin {"unsent", "sent"}
      BY <1>1, <1>5, <2>3, AllParts, RequestType DEF StartsThread, PartsAreWritten
    <3>2. \A s \in Requests : s # r => at[s] \notin OnLoop
      BY <2>1, PlaceNames DEF SharedInv, LoopInv
    <3>3. r.copy = 1
      BY <1>1, <2>1, <2>3 DEF SentOnce
    <3>4. \A s \in Requests : s.file = f /\ s # r => ~Started(s)
      BY <1>1, <2>1, <2>3, <3>3, PlaceNames DEF NobodyBehind
    <3>5. PartsAreWritten(f)'
      BY <1>1, <2>1 DEF PartsAreWritten
    <3> QED BY <2>1, <2>2, <3>1, <3>2, <3>4, <3>5 DEF NobodyBehind
  <2>4. CASE r.file # f
    BY <1>1, <2>1, <2>2, <2>4 DEF PartsAreWritten, NobodyBehind
  <2> QED BY <2>3, <2>4
<1>6. ASSUME NEW r \in Requests, Handler(r), ~RefusesChunk(r), ~Truncates(r), ~StartsThread(r)
      PROVE PartsAreWritten(f)' /\ NobodyBehind(f)'
  <2>1. \A s \in Requests : at'[s] = at[s] \/ (s = r /\ at'[s] \notin {"unsent", "sent", "refused"})
    <3>1. CASE Writes(r) \/ Receives(r) \/ RejectsSize(r) \/ Opens(r) \/ LooksFor(r)
      BY <1>1, <3>1, PlaceNames DEF Writes, Receives, RejectsSize, Opens, LooksFor, Goes
    <3>2. CASE Reads(r) \/ Removes(r) \/ MissesPart(r) \/ Assembled(r)
      BY <1>1, <3>2, PlaceNames DEF Reads, Removes, MissesPart, Assembled, Goes
    <3>3. CASE RejectsName(r) \/ FindsNoFile(r) \/ Moves(r) \/ Scans(r) \/ Creates(r)
      BY <1>1, <3>3, PlaceNames DEF RejectsName, FindsNoFile, Moves, Scans, Creates, Goes
    <3> QED BY <1>6, <3>1, <3>2, <3>3 DEF Handler
  <2>2. at'[r] \notin OnLoop \/ at[r] \in OnLoop
    BY <1>1, <1>6, PlaceNames DEF Handler, Writes, Receives, RejectsSize, Opens,
       LooksFor, Reads, Removes, MissesPart, Assembled, RejectsName, FindsNoFile, Moves, Scans,
       Creates, Goes
  <2>3. \A s \in Requests : Started(s)' => Started(s)
    <3>1. \A s \in Requests : s # r => Started(s)' = Started(s)
      BY <1>1, <1>6, HandlerIsLocal DEF Local, Started
    <3> QED BY <1>1, <1>6, <3>1, Starting
  <2>4. \A i \in Chunks : part'[f][i] = "absent" \/ part'[f][i] = part[f][i]
                          \/ (Writes(r) /\ r.file = f /\ r.chunk = i)
    <3>1. CASE Writes(r)
      BY <1>1, <3>1, RequestType DEF Writes
    <3>2. CASE Removes(r) \/ RejectsSize(r)
      BY <1>1, <3>2, RequestType DEF Removes, RejectsSize
    <3>3. CASE ~(Writes(r) \/ Removes(r) \/ RejectsSize(r))
      BY <1>6, <3>3 DEF Handler, Receives, Opens, LooksFor, Reads, MissesPart, Assembled, RejectsName,
         FindsNoFile, Moves, Scans, Creates, disk
    <3> QED BY <3>1, <3>2, <3>3
  <2>5. Writes(r) /\ r.file = f => at[r] = "truncated" /\ r.copy = 1
    BY <1>1 DEF Writes, SentOnce
  <2>6. PartsAreWritten(f)'
    BY <1>1, <2>1, <2>4, <2>5, RequestType DEF PartsAreWritten
  <2>7. NobodyBehind(f)'
    BY <1>1, <2>1, <2>2, <2>3 DEF NobodyBehind
  <2> QED BY <2>6, <2>7
<1>7. CASE BrowserRetries \/ UNCHANGED vars
  BY <1>1, <1>7 DEF BrowserRetries, vars, disk, assembly, PartsAreWritten, NobodyBehind, Started
<1>8. CASE Crashes
  <2>1. /\ UNCHANGED <<part, inode, cursor>>
        /\ \A s \in Requests : at'[s] = at[s] \/ (at[s] # "unsent" /\ at'[s] = "dead")
    BY <1>1, <1>8, CrashStep DEF disk, assembly
  <2>2. \A s \in Requests : Started(s)' => Started(s)
    BY <2>1, PlaceNames DEF Started
  <2> QED BY <1>1, <2>1, <2>2, PlaceNames DEF PartsAreWritten, NobodyBehind
<1>9. ASSUME NEW r \in Requests, RefusesChunk(r) PROVE PartsAreWritten(f)' /\ NobodyBehind(f)'
  <2>1. /\ at[r] = "sent" /\ at'[r] = "refused" /\ \A s \in Requests : s # r => at'[s] = at[s]
        /\ UNCHANGED <<part, inode, cursor>>
    BY <1>1, <1>9, PlaceNames DEF RefusesChunk, Goes, disk, assembly
  <2>2. \A s \in Requests : Started(s)' => Started(s)
    BY <2>1, PlaceNames DEF Started
  <2> QED BY <1>1, <2>1, <2>2, PlaceNames DEF PartsAreWritten, NobodyBehind
<1> QED BY <1>3, <1>4, <1>5, <1>6, <1>7, <1>8, <1>9 DEF Next

LEMMA AtMostOne ==
    ASSUME NEW S, \A x, y \in S : x = y
    PROVE  Cardinality(S) <= 1
<1>1. CASE S = {}
  BY <1>1, FS_EmptySet
<1>2. CASE S # {}
  <2>1. PICK x : x \in S
    BY <1>2
  <2>2. S = {x}
    BY <2>1
  <2> QED BY <2>2, FS_Singleton
<1> QED BY <1>1, <1>2

LEMMA Single == Spec => []SingleInv
<1>1. Init => SingleInv
  <2> SUFFICES ASSUME Init PROVE SingleInv
    OBVIOUS
  <2>1. \A f \in Files, i \in Chunks : part[f][i] = "absent"
    BY DEF Init
  <2>2. \A r \in Requests : ~Started(r)
    BY PlaceNames DEF Init, Started
  <2> QED BY <2>1, <2>2, RequestType DEF SingleInv, PartsAreWritten, NobodyBehind
<1> QED BY <1>1, Shared, SingleStep, PTL DEF Spec

(* Chunks that are sent once, in whatever order and however many at a      *)
(* time, are put together by one request: the last to write its part.      *)
THEOREM ReassembledOnce == Spec => []OneReassembly
<1>1. SingleInv => OneReassembly
  <2> SUFFICES ASSUME SingleInv, NEW f \in Files, \A r \in Sent(f) : r.copy = 1
               PROVE  Cardinality({r \in Sent(f) : Started(r)}) <= 1
    BY DEF OneReassembly, Started
  <2>1. SentOnce(f)
    BY DEF Sent, SentOnce
  <2>2. \A r, s \in {q \in Sent(f) : Started(q)} : r = s
    BY <2>1 DEF SingleInv, NobodyBehind, Sent
  <2> QED BY <2>2, AtMostOne
<1> QED BY <1>1, Single, PTL

-----------------------------------------------------------------------------
(* What a document is made of                                              *)

(* As long as no chunk was written while its file was put together, the    *)
(* request that puts a file together has the file to itself.               *)
BusyAlone ==
    ~overlapped =>
        \A r, s \in Requests :
            r.file = s.file /\ at[r] \in Busy /\ at[s] \in Busy \cup OnLoop => r = s

(* What has been read so far is what has been written: the first n chunks. *)
Holds(r, n) ==
    /\ inode[r] \in Requests
    /\ hashed[r] = UpTo(n) /\ bytes[inode[r]] = UpTo(n)

HasRead(r) == IF at[r] = "removing" THEN cursor[r] + 1 ELSE cursor[r]

(* What a request finds and leaves, by where it is.                        *)
Good(r) ==
    /\ at[r] = "opening" => \A i \in Chunks : part[r.file][i] = "whole"
    /\ at[r] \in Working =>
          /\ complete[r.file] = inode[r]
          /\ Holds(r, HasRead(r))
          /\ \A i \in Chunks : i >= cursor[r] => part[r.file][i] = "whole"
    /\ at[r] = "assembled" => complete[r.file] = inode[r] /\ Holds(r, Total)
    /\ at[r] \in {"moved", "scanned", "created"} => complete[r.file] # inode[r] /\ Holds(r, Total)

GoodInv == ~overlapped /\ ~torn => \A r \in Requests : Good(r)

WholeInv == SharedInv /\ BusyAlone /\ GoodInv

(* The excuses, once there, remain.                                        *)
LEMMA ExcusesStay == TypedInv /\ [Next]_vars => (overlapped => overlapped') /\ (torn => torn')
<1> SUFFICES ASSUME TypedInv, [Next]_vars PROVE (overlapped => overlapped') /\ (torn => torn')
  OBVIOUS
<1>1. overlapped \in BOOLEAN /\ torn \in BOOLEAN
  BY DEF TypedInv, TypeOK
<1>2. ASSUME NEW r \in Requests, Truncates(r) PROVE (overlapped => overlapped') /\ (torn => torn')
  BY <1>1, <1>2 DEF Truncates
<1>3. ASSUME NEW r \in Requests, BrowserSends(r) \/ ProgramSends(r) \/ Handler(r), ~Truncates(r)
      PROVE  UNCHANGED <<overlapped, torn>>
  BY <1>3 DEF BrowserSends, ProgramSends, Handler, RefusesChunk, Writes, Receives, RejectsSize,
     StartsThread, Opens, LooksFor, Reads, Removes, MissesPart, Assembled, RejectsName,
     FindsNoFile, Moves, Scans, Creates, history
<1>4. CASE BrowserRetries \/ UNCHANGED vars
  BY <1>4 DEF BrowserRetries, vars, history
<1>5. CASE Crashes
  BY <1>1, <1>5 DEF Crashes
<1> QED BY <1>2, <1>3, <1>4, <1>5 DEF Next

LEMMA BusyStep == SharedInv /\ BusyAlone /\ [Next]_vars => BusyAlone'
<1> SUFFICES ASSUME SharedInv, BusyAlone, [Next]_vars, ~overlapped'
             PROVE  \A r, s \in Requests :
                      r.file = s.file /\ at'[r] \in Busy /\ at'[s] \in Busy \cup OnLoop => r = s
  BY DEF BusyAlone
<1>1. TypedInv /\ LoopInv /\ at \in [Requests -> Places]
  BY DEF SharedInv, TypedInv, TypeOK, Places
<1>2. \A r, s \in Requests :
         r.file = s.file /\ at[r] \in Busy /\ at[s] \in Busy \cup OnLoop => r = s
  BY <1>1, ExcusesStay DEF BusyAlone
<1> USE PlaceNames
<1>3. ASSUME NEW r \in Requests, BrowserSends(r) \/ ProgramSends(r)
      PROVE  \A s \in Requests : at'[s] \in Busy \cup OnLoop => at'[s] = at[s]
  BY <1>1, <1>3, ClientSteps
<1>4. ASSUME NEW q \in Requests, Truncates(q)
      PROVE  \A r, s \in Requests :
               r.file = s.file /\ at'[r] \in Busy /\ at'[s] \in Busy \cup OnLoop => r = s
  <2>1. \A s \in Requests : s # q /\ s.file = q.file => at[s] \notin Busy
    BY <1>1, <1>4 DEF Truncates
  <2>2. at'[q] = "truncated" /\ \A s \in Requests : s # q => at'[s] = at[s]
    BY <1>1, <1>4 DEF Truncates, Goes
  <2> QED BY <1>2, <2>1, <2>2
<1>5. ASSUME NEW q \in Requests, StartsThread(q)
      PROVE  \A r, s \in Requests :
               r.file = s.file /\ at'[r] \in Busy /\ at'[s] \in Busy \cup OnLoop => r = s
  <2>1. at[q] = "written" /\ at'[q] = "opening" /\ \A s \in Requests : s # q => at'[s] = at[s]
    BY <1>1, <1>5 DEF StartsThread, Goes
  <2>2. \A s \in Requests : s # q => at[s] \notin OnLoop
    BY <1>1, <2>1 DEF LoopInv
  <2> QED BY <1>2, <2>1, <2>2
<1>6. ASSUME NEW q \in Requests, Handler(q), ~Truncates(q), ~StartsThread(q)
      PROVE  \A s \in Requests : /\ at'[s] \in Busy => at[s] \in Busy
                                 /\ at'[s] \in OnLoop => at[s] \in OnLoop
  BY <1>1, <1>6 DEF Handler, RefusesChunk, Writes, Receives, RejectsSize, Opens, LooksFor, Reads, Removes,
     MissesPart, Assembled, RejectsName, FindsNoFile, Moves, Scans, Creates, Goes
<1>7. CASE BrowserRetries \/ UNCHANGED vars
  BY <1>2, <1>7 DEF BrowserRetries, vars
<1>8. CASE Crashes
  BY <1>1, <1>2, <1>8, CrashStep
<1> QED BY <1>2, <1>3, <1>4, <1>5, <1>6, <1>7, <1>8 DEF Next

(* The others leave alone what a request needs: who puts a file together   *)
(* has it for itself, and an inode that was moved is written no more.      *)
Spared(r) ==
    /\ at[r] \in Busy =>
          /\ part'[r.file] = part[r.file] /\ complete'[r.file] = complete[r.file]
          /\ inode[r] \in Requests => bytes'[inode[r]] = bytes[inode[r]]
    /\ at[r] \in {"moved", "scanned", "created"} =>
          complete'[r.file] # inode[r] /\ bytes'[inode[r]] = bytes[inode[r]]

LEMMA OthersSpare ==
    ASSUME WholeInv, ~overlapped', ~overlapped, ~torn,
           NEW r \in Requests, NEW q \in Requests, q # r, Handler(q)
    PROVE  Spared(r)
<1>1. /\ TypedInv /\ NamesInv /\ Good(r) /\ Good(q) /\ Fitting(r) /\ Fitting(q)
      /\ q.file = r.file /\ at[r] \in Busy => at[q] \notin Busy \cup OnLoop
  BY DEF WholeInv, SharedInv, TypedInv, BusyAlone, GoodInv
<1>2. /\ complete \in [Files -> Requests \cup {NoRequest}] /\ part \in [Files -> [Chunks -> {"absent", "empty", "whole"}]]
      /\ bytes \in [Requests -> Seq(Nat)]
      /\ q.file \in Files /\ r.file \in Files /\ NoRequest \notin Requests
  BY <1>1, RequestType DEF TypedInv, TypeOK
<1>3. inode[r] # NoRequest => inode[r].file = r.file /\ at[inode[r]] \notin Early
  BY <1>1 DEF NamesInv
<1>4. at[r] \in {"moved", "scanned", "created"} => inode[r] \in Requests /\ complete[r.file] # inode[r]
  BY <1>1 DEF Good, Holds
<1> USE PlaceNames
<1>5. CASE Truncates(q) \/ Writes(q) \/ RejectsSize(q) \/ Removes(q)
  <2>1. /\ UNCHANGED <<complete, bytes>> /\ at[q] \in Busy \cup OnLoop \cup {"sent"}
        /\ r.file # q.file => part'[r.file] = part[r.file]
    BY <1>2, <1>5 DEF Truncates, Writes, RejectsSize, Removes
  <2>2. at[q] = "sent" => (r.file = q.file => at[r] \notin Busy)
    BY <1>1, <1>5 DEF Truncates, Writes, RejectsSize, Removes, WholeInv, SharedInv, TypedInv, TypeOK
  <2> QED BY <1>1, <1>4, <2>1, <2>2 DEF Spared
<1>6. CASE Opens(q)
  <2> DEFINE i == IF complete[q.file] = NoRequest THEN q ELSE complete[q.file]
  <2>1. /\ complete' = [complete EXCEPT ![q.file] = i] /\ bytes' = [bytes EXCEPT ![i] = << >>]
        /\ UNCHANGED part /\ at[q] = "opening"
    BY <1>6 DEF Opens
  <2>2. i.file = q.file /\ (i = q \/ i = complete[q.file]) /\ at[q] \in Early
    BY <1>1, <1>2, <2>1 DEF NamesInv, Early
  <2>3. inode[r] \in Requests => (r.file # q.file => inode[r] # i) /\ inode[r] # q
    BY <1>2, <1>3, <2>2
  <2>4. r.file = q.file => at[r] \notin Busy
    BY <1>1, <2>1
  <2>5. at[r] \in {"moved", "scanned", "created"} => inode[r] # i
    BY <1>4, <2>2, <2>3
  <2> HIDE DEF i
  <2> QED BY <1>2, <1>4, <2>1, <2>3, <2>4, <2>5 DEF Spared
<1>7. CASE Reads(q)
  <2>1. /\ UNCHANGED <<part, complete>> /\ at[q] \in Working /\ complete[q.file] = inode[q]
        /\ inode[q] \in Requests /\ inode[q].file = q.file
    BY <1>1, <1>2, <1>7 DEF Reads, Good, Working, Holds, NamesInv
  <2>2. \A i \in Requests : i # inode[q] => bytes'[i] = bytes[i]
    BY <1>2, <1>7 DEF Reads
  <2>3. inode[r] \in Requests => (r.file # q.file => inode[r] # inode[q])
    BY <1>2, <1>3, <2>1
  <2>4. at[r] \in Busy => r.file # q.file
    BY <1>1, <2>1 DEF Working
  <2> QED BY <1>4, <2>1, <2>2, <2>3, <2>4 DEF Spared
<1>8. CASE RejectsName(q) \/ Moves(q)
  <2>1. UNCHANGED <<part, bytes>> /\ complete' = [complete EXCEPT ![q.file] = NoRequest]
        /\ at[q] = "assembled"
    BY <1>8 DEF RejectsName, Moves
  <2> QED BY <1>1, <1>2, <1>4, <2>1 DEF Spared
<1>9. CASE Others(q)
  BY <1>1, <1>4, <1>9, OthersKeep DEF Spared
<1> QED BY <1>5, <1>6, <1>7, <1>8, <1>9 DEF Handler, Others

LEMMA OthersStayGood ==
    ASSUME WholeInv, ~overlapped', ~overlapped, ~torn,
           NEW r \in Requests, NEW q \in Requests, q # r, Handler(q)
    PROVE  Good(r)'
<1>1. TypedInv /\ Good(r) /\ Spared(r)
  BY OthersSpare DEF WholeInv, SharedInv, GoodInv
<1>2. at'[r] = at[r] /\ inode'[r] = inode[r] /\ cursor'[r] = cursor[r] /\ hashed'[r] = hashed[r]
  BY <1>1, HandlerIsLocal DEF Local
<1>3. Working \subseteq Busy /\ "opening" \in Busy /\ "assembled" \in Busy
  BY PlaceNames DEF Working
<1>4. HasRead(r)' = HasRead(r)
  BY <1>2 DEF HasRead
<1>5. at[r] \in Working \cup {"assembled", "moved", "scanned", "created"} =>
         inode[r] \in Requests /\ bytes'[inode[r]] = bytes[inode[r]]
  BY <1>1, <1>3 DEF Good, Holds, Spared
<1>6. CASE at[r] = "opening"
  BY <1>1, <1>2, <1>3, <1>6 DEF Good, Spared, Working
<1>7. CASE at[r] \in Working
  <2>1. /\ complete[r.file] = inode[r] /\ Holds(r, HasRead(r))
        /\ \A i \in Chunks : i >= cursor[r] => part[r.file][i] = "whole"
    BY <1>1, <1>7 DEF Good
  <2>2. Holds(r, HasRead(r))'
    BY <1>2, <1>4, <1>5, <1>7, <2>1 DEF Holds
  <2>3. /\ complete'[r.file] = inode'[r]
        /\ \A i \in Chunks : i >= cursor'[r] => part'[r.file][i] = "whole"
    BY <1>1, <1>2, <1>3, <1>7, <2>1 DEF Spared
  <2> QED BY <1>2, <1>7, <2>2, <2>3 DEF Good, Working
<1>8. CASE at[r] \in {"assembled", "moved", "scanned", "created"}
  <2>1. Holds(r, Total) /\ (at[r] = "assembled" => complete[r.file] = inode[r])
    BY <1>1, <1>8 DEF Good
  <2>2. Holds(r, Total)'
    BY <1>2, <1>5, <1>8, <2>1 DEF Holds
  <2>3. /\ at[r] = "assembled" => complete'[r.file] = inode'[r]
        /\ at[r] # "assembled" => complete'[r.file] # inode'[r]
    BY <1>1, <1>2, <1>3, <1>8, <2>1 DEF Spared
  <2> QED BY <1>2, <1>8, <2>2, <2>3 DEF Good, Working
<1>9. CASE at[r] \notin {"opening", "assembled", "moved", "scanned", "created"} \cup Working
  BY <1>2, <1>9 DEF Good
<1> QED BY <1>6, <1>7, <1>8, <1>9

LEMMA OwnStepGood ==
    ASSUME WholeInv, ~overlapped, ~torn, NEW r \in Requests, Handler(r)
    PROVE  Good(r)'
<1>1. TypedInv /\ NamesInv /\ LoopInv /\ Good(r) /\ Fitting(r)
  BY DEF WholeInv, SharedInv, TypedInv, GoodInv
<1>2. /\ at \in [Requests -> Places] /\ complete \in [Files -> Requests \cup {NoRequest}]
      /\ part \in [Files -> [Chunks -> {"absent", "empty", "whole"}]]
      /\ inode \in [Requests -> Requests \cup {NoRequest}]
      /\ bytes \in [Requests -> Seq(Nat)] /\ hashed \in [Requests -> Seq(Nat)]
      /\ cursor \in [Requests -> 0 .. Total] /\ Total \in Nat
      /\ r.file \in Files /\ NoRequest \notin Requests
  BY <1>1, RequestType, UploadAssumption DEF TypedInv, TypeOK, Places
<1> USE DEF Working, Early
<1>3. CASE RefusesChunk(r) \/ Truncates(r) \/ Writes(r) \/ Receives(r) \/ RejectsSize(r) \/ MissesPart(r)
           \/ RejectsName(r) \/ FindsNoFile(r)
  BY <1>2, <1>3 DEF RefusesChunk, Truncates, Writes, Receives, RejectsSize, MissesPart, RejectsName, FindsNoFile,
     Goes, Good
<1>4. CASE StartsThread(r)
  <2>1. at[r] = "written" /\ at'[r] = "opening" /\ UNCHANGED part
    BY <1>2, <1>4 DEF StartsThread, Goes, disk
  <2>2. \A i \in Chunks : part[r.file][i] # "absent"
    BY <1>1, <1>4, AllParts DEF StartsThread
  <2>3. \A s \in Requests : at[s] # "truncated"
    BY <1>1, <2>1, PlaceNames DEF LoopInv
  <2>4. \A i \in Chunks : part[r.file][i] # "empty"
    BY <1>1, <1>2, <2>3 DEF LoopInv
  <2>5. \A i \in Chunks : part[r.file][i] = "whole"
    BY <1>2, <2>2, <2>4
  <2> QED BY <2>1, <2>5 DEF Good
<1>5. CASE Opens(r)
  <2> DEFINE i == IF complete[r.file] = NoRequest THEN r ELSE complete[r.file]
  <2>1. i \in Requests
    BY <1>2
  <2>2. /\ complete'[r.file] = i /\ inode'[r] = i /\ bytes'[i] = << >> /\ UNCHANGED <<part, cursor, hashed>>
        /\ at[r] = "opening" /\ at'[r] = "looking"
    BY <1>2, <1>5, <2>1 DEF Opens, Goes
  <2>3. hashed[r] = << >> /\ cursor[r] = 0 /\ \A k \in Chunks : part[r.file][k] = "whole"
    BY <1>1, <2>2 DEF Fitting, Good
  <2> HIDE DEF i
  <2> QED BY <2>1, <2>2, <2>3, UpToExtends DEF Good, Holds, HasRead
<1>6. CASE LooksFor(r)
  <2>1. cursor[r] \in Chunks /\ cursor[r] >= cursor[r]
    BY <1>2, <1>6, RequestType DEF LooksFor, AllSeen
  <2>2. part[r.file][cursor[r]] = "whole"
    BY <1>1, <1>6, <2>1 DEF LooksFor, Good
  <2>3. /\ at[r] = "looking" /\ at'[r] = "reading"
        /\ UNCHANGED <<part, complete, bytes, inode, cursor, hashed>>
    BY <1>2, <1>6, <2>2 DEF LooksFor, Goes, disk
  <2> QED BY <1>1, <2>3 DEF Good, Holds, HasRead
<1>7. CASE Reads(r)
  <2>1. cursor[r] \in Chunks /\ cursor[r] >= cursor[r] /\ at[r] = "reading" /\ at'[r] = "removing"
    BY <1>1, <1>2, <1>7, RequestType DEF Reads, Fitting, Goes
  <2>2. /\ complete[r.file] = inode[r] /\ inode[r] \in Requests
        /\ hashed[r] = UpTo(cursor[r]) /\ bytes[inode[r]] = UpTo(cursor[r])
        /\ \A i \in Chunks : i >= cursor[r] => part[r.file][i] = "whole"
    BY <1>1, <2>1 DEF Good, Holds, HasRead
  <2>3. /\ hashed'[r] = Append(hashed[r], cursor[r])
        /\ bytes'[inode[r]] = Put(bytes[inode[r]], Len(hashed[r]) + 1, cursor[r])
        /\ UNCHANGED <<part, complete, inode, cursor>>
    BY <1>2, <1>7, <2>1, <2>2 DEF Reads
  <2> DEFINE n == cursor[r]
  <2>4. n \in Nat
    BY <1>2, <2>1, RequestType
  <2>5. Append(UpTo(n), n) = UpTo(n + 1) /\ Put(UpTo(n), Len(UpTo(n)) + 1, n) = UpTo(n + 1)
    <3> HIDE DEF n
    <3>1. Len(UpTo(n)) = n
      BY <2>4 DEF UpTo
    <3> QED BY <2>4, <3>1, UpToExtends
  <2>6. hashed'[r] = UpTo(cursor[r] + 1) /\ bytes'[inode[r]] = UpTo(cursor[r] + 1)
    BY <2>2, <2>3, <2>5
  <2> QED BY <2>1, <2>2, <2>3, <2>6 DEF Good, Holds, HasRead
<1>8. CASE Removes(r)
  <2>1. cursor[r] \in Chunks /\ cursor[r] \in Nat /\ at[r] = "removing" /\ at'[r] = "looking"
    BY <1>1, <1>2, <1>8, RequestType DEF Removes, Fitting, Goes
  <2>2. /\ cursor'[r] = cursor[r] + 1 /\ UNCHANGED <<complete, bytes, inode, hashed>>
        /\ \A i \in Chunks : i # cursor[r] => part'[r.file][i] = part[r.file][i]
    BY <1>2, <1>8, <2>1 DEF Removes
  <2>3. complete[r.file] = inode[r] /\ Holds(r, cursor[r] + 1)
        /\ \A i \in Chunks : i >= cursor[r] => part[r.file][i] = "whole"
    BY <1>1, <2>1 DEF Good, HasRead
  <2>4. \A i \in Chunks : i >= cursor'[r] => part'[r.file][i] = "whole"
    BY <2>1, <2>2, <2>3, RequestType
  <2> QED BY <2>1, <2>2, <2>3, <2>4 DEF Good, Holds, HasRead
<1>9. CASE Assembled(r)
  <2>1. /\ at[r] = "looking" /\ at'[r] = "assembled" /\ cursor[r] = Total
        /\ UNCHANGED <<complete, bytes, inode, hashed>>
    BY <1>2, <1>9 DEF Assembled, AllSeen, Goes, disk, assembly
  <2> QED BY <1>1, <2>1 DEF Good, Holds, HasRead
<1>10. CASE Moves(r)
  <2>1. /\ at[r] = "assembled" /\ at'[r] = "moved" /\ inode'[r] = complete[r.file]
        /\ complete'[r.file] = NoRequest /\ UNCHANGED <<bytes, hashed>>
    BY <1>2, <1>10 DEF Moves, Goes
  <2> QED BY <1>1, <1>2, <2>1 DEF Good, Holds, HasRead
<1>11. CASE Scans(r) \/ Creates(r)
  <2>1. /\ at[r] \in {"moved", "scanned"} /\ at'[r] \in {"scanned", "created", "rejected", "failed"}
        /\ UNCHANGED <<complete, bytes, inode, hashed>>
    BY <1>2, <1>11 DEF Scans, Creates, Goes, disk, assembly
  <2> QED BY <1>1, <2>1 DEF Good, Holds, HasRead
<1> QED BY <1>3, <1>4, <1>5, <1>6, <1>7, <1>8, <1>9, <1>10, <1>11 DEF Handler

LEMMA GoodStep == WholeInv /\ [Next]_vars => GoodInv'
<1> SUFFICES ASSUME WholeInv, [Next]_vars, ~overlapped', ~torn', NEW r \in Requests
             PROVE  Good(r)'
  BY DEF GoodInv
<1>1. TypedInv /\ ~overlapped /\ ~torn
  BY ExcusesStay DEF WholeInv, SharedInv
<1>2. Good(r)
  BY <1>1 DEF WholeInv, GoodInv
<1>3. ASSUME NEW q \in Requests, BrowserSends(q) \/ ProgramSends(q) PROVE Good(r)'
  <2>1. /\ UNCHANGED <<part, complete, bytes, inode, cursor, hashed>>
        /\ at'[r] \in {at[r], "sent"}
    BY <1>1, <1>3, ClientSteps DEF disk, assembly, TypedInv, TypeOK
  <2> QED BY <1>2, <2>1 DEF Good, Holds, HasRead, Working
<1>4. ASSUME NEW q \in Requests, Handler(q) PROVE Good(r)'
  BY <1>1, <1>4, OwnStepGood, OthersStayGood
<1>5. CASE BrowserRetries \/ UNCHANGED vars
  <2>1. UNCHANGED <<at, part, complete, bytes, inode, cursor, hashed>>
    BY <1>5 DEF BrowserRetries, vars, disk, assembly
  <2> QED BY <1>2, <2>1 DEF Good, Holds, HasRead, Working
<1>6. CASE Crashes
  <2>1. /\ UNCHANGED <<part, complete, bytes, inode, cursor, hashed>>
        /\ at'[r] \in {at[r], "dead"}
    BY <1>1, <1>6, CrashStep DEF disk, assembly
  <2> QED BY <1>2, <2>1 DEF Good, Holds, HasRead, Working
<1> QED BY <1>3, <1>4, <1>5, <1>6 DEF Next

LEMMA Whole == Spec => []WholeInv
<1>1. Init => BusyAlone /\ GoodInv
  <2> SUFFICES ASSUME Init PROVE BusyAlone /\ GoodInv
    OBVIOUS
  <2>1. \A r \in Requests : at[r] = "unsent"
    BY DEF Init
  <2> QED BY <2>1, PlaceNames DEF BusyAlone, GoodInv, Good, Working
<1>2. WholeInv /\ [Next]_vars => BusyAlone' /\ GoodInv'
  BY BusyStep, GoodStep DEF WholeInv
<1> QED BY <1>1, <1>2, Shared, PTL DEF Spec, WholeInv

(* However many chunks there are, in whatever order they come, and also    *)
(* after a crash: a document holds them all in their order, and its hash   *)
(* is the one of its file.  The two excuses are the only ones.             *)
THEOREM WholeDocuments == Spec => []DocumentsWhole
<1>1. WholeInv => DocumentsWhole
  <2> SUFFICES ASSUME WholeInv, ~overlapped, ~torn, NEW r \in Requests, at[r] = "created"
               PROVE  hashed[r] = UpTo(Total) /\ bytes[inode[r]] = UpTo(Total)
    BY DEF DocumentsWhole, Created, UpTo
  <2>1. Good(r)
    BY DEF WholeInv, GoodInv
  <2> QED BY <2>1 DEF Good, Holds
<1> QED BY <1>1, Whole, PTL

-----------------------------------------------------------------------------
(* Nothing is left behind                                                  *)

(* A client sends each chunk of every file once, or has a single file; as  *)
(* long as no chunk comes twice, none comes during a reassembly.           *)
ClientInv ==
    /\ client \in {"browser", "api"}
    /\ \A r \in Requests : at[r] # "unsent" =>
          (client = "browser" => r.copy = 1) /\ (client = "api" => r.file = 1)
    /\ faults = 0 => ~torn
    /\ (\A f \in Files : SentOnce(f)) => ~overlapped

First(f) == {r \in Requests : r.file = f /\ r.copy = 1}

Waiting == {"unsent", "sent", "truncated", "written", "refused", "received"}
Leading == {"opening", "looking", "reading", "removing", "assembled",
            "moved", "scanned", "created", "rejected", "failed"}

Gone(f) == \A i \in Chunks : part[f][i] = "absent"

(* Before all parts are there, somebody has yet to count them, or a chunk  *)
(* was refused and they never will be.                                     *)
StillWaiting(f) ==
    /\ complete[f] = NoRequest
    /\ \A r \in First(f) :
          /\ at[r] \in Waiting
          /\ at[r] \in {"truncated", "written", "received"} => part[f][r.chunk] # "absent"
    /\ \E r \in First(f) : at[r] # "received"

(* Then one request is left to remove them, as far as it has come.         *)
Leads(r) ==
    /\ at[r] \in Leading
    /\ \A s \in First(r.file) : s # r => at[s] = "received"
    /\ at[r] \in Working => \A i \in Chunks : i < cursor[r] => part[r.file][i] = "absent"
    /\ at[r] = "assembled" => Gone(r.file)
    /\ at[r] \in {"moved", "scanned", "created", "rejected", "failed"} =>
          Gone(r.file) /\ (complete[r.file] # NoRequest => ~genuine)

Progress(f) == StillWaiting(f) \/ \E r \in First(f) : Leads(r)

LeftInv == faults = 0 => \A f \in Files : SentOnce(f) => Progress(f)

LEMMA ClientInit == Init => ClientInv
<1> SUFFICES ASSUME Init PROVE ClientInv
  OBVIOUS
<1>1. client \in {"browser", "api"}
  BY UploadAssumption DEF Init
<1>2. /\ \A r \in Requests : at[r] = "unsent"
      /\ ~torn /\ ~overlapped
  BY DEF Init
<1> QED BY <1>1, <1>2 DEF ClientInv

LEMMA LeftInit == Init => LeftInv
<1> SUFFICES ASSUME Init, NEW f \in Files PROVE StillWaiting(f)
  BY DEF LeftInv, Progress
<1>1. /\ \A r \in Requests : at[r] = "unsent"
      /\ complete[f] = NoRequest
  BY DEF Init
<1>2. [file |-> f, chunk |-> 0, copy |-> 1] \in First(f)
  BY UploadAssumption DEF First, Requests, Chunks
<1> QED BY <1>1, <1>2 DEF StillWaiting, Waiting, First

(* Faults are counted, so that without them the service never went down.   *)
LEMMA FaultsStay ==
    ASSUME TypedInv, [Next]_vars, faults' = 0
    PROVE  faults = 0 /\ ~Crashes
<1>1. faults \in Nat
  BY DEF TypedInv, TypeOK
<1>2. UNCHANGED faults \/ faults' = faults + 1
  <2>1. ASSUME NEW r \in Requests, BrowserSends(r) \/ ProgramSends(r) PROVE UNCHANGED faults
    BY <2>1 DEF BrowserSends, ProgramSends
  <2>2. ASSUME NEW r \in Requests, Handler(r) PROVE UNCHANGED faults \/ faults' = faults + 1
    BY <2>2 DEF Handler, RefusesChunk, Truncates, Writes, Receives, RejectsSize, StartsThread, Opens,
       LooksFor, Reads, Removes, MissesPart, Assembled, RejectsName, FindsNoFile, Moves,
       Scans, Creates, Fault
  <2>3. CASE BrowserRetries \/ Crashes \/ UNCHANGED vars
    BY <2>3 DEF BrowserRetries, Crashes, Fault, vars
  <2> QED BY <2>1, <2>2, <2>3 DEF Next
<1>3. Crashes => faults' = faults + 1
  BY DEF Crashes, Fault
<1> QED BY <1>1, <1>2, <1>3

LEMMA ClientStep == SharedInv /\ SingleInv /\ ClientInv /\ [Next]_vars => ClientInv'
<1> SUFFICES ASSUME SharedInv, SingleInv, ClientInv, [Next]_vars PROVE ClientInv'
  OBVIOUS
<1>1. TypedInv /\ at \in [Requests -> Places] /\ overlapped \in BOOLEAN
  BY DEF SharedInv, TypedInv, TypeOK, Places
<1>2. client' = client
  BY <1>1, HandlerIsLocal DEF Next, Local, BrowserSends, ProgramSends, BrowserRetries, Crashes, vars,
     fixed
<1>3. ASSUME NEW r \in Requests, at'[r] # "unsent"
      PROVE  (client = "browser" => r.copy = 1) /\ (client = "api" => r.file = 1)
  <2>1. CASE at[r] # "unsent"
    BY <2>1 DEF ClientInv
  <2>2. CASE at[r] = "unsent"
    <3>1. ASSUME NEW q \in Requests, BrowserSends(q) \/ ProgramSends(q) PROVE q = r
      BY <1>1, <1>3, <2>2, <3>1, ClientSteps
    <3>2. ASSUME NEW q \in Requests PROVE ~Handler(q)
      BY <1>1, <1>3, <2>2, HandlerIsLocal DEF Local
    <3>3. ~(BrowserRetries \/ Crashes \/ UNCHANGED vars)
      BY <1>1, <1>3, <2>2, CrashStep DEF BrowserRetries, vars
    <3>4. BrowserSends(r) \/ ProgramSends(r)
      BY <3>1, <3>2, <3>3 DEF Next
    <3> QED BY <3>4 DEF BrowserSends, ProgramSends
  <2> QED BY <2>1, <2>2
<1>4. ASSUME faults' = 0 PROVE ~torn'
  <2>1. faults = 0 /\ ~Crashes
    BY <1>1, <1>4, FaultsStay
  <2>2. torn' = torn
    BY <2>1 DEF Next, Handler, BrowserSends, ProgramSends, BrowserRetries, vars, RefusesChunk, Truncates, Writes,
       Receives, RejectsSize, StartsThread, Opens, LooksFor, Reads, Removes, MissesPart, Assembled,
       RejectsName, FindsNoFile, Moves, Scans, Creates, history
  <2> QED BY <2>1, <2>2 DEF ClientInv
<1>5. ASSUME \A f \in Files : SentOnce(f)' PROVE ~overlapped'
  <2>1. \A f \in Files : SentOnce(f)
    BY <1>1, <1>5, StaysSent DEF SentOnce
  <2>2. ~overlapped
    BY <2>1 DEF ClientInv
  <2>3. ASSUME NEW q \in Requests, Truncates(q), NEW s \in Requests \ {q}, s.file = q.file,
               at[s] \in OnThread \cup {"assembled"}
        PROVE  FALSE
    <3>1. Started(s)
      BY <1>1, <2>3, RequestType DEF TypedInv, Fitting, Started
    <3>2. q.copy = 1 /\ at[q] = "sent" /\ s.file \in Files
      BY <2>1, <2>3, RequestType DEF Truncates, SentOnce
    <3> QED BY <2>1, <2>3, <3>1, <3>2 DEF SingleInv, NobodyBehind
  <2>4. ASSUME NEW q \in Requests, Truncates(q) PROVE ~overlapped'
    BY <2>2, <2>3, <2>4 DEF Truncates
  <2>5. ASSUME NEW q \in Requests, BrowserSends(q) \/ ProgramSends(q) \/ Handler(q), ~Truncates(q)
        PROVE  UNCHANGED overlapped
    BY <2>5 DEF BrowserSends, ProgramSends, Handler, RefusesChunk, Writes, Receives, RejectsSize,
       StartsThread, Opens, LooksFor, Reads, Removes, MissesPart, Assembled, RejectsName,
       FindsNoFile, Moves, Scans, Creates, history
  <2>6. CASE BrowserRetries \/ Crashes \/ UNCHANGED vars
    BY <2>2, <2>6 DEF BrowserRetries, Crashes, vars, history
  <2> QED BY <2>2, <2>4, <2>5, <2>6 DEF Next
<1> QED BY <1>2, <1>3, <1>4, <1>5 DEF ClientInv

(* A file whose chunks come once is put together undisturbed.              *)
LEMMA Undisturbed ==
    ASSUME TypedInv, ClientInv, NEW r \in Requests, at[r] # "unsent", SentOnce(r.file)
    PROVE  ~overlapped
<1>1. ASSUME NEW f \in Files, NEW s \in Requests, s.file = f, at[s] # "unsent" PROVE s.copy = 1
  <2>1. CASE client = "browser"
    BY <1>1, <2>1 DEF ClientInv
  <2>2. CASE client = "api"
    BY <1>1, <2>2 DEF ClientInv, SentOnce
  <2> QED BY <2>1, <2>2 DEF ClientInv
<1> QED BY <1>1 DEF ClientInv, SentOnce

(* Another file's request leaves a file as it is.                          *)
LEMMA ElsewhereLeft ==
    ASSUME TypedInv, NEW f \in Files, Progress(f),
           NEW q \in Requests, q.file # f, Handler(q) \/ BrowserSends(q) \/ ProgramSends(q)
    PROVE  Progress(f)'
<1>1. /\ \A r \in Requests : r.file = f => at'[r] = at[r] /\ cursor'[r] = cursor[r]
      /\ part'[f] = part[f] /\ complete'[f] = complete[f] /\ genuine' = genuine
  <2>1. CASE Handler(q)
    BY <2>1, HandlerIsLocal DEF Local, fixed
  <2>2. CASE BrowserSends(q) \/ ProgramSends(q)
    BY <2>2, ClientSteps DEF disk, assembly, fixed, TypedInv, TypeOK
  <2> QED BY <2>1, <2>2
<1>2. StillWaiting(f) => StillWaiting(f)'
  BY <1>1 DEF StillWaiting, First
<1>3. ASSUME NEW r \in First(f), Leads(r) PROVE Leads(r)'
  BY <1>1, <1>3 DEF Leads, First, Gone
<1> QED BY <1>2, <1>3 DEF Progress

(* The request that finds all parts is the last: the others, which have    *)
(* written theirs, have counted them.                                      *)
LEMMA OthersReceived ==
    ASSUME SharedInv, NEW q \in Requests, at[q] = "written", q.copy = 1,
           StillWaiting(q.file), SingleInv, SentOnce(q.file),
           \A i \in Chunks : part[q.file][i] # "absent"
    PROVE  \A s \in First(q.file) : s # q => at[s] = "received"
<1> SUFFICES ASSUME NEW s \in First(q.file), s # q PROVE at[s] = "received"
  OBVIOUS
<1>1. s \in Requests /\ q.file \in Files /\ s.file = q.file /\ s.copy = 1 /\ s.chunk \in Chunks
  BY RequestType DEF First
<1>2. at[s] \notin {"unsent", "sent", "refused"}
  BY <1>1 DEF SingleInv, PartsAreWritten
<1>3. at[s] \notin OnLoop
  BY <1>1, PlaceNames DEF SharedInv, LoopInv
<1>4. at[s] \in Waiting
  BY DEF StillWaiting
<1> QED BY <1>2, <1>3, <1>4, PlaceNames DEF Waiting

LEMMA WaitingStep ==
    ASSUME SharedInv, SingleInv, NEW q \in Requests, StillWaiting(q.file), SentOnce(q.file)',
           Handler(q) \/ BrowserSends(q) \/ ProgramSends(q)
    PROVE  Progress(q.file)'
<1> DEFINE f == q.file
<1>1. /\ TypedInv /\ at \in [Requests -> Places] /\ f \in Files
      /\ part \in [Files -> [Chunks -> {"absent", "empty", "whole"}]] /\ q.chunk \in Chunks
  BY RequestType DEF SharedInv, TypedInv, TypeOK, Places
<1>2. q.copy = 1 /\ q \in First(f)
  <2>1. at'[q] # "unsent"
    <3>1. CASE Handler(q)
      BY <1>1, <3>1, StaysSent, HandlerIsLocal DEF Local, Next
    <3>2. CASE BrowserSends(q) \/ ProgramSends(q)
      BY <1>1, <3>2, ClientSteps
    <3> QED BY <3>1, <3>2
  <2> QED BY <2>1 DEF SentOnce, First
<1>3. /\ complete[f] = NoRequest /\ at[q] \in Waiting
      /\ \A r \in First(f) : /\ r \in Requests /\ r.file = f /\ r.copy = 1 /\ at[r] \in Waiting
                             /\ at[r] \in {"truncated", "written", "received"} => part[f][r.chunk] # "absent"
  BY <1>2 DEF StillWaiting, First
<1>4. CASE BrowserSends(q) \/ ProgramSends(q)
  <2>1. at'[q] = "sent" /\ (\A r \in Requests : r # q => at'[r] = at[r]) /\ UNCHANGED <<part, complete>>
    BY <1>1, <1>4, ClientSteps DEF disk
  <2> QED BY <1>2, <1>3, <2>1 DEF Progress, StillWaiting, Waiting, First
<1>5. CASE Truncates(q) \/ Writes(q)
  <2>1. /\ at'[q] \in {"truncated", "written"} /\ \A r \in Requests : r # q => at'[r] = at[r]
        /\ UNCHANGED complete /\ part'[f][q.chunk] # "absent"
        /\ \A i \in Chunks : part[f][i] # "absent" => part'[f][i] # "absent"
    BY <1>1, <1>5 DEF Truncates, Writes, Goes
  <2>2. \A r \in First(f) : r.chunk \in Chunks
    BY <1>3, RequestType
  <2> QED BY <1>2, <1>3, <2>1, <2>2 DEF Progress, StillWaiting, Waiting, First
<1>6. CASE Receives(q)
  <2>1. /\ at[q] = "written" /\ at'[q] = "received" /\ \A r \in Requests : r # q => at'[r] = at[r]
        /\ UNCHANGED <<part, complete>> /\ Cardinality(PartsThere(q)) # Total
    BY <1>1, <1>6 DEF Receives, Goes, disk
  <2>2. PICK i \in Chunks : part[f][i] = "absent"
    <3>1. SUFFICES ASSUME \A i \in Chunks : part[f][i] # "absent" PROVE FALSE
      OBVIOUS
    <3>2. PartsThere(q) = Chunks
      BY <3>1 DEF PartsThere
    <3> QED BY <2>1, <3>2, ChunksCounted
  <2>3. PICK r \in First(f) : r.chunk = i
    <3>1. [file |-> f, chunk |-> i, copy |-> 1] \in First(f)
      BY <1>1 DEF First, Requests
    <3> QED BY <3>1
  <2>4. r # q /\ at[r] # "received"
    BY <1>2, <1>3, <2>1, <2>2, <2>3
  <2> QED BY <1>2, <1>3, <2>1, <2>3, <2>4 DEF Progress, StillWaiting, Waiting, First
<1>7. CASE RejectsSize(q) \/ StartsThread(q)
  <2>1. /\ at[q] = "written" /\ Cardinality(PartsThere(q)) = Total /\ UNCHANGED complete
        /\ \A r \in Requests : r # q => at'[r] = at[r]
    BY <1>1, <1>7 DEF RejectsSize, StartsThread, Goes, disk
  <2>2. \A i \in Chunks : part[f][i] # "absent"
    BY <1>1, <2>1, AllParts
  <2>3. SentOnce(f)
    <3>1. \A r \in Requests : at[r] # "unsent" => at'[r] # "unsent"
      BY <1>1, <1>7, <2>1 DEF RejectsSize, StartsThread, Goes
    <3> QED BY <3>1 DEF SentOnce
  <2>4. \A s \in First(f) : s # q => at[s] = "received"
    BY <1>2, <2>1, <2>2, <2>3, OthersReceived
  <2>5. \A s \in First(f) : s # q => at'[s] = "received"
    BY <2>1, <2>4 DEF First
  <2>6. CASE StartsThread(q)
    <3>1. at'[q] = "opening"
      BY <1>1, <2>6 DEF StartsThread, Goes
    <3> QED BY <1>2, <2>5, <3>1 DEF Progress, Leads, Leading, Working, First
  <2>7. CASE RejectsSize(q)
    <3>1. at'[q] = "rejected" /\ \A i \in Chunks : part'[f][i] = "absent"
      BY <1>1, <2>7 DEF RejectsSize, Goes
    <3> QED BY <1>2, <1>3, <2>1, <2>5, <3>1 DEF Progress, Leads, Leading, Working, First, Gone
  <2> QED BY <1>7, <2>6, <2>7
<1>8. CASE Handler(q) /\ ~(RefusesChunk(q) \/ Truncates(q) \/ Writes(q) \/ Receives(q) \/ RejectsSize(q)
                           \/ StartsThread(q))
  <2>1. at[q] \notin Waiting
    BY <1>8, PlaceNames DEF Handler, Waiting, Opens, LooksFor, Reads, Removes, MissesPart,
       Assembled, RejectsName, FindsNoFile, Moves, Scans, Creates
  <2> QED BY <1>3, <2>1
<1>9. CASE RefusesChunk(q)
  <2>1. at'[q] = "refused" /\ (\A r \in Requests : r # q => at'[r] = at[r]) /\ UNCHANGED <<part, complete>>
    BY <1>1, <1>9 DEF RefusesChunk, Goes, disk
  <2> QED BY <1>2, <1>3, <2>1 DEF Progress, StillWaiting, Waiting, First
<1> QED BY <1>4, <1>5, <1>6, <1>7, <1>8, <1>9

(* All the chunks in their order begin as a file of its type does.         *)
LEMMA WholeIsValid == UpTo(Total) # << >> /\ UpTo(Total)[1] = 0
<1>1. Total \in Nat /\ Total # 0
  BY UploadAssumption
<1>2. Len(UpTo(Total)) = Total
  BY <1>1, UpToExtends
<1>3. UpTo(Total) # << >>
  BY <1>1, <1>2
<1>4. 1 \in 1 .. Total
  BY <1>1
<1>5. UpTo(Total)[1] = 1 - 1
  BY <1>4 DEF UpTo
<1> QED BY <1>3, <1>5

LEMMA LeadingStep ==
    ASSUME WholeInv, ~overlapped, ~torn,
           NEW q \in Requests, q.copy = 1, Leads(q), Handler(q)
    PROVE  Leads(q)'
<1>1. /\ TypedInv /\ Good(q) /\ Fitting(q) /\ at \in [Requests -> Places] /\ q.file \in Files
      /\ part \in [Files -> [Chunks -> {"absent", "empty", "whole"}]]
      /\ complete \in [Files -> Requests \cup {NoRequest}]
      /\ cursor[q] \in 0 .. Total /\ Total \in Nat /\ Total # 0 /\ NoRequest \notin Requests
      /\ q \in DOMAIN cursor
  BY RequestType, UploadAssumption DEF WholeInv, SharedInv, GoodInv, TypedInv, TypeOK, Places
<1>2. \A s \in First(q.file) : s # q => at'[s] = "received"
  <2>1. \A s \in First(q.file) : s # q => at[s] = "received"
    BY DEF Leads
  <2> QED BY <1>1, <2>1, HandlerIsLocal DEF Local, First
<1> USE DEF Working
<1>3. CASE RefusesChunk(q) \/ Truncates(q) \/ Writes(q) \/ Receives(q) \/ RejectsSize(q) \/ StartsThread(q)
  BY <1>3 DEF Leads, Leading, RefusesChunk, Truncates, Writes, Receives, RejectsSize, StartsThread
<1>4. CASE Opens(q)
  <2>1. at'[q] = "looking" /\ cursor'[q] = 0
    BY <1>1, <1>4 DEF Opens, Goes, Fitting, Early
  <2> QED BY <1>2, <2>1, RequestType DEF Leads, Leading
<1>5. CASE LooksFor(q)
  <2>0. at[q] = "looking" /\ cursor[q] # Total
    BY <1>5 DEF LooksFor, AllSeen
  <2>1. cursor[q] \in Chunks /\ at[q] = "looking"
    <3>1. cursor[q] \in 0 .. Total /\ Total \in Nat
      BY <1>1
    <3>2. cursor[q] \in Nat /\ cursor[q] < Total
      BY <2>0, <3>1
    <3> QED BY <2>0, <3>2, RequestType
  <2>2. part[q.file][cursor[q]] = "whole"
    BY <1>1, <2>1, RequestType DEF Good
  <2>3. at'[q] = "reading" /\ UNCHANGED <<cursor, part>>
    BY <1>1, <1>5, <2>2 DEF LooksFor, Goes, disk
  <2> QED BY <1>2, <2>1, <2>3 DEF Leads, Leading
<1>6. CASE Reads(q)
  <2>1. at[q] = "reading" /\ at'[q] = "removing" /\ UNCHANGED <<cursor, part>>
    BY <1>1, <1>6 DEF Reads, Goes
  <2> QED BY <1>2, <2>1 DEF Leads, Leading
<1>7. CASE Removes(q)
  <2>1. cursor[q] \in Chunks /\ cursor[q] \in Nat /\ at[q] = "removing" /\ at'[q] = "looking"
    BY <1>1, <1>7, RequestType DEF Removes, Fitting, Goes
  <2>2. /\ cursor'[q] = cursor[q] + 1 /\ part'[q.file][cursor[q]] = "absent"
        /\ \A i \in Chunks : part[q.file][i] = "absent" => part'[q.file][i] = "absent"
    BY <1>1, <1>7, <2>1 DEF Removes
  <2>3. \A i \in Chunks : i < cursor[q] + 1 => i < cursor[q] \/ i = cursor[q]
    <3> TAKE i \in Chunks
    <3>1. i \in Nat
      BY RequestType
    <3> QED BY <2>1, <3>1
  <2> QED BY <1>2, <2>1, <2>2, <2>3 DEF Leads, Leading
<1>8. CASE MissesPart(q)
  <2>1. cursor[q] \in Chunks /\ at[q] \in {"reading", "removing"}
    BY <1>1, <1>8, RequestType DEF MissesPart, Fitting
  <2>2. part[q.file][cursor[q]] = "whole"
    BY <1>1, <2>1, RequestType DEF Good
  <2> QED BY <1>8, <2>2 DEF MissesPart
<1>9. CASE Assembled(q)
  <2>1. at[q] = "looking" /\ at'[q] = "assembled" /\ cursor[q] = Total /\ UNCHANGED part
    BY <1>1, <1>9 DEF Assembled, AllSeen, Goes, disk
  <2>2. \A i \in Chunks : i < Total
    BY UploadAssumption DEF Chunks
  <2> QED BY <1>2, <2>1, <2>2 DEF Leads, Leading, Gone
<1>10. CASE RejectsName(q) \/ Moves(q)
  <2>1. /\ at[q] = "assembled" /\ at'[q] \in {"rejected", "moved"} /\ UNCHANGED part
        /\ complete'[q.file] = NoRequest
    BY <1>1, <1>10 DEF RejectsName, Moves, Goes
  <2> QED BY <1>2, <2>1 DEF Leads, Leading, Gone
<1>11. CASE FindsNoFile(q)
  <2>1. at[q] = "assembled" /\ ~FileValid(q)
    BY <1>11 DEF FindsNoFile
  <2>2. complete[q.file] # NoRequest /\ bytes[complete[q.file]] = UpTo(Total)
    BY <1>1, <2>1 DEF Good, Holds
  <2>3. ~genuine
    BY <2>1, <2>2, WholeIsValid DEF FileValid
  <2>4. at'[q] = "rejected" /\ UNCHANGED <<part, genuine>>
    BY <1>1, <1>11, <2>2 DEF FindsNoFile, Goes, disk, fixed
  <2> QED BY <1>2, <2>1, <2>3, <2>4 DEF Leads, Leading, Gone
<1>12. CASE Scans(q) \/ Creates(q)
  <2>1. /\ at[q] \in {"moved", "scanned"} /\ at'[q] \in {"scanned", "rejected", "created", "failed"}
        /\ UNCHANGED <<part, complete, genuine>>
    BY <1>1, <1>12 DEF Scans, Creates, Goes, disk, fixed
  <2> QED BY <1>2, <2>1 DEF Leads, Leading, Gone
<1> QED BY <1>3, <1>4, <1>5, <1>6, <1>7, <1>8, <1>9, <1>10, <1>11, <1>12 DEF Handler

LEMMA LeftStep == WholeInv /\ SingleInv /\ ClientInv /\ LeftInv /\ [Next]_vars => LeftInv'
<1> SUFFICES ASSUME WholeInv, SingleInv, ClientInv, LeftInv, [Next]_vars, faults' = 0,
                    NEW f \in Files, SentOnce(f)'
             PROVE  Progress(f)'
  BY DEF LeftInv
<1>1. TypedInv /\ SharedInv /\ at \in [Requests -> Places]
  BY DEF WholeInv, SharedInv, TypedInv, TypeOK, Places
<1>2. faults = 0 /\ ~Crashes /\ ~torn
  BY <1>1, FaultsStay DEF ClientInv
<1>3. SentOnce(f)
  BY <1>1, StaysSent DEF SentOnce
<1>4. Progress(f)
  BY <1>2, <1>3 DEF LeftInv
<1>5. ASSUME NEW q \in Requests, Handler(q) \/ BrowserSends(q) \/ ProgramSends(q) PROVE Progress(f)'
  <2>1. CASE q.file # f
    BY <1>1, <1>4, <1>5, <2>1, ElsewhereLeft
  <2>2. CASE q.file = f /\ StillWaiting(f)
    BY <1>1, <1>5, <2>2, WaitingStep
  <2>3. ASSUME q.file = f, NEW r \in First(f), Leads(r) PROVE Progress(f)'
    <3>1. at'[q] # "unsent" /\ (Handler(q) => at[q] \notin {"unsent"} \cup Answered)
      <4>1. CASE Handler(q)
        <5>1. at[q] \notin {"unsent"} \cup Answered
          BY <1>1, <4>1, HandlerIsLocal DEF Local
        <5> QED BY <1>1, <5>1, StaysSent
      <4>2. CASE BrowserSends(q) \/ ProgramSends(q)
        <5>1. at[q] = "unsent" /\ at'[q] = "sent"
          BY <1>1, <4>2, ClientSteps
        <5>2. ~Handler(q)
          BY <1>1, <5>1, HandlerIsLocal DEF Local
        <5> QED BY <5>1, <5>2
      <4> QED BY <1>5, <4>1, <4>2
    <3>2. q.copy = 1 /\ q \in First(f) /\ r.file = f /\ r \in Requests /\ r.copy = 1
      BY <2>3, <3>1 DEF SentOnce, First
    <3>3. q = r
      <4>1. SUFFICES ASSUME q # r PROVE FALSE
        OBVIOUS
      <4>2. at[q] = "received"
        BY <2>3, <3>2, <4>1 DEF Leads
      <4> QED BY <1>1, <1>5, <3>1, <4>2, ClientSteps, PlaceNames
    <3>4. Handler(q)
      <4>1. at[q] # "unsent"
        BY <2>3, <3>3 DEF Leads, Leading
      <4> QED BY <1>1, <1>5, <4>1, ClientSteps
    <3>5. ~overlapped
      BY <1>1, <1>3, <2>3, <3>1, <3>4, Undisturbed
    <3>6. Leads(q)'
      BY <1>2, <2>3, <3>2, <3>3, <3>4, <3>5, LeadingStep
    <3> QED BY <3>2, <3>6 DEF Progress, First
  <2> QED BY <1>4, <2>1, <2>2, <2>3 DEF Progress
<1>6. CASE BrowserRetries \/ UNCHANGED vars
  <2>1. UNCHANGED <<at, part, complete, cursor, genuine>>
    BY <1>6 DEF BrowserRetries, vars, disk, assembly
  <2> QED BY <1>4, <2>1 DEF Progress, StillWaiting, Leads, First, Gone
<1> QED BY <1>2, <1>5, <1>6 DEF Next

(* A file whose chunks were sent once has sent them all.                   *)
LEMMA AllSent ==
    ASSUME NEW f \in Files, SentOnce(f), Cardinality(Sent(f)) = Total
    PROVE  \A r \in First(f) : r \in Sent(f)
<1> DEFINE chunk == [r \in Sent(f) |-> r.chunk]
<1>1. chunk \in Injection(Sent(f), Chunks)
  <2>1. \A r \in Sent(f) : r \in Requests /\ r.file = f /\ r.copy = 1 /\ r.chunk \in Chunks
    BY RequestType DEF Sent, SentOnce
  <2> QED BY <2>1, RequestType DEF Injection, IsInjective
<1> HIDE DEF chunk
<1>2. chunk \in Surjection(Sent(f), Chunks)
  BY <1>1, ChunksCounted, FS_Injection
<1> SUFFICES ASSUME NEW r \in First(f) PROVE r \in Sent(f)
  OBVIOUS
<1>3. r \in Requests /\ r.file = f /\ r.copy = 1 /\ r.chunk \in Chunks
  BY RequestType DEF First
<1>4. PICK s \in Sent(f) : chunk[s] = r.chunk
  BY <1>2, <1>3 DEF Surjection
<1>5. s \in Requests /\ s.file = f /\ s.copy = 1 /\ s.chunk = r.chunk
  BY <1>4 DEF Sent, SentOnce, chunk
<1> QED BY <1>3, <1>4, <1>5, RequestType

(* In whatever order the chunks of a file come, however many at a time and *)
(* for any number of them: when each has been sent once and all requests   *)
(* are answered, none for its chunk alone, the parts have been cleared;    *)
(* and so has the file put together, unless its contents were refused.     *)
THEOREM TemporaryFilesCleared == Spec => []NothingLeft
<1>1. LeftInv => NothingLeft
  <2> SUFFICES ASSUME LeftInv, faults = 0, NEW f \in Files, Cardinality(Sent(f)) = Total,
                      \A r \in Sent(f) : r.copy = 1 /\ at[r] \in Answered \ {"refused"}
               PROVE  /\ \A i \in Chunks : part[f][i] = "absent"
                      /\ complete[f] # NoRequest => ~genuine
    BY DEF NothingLeft
  <2>1. SentOnce(f)
    BY DEF Sent, SentOnce
  <2>2. Progress(f)
    BY <2>1 DEF LeftInv
  <2>3. ~StillWaiting(f)
    <3>1. \A r \in First(f) : at[r] \in Answered \ {"refused"}
      BY <2>1, AllSent
    <3> QED BY <3>1, PlaceNames DEF StillWaiting, Waiting
  <2>4. PICK r \in First(f) : Leads(r)
    BY <2>2, <2>3 DEF Progress
  <2>5. at[r] \in Answered \ {"refused"} /\ r.file = f
    BY <2>1, AllSent DEF First
  <2>6. at[r] \in {"created", "rejected", "failed"}
    BY <2>4, <2>5, PlaceNames DEF Leads, Leading
  <2> QED BY <2>4, <2>5, <2>6 DEF Leads, Gone
<1> QED BY <1>1, LeftInit, LeftStep, ClientInit, ClientStep, Shared, Single, Whole, PTL DEF Spec
=============================================================================
