------------------------- MODULE AgentSessionProofs -------------------------
(***************************************************************************)
(* Proofs about AgentSession, for any number of approvals, rewrites and    *)
(* sections and for all bounds.  What an execution may rely on depends on  *)
(* how far it is in its script, so the scripts come first.                 *)
(***************************************************************************)
EXTENDS AgentSession, SequenceTheorems, TLAPS

-----------------------------------------------------------------------------
(* The scripts                                                             *)

Size(e) == Len(Script(e))

(* resume writes drafts in its first calls, renders in the next one, ...   *)
Drafting == 4 * NSections + 4

DraftCalls == {"check", "turn", "draft", "processing"}
LaterCalls == {"processing", "boost", "boostcheck", "turn", "render", "floor"}
Calls      == {"read", "completed"} \cup DraftCalls \cup LaterCalls

LEMMA Repeated ==
    ASSUME NEW D, NEW body \in Seq(D), NEW n \in Nat, Len(body) \in {2, 4}
    PROVE  Repeat(body, n) \in Seq(D) /\ Len(Repeat(body, n)) = n * Len(body)
  <1> DEFINE k == Len(body)
  <1>1. k \in Nat /\ k > 0 /\ n * k \in Nat
    OBVIOUS
  <1>2. \A i \in 1 .. n * k : ((i - 1) % k) + 1 \in 1 .. k
    BY <1>1
  <1>3. \A j \in 1 .. k : body[j] \in D
    OBVIOUS
  <1>4. Repeat(body, n) = [i \in 1 .. n * k |-> body[((i - 1) % k) + 1]]
    BY DEF Repeat
  <1> HIDE DEF k
  <1>5. \A i \in 1 .. n * k : body[((i - 1) % k) + 1] \in D
    BY <1>2, <1>3
  <1>6. Repeat(body, n) \in Seq(D) /\ Len(Repeat(body, n)) = n * k
    BY <1>1, <1>4, <1>5
  <1> QED BY <1>6 DEF k

(* r is s followed by t, sequences over D of lengths p and q.              *)
Glue(r, s, t, p, q, D) ==
    /\ r \in Seq(D) /\ Len(r) = p + q
    /\ \A i \in 1 .. p + q : r[i] = IF i <= p THEN s[i] ELSE t[i - p]

LEMMA Glued ==
    ASSUME NEW D, NEW s \in Seq(D), NEW t \in Seq(D),
           NEW p, NEW q, Len(s) = p, Len(t) = q
    PROVE  Glue(s \o t, s, t, p, q, D)
  <1>1. p \in Nat /\ q \in Nat
    OBVIOUS
  <1>2. s \o t \in Seq(D)
    OBVIOUS
  <1>3. Len(s \o t) = p + q
    OBVIOUS
  <1>4. ASSUME NEW i \in 1 .. p + q
        PROVE  (s \o t)[i] = IF i <= p THEN s[i] ELSE t[i - p]
    BY <1>1
  <1> QED BY <1>2, <1>3, <1>4 DEF Glue

LEMMA WritingCalls ==
    /\ Writing \in Seq(Calls) /\ Len(Writing) = Drafting
    /\ Writing[1] = "read" /\ Writing[2] = "processing"
    /\ \A i \in 3 .. Drafting : Writing[i] \in DraftCalls
  <1> DEFINE first == <<"read", "processing">>
             body  == <<"check", "turn", "draft", "processing">>
             loop  == Repeat(body, NSections)
             last  == <<"processing", "processing">>
  <1>0. NSections \in Nat \ {0}
    BY SessionAssumption DEF SessionAssumption
  <1>1. /\ first \in Seq(Calls) /\ Len(first) = 2
        /\ first[1] = "read" /\ first[2] = "processing"
    BY DEF Calls, DraftCalls
  <1>2. body \in Seq(Calls) /\ body \in Seq(DraftCalls) /\ Len(body) = 4
    BY DEF Calls, DraftCalls
  <1>3. /\ last \in Seq(Calls) /\ Len(last) = 2
        /\ \A j \in 1 .. 2 : last[j] \in DraftCalls
    BY DEF Calls, DraftCalls
  <1> HIDE DEF first, body, last
  <1>4. /\ loop \in Seq(Calls) /\ Len(loop) = NSections * 4
        /\ \A i \in 1 .. NSections * 4 : loop[i] \in DraftCalls
    <2>1. loop \in Seq(Calls) /\ Len(loop) = NSections * 4
      BY <1>0, <1>2, Repeated
    <2>2. loop \in Seq(DraftCalls)
      BY <1>0, <1>2, Repeated
    <2> QED BY <2>1, <2>2
  <1> HIDE DEF loop
  <1>5. Glue(first \o loop, first, loop, 2, NSections * 4, Calls)
    BY <1>1, <1>4, Glued, Zenon
  <1>6. Glue((first \o loop) \o last, first \o loop, last, 2 + NSections * 4, 2, Calls)
    <2>1. first \o loop \in Seq(Calls) /\ Len(first \o loop) = 2 + NSections * 4
      BY <1>5 DEF Glue
    <2> QED BY <1>3, <2>1, Glued, Zenon
  <1>7. Writing = (first \o loop) \o last
    BY DEF Writing, first, loop, last, body
  <1>8. Writing[1] = "read" /\ Writing[2] = "processing"
    <2>1. ASSUME NEW i \in 1 .. 2 PROVE Writing[i] = first[i]
      BY <1>0, <1>5, <1>6, <1>7 DEF Glue
    <2> QED BY <1>1, <2>1
  <1>9. ASSUME NEW i \in 3 .. Drafting PROVE Writing[i] \in DraftCalls
    <2>1. CASE i <= 2 + NSections * 4
      <3>1. Writing[i] = loop[i - 2] /\ i - 2 \in 1 .. NSections * 4
        BY <1>0, <1>5, <1>6, <1>7, <2>1 DEF Drafting, Glue
      <3> QED BY <1>4, <3>1
    <2>2. CASE i > 2 + NSections * 4
      <3>1. Writing[i] = last[i - (2 + NSections * 4)] /\ i - (2 + NSections * 4) \in 1 .. 2
        BY <1>0, <1>6, <1>7, <2>2 DEF Drafting, Glue
      <3> QED BY <1>3, <3>1
    <2> QED BY <1>0, <2>1, <2>2 DEF Drafting
  <1> QED BY SMTT(20), <1>0, <1>6, <1>7, <1>8, <1>9 DEF Drafting, Glue

LEMMA QualityCalls ==
    /\ QualityPass \in Seq(Calls) /\ Len(QualityPass) \in Nat /\ Len(QualityPass) >= 4
    /\ \A i \in 1 .. Len(QualityPass) : QualityPass[i] \in LaterCalls
  <1> DEFINE m     == Min({NSections, 3})
             first == <<"boost">>
             body  == <<"boostcheck", "turn">>
             loop  == Repeat(body, m)
             last  == <<"render", "floor", "processing">>
  <1>0. m \in Nat
    <2>1. NSections \in Nat
      BY SessionAssumption DEF SessionAssumption
    <2>2. \E x \in {NSections, 3} : \A y \in {NSections, 3} : x =< y
      BY <2>1
    <2> QED BY <2>1, <2>2 DEF Min
  <1> HIDE DEF m
  <1>1. first \in Seq(Calls) /\ Len(first) = 1 /\ first[1] \in LaterCalls
    BY DEF Calls, LaterCalls
  <1>2. body \in Seq(Calls) /\ body \in Seq(LaterCalls) /\ Len(body) = 2
    BY DEF Calls, LaterCalls
  <1>3. /\ last \in Seq(Calls) /\ Len(last) = 3
        /\ \A j \in 1 .. 3 : last[j] \in LaterCalls
    BY DEF Calls, LaterCalls
  <1> HIDE DEF first, body, last
  <1>4. /\ loop \in Seq(Calls) /\ Len(loop) = m * 2
        /\ \A i \in 1 .. m * 2 : loop[i] \in LaterCalls
    <2>1. loop \in Seq(Calls) /\ Len(loop) = m * 2
      BY <1>0, <1>2, Repeated
    <2>2. loop \in Seq(LaterCalls)
      BY <1>0, <1>2, Repeated
    <2> QED BY <2>1, <2>2
  <1> HIDE DEF loop
  <1>5. Glue(first \o loop, first, loop, 1, m * 2, Calls)
    BY <1>1, <1>4, Glued, Zenon
  <1>6. Glue((first \o loop) \o last, first \o loop, last, 1 + m * 2, 3, Calls)
    <2>1. first \o loop \in Seq(Calls) /\ Len(first \o loop) = 1 + m * 2
      BY <1>5 DEF Glue
    <2> QED BY <1>3, <2>1, Glued, Zenon
  <1>7. QualityPass = (first \o loop) \o last
    BY DEF QualityPass, first, loop, last, body, m
  <1>8. ASSUME NEW i \in 1 .. (1 + m * 2) + 3 PROVE QualityPass[i] \in LaterCalls
    <2>1. CASE i = 1
      BY SMTT(20), <1>0, <1>1, <1>5, <1>6, <1>7, <2>1 DEF Glue
    <2>2. CASE i > 1 /\ i <= 1 + m * 2
      <3>1. QualityPass[i] = loop[i - 1] /\ i - 1 \in 1 .. m * 2
        BY <1>0, <1>5, <1>6, <1>7, <2>2 DEF Glue
      <3> QED BY <1>4, <3>1
    <2>3. CASE i > 1 + m * 2
      <3>1. QualityPass[i] = last[i - (1 + m * 2)] /\ i - (1 + m * 2) \in 1 .. 3
        BY <1>0, <1>6, <1>7, <2>3 DEF Glue
      <3> QED BY <1>3, <3>1
    <2> QED BY <1>0, <2>1, <2>2, <2>3
  <1> QED BY <1>0, <1>6, <1>7, <1>8 DEF Glue

LEMMA ResumeCalls ==
    /\ Len(ResumeScript) \in Nat /\ Len(ResumeScript) >= Drafting + 7
    /\ ResumeScript[1] = "read" /\ ResumeScript[2] = "processing"
    /\ \A i \in 3 .. Drafting : ResumeScript[i] \in DraftCalls
    /\ ResumeScript[Drafting + 1] = "render"
    /\ \A i \in Drafting + 2 .. Len(ResumeScript) - 1 : ResumeScript[i] \in LaterCalls
    /\ ResumeScript[Len(ResumeScript)] = "completed"
  <1> DEFINE d    == Drafting
             q    == Len(QualityPass)
             two  == <<"render", "processing">>
             last == <<"completed">>
             a    == Writing \o two
             b    == a \o QualityPass
  <1>0. d \in Nat /\ d >= 8 /\ q \in Nat /\ q >= 4
    BY SessionAssumption, QualityCalls DEF SessionAssumption, Drafting
  <1>1. two \in Seq(Calls) /\ Len(two) = 2 /\ two[1] = "render" /\ two[2] \in LaterCalls
    BY DEF Calls, LaterCalls
  <1>2. last \in Seq(Calls) /\ Len(last) = 1 /\ last[1] = "completed"
    BY DEF Calls
  <1> HIDE DEF two, last
  <1>3. Glue(a, Writing, two, d, 2, Calls)
    BY <1>1, WritingCalls, Glued, Zenon
  <1> HIDE DEF a
  <1>4. Glue(b, a, QualityPass, d + 2, q, Calls)
    <2>1. a \in Seq(Calls) /\ Len(a) = d + 2
      BY <1>3 DEF Glue
    <2> QED BY <2>1, QualityCalls, Glued, Zenon
  <1> HIDE DEF b
  <1>5. Glue(b \o last, b, last, (d + 2) + q, 1, Calls)
    <2>1. b \in Seq(Calls) /\ Len(b) = (d + 2) + q
      BY <1>4 DEF Glue
    <2> QED BY <1>2, <2>1, Glued, Zenon
  <1>6. ResumeScript = b \o last
    BY DEF ResumeScript, a, b, two, last
  <1> HIDE DEF d, q
  <1>7. \A i \in 1 .. d : ResumeScript[i] = Writing[i]
    BY <1>0, <1>3, <1>4, <1>5, <1>6 DEF Glue
  <1>8. ResumeScript[d + 1] = "render" /\ ResumeScript[d + 2] \in LaterCalls
    BY <1>0, <1>1, <1>3, <1>4, <1>5, <1>6 DEF Glue
  <1>9. \A i \in d + 3 .. (d + 2) + q : ResumeScript[i] = QualityPass[i - (d + 2)]
    BY <1>0, <1>4, <1>5, <1>6 DEF Glue
  <1>10. \A i \in d + 3 .. (d + 2) + q : ResumeScript[i] \in LaterCalls
    BY <1>0, <1>9, QualityCalls DEF q
  <1>11. ResumeScript[((d + 2) + q) + 1] = "completed"
    BY <1>0, <1>2, <1>5, <1>6 DEF Glue
  <1>12. ResumeScript[1] = "read" /\ ResumeScript[2] = "processing"
    BY <1>0, <1>7, WritingCalls
  <1>13. \A i \in 3 .. d : ResumeScript[i] \in DraftCalls
    BY <1>0, <1>7, WritingCalls DEF d
  <1>14. \A i \in d + 2 .. (d + 2) + q : ResumeScript[i] \in LaterCalls
    BY <1>0, <1>8, <1>10
  <1>15. Len(ResumeScript) = ((d + 2) + q) + 1
    BY <1>5, <1>6 DEF Glue
  <1> QED BY <1>0, <1>8, <1>11, <1>12, <1>13, <1>14, <1>15 DEF d

(* All that the proofs use of the scripts.                                 *)
LEMMA Scripts ==
    /\ Size(Run) = 11
    /\ \A i \in 1 .. 10 : Script(Run)[i] \in {"read", "processing", "turn", "check"}
    /\ Script(Run)[11] = "awaiting_approval"
    /\ Drafting \in Nat /\ Drafting >= 8
    /\ \A e \in Resumes :
          /\ Size(e) \in Nat /\ Size(e) >= Drafting + 7
          /\ Script(e)[1] = "read" /\ Script(e)[2] = "processing"
          /\ \A i \in 3 .. Drafting : Script(e)[i] \in DraftCalls
          /\ Script(e)[Drafting + 1] = "render"
          /\ \A i \in Drafting + 2 .. Size(e) - 1 : Script(e)[i] \in LaterCalls
          /\ Script(e)[Size(e)] = "completed"
    /\ \A e \in Rewrites :
          /\ Size(e) = 4
          /\ Script(e)[1] = "read" /\ Script(e)[2] = "turn"
          /\ Script(e)[3] = "render" /\ Script(e)[4] = "restore"
  <1>1. Script(Run) = RunScript
    BY SessionAssumption DEF Script, SessionAssumption
  <1>2. \A e \in Resumes : Script(e) = ResumeScript
    BY SessionAssumption DEF Script, SessionAssumption
  <1>3. \A e \in Rewrites : Script(e) = RewriteScript
    BY SessionAssumption DEF Script, SessionAssumption
  <1>4. /\ Len(RunScript) = 11 /\ RunScript[11] = "awaiting_approval"
        /\ \A i \in 1 .. 10 : RunScript[i] \in {"read", "processing", "turn", "check"}
    BY DEF RunScript
  <1>5. /\ Len(RewriteScript) = 4 /\ RewriteScript[1] = "read" /\ RewriteScript[2] = "turn"
        /\ RewriteScript[3] = "render" /\ RewriteScript[4] = "restore"
    BY DEF RewriteScript
  <1>6. Drafting \in Nat /\ Drafting >= 8
    BY SessionAssumption DEF SessionAssumption, Drafting
  <1>7. /\ Size(Run) = 11
        /\ \A i \in 1 .. 10 : Script(Run)[i] \in {"read", "processing", "turn", "check"}
        /\ Script(Run)[11] = "awaiting_approval"
    BY <1>1, <1>4 DEF Size
  <1>8. \A e \in Resumes : Size(e) = Len(ResumeScript)
    BY <1>2 DEF Size
  <1>9. \A e \in Rewrites : Size(e) = Len(RewriteScript)
    BY <1>3 DEF Size
  <1> QED BY <1>2, <1>3, <1>5, <1>6, <1>7, <1>8, <1>9, ResumeCalls

-----------------------------------------------------------------------------
(* Types                                                                   *)

Saves  == {"draft", "render", "floor"}
Writes == Statuses \cup {"restore", "boost"} \cup Saves

Typed ==
    /\ queued \in QueueModes
    /\ status \in Statuses \cup {"absent"}
    /\ versions \in Seq([number : Nat, rendered : BOOLEAN])
    /\ cache \in [Services -> Statuses \cup {"miss"}]
    /\ at \in [Exec -> Nat]
    /\ phase \in [Exec -> {"ready", "fetched", "numbered", "written"}]
    /\ got \in [Exec -> Statuses \cup {"miss"}]
    /\ number \in [Exec -> Nat]
    /\ poll \in Statuses \cup {"none"}
    /\ stopping \in BOOLEAN
    /\ stops \in 0 .. MaxStops /\ polls \in 0 .. MaxPolls[queued] /\ faults \in 0 .. MaxFaults
    /\ raised \in BOOLEAN
    /\ overlapped \in BOOLEAN /\ stale \in BOOLEAN

(* Where an execution is, what it is doing there and what it knows.        *)
Placed(e) ==
    /\ at[e] <= Size(e) + 2
    /\ at[e] # 0 => status # "absent"
    /\ phase[e] # "ready" => at[e] \in 1 .. Size(e)
    /\ phase[e] = "fetched" => Reading(e) /\ got[e] \in Statuses
    /\ phase[e] = "numbered" => Call(e, Saves)
    /\ phase[e] = "written" => Call(e, Writes)
    /\ e \in Rewrites /\ at[e] \in 2 .. 4 => got[e] \in Statuses

Placement == \A e \in Exec : Placed(e)

LEMMA VersionFields ==
    ASSUME NEW s \in Seq([number : Nat, rendered : BOOLEAN]), NEW i \in DOMAIN s
    PROVE  s[i].number \in Nat /\ s[i].rendered \in BOOLEAN
  <1> DEFINE R == [number : Nat, rendered : BOOLEAN]
  <1>1. s \in Seq(R) /\ i \in DOMAIN s
    OBVIOUS
  <1> HIDE DEF R
  <1>2. s[i] \in R
    BY <1>1
  <1> QED BY <1>2 DEF R

(* Latest has a value: the numbers of the versions have a maximum.         *)
Taken == {versions[i].number : i \in DOMAIN versions} \cup {0}
HasLatest == \E x \in Taken : \A y \in Taken : x >= y

TypedInv == Typed /\ Placement /\ HasLatest

LEMMA Sizes ==
    ASSUME NEW e \in Exec
    PROVE  Size(e) \in Nat /\ Size(e) >= 4 /\ Done(e) = Size(e) + 2
  <1>1. Size(e) \in Nat /\ Size(e) >= 4
    BY Scripts DEF Exec
  <1> QED BY <1>1 DEF Done, Size

LEMMA LatestIsGreatest ==
    ASSUME Typed, HasLatest
    PROVE  Latest \in Nat /\ \A i \in DOMAIN versions : versions[i].number <= Latest
  <1>1. Latest = Max(Taken)
    BY DEF Latest, Taken
  <1>2. Latest \in Taken /\ \A y \in Taken : Latest >= y
    BY <1>1 DEF HasLatest, Max
  <1>3. Taken \subseteq Nat
    BY VersionFields DEF Typed, Taken
  <1> QED BY <1>2, <1>3 DEF Taken

(* The next version, which has the number that follows the latest or, when *)
(* executions overlapped, an earlier one.                                  *)
LEMMA Inserted ==
    ASSUME Typed, HasLatest, NEW e \in Exec, NEW r \in BOOLEAN,
           versions' = Append(versions, [number |-> number[e], rendered |-> r])
    PROVE  /\ versions' \in Seq([number : Nat, rendered : BOOLEAN])
           /\ Len(versions) \in Nat /\ DOMAIN versions = 1 .. Len(versions)
           /\ DOMAIN versions' = 1 .. Len(versions) + 1
           /\ \A i \in 1 .. Len(versions) : versions'[i] = versions[i]
           /\ versions'[Len(versions) + 1] = [number |-> number[e], rendered |-> r]
           /\ HasLatest'
  <1> DEFINE v == [number |-> number[e], rendered |-> r]
             n == Len(versions)
  <1>1. v \in [number : Nat, rendered : BOOLEAN] /\ v.number = number[e] /\ number[e] \in Nat
    BY DEF Typed
  <1>2. versions \in Seq([number : Nat, rendered : BOOLEAN]) /\ n \in Nat
        /\ DOMAIN versions = 1 .. n
    BY DEF Typed
  <1>3. versions' = Append(versions, v)
    OBVIOUS
  <1> HIDE DEF v
  <1>4. versions' \in Seq([number : Nat, rendered : BOOLEAN]) /\ DOMAIN versions' = 1 .. n + 1
    BY <1>1, <1>2, <1>3
  <1>5. versions'[n + 1] = v /\ \A i \in 1 .. n : versions'[i] = versions[i]
    BY <1>1, <1>2, <1>3
  <1> HIDE DEF n
  <1>6. Taken' = Taken \cup {number[e]}
    <2>1. \A i \in 1 .. n + 1 : i \in 1 .. n \/ i = n + 1
      BY <1>2
    <2>2. n + 1 \in 1 .. n + 1 /\ \A i \in 1 .. n : i \in 1 .. n + 1
      BY <1>2
    <2> QED BY <1>1, <1>2, <1>4, <1>5, <2>1, <2>2 DEF Taken
  <1>7. Taken \subseteq Nat
    BY <1>2, VersionFields DEF Taken
  <1>8. PICK x \in Taken : \A y \in Taken : x >= y
    BY DEF HasLatest
  <1>9. HasLatest'
    <2>1. CASE x >= number[e]
      BY <1>6, <1>7, <1>8, <2>1 DEF HasLatest
    <2>2. CASE number[e] > x
      BY <1>1, <1>6, <1>7, <1>8, <2>2 DEF HasLatest
    <2> QED BY <1>1, <1>7, <1>8, <2>1, <2>2
  <1> QED BY <1>2, <1>4, <1>5, <1>9 DEF n, v

LEMMA TypedInit == Init => TypedInv
  <1> SUFFICES ASSUME Init PROVE TypedInv
    OBVIOUS
  <1>1. Typed
    <2>1. versions \in Seq([number : Nat, rendered : BOOLEAN])
      BY DEF Init
    <2>2. /\ cache \in [Services -> Statuses \cup {"miss"}]
          /\ at \in [Exec -> Nat]
          /\ phase \in [Exec -> {"ready", "fetched", "numbered", "written"}]
          /\ got \in [Exec -> Statuses \cup {"miss"}]
          /\ number \in [Exec -> Nat]
      BY DEF Init
    <2>3. 0 \in 0 .. MaxStops /\ 0 \in 0 .. MaxPolls[queued] /\ 0 \in 0 .. MaxFaults
      BY SessionAssumption DEF Init, SessionAssumption
    <2> QED BY <2>1, <2>2, <2>3 DEF Init, Typed
  <1>2. Placement
    <2> SUFFICES ASSUME NEW e \in Exec PROVE Placed(e)
      BY DEF Placement
    <2>1. at[e] = 0 /\ phase[e] = "ready"
      BY DEF Init
    <2> QED BY <2>1, Sizes DEF Placed
  <1>3. HasLatest
    <2>1. Taken = {0}
      BY DEF Init, Taken
    <2> QED BY <2>1 DEF HasLatest
  <1> QED BY <1>1, <1>2, <1>3 DEF TypedInv

(* The executions that a step leaves alone stay where they are.            *)
LEMMA OthersPlaced ==
    ASSUME Placement, NEW e \in Exec, Placed(e)', status # "absent" => status' # "absent",
           \A f \in Exec \ {e} : at'[f] = at[f] /\ phase'[f] = phase[f] /\ got'[f] = got[f]
    PROVE  Placement'
  <1> SUFFICES ASSUME NEW f \in Exec, f # e PROVE Placed(f)'
    BY DEF Placement
  <1>1. Placed(f) /\ at'[f] = at[f] /\ phase'[f] = phase[f] /\ got'[f] = got[f]
    BY DEF Placement
  <1> QED BY <1>1 DEF Placed, Reading, Call

LEMMA AllPlaced ==
    ASSUME Placement, UNCHANGED <<at, phase, got>>, status # "absent" => status' # "absent"
    PROVE  Placement'
  <1> SUFFICES ASSUME NEW f \in Exec PROVE Placed(f)'
    BY DEF Placement
  <1> QED BY DEF Placement, Placed, Reading, Call

LEMMA SameVersions ==
    ASSUME HasLatest, versions' = versions
    PROVE  HasLatest'
  BY DEF HasLatest, Taken

(* What the position of an execution says about who it is.                 *)
LEMMA WhoCalls ==
    ASSUME NEW e \in Exec
    PROVE  /\ Call(e, {"restore"}) => e \in Rewrites /\ at[e] = 4
           /\ Call(e, {"boost", "boostcheck", "draft", "floor"}) => e \in Resumes
           /\ Call(e, Saves) => e \in Resumes \/ (e \in Rewrites /\ at[e] = 3)
           /\ e \in Rewrites /\ at[e] = 1 => Call(e, {"read"}) /\ ~Call(e, Writes) /\ ~Call(e, {"turn"})
  <1>1. CASE e = Run
    BY <1>1, SessionAssumption, Scripts
       DEF SessionAssumption, Call, Saves, Size
  <1>2. CASE e \in Resumes
    <2>1. e # Run /\ e \notin Rewrites
      BY <1>2, SessionAssumption DEF SessionAssumption
    <2>2. Script(e)[at[e]] # "restore" \/ at[e] \notin 1 .. Size(e)
      <3> DEFINE i == at[e]
                 d == Drafting
      <3>1. \/ i \notin 1 .. Size(e) \/ i \in 1 .. 2 \/ i \in 3 .. d \/ i = d + 1
            \/ i \in d + 2 .. Size(e) - 1 \/ i = Size(e)
        BY <1>2, Scripts
      <3> QED BY <1>2, <3>1, Scripts DEF DraftCalls, LaterCalls
    <2> QED BY <1>2, <2>1, <2>2 DEF Call, Size
  <1>3. CASE e \in Rewrites
    <2>1. /\ Size(e) = 4
          /\ Script(e)[1] = "read" /\ Script(e)[2] = "turn"
          /\ Script(e)[3] = "render" /\ Script(e)[4] = "restore"
      BY <1>3, Scripts
    <2>2. at[e] \in 1 .. 4 => at[e] \in {1, 2, 3, 4}
      OBVIOUS
    <2> QED BY <1>3, <2>1, <2>2 DEF Call, Saves, Writes, Statuses, Size
  <1> QED BY <1>1, <1>2, <1>3 DEF Exec

LEMMA TypedStep == TypedInv /\ [Next]_vars => TypedInv'
  <1> SUFFICES ASSUME Typed, Placement, HasLatest, [Next]_vars PROVE TypedInv'
    BY DEF TypedInv
  <1>1. CASE UNCHANGED vars
    BY <1>1, AllPlaced, SameVersions DEF vars, exec, request, history, Typed, TypedInv
  <1>2. ASSUME NEW e \in Exec, DispatchAgentTask(e), queued' = queued,
               status' = status \/ (status = "absent" /\ status' = "pending"),
               status' # "absent"
        PROVE  TypedInv'
    <2> USE DEF DispatchAgentTask, request
    <2>1. Typed'
      BY <1>2 DEF Typed, Statuses
    <2>2. Placed(e)'
      BY <1>2, Sizes DEF Typed, Placement, Placed
    <2>3. Placement'
      BY <1>2, <2>2, OthersPlaced DEF Typed
    <2> QED BY <1>2, <2>1, <2>3, SameVersions DEF TypedInv
  <1>3. ASSUME StartGeneration, queued' = queued PROVE TypedInv'
    BY <1>2, <1>3 DEF StartGeneration, Exec
  <1>4. ASSUME NEW e \in Exec, ApproveOutline(e) \/ RequestRewrite(e), queued' = queued PROVE TypedInv'
    BY <1>2, <1>4 DEF ApproveOutline, RequestRewrite
  <1>5. ASSUME StopWrites \/ StopInvalidates \/ PollFetches \/ PollCaches, queued' = queued PROVE TypedInv'
    <2> USE DEF StopWrites, StopInvalidates, PollFetches, PollCaches, exec, history
    <2>1. Typed'
      <3>1. Web \in Services /\ poll \in Statuses \cup {"none"} /\ status \in Statuses \cup {"absent"}
        BY DEF Typed, Services
      <3>2. cache' \in [Services -> Statuses \cup {"miss"}]
        BY <1>5, <3>1 DEF Typed
      <3>3. status' \in Statuses \cup {"absent"} /\ poll' \in Statuses \cup {"none"}
        BY <1>5, <3>1 DEF Statuses
      <3>4. stops' \in 0 .. MaxStops /\ polls' \in 0 .. MaxPolls[queued'] /\ faults' = faults
        <4>1. MaxStops \in Nat /\ MaxPolls[queued] \in Nat /\ stops \in Nat /\ polls \in Nat
          BY SessionAssumption DEF Typed, SessionAssumption
        <4>2. stops' = stops \/ (stops' = stops + 1 /\ stops < MaxStops)
          BY <1>5
        <4>3. polls' = polls \/ (polls' = polls + 1 /\ polls < MaxPolls[queued])
          BY <1>5
        <4>4. stops' \in 0 .. MaxStops
          BY <4>1, <4>2 DEF Typed
        <4>5. polls' \in 0 .. MaxPolls[queued]
          BY <4>1, <4>3 DEF Typed
        <4> QED BY <1>5, <4>4, <4>5
      <3>5. stopping' \in BOOLEAN /\ stale' \in BOOLEAN
        BY <1>5, Zenon DEF Typed
      <3> QED BY <1>5, <3>2, <3>3, <3>4, <3>5 DEF Typed
    <2>2. UNCHANGED <<at, phase, got, versions>> /\ (status # "absent" => status' # "absent")
      BY <1>5
    <2> QED BY <2>1, <2>2, AllPlaced, SameVersions DEF TypedInv
  <1>6. ASSUME NEW s \in Services, Expires(s), queued' = queued PROVE TypedInv'
    <2> USE DEF Expires, exec, history, request
    <2>1. Typed'
      BY <1>6 DEF Typed
    <2>2. UNCHANGED <<at, phase, got, versions, status>>
      BY <1>6
    <2> QED BY <2>1, <2>2, AllPlaced, SameVersions DEF TypedInv
  <1>7. ASSUME NEW e \in Exec, ReadsCached(e) \/ Fetches(e) \/ Caches(e), queued' = queued PROVE TypedInv'
    <2> USE DEF ReadsCached, Fetches, Caches, Learn, request, history
    <2>1. Service(e) \in Services
      BY DEF Service, Services
    <2>2. /\ at' \in [Exec -> Nat] /\ at[e] \in 1 .. Size(e) /\ at'[e] \in 1 .. Size(e) + 1
          /\ (\A f \in Exec \ {e} : at'[f] = at[f])
      <3>1. Size(e) \in Nat /\ at[e] \in 1 .. Size(e)
        BY <1>7, Sizes DEF Reading, Call, Size
      <3>2. \E n \in {at[e], at[e] + 1, Size(e) + 1} : at' = [at EXCEPT ![e] = n]
        BY <1>7 DEF Typed, Size
      <3> QED BY <3>1, <3>2 DEF Typed
    <2>3. got' \in [Exec -> Statuses \cup {"miss"}] /\ cache' \in [Services -> Statuses \cup {"miss"}]
      <3>1. /\ status # "absent" /\ status \in Statuses
            /\ got[e] \in Statuses \cup {"miss"} /\ cache[Service(e)] \in Statuses \cup {"miss"}
        BY <2>1, <2>2 DEF Typed, Placement, Placed
      <3>2. \E x \in Statuses \cup {"miss"} : got' = [got EXCEPT ![e] = x]
        BY <1>7, <3>1
      <3>3. cache' = cache \/ \E x \in Statuses \cup {"miss"} : cache' = [cache EXCEPT ![Service(e)] = x]
        BY <1>7, <3>1
      <3> QED BY <2>1, <3>2, <3>3 DEF Typed
    <2>4. phase' \in [Exec -> {"ready", "fetched", "numbered", "written"}]
      BY <1>7 DEF Typed
    <2>5. Typed'
      BY ZenonT(40), <1>7, <2>2, <2>3, <2>4 DEF Typed
    <2>6. Placed(e)'
      <3>1. CASE Fetches(e)
        <4>1. /\ at'[e] = at[e] /\ status' = status /\ status # "absent"
              /\ phase'[e] = "fetched" /\ got'[e] = status /\ Reading(e)
          BY <1>7, <2>2, <3>1 DEF Typed, Placement, Placed
        <4>2. status \in Statuses
          BY <4>1 DEF Typed
        <4> QED BY <2>2, <4>1, <4>2, Sizes DEF Placed, Reading, Call
      <3>2. CASE ~Fetches(e)
        <4>1. phase'[e] = "ready" /\ status' = status /\ status # "absent"
          BY <1>7, <2>2, <3>2 DEF Typed, Placement, Placed
        <4>2. e \in Rewrites => got'[e] \in Statuses
          BY <1>7, <2>1, <3>2 DEF Typed, Placement, Placed
        <4> QED BY <2>2, <4>1, <4>2, Sizes DEF Placed
      <3> QED BY <3>1, <3>2
    <2>7. Placement'
      BY <1>7, <2>2, <2>6, OthersPlaced DEF Typed
    <2> QED BY <1>7, <2>5, <2>7, SameVersions DEF TypedInv
  <1>8. ASSUME NEW e \in Exec, Updates(e) \/ Boosts(e), queued' = queued PROVE TypedInv'
    <2> USE DEF Updates, Boosts, request, history
    <2>1. status' \in Statuses
      <3>1. CASE Call(e, {"restore"})
        BY <1>8, <3>1, WhoCalls DEF Placement, Placed, Statuses, Call
      <3>2. CASE ~Call(e, {"restore"}) /\ Updates(e)
        BY <1>8, <3>2, Sizes DEF Call, Size
      <3> QED BY <1>8, <3>1, <3>2 DEF Call, Statuses
    <2>2. Typed'
      BY <1>8, <2>1 DEF Typed
    <2>3. Placed(e)'
      BY <1>8, <2>1, Sizes DEF Typed, Placement, Placed, Call, Writes, Statuses, Size
    <2>4. Placement'
      BY <1>8, <2>1, <2>3, OthersPlaced DEF Typed, Statuses
    <2> QED BY <1>8, <2>2, <2>4, SameVersions DEF TypedInv
  <1>9. ASSUME NEW e \in Exec, Numbers(e), queued' = queued PROVE TypedInv'
    <2> USE DEF Numbers, request, history
    <2>1. Typed'
      BY <1>9, LatestIsGreatest DEF Typed
    <2>2. Placed(e)'
      BY <1>9, Sizes DEF Typed, Placement, Placed, Call, Saves, Size
    <2>3. Placement'
      BY <1>9, <2>2, OthersPlaced DEF Typed
    <2> QED BY <1>9, <2>1, <2>3, SameVersions DEF TypedInv
  <1>10. ASSUME NEW e \in Exec, Inserts(e), queued' = queued PROVE TypedInv'
    <2> USE DEF Inserts, request, history
    <2>1. (~Call(e, {"draft"})) \in BOOLEAN
      BY DEF Call
    <2>2. versions' \in Seq([number : Nat, rendered : BOOLEAN]) /\ HasLatest'
      BY <1>10, <2>1, Inserted
    <2>3. Typed'
      BY <1>10, <2>2 DEF Typed
    <2>4. Placed(e)'
      BY <1>10, Sizes DEF Typed, Placement, Placed, Call, Writes, Size
    <2>5. Placement'
      BY <1>10, <2>4, OthersPlaced DEF Typed
    <2> QED BY <2>2, <2>3, <2>5 DEF TypedInv
  <1>11. ASSUME NEW e \in Exec, Invalidates(e) \/ SkipsBoost(e) \/ SkipsFloor(e), queued' = queued
         PROVE  TypedInv'
    <2> USE DEF Invalidates, SkipsBoost, SkipsFloor, Advance, request, history
    <2>1. Service(e) \in Services
      BY DEF Service, Services
    <2>2. Size(e) \in Nat /\ Size(e) >= 4 /\ at[e] \in 1 .. Size(e)
      BY <1>11, Sizes DEF Placement, Placed, Call, Size
    <2>3. at'[e] \in 2 .. Size(e) + 1 /\ phase'[e] = "ready"
      BY SMTT(20), <1>11, <2>2 DEF Typed, Size
    <2>4. Typed'
      <3>1. at' \in [Exec -> Nat]
        <4>1. \E n \in {at[e] + 1, Size(e) - 1, Size(e)} : at' = [at EXCEPT ![e] = n]
          BY <1>11 DEF Size
        <4> QED BY <2>2, <4>1 DEF Typed
      <3>2. cache' \in [Services -> Statuses \cup {"miss"}]
        BY <1>11, <2>1 DEF Typed
      <3>3. phase' \in [Exec -> {"ready", "fetched", "numbered", "written"}]
        BY <1>11 DEF Typed
      <3> QED BY <1>11, <3>1, <3>2, <3>3 DEF Typed
    <2>5. Placed(e)'
      <3>1. e \in Rewrites => at[e] # 1
        BY <1>11, WhoCalls DEF Placement, Placed, Call
      <3>2. e \in Rewrites => at'[e] = at[e] + 1
        BY <1>11, WhoCalls, SessionAssumption DEF SessionAssumption, Call, Typed
      <3> QED BY SMTT(20), <1>11, <2>2, <2>3, <3>1, <3>2 DEF Typed, Placement, Placed
    <2>6. Placement'
      BY <1>11, <2>5, OthersPlaced DEF Typed
    <2> QED BY <1>11, <2>4, <2>6, SameVersions DEF TypedInv
  <1>12. ASSUME NEW e \in Exec, Ends(e) \/ Raises(e) \/ WorkerCrashes(e), queued' = queued
         PROVE  TypedInv'
    <2> USE DEF Ends, Raises, WorkerCrashes, Forgets, Advance, request, history
    <2>1. Size(e) \in Nat /\ Size(e) >= 4 /\ Done(e) = Size(e) + 2 /\ Len(Script(e)) = Size(e)
      BY Sizes DEF Size
    <2>2. Typed'
      <3>1. at' \in [Exec -> Nat]
        <4>1. \E n \in {at[e] + 1, Size(e) + 2, 1} : at' = [at EXCEPT ![e] = n]
          BY <1>12, <2>1
        <4> QED BY <2>1, <4>1 DEF Typed
      <3>2. cache' \in [Services -> Statuses \cup {"miss"}]
        BY <1>12 DEF Typed, Services
      <3>3. /\ phase' \in [Exec -> {"ready", "fetched", "numbered", "written"}]
            /\ got' \in [Exec -> Statuses \cup {"miss"}] /\ number' \in [Exec -> Nat]
        <4>1. phase' = phase \/ phase' = [phase EXCEPT ![e] = "ready"]
          BY <1>12
        <4>2. got' = [got EXCEPT ![e] = "miss"]
          BY <1>12
        <4>3. number' = number \/ number' = [number EXCEPT ![e] = 0]
          BY <1>12
        <4>4. /\ phase \in [Exec -> {"ready", "fetched", "numbered", "written"}]
              /\ got \in [Exec -> Statuses \cup {"miss"}] /\ number \in [Exec -> Nat]
          BY DEF Typed
        <4>5. phase' \in [Exec -> {"ready", "fetched", "numbered", "written"}]
          BY <4>1, <4>4
        <4>6. got' \in [Exec -> Statuses \cup {"miss"}]
          BY <4>2, <4>4
        <4>7. number' \in [Exec -> Nat]
          BY <4>3, <4>4
        <4> QED BY <4>5, <4>6, <4>7
      <3>4. faults' \in 0 .. MaxFaults
        <4>1. faults' = faults \/ (faults' = faults + 1 /\ faults < MaxFaults)
          BY <1>12
        <4> QED BY <4>1, SessionAssumption DEF Typed, SessionAssumption
      <3>5. raised' \in BOOLEAN
        BY <1>12 DEF Typed
      <3> QED BY <1>12, <3>1, <3>2, <3>3, <3>4, <3>5 DEF Typed
    <2>3. Placed(e)'
      BY SMTT(20), <1>12, <2>1 DEF Typed, Placement, Placed, Live
    <2>4. Placement'
      BY <1>12, <2>3, OthersPlaced DEF Typed
    <2> QED BY <1>12, <2>2, <2>4, SameVersions DEF TypedInv
  <1> QED
    BY <1>1, <1>3, <1>4, <1>5, <1>6, <1>7, <1>8, <1>9, <1>10, <1>11, <1>12
       DEF Next, Requests, Pipeline, Idle

LEMMA TypesInvariant == Spec => []TypedInv
  BY TypedInit, TypedStep, PTL DEF Spec

(* The state of a session is well typed whatever the order of requests,    *)
(* executions, crashes and redeliveries: an execution stays inside its     *)
(* script, it writes a status of the agent, and a rewrite restores a       *)
(* status that it has read.                                                *)
THEOREM TypeCorrect == Spec => []TypeOK
  <1>1. TypedInv => TypeOK
    <2> SUFFICES ASSUME Typed, Placement PROVE TypeOK
      BY DEF TypedInv
    <2>1. \A e \in Exec : at[e] \in 0 .. Done(e)
      BY Sizes DEF Typed, Placement, Placed
    <2>2. \A i \in DOMAIN versions : versions[i].number \in Nat /\ versions[i].rendered \in BOOLEAN
      BY VersionFields DEF Typed
    <2> QED BY <2>1, <2>2 DEF Typed, TypeOK
  <1> QED BY <1>1, TypesInvariant, PTL

-----------------------------------------------------------------------------
(* One at a time                                                           *)

Alone == \A e, f \in Exec : Live(e) /\ Live(f) => e = f

AloneInv == ~overlapped => Alone

(* An execution becomes live by a dispatch only: a crash or an exception   *)
(* finds it live, and nothing else brings it back into its script.         *)
LEMMA LiveSteps ==
    ASSUME TypedInv, [Next]_vars
    PROVE  \/ \E e \in Exec : DispatchAgentTask(e)
           \/ overlapped' = overlapped /\ \A f \in Exec : Live(f)' => Live(f)
  <1>1. CASE UNCHANGED <<at, overlapped>>
    BY <1>1 DEF Live
  <1>2. CASE StartGeneration
    BY <1>2 DEF StartGeneration, Exec
  <1>3. ASSUME NEW e \in Exec, ApproveOutline(e) \/ RequestRewrite(e)
        PROVE  \E x \in Exec : DispatchAgentTask(x)
    BY <1>3 DEF ApproveOutline, RequestRewrite
  <1>4. CASE StopWrites \/ StopInvalidates \/ PollFetches \/ PollCaches
    BY <1>1, <1>4 DEF StopWrites, StopInvalidates, PollFetches, PollCaches, exec, history
  <1>5. ASSUME NEW e \in Exec, Pipeline(e) \/ Raises(e) \/ WorkerCrashes(e)
        PROVE  overlapped' = overlapped /\ \A f \in Exec : Live(f)' => Live(f)
    <2> DEFINE here == at[e] \in 1 .. Size(e) + 1
    <2>1. Size(e) \in Nat /\ Len(Script(e)) = Size(e) /\ at \in [Exec -> Nat]
      BY Sizes DEF Size, TypedInv, Typed
    <2>2. CASE UNCHANGED at
      <3>1. overlapped' = overlapped
        BY <1>5, <2>2 DEF Pipeline, ReadsCached, Fetches, Caches, Learn, Updates, Numbers, Inserts,
              Invalidates, SkipsBoost, SkipsFloor, Boosts, Ends, Raises, WorkerCrashes, history
      <3> QED BY <2>2, <3>1 DEF Live
    <2>3. CASE ~UNCHANGED at
      <3>1. overlapped' = overlapped /\ \E n : at' = [at EXCEPT ![e] = n]
        BY <1>5, <2>3 DEF Pipeline, ReadsCached, Fetches, Caches, Learn, Updates, Numbers, Inserts,
              Invalidates, SkipsBoost, SkipsFloor, Boosts, Ends, Raises, WorkerCrashes, history, Advance
      <3>2. Live(e)
        BY <1>5, <2>1, <2>3 DEF Pipeline, ReadsCached, Fetches, Caches, Reading, Updates, Numbers, Inserts,
              Invalidates, SkipsBoost, SkipsFloor, Boosts, Ends, Raises, WorkerCrashes, Call, Live,
              TypedInv, Placement, Placed
      <3> QED BY <2>1, <3>1, <3>2 DEF Live
    <2> QED BY <2>2, <2>3
  <1>6. CASE \E s \in Services : Expires(s)
    BY <1>1, <1>6 DEF Expires, exec, history
  <1> QED
    BY <1>1, <1>2, <1>3, <1>4, <1>5, <1>6 DEF Next, Requests, Idle, vars, exec, history

LEMMA AloneStep ==
    ASSUME TypedInv, AloneInv, [Next]_vars
    PROVE  AloneInv'
  <1>1. CASE \E e \in Exec : DispatchAgentTask(e)
    <2> PICK e \in Exec : DispatchAgentTask(e)
      BY <1>1
    <2> SUFFICES ASSUME ~overlapped' PROVE Alone'
      BY DEF AloneInv
    <2>1. at' = [at EXCEPT ![e] = 1] /\ Quiet /\ at \in [Exec -> Nat]
      BY DEF DispatchAgentTask, TypedInv, Typed
    <2> QED BY <2>1 DEF Alone, Quiet, Live
  <1>2. CASE overlapped' = overlapped /\ \A f \in Exec : Live(f)' => Live(f)
    BY <1>2 DEF AloneInv, Alone
  <1> QED BY <1>1, <1>2, LiveSteps

-----------------------------------------------------------------------------
(* Versions                                                                *)

Distinct ==
    \A i, j \in DOMAIN versions : versions[i].number = versions[j].number => i = j

(* The number an execution is about to insert is not in use.               *)
Fresh ==
    \A e \in Exec : phase[e] = "numbered" =>
        \A i \in DOMAIN versions : versions[i].number < number[e]

VersionInv == ~overlapped => Distinct /\ Fresh

LEMMA VersionSteps ==
    ASSUME TypedInv, [Next]_vars
    PROVE  \/ \E e \in Exec : Numbers(e) \/ Inserts(e)
           \/ /\ versions' = versions
              /\ \A f \in Exec : phase'[f] = "numbered" =>
                     phase[f] = "numbered" /\ number'[f] = number[f]
  <1>1. CASE UNCHANGED <<versions, phase, number>>
    BY <1>1
  <1>2. CASE Requests \/ \E s \in Services : Expires(s)
    BY <1>1, <1>2 DEF Requests, StartGeneration, ApproveOutline, RequestRewrite, DispatchAgentTask,
          StopWrites, StopInvalidates, PollFetches, PollCaches, Expires, exec
  <1>3. ASSUME NEW e \in Exec, ~Numbers(e), ~Inserts(e), Pipeline(e) \/ Raises(e) \/ WorkerCrashes(e)
        PROVE  /\ versions' = versions
               /\ \A f \in Exec : phase'[f] = "numbered" =>
                     phase[f] = "numbered" /\ number'[f] = number[f]
    <2>1. phase \in [Exec -> {"ready", "fetched", "numbered", "written"}]
      BY DEF TypedInv, Typed
    <2>2. CASE Ends(e)
      BY <2>2 DEF Ends
    <2>3. CASE Raises(e) \/ WorkerCrashes(e)
      <3>1. /\ versions' = versions /\ phase' = [phase EXCEPT ![e] = "ready"]
            /\ number' = [number EXCEPT ![e] = 0] /\ number \in [Exec -> Nat]
        BY <2>3 DEF Raises, WorkerCrashes, TypedInv, Typed
      <3> QED BY <2>1, <3>1
    <2>4. CASE ~Ends(e) /\ ~Raises(e) /\ ~WorkerCrashes(e)
      <3>1. /\ versions' = versions /\ number' = number
            /\ \/ phase' = phase
               \/ \E p \in {"ready", "fetched", "written"} : phase' = [phase EXCEPT ![e] = p]
        BY <1>3, <2>4 DEF Pipeline, ReadsCached, Fetches, Caches, Learn, Updates, Invalidates,
              SkipsBoost, SkipsFloor, Boosts
      <3> QED BY <2>1, <3>1
    <2> QED BY <2>2, <2>3, <2>4
  <1> QED BY <1>1, <1>2, <1>3 DEF Next, Idle, Pipeline, vars, exec

LEMMA VersionStep ==
    ASSUME TypedInv, AloneInv, VersionInv, [Next]_vars
    PROVE  VersionInv'
  <1> SUFFICES ASSUME ~overlapped' PROVE Distinct' /\ Fresh'
    BY DEF VersionInv
  <1>1. ~overlapped
    BY LiveSteps DEF DispatchAgentTask
  <1>2. Distinct /\ Fresh /\ Alone
    BY <1>1 DEF VersionInv, AloneInv
  <1>3. ASSUME NEW e \in Exec, Numbers(e) PROVE Distinct' /\ Fresh'
    <2>1. /\ versions' = versions /\ phase' = [phase EXCEPT ![e] = "numbered"]
          /\ number' = [number EXCEPT ![e] = Latest + 1]
          /\ phase \in [Exec -> {"ready", "fetched", "numbered", "written"}] /\ number \in [Exec -> Nat]
      BY <1>3 DEF Numbers, TypedInv, Typed
    <2>2. \A i \in DOMAIN versions : versions[i].number < Latest + 1
      BY LatestIsGreatest, VersionFields DEF TypedInv, Typed
    <2> QED BY <1>2, <2>1, <2>2 DEF Distinct, Fresh
  <1>4. ASSUME NEW e \in Exec, Inserts(e) PROVE Distinct' /\ Fresh'
    <2> DEFINE n == Len(versions)
               r == ~Call(e, {"draft"})
    <2>1. r \in BOOLEAN
      BY DEF Call
    <2>2. /\ n \in Nat /\ DOMAIN versions = 1 .. n /\ DOMAIN versions' = 1 .. n + 1
          /\ \A i \in 1 .. n : versions'[i] = versions[i]
          /\ versions'[n + 1].number = number[e]
      BY <1>4, <2>1, Inserted DEF Inserts, TypedInv
    <2>3. \A i \in 1 .. n : versions[i].number < number[e] /\ versions[i].number \in Nat
      BY <1>2, <1>4, <2>2, VersionFields DEF Inserts, Fresh, TypedInv, Typed
    <2>4. number[e] \in Nat
      BY DEF TypedInv, Typed
    <2> HIDE DEF n, r
    <2>5. Distinct'
      BY <1>2, <2>2, <2>3, <2>4 DEF Distinct
    <2>6. Fresh'
      <3>1. ASSUME NEW f \in Exec, phase'[f] = "numbered" PROVE FALSE
        <4>1. f # e /\ phase[f] = "numbered"
          BY <1>4, <3>1 DEF Inserts, TypedInv, Typed
        <4>2. Live(e) /\ Live(f)
          BY <1>4, <4>1, Sizes DEF Inserts, TypedInv, Placement, Placed, Call, Live, Size
        <4> QED BY <1>2, <4>1, <4>2 DEF Alone
      <3> QED BY <3>1 DEF Fresh
    <2> QED BY <2>5, <2>6
  <1>5. CASE /\ versions' = versions
             /\ \A f \in Exec : phase'[f] = "numbered" =>
                    phase[f] = "numbered" /\ number'[f] = number[f]
    BY <1>2, <1>5 DEF Distinct, Fresh
  <1> QED BY <1>3, <1>4, <1>5, VersionSteps

VersionsInv == TypedInv /\ AloneInv /\ VersionInv

LEMMA VersionsInvariant == Spec => []VersionsInv
  <1>1. Init => VersionsInv
    BY TypedInit DEF Init, VersionsInv, AloneInv, Alone, Live, VersionInv, Distinct, Fresh
  <1>2. VersionsInv /\ [Next]_vars => VersionsInv'
    BY TypedStep, AloneStep, VersionStep DEF VersionsInv
  <1> QED BY <1>1, <1>2, PTL DEF Spec

(* save_document_version reads the greatest number and inserts the next one*)
(* in a second call; only executions that run at the same time can choose  *)
(* a number twice, whatever crashes and redeliveries repeat.               *)
THEOREM VersionsApart == Spec => []VersionsDistinct
  <1>1. VersionsInv => VersionsDistinct
    BY DEF VersionsInv, VersionInv, Distinct, VersionsDistinct
  <1> QED BY <1>1, VersionsInvariant, PTL

-----------------------------------------------------------------------------
(* Rendering                                                               *)

Rendered == \E i \in DOMAIN versions : versions[i].rendered
Newest   ==
    \A i \in DOMAIN versions :
        (\A j \in DOMAIN versions : versions[j].number <= versions[i].number)
            => versions[i].rendered

(* Someone may be told, or tell, that the session is completed.            *)
KnownCompleted ==
    \/ status = "completed" \/ poll = "completed"
    \/ \E s \in Services : cache[s] = "completed"
    \/ \E e \in Exec : got[e] = "completed"

(* The execution has saved a rendered version, and nothing older may       *)
(* follow; or it is writing drafts, after it has said "processing".        *)
HasRendered(e) ==
    \/ e \in Resumes /\ at[e] \in Drafting + 2 .. Size(e)
    \/ e \in Resumes /\ at[e] = Drafting + 1 /\ phase[e] = "written"
    \/ e \in Rewrites /\ (at[e] = 4 \/ (at[e] = 3 /\ phase[e] = "written"))

Drafts(e) ==
    /\ e \in Resumes
    /\ at[e] \in 3 .. Drafting \/ (at[e] = 2 /\ phase[e] = "written")

RenderInv ==
    /\ KnownCompleted => Rendered
    /\ \A e \in Exec : HasRendered(e) => Rendered
    /\ ~overlapped =>
          /\ status = "completed" => Newest
          /\ \A e \in Exec : HasRendered(e) => Newest
          /\ \A e \in Exec : Drafts(e) => status # "completed"

(* The calls at the places of resume that matter here.                     *)
LEMMA ResumePlaces ==
    ASSUME NEW e \in Resumes
    PROVE  /\ Call(e, {"draft"}) => at[e] \in 3 .. Drafting
           /\ Call(e, {"boost", "floor", "boostcheck"}) => at[e] \in Drafting + 2 .. Size(e) - 1
           /\ Call(e, {"completed"}) => at[e] = Size(e)
           /\ at[e] \in {2, Drafting + 1} => ~Call(e, {"turn", "read", "check", "boostcheck", "floor", "boost"})
           /\ at[e] = Drafting + 1 => ~Call(e, Statuses \cup {"restore", "boost"})
           /\ at[e] \in 2 .. Drafting /\ Call(e, Statuses \cup {"restore"}) => Script(e)[at[e]] = "processing"
           /\ at[e] = 2 => ~Call(e, Saves)
  <1> DEFINE i == at[e]
             d == Drafting
             n == Size(e)
             S == Script(e)
  <1>1. /\ d \in Nat /\ d >= 8 /\ n \in Nat /\ n >= d + 7
        /\ S[1] = "read" /\ S[2] = "processing" /\ S[d + 1] = "render" /\ S[n] = "completed"
        /\ (\A k \in 3 .. d : S[k] \in {"check", "turn", "draft", "processing"})
        /\ (\A k \in d + 2 .. n - 1 :
                S[k] \in {"processing", "boost", "boostcheck", "turn", "render", "floor"})
    BY Scripts DEF DraftCalls, LaterCalls
  <1>2. \A calls : Call(e, calls) <=> i \in 1 .. n /\ S[i] \in calls
    BY DEF Call, Size
  <1> HIDE DEF i, d, n, S
  <1>3. i \in 1 .. n => \/ i = 1 \/ i = 2 \/ i \in 3 .. d \/ i = d + 1
                       \/ i \in d + 2 .. n - 1 \/ i = n
    BY <1>1
  <1>4. Call(e, {"draft"}) => i \in 3 .. d
    BY <1>1, <1>2, <1>3
  <1>5. Call(e, {"boost", "floor", "boostcheck"}) => i \in d + 2 .. n - 1
    BY <1>1, <1>2, <1>3
  <1>6. Call(e, {"completed"}) => i = n
    BY <1>1, <1>2, <1>3
  <1>7. i \in {2, d + 1} => ~Call(e, {"turn", "read", "check", "boostcheck", "floor", "boost"})
    BY <1>1, <1>2
  <1>8. i = d + 1 => ~Call(e, Statuses \cup {"restore", "boost"})
    BY <1>1, <1>2 DEF Statuses
  <1>9. i \in 2 .. d /\ Call(e, Statuses \cup {"restore"}) => S[i] = "processing"
    <2>1. i \in 2 .. d => i = 2 \/ i \in 3 .. d
      BY <1>1
    <2> QED BY <1>1, <1>2, <2>1 DEF Statuses
  <1>10. i = 2 => ~Call(e, Saves)
    BY <1>1, <1>2 DEF Saves
  <1> QED BY <1>4, <1>5, <1>6, <1>7, <1>8, <1>9, <1>10 DEF i, d, n, S

(* How a step moves an execution.                                          *)
Rests(e)   == at'[e] = at[e] /\ phase'[e] = phase[e]
Begins(e)  == at'[e] = 1 /\ phase'[e] = "ready"
Leaves(e)  == at'[e] > Size(e) /\ phase'[e] = "ready"
Proceeds(e) ==
    /\ at[e] \in 1 .. Size(e) /\ at'[e] = at[e] + 1 /\ phase'[e] = "ready"
    /\ phase[e] = "written" \/ Call(e, {"turn", "read", "check", "boostcheck", "floor"})
Skips(e) ==
    /\ Call(e, {"boost"}) /\ at'[e] \in {Size(e) - 1, Size(e)} /\ phase'[e] = "ready"
Prepares(e) == at'[e] = at[e] /\ phase'[e] \in {"fetched", "numbered"}
Wrote(e)    == at'[e] = at[e] /\ phase'[e] = "written"

LEMMA Moves ==
    ASSUME TypedInv, [Next]_vars, NEW e \in Exec
    PROVE  \/ Rests(e) \/ Begins(e) \/ Leaves(e) \/ Proceeds(e) \/ Skips(e) \/ Prepares(e)
           \/ Wrote(e) /\ (Updates(e) \/ Boosts(e) \/ Inserts(e))
  <1>1. /\ Size(e) \in Nat /\ Size(e) >= 4 /\ Len(Script(e)) = Size(e) /\ Done(e) = Size(e) + 2
        /\ at \in [Exec -> Nat]
        /\ phase \in [Exec -> {"ready", "fetched", "numbered", "written"}]
        /\ (phase[e] # "ready" => at[e] \in 1 .. Size(e))
    BY Sizes DEF Size, TypedInv, Typed, Placement, Placed
  <1>2. CASE UNCHANGED <<at, phase>>
    BY <1>2 DEF Rests
  <1>3. ASSUME NEW f \in Exec, DispatchAgentTask(f)
        PROVE  Rests(e) \/ Begins(e)
    BY <1>1, <1>3 DEF DispatchAgentTask, Rests, Begins
  <1>4. ASSUME NEW f \in Exec, f # e, Pipeline(f) \/ Raises(f) \/ WorkerCrashes(f)
        PROVE  Rests(e)
    <2>1. at' = at \/ \E n : at' = [at EXCEPT ![f] = n]
      BY <1>4 DEF Pipeline, ReadsCached, Fetches, Caches, Learn, Updates, Numbers, Inserts,
            Invalidates, SkipsBoost, SkipsFloor, Boosts, Ends, Raises, WorkerCrashes, Advance
    <2>2. phase' = phase \/ \E p : phase' = [phase EXCEPT ![f] = p]
      BY <1>4 DEF Pipeline, ReadsCached, Fetches, Caches, Learn, Updates, Numbers, Inserts,
            Invalidates, SkipsBoost, SkipsFloor, Boosts, Ends, Raises, WorkerCrashes
    <2> QED BY <1>1, <1>4, <2>1, <2>2 DEF Rests
  <1>5. CASE ReadsCached(e) \/ Caches(e)
    <2>1. /\ phase' = [phase EXCEPT ![e] = "ready"] /\ Reading(e)
          /\ \/ at' = [at EXCEPT ![e] = Size(e) + 1]
             \/ at' = [at EXCEPT ![e] = at[e] + 1]
      BY <1>1, <1>5 DEF ReadsCached, Caches, Learn
    <2> QED BY <1>1, <2>1 DEF Leaves, Proceeds, Reading, Call
  <1>6. CASE Fetches(e) \/ Numbers(e)
    BY <1>1, <1>6 DEF Fetches, Numbers, Prepares
  <1>7. CASE Updates(e) \/ Boosts(e) \/ Inserts(e)
    BY <1>1, <1>7 DEF Updates, Boosts, Inserts, Wrote
  <1>8. CASE Invalidates(e) \/ SkipsFloor(e)
    <2>1. phase'[e] = "ready" /\ at' = [at EXCEPT ![e] = @ + 1]
      BY <1>1, <1>8 DEF Invalidates, SkipsFloor, Advance
    <2>2. phase[e] = "written" \/ Call(e, {"turn", "floor"})
      BY <1>8 DEF Invalidates, SkipsFloor, Call
    <2> QED BY <1>1, <2>1, <2>2 DEF Proceeds, Call
  <1>9. CASE SkipsBoost(e)
    BY <1>1, <1>9 DEF SkipsBoost, Skips
  <1>10. CASE Ends(e) \/ Raises(e) \/ WorkerCrashes(e)
    BY <1>1, <1>10 DEF Ends, Raises, WorkerCrashes, Advance, Leaves, Begins
  <1>11. CASE Requests \/ \E s \in Services : Expires(s)
    BY <1>2, <1>3, <1>11 DEF Requests, StartGeneration, ApproveOutline, RequestRewrite, Exec,
          StopWrites, StopInvalidates, PollFetches, PollCaches, Expires, exec
  <1> QED
    BY <1>2, <1>4, <1>5, <1>6, <1>7, <1>8, <1>9, <1>10, <1>11
       DEF Next, Pipeline, Idle, vars, exec

(* The calls of rewrite_section.                                           *)
LEMMA RewritePlaces ==
    ASSUME NEW e \in Rewrites
    PROVE  /\ Size(e) = 4
           /\ \A calls : Call(e, calls) <=> \/ at[e] = 1 /\ "read" \in calls
                                            \/ at[e] = 2 /\ "turn" \in calls
                                            \/ at[e] = 3 /\ "render" \in calls
                                            \/ at[e] = 4 /\ "restore" \in calls
  <1>1. /\ Size(e) = 4
        /\ Script(e)[1] = "read" /\ Script(e)[2] = "turn"
        /\ Script(e)[3] = "render" /\ Script(e)[4] = "restore"
    BY Scripts
  <1>2. at[e] \in 1 .. 4 <=> at[e] = 1 \/ at[e] = 2 \/ at[e] = 3 \/ at[e] = 4
    OBVIOUS
  <1> QED BY <1>1, <1>2 DEF Call, Size

LEMMA Parties ==
    ASSUME NEW e \in Exec
    PROVE  /\ e = Run => e \notin Resumes /\ e \notin Rewrites
           /\ e \in Resumes => e \notin Rewrites /\ e # Run
           /\ e = Run \/ e \in Resumes \/ e \in Rewrites
  BY SessionAssumption DEF SessionAssumption, Exec

LEMMA RenderingIsLive ==
    ASSUME TypedInv, NEW e \in Exec, HasRendered(e) \/ Drafts(e)
    PROVE  Live(e) /\ ~(HasRendered(e) /\ Drafts(e))
  <1>1. /\ Drafting \in Nat /\ Drafting >= 8 /\ at[e] \in Nat
        /\ (e \in Resumes => Size(e) \in Nat /\ Size(e) >= Drafting + 7)
        /\ (e \in Rewrites => Size(e) = 4)
    BY Scripts DEF TypedInv, Typed
  <1>2. Live(e) <=> at[e] \in 1 .. Size(e) + 1
    BY DEF Live, Size
  <1>3. CASE e \in Resumes
    <2>1. e \notin Rewrites
      BY <1>3, Parties
    <2> QED BY <1>1, <1>2, <1>3, <2>1 DEF HasRendered, Drafts
  <1>4. CASE e \in Rewrites
    <2>1. e \notin Resumes
      BY <1>4, Parties
    <2> QED BY <1>1, <1>2, <1>4, <2>1 DEF HasRendered, Drafts
  <1> QED BY <1>3, <1>4 DEF HasRendered, Drafts

(* An execution has rendered once it has inserted a rendered version.      *)
LEMMA ComesToRender ==
    ASSUME TypedInv, [Next]_vars, NEW e \in Exec, HasRendered(e)'
    PROVE  HasRendered(e) \/ (Inserts(e) /\ ~Call(e, {"draft"}))
  <1>1. /\ Drafting \in Nat /\ Drafting >= 8 /\ at[e] \in Nat /\ at'[e] \in Nat
        /\ phase[e] \in {"ready", "fetched", "numbered", "written"}
    BY Scripts, TypedStep DEF TypedInv, Typed
  <1>2. CASE e \in Resumes
    <2>0. e \notin Rewrites
      BY <1>2, Parties
    <2>1. Size(e) \in Nat /\ Size(e) >= Drafting + 7
      BY <1>2, Scripts
    <2>2. CASE Rests(e) \/ Begins(e) \/ Leaves(e) \/ Prepares(e)
      BY <1>1, <1>2, <2>0, <2>1, <2>2 DEF HasRendered, Rests, Begins, Leaves, Prepares
    <2>3. CASE Proceeds(e)
      BY <1>1, <1>2, <2>0, <2>1, <2>3, ResumePlaces DEF HasRendered, Proceeds, Call
    <2>4. CASE Skips(e)
      BY <1>1, <1>2, <2>0, <2>1, <2>4, ResumePlaces DEF HasRendered, Skips, Call
    <2>5. CASE Wrote(e) /\ Inserts(e)
      BY <1>1, <1>2, <2>0, <2>1, <2>5, ResumePlaces DEF HasRendered, Wrote
    <2>6. CASE Wrote(e) /\ (Updates(e) \/ Boosts(e))
      <3>1. at[e] # Drafting + 1
        BY <1>2, <2>6, ResumePlaces DEF Updates, Boosts, Call
      <3> QED BY <1>1, <1>2, <2>0, <2>1, <2>6, <3>1 DEF HasRendered, Wrote
    <2> QED BY <2>2, <2>3, <2>4, <2>5, <2>6, Moves
  <1>3. CASE e \in Rewrites
    <2>0. e \notin Resumes /\ Size(e) = 4
      BY <1>3, Parties, RewritePlaces
    <2>2. CASE Rests(e) \/ Begins(e) \/ Leaves(e) \/ Prepares(e)
      BY <1>1, <1>3, <2>0, <2>2 DEF HasRendered, Rests, Begins, Leaves, Prepares
    <2>3. CASE Proceeds(e)
      BY <1>1, <1>3, <2>0, <2>3, RewritePlaces DEF HasRendered, Proceeds
    <2>4. CASE Skips(e)
      BY <1>3, <2>4, RewritePlaces DEF Skips
    <2>5. CASE Wrote(e) /\ Inserts(e)
      <3>1. ~Call(e, {"draft"})
        BY <1>3, RewritePlaces
      <3> QED BY <2>5, <3>1
    <2>6. CASE Wrote(e) /\ (Updates(e) \/ Boosts(e))
      <3>1. at[e] = 4
        BY <1>3, <2>6, RewritePlaces DEF Updates, Boosts, Statuses
      <3> QED BY <1>3, <3>1 DEF HasRendered
    <2> QED BY <2>2, <2>3, <2>4, <2>5, <2>6, Moves
  <1> QED BY <1>2, <1>3 DEF HasRendered

(* Drafts are written after the status "processing".                       *)
LEMMA ComesToDraft ==
    ASSUME TypedInv, [Next]_vars, NEW e \in Exec, Drafts(e)'
    PROVE  Drafts(e) \/ status' = "processing"
  <1>1. /\ Drafting \in Nat /\ Drafting >= 8 /\ at[e] \in Nat /\ at'[e] \in Nat
        /\ phase[e] \in {"ready", "fetched", "numbered", "written"}
        /\ e \in Resumes /\ Size(e) \in Nat /\ Size(e) >= Drafting + 7
    BY SMTT(20), Scripts, TypedStep DEF TypedInv, Typed, Drafts
  <1>2. CASE Rests(e) \/ Begins(e) \/ Leaves(e) \/ Prepares(e)
    BY <1>1, <1>2 DEF Drafts, Rests, Begins, Leaves, Prepares
  <1>3. CASE Proceeds(e)
    BY <1>1, <1>3, ResumePlaces DEF Drafts, Proceeds, Call
  <1>4. CASE Skips(e)
    BY <1>1, <1>4, ResumePlaces DEF Drafts, Skips, Call
  <1>5. CASE Wrote(e) /\ Inserts(e)
    <2>1. at[e] # 2
      BY <1>1, <1>5, ResumePlaces DEF Inserts, TypedInv, Placement, Placed
    <2> QED BY <1>1, <1>5, <2>1 DEF Drafts, Wrote
  <1>6. CASE Wrote(e) /\ (Updates(e) \/ Boosts(e))
    BY <1>1, <1>6, ResumePlaces, Scripts DEF Drafts, Wrote, Updates, Boosts, Call
  <1> QED BY <1>2, <1>3, <1>4, <1>5, <1>6, Moves

(* A session is completed by an execution that has rendered.               *)
LEMMA ComesToCompletion ==
    ASSUME TypedInv, [Next]_vars, status' = "completed", status # "completed"
    PROVE  \E e \in Exec : Updates(e) /\ HasRendered(e)
  <1>1. PICK e \in Exec : Updates(e)
    BY DEF Next, Requests, StartGeneration, ApproveOutline, RequestRewrite, DispatchAgentTask,
       StopWrites, StopInvalidates, PollFetches, PollCaches, Expires, Idle,
       Pipeline, ReadsCached, Fetches, Caches, Numbers, Inserts, Invalidates, SkipsBoost,
       SkipsFloor, Boosts, Ends, Raises, WorkerCrashes, vars
  <1>2. CASE Call(e, {"restore"})
    BY <1>1, <1>2, WhoCalls DEF HasRendered
  <1>3. CASE ~Call(e, {"restore"})
    <2>1. Script(e)[at[e]] = "completed" /\ Call(e, {"completed"})
      BY <1>1, <1>3 DEF Updates, Call
    <2>2. e \in Resumes
      BY SMTT(20), <2>1, Scripts, RewritePlaces, Parties DEF Call, Size
    <2>3. at[e] = Size(e) /\ Size(e) \in Nat /\ Size(e) >= Drafting + 7 /\ Drafting \in Nat
      BY <2>1, <2>2, ResumePlaces, Scripts
    <2> QED BY <1>1, <2>2, <2>3 DEF HasRendered
  <1> QED BY <1>1, <1>2, <1>3

LEMMA ComesToBeKnown ==
    ASSUME TypedInv, [Next]_vars, KnownCompleted'
    PROVE  KnownCompleted \/ \E e \in Exec : HasRendered(e)
  <1> SUFFICES ASSUME ~KnownCompleted PROVE \E e \in Exec : HasRendered(e)
    OBVIOUS
  <1>1. CASE status' = "completed"
    BY <1>1, ComesToCompletion DEF KnownCompleted
  <1>2. CASE status' # "completed"
    <2> DEFINE Known(x) == x # "completed"
    <2>1. /\ status # "completed" /\ poll # "completed"
          /\ (\A s \in Services : cache[s] # "completed")
          /\ (\A f \in Exec : got[f] # "completed")
          /\ cache \in [Services -> Statuses \cup {"miss"}] /\ got \in [Exec -> Statuses \cup {"miss"}]
      BY DEF KnownCompleted, TypedInv, Typed
    <2>2. poll' # "completed"
      BY <2>1 DEF Next, Requests, StartGeneration, ApproveOutline, RequestRewrite, DispatchAgentTask,
         StopWrites, StopInvalidates, PollFetches, PollCaches, Expires, Idle, request,
         Pipeline, ReadsCached, Fetches, Caches, Updates, Numbers, Inserts, Invalidates, SkipsBoost,
         SkipsFloor, Boosts, Ends, Raises, WorkerCrashes, vars
    <2>3. got' = got \/ \E f \in Exec : \E x : got' = [got EXCEPT ![f] = x] /\ x # "completed"
      <3>1. \A f \in Exec : cache[Service(f)] # "completed"
        BY <2>1 DEF Service, Services
      <3> QED
        BY ZenonT(40), <2>1, <3>1 DEF Next, Requests, StartGeneration, ApproveOutline, RequestRewrite, DispatchAgentTask,
         StopWrites, StopInvalidates, PollFetches, PollCaches, Expires, Idle, exec, Learn, Forgets,
         Pipeline, ReadsCached, Fetches, Caches, Updates, Numbers, Inserts, Invalidates, SkipsBoost,
         SkipsFloor, Boosts, Ends, Raises, WorkerCrashes, vars
    <2>4. cache' = cache \/ \E s, x : cache' = [cache EXCEPT ![s] = x] /\ x # "completed"
      <3>1. CASE Requests
        BY SMTT(20), <2>1, <3>1 DEF Requests, StartGeneration, ApproveOutline, RequestRewrite, DispatchAgentTask,
           StopWrites, StopInvalidates, PollFetches, PollCaches
      <3>2. CASE \E s \in Services : Expires(s)
        BY <3>2 DEF Expires
      <3>3. ASSUME NEW f \in Exec, Caches(f)
            PROVE  \E s, x : cache' = [cache EXCEPT ![s] = x] /\ x # "completed"
        BY <2>1, <3>3 DEF Caches
      <3>4. ASSUME NEW f \in Exec, ~Caches(f), Pipeline(f) \/ Raises(f) \/ WorkerCrashes(f)
            PROVE  cache' = cache \/ \E s : cache' = [cache EXCEPT ![s] = "miss"]
        BY <3>4 DEF Forgets, Pipeline, ReadsCached, Fetches, Updates, Numbers, Inserts, Invalidates,
           SkipsBoost, SkipsFloor, Boosts, Ends, Raises, WorkerCrashes
      <3>5. ASSUME NEW s, cache' = [cache EXCEPT ![s] = "miss"]
            PROVE  \E x : cache' = [cache EXCEPT ![s] = x] /\ x # "completed"
        <4> WITNESS "miss"
        <4> QED BY <3>5
      <3>6. CASE UNCHANGED cache
        BY <3>6
      <3>7. \/ Requests \/ (\E s \in Services : Expires(s)) \/ UNCHANGED cache
            \/ \E f \in Exec : Pipeline(f) \/ Raises(f) \/ WorkerCrashes(f)
        BY DEF Next, Idle, vars
      <3> QED BY <3>1, <3>2, <3>3, <3>4, <3>5, <3>6, <3>7
    <2>5. (\A f \in Exec : got'[f] # "completed") /\ (\A s \in Services : cache'[s] # "completed")
      BY <2>1, <2>3, <2>4
    <2> QED BY <1>2, <2>2, <2>5 DEF KnownCompleted
  <1> QED BY <1>1, <1>2

LEMMA RenderStep ==
    ASSUME VersionsInv, RenderInv, [Next]_vars
    PROVE  RenderInv'
  <1> USE DEF VersionsInv
  <1>1. Rendered => Rendered'
    <2>1. CASE versions' = versions
      BY <2>1 DEF Rendered
    <2>2. ASSUME NEW e \in Exec, Inserts(e) PROVE Rendered => Rendered'
      <3> DEFINE r == ~Call(e, {"draft"})
      <3>1. r \in BOOLEAN
        BY DEF Call
      <3>2. \A i \in DOMAIN versions : i \in DOMAIN versions' /\ versions'[i] = versions[i]
        BY <2>2, <3>1, Inserted DEF Inserts, TypedInv
      <3> QED BY <3>2 DEF Rendered
    <2> QED BY <2>1, <2>2, VersionSteps DEF Numbers
  <1>2. ASSUME NEW e \in Exec, Inserts(e), ~Call(e, {"draft"})
        PROVE  Rendered' /\ (~overlapped => Newest')
    <2> DEFINE n == Len(versions)
    <2>0. versions' = Append(versions, [number |-> number[e], rendered |-> TRUE])
      BY <1>2 DEF Inserts, Call
    <2>1. /\ n \in Nat /\ DOMAIN versions = 1 .. n /\ DOMAIN versions' = 1 .. n + 1
          /\ \A i \in 1 .. n : versions'[i] = versions[i]
          /\ versions'[n + 1].number = number[e] /\ versions'[n + 1].rendered
      BY <2>0, Inserted DEF TypedInv
    <2>2. Rendered'
      BY <2>1 DEF Rendered
    <2>3. ASSUME ~overlapped PROVE Newest'
      <3>1. \A i \in 1 .. n : versions[i].number < number[e] /\ versions[i].number \in Nat
        BY <1>2, <2>1, <2>3, VersionFields DEF Inserts, VersionInv, Fresh, TypedInv, Typed
      <3>2. number[e] \in Nat
        BY DEF TypedInv, Typed
      <3> HIDE DEF n
      <3> QED BY <2>1, <3>1, <3>2 DEF Newest
    <2> QED BY <2>2, <2>3
  <1>3. KnownCompleted' => Rendered'
    BY <1>1, ComesToBeKnown DEF RenderInv
  <1>4. \A e \in Exec : HasRendered(e)' => Rendered'
    BY <1>1, <1>2, ComesToRender DEF RenderInv
  <1>5. ASSUME ~overlapped'
        PROVE  /\ (status = "completed" => Newest) /\ ~overlapped /\ Alone
               /\ (\A e \in Exec : HasRendered(e) => Newest)
               /\ (\A e \in Exec : Drafts(e) => status # "completed")
    <2>1. ~overlapped
      BY <1>5, LiveSteps DEF DispatchAgentTask
    <2> QED BY <2>1 DEF RenderInv, AloneInv
  <1>6. ASSUME ~overlapped', NEW e \in Exec, Drafts(e)'
        PROVE  status' # "completed"
    <2> SUFFICES ASSUME status' = "completed" PROVE FALSE
      OBVIOUS
    <2>1. Drafts(e)
      BY <1>6, ComesToDraft
    <2>2. PICK f \in Exec : HasRendered(f)
      BY <1>5, <1>6, <2>1, ComesToCompletion
    <2>3. e = f
      BY <1>5, <1>6, <2>1, <2>2, RenderingIsLive DEF Alone
    <2> QED BY <2>1, <2>2, <2>3, RenderingIsLive
  <1>7. ASSUME ~overlapped'
        PROVE  /\ status' = "completed" => Newest'
               /\ \A e \in Exec : HasRendered(e)' => Newest'
    <2>1. CASE versions' = versions
      <3>1. Newest' = Newest
        BY <2>1 DEF Newest
      <3>2. \A e \in Exec : ~Inserts(e)
        <4>1. ASSUME NEW e \in Exec, Inserts(e) PROVE FALSE
          <5> DEFINE r == ~Call(e, {"draft"})
          <5>1. r \in BOOLEAN
            BY DEF Call
          <5>2. DOMAIN versions = 1 .. Len(versions) /\ DOMAIN versions' = 1 .. Len(versions) + 1
                /\ Len(versions) \in Nat
            BY <4>1, <5>1, Inserted DEF Inserts, TypedInv
          <5> QED BY <2>1, <5>2
        <4> QED BY <4>1
      <3>3. \A e \in Exec : HasRendered(e)' => Newest
        BY <1>5, <1>7, <3>2, ComesToRender
      <3>4. status' = "completed" => Newest
        BY <1>5, <1>7, ComesToCompletion
      <3> QED BY <3>1, <3>3, <3>4
    <2>2. ASSUME NEW e \in Exec, Inserts(e)
          PROVE  /\ status' = "completed" => Newest'
                 /\ \A f \in Exec : HasRendered(f)' => Newest'
      <3>1. CASE ~Call(e, {"draft"})
        BY <1>2, <1>5, <1>7, <2>2, <3>1
      <3>2. CASE Call(e, {"draft"})
        <4>1. e \in Resumes
          BY <3>2, WhoCalls DEF Call
        <4>2. Drafts(e)
          BY <3>2, <4>1, ResumePlaces DEF Drafts
        <4>3. status' # "completed"
          BY <1>5, <1>7, <2>2, <4>2 DEF Inserts
        <4>4. ASSUME NEW f \in Exec, HasRendered(f)' PROVE FALSE
          <5>1. HasRendered(f) \/ (Inserts(f) /\ ~Call(f, {"draft"}))
            BY <4>4, ComesToRender
          <5>2. Inserts(f) => Live(f)
            BY Sizes DEF Inserts, TypedInv, Placement, Placed, Live, Size
          <5>3. e = f
            BY <1>5, <1>7, <4>2, <5>1, <5>2, RenderingIsLive DEF Alone
          <5> QED BY <3>2, <4>2, <5>1, <5>3, RenderingIsLive
        <4> QED BY <4>3, <4>4
      <3> QED BY <3>1, <3>2
    <2> QED BY <2>1, <2>2, VersionSteps DEF Numbers
  <1> QED BY <1>3, <1>4, <1>6, <1>7 DEF RenderInv

(* A completed session has a rendered file, even when executions ran at the*)
(* same time; when they did not, the newest version is rendered, so that   *)
(* nothing written after the rendering hides it from a download.           *)
THEOREM CompletedHasFile == Spec => []CompletedIsRendered
  <1>1. Init => VersionsInv /\ RenderInv
    <2>1. ASSUME Init PROVE RenderInv
      <3>1. /\ status = "absent" /\ poll = "none"
            /\ (\A s \in Services : cache[s] = "miss")
            /\ (\A e \in Exec : got[e] = "miss" /\ at[e] = 0)
        BY <2>1 DEF Init
      <3>2. \A e \in Exec : ~HasRendered(e) /\ ~Drafts(e)
        BY <3>1, Scripts DEF HasRendered, Drafts
      <3> QED BY <3>1, <3>2 DEF RenderInv, KnownCompleted
    <2>2. Init => VersionsInv
      BY TypedInit DEF Init, VersionsInv, AloneInv, Alone, Live, VersionInv, Distinct, Fresh
    <2> QED BY <2>1, <2>2
  <1>2. (VersionsInv /\ RenderInv) /\ [Next]_vars => (VersionsInv /\ RenderInv)'
    BY TypedStep, AloneStep, VersionStep, RenderStep DEF VersionsInv
  <1>3. VersionsInv /\ RenderInv => CompletedIsRendered
    <2> SUFFICES ASSUME VersionsInv, RenderInv, status = "completed"
                 PROVE  Rendered /\ (overlapped \/ \A i \in DOMAIN versions :
                            versions[i].number = Latest => versions[i].rendered)
      BY DEF CompletedIsRendered, Rendered
    <2>1. Rendered
      BY DEF RenderInv, KnownCompleted
    <2>2. ASSUME ~overlapped, NEW i \in DOMAIN versions, versions[i].number = Latest
          PROVE  versions[i].rendered
      <3>1. Newest
        BY <2>2 DEF RenderInv
      <3>2. \A j \in DOMAIN versions : versions[j].number <= versions[i].number
        BY <2>2, LatestIsGreatest DEF VersionsInv, TypedInv
      <3> QED BY <3>1, <3>2 DEF Newest
    <2> QED BY <2>1, <2>2
  <1> QED BY <1>1, <1>2, <1>3, PTL DEF Spec

-----------------------------------------------------------------------------
(* No session is stuck                                                     *)

SettledStatuses == {"awaiting_approval", "completed", "canceled"}
Settled(x) == x \in SettledStatuses

Clean == ~raised /\ ~overlapped /\ ~stale

(* What the status, the cache and the locals must be for the execution to  *)
(* leave the session settled.                                              *)
SettledAt(e) ==
    /\ at[e] = Size(e) + 1 => Settled(status)
    /\ at[e] = Size(e) /\ phase[e] = "written" => Settled(status)
    /\ Live(e) /\ phase[e] # "written" /\ cache[Service(e)] = "canceled" => status = "canceled"
    /\ e \in Rewrites /\ Live(e) =>
          /\ Settled(status)
          /\ cache[Service(e)] \in SettledStatuses \cup {"miss"}
          /\ at[e] \in 2 .. Size(e) \/ phase[e] = "fetched" => Settled(got[e])

CacheInv == queued => \A e \in Exec : ~Live(e) => cache[e] = "miss"
BegunInv == status # "absent" => at[Run] # 0
QuietInv == Quiet /\ at[Run] # 0 => Settled(status)

SettledInv ==
    /\ CacheInv /\ BegunInv
    /\ Clean => QuietInv /\ \A e \in Exec : SettledAt(e)

LEMMA LastCall ==
    ASSUME NEW e \in Exec, at[e] = Size(e)
    PROVE  /\ ~Call(e, {"turn", "read", "check", "boostcheck", "floor", "boost"})
           /\ ~Call(e, Saves)
           /\ Call(e, {"restore"}) \/ Script(e)[at[e]] \in SettledStatuses
  <1>1. CASE e = Run
    BY <1>1, Scripts DEF Call, Saves, SettledStatuses
  <1>2. CASE e \in Resumes
    BY <1>2, Scripts DEF Call, Saves, SettledStatuses
  <1>3. CASE e \in Rewrites
    BY <1>3, RewritePlaces DEF Saves
  <1> QED BY <1>1, <1>2, <1>3 DEF Exec

LEMMA StaysLive ==
    ASSUME TypedInv, NEW e \in Exec, Pipeline(e), ~Ends(e)
    PROVE  Live(e) /\ Live(e)' /\ \A f \in Exec \ {e} : at'[f] = at[f] /\ phase'[f] = phase[f]
  <1>1. /\ Size(e) \in Nat /\ Size(e) >= 4 /\ Len(Script(e)) = Size(e)
        /\ at \in [Exec -> Nat]
        /\ phase \in [Exec -> {"ready", "fetched", "numbered", "written"}]
        /\ (phase[e] # "ready" => at[e] \in 1 .. Size(e))
    BY Sizes DEF Size, TypedInv, Typed, Placement, Placed
  <1>2. at[e] \in 1 .. Size(e)
    BY <1>1 DEF Pipeline, ReadsCached, Fetches, Caches, Reading, Updates, Numbers, Inserts,
          Invalidates, SkipsBoost, SkipsFloor, Boosts, Call
  <1>3. \E n \in {at[e], at[e] + 1, Size(e) - 1, Size(e), Size(e) + 1} : at' = [at EXCEPT ![e] = n]
    <2>1. CASE ReadsCached(e) \/ Caches(e)
      BY <1>1, <2>1 DEF ReadsCached, Caches, Learn
    <2>2. CASE UNCHANGED at
      BY <1>1, <2>2
    <2>3. CASE Invalidates(e) \/ SkipsFloor(e) \/ SkipsBoost(e)
      BY <1>1, <2>3 DEF Invalidates, SkipsFloor, SkipsBoost, Advance
    <2> QED BY <2>1, <2>2, <2>3 DEF Pipeline, Fetches, Updates, Numbers, Inserts, Boosts
  <1>4. phase' = phase \/ \E p : phase' = [phase EXCEPT ![e] = p]
    BY DEF Pipeline, ReadsCached, Fetches, Caches, Learn, Updates, Numbers, Inserts,
       Invalidates, SkipsBoost, SkipsFloor, Boosts
  <1>5. Live(e)
    BY <1>1, <1>2 DEF Live
  <1>6. Live(e)'
    BY <1>1, <1>2, <1>3 DEF Live
  <1> QED BY <1>1, <1>3, <1>4, <1>5, <1>6

(* A Celery task starts with an empty cache of its own.                    *)
LEMMA CacheStep ==
    ASSUME TypedInv, CacheInv, [Next]_vars
    PROVE  CacheInv'
  <1> SUFFICES ASSUME queued', NEW f \in Exec, ~Live(f)' PROVE cache'[f] = "miss"
    BY DEF CacheInv
  <1>1. queued /\ Web # f /\ cache \in [Services -> Statuses \cup {"miss"}] /\ at \in [Exec -> Nat]
        /\ f \in Services
    BY SessionAssumption DEF Next, vars, SessionAssumption, Exec, Services, TypedInv, Typed
  <1>2. CASE UNCHANGED <<at, cache>>
    BY <1>1, <1>2 DEF CacheInv, Live
  <1>3. ASSUME NEW e \in Exec, DispatchAgentTask(e) PROVE cache'[f] = "miss"
    <2>1. 1 \in 1 .. Len(Script(e)) + 1
      BY Sizes DEF Size
    <2> QED BY <1>1, <1>3, <2>1 DEF DispatchAgentTask, CacheInv, Live
  <1>4. CASE StopWrites \/ StopInvalidates \/ PollFetches \/ PollCaches
    <2>1. at' = at /\ (cache' = cache \/ \E x : cache' = [cache EXCEPT ![Web] = x])
      BY <1>4 DEF StopWrites, StopInvalidates, PollFetches, PollCaches, exec
    <2> QED BY <1>1, <2>1 DEF CacheInv, Live
  <1>5. ASSUME NEW s \in Services, Expires(s) PROVE cache'[f] = "miss"
    BY <1>1, <1>5 DEF Expires, exec, CacheInv, Live
  <1>6. ASSUME NEW e \in Exec, Ends(e) \/ Raises(e) \/ WorkerCrashes(e) PROVE cache'[f] = "miss"
    <2>1. cache' = [cache EXCEPT ![e] = "miss"] /\ \A g \in Exec \ {e} : at'[g] = at[g]
      BY <1>1, <1>6 DEF Ends, Raises, WorkerCrashes, Forgets, Advance
    <2> QED BY <1>1, <2>1 DEF CacheInv, Live
  <1>7. ASSUME NEW e \in Exec, Pipeline(e), ~Ends(e) PROVE cache'[f] = "miss"
    <2>1. f # e /\ at'[f] = at[f]
      BY <1>7, StaysLive
    <2>2. cache' = cache \/ \E x : cache' = [cache EXCEPT ![e] = x]
      BY <1>1, <1>7 DEF Pipeline, ReadsCached, Fetches, Caches, Updates, Numbers, Inserts,
         Invalidates, SkipsBoost, SkipsFloor, Boosts, Service
    <2> QED BY <1>1, <2>1, <2>2 DEF CacheInv, Live
  <1> QED
    BY <1>2, <1>3, <1>4, <1>5, <1>6, <1>7
       DEF Next, Requests, StartGeneration, ApproveOutline, RequestRewrite, Exec, Pipeline, Idle, vars, exec

LEMMA BegunStep ==
    ASSUME TypedInv, BegunInv, [Next]_vars
    PROVE  BegunInv'
  <1> SUFFICES ASSUME at'[Run] = 0 PROVE status' = "absent"
    BY DEF BegunInv
  <1>1. Run \in Exec /\ Size(Run) = 11 /\ at \in [Exec -> Nat]
    BY Scripts DEF Exec, TypedInv, Typed
  <1>2. at[Run] = 0
    BY <1>1, Moves DEF Rests, Begins, Leaves, Proceeds, Skips, Prepares, Wrote
  <1>3. status = "absent" /\ \A e \in Exec : at[e] = 0 /\ phase[e] = "ready"
    <2>1. status = "absent"
      BY <1>2 DEF BegunInv
    <2> QED BY <2>1 DEF TypedInv, Placement, Placed
  <1>4. ~StartGeneration
    BY <1>1 DEF StartGeneration, DispatchAgentTask
  <1>5. ASSUME NEW e \in Exec, Pipeline(e) \/ Raises(e) \/ WorkerCrashes(e) PROVE FALSE
    <2>1. ~Live(e) /\ at[e] # Len(Script(e)) + 1 /\ at[e] \notin 1 .. Len(Script(e))
      BY <1>3, Sizes DEF Live, Size
    <2>2. ~Ends(e) /\ ~Raises(e) /\ ~WorkerCrashes(e)
      BY <2>1 DEF Ends, Raises, WorkerCrashes
    <2> QED BY <1>5, <2>1, <2>2, StaysLive
  <1>6. CASE StopWrites \/ StopInvalidates \/ PollFetches \/ PollCaches
    BY <1>3, <1>6 DEF StopWrites, StopInvalidates, PollFetches, PollCaches
  <1>7. CASE \E s \in Services : Expires(s)
    BY <1>3, <1>7 DEF Expires
  <1>8. CASE \E e \in Exec : ApproveOutline(e) \/ RequestRewrite(e)
    BY <1>3, <1>8 DEF ApproveOutline, RequestRewrite
  <1> QED
    BY <1>3, <1>4, <1>5, <1>6, <1>7, <1>8 DEF Next, Requests, Idle, vars

LEMMA CleanBefore ==
    ASSUME TypedInv, [Next]_vars, Clean'
    PROVE  Clean
  <1>1. raised' \/ ~raised
    BY DEF Next, Requests, StartGeneration, ApproveOutline, RequestRewrite, DispatchAgentTask,
       StopWrites, StopInvalidates, PollFetches, PollCaches, Expires, Idle, history, Learn,
       Pipeline, ReadsCached, Fetches, Caches, Updates, Numbers, Inserts, Invalidates, SkipsBoost,
       SkipsFloor, Boosts, Ends, Raises, WorkerCrashes, vars
  <1>2. stale' \/ ~stale
    BY DEF Next, Requests, StartGeneration, ApproveOutline, RequestRewrite, DispatchAgentTask,
       StopWrites, StopInvalidates, PollFetches, PollCaches, Expires, Idle, history, Learn,
       Pipeline, ReadsCached, Fetches, Caches, Updates, Numbers, Inserts, Invalidates, SkipsBoost,
       SkipsFloor, Boosts, Ends, Raises, WorkerCrashes, vars
  <1>3. overlapped' \/ ~overlapped
    BY LiveSteps DEF DispatchAgentTask
  <1> QED BY <1>1, <1>2, <1>3 DEF Clean

(* Nothing is required of an execution that is not under way.              *)
LEMMA OnlyLive ==
    ASSUME TypedInv, NEW e \in Exec, ~Live(e)
    PROVE  SettledAt(e)
  <1>1. Size(e) \in Nat /\ Size(e) >= 4 /\ Len(Script(e)) = Size(e) /\ at[e] \in Nat
    BY Sizes DEF Size, TypedInv, Typed
  <1> QED BY <1>1 DEF SettledAt, Live

LEMMA OnlyLiveNext ==
    ASSUME TypedInv', NEW e \in Exec, ~Live(e)'
    PROVE  SettledAt(e)'
  <1>1. Size(e) \in Nat /\ Size(e) >= 4 /\ Len(Script(e)) = Size(e) /\ at'[e] \in Nat
    BY Sizes DEF Size, TypedInv, Typed
  <1> QED BY <1>1 DEF SettledAt, Live

LEMMA SettledStep ==
    ASSUME TypedInv, AloneInv, SettledInv, [Next]_vars, Clean'
    PROVE  QuietInv' /\ \A e \in Exec : SettledAt(e)'
  <1>1. Clean /\ Alone /\ TypedInv' /\ AloneInv' /\ Alone' /\ CacheInv /\ BegunInv /\ QuietInv
        /\ \A e \in Exec : SettledAt(e)
    BY CleanBefore, TypedStep, AloneStep DEF Clean, AloneInv, SettledInv
  <1>2. /\ cache \in [Services -> Statuses \cup {"miss"}] /\ got \in [Exec -> Statuses \cup {"miss"}]
        /\ at \in [Exec -> Nat] /\ phase \in [Exec -> {"ready", "fetched", "numbered", "written"}]
        /\ Web \in Services /\ Run \in Exec /\ queued' = queued
        /\ \A e \in Exec : Service(e) \in Services /\ Service(e)' = Service(e)
    BY DEF TypedInv, Typed, Services, Service, Exec, Next, vars
  <1>3. ASSUME NEW e \in Exec, DispatchAgentTask(e),
               e = Run \/ (status' = status /\ status # "absent")
        PROVE  QuietInv' /\ \A f \in Exec : SettledAt(f)'
    <2>1. /\ at' = [at EXCEPT ![e] = 1] /\ at[e] = 0 /\ Quiet /\ cache' = [cache EXCEPT ![Web] = "miss"]
          /\ UNCHANGED <<phase, got>>
      BY <1>3 DEF DispatchAgentTask, Clean
    <2>2. /\ Size(e) \in Nat /\ Size(e) >= 4 /\ Len(Script(e)) = Size(e)
          /\ ~Live(e) /\ Live(e)' /\ phase[e] = "ready"
      BY <1>2, <2>1, Sizes DEF Size, Live, TypedInv, Placement, Placed
    <2>3. cache'[Service(e)] = "miss"
      BY <1>1, <1>2, <2>1, <2>2 DEF Service, CacheInv
    <2>4. e \in Rewrites => Settled(status')
      BY <1>1, <1>3, <2>1, Parties DEF BegunInv, QuietInv
    <2>5. SettledAt(e)'
      BY <1>2, <2>1, <2>2, <2>3, <2>4 DEF SettledAt
    <2>6. \A f \in Exec : f # e => ~Live(f)'
      BY <1>1, <2>2 DEF Alone
    <2>7. QuietInv'
      BY <2>2 DEF QuietInv, Quiet
    <2> QED BY <1>1, <2>5, <2>6, <2>7, OnlyLiveNext
  <1>4. ASSUME UNCHANGED <<at, phase, got>>, status' \in {status, "canceled"},
               \A s \in Services : cache'[s] \in {cache[s], "miss", status'}
        PROVE  QuietInv' /\ \A f \in Exec : SettledAt(f)'
    <2>1. QuietInv'
      BY <1>1, <1>4 DEF QuietInv, Quiet, Live, Settled, SettledStatuses
    <2>2. ASSUME NEW f \in Exec PROVE SettledAt(f)'
      <3>1. cache'[Service(f)'] \in {cache[Service(f)], "miss", status'} /\ (Live(f)' <=> Live(f)) /\ SettledAt(f)
        BY <1>1, <1>2, <1>4 DEF Live
      <3> QED BY <1>4, <3>1 DEF SettledAt, Settled, SettledStatuses
    <2> QED BY <2>1, <2>2
  <1>5. CASE StopWrites \/ StopInvalidates \/ PollFetches \/ PollCaches
    <2>1. UNCHANGED <<at, phase, got>> /\ status' \in {status, "canceled"}
      BY <1>5 DEF StopWrites, StopInvalidates, PollFetches, PollCaches, exec
    <2>2. ASSUME NEW s \in Services PROVE cache'[s] \in {cache[s], "miss", status'}
      BY <1>2, <1>5 DEF StopWrites, StopInvalidates, PollFetches, PollCaches, Clean
    <2> QED BY <1>4, <2>1, <2>2
  <1>6. ASSUME NEW x \in Services, Expires(x) PROVE QuietInv' /\ \A f \in Exec : SettledAt(f)'
    <2>1. UNCHANGED <<at, phase, got, status>> /\ cache' = [cache EXCEPT ![x] = "miss"]
      BY <1>6 DEF Expires, exec
    <2>2. \A s \in Services : cache'[s] \in {cache[s], "miss", status'}
      BY <1>2, <2>1
    <2> QED BY <1>4, <2>1, <2>2
  <1>7. ASSUME NEW e \in Exec, Ends(e) PROVE QuietInv' /\ \A f \in Exec : SettledAt(f)'
    <2>1. Size(e) \in Nat /\ Len(Script(e)) = Size(e)
      BY Sizes DEF Size
    <2>2. at[e] = Size(e) + 1 /\ at' = [at EXCEPT ![e] = @ + 1] /\ status' = status
      BY <1>7, <2>1 DEF Ends, Advance
    <2>3. Settled(status')
      BY <1>1, <2>2 DEF SettledAt
    <2>4. \A f \in Exec : ~Live(f)'
      <3>1. Live(e)
        BY <2>1, <2>2 DEF Live
      <3>2. ~Live(e)'
        BY <1>2, <2>1, <2>2 DEF Live
      <3>3. \A f \in Exec \ {e} : ~Live(f)'
        BY <1>1, <1>2, <2>2, <3>1 DEF Alone, Live
      <3> QED BY <3>2, <3>3
    <2> QED BY <1>1, <2>3, <2>4, OnlyLiveNext DEF QuietInv
  <1>8. ASSUME NEW e \in Exec, Live(e)', SettledAt(e)'
        PROVE  QuietInv' /\ \A f \in Exec : SettledAt(f)'
    <2>1. \A f \in Exec \ {e} : ~Live(f)'
      BY <1>1, <1>8 DEF Alone
    <2> QED BY <1>1, <1>8, <2>1, OnlyLiveNext DEF QuietInv, Quiet
  <1>9. ASSUME NEW e \in Exec, WorkerCrashes(e) PROVE Live(e)' /\ SettledAt(e)'
    <2>1. Size(e) \in Nat /\ Size(e) >= 4 /\ Len(Script(e)) = Size(e)
      BY Sizes DEF Size
    <2>2. /\ at'[e] = 1 /\ phase'[e] = "ready" /\ status' = status /\ Live(e)
          /\ queued /\ cache' = [cache EXCEPT ![e] = "miss"]
      BY <1>2, <1>9 DEF WorkerCrashes, Forgets
    <2>3. cache'[Service(e)'] = "miss" /\ Live(e)'
      BY <1>2, <2>1, <2>2 DEF Service, Services, Live
    <2>4. e \in Rewrites => Settled(status)
      BY <1>1, <2>2 DEF SettledAt
    <2> QED BY <2>1, <2>2, <2>3, <2>4 DEF SettledAt
  <1>10. ASSUME NEW e \in Exec, Pipeline(e), ~Ends(e) PROVE SettledAt(e)'
    <2>1. /\ Size(e) \in Nat /\ Size(e) >= 4 /\ Len(Script(e)) = Size(e)
          /\ Live(e) /\ Live(e)' /\ SettledAt(e)
          /\ Service(e) \in Services /\ Service(e)' = Service(e) /\ at[e] \in Nat
          /\ (e \in Rewrites => Size(e) = 4)
          /\ (phase[e] # "ready" => at[e] \in 1 .. Size(e))
      BY <1>1, <1>2, <1>10, StaysLive, Sizes, RewritePlaces DEF Size, TypedInv, Placement, Placed
    <2>2. CASE ReadsCached(e) \/ Caches(e)
      <3> DEFINE s == cache'[Service(e)]
      <3>1. /\ Learn(e, s) /\ Reading(e) /\ status' = status /\ s # "miss"
            /\ (s = "canceled" => status = "canceled")
            /\ (e \in Rewrites => s \in SettledStatuses)
        <4>1. CASE ReadsCached(e)
          <5>1. /\ s = cache[Service(e)] /\ Learn(e, s) /\ Reading(e) /\ status' = status /\ s # "miss"
                /\ phase[e] = "ready"
            BY <4>1 DEF ReadsCached
          <5> QED BY <2>1, <5>1 DEF SettledAt
        <4>2. CASE Caches(e)
          <5>1. /\ s = got[e] /\ Learn(e, s) /\ Reading(e) /\ status' = status
                /\ phase[e] = "fetched" /\ got[e] = status /\ status # "absent"
            <6>1. cache' = [cache EXCEPT ![Service(e)] = got[e]] /\ Learn(e, got[e]) /\ Reading(e)
                  /\ status' = status /\ phase[e] = "fetched" /\ got[e] = status
              BY <4>2 DEF Caches, Clean
            <6>2. status # "absent"
              BY <2>1, <6>1, Sizes DEF Live, TypedInv, Placement, Placed
            <6> QED BY <1>2, <2>1, <6>1, <6>2
          <5>2. s \in Statuses
            BY <5>1 DEF TypedInv, Placement, Placed
          <5> QED BY <2>1, <5>1, <5>2 DEF SettledAt, Settled, Statuses
        <4> QED BY <2>2, <4>1, <4>2
      <3>2. /\ phase'[e] = "ready" /\ (e \in Rewrites => got'[e] = s)
            /\ \/ at'[e] = Size(e) + 1 /\ s = "canceled"
               \/ at'[e] = at[e] + 1
        BY <1>2, <2>1, <3>1 DEF Learn
      <3>3. at[e] # Size(e)
        BY <3>1, LastCall DEF Reading, Call
      <3> HIDE DEF s
      <3>4. at'[e] = Size(e) + 1 => status' = "canceled"
        BY <2>1, <3>1, <3>2, <3>3 DEF Reading, Call
      <3>5. cache'[Service(e)'] = s
        BY <2>1 DEF s
      <3> QED BY <2>1, <3>1, <3>2, <3>4, <3>5 DEF SettledAt, Settled, SettledStatuses
    <2>3. CASE Fetches(e)
      <3>1. /\ at' = at /\ phase'[e] = "fetched" /\ phase[e] = "ready" /\ got'[e] = status
            /\ status' = status /\ cache' = cache
        BY <1>2, <2>3 DEF Fetches
      <3> QED BY <2>1, <3>1 DEF SettledAt, Settled
    <2>4. CASE Updates(e)
      <3>1. /\ at' = at /\ phase'[e] = "written" /\ phase[e] = "ready" /\ got' = got
            /\ cache' = cache /\ at[e] \in 1 .. Size(e)
        BY <1>2, <2>1, <2>4 DEF Updates, Call
      <3>2. e \in Rewrites => at[e] = 4 /\ Settled(status')
        <4>1. ASSUME e \in Rewrites PROVE at[e] = 4 /\ status' = got[e]
          BY <2>4, <4>1, RewritePlaces DEF Updates, Statuses
        <4> QED BY <2>1, <4>1 DEF SettledAt
      <3>3. at[e] = Size(e) => Settled(status')
        <4>1. CASE Call(e, {"restore"})
          BY <3>2, <4>1, WhoCalls
        <4>2. CASE ~Call(e, {"restore"})
          BY <2>4, <4>2, LastCall DEF Updates, Settled
        <4> QED BY <4>1, <4>2
      <3> QED BY <2>1, <3>1, <3>2, <3>3 DEF SettledAt
    <2>5. CASE Boosts(e)
      <3>1. /\ at' = at /\ phase'[e] = "written" /\ at[e] \in 1 .. Size(e) /\ at[e] # Size(e)
        BY <1>2, <2>1, <2>5, LastCall DEF Boosts, Call
      <3>2. e \notin Rewrites
        BY <2>5, RewritePlaces DEF Boosts
      <3> QED BY <2>1, <3>1, <3>2 DEF SettledAt
    <2>6. CASE Numbers(e)
      <3>1. /\ at' = at /\ phase'[e] = "numbered" /\ phase[e] = "ready" /\ UNCHANGED <<got, status, cache>>
        BY <1>2, <2>6 DEF Numbers
      <3> QED BY <2>1, <3>1 DEF SettledAt, Settled
    <2>7. CASE Inserts(e)
      <3>1. /\ at' = at /\ phase'[e] = "written" /\ phase[e] = "numbered" /\ UNCHANGED <<got, status, cache>>
        BY <1>2, <2>7 DEF Inserts
      <3>2. at[e] # Size(e) /\ at[e] \in 1 .. Size(e)
        BY <2>1, <3>1, LastCall DEF TypedInv, Placement, Placed
      <3> QED BY <2>1, <3>1, <3>2 DEF SettledAt, Settled
    <2>8. CASE Invalidates(e)
      <3>1. /\ at'[e] = at[e] + 1 /\ phase'[e] = "ready" /\ UNCHANGED <<got, status>>
            /\ cache'[Service(e)'] = "miss" /\ at[e] \in 1 .. Size(e)
        BY <1>2, <2>1, <2>8 DEF Invalidates, Advance, Call
      <3>2. at[e] = Size(e) => Settled(status)
        <4>1. ASSUME at[e] = Size(e) PROVE phase[e] = "written"
          BY <2>8, <4>1, LastCall DEF Invalidates, Call
        <4> QED BY <2>1, <4>1 DEF SettledAt
      <3>3. e \in Rewrites => at[e] \in 2 .. Size(e)
        <4>1. e \in Rewrites => at[e] # 1
          BY <2>8, WhoCalls DEF Invalidates, TypedInv, Placement, Placed
        <4> QED BY <2>1, <3>1, <4>1
      <3> QED BY <2>1, <3>1, <3>2, <3>3 DEF SettledAt, Settled
    <2>9. CASE SkipsBoost(e) \/ SkipsFloor(e)
      <3>1. at'[e] \in 1 .. Size(e) /\ phase'[e] = "ready"
        <4>1. at[e] \in 1 .. Size(e) /\ at[e] # Size(e) /\ phase[e] = "ready" /\ phase' = phase
          BY <2>1, <2>9, LastCall DEF SkipsBoost, SkipsFloor, Call
        <4>2. at'[e] \in {at[e] + 1, Size(e) - 1, Size(e)}
          BY <1>2, <2>1, <2>9 DEF SkipsBoost, SkipsFloor, Advance
        <4> QED BY <2>1, <4>1, <4>2
      <3>2. e \notin Rewrites /\ phase[e] = "ready" /\ status' = status /\ cache' = cache
        BY <2>9, RewritePlaces DEF SkipsBoost, SkipsFloor
      <3> QED BY <2>1, <3>1, <3>2 DEF SettledAt
    <2> QED BY <1>10, <2>2, <2>3, <2>4, <2>5, <2>6, <2>7, <2>8, <2>9 DEF Pipeline
  <1>11. ASSUME NEW e \in Exec, Raises(e) PROVE FALSE
    BY <1>11 DEF Raises, Clean
  <1>12. CASE UNCHANGED vars \/ Idle
    BY <1>2, <1>4, <1>12 DEF Idle, vars, exec
  <1>13. CASE StartGeneration \/ \E e \in Exec : ApproveOutline(e) \/ RequestRewrite(e)
    BY <1>2, <1>3, <1>13 DEF StartGeneration, ApproveOutline, RequestRewrite
  <1>14. ASSUME NEW e \in Exec, Pipeline(e) PROVE QuietInv' /\ \A f \in Exec : SettledAt(f)'
    BY <1>7, <1>8, <1>10, <1>14, StaysLive
  <1> QED
    BY <1>5, <1>6, <1>8, <1>9, <1>11, <1>12, <1>13, <1>14 DEF Next, Requests

(* Whatever stops, polls, expired entries and redelivered tasks come in    *)
(* between, a session nobody works on waits for approval, is completed or  *)
(* is canceled.  The proof finds where each of the three excuses is needed:*)
(* an exception ends an execution before its last status, two executions   *)
(* overwrite each other's, and an outdated "canceled" in a cache ends an   *)
(* execution although the row says "processing".                           *)
THEOREM NobodyIsStuck == Spec => []NoStuckSession
  <1>1. Init => TypedInv /\ AloneInv /\ SettledInv
    <2>1. ASSUME Init PROVE SettledInv
      <3>1. /\ status = "absent"
            /\ \A e \in Exec : at[e] = 0 /\ ~Live(e) /\ cache[e] = "miss"
        BY <2>1 DEF Init, Live, Services
      <3>2. Run \in Exec /\ TypedInv
        BY <2>1, TypedInit DEF Exec
      <3> QED BY <3>1, <3>2, OnlyLive DEF SettledInv, CacheInv, BegunInv, QuietInv
    <2>2. ASSUME Init PROVE AloneInv
      BY <2>2 DEF Init, AloneInv, Alone, Live
    <2> QED BY <2>1, <2>2, TypedInit
  <1>2. (TypedInv /\ AloneInv /\ SettledInv) /\ [Next]_vars => (TypedInv /\ AloneInv /\ SettledInv)'
    BY TypedStep, AloneStep, CacheStep, BegunStep, SettledStep DEF SettledInv
  <1>3. SettledInv => NoStuckSession
    BY DEF SettledInv, QuietInv, NoStuckSession, Clean, Settled, SettledStatuses
  <1> QED BY <1>1, <1>2, <1>3, PTL DEF Spec
=============================================================================
