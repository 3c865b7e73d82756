-------------------------- MODULE StatusPollProofs --------------------------
(***************************************************************************)
(* Types of StatusPoll, that an answer put together from three reads is    *)
(* consistent, that a tab alone sees no progress go back, and that a tab   *)
(* stops asking on a true verdict only, for any number of tabs and reports.*)
(***************************************************************************)
EXTENDS StatusPoll, TLAPS

Draft == [row : Row, phases : 0 .. Reports, quality : BOOLEAN]

(* The row the pipeline writes next is a row.                              *)
RowInv == work # "ended" => document.n < Reports

TypedInv == TypeOK /\ RowInv

LEMMA RowFacts ==
    ASSUME NEW r \in Row
    PROVE  r.n \in Nat /\ r.n <= Reports /\ r.status \in Statuses
           /\ r = [n |-> r.n, status |-> r.status]
BY PollAssumption DEF Row, PollAssumption

LEMMA InitialTyped == Initial \in Row /\ NothingRead \in Draft /\ 0 \in 0 .. Reports
BY PollAssumption DEF Initial, NothingRead, Draft, Row, Statuses, PollAssumption

LEMMA Ages == Gone \in Nat /\ 0 \in 0 .. Gone /\ Gone \in 0 .. Gone /\ Ttl \in Nat
BY PollAssumption DEF Gone, PollAssumption

LEMMA StoreTyped ==
    ASSUME NEW r \in Row, Store(r) \/ Drop
    PROVE  entry' \in Row /\ age' \in 0 .. Gone
BY InitialTyped, Ages DEF Store, Drop

LEMMA TypeInit == Init => TypedInv
<1> SUFFICES ASSUME Init PROVE TypedInv
  OBVIOUS
<1>1. /\ troubles \in 0 .. MaxTroubles /\ shown \in 0 .. Reports /\ phases \in 0 .. Reports
      /\ 0 < Reports
  BY PollAssumption DEF Init, PollAssumption
<1> QED BY <1>1, InitialTyped, Ages DEF Init, TypedInv, TypeOK, RowInv, Draft, Initial

(* What the answer to a poll leaves behind.                                *)
LEMMA EndsTyped ==
    ASSUME TypeOK, NEW t \in Tabs, NEW kind \in {"payload", "503"}, Ends(t, kind)
    PROVE  /\ pc' \in [Tabs -> {"idle"} \cup Asking] /\ draft' \in [Tabs -> Draft]
           /\ told' \in [Tabs -> {"nothing", "payload", "503"}]
BY InitialTyped DEF Ends, TypeOK, Draft

LEMMA AnswerTyped ==
    ASSUME TypeOK, NEW t \in Tabs, NEW r \in Row, Answer(t, r)
    PROVE  /\ pc' \in [Tabs -> {"idle"} \cup Asking] /\ draft' \in [Tabs -> Draft]
           /\ told' \in [Tabs -> {"nothing", "payload", "503"}]
           /\ shown' \in 0 .. Reports /\ watching' \in [Tabs -> BOOLEAN]
<1>1. Ends(t, "payload") /\ r.n \in 0 .. Reports
  BY DEF Answer, Row
<1>2. shown' \in 0 .. Reports /\ watching' \in [Tabs -> BOOLEAN]
  BY <1>1 DEF Answer, TypeOK
<1> QED BY <1>1, <1>2, EndsTyped

LEMMA TypeStep == TypedInv /\ [Next]_vars => TypedInv'
<1> SUFFICES ASSUME TypedInv, [Next]_vars PROVE TypedInv'
  OBVIOUS
<1> USE DEF TypedInv
<1>0. /\ document \in Row /\ entry \in Row /\ age \in 0 .. Gone /\ phases \in 0 .. Reports
      /\ draft \in [Tabs -> Draft] /\ pc \in [Tabs -> {"idle"} \cup Asking]
      /\ Reports \in Nat /\ MaxTroubles \in Nat /\ troubles \in 0 .. MaxTroubles
      /\ document.n \in Nat /\ document.n <= Reports
  BY PollAssumption, RowFacts DEF TypeOK, Draft, PollAssumption
<1>1. CASE ReportsPhase
  BY <1>0, <1>1 DEF ReportsPhase, TypeOK, RowInv, cache, polls
<1>2. CASE ReportsRow
  <2>1. PICK s \in Statuses :
          /\ document' = [n |-> document.n + 1, status |-> s]
          /\ work' = IF s = "PROCESSING" THEN "between" ELSE "ended"
          /\ document.n + 1 = Reports => s = "COMPLETED"
    BY <1>2 DEF ReportsRow, Statuses
  <2>2. document.n + 1 \in 0 .. Reports /\ (s = "PROCESSING" => document.n + 1 < Reports)
    BY <1>0, <1>2, <2>1 DEF ReportsRow, RowInv
  <2>3. document' \in Row /\ RowInv' /\ work' \in {"between", "ended"}
    BY <2>1, <2>2 DEF Row, RowInv
  <2> QED BY <1>2, <2>3 DEF ReportsRow, TypeOK, cache, polls
<1>3. CASE InsertsResult
  BY <1>0, <1>3 DEF InsertsResult, TypeOK, RowInv, cache, polls
<1>4. CASE PublishesOutput
  <2>1. document' \in Row /\ document'.n = document.n
    BY <1>0, <1>4 DEF PublishesOutput, Row, Statuses
  <2> QED BY <1>4, <2>1 DEF PublishesOutput, TypeOK, RowInv, cache, polls
<1>5. CASE RunsInVain \/ RequestDelete \/ DeleteCleans \/ DeleteRow
  <2>1. CASE RunsInVain \/ RequestDelete
    BY <1>0, <2>1 DEF RunsInVain, RequestDelete, TypeOK, RowInv, database, cache, polls
  <2>2. CASE DeleteCleans
    BY <1>0, <2>2, InitialTyped DEF DeleteCleans, TypeOK, RowInv, cache, polls
  <2>3. CASE DeleteRow
    BY <1>0, <2>3, InitialTyped DEF DeleteRow, TypeOK, RowInv, cache, polls
  <2> QED BY <1>5, <2>1, <2>2, <2>3
<1>6. CASE Uploads
  <2>1. CASE UploadCaches
    BY <2>1, InitialTyped, StoreTyped DEF UploadCaches, TypeOK, RowInv, database, polls
  <2>2. CASE UploadAnswers
    BY <2>2 DEF UploadAnswers, TypeOK, RowInv, database, cache
  <2> QED BY <1>6, <2>1, <2>2 DEF Uploads
<1>7. CASE Tick
  <2>1. age' \in 0 .. Gone /\ entry' \in Row
    BY <1>0, <1>7, InitialTyped, Ages DEF Tick
  <2> QED BY <1>7, <2>1 DEF Tick, TypeOK, RowInv, database, polls
<1>8. ASSUME NEW t \in Tabs, Poll(t) PROVE TypedInv'
  <2>0. /\ draft[t] \in Draft /\ draft[t].row \in Row
    BY <1>0 DEF Draft
  <2>1. CASE AnswersCached(t)
    <3>1. Answer(t, entry)
      BY <2>1 DEF AnswersCached
    <3> QED BY <1>0, <2>1, <3>1, AnswerTyped
        DEF AnswersCached, TypeOK, RowInv, others, database, cache, Draft
  <2>2. CASE Misses(t)
    <3>1. pc' \in [Tabs -> {"idle"} \cup Asking]
      BY <1>0, <2>2 DEF Misses, GoesOn, Asking
    <3> QED BY <2>2, <3>1
        DEF Misses, GoesOn, TypeOK, RowInv, others, database, cache
  <2>3. CASE ReadsDocument(t)
    <3>1. pc' \in [Tabs -> {"idle"} \cup Asking]
      BY <1>0, <2>3 DEF ReadsDocument, GoesOn, Asking
    <3>2. draft' \in [Tabs -> Draft]
      <4>1. [draft[t] EXCEPT !.row = document] \in Draft
        BY <1>0, <2>0 DEF Draft
      <4> QED BY <1>0, <2>3, <4>1 DEF ReadsDocument
    <3> QED BY <2>3, <3>1, <3>2
        DEF ReadsDocument, GoesOn, TypeOK, RowInv, others, database, cache, Draft
  <2>4. CASE MissesRow(t)
    <3>1. Error(t, "503")
      BY <2>4 DEF MissesRow
    <3>2. Ends(t, "503")
      BY <3>1 DEF Error
    <3> QED BY <2>4, <3>1, <3>2, EndsTyped
        DEF MissesRow, Error, TypeOK, RowInv, others, database, cache, Draft
  <2>5. CASE ReadsPhases(t) \/ ReadsResult(t)
    <3>1. pc' \in [Tabs -> {"idle"} \cup Asking]
      BY <1>0, <2>5 DEF ReadsPhases, ReadsResult, GoesOn, Asking
    <3>2. draft' \in [Tabs -> Draft]
      <4>1. /\ [draft[t] EXCEPT !.phases = phases] \in Draft
            /\ \A q \in BOOLEAN : [draft[t] EXCEPT !.quality = q] \in Draft
        BY <1>0, <2>0 DEF Draft
      <4> QED BY <1>0, <2>5, <4>1 DEF ReadsPhases, ReadsResult
    <3> QED BY <2>5, <3>1, <3>2
        DEF ReadsPhases, ReadsResult, GoesOn, TypeOK, RowInv, others, database, cache, Draft
  <2>6. CASE Fills(t)
    <3>1. Store(draft[t].row) /\ Answer(t, draft[t].row)
      BY <2>6 DEF Fills
    <3> QED BY <2>0, <2>6, <3>1, AnswerTyped, StoreTyped
        DEF Fills, TypeOK, RowInv, others, database, Draft
  <2> QED BY <1>8, <2>1, <2>2, <2>3, <2>4, <2>5, <2>6 DEF Poll
<1>9. ASSUME NEW t \in Tabs, ReadFails(t) PROVE TypedInv'
  <2>1. Ends(t, "503")
    BY <1>9 DEF ReadFails, Error
  <2>2. troubles' \in 0 .. MaxTroubles
    BY <1>0, <1>9 DEF ReadFails
  <2> QED BY <1>9, <2>1, <2>2, EndsTyped
      DEF ReadFails, Error, TypeOK, RowInv, database, cache, Draft
<1>10. ASSUME NEW t \in Tabs, Cancels(t) PROVE TypedInv'
  BY <1>0, <1>10 DEF Cancels, TypeOK, RowInv, database, cache
<1>11. CASE UNCHANGED vars
  BY <1>11 DEF vars, TypeOK, RowInv, database, cache, polls
<1> QED
  BY <1>1, <1>2, <1>3, <1>4, <1>5, <1>6, <1>7, <1>8, <1>9, <1>10, <1>11
     DEF Next, Pipeline, Deletes

(* Every variable has its type, for any number of tabs and reports.        *)
THEOREM TypeCorrect == Spec => []TypeOK
<1>1. TypedInv => TypeOK
  BY DEF TypedInv
<1> QED BY <1>1, TypeInit, TypeStep, PTL DEF Spec

-----------------------------------------------------------------------------
(* Consistent answers: the pipeline writes phase, then row, and result,    *)
(* then COMPLETED; a poll reads the row, then the phases, then the result. *)

Intact == deletion \in {"no", "cleaning"}

(* What is in the tables, as long as a deletion has not emptied them.      *)
WriteOrder ==
    /\ Intact => phases >= document.n
    /\ Intact /\ work = "reporting" => phases = document.n + 1
    /\ document.status = "COMPLETED" => result # "none"
    /\ work = "reporting" /\ document.n + 1 = Reports => document.status = "COMPLETED"

(* What a poll under way has read of it.                                   *)
ReadOrder(t) ==
    /\ pc[t] \in {"phases", "result", "fill"} =>
          /\ draft[t].row.n <= document.n
          /\ draft[t].row.status = "COMPLETED" => result # "none"
    /\ Intact /\ pc[t] \in {"result", "fill"} => draft[t].phases >= draft[t].row.n
    /\ Intact /\ pc[t] = "fill" /\ draft[t].row.status = "COMPLETED" /\ result # "lost"
          => draft[t].quality

OrderInv == WriteOrder /\ \A t \in Tabs : ReadOrder(t)

(* Writes that take nothing back leave the drafts as true as they were.    *)
LEMMA DraftsKept ==
    ASSUME TypedInv, NEW t \in Tabs, ReadOrder(t), pc'[t] = pc[t], draft'[t] = draft[t],
           document'.n >= document.n, document'.n \in Nat, Intact' => Intact,
           result' = result \/ (result = "none" /\ result' # "none")
    PROVE  ReadOrder(t)'
<1>1. document.n \in Nat /\ draft[t].row.n \in Nat
  BY RowFacts DEF TypedInv, TypeOK
<1> QED BY <1>1 DEF ReadOrder

LEMMA WriteStep ==
    ASSUME TypedInv, OrderInv, Pipeline \/ RequestDelete \/ Deletes
    PROVE  OrderInv'
<1>0. /\ document.n \in Nat /\ phases \in Nat /\ document.n <= Reports /\ Reports \in Nat
      /\ document = [n |-> document.n, status |-> document.status]
      /\ WriteOrder /\ \A t \in Tabs : ReadOrder(t)
  BY RowFacts, PollAssumption DEF TypedInv, TypeOK, OrderInv, PollAssumption
<1>1. CASE ReportsPhase
  <2>1. WriteOrder'
    BY <1>0, <1>1 DEF ReportsPhase, WriteOrder, Intact
  <2>2. ASSUME NEW t \in Tabs PROVE ReadOrder(t)'
    BY <1>0, <1>1, DraftsKept DEF ReportsPhase, polls, Intact
  <2> QED BY <2>1, <2>2 DEF OrderInv
<1>2. CASE ReportsRow
  <2>1. /\ document'.n = document.n + 1 /\ work = "reporting"
        /\ document'.status = "COMPLETED" => document.n + 1 = Reports
        /\ work' \in {"between", "ended"} /\ UNCHANGED <<phases, result, deletion>>
    BY <1>2 DEF ReportsRow
  <2>2. WriteOrder'
    BY <1>0, <2>1 DEF WriteOrder, Intact
  <2>3. ASSUME NEW t \in Tabs PROVE ReadOrder(t)'
    BY <1>0, <1>2, <2>1, DraftsKept DEF ReportsRow, polls, Intact
  <2> QED BY <2>2, <2>3 DEF OrderInv
<1>3. CASE InsertsResult
  <2>1. WriteOrder'
    BY <1>0, <1>3 DEF InsertsResult, WriteOrder, Intact
  <2>2. ASSUME NEW t \in Tabs PROVE ReadOrder(t)'
    BY <1>0, <1>3, DraftsKept DEF InsertsResult, polls, Intact
  <2> QED BY <2>1, <2>2 DEF OrderInv
<1>4. CASE PublishesOutput
  <2>1. document'.n = document.n
    BY <1>0, <1>4 DEF PublishesOutput
  <2>2. WriteOrder'
    BY <1>0, <1>4, <2>1 DEF PublishesOutput, WriteOrder, Intact
  <2>3. ASSUME NEW t \in Tabs PROVE ReadOrder(t)'
    BY <1>0, <1>4, <2>1, DraftsKept DEF PublishesOutput, polls, Intact
  <2> QED BY <2>2, <2>3 DEF OrderInv
<1>5. CASE RunsInVain \/ RequestDelete
  <2>1. WriteOrder'
    BY <1>0, <1>5 DEF RunsInVain, RequestDelete, WriteOrder, Intact, database
  <2>2. ASSUME NEW t \in Tabs PROVE ReadOrder(t)'
    BY <1>0, <1>5, DraftsKept DEF RunsInVain, RequestDelete, polls, database, Intact
  <2> QED BY <2>1, <2>2 DEF OrderInv
<1>6. CASE DeleteCleans
  <2>1. ~Intact' /\ result' # "saved" /\ (result # "none" => result' # "none")
        /\ UNCHANGED <<document, work, pc, draft>>
    BY <1>6 DEF DeleteCleans, Intact, polls
  <2>2. WriteOrder'
    BY <1>0, <2>1 DEF WriteOrder
  <2>3. ASSUME NEW t \in Tabs PROVE ReadOrder(t)'
    BY <1>0, <2>1 DEF ReadOrder
  <2> QED BY <2>2, <2>3 DEF OrderInv
<1>7. CASE DeleteRow
  <2>1. ~Intact' /\ UNCHANGED <<document, result, work, pc, draft>>
    BY <1>7 DEF DeleteRow, Intact, polls
  <2>2. WriteOrder' /\ \A t \in Tabs : ReadOrder(t)'
    BY <1>0, <2>1 DEF WriteOrder, ReadOrder
  <2> QED BY <2>2 DEF OrderInv
<1> QED BY <1>1, <1>2, <1>3, <1>4, <1>5, <1>6, <1>7 DEF Pipeline, Deletes

LEMMA ReadStep ==
    ASSUME TypedInv, OrderInv, NEW t \in Tabs, Poll(t) \/ ReadFails(t) \/ Cancels(t)
    PROVE  OrderInv'
<1>0. /\ DOMAIN pc = Tabs /\ draft \in [Tabs -> Draft]
      /\ document.n \in Nat /\ phases \in Nat /\ WriteOrder
      /\ result \in {"none", "saved", "lost"}
      /\ \A u \in Tabs : ReadOrder(u) /\ draft[u] \in Draft /\ draft[u].row.n \in Nat
  <2>1. \A u \in Tabs : draft[u] \in Draft /\ draft[u].row \in Row
    BY DEF TypedInv, TypeOK, Draft
  <2> QED BY <2>1, RowFacts DEF TypedInv, TypeOK, OrderInv, Draft
<1>1. UNCHANGED <<document, phases, result, work, deletion>>
  BY DEF Poll, AnswersCached, Misses, ReadsDocument, MissesRow, ReadsPhases, ReadsResult,
     Fills, ReadFails, Cancels, others, database
<1>2. WriteOrder' /\ Intact' = Intact
  BY <1>0, <1>1 DEF WriteOrder, Intact
<1>3. ASSUME NEW u \in Tabs, u # t PROVE ReadOrder(u)'
  <2>1. pc'[u] = pc[u] /\ draft'[u] = draft[u]
    <3>1. CASE AnswersCached(t) \/ MissesRow(t) \/ Fills(t)
               \/ ReadFails(t)
      BY <1>0, <1>3, <3>1 DEF AnswersCached, MissesRow, Fills, ReadFails,
         Answer, Error, Ends
    <3>2. CASE Misses(t) \/ ReadsDocument(t) \/ ReadsPhases(t)
               \/ ReadsResult(t) \/ Cancels(t)
      BY <1>0, <1>3, <3>2 DEF Misses, ReadsDocument, ReadsPhases,
         ReadsResult, Cancels, GoesOn
    <3> QED BY <3>1, <3>2 DEF Poll
  <2> QED BY <1>0, <1>1, <1>2, <2>1 DEF ReadOrder
<1>4. ReadOrder(t)'
  <2>1. CASE AnswersCached(t) \/ MissesRow(t) \/ Fills(t)
             \/ ReadFails(t) \/ Misses(t)
    <3>1. pc'[t] \notin {"phases", "result", "fill"}
      BY <1>0, <2>1 DEF AnswersCached, MissesRow, Fills, ReadFails,
         Answer, Error, Ends, Misses, GoesOn
    <3> QED BY <3>1 DEF ReadOrder
  <2>2. CASE ReadsDocument(t)
    <3>1. pc'[t] = "phases" /\ draft'[t].row = document
      BY <1>0, <2>2 DEF ReadsDocument, GoesOn, Draft
    <3> QED BY <1>0, <1>1, <3>1 DEF ReadOrder, WriteOrder
  <2>3. CASE ReadsPhases(t)
    <3>1. /\ pc[t] = "phases" /\ draft'[t].row = draft[t].row /\ draft'[t].phases = phases
          /\ pc'[t] = IF draft[t].row.status = "COMPLETED" THEN "result" ELSE "fill"
      BY <1>0, <2>3 DEF ReadsPhases, GoesOn, Draft, ReadyForExport
    <3> QED BY <1>0, <1>1, <1>2, <3>1 DEF ReadOrder, WriteOrder
  <2>4. CASE ReadsResult(t)
    <3>1. /\ pc[t] = "result" /\ draft'[t].row = draft[t].row
          /\ draft'[t].phases = draft[t].phases /\ draft'[t].quality = (result = "saved")
          /\ pc'[t] = "fill"
      BY <1>0, <2>4 DEF ReadsResult, GoesOn, Draft
    <3> QED BY <1>0, <1>1, <1>2, <3>1 DEF ReadOrder
  <2>5. CASE Cancels(t)
    BY <1>0, <1>1, <1>2, <2>5 DEF Cancels, ReadOrder
  <2> QED BY <2>1, <2>2, <2>3, <2>4, <2>5 DEF Poll
<1> QED BY <1>2, <1>3, <1>4 DEF OrderInv

LEMMA OrderStep == TypedInv /\ OrderInv /\ [Next]_vars => OrderInv'
<1> SUFFICES ASSUME TypedInv, OrderInv, [Next]_vars PROVE OrderInv'
  OBVIOUS
<1>1. CASE Uploads \/ Tick \/ UNCHANGED vars
  <2>1. UNCHANGED <<document, phases, result, work, deletion, pc, draft>>
    BY <1>1 DEF Uploads, UploadCaches, UploadAnswers, Tick, vars, database, polls
  <2> QED BY <2>1 DEF OrderInv, WriteOrder, ReadOrder, Intact
<1> QED BY <1>1, WriteStep, ReadStep DEF Next

(* An answer put together while the pipeline writes shows at least the     *)
(* phases of its row, and a completed document with its quality.           *)
THEOREM AnswersAreConsistent == Spec => []PayloadConsistent
<1>1. Init => OrderInv
  BY DEF Init, Initial, OrderInv, WriteOrder, ReadOrder
<1>2. OrderInv => PayloadConsistent
  BY DEF OrderInv, ReadOrder, PayloadConsistent, Intact
<1> QED BY <1>1, <1>2, TypeInit, TypeStep, OrderStep, PTL DEF Spec

-----------------------------------------------------------------------------
(* Progress: nothing that the tab of the upload may be shown next is       *)
(* behind what it shows.                                                   *)

Others == Tabs \ {Uploader}
Alone  == \A t \in Others : told[t] = "nothing" /\ pc[t] = "idle"

Forward ==
    /\ upload # "answered" => shown = 0 /\ ~watching[Uploader] /\ pc[Uploader] = "idle"
    /\ shown <= document.n
    /\ age < Gone => shown <= entry.n /\ entry.n <= document.n
    /\ pc[Uploader] \in {"phases", "result", "fill"} =>
          shown <= draft[Uploader].row.n /\ draft[Uploader].row.n <= document.n

ForwardInv == Alone => Forward

LEMMA Numbers ==
    ASSUME TypedInv
    PROVE  /\ document.n \in Nat /\ entry.n \in Nat /\ shown \in Nat /\ age \in Nat /\ Gone \in Nat
           /\ Ttl \in Nat /\ Uploader \in Tabs
           /\ draft[Uploader] \in Draft /\ draft[Uploader].row.n \in Nat
           /\ DOMAIN pc = Tabs /\ DOMAIN told = Tabs /\ DOMAIN watching = Tabs
           /\ draft \in [Tabs -> Draft]
<1>1. /\ document \in Row /\ entry \in Row /\ shown \in 0 .. Reports /\ age \in 0 .. Gone
      /\ draft \in [Tabs -> Draft] /\ Uploader \in Tabs /\ Reports \in Nat
      /\ DOMAIN pc = Tabs /\ DOMAIN told = Tabs /\ DOMAIN watching = Tabs
  BY PollAssumption DEF TypedInv, TypeOK, Draft, PollAssumption
<1>2. draft[Uploader] \in Draft /\ draft[Uploader].row \in Row
  BY <1>1 DEF Draft
<1> QED BY <1>1, <1>2, RowFacts, Ages

(* A tab that has polled has been told something or still polls.           *)
LEMMA NotHeardBefore ==
    ASSUME TypedInv, NEW u \in Tabs, Poll(u) \/ ReadFails(u), Alone' PROVE u = Uploader
<1>1. pc'[u] # "idle" \/ told'[u] # "nothing"
  <2>1. CASE AnswersCached(u) \/ MissesRow(u) \/ Fills(u) \/ ReadFails(u)
    <3>1. Ends(u, "payload") \/ Ends(u, "503")
      BY <2>1 DEF AnswersCached, MissesRow, Fills, ReadFails, Answer, Error
    <3>2. told'[u] \in {"payload", "503"}
      BY <3>1, Numbers DEF Ends
    <3> QED BY <3>2
  <2>2. CASE Misses(u) \/ ReadsDocument(u) \/ ReadsPhases(u) \/ ReadsResult(u)
    <3>1. \E next : GoesOn(u, next) /\ next # "idle"
      BY <2>2 DEF Misses, ReadsDocument, ReadsPhases, ReadsResult
    <3> QED BY <3>1, Numbers DEF GoesOn
  <2> QED BY <2>1, <2>2 DEF Poll
<1> QED BY <1>1 DEF Alone, Others

LEMMA StillAlone ==
    ASSUME TypedInv, NEW u \in Tabs, Poll(u) \/ ReadFails(u) \/ Cancels(u), Alone'
    PROVE  Alone
<1>1. CASE Cancels(u)
  BY <1>1 DEF Cancels, Alone
<1>2. CASE Poll(u) \/ ReadFails(u)
  <2>1. u = Uploader
    BY <1>2, NotHeardBefore
  <2>2. \A t \in Others : pc'[t] = pc[t] /\ told'[t] = told[t]
    <3>1. CASE AnswersCached(u) \/ MissesRow(u) \/ Fills(u) \/ ReadFails(u)
      <4>1. Ends(u, "payload") \/ Ends(u, "503")
        BY <3>1 DEF AnswersCached, MissesRow, Fills, ReadFails, Answer, Error
      <4> QED BY <2>1, <4>1, Numbers DEF Ends, Others
    <3>2. CASE Misses(u) \/ ReadsDocument(u) \/ ReadsPhases(u) \/ ReadsResult(u)
      <4>1. \E next : GoesOn(u, next)
        BY <3>2 DEF Misses, ReadsDocument, ReadsPhases, ReadsResult
      <4> QED BY <2>1, <4>1, Numbers DEF GoesOn, Others
    <3> QED BY <1>2, <3>1, <3>2 DEF Poll
  <2> QED BY <2>2 DEF Alone
<1> QED BY <1>1, <1>2

LEMMA Stored ==
    ASSUME NEW r, Store(r)
    PROVE  age' = Gone \/ entry' = r
BY DEF Store, Drop

(* An answer that is not behind the tab moves it forward.                  *)
LEMMA PollForward ==
    ASSUME TypedInv, Forward, Poll(Uploader) \/ ReadFails(Uploader) \/ Cancels(Uploader)
    PROVE  Forward' /\ shown <= shown'
<1> DEFINE u == Uploader
<1>0. /\ document.n \in Nat /\ entry.n \in Nat /\ shown \in Nat /\ age \in Nat /\ Gone \in Nat
      /\ Ttl \in Nat /\ u \in Tabs
      /\ draft[u] \in Draft /\ draft[u].row.n \in Nat
      /\ DOMAIN pc = Tabs /\ DOMAIN told = Tabs /\ DOMAIN watching = Tabs
      /\ draft \in [Tabs -> Draft]
  BY Numbers
<1>1. /\ UNCHANGED <<document, upload>> /\ upload = "answered"
  <2>1. UNCHANGED <<document, upload>> /\ (watching[u] \/ pc[u] # "idle")
    BY DEF Poll, AnswersCached, Misses, ReadsDocument, MissesRow, ReadsPhases, ReadsResult,
     Fills, ReadFails, Cancels, others, database
  <2> QED BY <2>1 DEF Forward
<1>2. ASSUME NEW r, Answer(u, r), shown <= r.n, r.n \in Nat
      PROVE  pc'[u] = "idle" /\ shown <= shown' /\ shown' <= r.n
  BY <1>0, <1>2 DEF Answer, Ends
<1>3. CASE AnswersCached(u)
  <2>1. Answer(u, entry) /\ UNCHANGED cache /\ age < Gone
    BY <1>0, <1>3 DEF AnswersCached, Fresh, Gone
  <2>2. shown <= entry.n /\ entry.n <= document.n
    BY <2>1 DEF Forward
  <2>3. pc'[u] = "idle" /\ shown <= shown' /\ shown' <= entry.n
    BY <1>0, <1>2, <2>1, <2>2
  <2>4. shown' \in Nat /\ shown' <= document.n
    <3>1. shown' \in {shown, entry.n}
      BY <2>1 DEF Answer
    <3> QED BY <1>0, <2>2, <2>3, <3>1
  <2> QED BY <1>1, <2>1, <2>2, <2>3, <2>4 DEF Forward, cache
<1>4. CASE Misses(u)
  <2>1. pc'[u] \notin {"phases", "result", "fill"} /\ UNCHANGED <<cache, shown>>
    BY <1>0, <1>4 DEF Misses, GoesOn
  <2> QED BY <1>0, <1>1, <2>1 DEF Forward, cache
<1>5. CASE ReadsDocument(u)
  <2>1. UNCHANGED <<cache, shown>> /\ pc'[u] = "phases" /\ draft'[u].row = document
    BY <1>0, <1>5 DEF ReadsDocument, GoesOn, Draft
  <2> QED BY <1>0, <1>1, <2>1 DEF Forward, cache
<1>6. CASE MissesRow(u)
  <2>1. pc'[u] = "idle" /\ UNCHANGED <<cache, shown>>
    BY <1>0, <1>6 DEF MissesRow, Error, Ends
  <2> QED BY <1>0, <1>1, <2>1 DEF Forward, cache
<1>7. CASE ReadsPhases(u) \/ ReadsResult(u)
  <2>1. /\ pc[u] \in {"phases", "result"} /\ draft'[u].row = draft[u].row
        /\ UNCHANGED <<cache, shown>>
    BY <1>0, <1>7 DEF ReadsPhases, ReadsResult, GoesOn, Draft
  <2> QED BY <1>0, <1>1, <2>1 DEF Forward, cache
<1>8. CASE Fills(u)
  <2>1. pc[u] = "fill" /\ Store(draft[u].row) /\ Answer(u, draft[u].row)
    BY <1>8 DEF Fills
  <2>2. shown <= draft[u].row.n /\ draft[u].row.n <= document.n
    BY <2>1 DEF Forward
  <2>3. pc'[u] = "idle" /\ shown <= shown' /\ shown' <= draft[u].row.n
    BY <1>0, <1>2, <2>1, <2>2
  <2>4. shown' \in Nat /\ shown' <= document.n
    <3>1. shown' \in {shown, draft[u].row.n}
      BY <2>1 DEF Answer
    <3> QED BY <1>0, <2>2, <2>3, <3>1
  <2>5. age' = Gone \/ entry' = draft[u].row
    BY <2>1, Stored
  <2>6. age' < Gone => entry' = draft[u].row
    BY <1>0, <2>5
  <2> QED BY <1>1, <2>2, <2>3, <2>4, <2>6 DEF Forward
<1>9. CASE ReadFails(u)
  <2>1. pc'[u] = "idle" /\ UNCHANGED <<cache, shown>>
    BY <1>0, <1>9 DEF ReadFails, Error, Ends
  <2> QED BY <1>0, <1>1, <2>1 DEF Forward, cache
<1>10. CASE Cancels(u)
  <2>1. UNCHANGED <<cache, pc, draft, shown>>
    BY <1>10 DEF Cancels
  <2> QED BY <1>0, <1>1, <2>1 DEF Forward, cache
<1> QED BY <1>3, <1>4, <1>5, <1>6, <1>7, <1>8, <1>9, <1>10 DEF Poll

LEMMA ForwardStep ==
    TypedInv /\ ForwardInv /\ [Next]_vars => ForwardInv' /\ (Alone' => shown <= shown')
<1> SUFFICES ASSUME TypedInv, ForwardInv, [Next]_vars, Alone' PROVE Forward' /\ shown <= shown'
  BY DEF ForwardInv
<1>0. /\ document.n \in Nat /\ entry.n \in Nat /\ shown \in Nat /\ age \in Nat /\ Gone \in Nat
      /\ Uploader \in Tabs /\ draft[Uploader].row.n \in Nat /\ DOMAIN watching = Tabs
  BY Numbers
<1>1. ASSUME NEW t \in Tabs, Poll(t) \/ ReadFails(t) \/ Cancels(t)
      PROVE  Forward' /\ shown <= shown'
  <2>1. Forward
    BY <1>1, StillAlone DEF ForwardInv
  <2>2. CASE t = Uploader
    BY <1>1, <2>1, <2>2, PollForward
  <2>3. CASE t # Uploader
    <3>1. Cancels(t)
      BY <1>1, <2>3, NotHeardBefore
    <3>2. UNCHANGED <<document, upload, cache, pc, draft, shown>>
          /\ watching'[Uploader] = watching[Uploader]
      BY <1>0, <2>3, <3>1 DEF Cancels, database
    <3> QED BY <1>0, <2>1, <3>2 DEF Forward, cache
  <2> QED BY <2>2, <2>3
<1>2. ASSUME UNCHANGED <<pc, told>> PROVE Forward
  BY <1>2 DEF ForwardInv, Alone
<1>3. CASE Pipeline \/ RequestDelete \/ Deletes
  <2>1. UNCHANGED <<upload, cache, polls>> /\ document'.n \in {document.n, document.n + 1}
    BY <1>3 DEF Pipeline, ReportsPhase, ReportsRow, InsertsResult, PublishesOutput, RunsInVain,
       RequestDelete, Deletes, DeleteCleans, DeleteRow, database, TypedInv, TypeOK, Row
  <2> QED BY <1>0, <1>2, <2>1 DEF Forward, polls, cache
<1>4. CASE UploadCaches
  <2>1. UNCHANGED <<document, polls>> /\ upload = "dispatched" /\ Store(Initial)
    BY <1>4 DEF UploadCaches, database
  <2>2. age' < Gone => entry'.n = 0
    BY <1>0, <2>1, Stored DEF Initial
  <2> QED BY <1>0, <1>2, <2>1, <2>2 DEF Forward, polls
<1>5. CASE UploadAnswers
  <2>1. UNCHANGED <<document, cache, pc, draft, told, shown>> /\ upload' = "answered"
    BY <1>5 DEF UploadAnswers, database
  <2> QED BY <1>0, <1>2, <2>1 DEF Forward, cache
<1>6. CASE Tick
  <2>1. UNCHANGED <<document, upload, polls>>
        /\ (age' < Gone => age < Gone /\ entry' = entry)
    BY <1>0, <1>6 DEF Tick, Drop, database
  <2> QED BY <1>0, <1>2, <2>1 DEF Forward, polls
<1>7. CASE UNCHANGED vars
  BY <1>0, <1>2, <1>7 DEF Forward, vars, database, cache, polls
<1> QED BY <1>1, <1>3, <1>4, <1>5, <1>6, <1>7 DEF Next, Uploads

(* A tab that has been told something goes on having been.                 *)
LEMMA StaysUntold ==
    ASSUME TypedInv, [Next]_vars, NEW t \in Tabs, told'[t] = "nothing"
    PROVE  told[t] = "nothing"
<1>0. DOMAIN told = Tabs
  BY Numbers
<1>1. ASSUME NEW u \in Tabs, Poll(u) \/ ReadFails(u) \/ Cancels(u) PROVE told[t] = "nothing"
  <2>1. CASE AnswersCached(u) \/ MissesRow(u) \/ Fills(u) \/ ReadFails(u)
    <3>1. Ends(u, "payload") \/ Ends(u, "503")
      BY <2>1 DEF AnswersCached, MissesRow, Fills, ReadFails, Answer, Error
    <3>2. \E kind \in {"payload", "503"} : told' = [told EXCEPT ![u] = kind]
      BY <3>1 DEF Ends
    <3> QED BY <1>0, <3>2
  <2>2. CASE Misses(u) \/ ReadsDocument(u) \/ ReadsPhases(u)
             \/ ReadsResult(u) \/ Cancels(u)
    <3>1. told' = told
      BY <2>2 DEF Misses, ReadsDocument, ReadsPhases, ReadsResult, Cancels, GoesOn
    <3> QED BY <3>1
  <2> QED BY <1>1, <2>1, <2>2 DEF Poll
<1>2. CASE Pipeline \/ RequestDelete \/ Deletes \/ Uploads \/ Tick \/ UNCHANGED vars
  <2>1. told' = told
    BY <1>2 DEF Pipeline, ReportsPhase, ReportsRow, InsertsResult, PublishesOutput, RunsInVain,
       RequestDelete, Deletes, DeleteCleans, DeleteRow, Uploads, UploadCaches, UploadAnswers,
       Tick, vars, polls
  <2> QED BY <2>1
<1> QED BY <1>1, <1>2 DEF Next

(* A step of another tab, of the pipeline or of the cache shows nothing.   *)
LEMMA ShownByItsPoll ==
    ASSUME [Next]_vars, shown' # shown
    PROVE  Poll(Uploader)
<1>1. ~(Pipeline \/ RequestDelete \/ Deletes \/ Uploads \/ Tick \/ UNCHANGED vars)
  BY DEF Pipeline, ReportsPhase, ReportsRow, InsertsResult, PublishesOutput, RunsInVain,
     RequestDelete, Deletes, DeleteCleans, DeleteRow, Uploads, UploadCaches, UploadAnswers,
     Tick, vars, polls
<1>2. PICK u \in Tabs : Poll(u) \/ ReadFails(u) \/ Cancels(u)
  BY <1>1 DEF Next
<1>3. \E row : Answer(u, row)
  BY <1>2 DEF Poll, AnswersCached, Misses, ReadsDocument, MissesRow, ReadsPhases, ReadsResult,
     Fills, ReadFails, Cancels, Error, GoesOn
<1>4. u = Uploader
  BY <1>3 DEF Answer
<1>5. ~ReadFails(u) /\ ~Cancels(u)
  BY DEF ReadFails, Cancels, Error
<1> QED BY <1>2, <1>4, <1>5

LEMMA ProgressStep ==
    ASSUME TypedInv, ForwardInv, [Next]_vars,
           \A t \in Others : told'[t] = "nothing" /\ pc[t] = "idle"
    PROVE  shown <= shown'
<1>1. Forward
  <2>1. \A t \in Others : told[t] = "nothing"
    BY StaysUntold DEF Others
  <2> QED BY <2>1 DEF ForwardInv, Alone
<1>2. CASE shown' = shown
  BY <1>2, Numbers
<1>3. CASE shown' # shown
  <2>1. Poll(Uploader)
    BY <1>3, ShownByItsPoll
  <2> QED BY <1>1, <2>1, PollForward
<1> QED BY <1>2, <1>3

(* A tab that is the only one to ask never sees the progress of its upload *)
(* go back, for any lifetime of the entries and however fast the pipeline. *)
THEOREM ProgressGoesForward == Spec => AloneNeverGoesBack
<1>1. Init => ForwardInv
  <2> SUFFICES ASSUME Init PROVE Forward
    BY DEF ForwardInv
  <2>1. Uploader \in Tabs
    BY PollAssumption DEF PollAssumption
  <2>2. document.n = 0 /\ shown = 0 /\ age = Gone
    BY DEF Init, Initial
  <2>3. pc[Uploader] = "idle" /\ ~watching[Uploader]
    BY <2>1 DEF Init
  <2>4. ~(Gone < Gone)
    BY Ages
  <2> QED BY <2>2, <2>3, <2>4 DEF Forward
<1>2. TypedInv /\ ForwardInv /\ [Next]_vars
         => [(\A t \in Tabs \ {Uploader} : told'[t] = "nothing" /\ pc[t] = "idle")
                => shown <= shown']_vars
  BY ProgressStep DEF Others
<1>3. TypedInv /\ ForwardInv /\ [Next]_vars => ForwardInv'
  BY ForwardStep
<1> QED BY <1>1, <1>2, <1>3, TypeInit, TypeStep, PTL DEF Spec, AloneNeverGoesBack

-----------------------------------------------------------------------------
(* Verdicts: what is stored and what a poll has read may be behind the     *)
(* row, but a verdict in it is the verdict of the row, which is final.     *)

AgreesWithRow(row) == row.status \in Verdict => row.status = document.status

VerdictInv ==
    /\ document.status = "FAILED" => work = "ended"
    /\ document.status = "COMPLETED" => document.n >= Reports - 1
    /\ AgreesWithRow(entry)
    /\ \A t \in Tabs : AgreesWithRow(draft[t].row)

(* The verdict of a row is never replaced by another one.                  *)
LEMMA RowKeepsVerdict ==
    ASSUME TypedInv, OrderInv, VerdictInv, Pipeline
    PROVE  /\ document.status \in Verdict => document'.status = document.status
           /\ document'.status = "FAILED" => work' = "ended"
           /\ document'.status = "COMPLETED" => document'.n >= Reports - 1
<1>0. /\ document.n \in Nat /\ Reports \in Nat /\ document.n <= Reports /\ WriteOrder
      /\ document.status \in Statuses
      /\ document = [n |-> document.n, status |-> document.status]
      /\ work # "ended" => document.n < Reports
  BY RowFacts, PollAssumption DEF TypedInv, TypeOK, RowInv, OrderInv, PollAssumption
<1>1. CASE ReportsPhase \/ InsertsResult \/ RunsInVain
  <2>1. document' = document /\ (work = "ended" => work' = "ended")
    BY <1>1 DEF ReportsPhase, InsertsResult, RunsInVain, database
  <2> QED BY <2>1 DEF VerdictInv
<1>2. CASE ReportsRow
  <2>1. /\ work = "reporting" /\ document'.n = document.n + 1
        /\ document.n + 1 = Reports => document'.status = "COMPLETED"
        /\ document'.status = "COMPLETED" => document.n + 1 = Reports
        /\ document'.status = "FAILED" => work' = "ended"
    BY <1>2 DEF ReportsRow
  <2>2. document.status # "FAILED"
    BY <2>1 DEF VerdictInv
  <2>3. document.status = "COMPLETED" => document.n + 1 = Reports
    BY <1>0, <2>1 DEF VerdictInv
  <2> QED BY <1>0, <2>1, <2>2, <2>3 DEF Verdict
<1>3. CASE PublishesOutput
  <2>1. /\ document.status = "PROCESSING" /\ document.n = Reports - 1
        /\ document'.status = "COMPLETED" /\ document'.n = document.n
    BY <1>0, <1>3 DEF PublishesOutput
  <2> QED BY <1>0, <2>1 DEF Verdict
<1> QED BY <1>1, <1>2, <1>3 DEF Pipeline

LEMMA VerdictStep == TypedInv /\ OrderInv /\ VerdictInv /\ [Next]_vars => VerdictInv'
<1> SUFFICES ASSUME TypedInv, OrderInv, VerdictInv, [Next]_vars PROVE VerdictInv'
  OBVIOUS
<1>0. /\ draft \in [Tabs -> Draft] /\ DOMAIN pc = Tabs
      /\ AgreesWithRow(Initial) /\ AgreesWithRow(NothingRead.row) /\ AgreesWithRow(document)
  BY DEF TypedInv, TypeOK, Draft, AgreesWithRow, Initial, NothingRead, Verdict
<1>1. CASE Pipeline
  <2>1. UNCHANGED <<entry, draft>>
    BY <1>1 DEF Pipeline, ReportsPhase, ReportsRow, InsertsResult, PublishesOutput, RunsInVain,
       cache, polls
  <2> QED BY <1>1, <2>1, RowKeepsVerdict DEF VerdictInv, AgreesWithRow
<1>2. CASE RequestDelete \/ Deletes \/ Uploads \/ Tick \/ UNCHANGED vars
  <2>1. /\ UNCHANGED <<document, work, draft>> /\ entry' \in {entry, Initial}
    BY <1>2 DEF RequestDelete, Deletes, DeleteCleans, DeleteRow, Uploads, UploadCaches,
       UploadAnswers, Tick, Store, Drop, vars, database, cache, polls
  <2> QED BY <1>0, <2>1 DEF VerdictInv, AgreesWithRow
<1>3. ASSUME NEW t \in Tabs, Poll(t) \/ ReadFails(t) \/ Cancels(t) PROVE VerdictInv'
  <2>1. UNCHANGED <<document, work>>
    BY <1>3 DEF Poll, AnswersCached, Misses, ReadsDocument, MissesRow, ReadsPhases, ReadsResult,
     Fills, ReadFails, Cancels, others, database
  <2>2. entry' \in {entry, Initial, draft[t].row}
    BY <1>3 DEF Poll, AnswersCached, Misses, ReadsDocument, MissesRow, ReadsPhases, ReadsResult,
       Fills, ReadFails, Cancels, cache, Store, Drop
  <2>3. \A u \in Tabs : draft'[u].row \in {draft[u].row, NothingRead.row, document}
    <3>1. CASE AnswersCached(t) \/ MissesRow(t) \/ Fills(t)
               \/ ReadFails(t)
      <4>1. draft' = [draft EXCEPT ![t] = NothingRead]
        BY <3>1 DEF AnswersCached, MissesRow, Fills, ReadFails, Answer,
           Error, Ends
      <4> QED BY <1>0, <4>1
    <3>2. CASE Misses(t) \/ Cancels(t)
      BY <3>2 DEF Misses, Cancels
    <3>3. CASE ReadsDocument(t) \/ ReadsPhases(t) \/ ReadsResult(t)
      BY <1>0, <3>3 DEF ReadsDocument, ReadsPhases, ReadsResult, Draft
    <3> QED BY <1>3, <3>1, <3>2, <3>3 DEF Poll
  <2> QED BY <1>0, <2>1, <2>2, <2>3 DEF VerdictInv, AgreesWithRow
<1> QED BY <1>1, <1>2, <1>3 DEF Next

(* What ends the polling of a tab is the answer it was given.              *)
LEMMA StopStep ==
    ASSUME TypedInv, VerdictInv, [Next]_vars, NEW t \in Tabs,
           watching[t], ~watching'[t], troubles' = troubles
    PROVE  document.status \in Verdict
<1>0. DOMAIN watching = Tabs /\ troubles \in Nat /\ Uploader \in Tabs
  BY PollAssumption DEF TypedInv, TypeOK, PollAssumption
<1>1. ASSUME NEW row, NEW u \in Tabs, Answer(u, row), AgreesWithRow(row)
      PROVE  document.status \in Verdict
  BY <1>0, <1>1 DEF Answer, AgreesWithRow, Verdict
<1>2. ASSUME NEW u \in Tabs, Poll(u) PROVE document.status \in Verdict
  <2>1. CASE AnswersCached(u)
    BY <1>1, <2>1 DEF AnswersCached, VerdictInv
  <2>2. CASE Fills(u)
    BY <1>1, <2>2 DEF Fills, VerdictInv
  <2>3. CASE Misses(u) \/ ReadsDocument(u) \/ MissesRow(u)
             \/ ReadsPhases(u) \/ ReadsResult(u)
    BY <2>3 DEF Misses, ReadsDocument, MissesRow, ReadsPhases,
       ReadsResult, GoesOn, Error
  <2> QED BY <1>2, <2>1, <2>2, <2>3 DEF Poll
<1>3. ASSUME NEW u \in Tabs, ReadFails(u) \/ Cancels(u) PROVE FALSE
  BY <1>0, <1>3 DEF ReadFails, Cancels
<1>4. CASE Pipeline \/ RequestDelete \/ Deletes \/ Uploads \/ Tick \/ UNCHANGED vars
  BY <1>0, <1>4 DEF Pipeline, ReportsPhase, ReportsRow, InsertsResult, PublishesOutput,
     RunsInVain, RequestDelete, Deletes, DeleteCleans, DeleteRow, Uploads, UploadCaches,
     UploadAnswers, Tick, vars, polls
<1> QED BY <1>2, <1>3, <1>4 DEF Next

(* No answer from the cache, however old or out of order it was stored,    *)
(* makes a tab give up a document that is still being processed.           *)
THEOREM TabsStopOnVerdict == Spec => StopsOnVerdict
<1>1. Init => OrderInv /\ VerdictInv
  BY DEF Init, Initial, NothingRead, OrderInv, WriteOrder, ReadOrder, VerdictInv,
     AgreesWithRow, Verdict
<1>2. TypedInv /\ VerdictInv /\ [Next]_vars
         => [\A t \in Tabs : watching[t] /\ ~watching'[t] /\ troubles' = troubles
                                 => document.status \in Verdict]_vars
  BY StopStep
<1> QED BY <1>1, <1>2, TypeInit, TypeStep, OrderStep, VerdictStep, PTL DEF Spec, StopsOnVerdict
=============================================================================
