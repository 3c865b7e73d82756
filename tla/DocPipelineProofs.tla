-------------------------- MODULE DocPipelineProofs --------------------------
(***************************************************************************)
(* Proofs about DocPipeline, for every set of documents, every number of   *)
(* permits, threads, crashes and failing writes.                           *)
(*                                                                         *)
(* The semaphore: every step leaves the set of holders and the permits     *)
(* alone, moves one execution across the boundary together with one        *)
(* permit, or resets both (HoldersStep).  Conservation of the permits, the *)
(* type invariant (permits stay in 0 .. MaxConcurrent only because they    *)
(* are conserved) and the refinement of JobSlots follow.  The threads of   *)
(* the pool are followed in the same way (BusyStep, ThreadsOwned).         *)
(*                                                                         *)
(* The rows: who covers a PROCESSING one (NoOrphanRow), what is stored for *)
(* a COMPLETED one (CompletedHasResult), and who may still take back a     *)
(* verdict (CompletedStaysCompleted, FailedStaysFailed).                   *)
(***************************************************************************)
EXTENDS DocPipeline, FiniteSetTheorems, TLAPS

-----------------------------------------------------------------------------
(* A request creates the row before it dispatches, and dispatches once.    *)
RequestOrder ==
    \A d \in Docs :
        /\ docs[d].status = "absent" => handler[d] = "none"
        /\ handler[d] \in {"none", "created"} => \A m \in Modes : pc[<<d, m>>] = "idle"

(* The inductive invariant of the semaphore.                               *)
PermitInv == TypeOK /\ RequestOrder /\ PermitsConserved

LEMMA ModesFinite == IsFiniteSet(Modes)
  <1>1. IsFiniteSet({} \cup {"background"})
    BY FS_EmptySet, FS_AddElement
  <1>2. IsFiniteSet(({} \cup {"background"}) \cup {"celery"})
    BY <1>1, FS_AddElement
  <1>3. Modes = ({} \cup {"background"}) \cup {"celery"}
    BY DEF Modes
  <1> QED BY <1>2, <1>3

(* Executions and holders are finitely many.                               *)
LEMMA HoldersFinite ==
    /\ IsFiniteSet(Exec)
    /\ IsFiniteSet(Holders)
    /\ Cardinality(Holders) \in Nat
  <1>1. IsFiniteSet(Modes)
    BY ModesFinite
  <1>2. IsFiniteSet(Docs)
    BY ConstantsAssumption DEF ConstantsAssumption
  <1>3. IsFiniteSet(Exec)
    BY <1>1, <1>2, FS_Product DEF Exec
  <1>4. Holders \in SUBSET Exec
    BY DEF Holders
  <1>5. IsFiniteSet(Holders)
    BY <1>3, <1>4, FS_Subset
  <1> QED BY <1>3, <1>5, FS_CardinalityType

(* The four ways in which a step can move the holders and the permits.     *)
Unmoved   == Holders' = Holders /\ permits' = permits
Taken     == \E e \in Exec : /\ e \notin Holders /\ Holders' = Holders \cup {e}
                             /\ permits > 0 /\ permits' = permits - 1
GivenBack == \E e \in Exec : /\ e \in Holders /\ Holders' = Holders \ {e}
                             /\ permits' = permits + 1
WipedOut  == Holders' = {} /\ permits' = MaxConcurrent

(* Steps that keep the pc of every execution on its side of the boundary.  *)
LEMMA SameSide ==
    ASSUME TypeOK, permits' = permits,
           \A e \in Exec : InWeb(e) => (pc'[e] \in Holding <=> pc[e] \in Holding)
    PROVE  Unmoved
  BY DEF Unmoved, Holders, InWeb

(* A step of one execution that changes no pc but its own.                 *)
LEMMA GotoSide ==
    ASSUME TypeOK, permits' = permits, NEW e \in Exec, NEW label, Goto(e, label),
           InWeb(e) => (label \in Holding <=> pc[e] \in Holding)
    PROVE  Unmoved
  <1>1. \A x \in Exec : pc'[x] = IF x = e THEN label ELSE pc[x]
    BY DEF TypeOK, Goto
  <1>2. \A x \in Exec : InWeb(x) => (pc'[x] \in Holding <=> pc[x] \in Holding)
    BY <1>1
  <1> QED BY <1>2, SameSide

LEMMA HoldersStep ==
    ASSUME TypeOK, RequestOrder, [Next]_vars
    PROVE  Unmoved \/ Taken \/ GivenBack \/ WipedOut
  <1> USE DEF Holding, OnThread, Over
  <1>1. ASSUME UNCHANGED pc, UNCHANGED permits PROVE Unmoved
    BY <1>1, SameSide
  <1>2. ASSUME NEW d \in Docs, NEW t \in Templates, CreateDocument(d, t) PROVE Unmoved
    BY <1>1, <1>2 DEF CreateDocument, run
  <1>3. ASSUME NEW d \in Docs, NEW modes \in DispatchSets, Dispatch(d, modes)
        PROVE  Unmoved
    <2>1. \A e \in Exec : InWeb(e) /\ e \in {d} \X modes => pc[e] \notin Holding
      <3> DispatchSets \subseteq SUBSET Modes
        BY DEF DispatchSets, Modes
      <3> QED BY <1>3 DEF Dispatch, RequestOrder
    <2>2. \A e \in Exec : InWeb(e) => (pc'[e] \in Holding <=> pc[e] \in Holding)
      BY <1>3, <2>1 DEF Dispatch
    <2> QED BY <1>3, <2>2, SameSide DEF Dispatch
  <1>4. ASSUME NEW e \in Exec, Pipeline(e)
        PROVE  Unmoved \/ Taken \/ GivenBack
    <2>1. CASE StartThread(e) \/ StartTask(e)
      BY <2>1, GotoSide DEF StartThread, StartTask
    <2>2. CASE Acquire(e)
      <3>1. CASE InWeb(e)
        BY <2>2, <3>1 DEF Acquire, Taken, Goto, Holders, TypeOK
      <3>2. CASE ~InWeb(e)
        BY <2>2, <3>2, GotoSide DEF Acquire
      <3> QED BY <3>1, <3>2
    <2>3. CASE AcquireTimesOut(e) \/ RejectBusy(e)
      BY <2>3, GotoSide DEF AcquireTimesOut, RejectBusy
    <2>4. CASE Report(e)
      BY <2>4, <1>1 DEF Report
    <2>5. CASE StageRaises(e) \/ NoArtifact(e) \/ ExplainResults(e)
      BY <2>5, GotoSide DEF StageRaises, NoArtifact, ExplainResults
    <2>6. CASE InsertResult(e) \/ PublishOutput(e) \/ ReportCompleted(e)
      BY <2>6, GotoSide DEF InsertResult, PublishOutput, ReportCompleted
    <2>7. CASE Release(e)
      <3>1. CASE InWeb(e)
        BY <2>7, <3>1 DEF Release, GivenBack, Goto, Holders, TypeOK
      <3>2. CASE ~InWeb(e)
        BY <2>7, <3>2, GotoSide DEF Release
      <3> QED BY <3>1, <3>2
    <2>8. CASE WrapUpTask(e) \/ MarkTaskFailed(e)
      BY <2>8, GotoSide DEF WrapUpTask, MarkTaskFailed
    <2> QED
      BY <1>4, <2>1, <2>2, <2>3, <2>4, <2>5, <2>6, <2>7, <2>8 DEF Pipeline
  <1>5. ASSUME NEW e \in Exec, Loop(e) PROVE Unmoved
    <2>1. CASE TimesOut(e)
      BY <2>1, SameSide DEF TimesOut, TypeOK
    <2>2. CASE MarkJobFailed(e)
      BY <2>2, <1>1 DEF MarkJobFailed, run
    <2>3. CASE Joined(e)
      BY <2>3, GotoSide DEF Joined
    <2> QED BY <1>5, <2>1, <2>2, <2>3 DEF Loop
  <1>6. ASSUME NEW e \in Exec, WorkerCrashes(e) PROVE Unmoved
    BY <1>6, GotoSide DEF WorkerCrashes
  <1>7. CASE WebCrashes
    BY <1>7 DEF WebCrashes, WipedOut, Holders, Live
  <1>8. CASE Restart
    BY <1>1, <1>8 DEF Restart, Startup, ResetSelect, ResetUpdate, ResetFails, Serve, run
  <1>9. CASE Idle \/ UNCHANGED vars
    BY <1>1, <1>9 DEF Idle, vars, run
  <1> QED
    BY <1>2, <1>3, <1>4, <1>5, <1>6, <1>7, <1>8, <1>9 DEF Next

-----------------------------------------------------------------------------
(* The inductive step, one conjunct of PermitInv at a time.                *)

LEMMA PermitsStep ==
    ASSUME PermitInv, [Next]_vars
    PROVE  PermitsConserved' /\ permits' \in 0 .. MaxConcurrent
  <1> USE ConstantsAssumption, HoldersFinite DEF PermitInv, PermitsConserved
  <1>1. /\ permits \in 0 .. MaxConcurrent
        /\ MaxConcurrent \in Nat
    BY DEF TypeOK, ConstantsAssumption
  <1>2. CASE Unmoved
    BY <1>1, <1>2 DEF Unmoved
  <1>3. CASE Taken
    <2>1. PICK e \in Exec : /\ e \notin Holders /\ Holders' = Holders \cup {e}
                            /\ permits > 0 /\ permits' = permits - 1
      BY <1>3 DEF Taken
    <2>2. Cardinality(Holders') = Cardinality(Holders) + 1
      BY <2>1, FS_AddElement
    <2> QED BY <1>1, <2>1, <2>2
  <1>4. CASE GivenBack
    <2>1. PICK e \in Exec : /\ e \in Holders /\ Holders' = Holders \ {e}
                            /\ permits' = permits + 1
      BY <1>4 DEF GivenBack
    <2>2. Cardinality(Holders') = Cardinality(Holders) - 1
      BY <2>1, FS_RemoveElement
    <2>3. Cardinality(Holders) # 0
      BY <2>1, FS_EmptySet
    <2> QED BY <1>1, <2>1, <2>2, <2>3
  <1>5. CASE WipedOut
    BY <1>1, <1>5, FS_EmptySet DEF WipedOut
  <1> QED
    BY <1>2, <1>3, <1>4, <1>5, HoldersStep

(* Rows are written on documents that exist or come into being by it.      *)
DbTyped ==
    /\ docs' \in [Docs -> Row]
    /\ results' \in [Docs -> Templates \cup {NoTemplate}]
    /\ lostWrite' \in SUBSET Docs
    /\ faults' \in Nat
    /\ \A x \in Docs : docs'[x].status = "absent" => docs[x].status = "absent"

LEMMA WriteTyped ==
    ASSUME TypeOK, NEW d \in Docs, NEW s \in {"PROCESSING", "COMPLETED", "FAILED"},
           TrySetRow(d, s)
    PROVE  DbTyped
  <1>1. CASE SetRow(d, s)
    BY <1>1 DEF SetRow, TypeOK, Row, DbTyped
  <1>2. CASE WriteFails(d)
    BY <1>2 DEF WriteFails, TypeOK, DbTyped
  <1> QED BY <1>1, <1>2 DEF TrySetRow

LEMMA ReportTyped ==
    ASSUME NEW e \in Exec, TypeOK
    PROVE  /\ Doc(e) \in Docs
           /\ at[e] < Last => RowStatus(Reports[at[e] + 1]) \in {"PROCESSING", "COMPLETED", "FAILED"}
           /\ RowStatus(Reports[Last]) = "COMPLETED"
           /\ RowStatus(BusyReport) = "FAILED"
           /\ AppliedTemplate(e) \in Templates
           /\ Last = 11
  <1>1. Last = 11
    BY DEF Last, Reports
  <1>2. Doc(e) \in Docs
    BY DEF Doc, Exec
  <1>3. AppliedTemplate(e) \in Templates
    BY <1>2, ConstantsAssumption DEF AppliedTemplate, TypeOK, Row, ConstantsAssumption
  <1>4. RowStatus(Reports[Last]) = "COMPLETED" /\ RowStatus(BusyReport) = "FAILED"
    BY <1>1 DEF RowStatus, Reports, BusyReport
  <1>5. at[e] < Last => RowStatus(Reports[at[e] + 1]) \in {"PROCESSING", "COMPLETED", "FAILED"}
    BY DEF RowStatus
  <1> QED BY <1>1, <1>2, <1>3, <1>4, <1>5

(* One execution moves: the types of its control state, and nothing that   *)
(* was not dispatched becomes so.                                          *)
RunTyped ==
    /\ pc' \in [Exec -> Labels]
    /\ at' \in [Exec -> 0 .. Last]
    /\ outcome' \in [Exec -> {"none", "processing", "success", "failed"}]
    /\ \A x \in Exec : pc[x] = "idle" => pc'[x] = "idle"

LEMMA GotoTyped ==
    ASSUME TypeOK, NEW e \in Exec, NEW label \in Labels, pc[e] # "idle", Goto(e, label)
    PROVE  /\ pc' \in [Exec -> Labels]
           /\ \A x \in Exec : pc[x] = "idle" => pc'[x] = "idle"
  BY DEF TypeOK, Goto

LEMMA PipelineTyped ==
    ASSUME TypeOK, NEW e \in Exec, Pipeline(e)
    PROVE  DbTyped /\ RunTyped
  <1> USE ReportTyped DEF Labels, Over, OnThread, Holding
  <1>0. UNCHANGED db => DbTyped
    BY DEF db, DbTyped, TypeOK
  <1>1. CASE StartThread(e)
    BY <1>0, <1>1, GotoTyped DEF StartThread, RunTyped, TypeOK
  <1>2. CASE StartTask(e)
    BY <1>2, GotoTyped, WriteTyped DEF StartTask, RunTyped, TypeOK, TrySetRow
  <1>3. CASE Acquire(e)
    BY <1>0, <1>3, GotoTyped DEF Acquire, RunTyped, TypeOK
  <1>4. CASE AcquireTimesOut(e)
    BY <1>0, <1>4, GotoTyped DEF AcquireTimesOut, RunTyped, TypeOK
  <1>5. CASE RejectBusy(e)
    BY <1>5, GotoTyped, WriteTyped DEF RejectBusy, RunTyped, TypeOK
  <1>6. CASE Report(e)
    BY <1>6, WriteTyped DEF Report, RunTyped, TypeOK
  <1>7. CASE StageRaises(e)
    BY <1>0, <1>7, GotoTyped DEF StageRaises, RunTyped, TypeOK
  <1>8. CASE NoArtifact(e)
    BY <1>8, GotoTyped, WriteTyped DEF NoArtifact, RunTyped, TypeOK
  <1>9. CASE ExplainResults(e)
    BY <1>0, <1>9, GotoTyped DEF ExplainResults, RunTyped, TypeOK
  <1>10. CASE InsertResult(e)
    BY <1>10, GotoTyped DEF InsertResult, WriteFails, DbTyped, RunTyped, TypeOK
  <1>11. CASE PublishOutput(e)
    <2>0. Goto(e, "finishing") /\ UNCHANGED <<at, outcome>> /\ pc[e] = "publishing"
      BY <1>11 DEF PublishOutput
    <2>1. RunTyped
      BY <2>0, GotoTyped DEF RunTyped, TypeOK
    <2>2. CASE WriteFails(Doc(e))
      BY <2>1, <2>2 DEF WriteFails, DbTyped, TypeOK
    <2>3. CASE ~WriteFails(Doc(e))
      <3> DEFINE r == [status |-> "COMPLETED", template |-> docs[Doc(e)].template,
                       output |-> AppliedTemplate(e)]
      <3>1. docs' = [docs EXCEPT ![Doc(e)] = r] /\ UNCHANGED <<results, lostWrite, faults>>
        BY <1>11, <2>3 DEF PublishOutput
      <3>2. r \in Row /\ r.status # "absent"
        BY DEF TypeOK, Row
      <3> HIDE DEF r
      <3> QED BY <2>1, <3>1, <3>2 DEF DbTyped, TypeOK
    <2> QED BY <2>1, <2>2, <2>3
  <1>12. CASE ReportCompleted(e)
    BY <1>12, GotoTyped, WriteTyped DEF ReportCompleted, RunTyped, TypeOK
  <1>13. CASE Release(e)
    BY <1>0, <1>13, GotoTyped DEF Release, RunTyped, TypeOK
  <1>14. CASE WrapUpTask(e)
    BY <1>14, GotoTyped, WriteTyped DEF WrapUpTask, RunTyped, TypeOK, TrySetRow
  <1>15. CASE MarkTaskFailed(e)
    BY <1>15, GotoTyped, WriteTyped DEF MarkTaskFailed, RunTyped, TypeOK
  <1> QED
    BY <1>1, <1>2, <1>3, <1>4, <1>5, <1>6, <1>7, <1>8, <1>9, <1>10, <1>11, <1>12, <1>13,
       <1>14, <1>15 DEF Pipeline

LEMMA TypeStep ==
    ASSUME PermitInv, [Next]_vars
    PROVE  TypeOK' /\ RequestOrder'
  <1> DEFINE Kept ==
        /\ handler' = handler
        /\ DbTyped /\ RunTyped
  <1>0. permits' \in 0 .. MaxConcurrent
    BY PermitsStep
  <1>1. Kept => RequestOrder'
    BY DEF PermitInv, RequestOrder, DbTyped, RunTyped, Exec
  <1>2. UNCHANGED db => DbTyped
    BY DEF PermitInv, db, DbTyped, TypeOK
  <1>3. UNCHANGED run => RunTyped
    BY DEF PermitInv, run, RunTyped, TypeOK
  <1>4. ASSUME NEW d \in Docs, NEW t \in Templates, CreateDocument(d, t)
        PROVE  TypeOK' /\ RequestOrder'
    BY <1>0, <1>4 DEF CreateDocument, PermitInv, TypeOK, RequestOrder, Row, run, boot
  <1>5. ASSUME NEW d \in Docs, NEW modes \in DispatchSets, Dispatch(d, modes)
        PROVE  TypeOK' /\ RequestOrder'
    <2>1. TypeOK'
      BY <1>0, <1>5 DEF Dispatch, PermitInv, TypeOK, db, boot, Labels
    <2>2. RequestOrder'
      BY <1>5 DEF Dispatch, PermitInv, TypeOK, RequestOrder, db, Exec
    <2> QED BY <2>1, <2>2
  <1>6. ASSUME NEW e \in Exec, Pipeline(e)
        PROVE  TypeOK' /\ RequestOrder'
    <2>1. UNCHANGED <<handler, watch, boot, crashes>>
      BY <1>6 DEF Pipeline, StartThread, StartTask, Acquire, AcquireTimesOut, RejectBusy,
           Report, StageRaises, NoArtifact, ExplainResults, InsertResult, PublishOutput,
           ReportCompleted, Release, WrapUpTask, MarkTaskFailed
    <2>2. DbTyped /\ RunTyped
      BY <1>6, PipelineTyped DEF PermitInv
    <2> QED BY <1>0, <1>1, <2>1, <2>2 DEF PermitInv, TypeOK, DbTyped, RunTyped, boot
  <1>7. ASSUME NEW e \in Exec, Loop(e)
        PROVE  TypeOK' /\ RequestOrder'
    <2>1. watch' \in [Exec -> {"off", "armed", "fired", "over"}]
      BY <1>7 DEF Loop, TimesOut, MarkJobFailed, Joined, PermitInv, TypeOK
    <2>2. UNCHANGED <<handler, boot, crashes>>
      BY <1>7 DEF Loop, TimesOut, MarkJobFailed, Joined
    <2>3. DbTyped
      BY <1>2, <1>7, WriteTyped, ReportTyped DEF Loop, TimesOut, MarkJobFailed, Joined, PermitInv
    <2>4. RunTyped
      <3>1. CASE TimesOut(e)
        BY <3>1 DEF TimesOut, RunTyped, PermitInv, TypeOK, Labels, Over
      <3>2. CASE MarkJobFailed(e)
        BY <1>3, <3>2 DEF MarkJobFailed
      <3>3. CASE Joined(e)
        BY <3>3, GotoTyped DEF Joined, RunTyped, PermitInv, TypeOK, Labels, Over
      <3> QED BY <1>7, <3>1, <3>2, <3>3 DEF Loop
    <2> QED BY <1>0, <1>1, <2>1, <2>2, <2>3, <2>4 DEF PermitInv, TypeOK, DbTyped, RunTyped, boot
  <1>8. ASSUME NEW e \in Exec, WorkerCrashes(e)
        PROVE  TypeOK' /\ RequestOrder'
    <2>1. RunTyped
      BY <1>8, GotoTyped DEF WorkerCrashes, RunTyped, PermitInv, TypeOK, Live, Labels, Over, Last, Reports
    <2> QED BY <1>0, <1>1, <1>2, <1>8, <2>1
            DEF WorkerCrashes, PermitInv, TypeOK, DbTyped, RunTyped, boot
  <1>9. CASE WebCrashes
    <2>1. RunTyped
      BY <1>9 DEF WebCrashes, RunTyped, PermitInv, TypeOK, Live, Labels, Over
    <2>2. RequestOrder'
      BY <1>2, <1>9, <2>1 DEF WebCrashes, RequestOrder, PermitInv, TypeOK, DbTyped, RunTyped, Exec
    <2> QED BY <1>0, <1>2, <1>9, <2>1, <2>2
            DEF WebCrashes, PermitInv, TypeOK, DbTyped, RunTyped
  <1>10. CASE Restart
    <2>1. DbTyped
      BY <1>2, <1>10 DEF Restart, Startup, ResetSelect, ResetUpdate, ResetFails, Serve,
           DbTyped, PermitInv, TypeOK, Row
    <2>2. UNCHANGED <<handler, run, watch, permits, crashes>>
      BY <1>10 DEF Restart, Startup, ResetSelect, ResetUpdate, ResetFails, Serve
    <2>3. /\ web' \in {"up", "down", "starting"}
          /\ reset' \in {"off", "select", "update"}
          /\ toFail' \in SUBSET Docs
      BY <1>10 DEF Restart, Startup, ResetSelect, ResetUpdate, ResetFails, Serve, PermitInv, TypeOK
    <2> QED BY <1>1, <1>3, <2>1, <2>2, <2>3 DEF PermitInv, TypeOK, DbTyped, RunTyped
  <1>11. CASE Idle \/ UNCHANGED vars
    BY <1>1, <1>2, <1>3, <1>11 DEF Idle, vars, db, run, boot, PermitInv, TypeOK
  <1> QED
    BY <1>4, <1>5, <1>6, <1>7, <1>8, <1>9, <1>10, <1>11 DEF Next

LEMMA PermitInit == Init => PermitInv
  <1> SUFFICES ASSUME Init PROVE PermitInv
    OBVIOUS
  <1>1. Holders = {}
    BY DEF Init, Holders, Holding
  <1>2. TypeOK
    BY ConstantsAssumption DEF Init, TypeOK, ConstantsAssumption, Row, Labels, Over, Last, Reports
  <1>3. RequestOrder
    BY DEF Init, RequestOrder, Exec
  <1>4. PermitsConserved
    BY <1>1, FS_EmptySet, ConstantsAssumption DEF Init, PermitsConserved, ConstantsAssumption
  <1> QED BY <1>2, <1>3, <1>4 DEF PermitInv

(* The three conjuncts together are an inductive invariant.                *)
THEOREM PermitInvariant == Spec => []PermitInv
  <1>1. PermitInv /\ [Next]_vars => PermitInv'
    BY PermitsStep, TypeStep DEF PermitInv
  <1> QED BY <1>1, PermitInit, PTL DEF Spec

(* Every state of the pipeline is well typed; in particular the semaphore  *)
(* never counts below 0 nor above MaxConcurrent.                           *)
THEOREM TypeCorrect == Spec => []TypeOK
  BY PermitInvariant, PTL DEF PermitInv

(* A permit is neither lost nor given back twice, on any path of           *)
(* run_pipeline and across timeouts, crashes and restarts.                 *)
THEOREM PermitsAreConserved == Spec => []PermitsConserved
  BY PermitInvariant, PTL DEF PermitInv

-----------------------------------------------------------------------------
(* Refinement                                                              *)

(* The semaphore implements the safety part of JobSlots: at most           *)
(* MaxConcurrent pipelines of the web process run at a time.               *)
THEOREM SlotsRefined == Spec => Slots!Safe
  <1>1. Init => Slots!Init
    BY DEF Init, Slots!Init, Holders, Holding
  <1>2. PermitInv /\ [Next]_vars => [Slots!Next]_Holders
    <2> SUFFICES ASSUME PermitInv, [Next]_vars PROVE [Slots!Next]_Holders
      OBVIOUS
    <2>1. CASE Unmoved
      BY <2>1 DEF Unmoved
    <2>2. CASE Taken
      <3>1. permits > 0 => Cardinality(Holders) < MaxConcurrent
        BY HoldersFinite, ConstantsAssumption
           DEF PermitInv, PermitsConserved, TypeOK, ConstantsAssumption
      <3>2. PICK e \in Exec : /\ e \notin Holders /\ Holders' = Holders \cup {e}
                              /\ permits > 0 /\ permits' = permits - 1
        BY <2>2 DEF Taken
      <3>3. Slots!Cardinality(Holders) = Cardinality(Holders)
        BY Zenon DEF Slots!Cardinality, Cardinality
      <3>4. Slots!Take(e)
        BY <3>1, <3>2, <3>3 DEF Slots!Take
      <3> QED BY <3>4 DEF Slots!Next
    <2>3. CASE GivenBack
      BY <2>3 DEF GivenBack, Slots!Next, Slots!Give
    <2>4. CASE WipedOut
      BY <2>4 DEF WipedOut, Slots!Next, Slots!Wipe
    <2> QED BY <2>1, <2>2, <2>3, <2>4, HoldersStep DEF PermitInv
  <1> QED BY <1>1, <1>2, PermitInvariant, PTL DEF Spec, Slots!Safe

-----------------------------------------------------------------------------
(* No row is left PROCESSING without anyone to finish it.  NoOrphan is not *)
(* inductive: it must also say which executions still owe the row a write, *)
(* and what the startup reset has yet to do.                               *)

(* e will write a verdict into its row, or is about to lose that write.    *)
Owes(e) ==
    \/ pc[e] \in {"queued", "waiting", "rejected", "running", "inserting", "publishing",
                  "finishing", "wrapping", "marking"}
    \/ pc[e] = "closing" /\ ~InWeb(e)

Covered(d) ==
    \/ handler[d] = "created"
    \/ \E m \in Modes : Owes(<<d, m>>) \/ watch[<<d, m>>] = "fired"
    \/ Excused(d)
    \/ web = "down"
    \/ reset = "select"
    \/ reset = "update" /\ d \in toFail

OrphanInv == \A d \in Docs : docs[d].status = "PROCESSING" => Covered(d)

(* A step that does not touch what d depends on.                           *)
LEMMA CoverKept ==
    ASSUME NEW d \in Docs, Covered(d),
           handler'[d] = handler[d], UNCHANGED boot, lostWrite \subseteq lostWrite',
           \A m \in Modes : /\ pc'[<<d, m>>] = pc[<<d, m>>]
                            /\ watch[<<d, m>>] = "fired" => watch'[<<d, m>>] = "fired"
                            /\ outcome'[<<d, m>>] = outcome[<<d, m>>]
    PROVE  Covered(d)'
  BY DEF Covered, Owes, InWeb, Excused, boot

(* A write to the row of another document.                                 *)
LEMMA OtherRow ==
    ASSUME TypeOK, NEW x \in Docs, NEW s, TrySetRow(x, s)
    PROVE  /\ lostWrite \subseteq lostWrite'
           /\ \A d \in Docs \ {x} : docs'[d] = docs[d]
           /\ docs'[x].status = s \/ x \in lostWrite'
  <1>1. CASE SetRow(x, s)
    BY <1>1 DEF SetRow, TypeOK, Row
  <1>2. CASE WriteFails(x)
    BY <1>2 DEF WriteFails, TypeOK
  <1> QED BY <1>1, <1>2 DEF TrySetRow

(* Which rows a pipeline step touches, and how it leaves its own.          *)
LEMMA PipelineCovers ==
    ASSUME TypeOK, NEW e \in Exec, Pipeline(e)
    PROVE  /\ lostWrite \subseteq lostWrite'
           /\ \A d \in Docs \ {Doc(e)} : docs'[d] = docs[d]
           /\ \A x \in Exec \ {e} : pc'[x] = pc[x] /\ outcome'[x] = outcome[x]
           /\ \/ Owes(e)'
              \/ outcome'[e] = "processing"
              \/ Doc(e) \in lostWrite'
              \/ docs'[Doc(e)].status # "PROCESSING"
              \/ pc[e] = "closing" /\ pc'[e] = "returned" /\ UNCHANGED <<docs, outcome, lostWrite>>
  <1> USE DEF Owes, db, Goto, TypeOK
  <1>0. Doc(e) \in Docs
    BY DEF Doc, Exec
  <1>1. CASE StartThread(e)
    BY <1>1 DEF StartThread
  <1>2. CASE StartTask(e)
    BY <1>0, <1>2, OtherRow DEF StartTask, TrySetRow
  <1>3. CASE Acquire(e)
    BY <1>3 DEF Acquire
  <1>4. CASE AcquireTimesOut(e)
    BY <1>4 DEF AcquireTimesOut
  <1>5. CASE RejectBusy(e)
    BY <1>0, <1>5, OtherRow, ReportTyped DEF RejectBusy
  <1>6. CASE Report(e)
    BY <1>0, <1>6, OtherRow DEF Report
  <1>7. CASE StageRaises(e)
    BY <1>7 DEF StageRaises
  <1>8. CASE NoArtifact(e)
    BY <1>0, <1>8, OtherRow DEF NoArtifact
  <1>9. CASE ExplainResults(e)
    BY <1>9 DEF ExplainResults
  <1>10. CASE InsertResult(e)
    BY <1>10 DEF InsertResult, WriteFails
  <1>11. CASE PublishOutput(e)
    <2>1. /\ lostWrite \subseteq lostWrite'
          /\ \A d \in Docs \ {Doc(e)} : docs'[d] = docs[d]
      BY <1>11 DEF PublishOutput, WriteFails
    <2>2. Goto(e, "finishing") /\ UNCHANGED outcome
      BY <1>11 DEF PublishOutput
    <2> QED BY <2>1, <2>2
  <1>12. CASE ReportCompleted(e)
    BY <1>0, <1>12, OtherRow, ReportTyped DEF ReportCompleted
  <1>13. CASE Release(e)
    BY <1>13 DEF Release
  <1>14. CASE WrapUpTask(e)
    BY <1>0, <1>14, OtherRow DEF WrapUpTask, TrySetRow
  <1>15. CASE MarkTaskFailed(e)
    BY <1>0, <1>15, OtherRow DEF MarkTaskFailed
  <1> QED
    BY <1>1, <1>2, <1>3, <1>4, <1>5, <1>6, <1>7, <1>8, <1>9, <1>10, <1>11, <1>12, <1>13,
       <1>14, <1>15 DEF Pipeline

(* Executions of different documents are different executions.             *)
LEMMA ExecOf ==
    /\ \A e \in Exec : Doc(e) \in Docs /\ e \in {<<Doc(e), m>> : m \in Modes}
    /\ \A d \in Docs, m \in Modes : <<d, m>> \in Exec /\ Doc(<<d, m>>) = d
  BY DEF Exec, Doc

LEMMA OrphanStep ==
    ASSUME TypeOK, OrphanInv, [Next]_vars
    PROVE  OrphanInv'
  <1> SUFFICES ASSUME NEW d \in Docs, docs'[d].status = "PROCESSING" PROVE Covered(d)'
    BY DEF OrphanInv
  <1>0. docs[d].status = "PROCESSING" => Covered(d)
    BY DEF OrphanInv
  <1>1. ASSUME NEW x \in Docs, NEW t \in Templates, CreateDocument(x, t) PROVE Covered(d)'
    <2>1. CASE d = x
      BY <1>1, <2>1 DEF CreateDocument, TypeOK, Covered
    <2>2. CASE d # x
      <3>1. docs[d] = docs'[d] /\ handler[d] = handler'[d]
        BY <1>1, <2>2 DEF CreateDocument, TypeOK
      <3> QED BY <1>0, <1>1, <3>1, CoverKept DEF CreateDocument, run
    <2> QED BY <2>1, <2>2
  <1>2. ASSUME NEW x \in Docs, NEW modes \in DispatchSets, Dispatch(x, modes) PROVE Covered(d)'
    <2>1. CASE d = x
      <3>1. PICK m \in Modes : m \in modes
        BY DEF DispatchSets, Modes
      <3>2. pc'[<<d, m>>] = "queued"
        BY <1>2, <2>1, <3>1, ExecOf DEF Dispatch
      <3> QED BY <3>2 DEF Covered, Owes
    <2>2. CASE d # x
      <3>1. docs[d] = docs'[d] /\ handler[d] = handler'[d] /\ lostWrite' = lostWrite
        BY <1>2, <2>2 DEF Dispatch, TypeOK, db
      <3>2. \A m \in Modes : /\ pc'[<<d, m>>] = pc[<<d, m>>]
                             /\ watch'[<<d, m>>] = watch[<<d, m>>]
                             /\ outcome'[<<d, m>>] = outcome[<<d, m>>]
        BY <1>2, <2>2, ExecOf DEF Dispatch
      <3> QED BY <1>0, <1>2, <3>1, <3>2, CoverKept DEF Dispatch
    <2> QED BY <2>1, <2>2
  <1>3. ASSUME NEW e \in Exec, Pipeline(e) PROVE Covered(d)'
    <2>1. UNCHANGED <<handler, watch, boot>>
      BY <1>3 DEF Pipeline, StartThread, StartTask, Acquire, AcquireTimesOut, RejectBusy,
           Report, StageRaises, NoArtifact, ExplainResults, InsertResult, PublishOutput,
           ReportCompleted, Release, WrapUpTask, MarkTaskFailed
    <2>2. CASE d # Doc(e)
      <3>1. \A m \in Modes : <<d, m>> \in Exec \ {e}
        BY <2>2, ExecOf
      <3> QED BY <1>0, <1>3, <2>1, <2>2, <3>1, PipelineCovers, CoverKept
    <2>3. CASE d = Doc(e)
      <3>1. PICK m \in Modes : e = <<d, m>>
        BY <2>3, ExecOf
      <3>2. CASE Owes(e)' \/ outcome'[e] = "processing" \/ Doc(e) \in lostWrite'
        BY <2>3, <3>1, <3>2 DEF Covered, Excused
      <3>3. CASE pc[e] = "closing" /\ pc'[e] = "returned" /\ UNCHANGED <<docs, outcome, lostWrite>>
        <4>1. \A n \in Modes : n # m => pc'[<<d, n>>] = pc[<<d, n>>]
          BY <1>3, <3>1, PipelineCovers, ExecOf
        <4>2. InWeb(e)
          BY <1>3, <3>3 DEF Pipeline, StartThread, StartTask, Acquire, AcquireTimesOut,
             RejectBusy, Report, StageRaises, NoArtifact, ExplainResults, InsertResult,
             PublishOutput, ReportCompleted, Release, WrapUpTask, MarkTaskFailed, Goto, TypeOK
        <4>3. ~Owes(e)
          BY <3>3, <4>2 DEF Owes
        <4>4. Covered(d)
          BY <1>0, <3>3
        <4>5. \A n \in Modes : Owes(<<d, n>>) => Owes(<<d, n>>)'
          BY <3>1, <4>1, <4>3 DEF Owes
        <4> QED BY <2>1, <3>3, <4>4, <4>5 DEF Covered, Excused, boot
      <3> QED BY <1>3, <2>3, <3>2, <3>3, PipelineCovers
    <2> QED BY <2>2, <2>3
  <1>4. ASSUME NEW e \in Exec, Loop(e) PROVE Covered(d)'
    <2>1. PICK m \in Modes : e = <<Doc(e), m>>
      BY ExecOf
    <2>2. CASE TimesOut(e)
      <3>1. CASE d = Doc(e)
        <4>1. watch'[e] = "fired"
          BY <2>2 DEF TimesOut, TypeOK
        <4> QED BY <2>1, <3>1, <4>1 DEF Covered
      <3>2. CASE d # Doc(e)
        <4>1. \A n \in Modes : <<d, n>> \in Exec \ {e}
          BY <3>2, ExecOf
        <4> QED BY <1>0, <2>2, <4>1, CoverKept DEF TimesOut, TypeOK, db
      <3> QED BY <3>1, <3>2
    <2>3. CASE MarkJobFailed(e)
      <3>1. TrySetRow(Doc(e), "FAILED") /\ UNCHANGED <<handler, run, boot>>
        BY <2>3 DEF MarkJobFailed
      <3>2. CASE d = Doc(e)
        BY <3>1, <3>2, OtherRow DEF Covered, Excused
      <3>3. CASE d # Doc(e)
        <4>1. \A n \in Modes : watch'[<<d, n>>] = watch[<<d, n>>]
          BY <2>3, <3>3, ExecOf DEF MarkJobFailed, TypeOK
        <4>2. docs'[d] = docs[d] /\ lostWrite \subseteq lostWrite'
          BY <3>1, <3>3, ExecOf, OtherRow
        <4> QED BY <1>0, <3>1, <4>1, <4>2, CoverKept DEF run
      <3> QED BY <3>2, <3>3
    <2>4. CASE Joined(e)
      <3>1. \A n \in Modes : Owes(<<d, n>>) => Owes(<<d, n>>)'
        BY <2>4, ExecOf DEF Joined, Goto, Owes, TypeOK
      <3>2. \A n \in Modes : watch[<<d, n>>] = "fired" => watch'[<<d, n>>] = "fired"
        BY <2>4, ExecOf DEF Joined, TypeOK
      <3> QED BY <1>0, <2>4, <3>1, <3>2 DEF Joined, Covered, Excused, db, boot
    <2> QED BY <1>4, <2>2, <2>3, <2>4 DEF Loop
  <1>5. ASSUME NEW e \in Exec, WorkerCrashes(e) PROVE Covered(d)'
    <2>1. PICK m \in Modes : e = <<Doc(e), m>>
      BY ExecOf
    <2>2. CASE d = Doc(e)
      BY <1>5, <2>1, <2>2 DEF WorkerCrashes, Goto, TypeOK, Covered, Owes
    <2>3. CASE d # Doc(e)
      <3>1. \A n \in Modes : <<d, n>> \in Exec \ {e}
        BY <2>3, ExecOf
      <3> QED BY <1>0, <1>5, <3>1, CoverKept DEF WorkerCrashes, Goto, TypeOK, db
    <2> QED BY <2>2, <2>3
  <1>6. CASE WebCrashes
    BY <1>6 DEF WebCrashes, Covered
  <1>7. CASE Restart
    <2>1. CASE Startup
      BY <2>1 DEF Startup, Covered
    <2>2. CASE ResetSelect
      BY <2>2 DEF ResetSelect, Covered, db
    <2>3. CASE ResetUpdate
      <3>1. d \notin toFail /\ docs'[d].status = docs[d].status
        BY <2>3 DEF ResetUpdate, TypeOK, Row
      <3> QED BY <1>0, <2>3, <3>1 DEF ResetUpdate, Covered, Owes, Excused, run
    <2>4. CASE ResetFails
      BY <2>4 DEF ResetFails, Covered, Excused
    <2>5. CASE Serve
      BY <1>0, <2>5 DEF Serve, Covered, Owes, Excused, run, db
    <2> QED BY <1>7, <2>1, <2>2, <2>3, <2>4, <2>5 DEF Restart
  <1>8. CASE Idle \/ UNCHANGED vars
    BY <1>0, <1>8 DEF Idle, vars, db, run, boot, Covered, Owes, Excused
  <1> QED
    BY <1>1, <1>2, <1>3, <1>4, <1>5, <1>6, <1>7, <1>8 DEF Next

(* Whatever dies or times out, a row that says PROCESSING while the        *)
(* service is up and its startup reset is over still has a request, a      *)
(* run or a pending mark_failed behind it, or a swallowed failure.         *)
THEOREM NoOrphanRow == Spec => []NoOrphan
  <1>1. Init => OrphanInv
    BY DEF Init, OrphanInv
  <1>2. TypeOK /\ OrphanInv /\ [Next]_vars => OrphanInv'
    BY OrphanStep
  <1>3. OrphanInv => NoOrphan
    BY DEF OrphanInv, NoOrphan, Covered, Attended, Owes, Live, Over
  <1> QED BY <1>1, <1>2, <1>3, TypeCorrect, PTL DEF Spec

-----------------------------------------------------------------------------
(* What COMPLETED means, as long as only the background task has worked on *)
(* d and no call on its row has failed.  CompletedIsComplete is not        *)
(* inductive: the row becomes COMPLETED twice at the end of a run, and     *)
(* each time relies on what the run has written before.                    *)

Alone(d) == pc[<<d, "celery">>] = "idle" /\ d \notin lostWrite

Whole(d) == results[d] = docs[d].template /\ docs[d].output = docs[d].template

CompleteOf(d) ==
    /\ docs[d].status = "absent" => results[d] = NoTemplate
    /\ pc[<<d, "background">>] # "wrapping"
    /\ Alone(d) =>
        /\ results[d] \in {NoTemplate, docs[d].template}
        /\ pc[<<d, "background">>] = "publishing" => results[d] = docs[d].template
        /\ pc[<<d, "background">>] = "finishing" => Whole(d)
        /\ docs[d].status = "COMPLETED" => Whole(d)

CompleteInv == \A d \in Docs : CompleteOf(d)

(* The step does nothing to d but, perhaps, to take it out of the scope or *)
(* to give it another status than COMPLETED.                               *)
Spared(d) ==
    /\ docs'[d].template = docs[d].template
    /\ docs'[d].output = docs[d].output
    /\ docs'[d].status = "absent" => docs[d].status = "absent"
    /\ docs'[d].status = "COMPLETED" => docs[d].status = "COMPLETED"
    /\ results'[d] = results[d]
    /\ lostWrite \subseteq lostWrite'
    /\ pc'[<<d, "celery">>] = "idle" => pc[<<d, "celery">>] = "idle"
    /\ \A label \in {"publishing", "finishing", "wrapping"} :
           pc'[<<d, "background">>] = label => pc[<<d, "background">>] = label

LEMMA SparedIsKept ==
    ASSUME NEW d \in Docs, CompleteOf(d), Spared(d)
    PROVE  CompleteOf(d)'
  BY DEF CompleteOf, Spared, Alone, Whole

(* A status other than COMPLETED spares every row.                         *)
LEMMA OtherStatusSpares ==
    ASSUME TypeOK, NEW x \in Docs, NEW s \in {"PROCESSING", "FAILED"}, TrySetRow(x, s),
           NEW d \in Docs
    PROVE  /\ docs'[d].template = docs[d].template
           /\ docs'[d].output = docs[d].output
           /\ docs'[d].status = "absent" => docs[d].status = "absent"
           /\ docs'[d].status = "COMPLETED" => docs[d].status = "COMPLETED"
           /\ results'[d] = results[d]
           /\ lostWrite \subseteq lostWrite'
  <1>1. CASE SetRow(x, s)
    BY <1>1 DEF SetRow, TypeOK, Row
  <1>2. CASE WriteFails(x)
    BY <1>2 DEF WriteFails, TypeOK
  <1> QED BY <1>1, <1>2 DEF TrySetRow

(* No report before the last one completes or fails the row.               *)
LEMMA EarlyReports ==
    ASSUME TypeOK, NEW e \in Exec, at[e] < Last - 1
    PROVE  RowStatus(Reports[at[e] + 1]) = "PROCESSING"
  <1>1. at[e] + 1 \in 1 .. 10
    BY ReportTyped DEF TypeOK
  <1> QED BY <1>1 DEF RowStatus, Reports

(* A step of the pipeline spares the documents of other executions.        *)
LEMMA OthersSpared ==
    ASSUME TypeOK, NEW e \in Exec, Pipeline(e), NEW d \in Docs, d # Doc(e)
    PROVE  Spared(d)
  <1>1. \A m \in Modes : <<d, m>> \in Exec \ {e}
    BY ExecOf
  <1>2. \A m \in Modes : pc'[<<d, m>>] = pc[<<d, m>>]
    BY <1>1, PipelineCovers
  <1>3. docs'[d] = docs[d] /\ lostWrite \subseteq lostWrite'
    BY PipelineCovers
  <1>4. results'[d] = results[d]
    BY ExecOf DEF Pipeline, StartThread, StartTask, Acquire, AcquireTimesOut, RejectBusy,
       Report, StageRaises, NoArtifact, ExplainResults, InsertResult, PublishOutput,
       ReportCompleted, Release, WrapUpTask, MarkTaskFailed, TrySetRow, SetRow, WriteFails,
       db, TypeOK
  <1> QED BY <1>2, <1>3, <1>4 DEF Spared, Modes

(* A task of Celery takes its document out of the scope.                   *)
LEMMA TaskCompletes ==
    ASSUME TypeOK, RequestOrder, NEW e \in Exec, ~InWeb(e), Pipeline(e),
           CompleteOf(Doc(e))
    PROVE  CompleteOf(Doc(e))'
  <1>1. Doc(e) \in Docs /\ e = <<Doc(e), "celery">>
    BY DEF Exec, Doc, InWeb, Modes
  <1>2. pc'[e] # "idle" /\ pc[e] # "idle"
    BY DEF Pipeline, StartThread, StartTask, Acquire, AcquireTimesOut, RejectBusy,
       Report, StageRaises, NoArtifact, ExplainResults, InsertResult, PublishOutput,
       ReportCompleted, Release, WrapUpTask, MarkTaskFailed, Goto, TypeOK
  <1>3. docs[Doc(e)].status # "absent"
    BY ZenonT(40), <1>1, <1>2, ExecOf DEF RequestOrder, Modes
  <1>4. DbTyped
    BY PipelineTyped
  <1>5. pc'[<<Doc(e), "background">>] = pc[<<Doc(e), "background">>]
    BY <1>1, PipelineCovers, ExecOf DEF Modes
  <1> QED BY <1>1, <1>2, <1>3, <1>4, <1>5 DEF CompleteOf, Alone, DbTyped

LEMMA ThreadCompletes ==
    ASSUME TypeOK, RequestOrder, NEW d \in Docs, CompleteOf(d),
           NEW e \in Exec, e = <<d, "background">>, Pipeline(e)
    PROVE  CompleteOf(d)'
  <1>0. Doc(e) = d /\ InWeb(e)
    BY DEF Doc, InWeb
  <1>1. \A x \in Exec \ {e} : pc'[x] = pc[x]
    BY PipelineCovers
  <1>2. pc'[<<d, "celery">>] = pc[<<d, "celery">>]
    BY <1>0, <1>1, ExecOf DEF Modes
  <1>3. ASSUME NEW label, Goto(e, label) PROVE pc'[<<d, "background">>] = label
    BY <1>0, <1>3 DEF Goto, TypeOK
  <1>4. docs[d].status # "absent"
    <2>1. pc[e] # "idle"
      BY DEF Pipeline, StartThread, StartTask, Acquire, AcquireTimesOut, RejectBusy,
         Report, StageRaises, NoArtifact, ExplainResults, InsertResult, PublishOutput,
         ReportCompleted, Release, WrapUpTask, MarkTaskFailed
    <2> QED BY <1>0, <2>1 DEF RequestOrder, Modes
  <1>5. docs'[d].status # "absent"
    BY <1>0, <1>4, PipelineTyped DEF DbTyped
  <1>6. ASSUME UNCHANGED db, NEW label \in Labels \ {"publishing", "finishing", "wrapping"}, Goto(e, label)
        PROVE  CompleteOf(d)'
    BY <1>0, <1>2, <1>3, <1>6, SparedIsKept DEF Spared, db
  <1>7. ASSUME NEW s \in {"PROCESSING", "FAILED"}, TrySetRow(d, s),
               NEW label \in Labels \ {"publishing", "finishing", "wrapping"}, Goto(e, label)
        PROVE  CompleteOf(d)'
    <2>1. Spared(d)
      BY <1>0, <1>2, <1>3, <1>7, OtherStatusSpares DEF Spared
    <2> QED BY <1>0, <2>1, SparedIsKept
  <1> USE DEF Labels, Over, OnThread, Holding
  <1>8. CASE StartThread(e)
    BY <1>6, <1>8 DEF StartThread
  <1>9. CASE StartTask(e)
    BY <1>0, <1>9 DEF StartTask
  <1>10. CASE Acquire(e)
    BY <1>6, <1>10 DEF Acquire
  <1>11. CASE AcquireTimesOut(e)
    BY <1>6, <1>11 DEF AcquireTimesOut
  <1>12. CASE RejectBusy(e)
    BY <1>0, <1>7, <1>12, ReportTyped DEF RejectBusy
  <1>13. CASE Report(e)
    <2>1. TrySetRow(d, "PROCESSING") /\ UNCHANGED pc
      BY <1>0, <1>13, EarlyReports DEF Report
    <2>2. Spared(d)
      BY <1>0, <2>1, OtherStatusSpares DEF Spared
    <2> QED BY <1>0, <2>2, SparedIsKept
  <1>14. CASE StageRaises(e)
    BY <1>6, <1>14 DEF StageRaises
  <1>15. CASE NoArtifact(e)
    BY <1>0, <1>7, <1>15 DEF NoArtifact
  <1>16. CASE ExplainResults(e)
    BY <1>6, <1>16 DEF ExplainResults
  <1>17. CASE InsertResult(e)
    <2>1. pc'[<<d, "background">>] = "publishing"
      BY <1>3, <1>17 DEF InsertResult
    <2>2. CASE WriteFails(d)
      BY <1>5, <2>1, <2>2 DEF WriteFails, CompleteOf, Alone
    <2>3. CASE ~WriteFails(d)
      <3>1. /\ results' = [results EXCEPT ![d] = IF @ = NoTemplate THEN docs[d].template ELSE @]
            /\ UNCHANGED <<docs, lostWrite>>
        BY <1>0, <1>17, <2>3 DEF InsertResult, AppliedTemplate
      <3>2. results'[d] = IF results[d] = NoTemplate THEN docs[d].template ELSE results[d]
        BY <1>0, <3>1 DEF TypeOK
      <3> QED BY <1>2, <1>4, <2>1, <3>1, <3>2 DEF CompleteOf, Alone, Whole
    <2> QED BY <2>2, <2>3
  <1>18. CASE PublishOutput(e)
    <2>1. pc'[<<d, "background">>] = "finishing" /\ pc[<<d, "background">>] = "publishing"
      BY <1>0, <1>3, <1>18 DEF PublishOutput
    <2>2. CASE WriteFails(d)
      BY <1>5, <2>1, <2>2 DEF WriteFails, CompleteOf, Alone
    <2>3. CASE ~WriteFails(d)
      <3>1. /\ docs' = [docs EXCEPT ![d] = [status |-> "COMPLETED", template |-> docs[d].template,
                                            output |-> docs[d].template]]
            /\ UNCHANGED <<results, lostWrite>>
        BY <1>0, <1>18, <2>3 DEF PublishOutput, AppliedTemplate
      <3>2. docs'[d].template = docs[d].template /\ docs'[d].output = docs[d].template
        BY <1>0, <3>1 DEF TypeOK
      <3> QED BY <1>2, <1>5, <2>1, <3>1, <3>2 DEF CompleteOf, Alone, Whole
    <2> QED BY <2>2, <2>3
  <1>19. CASE ReportCompleted(e)
    <2>1. pc'[<<d, "background">>] = "closing" /\ pc[<<d, "background">>] = "finishing"
      BY <1>0, <1>3, <1>19 DEF ReportCompleted
    <2>2. CASE WriteFails(d)
      BY <1>5, <2>1, <2>2 DEF WriteFails, CompleteOf, Alone
    <2>3. CASE SetRow(d, "COMPLETED")
      <3>1. /\ docs'[d].template = docs[d].template /\ docs'[d].output = docs[d].output
            /\ UNCHANGED <<results, lostWrite>>
        BY <1>0, <2>3 DEF SetRow, TypeOK, Row
      <3> QED BY <1>2, <1>5, <2>1, <3>1 DEF CompleteOf, Alone, Whole
    <2> QED BY <1>0, <1>19, <2>2, <2>3, ReportTyped DEF ReportCompleted, TrySetRow
  <1>20. CASE Release(e)
    BY <1>0, <1>6, <1>20 DEF Release
  <1>21. CASE WrapUpTask(e)
    BY <1>21 DEF WrapUpTask, CompleteOf
  <1>22. CASE MarkTaskFailed(e)
    BY <1>0, <1>7, <1>22 DEF MarkTaskFailed
  <1> QED
    BY <1>8, <1>9, <1>10, <1>11, <1>12, <1>13, <1>14, <1>15, <1>16, <1>17, <1>18, <1>19,
       <1>20, <1>21, <1>22 DEF Pipeline

LEMMA CompleteStep ==
    ASSUME PermitInv, CompleteInv, [Next]_vars
    PROVE  CompleteInv'
  <1> SUFFICES ASSUME NEW d \in Docs, CompleteOf(d) PROVE CompleteOf(d)'
    BY DEF CompleteInv
  <1>0. TypeOK /\ RequestOrder
    BY DEF PermitInv
  <1>1. ASSUME NEW x \in Docs, NEW t \in Templates, CreateDocument(x, t) PROVE CompleteOf(d)'
    <2>1. CASE d = x
      <3>1. /\ docs'[d] = [status |-> "PROCESSING", template |-> t, output |-> NoTemplate]
            /\ docs[d].status = "absent" /\ UNCHANGED <<results, pc>>
        BY <1>0, <1>1, <2>1 DEF CreateDocument, TypeOK, run
      <3>2. results'[d] = NoTemplate /\ pc'[<<d, "background">>] = "idle"
        BY <1>0, <3>1 DEF CompleteOf, RequestOrder, Modes
      <3> QED BY <3>1, <3>2 DEF CompleteOf
    <2>2. CASE d # x
      <3>1. docs'[d] = docs[d] /\ UNCHANGED <<results, pc, lostWrite>>
        BY <1>0, <1>1, <2>2 DEF CreateDocument, TypeOK, run
      <3> QED BY <3>1, SparedIsKept DEF Spared
    <2> QED BY <2>1, <2>2
  <1>2. ASSUME NEW x \in Docs, NEW modes \in DispatchSets, Dispatch(x, modes) PROVE CompleteOf(d)'
    <2>1. UNCHANGED db
      BY <1>2 DEF Dispatch
    <2>2. \A m \in Modes : pc'[<<d, m>>] \in {pc[<<d, m>>], "queued"}
      BY <1>2, ExecOf DEF Dispatch
    <2> QED BY <2>1, <2>2, SparedIsKept DEF Spared, db, Modes
  <1>3. ASSUME NEW e \in Exec, Pipeline(e) PROVE CompleteOf(d)'
    <2>1. CASE d # Doc(e)
      BY <1>0, <1>3, <2>1, OthersSpared, SparedIsKept
    <2>2. CASE d = Doc(e) /\ ~InWeb(e)
      BY <1>0, <1>3, <2>2, TaskCompletes
    <2>3. CASE d = Doc(e) /\ InWeb(e)
      <3>1. e = <<d, "background">>
        BY <2>3 DEF Exec, Doc, InWeb
      <3> QED BY <1>0, <1>3, <3>1, ThreadCompletes
    <2> QED BY <2>1, <2>2, <2>3
  <1>4. ASSUME NEW e \in Exec, Loop(e) PROVE CompleteOf(d)'
    <2>1. \A m \in Modes : pc'[<<d, m>>] \in {pc[<<d, m>>], "done"}
                            /\ (pc'[<<d, m>>] = "idle" => pc[<<d, m>>] = "idle")
      BY <1>0, <1>4, ExecOf DEF Loop, TimesOut, MarkJobFailed, Joined, run, Goto, TypeOK
    <2>2. CASE TimesOut(e) \/ Joined(e)
      BY <2>1, <2>2, SparedIsKept DEF TimesOut, Joined, Spared, db, Modes
    <2>3. CASE MarkJobFailed(e)
      <3>1. TrySetRow(Doc(e), "FAILED") /\ Doc(e) \in Docs
        BY <2>3, ExecOf DEF MarkJobFailed
      <3> QED BY <1>0, <2>1, <3>1, OtherStatusSpares, SparedIsKept DEF Spared, Modes
    <2> QED BY <1>4, <2>2, <2>3 DEF Loop
  <1>5. ASSUME NEW e \in Exec, WorkerCrashes(e) PROVE CompleteOf(d)'
    <2>1. \A m \in Modes : pc'[<<d, m>>] \in {pc[<<d, m>>], "queued"}
      BY <1>0, <1>5, ExecOf DEF WorkerCrashes, Goto, TypeOK
    <2> QED BY <1>5, <2>1, SparedIsKept DEF WorkerCrashes, Spared, db, Modes
  <1>6. CASE WebCrashes
    <2>1. \A m \in Modes : pc'[<<d, m>>] \in {pc[<<d, m>>], "lost"}
      BY <1>6, ExecOf DEF WebCrashes
    <2> QED BY <1>6, <2>1, SparedIsKept DEF WebCrashes, Spared, db, Modes
  <1>7. CASE Restart
    <2>1. CASE ResetUpdate
      <3>1. /\ docs'[d].template = docs[d].template /\ docs'[d].output = docs[d].output
            /\ docs'[d].status \in {docs[d].status, "FAILED"}
            /\ UNCHANGED <<results, lostWrite, pc>>
        BY <1>0, <2>1 DEF ResetUpdate, TypeOK, Row, run
      <3> QED BY <3>1, SparedIsKept DEF Spared
    <2>2. CASE ~ResetUpdate
      <3>1. UNCHANGED <<docs, results, pc>> /\ lostWrite \subseteq lostWrite'
        BY <1>7, <2>2 DEF Restart, Startup, ResetSelect, ResetFails, Serve, db, run
      <3> QED BY <3>1, SparedIsKept DEF Spared
    <2> QED BY <2>1, <2>2
  <1>8. CASE Idle \/ UNCHANGED vars
    BY <1>8, SparedIsKept DEF Idle, vars, db, run, Spared
  <1> QED
    BY <1>1, <1>2, <1>3, <1>4, <1>5, <1>6, <1>7, <1>8 DEF Next

(* A document the background task alone has worked on, none of whose calls *)
(* failed, is COMPLETED only with its own result and its own output.       *)
THEOREM CompletedHasResult == Spec => []CompletedIsComplete
  <1>1. Init => CompleteInv
    BY DEF Init, CompleteInv, CompleteOf, Exec, Modes
  <1>2. PermitInv /\ CompleteInv /\ [Next]_vars => CompleteInv'
    BY CompleteStep
  <1>3. CompleteInv => CompletedIsComplete
    BY DEF CompleteInv, CompleteOf, CompletedIsComplete, Alone, Whole
  <1> QED BY <1>1, <1>2, <1>3, PermitInvariant, PTL DEF Spec

-----------------------------------------------------------------------------
(* COMPLETED is kept.  An execution that has nobody beside it and has not  *)
(* yet published its output finds its row not COMPLETED; so a step that    *)
(* fails a COMPLETED row is no step of its own execution.                  *)

Only(d, m) == \A n \in Modes \ {m} : pc[<<d, n>>] = "idle"

Early(d, m) ==
    \/ pc[<<d, m>>] \in {"waiting", "rejected", "running", "inserting", "publishing"}
    \/ pc[<<d, m>>] = "queued" /\ m = "background"

KeptOf(d) ==
    /\ watch[<<d, "celery">>] = "off"
    /\ handler[d] = "created" => docs[d].status # "COMPLETED"
    /\ \A m \in Modes : pc[<<d, m>>] = "marking" => d \in lostWrite
    /\ \A m \in Modes :
          Only(d, m) /\ Early(d, m) /\ d \notin lostWrite => docs[d].status # "COMPLETED"

KeptInv == \A d \in Docs : KeptOf(d)

(* The step brings d no nearer to any of this.                             *)
Passes(d) ==
    /\ watch'[<<d, "celery">>] = watch[<<d, "celery">>]
    /\ handler'[d] = "created" => handler[d] = "created"
    /\ docs'[d].status = "COMPLETED" => docs[d].status = "COMPLETED"
    /\ lostWrite \subseteq lostWrite'
    /\ \A m \in Modes :
          /\ pc'[<<d, m>>] = "idle" => pc[<<d, m>>] = "idle"
          /\ pc'[<<d, m>>] = "marking" => pc[<<d, m>>] = "marking" \/ d \in lostWrite'
          /\ Early(d, m)' => Early(d, m)

LEMMA PassesIsKept ==
    ASSUME NEW d \in Docs, KeptOf(d), Passes(d)
    PROVE  KeptOf(d)'
  BY DEF KeptOf, Passes, Only

LEMMA PipelinePasses ==
    ASSUME TypeOK, RequestOrder, NEW d \in Docs, NEW m \in Modes, KeptOf(d),
           NEW e \in Exec, e = <<d, m>>, Pipeline(e)
    PROVE  KeptOf(d)'
  <1>0. Doc(e) = d /\ (InWeb(e) <=> m = "background")
    BY DEF Doc, InWeb
  <1>1. \A x \in Exec \ {e} : pc'[x] = pc[x]
    BY PipelineCovers
  <1>2. \A n \in Modes \ {m} : pc'[<<d, n>>] = pc[<<d, n>>]
    BY <1>1, ExecOf
  <1>3. UNCHANGED <<handler, watch>>
    BY DEF Pipeline, StartThread, StartTask, Acquire, AcquireTimesOut, RejectBusy,
       Report, StageRaises, NoArtifact, ExplainResults, InsertResult, PublishOutput,
       ReportCompleted, Release, WrapUpTask, MarkTaskFailed
  <1>4. ASSUME NEW label, Goto(e, label) PROVE pc'[<<d, m>>] = label
    BY <1>4 DEF Goto, TypeOK
  <1>5. pc[e] # "idle" /\ handler[d] # "created"
    <2>1. pc[e] # "idle"
      BY DEF Pipeline, StartThread, StartTask, Acquire, AcquireTimesOut, RejectBusy,
         Report, StageRaises, NoArtifact, ExplainResults, InsertResult, PublishOutput,
         ReportCompleted, Release, WrapUpTask, MarkTaskFailed
    <2> QED BY <2>1 DEF RequestOrder
  (* The execution goes on before its output: the status is another one.   *)
  <1>6. ASSUME Early(d, m), NEW label \in Labels \ {"idle", "marking"}, Goto(e, label),
               docs'[d].status = "COMPLETED" => docs[d].status = "COMPLETED",
               lostWrite \subseteq lostWrite'
        PROVE  KeptOf(d)'
    BY <1>2, <1>3, <1>4, <1>5, <1>6 DEF KeptOf, Only, Early
  (* It goes on behind it.                                                 *)
  <1>7. ASSUME NEW label \in Labels \ {"idle", "waiting", "rejected", "running", "inserting",
                                       "publishing", "queued"},
               Goto(e, label), label = "marking" => d \in lostWrite',
               lostWrite \subseteq lostWrite'
        PROVE  KeptOf(d)'
    BY <1>2, <1>3, <1>4, <1>5, <1>7 DEF KeptOf, Only, Early
  <1>8. ASSUME NEW s \in {"PROCESSING", "FAILED"}, TrySetRow(d, s)
        PROVE  /\ docs'[d].status = "COMPLETED" => docs[d].status = "COMPLETED"
               /\ lostWrite \subseteq lostWrite'
    BY <1>8, OtherStatusSpares
  <1> USE DEF Labels, Over, OnThread, Holding
  <1>9. CASE StartThread(e)
    BY <1>0, <1>6, <1>9 DEF StartThread, Early, db
  <1>10. CASE StartTask(e)
    <2>1. CASE SetRow(d, "PROCESSING") /\ Goto(e, "waiting")
      <3>1. docs'[d].status # "COMPLETED" /\ lostWrite' = lostWrite
        BY <2>1 DEF SetRow, TypeOK, Row
      <3> QED BY <1>2, <1>3, <1>4, <1>5, <2>1, <3>1 DEF KeptOf, Only, Early
    <2>2. CASE WriteFails(d) /\ (Goto(e, "done") \/ Goto(e, "marking"))
      BY <1>7, <2>2 DEF WriteFails, TypeOK
    <2> QED BY <1>0, <1>10, <2>1, <2>2 DEF StartTask
  <1>11. CASE Acquire(e)
    BY <1>6, <1>11 DEF Acquire, Early, db
  <1>12. CASE AcquireTimesOut(e)
    BY <1>6, <1>12 DEF AcquireTimesOut, Early, db
  <1>13. CASE RejectBusy(e)
    BY <1>0, <1>6, <1>8, <1>13, ReportTyped DEF RejectBusy, Early
  <1>14. CASE Report(e)
    <2>1. TrySetRow(d, "PROCESSING") /\ UNCHANGED pc
      BY <1>0, <1>14, EarlyReports DEF Report
    <2> QED BY <1>3, <1>8, <2>1, PassesIsKept DEF Passes, Early
  <1>15. CASE StageRaises(e)
    BY <1>6, <1>15 DEF StageRaises, Early, db
  <1>16. CASE NoArtifact(e)
    BY <1>0, <1>6, <1>8, <1>16 DEF NoArtifact, Early
  <1>17. CASE ExplainResults(e)
    BY <1>6, <1>17 DEF ExplainResults, Early, db
  <1>18. CASE InsertResult(e)
    BY <1>6, <1>18 DEF InsertResult, WriteFails, Early
  <1>19. CASE PublishOutput(e)
    <2>1. lostWrite \subseteq lostWrite'
      BY PipelineCovers
    <2> QED BY <1>7, <1>19, <2>1 DEF PublishOutput
  <1>20. CASE ReportCompleted(e)
    <2>1. lostWrite \subseteq lostWrite'
      BY PipelineCovers
    <2> QED BY <1>7, <1>20, <2>1 DEF ReportCompleted
  <1>21. CASE Release(e)
    BY <1>7, <1>21 DEF Release, db
  <1>22. CASE WrapUpTask(e)
    BY <1>0, <1>7, <1>22 DEF WrapUpTask, SetRow, WriteFails, TypeOK
  <1>23. CASE MarkTaskFailed(e)
    BY <1>0, <1>7, <1>8, <1>23 DEF MarkTaskFailed
  <1> QED
    BY <1>9, <1>10, <1>11, <1>12, <1>13, <1>14, <1>15, <1>16, <1>17, <1>18, <1>19, <1>20,
       <1>21, <1>22, <1>23 DEF Pipeline

LEMMA KeptStep ==
    ASSUME PermitInv, KeptInv, [Next]_vars
    PROVE  KeptInv'
  <1> SUFFICES ASSUME NEW d \in Docs, KeptOf(d) PROVE KeptOf(d)'
    BY DEF KeptInv
  <1>0. TypeOK /\ RequestOrder
    BY DEF PermitInv
  <1>1. ASSUME NEW x \in Docs, NEW t \in Templates, CreateDocument(x, t) PROVE KeptOf(d)'
    <2>1. CASE d = x
      <3>1. /\ docs'[d].status = "PROCESSING"
            /\ UNCHANGED <<watch, pc, lostWrite>>
        BY <1>0, <1>1, <2>1 DEF CreateDocument, TypeOK, run
      <3> QED BY <3>1 DEF KeptOf
    <2>2. CASE d # x
      <3>1. /\ docs'[d] = docs[d] /\ handler'[d] = handler[d]
            /\ UNCHANGED <<watch, pc, lostWrite>>
        BY <1>0, <1>1, <2>2 DEF CreateDocument, TypeOK, run
      <3> QED BY <3>1, PassesIsKept DEF Passes, Early
    <2> QED BY <2>1, <2>2
  <1>2. ASSUME NEW x \in Docs, NEW modes \in DispatchSets, Dispatch(x, modes) PROVE KeptOf(d)'
    <2>1. watch'[<<d, "celery">>] = watch[<<d, "celery">>]
      BY <1>2, ExecOf DEF Dispatch, InWeb, Modes
    <2>2. CASE d = x
      <3>1. docs'[d].status # "COMPLETED" /\ handler'[d] # "created"
        BY <1>0, <1>2, <2>2 DEF Dispatch, KeptOf, TypeOK, db
      <3>2. \A m \in Modes : pc'[<<d, m>>] \in {pc[<<d, m>>], "queued"}
        BY <1>2, ExecOf DEF Dispatch
      <3> QED BY <1>2, <2>1, <3>1, <3>2 DEF KeptOf, Dispatch, db
    <2>3. CASE d # x
      <3>1. handler'[d] = handler[d] /\ \A m \in Modes : pc'[<<d, m>>] = pc[<<d, m>>]
        BY <1>0, <1>2, <2>3, ExecOf DEF Dispatch, TypeOK
      <3> QED BY <1>2, <2>1, <3>1, PassesIsKept DEF Passes, Early, Dispatch, db
    <2> QED BY <2>2, <2>3
  <1>3. ASSUME NEW e \in Exec, Pipeline(e) PROVE KeptOf(d)'
    <2>1. PICK m \in Modes : e = <<Doc(e), m>>
      BY ExecOf
    <2>2. CASE d = Doc(e)
      BY <1>0, <1>3, <2>1, <2>2, PipelinePasses
    <2>3. CASE d # Doc(e)
      <3>1. UNCHANGED <<handler, watch>>
        BY <1>3 DEF Pipeline, StartThread, StartTask, Acquire, AcquireTimesOut, RejectBusy,
           Report, StageRaises, NoArtifact, ExplainResults, InsertResult, PublishOutput,
           ReportCompleted, Release, WrapUpTask, MarkTaskFailed
      <3>2. \A n \in Modes : pc'[<<d, n>>] = pc[<<d, n>>]
        <4>1. \A n \in Modes : <<d, n>> \in Exec \ {e}
          BY <2>3, ExecOf
        <4> QED BY <1>0, <1>3, <4>1, PipelineCovers
      <3>3. docs'[d] = docs[d] /\ lostWrite \subseteq lostWrite'
        BY <1>0, <1>3, <2>3, PipelineCovers
      <3> QED BY <3>1, <3>2, <3>3, PassesIsKept DEF Passes, Early
    <2> QED BY <2>2, <2>3
  <1>4. ASSUME NEW e \in Exec, Loop(e) PROVE KeptOf(d)'
    <2>1. \A m \in Modes : \/ pc'[<<d, m>>] = pc[<<d, m>>]
                           \/ pc'[<<d, m>>] = "done" /\ pc[<<d, m>>] # "idle"
      BY <1>0, <1>4, ExecOf DEF Loop, TimesOut, MarkJobFailed, Joined, run, Goto, TypeOK
    <2>2. watch'[<<d, "celery">>] = watch[<<d, "celery">>]
      BY <1>0, <1>4, ExecOf DEF Loop, TimesOut, MarkJobFailed, Joined, KeptOf, TypeOK, Modes
    <2>3. UNCHANGED handler
      BY <1>4 DEF Loop, TimesOut, MarkJobFailed, Joined
    <2>4. CASE TimesOut(e) \/ Joined(e)
      BY <2>1, <2>2, <2>3, <2>4, PassesIsKept DEF TimesOut, Joined, Passes, Early, db
    <2>5. CASE MarkJobFailed(e)
      <3>1. TrySetRow(Doc(e), "FAILED") /\ Doc(e) \in Docs
        BY <2>5, ExecOf DEF MarkJobFailed
      <3> QED BY <1>0, <2>1, <2>2, <2>3, <3>1, OtherStatusSpares, PassesIsKept DEF Passes, Early
    <2> QED BY <1>4, <2>4, <2>5 DEF Loop
  <1>5. ASSUME NEW e \in Exec, WorkerCrashes(e) PROVE KeptOf(d)'
    <2>1. /\ pc'[<<d, "background">>] = pc[<<d, "background">>]
          /\ \/ pc'[<<d, "celery">>] = pc[<<d, "celery">>]
             \/ pc'[<<d, "celery">>] = "queued" /\ pc[<<d, "celery">>] # "idle"
      BY SMTT(20), <1>0, <1>5, ExecOf DEF WorkerCrashes, Goto, TypeOK, InWeb, Live, Over, Modes
    <2> QED BY <1>5, <2>1, PassesIsKept DEF WorkerCrashes, Passes, Early, db, Modes
  <1>6. CASE WebCrashes
    <2>1. \A m \in Modes : \/ pc'[<<d, m>>] = pc[<<d, m>>]
                           \/ pc'[<<d, m>>] = "lost" /\ pc[<<d, m>>] # "idle"
      BY <1>6, ExecOf DEF WebCrashes, Live, Over
    <2>2. watch'[<<d, "celery">>] = "off" /\ handler'[d] # "created"
      BY <1>6, ExecOf DEF WebCrashes, Modes
    <2> QED BY <1>6, <2>1, <2>2, PassesIsKept DEF WebCrashes, Passes, Early, KeptOf, db
  <1>7. CASE Restart
    <2>1. docs'[d].status = "COMPLETED" => docs[d].status = "COMPLETED"
      BY <1>0, <1>7 DEF Restart, Startup, ResetSelect, ResetUpdate, ResetFails, Serve, db,
         TypeOK, Row
    <2>2. UNCHANGED <<handler, pc, watch>> /\ lostWrite \subseteq lostWrite'
      BY <1>7 DEF Restart, Startup, ResetSelect, ResetUpdate, ResetFails, Serve, db, run
    <2> QED BY <2>1, <2>2, PassesIsKept DEF Passes, Early
  <1>8. CASE Idle \/ UNCHANGED vars
    BY <1>8, PassesIsKept DEF Idle, vars, db, run, Passes, Early
  <1> QED
    BY <1>1, <1>2, <1>3, <1>4, <1>5, <1>6, <1>7, <1>8 DEF Next

(* Who may fail a row: a rejection, a missing artifact, a task that could  *)
(* not be wrapped up, a timeout, the startup reset.                        *)
LEMMA WhoFails ==
    ASSUME TypeOK, NEW d \in Docs, docs[d].status = "COMPLETED",
           docs'[d].status = "FAILED", [Next]_vars
    PROVE  \/ \E m \in Modes : pc[<<d, m>>] \in {"rejected", "running", "marking"}
           \/ \E m \in Modes : watch[<<d, m>>] = "fired"
           \/ d \in toFail
  <1>1. ASSUME NEW x \in Docs, NEW t \in Templates, CreateDocument(x, t) PROVE FALSE
    BY <1>1 DEF CreateDocument, TypeOK
  <1>2. ASSUME NEW x \in Docs, NEW modes \in DispatchSets, Dispatch(x, modes) PROVE FALSE
    BY <1>2 DEF Dispatch, db
  <1>3. ASSUME NEW e \in Exec, Pipeline(e)
        PROVE  \E m \in Modes : pc[<<d, m>>] \in {"rejected", "running", "marking"}
    <2>1. d = Doc(e)
      BY <1>3, PipelineCovers
    <2>2. PICK m \in Modes : e = <<d, m>>
      BY <2>1, ExecOf
    <2>3. CASE StartThread(e) \/ StartTask(e) \/ Acquire(e) \/ AcquireTimesOut(e)
      BY <2>1, <2>3 DEF StartThread, StartTask, Acquire, AcquireTimesOut, db, SetRow,
         WriteFails, TypeOK, Row
    <2>4. CASE RejectBusy(e) \/ Report(e) \/ StageRaises(e) \/ NoArtifact(e)
               \/ ExplainResults(e) \/ MarkTaskFailed(e)
      BY <2>2, <2>4 DEF RejectBusy, Report, StageRaises, NoArtifact, ExplainResults, MarkTaskFailed
    <2>5. CASE InsertResult(e) \/ Release(e)
      BY <2>5 DEF InsertResult, Release, WriteFails, db
    <2>6. CASE PublishOutput(e)
      BY <2>1, <2>6 DEF PublishOutput, WriteFails, TypeOK
    <2>7. CASE ReportCompleted(e) \/ WrapUpTask(e)
      BY <2>1, <2>7, ReportTyped DEF ReportCompleted, WrapUpTask, TrySetRow, SetRow,
         WriteFails, TypeOK, Row
    <2> QED BY <1>3, <2>2, <2>3, <2>4, <2>5, <2>6, <2>7 DEF Pipeline
  <1>4. ASSUME NEW e \in Exec, Loop(e) PROVE \E m \in Modes : watch[<<d, m>>] = "fired"
    <2>1. CASE MarkJobFailed(e)
      <3>1. d = Doc(e)
        BY <2>1, ExecOf, OtherRow DEF MarkJobFailed
      <3> QED BY <2>1, <3>1, ExecOf DEF MarkJobFailed
    <2> QED BY <1>4, <2>1 DEF Loop, TimesOut, Joined, db
  <1>5. ASSUME NEW e \in Exec, WorkerCrashes(e) PROVE FALSE
    BY <1>5 DEF WorkerCrashes, db
  <1>6. CASE WebCrashes \/ Idle \/ UNCHANGED vars
    BY <1>6 DEF WebCrashes, Idle, vars, db
  <1>7. CASE Restart
    BY <1>7 DEF Restart, Startup, ResetSelect, ResetUpdate, ResetFails, Serve, db, TypeOK, Row
  <1> QED
    BY <1>1, <1>2, <1>3, <1>4, <1>5, <1>6, <1>7 DEF Next

(* A COMPLETED document that one execution has worked on fails only by a   *)
(* timeout that had fired, or by a reset that had selected it before.      *)
THEOREM CompletedStaysCompleted == Spec => CompletedIsKept
  <1>1. Init => KeptInv
    BY DEF Init, KeptInv, KeptOf, Exec, Modes, Early
  <1>2. PermitInv /\ KeptInv /\ [Next]_vars => KeptInv'
    BY KeptStep
  <1> DEFINE Kept ==
        \A d \in Docs :
           /\ docs[d].status = "COMPLETED" /\ docs'[d].status = "FAILED"
           /\ d \notin lostWrite
           /\ Cardinality({m \in Modes : pc[<<d, m>>] # "idle"}) = 1
           => watch[<<d, "background">>] = "fired" \/ d \in toFail
  <1>3. PermitInv /\ KeptInv /\ [Next]_vars => Kept
    <2> SUFFICES ASSUME PermitInv, KeptInv, [Next]_vars, NEW d \in Docs,
                        docs[d].status = "COMPLETED", docs'[d].status = "FAILED",
                        d \notin lostWrite,
                        Cardinality({m \in Modes : pc[<<d, m>>] # "idle"}) = 1
                 PROVE  watch[<<d, "background">>] = "fired" \/ d \in toFail
      OBVIOUS
    <2>1. KeptOf(d) /\ TypeOK
      BY DEF KeptInv, PermitInv
    <2>2. PICK m \in Modes : \A n \in Modes : pc[<<d, n>>] # "idle" <=> n = m
      <3>1. IsFiniteSet({n \in Modes : pc[<<d, n>>] # "idle"})
        BY ModesFinite, FS_Subset
      <3>2. PICK m : {n \in Modes : pc[<<d, n>>] # "idle"} = {m}
        BY <3>1, FS_Singleton
      <3> QED BY <3>2
    <2>3. Only(d, m)
      BY <2>2 DEF Only
    <2>4. \A n \in Modes : pc[<<d, n>>] \notin {"rejected", "running", "marking"}
      BY <2>1, <2>2, <2>3 DEF KeptOf, Early
    <2> QED BY <2>1, <2>4, WhoFails DEF KeptOf, Modes
  <1>4. PermitInv /\ KeptInv /\ [Next]_vars => [Kept]_vars
    BY <1>3
  <1> QED BY <1>1, <1>2, <1>4, PermitInvariant, PTL DEF Spec, CompletedIsKept

-----------------------------------------------------------------------------
(* The threads of the pool.  One is taken from before the wait for the     *)
(* semaphore to the return of run_pipeline: the timeout does not give it   *)
(* back, a rejection does.                                                 *)

LEMMA BusyStays ==
    ASSUME \A e \in Exec : InWeb(e) => (pc'[e] \in OnThread <=> pc[e] \in OnThread)
    PROVE  Busy' = Busy
  BY DEF Busy, InWeb

LEMMA GotoBusy ==
    ASSUME TypeOK, NEW e \in Exec, NEW label, Goto(e, label),
           InWeb(e) => (label \in OnThread <=> pc[e] \in OnThread)
    PROVE  Busy' = Busy
  <1>1. \A x \in Exec : pc'[x] = IF x = e THEN label ELSE pc[x]
    BY DEF TypeOK, Goto
  <1> QED BY <1>1, BusyStays

(* Who takes a thread: a call still in the queue that no timeout has       *)
(* cancelled; and who gives it back: run_pipeline as it returns.           *)
Taker(e) == /\ e \notin Busy /\ pc[e] = "queued" /\ watch[e] = "armed"
            /\ Cardinality(Busy) < PoolSize
Giver(e) == /\ e \in Busy /\ pc[e] \in {"rejected", "closing"}
            /\ pc'[e] = "returned" /\ watch' = watch

(* The three ways in which a step can move the busy threads.               *)
ThreadTaken  == \E e \in Exec : Taker(e) /\ Busy' = Busy \cup {e}
ThreadGiven  == \E e \in Exec : Giver(e) /\ Busy' = Busy \ {e}
ThreadsWiped == Busy' = {} /\ web' = "down"

LEMMA BusyStep ==
    ASSUME TypeOK, RequestOrder, [Next]_vars
    PROVE  Busy' = Busy \/ ThreadTaken \/ ThreadGiven \/ ThreadsWiped
  <1> USE DEF Holding, OnThread, Over
  <1>1. ASSUME UNCHANGED pc PROVE Busy' = Busy
    BY <1>1, BusyStays
  <1>2. ASSUME NEW d \in Docs, NEW t \in Templates, CreateDocument(d, t) PROVE Busy' = Busy
    BY <1>1, <1>2 DEF CreateDocument, run
  <1>3. ASSUME NEW d \in Docs, NEW modes \in DispatchSets, Dispatch(d, modes)
        PROVE  Busy' = Busy
    <2>1. \A e \in Exec : InWeb(e) /\ e \in {d} \X modes => pc[e] \notin OnThread
      <3> DispatchSets \subseteq SUBSET Modes
        BY DEF DispatchSets, Modes
      <3> QED BY <1>3 DEF Dispatch, RequestOrder
    <2>2. \A e \in Exec : InWeb(e) => (pc'[e] \in OnThread <=> pc[e] \in OnThread)
      BY <1>3, <2>1 DEF Dispatch
    <2> QED BY <2>2, BusyStays
  <1>4. ASSUME NEW e \in Exec, Pipeline(e)
        PROVE  Busy' = Busy \/ ThreadTaken \/ ThreadGiven
    <2>1. CASE StartThread(e)
      <3>1. \A x \in Exec : pc'[x] = IF x = e THEN "waiting" ELSE pc[x]
        BY <2>1 DEF StartThread, Goto, TypeOK
      <3>2. Taker(e) /\ InWeb(e)
        BY <2>1 DEF StartThread, Busy, Taker
      <3>3. Busy' = Busy \cup {e}
        BY <3>1, <3>2 DEF Busy, InWeb, Taker
      <3> QED BY <3>2, <3>3 DEF ThreadTaken
    <2>2. CASE StartTask(e)
      BY <2>2, GotoBusy DEF StartTask
    <2>3. CASE Acquire(e) \/ AcquireTimesOut(e)
      BY <2>3, GotoBusy DEF Acquire, AcquireTimesOut
    <2>4. CASE RejectBusy(e) \/ Release(e)
      <3>1. CASE InWeb(e)
        <4>1. /\ pc[e] \in {"rejected", "closing"} /\ watch' = watch
              /\ \A x \in Exec : pc'[x] = IF x = e THEN "returned" ELSE pc[x]
          BY <2>4, <3>1 DEF RejectBusy, Release, Goto, TypeOK
        <4>2. Giver(e) /\ Busy' = Busy \ {e}
          BY <3>1, <4>1 DEF Giver, Busy, InWeb
        <4> QED BY <4>2 DEF ThreadGiven
      <3>2. CASE ~InWeb(e)
        BY <2>4, <3>2, GotoBusy DEF RejectBusy, Release
      <3> QED BY <3>1, <3>2
    <2>5. CASE Report(e)
      BY <2>5, <1>1 DEF Report
    <2>6. CASE StageRaises(e) \/ NoArtifact(e) \/ ExplainResults(e)
      BY <2>6, GotoBusy DEF StageRaises, NoArtifact, ExplainResults
    <2>7. CASE InsertResult(e) \/ PublishOutput(e) \/ ReportCompleted(e)
      BY <2>7, GotoBusy DEF InsertResult, PublishOutput, ReportCompleted
    <2>8. CASE WrapUpTask(e) \/ MarkTaskFailed(e)
      BY <2>8, GotoBusy DEF WrapUpTask, MarkTaskFailed
    <2> QED
      BY <1>4, <2>1, <2>2, <2>3, <2>4, <2>5, <2>6, <2>7, <2>8 DEF Pipeline
  <1>5. ASSUME NEW e \in Exec, Loop(e) PROVE Busy' = Busy
    <2>1. CASE TimesOut(e)
      BY <2>1, BusyStays DEF TimesOut, TypeOK
    <2>2. CASE MarkJobFailed(e)
      BY <2>2, <1>1 DEF MarkJobFailed, run
    <2>3. CASE Joined(e)
      BY <2>3, GotoBusy DEF Joined
    <2> QED BY <1>5, <2>1, <2>2, <2>3 DEF Loop
  <1>6. ASSUME NEW e \in Exec, WorkerCrashes(e) PROVE Busy' = Busy
    BY <1>6, GotoBusy DEF WorkerCrashes
  <1>7. CASE WebCrashes
    BY <1>7 DEF WebCrashes, ThreadsWiped, Busy, Live
  <1>8. CASE Restart
    BY <1>1, <1>8 DEF Restart, Startup, ResetSelect, ResetUpdate, ResetFails, Serve, run
  <1>9. CASE Idle \/ UNCHANGED vars
    BY <1>1, <1>9 DEF Idle, vars, run
  <1> QED
    BY <1>2, <1>3, <1>4, <1>5, <1>6, <1>7, <1>8, <1>9 DEF Next

(* What a step does to the thread of an execution.                         *)
ThreadMoves ==
    \A e \in Exec :
        /\ e \notin Busy /\ e \in Busy' => Taker(e)
        /\ e \in Busy /\ e \notin Busy' => Giver(e) \/ web' = "down"

LEMMA BusyFinite == IsFiniteSet(Busy) /\ Cardinality(Busy) \in Nat
  BY HoldersFinite, FS_Subset, FS_CardinalityType DEF Busy

LEMMA BusyBounded ==
    ASSUME TypeOK, RequestOrder, [Next]_vars, Cardinality(Busy) <= PoolSize
    PROVE  Cardinality(Busy)' <= PoolSize
  <1>0. PoolSize \in Nat
    BY ConstantsAssumption
  <1>1. CASE Busy' = Busy
    BY <1>1
  <1>2. CASE ThreadTaken
    <2>1. PICK e \in Exec : Taker(e) /\ Busy' = Busy \cup {e}
      BY <1>2 DEF ThreadTaken
    <2>2. Cardinality(Busy \cup {e}) = Cardinality(Busy) + 1
      BY <2>1, BusyFinite, FS_AddElement DEF Taker
    <2>3. Cardinality(Busy) + 1 <= PoolSize
      BY <1>0, <2>1, BusyFinite DEF Taker
    <2> QED BY <2>1, <2>2, <2>3
  <1>3. CASE ThreadGiven
    <2>1. PICK e \in Exec : Giver(e) /\ Busy' = Busy \ {e}
      BY <1>3 DEF ThreadGiven
    <2>2. Cardinality(Busy \ {e}) = Cardinality(Busy) - 1
      BY <2>1, BusyFinite, FS_RemoveElement DEF Giver
    <2>3. Cardinality(Busy) - 1 <= PoolSize
      BY <1>0, BusyFinite
    <2> QED BY <2>1, <2>2, <2>3
  <1>4. CASE ThreadsWiped
    BY <1>0, <1>4, FS_EmptySet DEF ThreadsWiped
  <1> QED BY <1>1, <1>2, <1>3, <1>4, BusyStep

(* The pipelines that run or wait for a permit, those that timed out and   *)
(* go on included, never take more threads than the pool has; one takes a  *)
(* thread only from the queue and before its timeout, and only its return  *)
(* or the death of the process gives the thread back: never the timeout.   *)
THEOREM ThreadsOwned == Spec => [](Cardinality(Busy) <= PoolSize) /\ [][ThreadMoves]_vars
  <1>1. Init => Cardinality(Busy) <= PoolSize
    <2> SUFFICES ASSUME Init PROVE Cardinality(Busy) <= PoolSize
      OBVIOUS
    <2>1. Busy = {}
      BY DEF Init, Busy, OnThread, Holding
    <2> QED BY <2>1, FS_EmptySet, ConstantsAssumption
  <1>2. PermitInv /\ Cardinality(Busy) <= PoolSize /\ [Next]_vars => (Cardinality(Busy) <= PoolSize)'
    BY BusyBounded DEF PermitInv
  <1>3. PermitInv /\ [Next]_vars => [ThreadMoves]_vars
    BY BusyStep DEF PermitInv, ThreadTaken, ThreadGiven, ThreadsWiped, ThreadMoves
  <1> QED BY <1>1, <1>2, <1>3, PermitInvariant, PTL DEF Spec

-----------------------------------------------------------------------------
(* A FAILED verdict of a job that Celery has not touched.  As long as no   *)
(* process has died there is no startup reset, and a thread that may still *)
(* write something else to a FAILED row is one that the timeout has given  *)
(* up and marked.                                                          *)

Writers == {"queued", "waiting", "running", "inserting", "publishing", "finishing"}

FailedOf(d) ==
    /\ pc[<<d, "background">>] = "idle" => watch[<<d, "background">>] = "off"
    /\ docs[d].status = "FAILED" /\ crashes = 0 /\ pc[<<d, "celery">>] = "idle" =>
          \/ watch[<<d, "background">>] = "over"
          \/ pc[<<d, "background">>] \notin Writers /\ handler[d] # "created"

FailedInv ==
    /\ crashes = 0 => web = "up" /\ reset = "off"
    /\ \A d \in Docs : FailedOf(d)

(* FAILED is left by the pipeline of the document only.                    *)
LEMMA WhoUnfails ==
    ASSUME TypeOK, FailedInv, [Next]_vars, crashes = 0, NEW d \in Docs,
           docs[d].status = "FAILED", docs'[d].status # "FAILED"
    PROVE  \E m \in Modes : Pipeline(<<d, m>>)
  <1>1. ASSUME NEW x \in Docs, NEW t \in Templates, CreateDocument(x, t) PROVE FALSE
    BY <1>1 DEF CreateDocument, TypeOK
  <1>2. ASSUME NEW x \in Docs, NEW modes \in DispatchSets, Dispatch(x, modes) PROVE FALSE
    BY <1>2 DEF Dispatch, db
  <1>3. ASSUME NEW e \in Exec, Pipeline(e) PROVE \E m \in Modes : Pipeline(<<d, m>>)
    <2>1. d = Doc(e)
      BY <1>3, PipelineCovers
    <2> QED BY <1>3, <2>1, ExecOf
  <1>4. ASSUME NEW e \in Exec, Loop(e) PROVE FALSE
    <2>1. CASE MarkJobFailed(e)
      BY <2>1, ExecOf DEF MarkJobFailed, TrySetRow, SetRow, WriteFails, TypeOK, Row
    <2> QED BY <1>4, <2>1 DEF Loop, TimesOut, Joined, db
  <1>5. ASSUME NEW e \in Exec, WorkerCrashes(e) PROVE FALSE
    BY <1>5 DEF WorkerCrashes, db
  <1>6. CASE WebCrashes \/ Idle \/ UNCHANGED vars
    BY <1>6 DEF WebCrashes, Idle, vars, db
  <1>7. CASE Restart
    BY <1>7 DEF Restart, Startup, ResetSelect, ResetUpdate, ResetFails, Serve, db, FailedInv
  <1> QED BY <1>1, <1>2, <1>3, <1>4, <1>5, <1>6, <1>7 DEF Next

(* What the own thread of the document leaves behind.                      *)
LEMMA ThreadFails ==
    ASSUME TypeOK, RequestOrder, NEW d \in Docs, FailedOf(d),
           NEW e \in Exec, e = <<d, "background">>, Pipeline(e)
    PROVE  FailedOf(d)'
  <1>0. Doc(e) = d /\ InWeb(e) /\ pc[e] \in Labels
    BY DEF Doc, InWeb, TypeOK
  <1>1. UNCHANGED <<handler, watch, crashes>>
    BY DEF Pipeline, StartThread, StartTask, Acquire, AcquireTimesOut, RejectBusy,
       Report, StageRaises, NoArtifact, ExplainResults, InsertResult, PublishOutput,
       ReportCompleted, Release, WrapUpTask, MarkTaskFailed
  <1>2. pc'[<<d, "celery">>] = pc[<<d, "celery">>]
    BY PipelineCovers, ExecOf DEF Modes
  <1>3. pc[e] # "idle" /\ pc'[e] # "idle"
    BY <1>0 DEF Pipeline, StartThread, StartTask, Acquire, AcquireTimesOut, RejectBusy,
       Report, StageRaises, NoArtifact, ExplainResults, InsertResult, PublishOutput,
       ReportCompleted, Release, WrapUpTask, MarkTaskFailed, Goto, TypeOK
  (* A thread that goes on writing was one that might.                     *)
  <1>4. ASSUME pc'[e] \in Writers, docs'[d].status = "FAILED"
        PROVE  pc[e] \in Writers /\ docs[d].status = "FAILED"
    <2>1. CASE StartThread(e) \/ Acquire(e) \/ ExplainResults(e)
      BY <1>4, <2>1 DEF StartThread, Acquire, ExplainResults, db, Writers
    <2>2. CASE AcquireTimesOut(e) \/ RejectBusy(e) \/ StageRaises(e) \/ NoArtifact(e)
               \/ ReportCompleted(e) \/ Release(e) \/ WrapUpTask(e) \/ MarkTaskFailed(e)
      <3>1. \E label \in {"rejected", "returned", "closing", "wrapping", "done", "marking"} :
               Goto(e, label)
        BY <2>2 DEF AcquireTimesOut, RejectBusy, StageRaises, NoArtifact, ReportCompleted,
           Release, WrapUpTask, MarkTaskFailed
      <3>2. pc'[e] \in {"rejected", "returned", "closing", "wrapping", "done", "marking"}
        BY <3>1 DEF Goto, TypeOK
      <3> QED BY <1>4, <3>2 DEF Writers
    <2>6. CASE StartTask(e)
      BY <1>0, <2>6 DEF StartTask
    <2>3. CASE Report(e)
      <3>1. TrySetRow(d, "PROCESSING") /\ pc[e] = "running"
        BY <1>0, <2>3, EarlyReports DEF Report
      <3> QED BY <1>4, <3>1 DEF TrySetRow, SetRow, WriteFails, TypeOK, Row, Writers
    <2>4. CASE InsertResult(e)
      BY <1>4, <2>4 DEF InsertResult, WriteFails, Writers
    <2>5. CASE PublishOutput(e)
      BY <1>0, <1>4, <2>5 DEF PublishOutput, WriteFails, TypeOK, Row, Writers
    <2> QED BY <2>1, <2>2, <2>3, <2>4, <2>5, <2>6 DEF Pipeline
  <1>5. handler[d] # "created"
    BY <1>3 DEF RequestOrder, Modes
  <1> QED BY <1>1, <1>2, <1>3, <1>4, <1>5 DEF FailedOf

LEMMA FailedStep ==
    ASSUME PermitInv, KeptInv, FailedInv, [Next]_vars
    PROVE  FailedInv'
  <1>0. TypeOK /\ RequestOrder
    BY DEF PermitInv
  <1>a. ASSUME NEW d \in Docs PROVE FailedOf(d) /\ KeptOf(d)
    BY DEF FailedInv, KeptInv
  <1>1. crashes' = 0 => web' = "up" /\ reset' = "off" /\ crashes = 0
    <2>1. CASE WebCrashes \/ \E e \in Exec : WorkerCrashes(e)
      BY <1>0, <2>1 DEF WebCrashes, WorkerCrashes, TypeOK
    <2>2. CASE Restart
      BY <2>2 DEF Restart, Startup, ResetSelect, ResetUpdate, ResetFails, Serve, FailedInv
    <2>3. CASE \E e \in Exec : Pipeline(e) \/ Loop(e)
      BY <2>3 DEF Pipeline, StartThread, StartTask, Acquire, AcquireTimesOut, RejectBusy,
         Report, StageRaises, NoArtifact, ExplainResults, InsertResult, PublishOutput,
         ReportCompleted, Release, WrapUpTask, MarkTaskFailed, Loop, TimesOut, MarkJobFailed,
         Joined, boot, FailedInv
    <2>4. CASE \/ \E d \in Docs, t \in Templates : CreateDocument(d, t)
               \/ \E d \in Docs : \E modes \in DispatchSets : Dispatch(d, modes)
               \/ Idle \/ UNCHANGED vars
      BY <2>4 DEF CreateDocument, Dispatch, Idle, vars, boot, FailedInv
    <2> QED BY <2>1, <2>2, <2>3, <2>4 DEF Next
  <1>2. ASSUME NEW d \in Docs PROVE FailedOf(d)'
    <2>0. FailedOf(d) /\ KeptOf(d)
      BY <1>a
    <2> DEFINE e == <<d, "background">>
               c == <<d, "celery">>
    <2>e. e \in Exec /\ c \in Exec /\ Doc(e) = d /\ InWeb(e) /\ ~InWeb(c) /\ e # c
      BY DEF Exec, Modes, Doc, InWeb
    (* A step that touches nothing of this.                                *)
    <2>s. ASSUME watch'[e] = watch[e], pc'[e] = pc[e], pc'[c] = "idle" => pc[c] = "idle",
                 handler'[d] = "created" => handler[d] = "created",
                 docs'[d].status = "FAILED" => docs[d].status = "FAILED"
          PROVE  FailedOf(d)'
      BY <1>1, <2>0, <2>s DEF FailedOf
    <2> HIDE DEF e, c
    <2>1. ASSUME NEW x \in Docs, NEW t \in Templates, CreateDocument(x, t) PROVE FailedOf(d)'
      <3>1. CASE d = x
        BY <1>0, <2>0, <2>1, <3>1 DEF CreateDocument, TypeOK, FailedOf, run
      <3>2. CASE d # x
        BY <1>0, <2>1, <2>s, <3>2 DEF CreateDocument, TypeOK, run
      <3> QED BY <3>1, <3>2
    <2>2. ASSUME NEW x \in Docs, NEW modes \in DispatchSets, Dispatch(x, modes)
          PROVE  FailedOf(d)'
      <3>1. CASE d = x
        <4>1. pc[e] = "idle" /\ pc[c] = "idle"
          BY <1>0, <2>2, <3>1 DEF Dispatch, RequestOrder, Modes, e, c
        <4>2. docs'[d].status # "FAILED" \/ crashes' # 0
          BY <2>0, <2>2, <3>1, <4>1 DEF FailedOf, Dispatch, db, e, c
        <4>3. pc'[e] = "idle" => watch'[e] = watch[e]
          BY <1>0, <2>2, <2>e, <3>1, <4>1 DEF Dispatch, TypeOK
        <4> QED BY <2>0, <4>1, <4>2, <4>3 DEF FailedOf, e, c
      <3>2. CASE d # x
        <4>1. pc'[e] = pc[e] /\ pc'[c] = pc[c] /\ watch'[e] = watch[e]
          BY <2>2, <2>e, <3>2 DEF Dispatch, e, c
        <4> QED BY <1>0, <2>2, <2>s, <3>2, <4>1 DEF Dispatch, TypeOK, db
      <3> QED BY <3>1, <3>2
    <2>3. ASSUME NEW x \in Exec, Pipeline(x) PROVE FailedOf(d)'
      <3>1. CASE x = e
        BY <1>0, <2>0, <2>3, <2>e, <3>1, ThreadFails DEF e
      <3>2. CASE x = c
        <4>1. pc[c] # "idle" /\ pc'[c] # "idle"
          BY <1>0, <2>3, <3>2 DEF Pipeline, StartThread, StartTask, Acquire, AcquireTimesOut,
             RejectBusy, Report, StageRaises, NoArtifact, ExplainResults, InsertResult,
             PublishOutput, ReportCompleted, Release, WrapUpTask, MarkTaskFailed, Goto, TypeOK
        <4>2. pc'[e] = pc[e]
          BY <1>0, <2>3, <2>e, <3>2, PipelineCovers
        <4>3. UNCHANGED watch
          BY <2>3 DEF Pipeline, StartThread, StartTask, Acquire, AcquireTimesOut, RejectBusy,
             Report, StageRaises, NoArtifact, ExplainResults, InsertResult, PublishOutput,
             ReportCompleted, Release, WrapUpTask, MarkTaskFailed
        <4> QED BY <2>0, <4>1, <4>2, <4>3 DEF FailedOf, e, c
      <3>3. CASE x # e /\ x # c
        <4>1. d # Doc(x)
          BY <3>3, ExecOf DEF Modes, e, c
        <4>2. UNCHANGED <<handler, watch>>
          BY <2>3 DEF Pipeline, StartThread, StartTask, Acquire, AcquireTimesOut, RejectBusy,
             Report, StageRaises, NoArtifact, ExplainResults, InsertResult, PublishOutput,
             ReportCompleted, Release, WrapUpTask, MarkTaskFailed
        <4>3. docs'[d] = docs[d] /\ pc'[e] = pc[e] /\ pc'[c] = pc[c]
          BY <1>0, <2>3, <2>e, <3>3, <4>1, PipelineCovers
        <4> QED BY <2>s, <4>2, <4>3
      <3> QED BY <3>1, <3>2, <3>3
    <2>4. ASSUME NEW x \in Exec, Loop(x) PROVE FailedOf(d)'
      <3>1. CASE TimesOut(x)
        <4>1. CASE x = e
          BY <1>0, <1>1, <2>0, <2>e, <3>1, <4>1
             DEF TimesOut, db, TypeOK, Live, Over, FailedOf, Writers, e, c
        <4>2. CASE x # e
          BY <1>0, <2>e, <2>s, <3>1, <4>2 DEF TimesOut, db, TypeOK, Live, Over
        <4> QED BY <4>1, <4>2
      <3>2. CASE MarkJobFailed(x)
        <4>1. CASE x = e
          <5>1. watch'[e] = "over" /\ pc'[e] = pc[e] /\ watch[e] = "fired"
            BY <1>0, <2>e, <3>2, <4>1 DEF MarkJobFailed, TypeOK, run
          <5> QED BY <2>0, <5>1 DEF FailedOf, e
        <4>2. CASE x # e
          <5>1. x # c
            BY <2>0, <3>2 DEF MarkJobFailed, KeptOf, c
          <5>2. d # Doc(x)
            BY <4>2, <5>1, ExecOf DEF Modes, e, c
          <5>3. docs'[d] = docs[d]
            BY <1>0, <3>2, <5>2, OtherRow, ExecOf DEF MarkJobFailed
          <5> QED BY <1>0, <2>e, <2>s, <3>2, <4>2, <5>3 DEF MarkJobFailed, TypeOK, run
        <4> QED BY <4>1, <4>2
      <3>3. CASE Joined(x)
        <4>1. CASE x = e
          <5>0. Goto(e, "done") /\ UNCHANGED <<handler, docs, crashes>> /\ pc[e] = "returned"
            BY <3>3, <4>1 DEF Joined, db
          <5>1. pc'[e] = "done" /\ pc'[c] = pc[c] /\ UNCHANGED <<handler, docs, crashes>>
            BY <1>0, <2>e, <5>0 DEF Goto, TypeOK
          <5>2. handler[d] # "created"
            BY <1>0, <5>0 DEF RequestOrder, Modes, e
          <5> QED BY <2>0, <5>1, <5>2 DEF FailedOf, Writers, e, c
        <4>2. CASE x # e
          BY <1>0, <2>e, <2>s, <3>3, <4>2 DEF Joined, Goto, TypeOK, db
        <4> QED BY <4>1, <4>2
      <3> QED BY <2>4, <3>1, <3>2, <3>3 DEF Loop
    <2>5. CASE WebCrashes \/ \E x \in Exec : WorkerCrashes(x)
      <3>1. crashes' # 0
        BY <1>0, <2>5 DEF WebCrashes, WorkerCrashes, TypeOK
      <3>2. pc'[e] = "idle" => watch'[e] = "off"
        BY <1>0, <2>0, <2>5, <2>e DEF WebCrashes, WorkerCrashes, Goto, TypeOK, FailedOf, e
      <3> QED BY <3>1, <3>2 DEF FailedOf, e
    <2>6. CASE Restart
      <3>1. UNCHANGED <<watch, pc, handler, crashes>>
        BY <2>6 DEF Restart, Startup, ResetSelect, ResetUpdate, ResetFails, Serve, run
      <3>2. crashes = 0 => UNCHANGED docs
        BY <2>6 DEF Restart, Startup, ResetSelect, ResetUpdate, ResetFails, Serve, db, FailedInv
      <3> QED BY <2>0, <3>1, <3>2 DEF FailedOf
    <2>7. CASE Idle \/ UNCHANGED vars
      BY <2>0, <2>7 DEF Idle, vars, db, run, FailedOf
    <2> QED BY <2>1, <2>2, <2>3, <2>4, <2>5, <2>6, <2>7 DEF Next
  <1> QED BY <1>1, <1>2 DEF FailedInv

(* Once a background job is shown FAILED, and no process has died, it is   *)
(* shown as something else only because its thread went on after the       *)
(* timeout had marked it: no other path of run_pipeline, of the dispatch   *)
(* or of the event loop takes a verdict back.                              *)
FailedIsKept ==
    [][\A d \in Docs :
         /\ docs[d].status = "FAILED" /\ docs'[d].status # "FAILED"
         /\ pc[<<d, "celery">>] = "idle" /\ crashes = 0
         => watch[<<d, "background">>] = "over"]_vars

THEOREM FailedStaysFailed == Spec => FailedIsKept
  <1> DEFINE Kept ==
        \A d \in Docs :
           /\ docs[d].status = "FAILED" /\ docs'[d].status # "FAILED"
           /\ pc[<<d, "celery">>] = "idle" /\ crashes = 0
           => watch[<<d, "background">>] = "over"
  <1>1. Init => KeptInv /\ CompleteInv /\ FailedInv
    <2>1. Init => KeptInv
      BY DEF Init, KeptInv, KeptOf, Exec, Modes, Early
    <2>2. Init => CompleteInv
      BY DEF Init, CompleteInv, CompleteOf, Exec, Modes
    <2>3. Init => FailedInv
      BY DEF Init, FailedInv, FailedOf, Exec, Modes
    <2> QED BY <2>1, <2>2, <2>3
  <1>2. PermitInv /\ KeptInv /\ [Next]_vars => KeptInv'
    BY KeptStep
  <1>3. PermitInv /\ CompleteInv /\ [Next]_vars => CompleteInv'
    BY CompleteStep
  <1>4. PermitInv /\ KeptInv /\ FailedInv /\ [Next]_vars => FailedInv'
    BY FailedStep
  <1>5. PermitInv /\ CompleteInv /\ FailedInv /\ [Next]_vars => Kept
    <2> SUFFICES ASSUME PermitInv, CompleteInv, FailedInv, [Next]_vars, NEW d \in Docs,
                        docs[d].status = "FAILED", docs'[d].status # "FAILED",
                        pc[<<d, "celery">>] = "idle", crashes = 0
                 PROVE  watch[<<d, "background">>] = "over"
      OBVIOUS
    <2> DEFINE e == <<d, "background">>
    <2>0. /\ TypeOK /\ FailedOf(d) /\ CompleteOf(d) /\ e \in Exec /\ Doc(e) = d /\ InWeb(e)
      BY DEF PermitInv, FailedInv, CompleteInv, Exec, Modes, Doc, InWeb
    <2>1. PICK m \in Modes : Pipeline(<<d, m>>)
      BY <2>0, WhoUnfails
    <2>2. m = "background"
      BY <2>1 DEF Modes, Pipeline, StartThread, StartTask, Acquire, AcquireTimesOut, RejectBusy,
         Report, StageRaises, NoArtifact, ExplainResults, InsertResult, PublishOutput,
         ReportCompleted, Release, WrapUpTask, MarkTaskFailed
    <2> HIDE DEF e
    <2>3. Pipeline(e)
      BY <2>1, <2>2 DEF e
    <2>4. pc[e] \in Writers
      <3>1. CASE Report(e) \/ PublishOutput(e) \/ ReportCompleted(e)
        BY <3>1 DEF Report, PublishOutput, ReportCompleted, Writers
      <3>2. CASE RejectBusy(e) \/ NoArtifact(e) \/ MarkTaskFailed(e)
        BY <2>0, <3>2, ReportTyped DEF RejectBusy, NoArtifact, MarkTaskFailed, TrySetRow, SetRow,
           WriteFails, TypeOK, Row
      <3>3. CASE StartTask(e) \/ WrapUpTask(e)
        BY <2>0, <3>3 DEF StartTask, WrapUpTask, CompleteOf, e
      <3>4. CASE StartThread(e) \/ Acquire(e) \/ AcquireTimesOut(e) \/ StageRaises(e)
                 \/ ExplainResults(e) \/ InsertResult(e) \/ Release(e)
        BY <3>4 DEF StartThread, Acquire, AcquireTimesOut, StageRaises, ExplainResults,
           InsertResult, Release, WriteFails, db
      <3> QED BY <2>3, <3>1, <3>2, <3>3, <3>4 DEF Pipeline
    <2> QED BY <2>0, <2>4 DEF FailedOf, e
  <1>6. PermitInv /\ CompleteInv /\ FailedInv /\ [Next]_vars => [Kept]_vars
    BY <1>5
  <1> QED BY <1>1, <1>2, <1>3, <1>4, <1>6, PermitInvariant, PTL DEF Spec, FailedIsKept
=============================================================================
