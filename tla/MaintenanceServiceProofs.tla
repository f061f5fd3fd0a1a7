------------------------ MODULE MaintenanceServiceProofs ------------------------
(* Proofs about MaintenanceService, for every set of ids and clients, every number
   of workers, every choice of faults and any bound on the crashes.

   The safety invariants are not inductive alone.  Inv adds what the code relies on
   without saying so: that the goroutines and requests in flight hold
   copies of rows that exist, marked for the write that is due. *)
EXTENDS MaintenanceService, FiniteSetTheorems, TLAPS

--------------------------------------------------------------------------------
(* The inductive invariant. *)

\* The bulkhead, with the finiteness that makes counting its goroutines sound.
BulkheadInv == IsFiniteSet(Running) /\ Bulkhead

\* No copy anywhere disagrees with itself about being completed.
CopiesConsistent ==
    /\ \A id \in Ids : /\ Consistent(db[id])
                       /\ Consistent(copy[id])
                       /\ Consistent(batch[id])
    /\ \A c \in Clients : Consistent(fin[c].m)

\* Work on a row has begun, and it cannot go back to the queue.
Begun(id) == db[id].status \in {"in_progress", "completed"}

\* What a worker is about to complete is a row it has put in progress.
WorkersHoldRows ==
    \A id \in Ids : worker[id] = "finishing" => Begun(id)

\* The release batch holds rows, and the item whose event is out is marked completed.
BatchHoldsRows ==
    /\ \A id \in Ids : id \in Batch => Stored(id)
    /\ relPc = "update" =>
          \A id \in Ids : IsFirst(id, Batch) => batch[id].status = "completed"

\* A request past its read works on a row, one past its write on a row that began.
HoldsRow(r) ==
    /\ r.pc \in {"update", "publish"} => r.id \in Ids /\ Stored(r.id)
    /\ r.pc = "update" => r.m.status = "completed"
    /\ r.pc = "publish" => Begun(r.id)
    /\ r.reply = "204" =>
          /\ r.id \in Ids
          /\ Begun(r.id)
          /\ SwallowsErrors \/ r.id \in announced

RequestsHoldRows == \A c \in Clients : HoldsRow(fin[c])

Inv ==
    /\ TypeOK
    /\ BulkheadInv
    /\ CopiesConsistent
    /\ WorkersHoldRows
    /\ BatchHoldsRows
    /\ RequestsHoldRows

--------------------------------------------------------------------------------
(* The entity and the table. *)

\* A slot that may be put in progress is a consistent entity afterwards.
LEMMA MarkInProgressKeeps ==
  ASSUME NEW m \in Slot, Consistent(m), CanMarkInProgress(m)
  PROVE  /\ MarkInProgress(m) \in Slot
         /\ Consistent(MarkInProgress(m))
         /\ MarkInProgress(m).status = "in_progress"
  BY DEF Slot, MaintenanceStatus, Consistent, CanMarkInProgress, IsTerminal,
         MarkInProgress

\* Completing makes a slot completed and consistent, also when it is completed already.
LEMMA MarkCompletedKeeps ==
  ASSUME NEW m \in Slot, Consistent(m)
  PROVE  /\ MarkCompleted(m) \in Slot
         /\ Consistent(MarkCompleted(m))
         /\ MarkCompleted(m).status = "completed"
  BY DEF Slot, MaintenanceStatus, Consistent, MarkCompleted

LEMMA NoRowIsConsistent == NoRow \in Slot /\ Consistent(NoRow) /\ NoRow.status = "none"
  BY DEF NoRow, Slot, Consistent

LEMMA NewMaintenanceIsConsistent ==
  /\ NewMaintenance \in Slot
  /\ Consistent(NewMaintenance)
  /\ NewMaintenance.status = "queued"
  BY DEF NewMaintenance, Slot, MaintenanceStatus, Consistent

\* UpdateStatus touches one row, which then says what the copy says or what it said.
LEMMA UpdateStatusEffect ==
  ASSUME StoreTypeOK, NEW id \in Ids, NEW m \in Slot, NEW res,
         UpdateStatus(id, m, res)
  PROVE  /\ StoreTypeOK'
         /\ \A i \in Ids : i # id => db'[i] = db[i]
         /\ db'[id] = IF res = "lost" THEN db[id] ELSE m
         /\ old' = old
         /\ announced' = announced
  <1>1. db' = IF res = "lost" THEN db
              ELSE [db EXCEPT ![id].status = m.status,
                              ![id].completedAt = m.completedAt]
    BY DEF UpdateStatus
  <1>2. UNCHANGED <<old, announced>>
    BY DEF UpdateStatus
  <1>3. db \in [Ids -> Slot]
    BY DEF StoreTypeOK
  <1>4. res # "lost" => db' \in [Ids -> Slot] /\ db'[id] = m
    BY <1>1, <1>3 DEF Slot
  <1> QED
    BY <1>1, <1>2, <1>3, <1>4 DEF StoreTypeOK

\* A row that is written completed or in progress stays a row that began; what had
\* begun or was stored stays so, and rows stay consistent.
LEMMA WriteKeepsRows ==
  ASSUME StoreTypeOK, NEW id \in Ids, NEW m \in Slot, NEW res,
         UpdateStatus(id, m, res),
         m.status \in {"in_progress", "completed"},
         Consistent(m),
         \A i \in Ids : Consistent(db[i])
  PROVE  /\ \A i \in Ids : Consistent(db'[i])
         /\ \A i \in Ids : Stored(i) => Stored(i)'
         /\ \A i \in Ids : Begun(i) => Begun(i)'
         /\ res # "lost" => Begun(id)'
  BY UpdateStatusEffect DEF Consistent, Stored, Begun

--------------------------------------------------------------------------------
(* Counting the goroutines. *)

\* A goroutine that exits gives back the token it holds.
LEMMA ExitKeepsBulkhead ==
  ASSUME TypeOK, BulkheadInv, NEW id \in Running, WorkerExits(id)
  PROVE  BulkheadInv' /\ PoolTypeOK'
  <1>1. Running' = Running \ {id}
    BY DEF WorkerExits, Running, TypeOK, PoolTypeOK, WorkerState
  <1>2. /\ IsFiniteSet(Running \ {id})
        /\ Cardinality(Running \ {id}) = Cardinality(Running) - 1
    BY FS_RemoveElement DEF BulkheadInv
  <1>3. Cardinality(Running \ {id}) \in Nat
    BY <1>2, FS_CardinalityType
  <1>4. semaphore' = Cardinality(Running')
    BY <1>1, <1>2 DEF WorkerExits, BulkheadInv, Bulkhead
  <1>5. semaphore' <= MaxWorkers
    BY <1>1, <1>2, <1>3, <1>4, MaxWorkersIsNat
       DEF WorkerExits, BulkheadInv, Bulkhead, TypeOK, PoolTypeOK
  <1>6. poller' = poller /\ Listed' \subseteq Listed /\ poller # "waiting"
    BY DEF WorkerExits, Listed, BulkheadInv, Bulkhead, TypeOK, PoolTypeOK, WorkerState
  <1>7. PoolTypeOK'
    BY <1>1, <1>3, <1>4, NoRowIsConsistent DEF WorkerExits, TypeOK, PoolTypeOK, WorkerState
  <1> QED
    BY <1>1, <1>2, <1>4, <1>5, <1>6, <1>7 DEF BulkheadInv, Bulkhead

\* Nothing of the pool's state is read by the other components' invariants, and a
\* step of another component leaves the bulkhead as it is.
LEMMA OthersKeepBulkhead ==
  ASSUME BulkheadInv, UNCHANGED poolVars
  PROVE  BulkheadInv'
  BY DEF BulkheadInv, Bulkhead, Running, Listed, poolVars

--------------------------------------------------------------------------------
(* The steps of the pool. *)

LEMMA PoolKeepsTypes ==
  ASSUME Inv, PoolStep
  PROVE  TypeOK' /\ BulkheadInv'
  <1> USE DEF Inv
  <1>1. SUFFICES StoreTypeOK' /\ PoolTypeOK' /\ BulkheadInv'
    BY DEF PoolStep, releaseVars, queueVars, summaryVars, mainVars, TypeOK,
           ReleaseTypeOK, QueueTypeOK, SummaryTypeOK, MainTypeOK
  <1>2. CASE ProcessQueue
    <2>1. Running' = {} /\ semaphore' = 0 /\ poller' = "dispatching"
      BY <1>2 DEF ProcessQueue, Running
    <2>2. BulkheadInv'
      BY <2>1, FS_EmptySet, MaxWorkersIsNat DEF BulkheadInv, Bulkhead
    <2> QED
      BY <1>2, <2>2, NoRowIsConsistent
         DEF ProcessQueue, TypeOK, StoreTypeOK, PoolTypeOK, storeVars, WorkerState
  <1>3. ASSUME NEW id \in Ids, Dispatch(id)
        PROVE  StoreTypeOK' /\ PoolTypeOK' /\ BulkheadInv'
    <2>1. id \in Listed
      BY <1>3 DEF Dispatch, IsFirst
    <2>2. id \notin Running /\ Running' = Running \cup {id}
      BY <1>3, <2>1 DEF Dispatch, Running, Listed, TypeOK, PoolTypeOK
    <2>3. IsFiniteSet(Running') /\ Cardinality(Running') = semaphore + 1
      BY <2>2, FS_AddElement DEF BulkheadInv, Bulkhead
    <2>4. semaphore + 1 \in Nat /\ semaphore + 1 <= MaxWorkers
      BY <1>3, MaxWorkersIsNat DEF Dispatch, TypeOK, PoolTypeOK
    <2> QED
      BY <1>3, <2>3, <2>4 DEF Dispatch, BulkheadInv, Bulkhead, TypeOK, StoreTypeOK,
         PoolTypeOK, storeVars, WorkerState
  <1>4. ASSUME NEW id \in Ids, NEW res \in DbOutcomes, TransitionToInProgress(id, res)
        PROVE  StoreTypeOK' /\ PoolTypeOK' /\ BulkheadInv'
    <2>1. id \in Running
      BY <1>4 DEF TransitionToInProgress, Running
    <2>2. CASE ~ CanMarkInProgress(copy[id])
      BY <1>4, <2>1, <2>2, ExitKeepsBulkhead
         DEF TransitionToInProgress, TypeOK, StoreTypeOK, storeVars
    <2>3. CASE CanMarkInProgress(copy[id])
      <3>1. copy[id] \in Slot /\ Consistent(copy[id])
        BY DEF TypeOK, PoolTypeOK, CopiesConsistent
      <3>2. MarkInProgress(copy[id]) \in Slot
        BY <2>3, <3>1, MarkInProgressKeeps
      <3>3. UpdateStatus(id, MarkInProgress(copy[id]), res)
        BY <1>4, <2>3 DEF TransitionToInProgress
      <3>4. StoreTypeOK'
        BY <3>2, <3>3, UpdateStatusEffect DEF TypeOK
      <3>5. CASE res # "ok" \/ UseMockFallback
        BY <1>4, <2>1, <2>3, <3>4, <3>5, ExitKeepsBulkhead DEF TransitionToInProgress
      <3>6. CASE ~ (res # "ok" \/ UseMockFallback)
        <4>1. /\ worker' = [worker EXCEPT ![id] = "finishing"]
              /\ copy' = [copy EXCEPT ![id] = MarkInProgress(copy[id])]
              /\ UNCHANGED <<poller, semaphore>>
          BY <1>4, <2>3, <3>6 DEF TransitionToInProgress
        <4>2. Running' = Running /\ Listed' = Listed
          BY <2>1, <4>1 DEF Running, Listed, TypeOK, PoolTypeOK
        <4>3. PoolTypeOK'
          BY <3>2, <4>1 DEF TypeOK, PoolTypeOK, WorkerState
        <4> QED
          BY <3>4, <4>1, <4>2, <4>3 DEF BulkheadInv, Bulkhead
      <3> QED
        BY <3>5, <3>6
    <2> QED
      BY <2>2, <2>3
  <1>5. ASSUME NEW id \in Ids, NEW res \in DbOutcomes, TransitionToCompleted(id, res)
        PROVE  StoreTypeOK' /\ PoolTypeOK' /\ BulkheadInv'
    <2>1. id \in Running
      BY <1>5 DEF TransitionToCompleted, Running
    <2>2. MarkCompleted(copy[id]) \in Slot
      BY MarkCompletedKeeps DEF TypeOK, PoolTypeOK, CopiesConsistent
    <2>3. StoreTypeOK'
      <3>1. CASE CanMarkCompleted(copy[id])
        BY <1>5, <2>2, <3>1, UpdateStatusEffect DEF TransitionToCompleted, TypeOK
      <3>2. CASE ~ CanMarkCompleted(copy[id])
        BY <1>5, <3>2 DEF TransitionToCompleted, TypeOK, StoreTypeOK, storeVars
      <3> QED
        BY <3>1, <3>2
    <2> QED
      BY <1>5, <2>1, <2>3, ExitKeepsBulkhead DEF TransitionToCompleted
  <1>6. CASE CycleEnds
    <2>1. Running' = {} /\ Listed' = {}
      BY <1>6 DEF CycleEnds, Running, Listed
    <2>2. Running = {} /\ semaphore' = semaphore
      BY <1>6 DEF CycleEnds, Running
    <2> QED
      BY <1>6, <2>1, <2>2 DEF CycleEnds, BulkheadInv, Bulkhead, TypeOK, StoreTypeOK,
         PoolTypeOK, storeVars
  <1> QED
    BY <1>2, <1>3, <1>4, <1>5, <1>6 DEF PoolStep, PoolNext

--------------------------------------------------------------------------------
(* What the table may do to copies held elsewhere: rows stay, begun rows stay
   begun, and events stay announced. *)

RowsSurvive ==
    /\ \A i \in Ids : Stored(i) => Stored(i)'
    /\ \A i \in Ids : Begun(i) => Begun(i)'
    /\ announced \subseteq announced'

LEMMA WorkersSurvive ==
  ASSUME WorkersHoldRows, RowsSurvive, UNCHANGED poolVars
  PROVE  WorkersHoldRows'
  BY DEF WorkersHoldRows, RowsSurvive, poolVars

LEMMA BatchSurvives ==
  ASSUME BatchHoldsRows, RowsSurvive, UNCHANGED releaseVars
  PROVE  BatchHoldsRows'
  BY DEF BatchHoldsRows, RowsSurvive, releaseVars, Batch, IsFirst

LEMMA RequestsSurvive ==
  ASSUME RequestsHoldRows, RowsSurvive, UNCHANGED queueVars
  PROVE  RequestsHoldRows'
  BY DEF RequestsHoldRows, HoldsRow, RowsSurvive, queueVars, SwallowsErrors

\* A write as services do it, seen from the rows.
LEMMA WriteIsSurvived ==
  ASSUME TypeOK, CopiesConsistent, NEW id \in Ids, NEW m \in Slot, NEW res,
         UpdateStatus(id, m, res),
         m.status \in {"in_progress", "completed"},
         Consistent(m)
  PROVE  /\ StoreTypeOK'
         /\ RowsSurvive
         /\ \A i \in Ids : Consistent(db'[i])
         /\ res # "lost" => Begun(id)'
  <1>1. StoreTypeOK /\ \A i \in Ids : Consistent(db[i])
    BY DEF TypeOK, CopiesConsistent
  <1>2. announced' = announced
    BY DEF UpdateStatus
  <1> QED
    BY <1>1, <1>2, UpdateStatusEffect, WriteKeepsRows DEF RowsSurvive

\* A step that leaves the table alone.
LEMMA ReadIsSurvived ==
  ASSUME UNCHANGED storeVars
  PROVE  RowsSurvive
  BY DEF storeVars, RowsSurvive, Stored, Begun

\* An event is sent: the table is as it was.
LEMMA PublishIsSurvived ==
  ASSUME NEW id \in Ids, NEW res, PublishMaintenanceEvent(id, res), TypeOK
  PROVE  /\ StoreTypeOK'
         /\ db' = db
         /\ RowsSurvive
         /\ PublishAccepted(res) => SwallowsErrors \/ id \in announced'
  BY DEF PublishMaintenanceEvent, PublishAccepted, SwallowsErrors, RowsSurvive, Stored,
         Begun, TypeOK, StoreTypeOK

--------------------------------------------------------------------------------
(* The pool keeps the copies. *)

LEMMA PoolKeepsRows ==
  ASSUME Inv, PoolStep
  PROVE  CopiesConsistent' /\ WorkersHoldRows' /\ RowsSurvive
  <1> USE DEF Inv
  <1>0. UNCHANGED <<batch, fin>>
    BY DEF PoolStep, releaseVars, queueVars
  <1>1. CASE ProcessQueue
    <2>1. RowsSurvive
      BY <1>1, ReadIsSurvived DEF ProcessQueue
    <2>2. CopiesConsistent'
      BY <1>0, <1>1, NoRowIsConsistent DEF ProcessQueue, CopiesConsistent, storeVars
    <2>3. WorkersHoldRows'
      BY <1>1 DEF ProcessQueue, WorkersHoldRows
    <2> QED
      BY <2>1, <2>2, <2>3
  <1>2. ASSUME NEW id \in Ids, Dispatch(id)
        PROVE  CopiesConsistent' /\ WorkersHoldRows' /\ RowsSurvive
    <2>1. RowsSurvive
      BY <1>2, ReadIsSurvived DEF Dispatch
    <2>2. CopiesConsistent'
      BY <1>0, <1>2 DEF Dispatch, CopiesConsistent, storeVars
    <2>3. WorkersHoldRows'
      BY <1>2, <2>1 DEF Dispatch, WorkersHoldRows, RowsSurvive, TypeOK, PoolTypeOK
    <2> QED
      BY <2>1, <2>2, <2>3
  <1>3. ASSUME NEW id \in Ids, NEW res \in DbOutcomes, TransitionToInProgress(id, res)
        PROVE  CopiesConsistent' /\ WorkersHoldRows' /\ RowsSurvive
    <2>1. CASE ~ CanMarkInProgress(copy[id])
      <3>1. WorkerExits(id) /\ UNCHANGED storeVars
        BY <1>3, <2>1 DEF TransitionToInProgress
      <3>2. RowsSurvive
        BY <3>1, ReadIsSurvived
      <3>3. CopiesConsistent'
        BY <1>0, <3>1, NoRowIsConsistent
           DEF WorkerExits, CopiesConsistent, storeVars, TypeOK, PoolTypeOK
      <3>4. WorkersHoldRows'
        BY <3>1, <3>2 DEF WorkerExits, WorkersHoldRows, RowsSurvive, TypeOK, PoolTypeOK
      <3> QED
        BY <3>2, <3>3, <3>4
    <2>2. CASE CanMarkInProgress(copy[id])
      <3> DEFINE m == MarkInProgress(copy[id])
      <3>1. copy[id] \in Slot /\ Consistent(copy[id])
        BY DEF TypeOK, PoolTypeOK, CopiesConsistent
      <3>2. m \in Slot /\ Consistent(m) /\ m.status = "in_progress"
        BY <2>2, <3>1, MarkInProgressKeeps
      <3>3. UpdateStatus(id, m, res)
        BY <1>3, <2>2 DEF TransitionToInProgress
      <3> HIDE DEF m
      <3>4. /\ RowsSurvive
            /\ \A i \in Ids : Consistent(db'[i])
            /\ res # "lost" => Begun(id)'
        BY <3>2, <3>3, WriteIsSurvived
      <3>5. \/ WorkerExits(id)
            \/ /\ res = "ok"
               /\ worker' = [worker EXCEPT ![id] = "finishing"]
               /\ copy' = [copy EXCEPT ![id] = m]
        BY <1>3, <2>2 DEF TransitionToInProgress, m
      <3>6. CopiesConsistent'
        BY <1>0, <3>2, <3>4, <3>5, NoRowIsConsistent
           DEF WorkerExits, CopiesConsistent, TypeOK, PoolTypeOK
      <3>7. WorkersHoldRows'
        BY <3>4, <3>5 DEF WorkerExits, WorkersHoldRows, RowsSurvive, TypeOK, PoolTypeOK
      <3> QED
        BY <3>4, <3>6, <3>7
    <2> QED
      BY <2>1, <2>2
  <1>4. ASSUME NEW id \in Ids, NEW res \in DbOutcomes, TransitionToCompleted(id, res)
        PROVE  CopiesConsistent' /\ WorkersHoldRows' /\ RowsSurvive
    <2> DEFINE m == MarkCompleted(copy[id])
    <2>1. m \in Slot /\ Consistent(m) /\ m.status = "completed"
      BY MarkCompletedKeeps DEF TypeOK, PoolTypeOK, CopiesConsistent
    <2>2. WorkerExits(id) /\ (UpdateStatus(id, m, res) \/ UNCHANGED storeVars)
      BY <1>4 DEF TransitionToCompleted
    <2> HIDE DEF m
    <2>3. RowsSurvive /\ \A i \in Ids : Consistent(db'[i])
      <3>1. CASE UpdateStatus(id, m, res)
        BY <2>1, <3>1, WriteIsSurvived
      <3>2. CASE UNCHANGED storeVars
        BY <3>2, ReadIsSurvived DEF storeVars, CopiesConsistent
      <3> QED
        BY <2>2, <3>1, <3>2
    <2>4. CopiesConsistent'
      BY <1>0, <2>2, <2>3, NoRowIsConsistent
         DEF WorkerExits, CopiesConsistent, TypeOK, PoolTypeOK
    <2>5. WorkersHoldRows'
      BY <2>2, <2>3 DEF WorkerExits, WorkersHoldRows, RowsSurvive, TypeOK, PoolTypeOK
    <2> QED
      BY <2>3, <2>4, <2>5
  <1>5. CASE CycleEnds
    <2>1. RowsSurvive
      BY <1>5, ReadIsSurvived DEF CycleEnds
    <2>2. CopiesConsistent' /\ WorkersHoldRows'
      BY <1>0, <1>5, <2>1
         DEF CycleEnds, CopiesConsistent, WorkersHoldRows, RowsSurvive, storeVars
    <2> QED
      BY <2>1, <2>2
  <1> QED
    BY <1>1, <1>2, <1>3, <1>4, <1>5 DEF PoolStep, PoolNext

LEMMA PoolKeepsInv ==
  ASSUME Inv, PoolStep
  PROVE  Inv'
  <1>1. TypeOK' /\ BulkheadInv'
    BY PoolKeepsTypes
  <1>2. CopiesConsistent' /\ WorkersHoldRows' /\ RowsSurvive
    BY PoolKeepsRows
  <1>3. BatchHoldsRows' /\ RequestsHoldRows'
    BY <1>2, BatchSurvives, RequestsSurvive DEF Inv, PoolStep
  <1> QED
    BY <1>1, <1>2, <1>3 DEF Inv

--------------------------------------------------------------------------------
(* The steps of the release cycle. *)

\* Leaving an item behind keeps the rest of the batch.
LEMMA SkipKeepsBatch ==
  ASSUME TypeOK, CopiesConsistent, BatchHoldsRows, NEW id \in Ids, SkipItem(id), RowsSurvive
  PROVE  /\ ReleaseTypeOK'
         /\ BatchHoldsRows'
         /\ \A i \in Ids : Consistent(batch'[i])
  BY NoRowIsConsistent
     DEF SkipItem, TypeOK, ReleaseTypeOK, CopiesConsistent, BatchHoldsRows, Batch, RowsSurvive

LEMMA ReleaseKeeps ==
  ASSUME Inv, ReleaseStep
  PROVE  /\ StoreTypeOK' /\ ReleaseTypeOK'
         /\ RowsSurvive /\ BatchHoldsRows'
         /\ \A i \in Ids : Consistent(db'[i]) /\ Consistent(batch'[i])
  <1> USE DEF Inv
  <1> DEFINE Goal == /\ StoreTypeOK' /\ ReleaseTypeOK'
                     /\ RowsSurvive /\ BatchHoldsRows'
                     /\ \A i \in Ids : Consistent(db'[i]) /\ Consistent(batch'[i])
  <1>1. CASE ReleaseList
    <2>1. RowsSurvive
      BY <1>1, ReadIsSurvived DEF ReleaseList
    <2>2. StoreTypeOK' /\ \A i \in Ids : Consistent(db'[i])
      BY <1>1 DEF ReleaseList, TypeOK, StoreTypeOK, CopiesConsistent, storeVars
    <2>3. ReleaseTypeOK' /\ \A i \in Ids : Consistent(batch'[i])
      BY <1>1, NoRowIsConsistent
         DEF ReleaseList, TypeOK, StoreTypeOK, ReleaseTypeOK, CopiesConsistent
    <2>4. BatchHoldsRows'
      <3>1. \A i \in Ids : i \in Batch' => i \in ListOldUncompleted
        BY <1>1, NoRowIsConsistent DEF ReleaseList, Batch
      <3> QED
        BY <1>1, <2>1, <3>1 DEF ReleaseList, BatchHoldsRows, ListOldUncompleted, RowsSurvive
    <2> QED
      BY <2>1, <2>2, <2>3, <2>4
  <1>2. ASSUME NEW id \in Ids, NEW res \in SqsOutcomes, ReleasePublish(id, res)
        PROVE  Goal
    <2>1. batch[id] \in Slot /\ Consistent(batch[id])
      BY DEF TypeOK, ReleaseTypeOK, CopiesConsistent
    <2>2. CASE UNCHANGED storeVars /\ SkipItem(id)
      BY <2>2, ReadIsSurvived, SkipKeepsBatch
         DEF TypeOK, StoreTypeOK, CopiesConsistent, storeVars
    <2>3. CASE PublishMaintenanceEvent(id, res) /\ SkipItem(id)
      BY <2>3, PublishIsSurvived, SkipKeepsBatch DEF CopiesConsistent
    <2>4. CASE /\ PublishMaintenanceEvent(id, res)
               /\ IsFirst(id, Batch)
               /\ batch' = [batch EXCEPT ![id] = MarkCompleted(batch[id])]
               /\ relPc' = "update"
      <3> DEFINE m == MarkCompleted(batch[id])
      <3>1. m \in Slot /\ Consistent(m) /\ m.status = "completed"
        BY <2>1, MarkCompletedKeeps
      <3>2. batch' = [batch EXCEPT ![id] = m]
        BY <2>4
      <3> HIDE DEF m
      <3>3. StoreTypeOK' /\ db' = db /\ RowsSurvive
        BY <2>4, PublishIsSurvived
      <3>4. ReleaseTypeOK' /\ \A i \in Ids : Consistent(batch'[i])
        BY <2>4, <3>1, <3>2 DEF TypeOK, ReleaseTypeOK, CopiesConsistent
      <3>5. Batch' = Batch
        BY <2>4, <3>1, <3>2 DEF Batch, IsFirst, TypeOK, ReleaseTypeOK
      <3>6. \A i \in Ids : IsFirst(i, Batch) => i = id
        BY <2>4, IdsAreNumbers DEF IsFirst, Batch
      <3>7. BatchHoldsRows'
        BY <2>4, <3>1, <3>2, <3>3, <3>5, <3>6
           DEF BatchHoldsRows, RowsSurvive, IsFirst, TypeOK, ReleaseTypeOK
      <3> QED
        BY <3>3, <3>4, <3>7 DEF CopiesConsistent
    <2> QED
      BY <1>2, <2>2, <2>3, <2>4 DEF ReleasePublish
  <1>3. ASSUME NEW id \in Ids, NEW res \in DbOutcomes, ReleaseUpdate(id, res)
        PROVE  Goal
    <2>1. batch[id] \in Slot /\ Consistent(batch[id])
      BY DEF TypeOK, ReleaseTypeOK, CopiesConsistent
    <2>2. batch[id].status = "completed"
      BY <1>3 DEF ReleaseUpdate, BatchHoldsRows
    <2>3. StoreTypeOK' /\ RowsSurvive /\ \A i \in Ids : Consistent(db'[i])
      BY <1>3, <2>1, <2>2, WriteIsSurvived DEF ReleaseUpdate
    <2> QED
      BY <1>3, <2>3, SkipKeepsBatch DEF ReleaseUpdate
  <1> QED
    BY <1>1, <1>2, <1>3 DEF ReleaseStep, ReleaseNext

LEMMA ReleaseKeepsInv ==
  ASSUME Inv, ReleaseStep
  PROVE  Inv'
  <1>1. UNCHANGED <<poolVars, queueVars, summaryVars, mainVars>>
    BY DEF ReleaseStep
  <1>2. TypeOK'
    BY <1>1, ReleaseKeeps DEF Inv, TypeOK, PoolTypeOK, QueueTypeOK, SummaryTypeOK,
       MainTypeOK, poolVars, queueVars, summaryVars, mainVars
  <1>3. BulkheadInv'
    BY <1>1, OthersKeepBulkhead DEF Inv
  <1>4. CopiesConsistent'
    BY <1>1, ReleaseKeeps DEF Inv, CopiesConsistent, poolVars, queueVars
  <1>5. WorkersHoldRows' /\ RequestsHoldRows'
    BY <1>1, ReleaseKeeps, WorkersSurvive, RequestsSurvive DEF Inv
  <1> QED
    BY <1>2, <1>3, <1>4, <1>5, ReleaseKeeps DEF Inv

--------------------------------------------------------------------------------
(* The steps of the finalize requests. *)

\* A request that changes keeps what all requests keep, when its own next state does.
LEMMA RequestKeeps ==
  ASSUME Inv, RowsSurvive, NEW c \in Clients, NEW r \in Request,
         fin' = [fin EXCEPT ![c] = r],
         Consistent(r.m),
         HoldsRow(r)'
  PROVE  /\ QueueTypeOK'
         /\ RequestsHoldRows'
         /\ \A d \in Clients : Consistent(fin'[d].m)
  <1>1. fin \in [Clients -> Request]
    BY DEF Inv, TypeOK, QueueTypeOK
  <1>2. \A d \in Clients : fin'[d] = IF d = c THEN r ELSE fin[d]
    BY <1>1
  <1>3. QueueTypeOK'
    BY <1>1 DEF QueueTypeOK
  <1>4. \A d \in Clients : HoldsRow(fin[d])'
    BY <1>2 DEF Inv, RequestsHoldRows, RowsSurvive, HoldsRow, SwallowsErrors
  <1>5. \A d \in Clients : Consistent(fin'[d].m)
    BY <1>2 DEF Inv, CopiesConsistent
  <1> QED
    BY <1>3, <1>4, <1>5 DEF RequestsHoldRows

\* An answer ends the request; only 204 promises anything.
LEMMA RespondKeeps ==
  ASSUME Inv, RowsSurvive, NEW c \in Clients, NEW code \in {"204", "500"},
         Respond(c, code),
         code = "204" =>
            /\ fin[c].pc = "publish"
            /\ SwallowsErrors \/ fin[c].id \in announced'
  PROVE  /\ QueueTypeOK'
         /\ RequestsHoldRows'
         /\ \A d \in Clients : Consistent(fin'[d].m)
  <1>1. fin[c] \in Request /\ HoldsRow(fin[c])
    BY DEF Inv, TypeOK, QueueTypeOK, RequestsHoldRows
  <1>2. PICK id \in Ids \cup {NoId} : id = fin[c].id
    BY <1>1 DEF Request
  <1>3. PICK r \in Request : r = [pc |-> "idle", id |-> id, m |-> NoRow, reply |-> code]
    BY NoRowIsConsistent DEF Request
  <1>4. fin' = [fin EXCEPT ![c] = r]
    BY <1>2, <1>3 DEF Respond
  <1>5. code = "204" => id \in Ids /\ Begun(id)'
    BY <1>1, <1>2 DEF HoldsRow, RowsSurvive
  <1>6. HoldsRow(r)'
    BY <1>2, <1>3, <1>5 DEF HoldsRow, SwallowsErrors
  <1> QED
    BY <1>3, <1>4, <1>6, NoRowIsConsistent, RequestKeeps

LEMMA QueueKeeps ==
  ASSUME Inv, QueueStep
  PROVE  /\ StoreTypeOK' /\ QueueTypeOK'
         /\ RowsSurvive /\ RequestsHoldRows'
         /\ \A i \in Ids : Consistent(db'[i])
         /\ \A d \in Clients : Consistent(fin'[d].m)
  <1> DEFINE Goal == /\ StoreTypeOK' /\ QueueTypeOK'
                     /\ RowsSurvive /\ RequestsHoldRows'
                     /\ \A i \in Ids : Consistent(db'[i])
                     /\ \A d \in Clients : Consistent(fin'[d].m)
  <1>1. ASSUME UNCHANGED storeVars
        PROVE  RowsSurvive /\ StoreTypeOK' /\ \A i \in Ids : Consistent(db'[i])
    BY <1>1, ReadIsSurvived DEF Inv, TypeOK, StoreTypeOK, CopiesConsistent, storeVars
  <1>2. ASSUME NEW c \in Clients, NEW id \in Ids, FinalizeGet(c, id)
        PROVE  Goal
    <2>1. UNCHANGED storeVars
      BY <1>2 DEF FinalizeGet
    <2>2. db[id] \in Slot /\ Consistent(db[id])
      BY DEF Inv, TypeOK, StoreTypeOK, CopiesConsistent
    <2>3. CASE Stored(id) /\ CanMarkCompleted(db[id])
      <3>1. PICK r \in Request : r = [pc |-> "update", id |-> id,
                                      m |-> MarkCompleted(db[id]), reply |-> "none"]
        BY <2>2, MarkCompletedKeeps DEF Request
      <3>2. fin' = [fin EXCEPT ![c] = r]
        BY <1>2, <2>3, <3>1 DEF FinalizeGet
      <3>3. HoldsRow(r)' /\ Consistent(r.m)
        BY <1>1, <2>1, <2>2, <2>3, <3>1, MarkCompletedKeeps DEF HoldsRow, RowsSurvive
      <3> QED
        BY <1>1, <2>1, <3>2, <3>3, RequestKeeps
    <2>4. CASE ~ (Stored(id) /\ CanMarkCompleted(db[id]))
      <3>0. PICK code \in {"404", "500"} : code = IF Stored(id) THEN "500" ELSE "404"
        OBVIOUS
      <3>1. PICK r \in Request : r = [NoRequest EXCEPT !.id = id, !.reply = code]
        BY NoRowIsConsistent DEF Request, NoRequest
      <3>2. fin' = [fin EXCEPT ![c] = r]
        BY <1>2, <2>4, <3>0, <3>1 DEF FinalizeGet
      <3>3. HoldsRow(r)' /\ Consistent(r.m)
        BY <3>1, NoRowIsConsistent DEF HoldsRow, NoRequest
      <3> QED
        BY <1>1, <2>1, <3>2, <3>3, RequestKeeps
    <2> QED
      BY <2>3, <2>4
  <1>3. ASSUME NEW c \in Clients, NEW id \in Ids, FinalizeGetFails(c, id)
        PROVE  Goal
    <2>1. PICK r \in Request : r = [NoRequest EXCEPT !.id = id, !.reply = "500"]
      BY NoRowIsConsistent DEF Request, NoRequest
    <2>2. UNCHANGED storeVars /\ fin' = [fin EXCEPT ![c] = r]
      BY <1>3, <2>1 DEF FinalizeGetFails
    <2>3. HoldsRow(r)' /\ Consistent(r.m)
      BY <2>1, NoRowIsConsistent DEF HoldsRow, NoRequest
    <2> QED
      BY <1>1, <2>2, <2>3, RequestKeeps
  <1>4. ASSUME NEW c \in Clients, NEW res \in DbOutcomes, FinalizeUpdate(c, res)
        PROVE  Goal
    <2>1. fin[c] \in Request /\ HoldsRow(fin[c]) /\ Consistent(fin[c].m)
      BY DEF Inv, TypeOK, QueueTypeOK, RequestsHoldRows, CopiesConsistent
    <2>2. PICK id \in Ids : id = fin[c].id
      BY <1>4, <2>1 DEF FinalizeUpdate, HoldsRow
    <2>3. fin[c].m \in Slot /\ fin[c].m.status = "completed"
      BY <1>4, <2>1 DEF FinalizeUpdate, HoldsRow, Request
    <2>4. UpdateStatus(id, fin[c].m, res)
      BY <1>4, <2>2 DEF FinalizeUpdate
    <2>5. /\ StoreTypeOK' /\ RowsSurvive
          /\ \A i \in Ids : Consistent(db'[i])
          /\ res # "lost" => Begun(id)'
      BY <2>1, <2>3, <2>4, WriteIsSurvived DEF Inv
    <2>6. CASE res = "ok"
      <3>1. PICK r \in Request : r = [fin[c] EXCEPT !.pc = "publish"]
        BY <2>1 DEF Request
      <3>2. fin' = [fin EXCEPT ![c] = r]
        BY <1>4, <2>6, <3>1 DEF FinalizeUpdate
      <3>3. /\ r.pc = "publish" /\ r.id = id
            /\ r.m = fin[c].m /\ r.reply = fin[c].reply
        BY <2>1, <2>2, <3>1 DEF Request
      <3>4. r.reply = "204" => SwallowsErrors \/ id \in announced'
        BY <2>1, <2>2, <2>5, <3>3 DEF HoldsRow, RowsSurvive
      <3>5. HoldsRow(r)' /\ Consistent(r.m)
        BY <2>1, <2>5, <2>6, <3>3, <3>4 DEF HoldsRow, Begun, Stored, SwallowsErrors
      <3> QED
        BY <2>5, <3>2, <3>5, RequestKeeps
    <2>7. CASE res # "ok"
      BY <1>4, <2>5, <2>7, RespondKeeps DEF FinalizeUpdate
    <2> QED
      BY <2>6, <2>7
  <1>5. ASSUME NEW c \in Clients, NEW res \in SqsOutcomes, FinalizePublish(c, res)
        PROVE  Goal
    <2>1. HoldsRow(fin[c])
      BY DEF Inv, RequestsHoldRows
    <2>2. PICK id \in Ids : id = fin[c].id
      BY <1>5, <2>1 DEF FinalizePublish, HoldsRow
    <2>3. PublishMaintenanceEvent(id, res)
      BY <1>5, <2>2 DEF FinalizePublish
    <2>4. /\ StoreTypeOK' /\ db' = db /\ RowsSurvive
          /\ PublishAccepted(res) => SwallowsErrors \/ id \in announced'
      BY <2>3, PublishIsSurvived DEF Inv
    <2>5. PICK code \in {"204", "500"} :
             code = IF PublishAccepted(res) THEN "204" ELSE "500"
      OBVIOUS
    <2>6. Respond(c, code) /\ fin[c].pc = "publish"
      BY <1>5, <2>5 DEF FinalizePublish
    <2>7. code = "204" => SwallowsErrors \/ fin[c].id \in announced'
      BY <2>2, <2>4, <2>5
    <2> QED
      BY <2>4, <2>6, <2>7, RespondKeeps DEF Inv, CopiesConsistent
  <1> QED
    BY <1>2, <1>3, <1>4, <1>5 DEF QueueStep, FinalizeBegins, FinalizeGoesOn

LEMMA QueueKeepsInv ==
  ASSUME Inv, QueueStep
  PROVE  Inv'
  <1>1. UNCHANGED <<poolVars, releaseVars, summaryVars, mainVars>>
    BY DEF QueueStep
  <1>2. TypeOK'
    BY <1>1, QueueKeeps
       DEF Inv, TypeOK, PoolTypeOK, ReleaseTypeOK, SummaryTypeOK, MainTypeOK,
           poolVars, releaseVars, summaryVars, mainVars
  <1>3. BulkheadInv'
    BY <1>1, OthersKeepBulkhead DEF Inv
  <1>4. CopiesConsistent'
    BY <1>1, QueueKeeps DEF Inv, CopiesConsistent, poolVars, releaseVars
  <1>5. WorkersHoldRows' /\ BatchHoldsRows'
    BY <1>1, QueueKeeps, WorkersSurvive, BatchSurvives DEF Inv
  <1> QED
    BY <1>2, <1>3, <1>4, <1>5, QueueKeeps DEF Inv

--------------------------------------------------------------------------------
(* The environment. *)

LEMMA EnvironmentKeepsRows ==
  ASSUME Inv, EnvironmentStep
  PROVE  StoreTypeOK' /\ RowsSurvive /\ \A i \in Ids : Consistent(db'[i])
  <1>1. ASSUME NEW id \in Ids, Create(id)
        PROVE  StoreTypeOK' /\ RowsSurvive /\ \A i \in Ids : Consistent(db'[i])
    <2>1. ~ Stored(id) /\ ~ Begun(id)
      BY <1>1 DEF Create, IsFirst, Stored, Begun
    <2>2. db \in [Ids -> Slot] /\ db' = [db EXCEPT ![id] = NewMaintenance]
      BY <1>1 DEF Create, Inv, TypeOK, StoreTypeOK
    <2>3. \A i \in Ids : db'[i] = IF i = id THEN NewMaintenance ELSE db[i]
      BY <2>2
    <2>4. UNCHANGED <<old, announced>>
      BY <1>1 DEF Create
    <2>5. StoreTypeOK'
      BY <2>2, <2>4, NewMaintenanceIsConsistent DEF Inv, TypeOK, StoreTypeOK
    <2>6. RowsSurvive
      BY <2>1, <2>3, <2>4 DEF RowsSurvive, Stored, Begun
    <2> QED
      BY <2>3, <2>5, <2>6, NewMaintenanceIsConsistent DEF Inv, CopiesConsistent
  <1>2. ASSUME NEW id \in Ids, Age(id)
        PROVE  StoreTypeOK' /\ RowsSurvive /\ \A i \in Ids : Consistent(db'[i])
    BY <1>2 DEF Age, RowsSurvive, Stored, Begun, Inv, TypeOK, StoreTypeOK, CopiesConsistent
  <1> QED
    BY <1>1, <1>2 DEF EnvironmentStep

LEMMA EnvironmentKeepsInv ==
  ASSUME Inv, EnvironmentStep
  PROVE  Inv'
  <1>1. UNCHANGED <<poolVars, releaseVars, queueVars, summaryVars, mainVars>>
    BY DEF EnvironmentStep
  <1>2. StoreTypeOK' /\ RowsSurvive /\ \A i \in Ids : Consistent(db'[i])
    BY EnvironmentKeepsRows
  <1>3. TypeOK'
    BY <1>1, <1>2 DEF Inv, TypeOK, PoolTypeOK, ReleaseTypeOK, QueueTypeOK, SummaryTypeOK,
       MainTypeOK, poolVars, releaseVars, queueVars, summaryVars, mainVars
  <1>4. BulkheadInv'
    BY <1>1, OthersKeepBulkhead DEF Inv
  <1>5. CopiesConsistent'
    BY <1>1, <1>2 DEF Inv, CopiesConsistent, poolVars, releaseVars, queueVars
  <1>6. WorkersHoldRows' /\ BatchHoldsRows' /\ RequestsHoldRows'
    BY <1>1, <1>2, WorkersSurvive, BatchSurvives, RequestsSurvive DEF Inv
  <1> QED
    BY <1>3, <1>4, <1>5, <1>6 DEF Inv

--------------------------------------------------------------------------------
(* The summary requests, which write nothing, and the ends of the process. *)

\* A step of one variable group that the invariant reads only the types of.
LEMMA NothingElseMoves ==
  ASSUME Inv, UNCHANGED <<storeVars, poolVars, releaseVars, queueVars>>,
         SummaryTypeOK', MainTypeOK'
  PROVE  Inv'
  <1>1. RowsSurvive
    BY ReadIsSurvived
  <1>2. TypeOK'
    BY DEF Inv, TypeOK, StoreTypeOK, PoolTypeOK, ReleaseTypeOK, QueueTypeOK,
           storeVars, poolVars, releaseVars, queueVars
  <1>3. BulkheadInv'
    BY OthersKeepBulkhead DEF Inv
  <1>4. CopiesConsistent'
    BY DEF Inv, CopiesConsistent, storeVars, poolVars, releaseVars, queueVars
  <1> QED
    BY <1>1, <1>2, <1>3, <1>4, WorkersSurvive, BatchSurvives, RequestsSurvive DEF Inv

LEMMA SummaryKeepsInv ==
  ASSUME Inv, SummaryStep
  PROVE  Inv'
  <1>1. MainTypeOK'
    BY DEF SummaryStep, mainVars, Inv, TypeOK, MainTypeOK
  <1>2. UNCHANGED <<storeVars, poolVars, releaseVars, queueVars>>
    BY DEF SummaryStep, SummaryReadQueued, SummaryGoesOn, SummaryReadInProgress
  <1>3. SummaryTypeOK'
    <2>1. ASSUME NEW r \in Readers, NEW q \in SummaryRequest,
                 summary' = [summary EXCEPT ![r] = q]
          PROVE  SummaryTypeOK'
      BY <2>1 DEF Inv, TypeOK, SummaryTypeOK
    <2>2. NoSummary \in SummaryRequest
      BY DEF NoSummary, SummaryRequest
    <2>3. [pc |-> "secondRead", rows |-> ListByStatus(Sections.firstRead),
           known |-> Uncompleted] \in SummaryRequest
      BY DEF SummaryRequest, ListByStatus, Uncompleted
    <2> QED
      BY <2>1, <2>2, <2>3
         DEF SummaryStep, SummaryReadQueued, SummaryGoesOn, SummaryReadInProgress
  <1> QED
    BY <1>1, <1>2, <1>3, NothingElseMoves

LEMMA GoneKeepsInv ==
  ASSUME Inv, ProcessIsGone, crashes' \in 0 .. MaxCrashes, stops' \in 0 .. MaxStops
  PROVE  Inv'
  <1>1. RowsSurvive
    BY ReadIsSurvived DEF ProcessIsGone
  <1>2. \A c \in Clients : /\ fin'[c] \in Request /\ fin'[c].pc = "idle"
                           /\ fin'[c].id = fin[c].id /\ fin'[c].reply = fin[c].reply
                           /\ fin'[c].m = NoRow
    <2> TAKE c \in Clients
    <2>1. PICK r \in Request : r = fin[c]
      BY DEF Inv, TypeOK, QueueTypeOK
    <2>2. fin'[c] = [r EXCEPT !.pc = "idle", !.m = NoRow]
      BY <2>1 DEF ProcessIsGone
    <2>3. PICK q : q = fin'[c]
      OBVIOUS
    <2>4. /\ q \in Request /\ q.pc = "idle"
          /\ q.id = r.id /\ q.reply = r.reply /\ q.m = NoRow
      BY <2>2, <2>3, NoRowIsConsistent DEF Request
    <2> QED
      BY <2>1, <2>3, <2>4
  <1>3. TypeOK'
    <2>1. MainTypeOK'
      BY DEF ProcessIsGone, MainTypeOK, Phase
    <2>2. fin' \in [Clients -> Request]
      BY <1>2 DEF ProcessIsGone
    <2>3. SummaryTypeOK'
      BY DEF ProcessIsGone, SummaryTypeOK, NoSummary, SummaryRequest
    <2> QED
      BY <2>1, <2>2, <2>3, NoRowIsConsistent
         DEF Inv, TypeOK, StoreTypeOK, PoolTypeOK, ReleaseTypeOK, QueueTypeOK,
             ProcessIsGone, storeVars, WorkerState
  <1>4. BulkheadInv'
    <2>1. Running' = {} /\ Listed' = {} /\ semaphore' = 0
      BY DEF ProcessIsGone, Running, Listed
    <2> QED
      BY <2>1, FS_EmptySet, MaxWorkersIsNat DEF BulkheadInv, Bulkhead
  <1>5. CopiesConsistent'
    BY <1>2, NoRowIsConsistent DEF Inv, ProcessIsGone, CopiesConsistent, storeVars
  <1>6. WorkersHoldRows' /\ BatchHoldsRows'
    BY NoRowIsConsistent DEF ProcessIsGone, WorkersHoldRows, BatchHoldsRows, Batch
  <1>7. RequestsHoldRows'
    BY <1>1, <1>2 DEF Inv, RequestsHoldRows, HoldsRow, RowsSurvive, SwallowsErrors
  <1> QED
    BY <1>3, <1>4, <1>5, <1>6, <1>7 DEF Inv

LEMMA CrashKeepsInv ==
  ASSUME Inv, Crash
  PROVE  Inv'
  <1>1. crashes \in 0 .. MaxCrashes /\ crashes < MaxCrashes /\ crashes' = crashes + 1
    BY DEF Inv, TypeOK, MainTypeOK, Crash
  <1>2. crashes' \in 0 .. MaxCrashes
    BY <1>1, BoundsAreNat
  <1>3. stops' \in 0 .. MaxStops
    BY DEF Inv, TypeOK, MainTypeOK, Crash
  <1> QED
    BY <1>2, <1>3, GoneKeepsInv DEF Crash

LEMMA ShutdownKeepsInv ==
  ASSUME Inv, ShutdownStep
  PROVE  Inv'
  <1>1. /\ phase \in Phase
        /\ crashes \in 0 .. MaxCrashes
        /\ stops \in 0 .. MaxStops
    BY DEF Inv, TypeOK, MainTypeOK
  <1>2. ASSUME UNCHANGED summaryVars
        PROVE  SummaryTypeOK'
    BY <1>2 DEF summaryVars, Inv, TypeOK, SummaryTypeOK
  <1>3. CASE Signal
    <2>1. stops < MaxStops /\ stops' = stops + 1
      BY <1>3 DEF Signal
    <2>2. stops' \in 0 .. MaxStops
      BY <1>1, <2>1, BoundsAreNat
    <2>3. MainTypeOK'
      BY <1>1, <1>3, <2>2 DEF Signal, MainTypeOK, Phase
    <2> QED
      BY <1>2, <1>3, <2>3, NothingElseMoves DEF Signal
  <1>4. CASE Drained \/ ReleaseWorkerStopped
    <2>1. MainTypeOK'
      BY <1>1, <1>4 DEF Drained, ReleaseWorkerStopped, MainTypeOK, Phase
    <2> QED
      BY <1>2, <1>4, <2>1, NothingElseMoves DEF Drained, ReleaseWorkerStopped
  <1>5. CASE ReleaseWorkerQuits
    <2>1. /\ UNCHANGED <<storeVars, poolVars, queueVars, summaryVars, mainVars>>
          /\ relPc' = "stopped" /\ batch' = batch
      BY <1>5 DEF ReleaseWorkerQuits, ReleaseQuits
    <2>2. RowsSurvive
      BY <2>1, ReadIsSurvived
    <2>3. TypeOK'
      BY <2>1 DEF Inv, TypeOK, StoreTypeOK, PoolTypeOK, ReleaseTypeOK, QueueTypeOK,
         SummaryTypeOK, MainTypeOK, storeVars, poolVars, queueVars, summaryVars, mainVars
    <2>4. BulkheadInv'
      BY <2>1, OthersKeepBulkhead DEF Inv
    <2>5. CopiesConsistent'
      BY <2>1 DEF Inv, CopiesConsistent, storeVars, poolVars, queueVars
    <2>6. BatchHoldsRows'
      BY <2>1, <2>2 DEF Inv, BatchHoldsRows, Batch, RowsSurvive
    <2>7. WorkersHoldRows' /\ RequestsHoldRows'
      BY <2>1, <2>2, WorkersSurvive, RequestsSurvive DEF Inv
    <2> QED
      BY <2>3, <2>4, <2>5, <2>6, <2>7 DEF Inv
  <1>6. CASE Exit
    BY <1>1, <1>6, GoneKeepsInv DEF Exit
  <1> QED
    BY <1>3, <1>4, <1>5, <1>6 DEF ShutdownStep

--------------------------------------------------------------------------------
(* The invariant holds. *)

LEMMA InvHoldsInitially == Init => Inv
  <1> SUFFICES ASSUME Init PROVE Inv
    OBVIOUS
  <1> USE NoRowIsConsistent, MaxWorkersIsNat, BoundsAreNat
      DEF Init, StoreInit, PoolInit, ReleaseInit, QueueInit
  <1>1. TypeOK
    BY DEF TypeOK, StoreTypeOK, PoolTypeOK, ReleaseTypeOK, QueueTypeOK, WorkerState,
           NoRequest, Request, SummaryTypeOK, SummaryInit, NoSummary, SummaryRequest,
           MainTypeOK, Phase
  <1>2. BulkheadInv
    <2>1. Running = {} /\ Listed = {}
      BY DEF Running, Listed
    <2> QED
      BY <2>1, FS_EmptySet DEF BulkheadInv, Bulkhead
  <1>3. CopiesConsistent
    BY DEF CopiesConsistent, NoRequest
  <1>4. WorkersHoldRows /\ BatchHoldsRows
    BY DEF WorkersHoldRows, BatchHoldsRows, Batch
  <1>5. RequestsHoldRows
    BY DEF RequestsHoldRows, HoldsRow, NoRequest
  <1> QED
    BY <1>1, <1>2, <1>3, <1>4, <1>5 DEF Inv

LEMMA InvIsInductive == Inv /\ [Next]_vars => Inv'
  <1> SUFFICES ASSUME Inv, [Next]_vars PROVE Inv'
    OBVIOUS
  <1>1. CASE EnvironmentStep
    BY <1>1, EnvironmentKeepsInv
  <1>2. CASE PoolStep
    BY <1>2, PoolKeepsInv
  <1>3. CASE ReleaseStep
    BY <1>3, ReleaseKeepsInv
  <1>4. CASE QueueStep
    BY <1>4, QueueKeepsInv
  <1>5. CASE Crash
    BY <1>5, CrashKeepsInv
  <1>6. CASE SummaryStep
    BY <1>6, SummaryKeepsInv
  <1>7. CASE ShutdownStep
    BY <1>7, ShutdownKeepsInv
  <1>8. CASE UNCHANGED vars
    <2>1. UNCHANGED <<storeVars, poolVars, releaseVars, queueVars, summaryVars, mainVars>>
      BY <1>8 DEF vars
    <2>2. SummaryTypeOK' /\ MainTypeOK'
      BY <2>1 DEF Inv, TypeOK, SummaryTypeOK, MainTypeOK, summaryVars, mainVars
    <2> QED
      BY <2>1, <2>2, NothingElseMoves
  <1> QED
    BY <1>1, <1>2, <1>3, <1>4, <1>5, <1>6, <1>7, <1>8 DEF Next

LEMMA InvAlways == Spec => []Inv
  BY InvHoldsInitially, InvIsInductive, PTL DEF Spec

--------------------------------------------------------------------------------
(* What follows from it. *)

\* Every variable keeps its type; that the token count never drops below zero rests
\* on the bulkhead (worker_pool.go, the deferred release of the semaphore).
THEOREM TypesAreCorrect == Spec => []TypeOK
  <1>1. Inv => TypeOK
    BY DEF Inv
  <1> QED
    BY <1>1, InvAlways, PTL

\* The bulkhead of worker_pool.go holds for any number of rows and workers.
THEOREM BulkheadHolds == Spec => []Bulkhead
  <1>1. Inv => Bulkhead
    BY DEF Inv, BulkheadInv
  <1> QED
    BY <1>1, InvAlways, PTL

\* With at least one worker no cycle of the pool ever deadlocks on its semaphore, for any
\* number of rows and whatever writes fail.
THEOREM PoolNeverDeadlocks ==
  ASSUME MaxWorkers > 0
  PROVE  Spec => []PoolIsNeverStuck
  <1>1. Inv => PoolIsNeverStuck
    <2> SUFFICES ASSUME Inv, Running = {} PROVE semaphore < MaxWorkers
      BY DEF PoolIsNeverStuck
    <2>1. semaphore = 0
      BY FS_EmptySet DEF Inv, BulkheadInv, Bulkhead
    <2> QED
      BY <2>1, MaxWorkersIsNat
  <1> QED
    BY <1>1, InvAlways, PTL

\* Nothing but the end of the process moves the pool once it has rows to start.
StuckUntilTheEnd == [][Listed # {} => UNCHANGED poolVars \/ Crash \/ Exit]_vars

\* The assumption is needed, and the configuration does not check it: with MAX_WORKERS=0
\* the first cycle that finds a queued row blocks the polling goroutine for good
\* (processQueue on an unbuffered channel, config.go).
THEOREM PoolWithoutWorkersIsStuck ==
  ASSUME MaxWorkers = 0
  PROVE  Spec => StuckUntilTheEnd
  <1>1. Inv /\ [Next]_vars => [Listed # {} => UNCHANGED poolVars \/ Crash \/ Exit]_vars
    <2> SUFFICES ASSUME Inv, Next, Listed # {}, ~ Crash, ~ Exit PROVE UNCHANGED poolVars
      OBVIOUS
    <2>1. semaphore = 0 /\ Running = {} /\ poller # "waiting"
      <3>1. semaphore = 0 /\ IsFiniteSet(Running) /\ Cardinality(Running) = 0
        BY MaxWorkersIsNat DEF Inv, BulkheadInv, Bulkhead, TypeOK, PoolTypeOK
      <3> QED
        BY <3>1, FS_EmptySet DEF Inv, BulkheadInv, Bulkhead
    <2>2. ~ PoolNext
      BY <2>1 DEF PoolNext, ProcessQueue, Dispatch, TransitionToInProgress,
                  TransitionToCompleted, CycleEnds, Listed, Running
    <2>3. CASE EnvironmentStep \/ ReleaseStep \/ QueueStep \/ SummaryStep
      BY <2>3 DEF EnvironmentStep, ReleaseStep, QueueStep, SummaryStep
    <2>4. CASE ShutdownStep
      BY <2>4 DEF ShutdownStep, Signal, Drained, ReleaseWorkerQuits, ReleaseWorkerStopped
    <2> QED
      BY <2>2, <2>3, <2>4 DEF Next, PoolStep
  <1> QED
    BY <1>1, InvAlways, PTL DEF Spec, StuckUntilTheEnd

\* completed_at is set on exactly the completed rows, however many workers, cycles
\* and requests write the same row from copies of different age.
THEOREM CompletedAtIsRight == Spec => []CompletedAtMatchesStatus
  <1>1. Inv => CompletedAtMatchesStatus
    BY DEF Inv, CopiesConsistent, CompletedAtMatchesStatus
  <1> QED
    BY <1>1, InvAlways, PTL

\* What a 204 of the finalize endpoint promises is kept for ever after.
THEOREM NoContentIsKept == Spec => []NoContentMeansDone
  <1>1. Inv => NoContentMeansDone
    BY DEF Inv, RequestsHoldRows, HoldsRow, Begun, NoContentMeansDone
  <1> QED
    BY <1>1, InvAlways, PTL
================================================================================
