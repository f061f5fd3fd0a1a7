----------------------------- MODULE ShutdownProofs -----------------------------
(* Proofs about the orderly shutdown and the queue summary of MaintenanceService:
   what main waits for is not cut off, and what is under maintenance is shown. *)
EXTENDS MaintenanceServiceProofs

\* The order of main's calls, and what each of them has waited for.
Orderly ==
    /\ relPc \in {"waiting", "stopped"} => Batch = {}
    /\ phase \in {"stopping", "closing"} => RequestsAreDone
    /\ phase = "closing" => relPc = "stopped"

\* What was uncompleted at the first read and is not on its list was in progress then,
\* and does not go back to the queue.
SummaryHasSeen ==
    \A r \in Readers :
       summary[r].pc = "secondRead" =>
          \A id \in summary[r].known : id \in summary[r].rows \/ Begun(id)

OInv == Inv /\ Orderly /\ SummaryHasSeen

--------------------------------------------------------------------------------
\* No step of the service takes a row away or puts it back in the queue.
LEMMA RowsAlwaysSurvive ==
  ASSUME Inv, [Next]_vars
  PROVE  RowsSurvive
  <1>1. CASE EnvironmentStep
    BY <1>1, EnvironmentKeepsRows
  <1>2. CASE PoolStep
    BY <1>2, PoolKeepsRows
  <1>3. CASE ReleaseStep
    BY <1>3, ReleaseKeeps
  <1>4. CASE QueueStep
    BY <1>4, QueueKeeps
  <1>5. CASE SummaryStep
    BY <1>5, ReadIsSurvived
       DEF SummaryStep, SummaryReadQueued, SummaryGoesOn, SummaryReadInProgress
  <1>6. CASE ShutdownStep
    <2>1. UNCHANGED storeVars
      BY <1>6 DEF ShutdownStep, Signal, Drained, ReleaseWorkerQuits, ReleaseQuits,
         ReleaseWorkerStopped, Exit, ProcessIsGone
    <2> QED
      BY <2>1, ReadIsSurvived
  <1>7. CASE Crash
    BY <1>7, ReadIsSurvived DEF Crash, ProcessIsGone
  <1>8. CASE UNCHANGED vars
    BY <1>8, ReadIsSurvived DEF vars
  <1> QED
    BY <1>1, <1>2, <1>3, <1>4, <1>5, <1>6, <1>7, <1>8 DEF Next

--------------------------------------------------------------------------------
(* The shutdown. *)

\* Where main and the release cycle are not moved, requests that are done stay done.
LEMMA OthersKeepOrder ==
  ASSUME Orderly, UNCHANGED <<releaseVars, phase>>,
         phase \in {"stopping", "closing"} => RequestsAreDone'
  PROVE  Orderly'
  BY DEF Orderly, releaseVars, Batch

LEMMA ReleaseKeepsOrder ==
  ASSUME Inv, Orderly, ReleaseStep
  PROVE  Orderly'
  <1>1. phase' = phase /\ (RequestsAreDone => RequestsAreDone')
    BY DEF ReleaseStep, queueVars, summaryVars, mainVars, RequestsAreDone
  <1>2. relPc # "stopped"
    BY DEF ReleaseStep, ReleaseNext, ReleaseList, ReleasePublish, ReleaseUpdate
  <1>3. ASSUME NEW id \in Ids, SkipItem(id)
        PROVE  relPc' # "stopped" /\ (relPc' = "waiting" => Batch' = {})
    <2>1. Batch' = Batch \ {id}
      BY <1>3, NoRowIsConsistent DEF SkipItem, Batch, Inv, TypeOK, ReleaseTypeOK
    <2> QED
      BY <1>3, <2>1 DEF SkipItem
  <1>4. relPc' # "stopped" /\ (relPc' = "waiting" => Batch' = {})
    <2>1. CASE ReleaseList
      BY <2>1 DEF ReleaseList
    <2>2. ASSUME NEW id \in Ids, NEW res \in SqsOutcomes, ReleasePublish(id, res)
          PROVE  SkipItem(id) \/ relPc' = "update"
      BY <2>2 DEF ReleasePublish
    <2>3. ASSUME NEW id \in Ids, NEW res \in DbOutcomes, ReleaseUpdate(id, res)
          PROVE  SkipItem(id)
      BY <2>3 DEF ReleaseUpdate
    <2> QED
      BY <1>3, <2>1, <2>2, <2>3 DEF ReleaseStep, ReleaseNext
  <1> QED
    BY <1>1, <1>2, <1>4 DEF Orderly

LEMMA RequestsKeepOrder ==
  ASSUME Inv, Orderly, QueueStep \/ SummaryStep
  PROVE  Orderly'
  <1>1. UNCHANGED <<releaseVars, phase>>
    BY DEF QueueStep, SummaryStep, mainVars
  <1>2. phase = "up" \/ ~ RequestsAreDone
    BY DEF QueueStep, FinalizeGoesOn, FinalizeUpdate, FinalizePublish, SummaryStep,
           SummaryGoesOn, SummaryReadInProgress, RequestsAreDone
  <1>3. phase \notin {"stopping", "closing"}
    BY <1>2 DEF Orderly
  <1> QED
    BY <1>1, <1>3, OthersKeepOrder

\* A process that has just been started has nothing in flight.
LEMMA GoneIsOrderly ==
  ASSUME ProcessIsGone
  PROVE  Orderly'
  BY NoRowIsConsistent DEF ProcessIsGone, Orderly, Batch

LEMMA OrderlyIsInductive ==
  ASSUME Inv, Orderly, [Next]_vars
  PROVE  Orderly'
  <1>1. CASE EnvironmentStep \/ PoolStep
    BY <1>1, OthersKeepOrder
       DEF EnvironmentStep, PoolStep, queueVars, summaryVars, mainVars, Orderly,
           RequestsAreDone
  <1>2. CASE ReleaseStep
    BY <1>2, ReleaseKeepsOrder
  <1>3. CASE QueueStep \/ SummaryStep
    BY <1>3, RequestsKeepOrder
  <1>4. CASE ShutdownStep
    <2>1. CASE Signal
      BY <2>1 DEF Signal, Orderly, releaseVars, Batch
    <2>2. CASE Drained
      BY <2>2 DEF Drained, Orderly, releaseVars, queueVars, summaryVars, Batch,
         RequestsAreDone
    <2>3. CASE ReleaseWorkerQuits
      BY <2>3 DEF ReleaseWorkerQuits, ReleaseQuits, Orderly, queueVars, summaryVars,
         mainVars, Batch, RequestsAreDone
    <2>4. CASE ReleaseWorkerStopped
      BY <2>4 DEF ReleaseWorkerStopped, Orderly, releaseVars, queueVars, summaryVars,
         Batch, RequestsAreDone
    <2>5. CASE Exit
      BY <2>5, GoneIsOrderly DEF Exit
    <2> QED
      BY <1>4, <2>1, <2>2, <2>3, <2>4, <2>5 DEF ShutdownStep
  <1>5. CASE Crash
    BY <1>5, GoneIsOrderly DEF Crash
  <1>6. CASE UNCHANGED vars
    BY <1>6 DEF vars, releaseVars, queueVars, summaryVars, mainVars, Orderly, Batch,
       RequestsAreDone
  <1> QED
    BY <1>1, <1>2, <1>3, <1>4, <1>5, <1>6 DEF Next

--------------------------------------------------------------------------------
(* The summary. *)

\* A row that is uncompleted and not queued is in progress.
LEMMA UncompletedIsListed ==
  ASSUME StoreTypeOK, NEW id \in Uncompleted
  PROVE  id \in ListByStatus("queued") \/ (Begun(id) /\ id \in ListByStatus("in_progress"))
  <1>1. PICK m \in Slot : m = db[id]
    BY DEF StoreTypeOK, Uncompleted
  <1> QED
    BY <1>1 DEF Uncompleted, Stored, IsTerminal, Slot, MaintenanceStatus, ListByStatus, Begun

LEMMA SummaryHasSeenIsInductive ==
  ASSUME Inv, SummaryHasSeen, [Next]_vars
  PROVE  SummaryHasSeen'
  <1>1. RowsSurvive
    BY RowsAlwaysSurvive
  <1>2. ASSUME summary' = summary
        PROVE  SummaryHasSeen'
    BY <1>1, <1>2 DEF SummaryHasSeen, RowsSurvive, Inv, TypeOK, SummaryTypeOK, SummaryRequest
  <1>3. CASE SummaryStep
    <2>0. summary \in [Readers -> SummaryRequest] /\ UNCHANGED storeVars
      BY <1>3 DEF Inv, TypeOK, SummaryTypeOK, SummaryStep, SummaryReadQueued, SummaryGoesOn,
         SummaryReadInProgress
    <2>1. ASSUME NEW r \in Readers, NEW q, summary' = [summary EXCEPT ![r] = q],
                 q.pc = "secondRead" => \A id \in q.known : id \in q.rows \/ Begun(id)'
          PROVE  SummaryHasSeen'
      BY <1>1, <2>0, <2>1 DEF SummaryHasSeen, RowsSurvive, SummaryRequest
    <2>2. ASSUME NEW r \in Readers, SummaryReadQueued(r)
          PROVE  SummaryHasSeen'
      <3>1. PICK q : q = [pc |-> "secondRead", rows |-> ListByStatus(Sections.firstRead),
                          known |-> Uncompleted]
        OBVIOUS
      <3>2. \A id \in Uncompleted : id \in ListByStatus("queued") \/ Begun(id)
        BY UncompletedIsListed DEF Inv, TypeOK
      <3>3. \A id \in Uncompleted : id \in ListByStatus("queued") \/ Begun(id)'
        BY <2>0, <3>2 DEF storeVars, Begun
      <3>4. \A id \in q.known : id \in q.rows \/ Begun(id)'
        BY <3>1, <3>3 DEF Sections
      <3>5. summary' = [summary EXCEPT ![r] = q]
        BY <2>2, <3>1 DEF SummaryReadQueued
      <3> QED
        BY <2>1, <3>4, <3>5
    <2>3. ASSUME NEW r \in Readers, SummaryGoesOn(r)
          PROVE  SummaryHasSeen'
      BY <2>1, <2>3 DEF SummaryGoesOn, SummaryReadInProgress, NoSummary
    <2> QED
      BY <1>3, <2>2, <2>3 DEF SummaryStep
  <1>4. ASSUME ProcessIsGone
        PROVE  SummaryHasSeen'
    BY <1>4 DEF ProcessIsGone, SummaryHasSeen, NoSummary
  <1>5. CASE ShutdownStep
    BY <1>2, <1>4, <1>5 DEF ShutdownStep, Signal, Drained, ReleaseWorkerQuits,
       ReleaseWorkerStopped, Exit, summaryVars
  <1>6. CASE EnvironmentStep \/ PoolStep \/ ReleaseStep \/ QueueStep
    BY <1>2, <1>6 DEF EnvironmentStep, PoolStep, ReleaseStep, QueueStep, summaryVars
  <1>7. CASE UNCHANGED vars
    BY <1>2, <1>7 DEF vars, summaryVars
  <1> QED
    BY <1>3, <1>4, <1>5, <1>6, <1>7 DEF Next, Crash

--------------------------------------------------------------------------------
LEMMA OrderlyInitially == Init => Orderly
  <1> SUFFICES ASSUME Init PROVE Orderly
    OBVIOUS
  <1>1. Batch = {} /\ phase = "up"
    BY NoRowIsConsistent DEF Init, ReleaseInit, Batch
  <1> QED
    BY <1>1 DEF Orderly

LEMMA OInvAlways == Spec => []OInv
  <1>1. Init => SummaryHasSeen
    BY DEF Init, SummaryInit, NoSummary, SummaryHasSeen
  <1>2. OInv /\ [Next]_vars => OInv'
    BY InvIsInductive, OrderlyIsInductive, SummaryHasSeenIsInductive DEF OInv
  <1>3. Init => OInv
    BY <1>1, InvHoldsInitially, OrderlyInitially DEF OInv
  <1> QED
    BY <1>2, <1>3, PTL DEF Spec

\* An orderly exit cuts off no request and no released row between its event and its
\* write, for any rows, clients and number of stops (main's shutdown, then the Stop of
\* release_worker.go).
THEOREM OrderlyExit == Spec => []NothingIsCutOff
  <1>1. OInv => NothingIsCutOff
    BY DEF OInv, Orderly, NothingIsCutOff
  <1> QED
    BY <1>1, OInvAlways, PTL

\* The summary shows every row that is under maintenance at both of its reads, whatever
\* the workers, the release cycle and the requests do in between (GetQueueSummary).
THEOREM SummaryIsComplete == Spec => []SummaryMissesNothing
  <1>1. OInv => SummaryMissesNothing
    <2> SUFFICES ASSUME OInv, NEW r \in Readers, summary[r].pc = "secondRead",
                        NEW id \in summary[r].known, id \in Uncompleted
                 PROVE  id \in Shown(r)
      BY DEF SummaryMissesNothing
    <2>1. id \in summary[r].rows \/ Begun(id)
      BY DEF OInv, SummaryHasSeen
    <2>2. Begun(id) => id \in ListByStatus("in_progress")
      BY UncompletedIsListed DEF OInv, Inv, TypeOK, ListByStatus, Begun
    <2> QED
      BY <2>1, <2>2 DEF Shown, Sections
  <1> QED
    BY <1>1, OInvAlways, PTL
================================================================================
