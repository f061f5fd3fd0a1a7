------------------------------ MODULE LedgerProofs ------------------------------
(* Proof that MaintenanceService implements MaintenanceLedger: its initial state is
   one of the ledger and each of its steps is one of the ledger's or changes nothing
   the ledger shows. *)
EXTENDS MaintenanceServiceProofs

LEMMA LedgerStarts == Init => Ledger!LedgerInit
  <1> SUFFICES ASSUME Init PROVE Ledger!LedgerInit
    OBVIOUS
  <1>1. /\ \A id \in Ids : db[id].status = "none" /\ worker[id] = "none"
        /\ announced = {}
    BY NoRowIsConsistent DEF Init, StoreInit, PoolInit
  <1> QED
    BY <1>1 DEF Status, Startable, Ledger!LedgerInit

--------------------------------------------------------------------------------
(* The shapes a step of the service can have, as the ledger sees them. *)

\* Nothing is written: rows can at most be given up.
LEMMA GivingUpIsForgetting ==
  ASSUME db' = db, announced' = announced,
         \A id \in Ids : worker'[id] \in {"listed", "starting"} =>
                            worker[id] \in {"listed", "starting"} \/ db[id].status = "queued"
  PROVE  Ledger!LedgerNext
  <1>1. Status' = Status
    BY DEF Status
  <1>2. Startable' \in SUBSET Startable
    BY DEF Startable
  <1>3. \A id \in Startable \ Startable' : Status[id] # "queued"
    BY DEF Startable, Status
  <1> QED
    BY <1>1, <1>2, <1>3 DEF Ledger!LedgerNext, Ledger!Forget

\* A row is written completed.
LEMMA CompletingIsCompleting ==
  ASSUME StoreTypeOK, NEW id \in Ids, NEW m \in Slot, NEW res,
         UpdateStatus(id, m, res), m.status = "completed", Stored(id),
         \A i \in Ids : i # id => worker'[i] = worker[i],
         worker'[id] \in {"listed", "starting"} <=> worker[id] \in {"listed", "starting"}
  PROVE  Ledger!LedgerNext
  <1>1. /\ db' \in [Ids -> Slot] /\ announced' = announced
        /\ \A i \in Ids : i # id => db'[i] = db[i]
        /\ db'[id] = IF res = "lost" THEN db[id] ELSE m
    BY UpdateStatusEffect DEF StoreTypeOK
  <1>2. CASE res = "lost"
    <2>1. \A i \in Ids : db'[i] = db[i]
      BY <1>1, <1>2
    <2>2. db' = db
      BY <2>1, <1>1 DEF StoreTypeOK
    <2> QED
      BY <1>1, <2>2, GivingUpIsForgetting
  <1>3. CASE res # "lost"
    <2>1. Status' = [Status EXCEPT ![id] = "completed"]
      BY <1>1, <1>3 DEF Status
    <2>2. Startable' = Startable \/ Startable' = Startable \ {id}
      BY <1>1, <1>3 DEF Startable
    <2>3. Status[id] # "none"
      BY DEF Status, Stored
    <2> QED
      BY <1>1, <2>1, <2>2, <2>3 DEF Ledger!LedgerNext, Ledger!Complete
  <1> QED
    BY <1>2, <1>3

\* An event is sent for a row.
LEMMA PublishingIsAnnouncing ==
  ASSUME NEW id \in Ids, NEW res, PublishMaintenanceEvent(id, res), Stored(id),
         worker' = worker
  PROVE  Ledger!LedgerNext \/ UNCHANGED Ledger!ledgerVars
  <1>1. Status' = Status /\ Startable' = Startable
    BY DEF PublishMaintenanceEvent, Status, Startable
  <1>2. CASE announced' = announced
    BY <1>1, <1>2 DEF Ledger!ledgerVars
  <1>3. CASE announced' = announced \cup {id}
    BY <1>1, <1>3 DEF Ledger!LedgerNext, Ledger!Announce, Status, Stored
  <1> QED
    BY <1>2, <1>3 DEF PublishMaintenanceEvent

--------------------------------------------------------------------------------
(* Component by component. *)

LEMMA EnvironmentIsLedger ==
  ASSUME Inv, EnvironmentStep
  PROVE  Ledger!LedgerNext \/ UNCHANGED Ledger!ledgerVars
  <1> USE DEF Inv, TypeOK, StoreTypeOK
  <1>0. worker' = worker
    BY DEF EnvironmentStep, poolVars
  <1>1. ASSUME NEW id \in Ids, Create(id)
        PROVE  Ledger!Register(id)
    <2>1. /\ db' = [db EXCEPT ![id] = NewMaintenance]
          /\ announced' = announced
          /\ db[id].status = "none"
      BY <1>1 DEF Create, IsFirst, Stored
    <2>2. Status' = [Status EXCEPT ![id] = "queued"] /\ Status[id] = "none"
      BY <2>1, NewMaintenanceIsConsistent DEF Status
    <2>3. Startable' = Startable \cup {id}
      BY <1>0, <2>1, NewMaintenanceIsConsistent DEF Startable
    <2> QED
      BY <2>1, <2>2, <2>3 DEF Ledger!Register
  <1>2. ASSUME NEW id \in Ids, Age(id)
        PROVE  UNCHANGED Ledger!ledgerVars
    BY <1>0, <1>2 DEF Age, Ledger!ledgerVars, Status, Startable
  <1> QED
    BY <1>1, <1>2 DEF EnvironmentStep, Ledger!LedgerNext

LEMMA PoolIsLedger ==
  ASSUME Inv, PoolStep
  PROVE  Ledger!LedgerNext \/ UNCHANGED Ledger!ledgerVars
  <1> USE DEF Inv, TypeOK, PoolTypeOK
  <1>1. CASE ProcessQueue
    BY <1>1, GivingUpIsForgetting DEF ProcessQueue, ListByStatus, storeVars
  <1>2. ASSUME NEW id \in Ids, Dispatch(id)
        PROVE  Ledger!LedgerNext
    <2>1. worker[id] = "listed"
      BY <1>2 DEF Dispatch, IsFirst, Listed
    <2> QED
      BY <1>2, <2>1, GivingUpIsForgetting DEF Dispatch, storeVars
  <1>3. ASSUME NEW id \in Ids, NEW res \in DbOutcomes, TransitionToInProgress(id, res)
        PROVE  Ledger!LedgerNext
    <2>1. worker[id] = "starting"
      BY <1>3 DEF TransitionToInProgress
    <2>2. /\ \A i \in Ids : i # id => worker'[i] = worker[i]
          /\ worker'[id] \in {"none", "finishing"}
      BY <1>3 DEF TransitionToInProgress, WorkerExits
    <2>3. CASE ~ CanMarkInProgress(copy[id])
      BY <1>3, <2>1, <2>2, <2>3, GivingUpIsForgetting DEF TransitionToInProgress, storeVars
    <2>4. CASE CanMarkInProgress(copy[id])
      <3> DEFINE m == MarkInProgress(copy[id])
      <3>1. m \in Slot /\ m.status = "in_progress"
        BY <2>4, MarkInProgressKeeps DEF CopiesConsistent
      <3>2. UpdateStatus(id, m, res)
        BY <1>3, <2>4 DEF TransitionToInProgress
      <3> HIDE DEF m
      <3>3. /\ db' \in [Ids -> Slot] /\ announced' = announced
            /\ \A i \in Ids : i # id => db'[i] = db[i]
            /\ db'[id] = IF res = "lost" THEN db[id] ELSE m
        BY <3>1, <3>2, UpdateStatusEffect DEF StoreTypeOK
      <3>4. CASE res = "lost"
        <4>1. db' = db
          BY <3>2, <3>4 DEF UpdateStatus
        <4> QED
          BY <2>1, <2>2, <3>3, <4>1, GivingUpIsForgetting
      <3>5. CASE res # "lost"
        <4>1. Status' = [Status EXCEPT ![id] = "in_progress"]
          BY <3>1, <3>3, <3>5 DEF Status
        <4>2. id \in Startable /\ Startable' = Startable \ {id}
          BY <2>1, <2>2, <3>1, <3>3, <3>5 DEF Startable
        <4> QED
          BY <3>3, <4>1, <4>2 DEF Ledger!LedgerNext, Ledger!Start
      <3> QED
        BY <3>4, <3>5
    <2> QED
      BY <2>3, <2>4
  <1>4. ASSUME NEW id \in Ids, NEW res \in DbOutcomes, TransitionToCompleted(id, res)
        PROVE  Ledger!LedgerNext
    <2>1. worker[id] = "finishing" /\ WorkerExits(id)
      BY <1>4 DEF TransitionToCompleted
    <2>2. /\ \A i \in Ids : i # id => worker'[i] = worker[i]
          /\ worker'[id] = "none"
      BY <2>1 DEF WorkerExits
    <2>3. CASE ~ CanMarkCompleted(copy[id])
      BY <1>4, <2>1, <2>2, <2>3, GivingUpIsForgetting DEF TransitionToCompleted, storeVars
    <2>4. CASE CanMarkCompleted(copy[id])
      <3>1. MarkCompleted(copy[id]) \in Slot /\ MarkCompleted(copy[id]).status = "completed"
        BY MarkCompletedKeeps DEF CopiesConsistent
      <3>2. Stored(id)
        BY <2>1 DEF WorkersHoldRows, Begun, Stored
      <3>3. UpdateStatus(id, MarkCompleted(copy[id]), res)
        BY <1>4, <2>4 DEF TransitionToCompleted
      <3> QED
        BY <2>1, <2>2, <3>1, <3>2, <3>3, CompletingIsCompleting
    <2> QED
      BY <2>3, <2>4
  <1>5. CASE CycleEnds
    BY <1>5, GivingUpIsForgetting DEF CycleEnds, storeVars
  <1> QED
    BY <1>1, <1>2, <1>3, <1>4, <1>5 DEF PoolStep, PoolNext

LEMMA ReleaseIsLedger ==
  ASSUME Inv, ReleaseStep
  PROVE  Ledger!LedgerNext \/ UNCHANGED Ledger!ledgerVars
  <1> USE DEF Inv, TypeOK, ReleaseTypeOK
  <1>0. worker' = worker
    BY DEF ReleaseStep, poolVars
  <1>1. CASE UNCHANGED storeVars
    BY <1>0, <1>1, GivingUpIsForgetting DEF storeVars
  <1>2. ASSUME NEW id \in Ids, NEW res \in SqsOutcomes, ReleasePublish(id, res)
        PROVE  Ledger!LedgerNext \/ UNCHANGED Ledger!ledgerVars
    <2>1. Stored(id)
      BY <1>2 DEF ReleasePublish, IsFirst, BatchHoldsRows
    <2> QED
      BY <1>0, <1>1, <1>2, <2>1, PublishingIsAnnouncing DEF ReleasePublish
  <1>3. ASSUME NEW id \in Ids, NEW res \in DbOutcomes, ReleaseUpdate(id, res)
        PROVE  Ledger!LedgerNext
    <2>1. Stored(id) /\ batch[id].status = "completed" /\ batch[id] \in Slot
      BY <1>3 DEF ReleaseUpdate, IsFirst, BatchHoldsRows
    <2> QED
      BY <1>0, <1>3, <2>1, CompletingIsCompleting DEF ReleaseUpdate
  <1> QED
    BY <1>1, <1>2, <1>3 DEF ReleaseStep, ReleaseNext, ReleaseList

LEMMA QueueIsLedger ==
  ASSUME Inv, QueueStep
  PROVE  Ledger!LedgerNext \/ UNCHANGED Ledger!ledgerVars
  <1> USE DEF Inv, TypeOK
  <1>0. worker' = worker
    BY DEF QueueStep, poolVars
  <1>1. CASE UNCHANGED storeVars
    BY <1>0, <1>1, GivingUpIsForgetting DEF storeVars
  <1>2. ASSUME NEW c \in Clients, NEW res \in DbOutcomes, FinalizeUpdate(c, res)
        PROVE  Ledger!LedgerNext
    <2>1. fin[c] \in Request /\ HoldsRow(fin[c])
      BY DEF QueueTypeOK, RequestsHoldRows
    <2>2. /\ fin[c].id \in Ids /\ Stored(fin[c].id)
          /\ fin[c].m \in Slot /\ fin[c].m.status = "completed"
      BY <1>2, <2>1 DEF FinalizeUpdate, HoldsRow, Request
    <2> QED
      BY <1>0, <1>2, <2>2, CompletingIsCompleting DEF FinalizeUpdate
  <1>3. ASSUME NEW c \in Clients, NEW res \in SqsOutcomes, FinalizePublish(c, res)
        PROVE  Ledger!LedgerNext \/ UNCHANGED Ledger!ledgerVars
    <2>1. fin[c].id \in Ids /\ Stored(fin[c].id)
      BY <1>3 DEF FinalizePublish, RequestsHoldRows, HoldsRow
    <2> QED
      BY <1>0, <1>3, <2>1, PublishingIsAnnouncing DEF FinalizePublish
  <1> QED
    BY <1>1, <1>2, <1>3 DEF QueueStep, FinalizeBegins, FinalizeGoesOn, FinalizeGet, FinalizeGetFails

LEMMA LedgerFollows ==
  Inv /\ [Next]_vars => [Ledger!LedgerNext]_(Ledger!ledgerVars)
  <1> SUFFICES ASSUME Inv, [Next]_vars
               PROVE  Ledger!LedgerNext \/ UNCHANGED Ledger!ledgerVars
    OBVIOUS
  <1>1. CASE Crash \/ Exit
    BY <1>1, GivingUpIsForgetting DEF Crash, Exit, ProcessIsGone, storeVars
  <1>2. CASE UNCHANGED vars
    <2>1. db' = db /\ announced' = announced /\ worker' = worker
      BY <1>2 DEF vars, storeVars, poolVars
    <2> QED
      BY <2>1 DEF Ledger!ledgerVars, Status, Startable
  <1>3. CASE SummaryStep
    BY <1>3, GivingUpIsForgetting
       DEF SummaryStep, SummaryReadQueued, SummaryGoesOn, SummaryReadInProgress, storeVars,
           poolVars
  <1>4. CASE ShutdownStep /\ ~ Exit
    BY <1>4, GivingUpIsForgetting
       DEF ShutdownStep, Signal, Drained, ReleaseWorkerQuits, ReleaseQuits,
           ReleaseWorkerStopped, storeVars, poolVars
  <1> QED
    BY <1>1, <1>2, <1>3, <1>4, EnvironmentIsLedger, PoolIsLedger, ReleaseIsLedger,
       QueueIsLedger DEF Next

\* The service implements the ledger: rows are never lost or queued again, work on a
\* row starts at most once, and only rows that exist are announced, for any number of
\* rows, workers, clients and crashes and any faults of the database and the queue.
THEOREM ServiceImplementsLedger == Spec => ImplementsLedger
  <1>1. Init => Ledger!LedgerInit
    BY LedgerStarts
  <1>2. Inv /\ [Next]_vars => [Ledger!LedgerNext]_(Ledger!ledgerVars)
    BY LedgerFollows
  <1> QED
    BY <1>1, <1>2, InvAlways, PTL DEF Spec, ImplementsLedger, Ledger!LedgerSpec

--------------------------------------------------------------------------------
(* What the ledger keeps, the service keeps. *)

\* No step of the ledger unsettles a row: only Start writes anything but "completed"
\* to a row that is registered, and a settled row can neither be started nor become
\* startable again.
LEMMA LedgerKeepsSettledRows ==
  ASSUME Ledger!LedgerNext
  PROVE  Ledger!Settled \subseteq (Ledger!Settled)'
  <1> SUFFICES ASSUME NEW i \in Ids, Status[i] = "completed", i \notin Startable
               PROVE  Status'[i] = "completed" /\ i \notin Startable'
    BY DEF Ledger!Settled
  <1>0. DOMAIN Status = Ids
    BY DEF Status
  <1>1. ASSUME NEW id \in Ids, Ledger!Register(id)
        PROVE  Status'[i] = "completed" /\ i \notin Startable'
    BY <1>0, <1>1 DEF Ledger!Register
  <1>2. ASSUME NEW id \in Ids, Ledger!Start(id)
        PROVE  Status'[i] = "completed" /\ i \notin Startable'
    BY <1>0, <1>2 DEF Ledger!Start
  <1>3. ASSUME NEW id \in Ids, Ledger!Complete(id)
        PROVE  Status'[i] = "completed" /\ i \notin Startable'
    BY <1>0, <1>3 DEF Ledger!Complete
  <1>4. ASSUME NEW id \in Ids, Ledger!Announce(id)
        PROVE  Status'[i] = "completed" /\ i \notin Startable'
    BY <1>4 DEF Ledger!Announce
  <1>5. CASE Ledger!Forget
    BY <1>5 DEF Ledger!Forget
  <1> QED
    BY <1>1, <1>2, <1>3, <1>4, <1>5 DEF Ledger!LedgerNext

\* A completed row that no worker may still start stays completed for ever, whoever
\* writes it from whatever copy, for any number of rows, workers, clients and crashes
\* (UpdateStatus, MarkCompleted).
THEOREM CompletedIsFinalOnceSettled == Spec => SettledRowsStaySettled
  <1>1. Inv /\ [Next]_vars => [Ledger!Settled \subseteq (Ledger!Settled)']_vars
    <2> SUFFICES ASSUME Inv, [Next]_vars PROVE Ledger!Settled \subseteq (Ledger!Settled)'
      OBVIOUS
    <2>1. Ledger!LedgerNext \/ UNCHANGED Ledger!ledgerVars
      BY LedgerFollows
    <2>2. CASE Ledger!LedgerNext
      BY <2>2, LedgerKeepsSettledRows
    <2>3. CASE UNCHANGED Ledger!ledgerVars
      BY <2>3 DEF Ledger!ledgerVars, Ledger!Settled
    <2> QED
      BY <2>1, <2>2, <2>3
  <1> QED
    BY <1>1, InvAlways, PTL DEF Spec, SettledRowsStaySettled
================================================================================
