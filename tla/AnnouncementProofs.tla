--------------------------- MODULE AnnouncementProofs ---------------------------
(* Proof that every silent completion has one of the causes that SilenceHasACause
   names, whatever fails and whenever the process dies, for every deployment, every set
   of ids and clients and every number of workers. *)
EXTENDS ShutdownProofs

\* Under the fallback no worker completes anything; and a row about to be written
\* completed by the release cycle has its event out, unless the publisher only said so.
AnnouncedFirst ==
    /\ UseMockFallback => \A id \in Ids : worker[id] # "finishing"
    /\ relPc = "update" =>
          SwallowsErrors \/ \A id \in Ids : IsFirst(id, Batch) => id \in announced

AInv == Inv /\ Orderly /\ AnnouncedFirst

HasACause(id) ==
    \/ WorkerCompletes(id)
    \/ SendingIsSimulated(id)
    \/ ClientIsTold(id)
    \/ RequestIsCutOff(id)

NoUnexplainedSilence == \A id \in Silent' \ Silent : HasACause(id)

\* Rows that are not newly completed, and requests that still hold their events.
LEMMA NothingNewlyCompleted ==
  ASSUME \A id \in Ids : db'[id].status = "completed" => db[id].status = "completed",
         announced \subseteq announced', fin' = fin
  PROVE  NoUnexplainedSilence
  BY DEF NoUnexplainedSilence, Silent

LEMMA EnvironmentAnnounces ==
  ASSUME AInv, EnvironmentStep
  PROVE  AnnouncedFirst' /\ NoUnexplainedSilence
  <1>1. /\ announced' = announced
        /\ \A id \in Ids : db'[id].status = "completed" => db[id].status = "completed"
    BY NewMaintenanceIsConsistent
       DEF EnvironmentStep, Create, Age, AInv, Inv, TypeOK, StoreTypeOK
  <1>2. UNCHANGED <<poolVars, releaseVars, queueVars>>
    BY DEF EnvironmentStep
  <1>3. AnnouncedFirst'
    BY <1>1, <1>2 DEF AInv, AnnouncedFirst, poolVars, releaseVars, Batch, IsFirst
  <1> QED
    BY <1>1, <1>2, <1>3, NothingNewlyCompleted DEF queueVars

\* A worker writes completed only where the fallback does not stop it before.
LEMMA PoolAnnounces ==
  ASSUME AInv, PoolStep
  PROVE  AnnouncedFirst' /\ NoUnexplainedSilence
  <1> USE DEF AInv, Inv, TypeOK, PoolTypeOK
  <1>1. UNCHANGED <<relPc, batch, fin>>
    BY DEF PoolStep, releaseVars, queueVars
  <1> DEFINE NoneFinishes == UseMockFallback => \A id \in Ids : worker'[id] # "finishing"
             CompletesNothing ==
               /\ announced' = announced
               /\ \A id \in Ids : db'[id].status = "completed" => db[id].status = "completed"
  <1>2. ASSUME NoneFinishes, announced' = announced
        PROVE  AnnouncedFirst'
    BY <1>1, <1>2 DEF AnnouncedFirst, Batch, IsFirst
  <1>3. ASSUME NoneFinishes, CompletesNothing
        PROVE  AnnouncedFirst' /\ NoUnexplainedSilence
    BY <1>1, <1>2, <1>3, NothingNewlyCompleted
  <1> HIDE DEF NoneFinishes, CompletesNothing
  <1>4. CASE ProcessQueue
    BY <1>3, <1>4 DEF ProcessQueue, storeVars, NoneFinishes, CompletesNothing
  <1>5. ASSUME NEW id \in Ids, Dispatch(id)
        PROVE  AnnouncedFirst' /\ NoUnexplainedSilence
    BY <1>3, <1>5 DEF Dispatch, AnnouncedFirst, storeVars, NoneFinishes, CompletesNothing
  <1>6. ASSUME NEW id \in Ids, NEW res \in DbOutcomes, TransitionToInProgress(id, res)
        PROVE  AnnouncedFirst' /\ NoUnexplainedSilence
    <2>1. NoneFinishes
      <3>1. UseMockFallback => WorkerExits(id)
        BY <1>6 DEF TransitionToInProgress
      <3> QED
        BY <3>1 DEF WorkerExits, AnnouncedFirst, NoneFinishes
    <2>2. CompletesNothing
      <3>1. CASE ~ CanMarkInProgress(copy[id])
        BY <1>6, <3>1 DEF TransitionToInProgress, storeVars, CompletesNothing
      <3>2. CASE CanMarkInProgress(copy[id])
        <4>1. /\ MarkInProgress(copy[id]) \in Slot
              /\ MarkInProgress(copy[id]).status = "in_progress"
          BY <3>2, MarkInProgressKeeps DEF CopiesConsistent
        <4>2. UpdateStatus(id, MarkInProgress(copy[id]), res)
          BY <1>6, <3>2 DEF TransitionToInProgress
        <4>3. \A i \in Ids : db'[i] = db[i] \/ db'[i].status = "in_progress"
          BY <4>1, <4>2, UpdateStatusEffect
        <4> QED
          BY <4>2, <4>3 DEF UpdateStatus, CompletesNothing
      <3> QED
        BY <3>1, <3>2
    <2> QED
      BY <1>3, <2>1, <2>2
  <1>7. ASSUME NEW id \in Ids, NEW res \in DbOutcomes, TransitionToCompleted(id, res)
        PROVE  AnnouncedFirst' /\ NoUnexplainedSilence
    <2>1. /\ worker[id] = "finishing" /\ WorkerExits(id)
          /\ \/ UNCHANGED storeVars
             \/ UpdateStatus(id, MarkCompleted(copy[id]), res)
      BY <1>7 DEF TransitionToCompleted
    <2>2. ~ UseMockFallback
      BY <2>1 DEF AnnouncedFirst
    <2>3. WorkerCompletes(id)
      BY <2>1, <2>2 DEF WorkerCompletes, WorkerExits
    <2>4. announced' = announced /\ \A i \in Ids : i # id => db'[i] = db[i]
      <3>1. CASE UNCHANGED storeVars
        BY <3>1 DEF storeVars
      <3>2. CASE UpdateStatus(id, MarkCompleted(copy[id]), res)
        BY <3>2 DEF UpdateStatus, StoreTypeOK
      <3> QED
        BY <2>1, <3>1, <3>2
    <2>5. \A i \in Silent' \ Silent : i = id
      BY <1>1, <2>4 DEF Silent
    <2> QED
      BY <1>2, <2>2, <2>3, <2>4, <2>5 DEF NoUnexplainedSilence, HasACause, NoneFinishes
  <1>8. CASE CycleEnds
    BY <1>3, <1>8 DEF CycleEnds, AnnouncedFirst, storeVars, NoneFinishes, CompletesNothing
  <1> QED
    BY <1>4, <1>5, <1>6, <1>7, <1>8 DEF PoolStep, PoolNext

\* The release cycle publishes first, and writes what it has published or what the
\* publisher has passed over.
LEMMA ReleaseAnnounces ==
  ASSUME AInv, ReleaseStep
  PROVE  AnnouncedFirst' /\ NoUnexplainedSilence
  <1> USE DEF AInv, Inv
  <1>1. UNCHANGED <<worker, fin>>
    BY DEF ReleaseStep, poolVars, queueVars
  <1>2. CASE ReleaseList
    BY <1>1, <1>2, NothingNewlyCompleted DEF ReleaseList, AnnouncedFirst, storeVars
  <1>3. ASSUME NEW id \in Ids, NEW res \in SqsOutcomes, ReleasePublish(id, res)
        PROVE  AnnouncedFirst' /\ NoUnexplainedSilence
    <2>1. db' = db /\ announced \subseteq announced'
      BY <1>3 DEF ReleasePublish, PublishMaintenanceEvent, storeVars
    <2>2. NoUnexplainedSilence
      BY <1>1, <2>1, NothingNewlyCompleted
    <2>3. CASE SkipItem(id)
      BY <1>1, <2>2, <2>3 DEF SkipItem, AnnouncedFirst
    <2>4. CASE /\ PublishMaintenanceEvent(id, res) /\ PublishAccepted(res)
               /\ batch' = [batch EXCEPT ![id] = MarkCompleted(batch[id])]
               /\ relPc' = "update"
               /\ IsFirst(id, Batch)
      <3>1. SwallowsErrors \/ announced' = announced \cup {id}
        BY <2>4 DEF PublishMaintenanceEvent, PublishAccepted, SwallowsErrors
      <3>2. MarkCompleted(batch[id]).status = "completed"
        BY MarkCompletedKeeps DEF TypeOK, ReleaseTypeOK, CopiesConsistent
      <3>3. Batch' = Batch
        BY <2>4, <3>2 DEF Batch, IsFirst, TypeOK, ReleaseTypeOK
      <3>4. \A i \in Ids : IsFirst(i, Batch) => i = id
        BY <2>4, IdsAreNumbers DEF IsFirst, Batch
      <3>5. AnnouncedFirst'
        BY <1>1, <2>4, <3>1, <3>3, <3>4 DEF AnnouncedFirst, IsFirst, SwallowsErrors
      <3> QED
        BY <2>2, <3>5
    <2> QED
      BY <1>3, <2>3, <2>4 DEF ReleasePublish
  <1>4. ASSUME NEW id \in Ids, NEW res \in DbOutcomes, ReleaseUpdate(id, res)
        PROVE  AnnouncedFirst' /\ NoUnexplainedSilence
    <2>1. /\ relPc = "update" /\ IsFirst(id, Batch) /\ announced' = announced
          /\ relPc' # "update"
      BY <1>4 DEF ReleaseUpdate, SkipItem, UpdateStatus
    <2>2. \A i \in Ids : i # id => db'[i] = db[i]
      BY <1>4, UpdateStatusEffect DEF ReleaseUpdate, TypeOK, ReleaseTypeOK
    <2>3. AnnouncedFirst'
      BY <1>1, <2>1 DEF AnnouncedFirst
    <2>4. \A i \in Silent' \ Silent : i = id
      BY <1>1, <2>1, <2>2 DEF Silent
    <2>5. SwallowsErrors \/ id \in announced
      BY <2>1 DEF AnnouncedFirst
    <2>6. CASE id \in announced
      BY <2>1, <2>3, <2>4, <2>6 DEF NoUnexplainedSilence, Silent
    <2>7. CASE SwallowsErrors
      <3>1. SendingIsSimulated(id)
        BY <2>1, <2>7 DEF SendingIsSimulated
      <3> QED
        BY <2>3, <2>4, <3>1 DEF NoUnexplainedSilence, HasACause
    <2> QED
      BY <2>5, <2>6, <2>7
  <1> QED
    BY <1>2, <1>3, <1>4 DEF ReleaseStep, ReleaseNext

\* A request that does not answer 204 answers 500 or goes on to publish.
LEMMA QueueAnnounces ==
  ASSUME AInv, QueueStep
  PROVE  AnnouncedFirst' /\ NoUnexplainedSilence
  <1> USE DEF AInv, Inv
  <1>1. UNCHANGED <<worker, relPc, batch>>
    BY DEF QueueStep, poolVars, releaseVars
  <1>2. fin \in [Clients -> Request]
    BY DEF TypeOK, QueueTypeOK
  <1>3. ASSUME announced \subseteq announced'
        PROVE  AnnouncedFirst'
    BY <1>1, <1>3 DEF AnnouncedFirst, Batch, IsFirst
  <1>4. ASSUME NEW c \in Clients, NEW id \in Ids,
               FinalizeGet(c, id) \/ FinalizeGetFails(c, id)
        PROVE  AnnouncedFirst' /\ NoUnexplainedSilence
    <2>1. /\ fin[c].pc = "idle" /\ db' = db /\ announced' = announced
          /\ \A d \in Clients : d # c => fin'[d] = fin[d]
      BY <1>2, <1>4 DEF FinalizeGet, FinalizeGetFails, storeVars
    <2>2. Silent' \subseteq Silent
      BY <2>1 DEF Silent
    <2> QED
      BY <1>3, <2>1, <2>2 DEF NoUnexplainedSilence
  <1>5. ASSUME NEW c \in Clients, NEW res \in DbOutcomes, FinalizeUpdate(c, res)
        PROVE  AnnouncedFirst' /\ NoUnexplainedSilence
    <2>1. fin[c] \in Request /\ fin[c].id \in Ids /\ fin[c].pc = "update"
      BY <1>2, <1>5 DEF FinalizeUpdate, RequestsHoldRows, HoldsRow
    <2>2. UpdateStatus(fin[c].id, fin[c].m, res) /\ announced' = announced
      BY <1>5 DEF FinalizeUpdate, UpdateStatus
    <2>3. \A d \in Clients : d # c => fin'[d] = fin[d]
      BY <1>2, <1>5 DEF FinalizeUpdate, Respond
    <2>4. \A i \in Ids : i # fin[c].id => db'[i] = db[i]
      BY <2>1, <2>2, UpdateStatusEffect DEF TypeOK, Request
    <2>5. \A i \in Silent' \ Silent : i = fin[c].id
      BY <2>1, <2>2, <2>3, <2>4 DEF Silent
    <2>6. CASE res = "ok"
      <3>1. fin'[c].pc = "publish" /\ fin'[c].id = fin[c].id
        BY <1>2, <1>5, <2>1, <2>6 DEF FinalizeUpdate, Request
      <3> QED
        BY <1>3, <2>2, <2>5, <3>1 DEF NoUnexplainedSilence, Silent
    <2>7. CASE res # "ok"
      <3>1. fin'[c].pc = "idle" /\ fin'[c].reply = "500"
        BY <1>2, <1>5, <2>7 DEF FinalizeUpdate, Respond
      <3>2. ClientIsTold(fin[c].id)
        BY <2>1, <3>1 DEF ClientIsTold
      <3> QED
        BY <1>3, <2>2, <2>5, <3>2 DEF NoUnexplainedSilence, HasACause
    <2> QED
      BY <2>6, <2>7
  <1>6. ASSUME NEW c \in Clients, NEW res \in SqsOutcomes, FinalizePublish(c, res)
        PROVE  AnnouncedFirst' /\ NoUnexplainedSilence
    <2>1. db' = db /\ announced \subseteq announced' /\ fin[c].pc = "publish"
      BY <1>6 DEF FinalizePublish, PublishMaintenanceEvent
    <2>2. \A d \in Clients : d # c => fin'[d] = fin[d]
      BY <1>2, <1>6 DEF FinalizePublish, Respond
    <2>3. \A i \in Silent' \ Silent : i = fin[c].id
      BY <2>1, <2>2 DEF Silent
    <2>4. /\ fin'[c].pc = "idle"
          /\ fin'[c].reply = IF PublishAccepted(res) THEN "204" ELSE "500"
      BY <1>2, <1>6 DEF FinalizePublish, Respond
    <2>5. CASE ~ PublishAccepted(res)
      <3>1. ClientIsTold(fin[c].id)
        BY <2>1, <2>4, <2>5 DEF ClientIsTold
      <3> QED
        BY <1>3, <2>1, <2>3, <3>1 DEF NoUnexplainedSilence, HasACause
    <2>6. CASE SwallowsErrors
      <3>1. SendingIsSimulated(fin[c].id)
        BY <2>1, <2>4, <2>6 DEF SendingIsSimulated, PublishAccepted
      <3> QED
        BY <1>3, <2>1, <2>3, <3>1 DEF NoUnexplainedSilence, HasACause
    <2>7. CASE PublishAccepted(res) /\ ~ SwallowsErrors
      <3>1. fin[c].id \in announced'
        BY <1>6, <2>7 DEF FinalizePublish, PublishMaintenanceEvent, PublishAccepted,
           SwallowsErrors
      <3> QED
        BY <1>3, <2>1, <2>3, <3>1 DEF NoUnexplainedSilence, Silent
    <2> QED
      BY <2>5, <2>6, <2>7
  <1> QED
    BY <1>4, <1>5, <1>6 DEF QueueStep, FinalizeBegins, FinalizeGoesOn

LEMMA StandingStillAnnounces ==
  ASSUME AInv, UNCHANGED <<db, announced, worker, batch, fin>>,
         relPc' = relPc \/ relPc' = "stopped"
  PROVE  AnnouncedFirst' /\ NoUnexplainedSilence
  <1>1. AnnouncedFirst'
    BY DEF AInv, AnnouncedFirst, Batch, IsFirst
  <1> QED
    BY <1>1, NothingNewlyCompleted

LEMMA SummaryAnnounces ==
  ASSUME AInv, SummaryStep
  PROVE  AnnouncedFirst' /\ NoUnexplainedSilence
  <1>1. UNCHANGED <<db, announced, worker, relPc, batch, fin>>
    BY DEF SummaryStep, SummaryReadQueued, SummaryGoesOn, SummaryReadInProgress,
           storeVars, poolVars, releaseVars, queueVars
  <1> QED
    BY <1>1, StandingStillAnnounces

\* When the process goes, only a request that had yet to publish leaves its row silent.
LEMMA GoneAnnounces ==
  ASSUME ProcessIsGone
  PROVE  /\ AnnouncedFirst'
         /\ \A id \in Silent' \ Silent :
               \E c \in Clients : fin[c].pc = "publish" /\ fin[c].id = id
  <1>1. db' = db /\ announced' = announced
    BY DEF ProcessIsGone, storeVars
  <1>2. AnnouncedFirst'
    BY DEF ProcessIsGone, AnnouncedFirst
  <1> QED
    BY <1>1, <1>2 DEF Silent

\* An orderly exit finds no request waiting to publish, because main has waited.
LEMMA ShutdownAnnounces ==
  ASSUME AInv, ShutdownStep
  PROVE  AnnouncedFirst' /\ NoUnexplainedSilence
  <1>1. CASE Signal \/ Drained \/ ReleaseWorkerStopped
    <2>1. UNCHANGED <<db, announced, worker, relPc, batch, fin>>
      BY <1>1 DEF Signal, Drained, ReleaseWorkerStopped, storeVars, poolVars,
         releaseVars, queueVars
    <2> QED
      BY <2>1, StandingStillAnnounces
  <1>2. CASE ReleaseWorkerQuits
    <2>1. UNCHANGED <<db, announced, worker, batch, fin>> /\ relPc' = "stopped"
      BY <1>2 DEF ReleaseWorkerQuits, ReleaseQuits, storeVars, poolVars, queueVars
    <2> QED
      BY <2>1, StandingStillAnnounces
  <1>3. CASE Exit
    <2>1. \A c \in Clients : fin[c].pc # "publish"
      BY <1>3 DEF Exit, AInv, Orderly, RequestsAreDone
    <2> QED
      BY <1>3, <2>1, GoneAnnounces DEF Exit, NoUnexplainedSilence
  <1> QED
    BY <1>1, <1>2, <1>3 DEF ShutdownStep

\* A crash does not wait.
LEMMA CrashAnnounces ==
  ASSUME AInv, Crash
  PROVE  AnnouncedFirst' /\ NoUnexplainedSilence
  <1>1. crashes' > crashes
    BY DEF Crash, AInv, Inv, TypeOK, MainTypeOK
  <1> QED
    BY <1>1, GoneAnnounces DEF Crash, NoUnexplainedSilence, HasACause, RequestIsCutOff

LEMMA EveryStepAnnounces ==
  ASSUME AInv, [Next]_vars
  PROVE  AnnouncedFirst' /\ NoUnexplainedSilence
  <1>1. CASE UNCHANGED vars
    <2>1. UNCHANGED <<db, announced, worker, relPc, batch, fin>>
      BY <1>1 DEF vars, storeVars, poolVars, releaseVars, queueVars
    <2> QED
      BY <2>1, StandingStillAnnounces
  <1> QED
    BY <1>1, EnvironmentAnnounces, PoolAnnounces, ReleaseAnnounces, QueueAnnounces,
       SummaryAnnounces, ShutdownAnnounces, CrashAnnounces
       DEF Next

\* Whatever fails and whenever the process dies, a row becomes completed without its
\* event for one of four reasons only: a worker completed it where no fallback forbids
\* that, the publisher only pretends to send, a client was told 500, or the process
\* died under a request (worker_pool.go, sqs_publisher.go, queue_service.go).
THEOREM NobodyCompletesSilently == Spec => SilenceHasACause
  <1>1. Init => AInv
    <2> SUFFICES ASSUME Init PROVE AnnouncedFirst
      BY InvHoldsInitially, OrderlyInitially DEF AInv
    <2> QED
      BY DEF Init, PoolInit, ReleaseInit, AnnouncedFirst
  <1>2. AInv /\ [Next]_vars => AInv'
    BY InvIsInductive, OrderlyIsInductive, EveryStepAnnounces DEF AInv
  <1>3. AInv /\ [Next]_vars =>
           [\A id \in Silent' \ Silent :
               \/ WorkerCompletes(id)
               \/ SendingIsSimulated(id)
               \/ ClientIsTold(id)
               \/ RequestIsCutOff(id)]_vars
    BY EveryStepAnnounces DEF NoUnexplainedSilence, HasACause
  <1> QED
    BY <1>1, <1>2, <1>3, PTL DEF Spec, SilenceHasACause
================================================================================
