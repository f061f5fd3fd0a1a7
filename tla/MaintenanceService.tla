--------------------------- MODULE MaintenanceService ---------------------------
(* The running process: worker pool, release cycle, finalize and summary requests on
   the same table and the same queue to the vehicles service, none of them aware of
   the others (cmd/server/main.go wires them to one repository and one publisher,
   with no lock and no transaction between them), and the ends of the process: the
   crash, and the orderly shutdown with what it waits for and what it does not. *)
EXTENDS WorkerPool, ReleaseService, QueueService, QueueSummary

CONSTANTS
    MaxCrashes,  \* bound on the number of crashes
    MaxStops     \* bound on the number of SIGTERMs

ASSUME BoundsAreNat == MaxCrashes \in Nat /\ MaxStops \in Nat

VARIABLES
    phase,    \* where the main goroutine is
    crashes,  \* crashes so far
    stops     \* signals so far

mainVars == <<phase, crashes, stops>>

vars == <<storeVars, poolVars, releaseVars, queueVars, summaryVars, mainVars>>

\* "up"        waiting for a signal
\* "draining"  in server.Shutdown
\* "stopping"  in the deferred Stop of the release worker
\* "closing"   past it: the pool and the scheduler are told to stop, the connection
\*             pool waits for the statements in flight, and the process exits
Phase == {"up", "draining", "stopping", "closing"}

MainTypeOK ==
    /\ phase \in Phase
    /\ crashes \in 0 .. MaxCrashes
    /\ stops \in 0 .. MaxStops

TypeOK ==
    /\ StoreTypeOK
    /\ PoolTypeOK
    /\ ReleaseTypeOK
    /\ QueueTypeOK
    /\ SummaryTypeOK
    /\ MainTypeOK

Init ==
    /\ StoreInit
    /\ PoolInit
    /\ ReleaseInit
    /\ QueueInit
    /\ SummaryInit
    /\ phase = "up"
    /\ crashes = 0
    /\ stops = 0

--------------------------------------------------------------------------------
\* The creators of rows and the clock.
EnvironmentStep ==
    /\ \E id \in Ids : Create(id) \/ Age(id)
    /\ UNCHANGED <<poolVars, releaseVars, queueVars, summaryVars, mainVars>>

PoolStep ==
    /\ PoolNext
    /\ UNCHANGED <<releaseVars, queueVars, summaryVars, mainVars>>

ReleaseStep ==
    /\ ReleaseNext
    /\ UNCHANGED <<poolVars, queueVars, summaryVars, mainVars>>

\* Requests begin as long as there are connections to begin them on.
QueueStep ==
    /\ \E c \in Clients :
          \/ phase = "up" /\ FinalizeBegins(c)
          \/ FinalizeGoesOn(c)
    /\ UNCHANGED <<poolVars, releaseVars, summaryVars, mainVars>>

SummaryStep ==
    /\ \E r \in Readers :
          \/ phase = "up" /\ SummaryReadQueued(r)
          \/ SummaryGoesOn(r)
    /\ UNCHANGED <<poolVars, releaseVars, queueVars, mainVars>>

--------------------------------------------------------------------------------
(* The ends of the process. *)

\* Every goroutine, copy and batch is gone, every request is cut off without an
\* answer, the table and the queue remain.
ProcessIsGone ==
    /\ phase' = "up"
    /\ poller' = "waiting"
    /\ worker' = [id \in Ids |-> "none"]
    /\ copy' = [id \in Ids |-> NoRow]
    /\ semaphore' = 0
    /\ relPc' = "waiting"
    /\ batch' = [id \in Ids |-> NoRow]
    /\ fin' = [c \in Clients |-> [fin[c] EXCEPT !.pc = "idle", !.m = NoRow]]
    /\ summary' = [r \in Readers |-> NoSummary]
    /\ UNCHANGED storeVars

\* The process dies and is started again.  A shutdown that does not get the requests
\* done within 30 seconds ends like this too, by os.Exit.
Crash ==
    /\ crashes < MaxCrashes
    /\ crashes' = crashes + 1
    /\ ProcessIsGone
    /\ UNCHANGED stops

\* SIGINT or SIGTERM has come, and server.Shutdown has closed the listener and the idle
\* connections: the requests in flight are the last ones.
Signal ==
    /\ phase = "up" /\ stops < MaxStops
    /\ phase' = "draining"
    /\ stops' = stops + 1
    /\ UNCHANGED <<storeVars, poolVars, releaseVars, queueVars, summaryVars, crashes>>

RequestsAreDone ==
    /\ \A c \in Clients : fin[c].pc = "idle"
    /\ \A r \in Readers : summary[r].pc = "idle"

\* Mutant: the server is closed instead of shut down.
ClosedAtOnce ==
    /\ phase = "draining"
    /\ phase' = "stopping"
    /\ UNCHANGED <<storeVars, poolVars, releaseVars, queueVars, summaryVars, crashes, stops>>

\* server.Shutdown returns; the deferred calls begin.  The consumer's Stop only signals.
Drained ==
    /\ phase = "draining" /\ RequestsAreDone
    /\ phase' = "stopping"
    /\ UNCHANGED <<storeVars, poolVars, releaseVars, queueVars, summaryVars, crashes, stops>>

\* The release worker's goroutine finds the quit channel closed ...
ReleaseWorkerQuits ==
    /\ phase = "stopping"
    /\ ReleaseQuits
    /\ UNCHANGED <<poolVars, queueVars, summaryVars, mainVars>>

\* ... and its Stop, which has waited for that, returns.  The pool's and the
\* scheduler's Stop only signal.
ReleaseWorkerStopped ==
    /\ phase = "stopping" /\ relPc = "stopped"
    /\ phase' = "closing"
    /\ UNCHANGED <<storeVars, poolVars, releaseVars, queueVars, summaryVars, crashes, stops>>

\* The connection pool is closed and main returns.  Workers are cut off wherever they
\* are; what they still try on the closed pool fails and leaves no trace.
Exit ==
    /\ phase = "closing"
    /\ ProcessIsGone
    /\ UNCHANGED <<crashes, stops>>

ShutdownStep ==
    \/ Signal
    \/ Drained
    \/ ReleaseWorkerQuits
    \/ ReleaseWorkerStopped
    \/ Exit

Next ==
    \/ EnvironmentStep
    \/ PoolStep
    \/ ReleaseStep
    \/ QueueStep
    \/ SummaryStep
    \/ ShutdownStep
    \/ Crash

Spec == Init /\ [][Next]_vars

--------------------------------------------------------------------------------
(* Fairness.  The Go scheduler runs every goroutine that can run, the tickers
   tick, and time passes.  Of a remote call that is repeated for ever it is
   assumed that it succeeds now and then: outages end.  The select of the release
   worker chooses at random between a tick and the closed quit channel, so it does
   not overlook the channel for ever. *)

PublishWorks(id) ==
    /\ ReleasePublish(id, "ok")
    /\ UNCHANGED <<poolVars, queueVars, summaryVars, mainVars>>

UpdateWorks(id) ==
    /\ ReleaseUpdate(id, "ok")
    /\ UNCHANGED <<poolVars, queueVars, summaryVars, mainVars>>

TimePasses ==
    /\ \E id \in Ids : Age(id)
    /\ UNCHANGED <<poolVars, releaseVars, queueVars, summaryVars, mainVars>>

\* A request that has been accepted is carried on.
RequestGoesOn(c) ==
    /\ FinalizeGoesOn(c)
    /\ UNCHANGED <<poolVars, releaseVars, summaryVars, mainVars>>

SummaryIsAnswered(r) ==
    /\ SummaryGoesOn(r)
    /\ UNCHANGED <<poolVars, releaseVars, queueVars, mainVars>>

Fairness ==
    /\ WF_vars(TimePasses)
    /\ WF_vars(PoolStep)
    /\ WF_vars(ReleaseStep)
    /\ \A id \in Ids : SF_vars(PublishWorks(id)) /\ SF_vars(UpdateWorks(id))
    /\ \A c \in Clients : WF_vars(RequestGoesOn(c))
    /\ \A r \in Readers : WF_vars(SummaryIsAnswered(r))
    /\ SF_vars(ReleaseWorkerQuits)
    /\ WF_vars(Drained) /\ WF_vars(ReleaseWorkerStopped) /\ WF_vars(Exit)

FairSpec == Spec /\ Fairness

(* A client that keeps asking until it has its 204: for every id some client asks
   again and again, and its calls, like the others, succeed now and then. *)
Retried(id) ==
    /\ phase = "up"
    /\ \E c \in Clients : FinalizeGet(c, id)
    /\ UNCHANGED <<poolVars, releaseVars, summaryVars, mainVars>>

RetryUpdateWorks(id) ==
    /\ \E c \in Clients : fin[c].id = id /\ FinalizeUpdate(c, "ok")
    /\ UNCHANGED <<poolVars, releaseVars, summaryVars, mainVars>>

RetryPublishWorks(id) ==
    /\ \E c \in Clients : fin[c].id = id /\ FinalizePublish(c, "ok")
    /\ UNCHANGED <<poolVars, releaseVars, summaryVars, mainVars>>

RetrySpec ==
    /\ FairSpec
    /\ \A id \in Ids : /\ SF_vars(Retried(id))
                       /\ SF_vars(RetryUpdateWorks(id))
                       /\ SF_vars(RetryPublishWorks(id))

--------------------------------------------------------------------------------
(* Safety. *)

\* A row has a completion time exactly when it is completed, although workers, the
\* release cycle and finalize requests overwrite each other's rows from copies
\* taken at different times (UpdateStatus writes both columns from the copy).
CompletedAtMatchesStatus ==
    \A id \in Ids : Consistent(db[id])

\* Stop "gracefully shuts down the worker, waiting for the current cycle to finish", and
\* main drains the connections first: when the process exits in order, no request and
\* no released row is between its first and its last call (shutdown, Stop).
NothingIsCutOff ==
    phase = "closing" =>
       /\ RequestsAreDone
       /\ relPc = "stopped" /\ Batch = {}

\* A row that is under maintenance at both reads of the summary is in one of its
\* sections, although workers may move it from one to the other in between
\* (GetQueueSummary reads the sections in the order in which rows go through them).
SummaryMissesNothing ==
    \A r \in Readers :
       summary[r].pc = "secondRead" => summary[r].known \cap Uncompleted \subseteq Shown(r)

Status == [id \in Ids |-> db[id].status]

\* The rows whose work may still start: queued ones, and those a worker holds a
\* queued copy of, whatever the row says by now.
Startable ==
    {id \in Ids : db[id].status = "queued" \/ worker[id] \in {"listed", "starting"}}

\* The service implements the ledger: a row is never lost or queued again, its work
\* starts at most once even across crashes and ambiguous writes, and no event is
\* announced for a row that does not exist (processQueue, UpdateStatus).
Ledger == INSTANCE MaintenanceLedger WITH status <- Status, startable <- Startable

ImplementsLedger == Ledger!LedgerSpec

\* How final "completed" really is: once a row is completed and no worker holds a queued
\* copy of it, every later write of it, from whatever copy a worker, the release cycle
\* or a request took and when, says completed again; and no cycle, crash or restart
\* brings such a worker back (every UpdateStatus but a worker's first one
\* writes a copy that went through MarkCompleted).
SettledRowsStaySettled == [][Ledger!Settled \subseteq (Ledger!Settled)']_vars

\* The completed rows that nobody outside hears of: the event is not out, and no request
\* is about to send it.
Silent ==
    {id \in Ids : /\ db[id].status = "completed" /\ id \notin announced
                  /\ ~ \E c \in Clients : fin[c].pc = "publish" /\ fin[c].id = id}

(* What may make a row silent. *)

\* A worker completes it, as workers do where no mock fallback leaves that to the
\* release service; they publish nothing.
WorkerCompletes(id) ==
    ~ UseMockFallback /\ worker[id] = "finishing" /\ worker'[id] = "none"

\* The release cycle or a request goes by a publisher that reports success for an event
\* it has not sent (USE_MOCK_FALLBACK, or no queue at all).
SendingIsSimulated(id) ==
    /\ SwallowsErrors
    /\ \/ relPc = "update" /\ IsFirst(id, Batch) /\ relPc' # "update"
       \/ \E c \in Clients : /\ fin[c].pc = "publish" /\ fin[c].id = id
                             /\ fin'[c].reply = "204"

\* A client learns from its 500 that its request may be half done.
ClientIsTold(id) ==
    \E c \in Clients : /\ fin[c].pc # "idle" /\ fin[c].id = id
                       /\ fin'[c].pc = "idle" /\ fin'[c].reply = "500"

\* The process dies under a request, between its write and its event.
RequestIsCutOff(id) ==
    /\ crashes' > crashes
    /\ \E c \in Clients : fin[c].pc = "publish" /\ fin[c].id = id

\* No maintenance is completed, and no event dropped, without one of these causes:
\* under the fallback not by a worker, without it not by the release cycle, and never by
\* a request that is answered as done or by an orderly exit, through lost and unacked
\* calls, copies of any age and whatever the others write in between
\* (ReleaseOldMaintenances publishes first, FinalizeMaintenance after its write, and
\* main waits for the requests).
SilenceHasACause ==
    [][\A id \in Silent' \ Silent :
          \/ WorkerCompletes(id)
          \/ SendingIsSimulated(id)
          \/ ClientIsTold(id)
          \/ RequestIsCutOff(id)]_vars

\* What maintenance.go says of its statuses: completed and failed are final.
TerminalStaysTerminal ==
    [][\A id \in Ids : IsTerminal(db[id]) => IsTerminal(db'[id])]_vars

--------------------------------------------------------------------------------
(* Liveness. *)

\* A shutdown that has begun ends: neither the pool, whose loop may be waiting for a
\* token, nor a release cycle that keeps failing can hold it up (main, Stop).
ShutdownEnds == phase = "draining" ~> phase = "up"

\* Every row is completed in the end and stays so, through failed writes, stale
\* workers and crashes: the release cycle repairs what the others leave behind.
EventuallyDone ==
    \A id \in Ids : Stored(id) ~> [](db[id].status = "completed")

\* ReleaseOldMaintenances announces what has been in progress or queued for longer
\* than the threshold, so that the vehicle becomes available again.
OldIsAnnounced ==
    \A id \in Ids : id \in ListOldUncompleted ~> id \in announced

\* A client that retries gets the event out, even for a row that is already
\* completed (the idempotency of MarkCompleted).
RetryAnnounces ==
    \A id \in Ids : Stored(id) ~> id \in announced
================================================================================
