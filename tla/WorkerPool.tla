------------------------------- MODULE WorkerPool -------------------------------
(* The worker pool of internal/service/worker_pool.go: one polling goroutine that
   takes a snapshot of the queued rows, starts a goroutine for each of them under
   a semaphore of MaxWorkers tokens (the bulkhead), and waits for all of them
   before it polls again.  A goroutine works on its own copy of the row: what the
   row holds when the copy is written back is never looked at.

   A failed ListByStatus and an empty list leave everything as it was, so neither
   has an action. *)
EXTENDS MaintenanceStore, FiniteSets

CONSTANT MaxWorkers  \* MAX_WORKERS, which the configuration accepts from 0 up

ASSUME MaxWorkersIsNat == MaxWorkers \in Nat

VARIABLES
    poller,     \* the polling goroutine: waiting for a tick, or in processQueue
    worker,     \* where the goroutine of each row is
    copy,       \* the *Maintenance that goroutine holds
    semaphore   \* tokens taken from the channel of the running cycle

poolVars == <<poller, worker, copy, semaphore>>

\* "listed"    in the snapshot, no goroutine yet
\* "starting"  about to write in_progress
\* "finishing" about to write completed
WorkerState == {"none", "listed", "starting", "finishing"}

PoolTypeOK ==
    /\ poller \in {"waiting", "dispatching"}
    /\ worker \in [Ids -> WorkerState]
    /\ copy \in [Ids -> Slot]
    /\ semaphore \in Nat

PoolInit ==
    /\ poller = "waiting"
    /\ worker = [id \in Ids |-> "none"]
    /\ copy = [id \in Ids |-> NoRow]
    /\ semaphore = 0

Listed == {id \in Ids : worker[id] = "listed"}
Running == {id \in Ids : worker[id] \in {"starting", "finishing"}}

\* Mutant: rows that got stuck in progress are listed again.
ProcessQueueAgain ==
    LET queued == ListByStatus("queued") \cup ListByStatus("in_progress")
    IN  /\ poller = "waiting"
        /\ queued # {}
        /\ poller' = "dispatching"
        /\ worker' = [id \in Ids |-> IF id \in queued THEN "listed" ELSE "none"]
        /\ copy' = [id \in Ids |-> IF id \in queued THEN db[id] ELSE NoRow]
        /\ semaphore' = 0
        /\ UNCHANGED storeVars

\* A tick: the snapshot of the queue, and a fresh semaphore.
ProcessQueue ==
    LET queued == ListByStatus("queued")
    IN  /\ poller = "waiting"
        /\ queued # {}
        /\ poller' = "dispatching"
        /\ worker' = [id \in Ids |-> IF id \in queued THEN "listed" ELSE "none"]
        /\ copy' = [id \in Ids |-> IF id \in queued THEN db[id] ELSE NoRow]
        /\ semaphore' = 0
        /\ UNCHANGED storeVars

\* Mutants: the goroutine is started without taking a token, or without waiting
\* for one to be free.
DispatchWithoutToken(id) ==
    /\ poller = "dispatching"
    /\ IsFirst(id, Listed)
    /\ worker' = [worker EXCEPT ![id] = "starting"]
    /\ UNCHANGED <<poller, copy, semaphore>>
    /\ UNCHANGED storeVars

DispatchUnlimited(id) ==
    /\ poller = "dispatching"
    /\ IsFirst(id, Listed)
    /\ semaphore' = semaphore + 1
    /\ worker' = [worker EXCEPT ![id] = "starting"]
    /\ UNCHANGED <<poller, copy>>
    /\ UNCHANGED storeVars

\* The next item of the snapshot gets a token and a goroutine; with no token left
\* the loop blocks on the channel.
Dispatch(id) ==
    /\ poller = "dispatching"
    /\ IsFirst(id, Listed)
    /\ semaphore < MaxWorkers
    /\ semaphore' = semaphore + 1
    /\ worker' = [worker EXCEPT ![id] = "starting"]
    /\ UNCHANGED <<poller, copy>>
    /\ UNCHANGED storeVars

\* Mutant: the deferred release of the token is forgotten.
WorkerExitsWithToken(id) ==
    /\ worker' = [worker EXCEPT ![id] = "none"]
    /\ copy' = [copy EXCEPT ![id] = NoRow]
    /\ UNCHANGED <<poller, semaphore>>

\* The deferred calls of the goroutine: the token goes back, the wait group counts down.
WorkerExits(id) ==
    /\ worker' = [worker EXCEPT ![id] = "none"]
    /\ copy' = [copy EXCEPT ![id] = NoRow]
    /\ semaphore' = semaphore - 1
    /\ UNCHANGED poller

\* Mutant: the early return under USE_MOCK_FALLBACK is dropped.
TransitionAndGoOn(id, res) ==
    LET m == MarkInProgress(copy[id])
    IN  /\ worker[id] = "starting"
        /\ UpdateStatus(id, m, res)
        /\ IF res # "ok"
           THEN WorkerExits(id)
           ELSE /\ worker' = [worker EXCEPT ![id] = "finishing"]
                /\ copy' = [copy EXCEPT ![id] = m]
                /\ UNCHANGED <<poller, semaphore>>

\* in_progress is written; then the goroutine goes on to complete the row, unless
\* the write failed or USE_MOCK_FALLBACK leaves the row to the release service.
TransitionToInProgress(id, res) ==
    LET m == MarkInProgress(copy[id])
    IN  /\ worker[id] = "starting"
        /\ IF ~ CanMarkInProgress(copy[id])
           THEN WorkerExits(id) /\ UNCHANGED storeVars
           ELSE /\ UpdateStatus(id, m, res)
                /\ IF res # "ok" \/ UseMockFallback
                   THEN WorkerExits(id)
                   ELSE /\ worker' = [worker EXCEPT ![id] = "finishing"]
                        /\ copy' = [copy EXCEPT ![id] = m]
                        /\ UNCHANGED <<poller, semaphore>>

\* completed is written.  No event is published on this path.
TransitionToCompleted(id, res) ==
    /\ worker[id] = "finishing"
    /\ IF CanMarkCompleted(copy[id])
       THEN UpdateStatus(id, MarkCompleted(copy[id]), res)
       ELSE UNCHANGED storeVars
    /\ WorkerExits(id)

\* wg.Wait returns.
CycleEnds ==
    /\ poller = "dispatching"
    /\ \A id \in Ids : worker[id] = "none"
    /\ poller' = "waiting"
    /\ UNCHANGED <<worker, copy, semaphore>>
    /\ UNCHANGED storeVars

PoolNext ==
    \/ ProcessQueue
    \/ \E id \in Ids : Dispatch(id)
    \/ \E id \in Ids, res \in DbOutcomes : TransitionToInProgress(id, res)
    \/ \E id \in Ids, res \in DbOutcomes : TransitionToCompleted(id, res)
    \/ CycleEnds

--------------------------------------------------------------------------------
\* The bulkhead holds: the tokens taken are exactly the running goroutines, they
\* are never more than MAX_WORKERS, and no goroutine outlives its cycle, so that
\* two cycles never work on the queue at once (processQueue's semaphore and wait).
Bulkhead ==
    /\ Cardinality(Running) = semaphore
    /\ semaphore <= MaxWorkers
    /\ poller = "waiting" => Listed \cup Running = {}

\* The polling goroutine never waits for a token that nobody will give back: as long as
\* a cycle has rows to start, a goroutine that will give its token back is running, or
\* a token is free, whichever transitions fail (the deferred release in processQueue).
PoolIsNeverStuck ==
    poller = "dispatching" => Listed = {} \/ Running # {} \/ semaphore < MaxWorkers

\* Every row a cycle fetched is processed to the end of its goroutine
\* (worker_pool.go: "fetches queued maintenances and processes them").
EveryListedRowIsProcessed ==
    \A id \in Ids : worker[id] = "listed" ~> worker[id] = "none"
================================================================================
