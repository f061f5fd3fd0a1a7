# FleetOps maintenance service: specification

TLA+ models of the maintenance microservice, checked with TLC on small
instances, with theorems that TLAPS proves for every value of the constants.
`PROJECT.json` lists the runs, the mutants that show each property can fail, the
line of code behind each definition, the hazards and the findings.

To repeat a check: `tlc -config prod.cfg MCServiceRows`. To repeat a
proof: `tlapm MaintenanceServiceProofs.tla`.

## 1. The system

One Go process. Its state is shared through two remote systems, and no lock,
transaction or version column relates them.

| Part | Code | State | Operations |
|---|---|---|---|
| Maintenance entity | `internal/domain/maintenance.go` | status, completed_at | constructors, MarkInProgress, MarkCompleted, (MarkFailed: unused) |
| Repository | `adapter/repository/postgres_maintenance.go` | table `maintenances` | Create, GetByID, ListByStatus, ListOldUncompleted, UpdateStatus; one statement each |
| Event publisher | `adapter/messaging/sqs_publisher.go`, no-op in `cmd/server/main.go` | SQS queue to the vehicles service | PublishMaintenanceEvent (CREATED, COMPLETED) |
| Worker pool | `service/worker_pool.go` | snapshot, semaphore, a goroutine and a copy per row | tick, dispatch, two writes, exit, end of cycle |
| Release service | `service/release_service.go`, `handler/release_worker.go` | batch of copies | tick, publish, write, per old row |
| Queue service | `service/queue_service.go`, `handler/maintenance_handler.go` | a request and its copy | finalize; queue summary; other reads |
| Incident consumer | `adapter/messaging/sqs_consumer.go`, `service/corrective_service.go` | received batch | receive, parse and filter, insert, publish, delete |
| Preventive scheduler | `service/preventive_service.go` | fetched vehicles, activeVehicles | fetch, two lists, insert and publish per vehicle |
| Vehicle client | `adapter/client/vehicle_client.go`, `domain/vehicle.go` | none | translation of a vehicle, "is it due" |
| Configuration, start | `platform/config/config.go`, `platform/database/postgres.go`, `cmd/server/main.go` | numbers read from the environment | check, connect, start the goroutines |
| Shutdown | `cmd/server/main.go`, the `Stop` methods | where the main goroutine is | drain the requests, wait for the release cycle, signal the rest, exit |
| The rest | router, middleware, DTOs, health, logger, metrics | none that matters here | |

What makes it hard:

* The pool, the release cycle and finalize requests read rows, work on copies
  and write them back with an `UPDATE ... WHERE id` that looks at nothing else.
* Each of them makes a remote call after another (write then publish, publish
  then write, insert then delete), and any of them can fail, take effect and be
  reported as failed, or be the last thing the process does.
* SQS delivers again what is not deleted in time, in any order.
* `SchedulePreventive` checks long before it acts, and runs in the cron goroutine
  and in `POST /simular` at once.
* `USE_MOCK_FALLBACK` (on by default) changes who completes rows and makes the
  publisher report failures as success.
* A shutdown waits for the requests and the release cycle, and for nothing else:
  workers, the consumer and the scheduler are only told, and die with `main`.

What correctness means for each part:

* pool: never more than MAX_WORKERS goroutines, cycles that do not overlap and do not
  get stuck, every listed row processed;
* table: completed_at and status agree; work starts at most once; rows are
  completed in the end; nothing falls back into the queue, and completed is final
  once no worker can start the row any more;
* events: no completion without its event but for a known cause, a 204 that stays
  true, a retry that gets through;
* consumer: an incident is acknowledged only once it is stored, and is handled
  in the end; one row per message, and one more only for a fault that explains it;
* scheduler: due vehicles and only those are taken up, no second active row, and
  where that cannot be kept a cause for each row too many, no event without a row;
* summary: no row that is under maintenance all the while is missing;
* shutdown: it ends, and cuts off no request and no released row;
* configuration: what is accepted does not bring the process down.

## 2. Modules

```
Maintenance            the entity, pure operators
  MaintenanceStore     table, SQS queue, outcomes of calls, clock
    WorkerPool         }
    ReleaseService     } one component each
    QueueService       }
    QueueSummary       }
      MaintenanceService      all four on one store, plus shutdown and crash
        MCMaintenanceService        TLC instance
        MaintenanceServiceProofs    inductive invariant, type and safety theorems
          ShutdownProofs            orderly exit, complete summaries
            AnnouncementProofs      every silent completion has a cause
          LedgerProofs              refinement of MaintenanceLedger, final rows
        ServiceRows                 its rows counted by vehicle, type and status
          MCServiceRows             TLC instance
          ServiceRowsProofs         refinement of ActiveRows
MaintenanceLedger      abstract: what the service promises about a row
ActiveRows             abstract: what the service does to the active rows of a vehicle
IncidentIntake         abstract: what the consumer promises about an incident
IncidentConsumer       messages to corrective rows; refers to IncidentIntake
  MCIncidentConsumer   TLC instance
  ConsumerProofs       no incident is lost, every row is accounted for, refinement
VehicleClient          pure operators on vehicles
  PreventiveScheduler  due vehicles to preventive rows; extends ActiveRows
    MCPreventiveScheduler     TLC instance
    SchedulerProofs           every booking has a cause, no event without a row, due
                              vehicles
Startup                environment variables to running goroutines
  StartupProofs        what can make the process panic
```

**Maintenance, MaintenanceStore.** `db` holds a row's status and whether
`completed_at` is set; the other columns do not decide anything here. A remote
call is one step with an outcome: `ok`, `lost` (not applied, error) or `unacked`
(applied, error). A statement of PostgreSQL is atomic; two are not. `old` is the
clock: the rows past RELEASE_MINUTES_THRESHOLD. Operators named
`...Only`, `...Once`, `...Again` and so on, each commented as a mutant, are
plausible bugs; no next-state relation uses them.

**WorkerPool.** `ProcessQueue` is the tick, the list and the fresh semaphore;
`Dispatch` the loop body, which waits for a token; `TransitionToInProgress` and
`TransitionToCompleted` the two writes of a goroutine, from its own copy;
`WorkerExits` the deferred calls; `CycleEnds` is `wg.Wait`. An empty or failed
list has no action, since it changes nothing.

**ReleaseService.** `ReleaseList`, then per row `ReleasePublish` and
`ReleaseUpdate`: publish first, write second, skip on error.

**QueueService.** `fin[c]` is the request a client has in flight: `FinalizeGet`,
`FinalizeUpdate`, `FinalizePublish`: write first, publish second.

**QueueSummary.** `SummaryReadQueued` and `SummaryReadInProgress` are the two reads
behind `GET /cola`; `rows` is what the first returned, `known` (a history) the rows
under maintenance at that moment.

**MaintenanceService** interleaves them. `Create` is the only creator of rows
here: what the creators do before is the subject of two other modules, and a
row whose INSERT failed is a row that was not created. `Crash` forgets everything
but the table and the queue, at any point.

`phase` is the main goroutine. `Signal` stands for the moment at which
`server.Shutdown` has closed the listener and the idle connections, which is when
the last request has begun; what runs between SIGTERM and that moment runs as
before. `Drained` is its return, `ReleaseWorkerQuits` the release goroutine's
`return` in its select, `ReleaseWorkerStopped` the end of `wg.Wait`, and `Exit` the
end of `main`. The pool's, the consumer's and the scheduler's `Stop` only close a
channel, and a worker goes on until `Exit`: what it tries on the closed connection
pool fails before it reaches the table. `Exit` is followed by the next start. A
shutdown that takes more than 30 s ends in `os.Exit` and is a `Crash`.

**MaintenanceLedger** is the abstract specification. A row goes from nothing to
queued, may be started as long as it is `startable`, and completed any number of
times. `startable` says exactly how far the real program deviates from the state
machine that `maintenance.go` draws: a row that is completed while it is
startable may still be put in progress once. The refinement maps `startable` to
the queued rows and those a worker holds an unwritten copy of. `Settled` are the
completed rows that are not startable: they stay so (`SettledRowsStaySettled`).

**ActiveRows, ServiceRows.** The scheduler sees of the other goroutines what they do
to the number of active rows of a vehicle. `ActiveRows` says what that may be:
`InsertRow`, `StartRow`, `CompleteRow`, and `ReopenRow` for the worker that puts a
completed row back in progress. `stale` holds the vehicles and types of which a
worker holds a queued copy of a row that has left the queue; several copies count
once, so that using one up need not remove it. `ServiceRows` gives each row of
MaintenanceService its vehicle and type (`Of`), counts the rows by them and by
status, and states that the service implements ActiveRows. `Ids` is finite there,
since a count needs a bound. PreventiveScheduler takes ActiveRows for its
environment, which is thus not only assumed.

**IncidentConsumer.** The queue is external and modelled from how the consumer
uses it: `Receive` hides messages, `Redeliver` shows them again, `DeleteMessage`
ends them. A standard queue may in rare cases deliver a message again after its
deletion has succeeded; that is a property of SQS which nothing in the code looks at,
and it is assumed not to happen. `troubles` is a history variable: it counts what may lead to a message
being handled once more (an INSERT applied with an error, a failed deletion, a
crash). A message is of one of four kinds, which are the ways through
`processMessage`. The severity that is drawn at random decides nothing and is
left out.

**IncidentIntake** is the consumer's abstract specification: at-least-once handling.
Only a pending grave message makes a row, only a row lets its event out, and a
message is acknowledged only when nothing is left to do for it. The refinement
forgets batches, visibility, redelivery, counters and crashes; a message is pending
from its first send to its deletion, wherever it is in between.

**VehicleClient, PreventiveScheduler.** A date is absent, invalid or so many
hours ago; `WholeDays` rounds as Go converts. `Due` states the meaning without
the translation, and the scheduler is checked against it. The days threshold may be
any integer, as `config.go` accepts any; with one of 0 or less a vehicle whose date is
missing or unreadable is due, because its service counts as done now.

A run's `todo` is what the loop has still to handle of the fetched vehicles that are
due. It is a set: vehicles are known by their plates, and entries of one response that
share a plate are taken to agree in the rest. `PlatesRepeat` admits such entries:
`Create` may leave the vehicle in `todo`, to be met again, and nothing tells the run
that it has booked it (`activeVehicles` is not written in the loop).

The rest of the service is ActiveRows: `RowsMove` (started, completed, given up),
`RowReopens`, and of the inserts those of corrective rows (`CorrectiveIsInserted`), by
the consumer or `/simular`; preventive rows are the scheduler's own (`Create`).
`MayReopen` admits the copies in `stale`, which MaintenanceService has
(`TerminalStaysTerminal`).

`troubles` is a history variable and guards nothing: it counts, per vehicle, what can
give it a row too many: a failed ListByStatus of a run that has the vehicle in its
`todo`, a repeated plate, a preventive row that is reopened. It stops at `MaxTroubles`,
beyond which nothing is claimed.

**Startup.** `LoadDatabaseConfig` to `LoadJWTConfig` are the parts of `Load` in
their order, `Connect` the connection pool, then the starts in `main`, each with
what the started goroutine does first (`NewTicker`, `FirstCycle`). A number is
known by its sign and by whether it is `excessive`: too large for an int32, or so
large that the product with `time.Second` wraps around, after which the Duration may
have any sign. What happens after a successful start is the subject of the other
modules, which assume MAX_WORKERS of at least 0.

## 3. Runs

| Run | Instance | Shows |
|---|---|---|
| prod | 2 rows of 1 vehicle, 1 worker, 1 client, 1 crash, all faults, no fallback | TypeOK, CompletedAtMatchesStatus, NoContentMeansDone, ImplementsLedger, ImplementsActiveRows, SettledRowsStaySettled, SilenceHasACause, Bulkhead, EventuallyDone |
| mock | 2 rows, 1 worker, 1 client, all faults, fallback, 1 SIGTERM, 1 crash | SilenceHasACause, NothingIsCutOff, ShutdownEnds |
| pool | 3 rows, 2 workers, fallback, 1 crash, all faults of writes | Bulkhead, PoolIsNeverStuck, EveryListedRowIsProcessed, OldIsAnnounced |
| retry | 1 row, 2 clients that retry, 1 reader, 1 SIGTERM, 1 crash, all faults | SummaryMissesNothing, RetryAnnounces |
| consumer | 2 messages of any kind, 2 incidents, 1 crash, all faults, expiry | TypeOK, AcknowledgedIsStored, OneRowPerMessage, ImplementsIntake, EveryIncidentIsHandled |
| scheduler_cron | cron and a simulation at once, 1 vehicle, 1 crash, all faults, failing reads, reopened rows, repeated plates | TypeOK, BookingsAreAccountedFor, EventsAreForBookings |
| scheduler_due | cron alone, 1 vehicle with 17 descriptions, all faults, failing reads, reopened rows, 1 crash | DueVehiclesAreTakenUp, DueVehiclesAreBooked |
| reopened | violation | TerminalStaysTerminal |
| silent_completion | violation | OldIsAnnounced without the fallback |
| double_booking_race | violation | NoDoubleBooking with cron and /simular |
| double_booking_outage | violation | NoDoubleBooking with failing reads |
| startup | violation: every combination of variables | AcceptedValuesAreValid |

**Bounds.** Two rows are enough for two rows to be in different hands, and for a
batch or a snapshot with a next item; three rows against two workers make the loop
wait for a token while another row is still listed. Two clients can race for one
row. One crash is enough to leave any state behind, as the process keeps nothing
across it; nothing forbids a second at once but the bound. One signal (`MaxStops`)
can meet every state of the requests and of the release cycle, and the process that
is started after it is the one there was before. The summary's promise is about one
row and one reader at a time, so one of each will do. Two messages can be about one
incident or two, arrive in either order, and one of them twice. Rows and troubles
are counted up to `MaxRows` = 2, so TLC can see OneRowPerMessage fail only for one
message that made two rows without any trouble; the theorem has no such limit. In
`prod` both rows are of one vehicle and type, so that two rows and two copies can
count together. In the scheduler, what is promised about bookings is promised vehicle
by vehicle, and one will do. `MaxRows` is 2 where one active row is the promise. In
`scheduler_cron` it is 3 and `MaxTroubles` 2: two runs overlap, so three active rows
are too many without a trouble and four with one; from the second trouble on the run
promises nothing, while the theorem holds for any `MaxTroubles`. The descriptions of a vehicle (`Boundaries`) are one on
each side of every condition.

CHECK_DEADLOCK FALSE is set where the system may come to rest: with no client
(`pool`, `silent_completion`) once every row is completed and old, in the
consumer once every message is deleted, and in `startup` once the process has
ended or serves.

**Fairness.** Goroutines that can run do (weak fairness of the pool, of the
release cycle and of accepted requests), the clock goes on, tickers tick. A call
that is repeated for ever succeeds now and then (strong fairness of the `ok`
outcome of exactly the calls that are repeated: the release cycle's publish and
write, the consumer's receive, insert and delete, the scheduler's insert, and a
retrying client's calls in `RetrySpec`). A worker's writes get no such promise,
nor does the creation of rows or the arrival of requests. A shutdown goes on when it
can. The select of the release goroutine chooses at random between a tick and the
closed channel, so `ReleaseWorkerQuits` has strong fairness: it is not enabled while
a cycle runs, and a tick may win any number of times but not for ever. The vehicles
service is assumed to answer now and then; the scheduler's reads of the table are not.

## 4. Findings

* **A completed row can be put back in progress** (`reopened`). A worker writes
  from its snapshot. The release cycle completes the row again later, so
  EventuallyDone still holds; a client that was told 204 may see `in_progress`
  meanwhile, which is why NoContentMeansDone allows it.
* **Without the mock fallback, completion is silent** (`silent_completion`).
  Workers publish nothing and the release query skips completed rows.
  SilenceHasACause lists this with the other ways in which an event gets lost.
* **Vehicles are booked twice** by a run of the scheduler beside another
  (`double_booking_race`) and after a failed read (`double_booking_outage`);
  BookingsAreAccountedFor says what is left of the promise.
* **Accepted values panic** (`startup`). `Load` takes 0 and negative numbers for
  WORKER_POLL_INTERVAL_SECONDS and CRON_INTERVAL_MINUTES, and negative ones for
  MAX_WORKERS; only RELEASE_POLL_INTERVAL_SECONDS is compared with 0.

Two places where the documents and the code differ without a run: `.env.example`
sets CRON_INTERVAL_DAYS (line 41) and PREVENTIVE_KM_THRESHOLD (line 44), which nothing
reads (the code reads CRON_INTERVAL_MINUTES, by default 1, and a KM_THRESHOLD per
type), and the list in `handler/router.go:22` has
`POST /api/v1/mantenimientos`, which is not routed.

## 5. Proofs

For every value of the constants: any rows (`Ids`, positive numbers), clients,
MAX_WORKERS, messages, vehicles and schedulers, every choice of faults and flags
and any number of crashes:

| Theorem | States |
|---|---|
| TypesAreCorrect | `Spec => []TypeOK` |
| BulkheadHolds | `Spec => []Bulkhead` |
| PoolNeverDeadlocks | `Spec => []PoolIsNeverStuck`, with MaxWorkers > 0 |
| PoolWithoutWorkersIsStuck | `Spec => StuckUntilTheEnd`, with MaxWorkers = 0 |
| CompletedAtIsRight | `Spec => []CompletedAtMatchesStatus` |
| NoContentIsKept | `Spec => []NoContentMeansDone` |
| OrderlyExit | `Spec => []NothingIsCutOff` |
| SummaryIsComplete | `Spec => []SummaryMissesNothing` |
| NobodyCompletesSilently | `Spec => SilenceHasACause` |
| ServiceImplementsLedger | `Spec => ImplementsLedger` |
| CompletedIsFinalOnceSettled | `Spec => SettledRowsStaySettled` |
| ServiceImplementsActiveRows | `Spec => ImplementsActiveRows`, for finitely many rows |
| ConsumerTypesAreCorrect | `Spec => []TypeOK` |
| NoIncidentIsLost | `Spec => []AcknowledgedIsStored` |
| EveryRowIsAccountedFor | `Spec => []OneRowPerMessage` |
| ConsumerImplementsIntake | `Spec => ImplementsIntake` |
| SchedulerTypesAreCorrect | `Spec => []TypeOK` |
| BookingsHaveACause | `Spec => []BookingsAreAccountedFor` |
| NoEventWithoutRow | `Spec => []EventsAreForBookings` |
| DueVehiclesAreRecognized | `Spec => DueVehiclesAreTakenUp` |
| PanicsAreExplained | `Spec => [](TypeOK /\ PanicHasACause)` of Startup |

None of the invariants is inductive alone.

*The composed service.* `Inv` in `MaintenanceServiceProofs` is
the conjunction of

* `TypeOK`;
* `BulkheadInv`: Bulkhead and the finiteness of the running goroutines, without
  which counting them means nothing (the rows may be infinitely many, each cycle
  has finitely many goroutines because it has finitely many tokens); a full
  semaphore thus means a running goroutine, which is PoolNeverDeadlocks;
* `CopiesConsistent`: every copy in a worker, a batch or a request has
  completed_at exactly when it is completed, since UpdateStatus writes both
  columns from it;
* `WorkersHoldRows`, `BatchHoldsRows`, `RequestsHoldRows`: who is past its first
  call works on a row that exists, and past its first write on one that has left
  the queue. A 204 stays true because no write ever says "queued".

`OInv` in `ShutdownProofs` adds `Orderly` (once the main goroutine is past
server.Shutdown no request is in flight, a release goroutine between cycles has no
batch, and past its Stop it is stopped) and `SummaryHasSeen` (a row that was under
maintenance at the first read is in the first list, or no longer queued, because
nothing puts a row back in the queue). What is uncompleted at the second read and
not in the first list is then in progress.

`NobodyCompletesSilently` adds `AnnouncedFirst`: a worker never gets to write
`completed` when `USE_MOCK_FALLBACK` is set, and a batch item whose write is due has
been announced unless the publisher only simulates. It needs no assumption: the cases
in which the program does complete a row without its event are the disjuncts of
`SilenceHasACause`, and the proof shows that there is no fifth. An orderly exit is none
of them, since by `Orderly` no request is cut off by it; an `unacked` write of a
request is one, and its client has a 500.
`ServiceImplementsLedger` uses `Inv` and goes through the actions, one ledger step
or stutter each. `CompletedIsFinalOnceSettled` is then a fact about the ledger
alone: none of its steps unsettles a row (`LedgerKeepsSettledRows`).

`ServiceImplementsActiveRows` adds `HoldersSeeTwoStatuses`: a worker that will write
in_progress has a row that is queued, or completed by now, since it is the only one
that writes anything else. A step changes at most one row, and the proof has two
halves: the actions are sorted by what they do to that row (`Sorted`: it is inserted,
started, completed, written again from a copy, or a copy is given up), and each sort
is a step of ActiveRows or a stutter, because the counts change by one element of a
finite set (`OneCountMoves`, `CountsFollowRow`).

*The consumer.* `CInv` adds `InHandIsStored`: once the INSERT is behind the loop,
a grave message in hand has its row. An INSERT that failed never leads to the
deletion, and rows are only ever added. `RInv` adds `RowsAreAccountedFor`: the rows
of an incident are at most its grave messages that are past their INSERT, plus the
troubles. The step that matters is the deletion: a message leaves the loop either
deleted, or with a trouble counted. It needs that the message in hand is not
deleted yet and that only grave messages are inserted (`WorkFitsMessage`, by which
`ConsumerImplementsIntake` also knows that no incomplete message is deleted).

*The scheduler.* `BInv` adds, for every vehicle, `RoomForBookings`. `MayBook` are the
runs that have found it in neither list and may insert a row for it, `SawNoneQueued`
those that have read the first list without it. The active rows and the runs in
`MayBook` together are never more than there are schedulers and troubles, and neither
are the queued rows and the runs in either set. A run enters `SawNoneQueued` when no
row is queued, and `MayBook` when none is in progress, so that what is active then is
queued and the second count pays for the first. A row that leaves the queue in between
makes room in the second count and none in the first. The two reads the other way round
would break it (mutant `ReadActiveSwapped`).

What the two lists do not show is paid for by a trouble: a run that enters one of the
sets after a failed read (`TroublePaysForRun`), one that stays in `MayBook` after its
INSERT because the plate comes again, and a row that a worker reopens
(`TroublePaysForRow`). The theorem thus has no hypothesis about the reads or about the
workers; it takes its environment from ActiveRows with `MayReopen` TRUE, for which
ServiceImplementsActiveRows is proved. With one scheduler and no trouble it is
NoDoubleBooking, which is in no passing run, since double_booking_race and
double_booking_outage show that the code does not keep it otherwise.

NoEventWithoutRow adds that a run about to publish has booked the vehicle.
DueVehiclesAreRecognized rests on the arithmetic of `WholeDays` (lemma
WholeDaysReachThreshold), which has a case for thresholds above 0 and one for the rest.
That dates have one of the three forms is the assumption FleetHasDates of the module.

*Startup.* `StartupInv` adds that the release interval is positive or excessive
once it has been loaded, and that no goroutine runs before; from there each place
that can panic names its number.

The other assumptions on constants are the named ASSUMEs of the modules, which TLC
evaluates in the runs.

Model-checked only: everything temporal with `~>`, `[]<>` or fairness
(EventuallyDone, OldIsAnnounced, ShutdownEnds, EveryListedRowIsProcessed,
RetryAnnounces, EveryIncidentIsHandled, DueVehiclesAreBooked), which is out of the
prover's reach.

## 6. Not modelled

* Router and middleware (JWT verification, logging, counters, recovery), DTOs, the
  health handler, logger and metrics: they wrap one request, or set up libraries,
  and keep no state that a later request or goroutine decides by.
* GetByID, ListAll and the report: one read of the table each, and no change.
* MAX_WORKERS = 0 in a run: the configuration accepts it, and what it does is proved
  instead (PoolWithoutWorkersIsStuck: the polling goroutine blocks on an unbuffered
  channel, and no listed row gets its goroutine until the process ends).
* The order of the CREATED and COMPLETED events of one row: a row can be finalized
  between its INSERT and its CREATED event. No text of the repository states the
  order, and the vehicles service is outside it.
* What becomes of a message that can never be stored: the redrive policy of the
  queue is configured outside the repository.
* MarkFailed: no code calls it, so no row of the running program is failed.
* The severity of an incident, texts and timestamps other than the release
  threshold: nothing modelled here depends on them.

## 7. Plan

Done: the core (store, pool, release, finalize, their composition, its abstract
ledger, its proofs), the consumer and the scheduler as components of their own, the
orderly shutdown, the queue summary, the start of the process, reopened rows in the
scheduler, overlapping runs, the causes of lost events and of double bookings, the abstract specifications of the consumer and of the
scheduler's environment with the proofs that they are implemented, and theorems for
every safety property the passing runs check.

Left, should it become worth while:

1. The consumer and the scheduler on one table with MaintenanceService, in place of
   its `Create`; so far each is related to it by an abstract specification
   (ActiveRows) or by the row it inserts.
2. Creation in two steps (INSERT, then CREATED event) in that composition, once the
   vehicles service's reading of the two events is known.
