-------------------------- MODULE PreventiveScheduler --------------------------
(* SchedulePreventive of internal/service/preventive_service.go, run by the cron
   goroutine and, through POST /simular, by a request at the same time.  A run
   fetches the vehicles, reads which of them have a queued row, then which have a
   row in progress, and inserts a row and publishes a CREATED event for every due
   vehicle it saw in neither list.  Nothing holds the table still in between.

   The environment is the rest of the service, reduced to what it does to active
   rows (ActiveRows, which MaintenanceService implements, and the corrective rows of
   the consumer), and the vehicles service, whose vehicles change as they please. *)
EXTENDS VehicleClient, ActiveRows, FiniteSets

CONSTANTS
    Schedulers,     \* who may be running SchedulePreventive
    Fleet,          \* what the vehicles service may say of a vehicle
    CreateFaults,   \* what an INSERT may do besides "ok"
    EventFaults,    \* what SendMessage may do besides "ok"
    ListMayFail,    \* a ListByStatus may fail
    PlatesRepeat,   \* a response may name a plate more than once
    MaxCrashes,     \* bound on the crashes
    MaxTroubles     \* bound on the troubles that are counted

ASSUME SchedulerFaultsAreKnown ==
    /\ CreateFaults \subseteq {"lost", "unacked"}
    /\ EventFaults \subseteq {"lost", "unacked"}
    /\ ListMayFail \in BOOLEAN
    /\ MayReopen \in BOOLEAN
    /\ PlatesRepeat \in BOOLEAN
ASSUME FleetHasDates ==
    \A ev \in Fleet : ev.fechaUltimoMant \in Date /\ ev.creadoEn \in Date
ASSUME SchedulersAreFinite == IsFiniteSet(Schedulers)
ASSUME SchedulerBounds ==
    MaxRows \in Nat \ {0} /\ MaxCrashes \in Nat /\ MaxTroubles \in Nat

VARIABLES
    fleet,      \* what the vehicles service says of each vehicle
    booked,     \* vehicles a preventive row was ever inserted for
    created,    \* vehicles whose CREATED event has reached SQS
    run,        \* per scheduler: its next step and the vehicle it is busy with
    todo,       \* per scheduler: fetched, due and not handled yet
    active,     \* per scheduler: activeVehicles
    troubles,   \* per vehicle, history: how often its rows escaped a run (see TroubleWith)
    crashes

envVars == <<fleet, stale, crashes>>
runVars == <<booked, created, run, todo, active>>
vars == <<fleet, rows, stale, booked, created, run, todo, active, troubles, crashes>>

NoVehicle == "none"
Steps == {"waiting", "readQueued", "readInProgress", "evaluate", "publish"}

TypeOK ==
    /\ RowsTypeOK
    /\ fleet \in [Vehicles -> Fleet]
    /\ booked \subseteq Vehicles
    /\ created \subseteq Vehicles
    /\ run \in [Schedulers -> [step : Steps, of : Vehicles \cup {NoVehicle}]]
    /\ todo \in [Schedulers -> SUBSET Vehicles]
    /\ active \in [Schedulers -> SUBSET Vehicles]
    /\ troubles \in [Vehicles -> 0 .. MaxTroubles]
    /\ crashes \in 0 .. MaxCrashes

At(step) == [step |-> step, of |-> NoVehicle]

Init ==
    /\ RowsInit
    /\ fleet \in [Vehicles -> Fleet]
    /\ booked = {}
    /\ created = {}
    /\ run = [s \in Schedulers |-> At("waiting")]
    /\ todo = [s \in Schedulers |-> {}]
    /\ active = [s \in Schedulers |-> {}]
    /\ troubles = [v \in Vehicles |-> 0]
    /\ crashes = 0

WithRow(status) == {v \in Vehicles : \E t \in Types : rows[v][t][status] > 0}

(* What can make a run book a vehicle that has a row, or give it a row without any
   run: a ListByStatus that fails, a response that names the plate again, a completed
   row that a worker reopens.  Counted up to MaxTroubles; the count guards nothing. *)
TroubleWith(V) ==
    troubles' = [v \in Vehicles |-> IF v \in V /\ troubles[v] < MaxTroubles
                                    THEN troubles[v] + 1 ELSE troubles[v]]

--------------------------------------------------------------------------------
(* A run of SchedulePreventive. *)

\* GetAllVehicles: the vehicles with an idVehiculo.
GetAllVehicles == {v \in Vehicles : fleet[v].idVehiculo # ""}

\* What the loop asks of a vehicle for its own sake: that it is due, and has the
\* name without which NewPreventiveMaintenance makes no row.
IsTakenUp(v) ==
    LET vehicle == MapVehicle(fleet[v])
    IN  NeedsPreventiveMaintenance(vehicle) /\ vehicle.ID # ""

\* A failed fetch ends the run.
FetchVehicles(s) ==
    /\ run[s] = At("waiting")
    /\ todo' = [todo EXCEPT ![s] = {v \in GetAllVehicles : IsTakenUp(v)}]
    /\ run' = [run EXCEPT ![s] = At("readQueued")]
    /\ UNCHANGED <<envVars, rows, booked, created, active, troubles>>

\* Mutant: the two reads the other way round.
ReadActiveSwapped(s, status, next, ok) ==
    LET other == CHOOSE st \in ActiveStatus : st # status
    IN  /\ ok \/ ListMayFail
        /\ active' = [active EXCEPT ![s] = @ \cup (IF ok THEN WithRow(other) ELSE {})]
        /\ run' = [run EXCEPT ![s] = At(next)]
        /\ TroubleWith(IF ok THEN {} ELSE todo[s])
        /\ UNCHANGED <<envVars, rows, booked, created, todo>>

\* One of the two ListByStatus; an error is ignored and the list taken as empty.
ReadActive(s, status, next, ok) ==
    /\ ok \/ ListMayFail
    /\ active' = [active EXCEPT ![s] = @ \cup (IF ok THEN WithRow(status) ELSE {})]
    /\ run' = [run EXCEPT ![s] = At(next)]
    /\ TroubleWith(IF ok THEN {} ELSE todo[s])
    /\ UNCHANGED <<envVars, rows, booked, created, todo>>

ReadQueued(s, ok) ==
    run[s] = At("readQueued") /\ ReadActive(s, "queued", "readInProgress", ok)

ReadInProgress(s, ok) ==
    run[s] = At("readInProgress") /\ ReadActive(s, "in_progress", "evaluate", ok)

\* continue: the vehicle is in one of the lists.
SkipActive(s, v) ==
    /\ run[s] = At("evaluate")
    /\ v \in todo[s] \cap active[s]
    /\ todo' = [todo EXCEPT ![s] = @ \ {v}]
    /\ UNCHANGED <<envVars, rows, booked, created, run, active, troubles>>

\* The effect of an INSERT; MaxRows bounds the count.
Insert(v, res) ==
    IF res = "lost" THEN UNCHANGED <<rows, booked>>
    ELSE /\ rows' = IF rows[v]["preventive"]["queued"] = MaxRows THEN rows
                    ELSE [rows EXCEPT ![v]["preventive"]["queued"] = @ + 1]
         /\ booked' = booked \cup {v}

\* One entry of the response less, unless it names the plate again.
Handled(s, v, again) ==
    /\ again => PlatesRepeat
    /\ todo' = [todo EXCEPT ![s] = IF again THEN @ ELSE @ \ {v}]
    /\ TroubleWith(IF again THEN {v} ELSE {})

\* Mutant: the continue after a failed INSERT is missing.
CreateAndGoOn(s, v, res, again) ==
    /\ run[s] = At("evaluate")
    /\ v \in todo[s] \ active[s]
    /\ Insert(v, res)
    /\ Handled(s, v, again)
    /\ run' = [run EXCEPT ![s] = [step |-> "publish", of |-> v]]
    /\ UNCHANGED <<envVars, created, active>>

\* The row is inserted, and the run's own list not told; after an error the loop goes
\* on with the next vehicle.
Create(s, v, res, again) ==
    /\ run[s] = At("evaluate")
    /\ v \in todo[s] \ active[s]
    /\ Insert(v, res)
    /\ Handled(s, v, again)
    /\ run' = IF res = "ok" THEN [run EXCEPT ![s] = [step |-> "publish", of |-> v]]
              ELSE run
    /\ UNCHANGED <<envVars, created, active>>

\* The CREATED event; a failure is only logged.
PublishCreated(s, v, res) ==
    /\ run[s] = [step |-> "publish", of |-> v]
    /\ created' = IF res = "lost" THEN created ELSE created \cup {v}
    /\ run' = [run EXCEPT ![s] = At("evaluate")]
    /\ UNCHANGED <<envVars, rows, booked, todo, active, troubles>>

\* Mutant: the map of active vehicles outlives its run.
RunEndsKeepingMap(s) ==
    /\ run[s] = At("evaluate")
    /\ todo[s] = {}
    /\ run' = [run EXCEPT ![s] = At("waiting")]
    /\ UNCHANGED <<envVars, rows, booked, created, todo, active, troubles>>

\* The loop is through; the locals of the run are gone.
RunEnds(s) ==
    /\ run[s] = At("evaluate")
    /\ todo[s] = {}
    /\ run' = [run EXCEPT ![s] = At("waiting")]
    /\ active' = [active EXCEPT ![s] = {}]
    /\ UNCHANGED <<envVars, rows, booked, created, todo, troubles>>

SchedulerStep(s) ==
    \/ FetchVehicles(s)
    \/ \E ok \in BOOLEAN : ReadQueued(s, ok) \/ ReadInProgress(s, ok)
    \/ \E v \in Vehicles : SkipActive(s, v)
    \/ \E v \in Vehicles, res \in {"ok"} \cup CreateFaults, again \in BOOLEAN :
          Create(s, v, res, again)
    \/ \E v \in Vehicles, res \in {"ok"} \cup EventFaults : PublishCreated(s, v, res)
    \/ RunEnds(s)

--------------------------------------------------------------------------------
(* The environment. *)

\* The consumer or /simular inserts a corrective row.
CorrectiveIsInserted ==
    /\ \E v \in Vehicles : InsertRow(v, "corrective")
    /\ UNCHANGED <<fleet, crashes, troubles, runVars>>

\* Workers, clients and the release cycle start and complete the rows of both types;
\* a worker that cannot write gives up its copy.
RowsMove ==
    /\ \E v \in Vehicles, t \in Types :
          \/ StartRow(v, t) \/ GiveUpCopy(v, t)
          \/ \E st \in ActiveStatus : CompleteRow(v, t, st)
    /\ UNCHANGED <<fleet, crashes, troubles, runVars>>

\* A worker writes in_progress over a row that was completed since it listed it.
RowReopens(v, t) ==
    /\ ReopenRow(v, t)
    /\ TroubleWith(IF t = "preventive" THEN {v} ELSE {})
    /\ UNCHANGED <<fleet, crashes, runVars>>

\* Kilometres, dates and availability change in the vehicles service.
VehicleChanges(v, ev) ==
    /\ fleet' = [fleet EXCEPT ![v] = ev]
    /\ UNCHANGED <<rowsVars, runVars, troubles, crashes>>

Crash ==
    /\ crashes < MaxCrashes
    /\ crashes' = crashes + 1
    /\ run' = [s \in Schedulers |-> At("waiting")]
    /\ todo' = [s \in Schedulers |-> {}]
    /\ active' = [s \in Schedulers |-> {}]
    /\ CopiesAreLost
    /\ UNCHANGED <<fleet, booked, created, troubles>>

Next ==
    \/ \E s \in Schedulers : SchedulerStep(s)
    \/ CorrectiveIsInserted
    \/ RowsMove
    \/ \E v \in Vehicles, t \in Types : RowReopens(v, t)
    \/ \E v \in Vehicles, ev \in Fleet : VehicleChanges(v, ev)
    \/ Crash

Spec == Init /\ [][Next]_vars

(* The ticker ticks and the goroutine runs; the vehicles service answers, and an
   INSERT that is tried for ever succeeds, now and then.  The reads of the table
   need not succeed: their errors are ignored. *)
Fairness ==
    \A s \in Schedulers :
       /\ WF_vars(SchedulerStep(s))
       /\ \A v \in Vehicles : SF_vars(Create(s, v, "ok", FALSE))

FairSpec == Spec /\ Fairness

--------------------------------------------------------------------------------
(* Properties. *)

\* "Skip vehicles already in queued or in progress maintenance": a vehicle never
\* has two active preventive rows, although rows move on between the two reads of
\* a run and between the reads and the INSERT (SchedulePreventive).
NoDoubleBooking ==
    \A v \in Vehicles : Active(v, "preventive") <= 1

\* What is left of that promise: every active preventive row of a vehicle beyond the
\* one each run may give it has a cause of its own, a failed read, a repeated plate or
\* a reopened row.  The race of overlapping runs adds nothing beyond their number,
\* however often they run and whatever moves between their reads and their INSERTs:
\* no later run adds to what it sees (SchedulePreventive).
BookingsAreAccountedFor ==
    \A v \in Vehicles :
       troubles[v] < MaxTroubles =>
          Active(v, "preventive") <= Cardinality(Schedulers) + troubles[v]

\* The vehicles service is told of a maintenance only when there is one: no fault
\* and no crash lets a CREATED event out without its row (the continue after Create).
EventsAreForBookings == created \subseteq booked

\* A run takes up exactly the vehicles that are due, at every boundary of dates,
\* kilometres and types (mapVehicle, NeedsPreventiveMaintenance).
DueVehiclesAreTakenUp ==
    [][\A s \in Schedulers :
          run[s].step = "waiting" /\ run'[s].step = "readQueued" =>
             todo'[s] = {v \in Vehicles : Due(fleet[v])}]_vars

\* A vehicle that stays due does not stay without maintenance: over and over it is
\* no longer due, or has an active row (the next run makes up for a failed one).
DueVehiclesAreBooked ==
    \A v \in Vehicles :
       []<>(~ Due(fleet[v]) \/ \E t \in Types : Active(v, t) > 0)
================================================================================
