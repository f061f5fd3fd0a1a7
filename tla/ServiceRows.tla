------------------------------ MODULE ServiceRows ------------------------------
(* The service as the preventive scheduler sees it: MaintenanceService, its rows
   counted by vehicle, type and status, implements ActiveRows.  This is what entitles
   PreventiveScheduler to put ActiveRows in the place of worker pool, release cycle
   and finalize requests. *)
EXTENDS MaintenanceService

CONSTANTS
    Vehicles,  \* vehicles, by plate
    Of         \* the vehicle and the type of each maintenance

ASSUME OfIsGiven == Of \in [Ids -> Vehicles \X {"preventive", "corrective"}]
ASSUME IdsAreFinite == IsFiniteSet(Ids)

\* The rows of a vehicle and type in one status.
RowsOf(v, t, st) == {id \in Ids : Of[id] = <<v, t>> /\ db[id].status = st}

RowCounts ==
    [v \in Vehicles |-> [t \in {"preventive", "corrective"} |->
        [st \in {"queued", "in_progress"} |-> Cardinality(RowsOf(v, t, st))]]]

\* The workers that will write in_progress to a row that has left the queue.
HoldsStaleCopy(id) ==
    worker[id] \in {"listed", "starting"} /\ db[id].status # "queued"

StaleCopies == {Of[id] : id \in {i \in Ids : HoldsStaleCopy(i)}}

\* Whatever workers, release cycle, requests, crashes and shutdowns do to a row, and
\* from copies however old, is one of the things the scheduler's model expects of its
\* environment: no row becomes active but by its INSERT or by a worker that still holds
\* a copy of it from when it was queued, and no row that has left the queue is queued
\* again between the scheduler's two reads (UpdateStatus, processQueue).
RowsSeen == INSTANCE ActiveRows
               WITH rows <- RowCounts, stale <- StaleCopies,
                    MayReopen <- TRUE, MaxRows <- Cardinality(Ids)

ImplementsActiveRows == RowsSeen!RowsSpec
================================================================================
