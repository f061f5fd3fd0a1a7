------------------------------- MODULE ActiveRows -------------------------------
(* What the service does to the active rows of each vehicle, whoever does it, seen by
   counting: rows are inserted queued, workers start them, and workers, clients and
   the release cycle complete them, queued or in progress.

   A worker writes in_progress from the copy it listed.  If the row was completed
   meanwhile, the worker puts it in progress again: the row is active although nobody
   inserted it.  "stale" holds the vehicles and types with such a copy; there may be
   more than one, so that using one up need not be the end of it.

   PreventiveScheduler takes this module for its environment; ServiceRows says that
   MaintenanceService implements it. *)
EXTENDS Naturals

CONSTANTS
    Vehicles,   \* vehicles, by plate
    MayReopen,  \* a row may be completed while a worker holds a queued copy of it
    MaxRows     \* bound on the active rows of one vehicle and type

VARIABLES
    rows,  \* number of active rows of each vehicle, by type and status
    stale  \* <<vehicle, type>> of which a worker holds a queued copy of a completed row

rowsVars == <<rows, stale>>

Types == {"preventive", "corrective"}
ActiveStatus == {"queued", "in_progress"}
Row == [Types -> [ActiveStatus -> 0 .. MaxRows]]

RowsTypeOK ==
    /\ rows \in [Vehicles -> Row]
    /\ stale \subseteq Vehicles \X Types

RowsInit ==
    /\ rows = [v \in Vehicles |-> [t \in Types |-> [st \in ActiveStatus |-> 0]]]
    /\ stale = {}

Active(v, t) == rows[v][t]["queued"] + rows[v][t]["in_progress"]

InsertRow(v, t) ==
    /\ Active(v, t) < MaxRows
    /\ rows' = [rows EXCEPT ![v][t]["queued"] = @ + 1]
    /\ UNCHANGED stale

\* Mutant: a worker takes a row that has left the queue.
StartAnyRow(v, t) ==
    /\ rows[v][t]["in_progress"] < MaxRows
    /\ rows' = [rows EXCEPT ![v][t]["queued"] = @ - 1, ![v][t]["in_progress"] = @ + 1]
    /\ UNCHANGED stale

\* A worker puts a queued row in progress.
StartRow(v, t) ==
    /\ rows[v][t]["queued"] > 0
    /\ rows[v][t]["in_progress"] < MaxRows
    /\ rows' = [rows EXCEPT ![v][t]["queued"] = @ - 1, ![v][t]["in_progress"] = @ + 1]
    /\ UNCHANGED stale

\* A row is completed: by its worker, by a client, or by the release cycle.  If it
\* was still queued, a worker may have listed it before.
CompleteRow(v, t, status) ==
    /\ rows[v][t][status] > 0
    /\ rows' = [rows EXCEPT ![v][t][status] = @ - 1]
    /\ \/ UNCHANGED stale
       \/ MayReopen /\ status = "queued" /\ stale' = stale \cup {<<v, t>>}

\* That worker uses its copy up: it writes in_progress from it ...
ReopenRow(v, t) ==
    /\ <<v, t>> \in stale
    /\ rows[v][t]["in_progress"] < MaxRows
    /\ rows' = [rows EXCEPT ![v][t]["in_progress"] = @ + 1]
    /\ stale' \in {stale, stale \ {<<v, t>>}}

\* ... or fails to.
GiveUpCopy(v, t) ==
    /\ stale' = stale \ {<<v, t>>}
    /\ UNCHANGED rows

\* The process ends, and the copies with it.
CopiesAreLost ==
    /\ stale' = {}
    /\ UNCHANGED rows

RowsNext ==
    \/ \E v \in Vehicles, t \in Types :
          \/ InsertRow(v, t) \/ StartRow(v, t) \/ ReopenRow(v, t) \/ GiveUpCopy(v, t)
          \/ \E st \in ActiveStatus : CompleteRow(v, t, st)
    \/ CopiesAreLost

RowsSpec == RowsInit /\ [][RowsNext]_rowsVars
================================================================================
