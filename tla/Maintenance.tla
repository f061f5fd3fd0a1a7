------------------------------ MODULE Maintenance ------------------------------
(* The maintenance entity of internal/domain/maintenance.go: its statuses, its
   constructor and its transitions, as pure operators.  Of the nine columns only
   the two that the transitions touch are kept: the status, and whether
   completed_at is set.  Identity and creation order live in MaintenanceStore;
   updated_at, the vehicle, the incident and the severity play no part in a
   transition.

   A transition is split the way callers use it: CanX is the error return, X the
   entity afterwards.  MarkFailed is not here: no service calls it, so no row of
   the running program is ever "failed". *)

MaintenanceStatus == {"queued", "in_progress", "completed", "failed"}

Entity == [status : MaintenanceStatus, completedAt : BOOLEAN]

\* Both constructors put the new record in the queue.
NewMaintenance == [status |-> "queued", completedAt |-> FALSE]

IsTerminal(m) == m.status \in {"completed", "failed"}

CanMarkInProgress(m) == ~ IsTerminal(m)

\* completed_at is left alone.
MarkInProgress(m) == [m EXCEPT !.status = "in_progress"]

\* Mutant: the strict transition, without the idempotency.
CanMarkCompletedOnce(m) == ~ IsTerminal(m)

\* Completing twice is no error, so that a caller can retry the event.
CanMarkCompleted(m) == m.status # "failed"

MarkCompleted(m) ==
    IF m.status = "completed" THEN m
    ELSE [status |-> "completed", completedAt |-> TRUE]

--------------------------------------------------------------------------------
(* A place that holds an entity or nothing: a row of the table, a worker's copy,
   an item of a batch.  NoRow is "nothing". *)

NoRow == [status |-> "none", completedAt |-> FALSE]

Slot == [status : MaintenanceStatus \cup {"none"}, completedAt : BOOLEAN]

\* A slot that says "completed" exactly when it has a completion time.
Consistent(m) == m.completedAt <=> m.status = "completed"
================================================================================
