----------------------------- MODULE ReleaseService -----------------------------
(* The release cycle: the ticker goroutine of internal/handler/release_worker.go
   running ReleaseOldMaintenances of internal/service/release_service.go.  It
   takes a snapshot of the old rows that are not terminal and, row by row in
   created_at order, marks its copy completed, publishes the COMPLETED event
   and only then writes the row.  A failure skips to the next row.

   A failed or an empty list leaves everything as it was and has no action. *)
EXTENDS MaintenanceStore

VARIABLES
    relPc,  \* what the goroutine does next
    batch   \* the copies still to be handled, NoRow for every other id

releaseVars == <<relPc, batch>>

ReleaseTypeOK ==
    /\ relPc \in {"waiting", "publish", "update", "stopped"}
    /\ batch \in [Ids -> Slot]

ReleaseInit ==
    /\ relPc = "waiting"
    /\ batch = [id \in Ids |-> NoRow]

Batch == {id \in Ids : batch[id].status # "none"}

\* A tick with something to release.
ReleaseList ==
    /\ relPc = "waiting"
    /\ ListOldUncompleted # {}
    /\ relPc' = "publish"
    /\ batch' = [id \in Ids |-> IF id \in ListOldUncompleted THEN db[id] ELSE NoRow]
    /\ UNCHANGED storeVars

\* On to the next item of the batch, or back to the ticker after the last one.
SkipItem(id) ==
    /\ batch' = [batch EXCEPT ![id] = NoRow]
    /\ relPc' = IF Batch = {id} THEN "waiting" ELSE "publish"

\* Mutant: MarkCompleted works on a copy of the item, and the item is written as it was.
ReleasePublishUnmarked(id, res) ==
    /\ relPc = "publish"
    /\ IsFirst(id, Batch)
    /\ IF ~ CanMarkCompleted(batch[id])
       THEN SkipItem(id) /\ UNCHANGED storeVars
       ELSE /\ PublishMaintenanceEvent(id, res)
            /\ IF PublishAccepted(res)
               THEN relPc' = "update" /\ UNCHANGED batch
               ELSE SkipItem(id)

\* Mutant: a failed publish is only logged, as it is for CREATED events.
ReleasePublishBestEffort(id, res) ==
    /\ relPc = "publish"
    /\ IsFirst(id, Batch)
    /\ IF ~ CanMarkCompleted(batch[id])
       THEN SkipItem(id) /\ UNCHANGED storeVars
       ELSE /\ PublishMaintenanceEvent(id, res)
            /\ batch' = [batch EXCEPT ![id] = MarkCompleted(batch[id])]
            /\ relPc' = "update"

\* The event goes out first; if it fails the row is left for the next cycle.
ReleasePublish(id, res) ==
    /\ relPc = "publish"
    /\ IsFirst(id, Batch)
    /\ IF ~ CanMarkCompleted(batch[id])
       THEN SkipItem(id) /\ UNCHANGED storeVars
       ELSE /\ PublishMaintenanceEvent(id, res)
            /\ IF PublishAccepted(res)
               THEN /\ batch' = [batch EXCEPT ![id] = MarkCompleted(batch[id])]
                    /\ relPc' = "update"
               ELSE SkipItem(id)

\* Then the row; whether or not the write works, the cycle goes on.
ReleaseUpdate(id, res) ==
    /\ relPc = "update"
    /\ IsFirst(id, Batch)
    /\ UpdateStatus(id, batch[id], res)
    /\ SkipItem(id)

\* Mutant: "break" instead of "return", which leaves the select and not the loop.
ReleaseBreaks ==
    /\ relPc = "waiting"
    /\ UNCHANGED <<relPc, batch, storeVars>>

\* The quit channel has been closed, and the select of the loop takes notice; when a
\* tick is ready too it may as well begin one more cycle.
ReleaseQuits ==
    /\ relPc = "waiting"
    /\ relPc' = "stopped"
    /\ UNCHANGED <<batch, storeVars>>

ReleaseNext ==
    \/ ReleaseList
    \/ \E id \in Ids, res \in SqsOutcomes : ReleasePublish(id, res)
    \/ \E id \in Ids, res \in DbOutcomes : ReleaseUpdate(id, res)
================================================================================
