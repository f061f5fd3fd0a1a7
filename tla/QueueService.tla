------------------------------ MODULE QueueService ------------------------------
(* PATCH /api/v1/mantenimientos/{id}/finalizar: Finalize of
   internal/handler/maintenance_handler.go and FinalizeMaintenance of
   internal/service/queue_service.go.  Every client has at most one request in
   flight; the request reads the row, writes it back completed and then publishes
   the COMPLETED event, three remote calls with nothing around them.

   The read-only endpoints do not change any of this state. *)
EXTENDS MaintenanceStore

CONSTANT Clients  \* who may have a finalize request in flight

VARIABLE
    fin  \* per client: the next call of its request, the id and the copy it works
         \* on, and the status code the client last received

queueVars == <<fin>>

NoId == 0

Request == [pc : {"idle", "update", "publish"}, id : Ids \cup {NoId}, m : Slot,
            reply : {"none", "204", "404", "500"}]

NoRequest == [pc |-> "idle", id |-> NoId, m |-> NoRow, reply |-> "none"]

QueueTypeOK == fin \in [Clients -> Request]

QueueInit == fin = [c \in Clients |-> NoRequest]

\* The handler answers; the id stays so that the answer can be told apart.
Respond(c, code) ==
    fin' = [fin EXCEPT ![c] = [pc |-> "idle", id |-> @.id, m |-> NoRow, reply |-> code]]

\* GetByID, then MarkCompleted on the copy.
FinalizeGet(c, id) ==
    /\ fin[c].pc = "idle"
    /\ IF Stored(id) /\ CanMarkCompleted(db[id])
       THEN fin' = [fin EXCEPT ![c] = [pc |-> "update", id |-> id,
                                       m |-> MarkCompleted(db[id]), reply |-> "none"]]
       ELSE fin' = [fin EXCEPT ![c] =
                       [NoRequest EXCEPT !.id = id,
                                         !.reply = IF Stored(id) THEN "500" ELSE "404"]]
    /\ UNCHANGED storeVars

\* GetByID fails for another reason than a missing row.
FinalizeGetFails(c, id) ==
    /\ DbFaults # {}
    /\ fin[c].pc = "idle"
    /\ fin' = [fin EXCEPT ![c] = [NoRequest EXCEPT !.id = id, !.reply = "500"]]
    /\ UNCHANGED storeVars

\* Mutant: the handler answers once the row is written and publishes nothing.
FinalizeUpdateOnly(c, res) ==
    /\ fin[c].pc = "update"
    /\ UpdateStatus(fin[c].id, fin[c].m, res)
    /\ Respond(c, IF res = "ok" THEN "204" ELSE "500")

\* UpdateStatus: the row is completed before the event is published.
FinalizeUpdate(c, res) ==
    /\ fin[c].pc = "update"
    /\ UpdateStatus(fin[c].id, fin[c].m, res)
    /\ IF res = "ok" THEN fin' = [fin EXCEPT ![c].pc = "publish"]
       ELSE Respond(c, "500")

\* Mutant: a failed publish is only logged, as it is for CREATED events.
FinalizePublishBestEffort(c, res) ==
    /\ fin[c].pc = "publish"
    /\ PublishMaintenanceEvent(fin[c].id, res)
    /\ Respond(c, "204")

\* A failed publish is an error although the row is already completed.
FinalizePublish(c, res) ==
    /\ fin[c].pc = "publish"
    /\ PublishMaintenanceEvent(fin[c].id, res)
    /\ Respond(c, IF PublishAccepted(res) THEN "204" ELSE "500")

\* A request begins; a request goes on.
FinalizeBegins(c) == \E id \in Ids : FinalizeGet(c, id) \/ FinalizeGetFails(c, id)

FinalizeGoesOn(c) ==
    \/ \E res \in DbOutcomes : FinalizeUpdate(c, res)
    \/ \E res \in SqsOutcomes : FinalizePublish(c, res)

--------------------------------------------------------------------------------
\* A client that got 204 can rely on it: the event is out, unless the publisher
\* swallows errors, and the row has left the queue for good, whatever the workers
\* and the release service do afterwards (FinalizeMaintenance's two writes).
NoContentMeansDone ==
    \A c \in Clients :
       fin[c].reply = "204" =>
          /\ SwallowsErrors \/ fin[c].id \in announced
          /\ db[fin[c].id].status \in {"in_progress", "completed"}
================================================================================
