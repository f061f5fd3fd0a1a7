------------------------------ MODULE QueueSummary ------------------------------
(* GET /api/v1/mantenimientos/cola: GetQueueSummary of
   internal/handler/maintenance_handler.go.  The summary is put together from two
   reads of the table, with whatever the rest of the service does in between.

   The other read-only endpoints read the table once. *)
EXTENDS MaintenanceStore

CONSTANT Readers  \* clients that may have a summary request in flight

VARIABLE
    summary  \* per reader: what the request does next, the rows its first read
             \* returned, and (history) the rows that were uncompleted then

summaryVars == <<summary>>

SummaryRequest == [pc : {"idle", "secondRead"}, rows : SUBSET Ids, known : SUBSET Ids]

NoSummary == [pc |-> "idle", rows |-> {}, known |-> {}]

SummaryTypeOK == summary \in [Readers -> SummaryRequest]

SummaryInit == summary = [r \in Readers |-> NoSummary]

Uncompleted == {id \in Ids : Stored(id) /\ ~ IsTerminal(db[id])}

\* Mutant: the two lists are read the other way round.
SectionsSwapped == [firstRead |-> "in_progress", secondRead |-> "queued"]

\* The sections of the summary in the order they are read.
Sections == [firstRead |-> "queued", secondRead |-> "in_progress"]

\* ListQueued.
SummaryReadQueued(r) ==
    /\ summary[r].pc = "idle"
    /\ summary' = [summary EXCEPT ![r] = [pc |-> "secondRead",
                                          rows |-> ListByStatus(Sections.firstRead),
                                          known |-> Uncompleted]]
    /\ UNCHANGED storeVars

\* The rows in the response, both sections together.
Shown(r) == summary[r].rows \cup ListByStatus(Sections.secondRead)

\* ListInProgress, and the response: Shown(r), or 500 when the read fails.  A first
\* read that fails is answered with 500 and leaves nothing behind.
SummaryReadInProgress(r, ok) ==
    /\ ok \/ DbFaults # {}
    /\ summary[r].pc = "secondRead"
    /\ summary' = [summary EXCEPT ![r] = NoSummary]
    /\ UNCHANGED storeVars

SummaryGoesOn(r) == \E ok \in BOOLEAN : SummaryReadInProgress(r, ok)
================================================================================
