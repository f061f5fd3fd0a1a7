---------------------------- MODULE MaintenanceStore ----------------------------
(* The state that every part of the service shares: the maintenances table
   (internal/adapter/repository/postgres_maintenance.go) and the queue to the
   vehicles service (internal/adapter/messaging/sqs_publisher.go), each with the
   outcomes a remote call can have:
     "ok"       applied, and the caller is told so;
     "lost"     not applied, the caller gets an error;
     "unacked"  applied, but the caller gets an error (a timeout, a dropped
                connection, a cancelled request context).
   A statement of PostgreSQL is one step; two statements are two steps, and the
   code opens no transaction around them. *)
EXTENDS Maintenance, Naturals

CONSTANTS
    Ids,              \* maintenances that may be created, in created_at order
    DbFaults,         \* what a statement may do besides "ok"
    SqsFaults,        \* what SendMessage may do besides "ok"
    UseMockFallback,  \* USE_MOCK_FALLBACK
    SqsConfigured     \* SQS_VEHICLES_URL is set

ASSUME IdsAreNumbers == Ids \subseteq Nat \ {0}
ASSUME FaultsAreKnown == /\ DbFaults \subseteq {"lost", "unacked"}
                         /\ SqsFaults \subseteq {"lost", "unacked"}
ASSUME FlagsAreBoolean == UseMockFallback \in BOOLEAN /\ SqsConfigured \in BOOLEAN

VARIABLES
    db,        \* the row of each id, NoRow before it is inserted
    old,       \* ids created more than RELEASE_MINUTES_THRESHOLD minutes ago
    announced  \* ids whose COMPLETED event has reached SQS

storeVars == <<db, old, announced>>

StoreTypeOK ==
    /\ db \in [Ids -> Slot]
    /\ old \subseteq Ids
    /\ announced \subseteq Ids

StoreInit ==
    /\ db = [id \in Ids |-> NoRow]
    /\ old = {}
    /\ announced = {}

DbOutcomes == {"ok"} \cup DbFaults
SqsOutcomes == {"ok"} \cup SqsFaults

Stored(id) == db[id].status # "none"

--------------------------------------------------------------------------------
(* Reads. *)

ListByStatus(status) == {id \in Ids : db[id].status = status}

\* Mutant: the query of the queue, which misses the rows stuck in progress.
ListOldQueued == {id \in old : db[id].status = "queued"}

ListOldUncompleted == {id \in old : Stored(id) /\ ~ IsTerminal(db[id])}

\* Lists come back in created_at order: first is the next item of S to be taken.
IsFirst(first, S) == first \in S /\ \A id \in S : first <= id

--------------------------------------------------------------------------------
(* Writes. *)

\* INSERT of a new, queued row.  Rows arrive in created_at order.
Create(id) ==
    /\ IsFirst(id, {i \in Ids : ~ Stored(i)})
    /\ db' = [db EXCEPT ![id] = NewMaintenance]
    /\ UNCHANGED <<old, announced>>

\* Mutant: the statement leaves completed_at out.
UpdateStatusOnly(id, m, res) ==
    /\ db' = IF res = "lost" THEN db ELSE [db EXCEPT ![id].status = m.status]
    /\ UNCHANGED <<old, announced>>

\* UPDATE ... SET status, completed_at WHERE id: whatever the row holds now, it is
\* overwritten with what the caller's copy says.  Rows are never deleted, so the
\* row of an id that was read earlier is always there.
UpdateStatus(id, m, res) ==
    /\ db' = IF res = "lost" THEN db
             ELSE [db EXCEPT ![id].status = m.status,
                             ![id].completedAt = m.completedAt]
    /\ UNCHANGED <<old, announced>>

\* SendMessage of the COMPLETED event; the no-op publisher sends nothing.
PublishMaintenanceEvent(id, res) ==
    /\ announced' = IF SqsConfigured /\ res # "lost" THEN announced \cup {id}
                    ELSE announced
    /\ UNCHANGED <<db, old>>

\* The publisher reports success for an event it knows was not accepted.
SwallowsErrors == UseMockFallback \/ ~ SqsConfigured

\* PublishMaintenanceEvent returns nil.
PublishAccepted(res) == res = "ok" \/ SwallowsErrors

--------------------------------------------------------------------------------
(* The clock: a row passes the release threshold, older rows first. *)
Age(id) ==
    /\ IsFirst(id, {i \in Ids \ old : Stored(i)})
    /\ old' = old \cup {id}
    /\ UNCHANGED <<db, announced>>
================================================================================
