--------------------------- MODULE MaintenanceLedger ---------------------------
(* What the service promises about the life of a maintenance, whoever works on it
   and whatever fails: the state machine of internal/domain/maintenance.go as the
   whole program keeps it, with the one exception the program really makes.

   A row is registered as queued and never disappears.  Work on it starts at most
   once: "startable" holds the rows that may still be put in progress, it only
   loses members after registration, and starting uses the membership up.  Rows
   are completed any number of times, never queued again, and events are only
   announced for registered rows.

   The exception is that a row which is completed while it is startable may still
   be started afterwards: completed is final only once the row is not startable. *)
EXTENDS FiniteSets

CONSTANT Ids

VARIABLES
    status,     \* of each maintenance
    startable,  \* maintenances whose work may still be started
    announced   \* maintenances announced as completed

ledgerVars == <<status, startable, announced>>

LedgerInit ==
    /\ status = [id \in Ids |-> "none"]
    /\ startable = {}
    /\ announced = {}

Register(id) ==
    /\ status[id] = "none"
    /\ status' = [status EXCEPT ![id] = "queued"]
    /\ startable' = startable \cup {id}
    /\ UNCHANGED announced

Start(id) ==
    /\ id \in startable
    /\ status' = [status EXCEPT ![id] = "in_progress"]
    /\ startable' = startable \ {id}
    /\ UNCHANGED announced

\* The one who completes may or may not be the last who could have started it.
Complete(id) ==
    /\ status[id] # "none"
    /\ status' = [status EXCEPT ![id] = "completed"]
    /\ startable' \in {startable, startable \ {id}}
    /\ UNCHANGED announced

Announce(id) ==
    /\ status[id] # "none"
    /\ announced' = announced \cup {id}
    /\ UNCHANGED <<status, startable>>

\* A failed write or a crash gives up work that was about to start; a row that is
\* still queued stays startable.
Forget ==
    /\ startable' \in SUBSET startable
    /\ \A id \in startable \ startable' : status[id] # "queued"
    /\ UNCHANGED <<status, announced>>

LedgerNext ==
    \/ \E id \in Ids : Register(id) \/ Start(id) \/ Complete(id) \/ Announce(id)
    \/ Forget

LedgerSpec == LedgerInit /\ [][LedgerNext]_ledgerVars

\* Completed, and nobody can start it any more.
Settled == {id \in Ids : status[id] = "completed" /\ id \notin startable}
================================================================================
