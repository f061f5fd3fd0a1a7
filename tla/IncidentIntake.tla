----------------------------- MODULE IncidentIntake -----------------------------
(* What the consumer promises about incidents, whatever is lost, repeated or cut
   short on the way: at-least-once handling.  A message stays pending until it is
   acknowledged.  Only a pending message about a grave incident makes a maintenance
   and lets its CREATED event out, the maintenance first; and a message is only
   acknowledged when there is nothing left to do for it, which of one that cannot
   be made a maintenance is never.

   Nothing is said of how often a message is handled: see OneRowPerMessage. *)

CONSTANTS Messages, Incidents

VARIABLES
    about,         \* what each message says: its kind and its incident
    pending,       \* messages sent and not acknowledged
    acknowledged,  \* messages gone from the queue for good
    stored,        \* incidents with a maintenance
    announced      \* incidents whose CREATED event is out

intakeVars == <<about, pending, acknowledged, stored, announced>>

Kinds == {"malformed", "irrelevant", "incomplete", "grave"}

IntakeInit ==
    /\ about \in [Messages -> [kind : Kinds, incident : Incidents]]
    /\ pending = {}
    /\ acknowledged = {}
    /\ stored = {}
    /\ announced = {}

Submit(m) ==
    /\ m \notin pending \cup acknowledged
    /\ pending' = pending \cup {m}
    /\ UNCHANGED <<about, acknowledged, stored, announced>>

Store(m) ==
    /\ m \in pending /\ about[m].kind = "grave"
    /\ stored' = stored \cup {about[m].incident}
    /\ UNCHANGED <<about, pending, acknowledged, announced>>

Announce(m) ==
    /\ m \in pending /\ about[m].kind = "grave" /\ about[m].incident \in stored
    /\ announced' = announced \cup {about[m].incident}
    /\ UNCHANGED <<about, pending, acknowledged, stored>>

Acknowledge(m) ==
    /\ m \in pending /\ about[m].kind # "incomplete"
    /\ about[m].kind = "grave" => about[m].incident \in stored
    /\ pending' = pending \ {m}
    /\ acknowledged' = acknowledged \cup {m}
    /\ UNCHANGED <<about, stored, announced>>

IntakeNext ==
    \E m \in Messages : Submit(m) \/ Store(m) \/ Announce(m) \/ Acknowledge(m)

IntakeSpec == IntakeInit /\ [][IntakeNext]_intakeVars
================================================================================
