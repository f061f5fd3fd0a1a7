---------------------------- MODULE IncidentConsumer ----------------------------
(* Corrective maintenances from incident events: the polling goroutine of
   internal/adapter/messaging/sqs_consumer.go and, for each message,
   CreateCorrective of internal/service/corrective_service.go, which inserts a row
   and publishes a CREATED event.

   The incidents queue is SQS, modelled from how the consumer uses it: a received
   message stays in the queue, hidden, until it is deleted; when it is not deleted
   in time it is delivered again.  The order of delivery is arbitrary.  A call to
   the database or to SQS can be "lost" (not applied) or "unacked" (applied), both
   of which the caller sees as an error. *)
EXTENDS Naturals, FiniteSets

CONSTANTS
    Messages,    \* messages that may be sent
    Incidents,   \* the incidents they may be about
    BatchSize,   \* MaxNumberOfMessages
    Faults,      \* what a call may do besides "ok"
    MaxRows,     \* rows of one incident, and troubles, are counted up to this bound
    MaxCrashes   \* bound on the crashes

ASSUME MessagesAreFinite == IsFiniteSet(Messages) /\ Messages # {}
ASSUME BatchSizeIsPositive == BatchSize \in Nat \ {0}
ASSUME ConsumerFaultsAreKnown == Faults \subseteq {"lost", "unacked"}
ASSUME ConsumerBounds == MaxRows \in Nat \ {0} /\ MaxCrashes \in Nat

VARIABLES
    msg,      \* the queue: kind, incident and whereabouts of each message
    batch,    \* received messages the loop has still to handle
    current,  \* what is being done to the message in hand
    rows,     \* rows inserted per incident
    created,  \* incidents whose CREATED event has reached SQS
    crashes,
    troubles  \* history: what may have led to a message being handled once more

vars == <<msg, batch, current, rows, created, crashes, troubles>>

(* What a body can hold: JSON that does not parse, an incident that is not a grave
   mechanical one, one that is but names no vehicle or no incident (or a name the
   columns cannot hold), and a good one. *)
Kinds == {"malformed", "irrelevant", "incomplete", "grave"}
Places == {"unsent", "visible", "hidden", "deleted"}
Steps == {"none", "insert", "publish", "delete"}

TypeOK ==
    /\ msg \in [Messages -> [kind : Kinds, incident : Incidents, place : Places]]
    /\ batch \subseteq Messages /\ Cardinality(batch) <= BatchSize
    /\ current \in [step : Steps, of : Messages]
    /\ current.step # "none" => current.of \notin batch
    /\ rows \in [Incidents -> 0 .. MaxRows]
    /\ created \subseteq Incidents
    /\ crashes \in 0 .. MaxCrashes
    /\ troubles \in 0 .. MaxRows

AnyMessage == CHOOSE m \in Messages : TRUE
Nothing == [step |-> "none", of |-> AnyMessage]

Init ==
    /\ msg \in [Messages -> [kind : Kinds, incident : Incidents, place : {"unsent"}]]
    /\ batch = {}
    /\ current = Nothing
    /\ rows = [i \in Incidents |-> 0]
    /\ created = {}
    /\ crashes = 0
    /\ troubles = 0

Outcomes == {"ok"} \cup Faults
At(place) == {m \in Messages : msg[m].place = place}
Move(m, place) == msg' = [msg EXCEPT ![m].place = place]

\* One trouble more, up to the bound.
TroubleIf(cond) ==
    troubles' = IF cond /\ troubles < MaxRows THEN troubles + 1 ELSE troubles

\* The consumer has nothing in hand and nothing left of its batch.
Polling == current = Nothing /\ batch = {}

--------------------------------------------------------------------------------
(* The queue. *)

Send(m) ==
    /\ msg[m].place = "unsent"
    /\ Move(m, "visible")
    /\ UNCHANGED <<batch, current, rows, created, crashes, troubles>>

\* The visibility timeout of a message passes, be it still in the consumer's hands.
Redeliver(m) ==
    /\ msg[m].place = "hidden"
    /\ Move(m, "visible")
    /\ UNCHANGED <<batch, current, rows, created, crashes, troubles>>

--------------------------------------------------------------------------------
(* The consumer. *)

\* ReceiveMessage; an error or an empty answer changes nothing.
Receive(ms) ==
    /\ Polling
    /\ ms # {} /\ ms \subseteq At("visible") /\ Cardinality(ms) <= BatchSize
    /\ msg' = [m \in Messages |-> IF m \in ms THEN [msg[m] EXCEPT !.place = "hidden"]
                                  ELSE msg[m]]
    /\ batch' = ms
    /\ UNCHANGED <<current, rows, created, crashes, troubles>>

\* Mutant: what cannot be a maintenance is skipped and left in the queue.
ProcessMessageOrSkip(m) ==
    /\ current = Nothing
    /\ m \in batch
    /\ batch' = batch \ {m}
    /\ current' = IF msg[m].kind = "grave" THEN [step |-> "insert", of |-> m]
                  ELSE Nothing
    /\ UNCHANGED <<msg, rows, created, crashes, troubles>>

\* Mutant: the loop does not go on to the next message of the batch.
ProcessMessageAgain(m) ==
    /\ current = Nothing
    /\ m \in batch
    /\ current' = CASE msg[m].kind = "grave"      -> [step |-> "insert", of |-> m]
                    [] msg[m].kind = "incomplete" -> Nothing
                    [] OTHER                      -> [step |-> "delete", of |-> m]
    /\ UNCHANGED <<msg, batch, rows, created, crashes, troubles>>

\* The next message is parsed and filtered.  What cannot be a maintenance is
\* deleted; a grave incident that fails validation is left to come back.
ProcessMessage(m) ==
    /\ current = Nothing
    /\ m \in batch
    /\ batch' = batch \ {m}
    /\ current' = CASE msg[m].kind = "grave"      -> [step |-> "insert", of |-> m]
                    [] msg[m].kind = "incomplete" -> Nothing
                    [] OTHER                      -> [step |-> "delete", of |-> m]
    /\ UNCHANGED <<msg, rows, created, crashes, troubles>>

\* Mutant: the message is acknowledged whether or not the row could be inserted.
CreateAndForget(m, res) ==
    /\ current = [step |-> "insert", of |-> m]
    /\ rows' = IF res = "lost" \/ rows[msg[m].incident] = MaxRows THEN rows
               ELSE [rows EXCEPT ![msg[m].incident] = @ + 1]
    /\ current' = [step |-> "delete", of |-> m]
    /\ TroubleIf(res = "unacked")
    /\ UNCHANGED <<msg, batch, created, crashes>>

\* Mutant: the early return after a failed INSERT is missing.
CreateAndGoOn(m, res) ==
    /\ current = [step |-> "insert", of |-> m]
    /\ rows' = IF res = "lost" \/ rows[msg[m].incident] = MaxRows THEN rows
               ELSE [rows EXCEPT ![msg[m].incident] = @ + 1]
    /\ current' = [step |-> "publish", of |-> m]
    /\ TroubleIf(res = "unacked")
    /\ UNCHANGED <<msg, batch, created, crashes>>

\* CreateCorrective inserts the row, without asking whether the incident has one.
CreateCorrective(m, res) ==
    /\ current = [step |-> "insert", of |-> m]
    /\ rows' = IF res = "lost" \/ rows[msg[m].incident] = MaxRows THEN rows
               ELSE [rows EXCEPT ![msg[m].incident] = @ + 1]
    /\ current' = IF res = "ok" THEN [step |-> "publish", of |-> m] ELSE Nothing
    /\ TroubleIf(res = "unacked")
    /\ UNCHANGED <<msg, batch, created, crashes>>

\* The CREATED event; a failure is only logged.
PublishCreated(m, res) ==
    /\ current = [step |-> "publish", of |-> m]
    /\ created' = IF res = "lost" THEN created ELSE created \cup {msg[m].incident}
    /\ current' = [step |-> "delete", of |-> m]
    /\ UNCHANGED <<msg, batch, rows, crashes, troubles>>

\* Mutant: a message is never deleted.
DeleteNothing(m, res) ==
    /\ current = [step |-> "delete", of |-> m]
    /\ current' = Nothing
    /\ TroubleIf(res = "lost")
    /\ UNCHANGED <<msg, batch, rows, created, crashes>>

\* A failed deletion is only logged: the message will come back.
DeleteMessage(m, res) ==
    /\ current = [step |-> "delete", of |-> m]
    /\ IF res = "lost" THEN UNCHANGED msg ELSE Move(m, "deleted")
    /\ current' = Nothing
    /\ TroubleIf(res = "lost")
    /\ UNCHANGED <<batch, rows, created, crashes>>

\* The process dies; what it had received becomes visible again in time.
Crash ==
    /\ crashes < MaxCrashes
    /\ crashes' = crashes + 1
    /\ batch' = {}
    /\ current' = Nothing
    /\ TroubleIf(TRUE)
    /\ UNCHANGED <<msg, rows, created>>

Next ==
    \/ \E m \in Messages : Send(m) \/ Redeliver(m) \/ ProcessMessage(m)
    \/ \E ms \in SUBSET Messages : Receive(ms)
    \/ \E m \in Messages, res \in Outcomes :
          CreateCorrective(m, res) \/ PublishCreated(m, res) \/ DeleteMessage(m, res)
    \/ Crash

Spec == Init /\ [][Next]_vars

(* The loop goes on whatever fails, a hidden message is delivered again, every
   message that stays visible is received, and outages end. *)
Fairness ==
    /\ \A m \in Messages :
          /\ WF_vars(Redeliver(m))
          /\ WF_vars(ProcessMessage(m))
          /\ SF_vars(\E ms \in SUBSET Messages : m \in ms /\ Receive(ms))
          /\ WF_vars(\E res \in Outcomes : CreateCorrective(m, res))
          /\ WF_vars(\E res \in Outcomes : PublishCreated(m, res))
          /\ WF_vars(\E res \in Outcomes : DeleteMessage(m, res))
          /\ SF_vars(CreateCorrective(m, "ok"))
          /\ SF_vars(DeleteMessage(m, "ok"))

FairSpec == Spec /\ Fairness

--------------------------------------------------------------------------------
(* Properties. *)

Sent(m) == msg[m].place # "unsent"
GraveFor(i) == {m \in Messages : Sent(m) /\ msg[m].kind = "grave" /\ msg[m].incident = i}

\* A grave incident is acknowledged only once its maintenance is in the table: no
\* crash, lost call or redelivery loses it (processMessage deletes last).
AcknowledgedIsStored ==
    \A m \in Messages :
       msg[m].place = "deleted" /\ msg[m].kind = "grave" => rows[msg[m].incident] > 0

\* A message makes one maintenance, and one more for each INSERT that is applied but
\* answered with an error, each deletion that fails, and each crash: nothing else, not
\* even a message that expires in the consumer's hands, makes a second row, because
\* one goroutine receives and it deletes what it has stored (CreateCorrective does
\* not ask whether the incident has a row).
OneRowPerMessage ==
    \A i \in Incidents : rows[i] <= Cardinality(GraveFor(i)) + troubles

About == [m \in Messages |-> [kind |-> msg[m].kind, incident |-> msg[m].incident]]

\* The consumer implements the intake: incidents are handled at least once.  Through
\* redeliveries, crashes and calls that fail, applied or not, no CREATED event
\* precedes its row or follows its acknowledgement, and no message is acknowledged
\* too early (Start, processMessage, CreateCorrective).
Intake == INSTANCE IncidentIntake
             WITH about        <- About,
                  pending      <- At("visible") \cup At("hidden"),
                  acknowledged <- At("deleted"),
                  stored       <- {i \in Incidents : rows[i] > 0},
                  announced    <- created

ImplementsIntake == Intake!IntakeSpec

\* Every grave incident gets a maintenance, and every message but the incomplete
\* ones leaves the queue for good: the consumer retries what it does not delete.
EveryIncidentIsHandled ==
    \A m \in Messages :
       Sent(m) /\ msg[m].kind # "incomplete" ~>
          /\ msg[m].place = "deleted"
          /\ msg[m].kind = "grave" => rows[msg[m].incident] > 0
================================================================================
