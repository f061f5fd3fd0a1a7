----------------------------- MODULE ConsumerProofs -----------------------------
(* Proofs about IncidentConsumer: its types, that a grave incident whose message has
   left the queue has a maintenance, that every row beyond the messages of its
   incident is paid for by a trouble, and that the consumer implements the intake of
   IncidentIntake, for every finite set of messages, every fault and any number of
   crashes and redeliveries. *)
EXTENDS IncidentConsumer, FiniteSetTheorems, TLAPS

HasRow(m) == rows[msg[m].incident] > 0

\* What the loop has in hand once the INSERT is behind it is stored: the step that
\* deletes a grave message is reached only after an INSERT that succeeded.
InHandIsStored ==
    current.step \in {"publish", "delete"} /\ msg[current.of].kind = "grave"
       => HasRow(current.of)

CInv == TypeOK /\ InHandIsStored /\ AcknowledgedIsStored

Slot == [kind : Kinds, incident : Incidents, place : Places]

--------------------------------------------------------------------------------
(* The queue. *)

\* A message that moves keeps what it says; the others stay as they are.
LEMMA MoveEffect ==
  ASSUME msg \in [Messages -> Slot], NEW m \in Messages, NEW p \in Places, Move(m, p)
  PROVE  /\ msg' \in [Messages -> Slot]
         /\ \A n \in Messages : n # m => msg'[n] = msg[n]
         /\ msg'[m].kind = msg[m].kind /\ msg'[m].incident = msg[m].incident
         /\ msg'[m].place = p
  BY DEF Move, Slot

\* Messages are received together: only their places change.
LEMMA ReceiveEffect ==
  ASSUME msg \in [Messages -> Slot], NEW ms \in SUBSET Messages, Receive(ms)
  PROVE  /\ msg' \in [Messages -> Slot]
         /\ \A n \in Messages : /\ msg'[n].kind = msg[n].kind
                                /\ msg'[n].incident = msg[n].incident
                                /\ msg'[n].place \in {msg[n].place, "hidden"}
  BY DEF Receive, Slot, Places

\* An answer of the queue stays within the batch size as the loop works it off.
LEMMA BatchShrinks ==
  ASSUME TypeOK, NEW m \in batch
  PROVE  batch \ {m} \subseteq Messages /\ Cardinality(batch \ {m}) <= BatchSize
  <1>1. IsFiniteSet(batch)
    BY MessagesAreFinite, FS_Subset DEF TypeOK
  <1>2. Cardinality(batch \ {m}) = Cardinality(batch) - 1 /\ Cardinality(batch) \in Nat
    BY <1>1, FS_RemoveElement, FS_CardinalityType
  <1> QED
    BY <1>2, BatchSizeIsPositive DEF TypeOK

\* A row more, up to the bound: an INSERT that is applied leaves at least one.
LEMMA InsertEffect ==
  ASSUME TypeOK, NEW m \in Messages, NEW res \in Outcomes, CreateCorrective(m, res)
  PROVE  /\ rows' \in [Incidents -> 0 .. MaxRows]
         /\ \A i \in Incidents : rows[i] > 0 => rows'[i] > 0
         /\ res = "ok" => rows'[msg[m].incident] > 0
  <1> DEFINE i == msg[m].incident
  <1>1. i \in Incidents /\ rows \in [Incidents -> 0 .. MaxRows] /\ MaxRows \in Nat \ {0}
    BY ConsumerBounds DEF TypeOK
  <1>2. rows' = IF res = "lost" \/ rows[i] = MaxRows THEN rows
                ELSE [rows EXCEPT ![i] = @ + 1]
    BY DEF CreateCorrective
  <1> HIDE DEF i
  <1>3. CASE res = "lost" \/ rows[i] = MaxRows
    BY <1>1, <1>2, <1>3 DEF i
  <1>4. CASE ~ (res = "lost" \/ rows[i] = MaxRows)
    BY <1>1, <1>2, <1>4 DEF i
  <1> QED
    BY <1>3, <1>4

\* Troubles are counted up to the bound.
LEMMA TroublesAreTyped ==
  ASSUME TypeOK, NEW cond, TroubleIf(cond)
  PROVE  troubles' \in 0 .. MaxRows
  BY ConsumerBounds DEF TypeOK, TroubleIf

--------------------------------------------------------------------------------
(* The inductive invariant. *)

\* Messages that only move, none of them out of the queue, lose nothing.
LEMMA MovesLoseNothing ==
  ASSUME CInv, msg' \in [Messages -> Slot], UNCHANGED <<current, rows>>,
         \A n \in Messages : /\ msg'[n].kind = msg[n].kind
                             /\ msg'[n].incident = msg[n].incident
                             /\ msg'[n].place = "deleted" => msg[n].place = "deleted"
  PROVE  InHandIsStored' /\ AcknowledgedIsStored'
  <1>1. \A n \in Messages : HasRow(n)' <=> HasRow(n)
    BY DEF HasRow
  <1>2. current.of \in Messages
    BY DEF CInv, TypeOK
  <1>3. InHandIsStored'
    BY <1>1, <1>2 DEF CInv, InHandIsStored
  <1>4. AcknowledgedIsStored'
    BY <1>1 DEF CInv, AcknowledgedIsStored, HasRow
  <1> QED
    BY <1>3, <1>4

LEMMA InitIsSound == Init => CInv
  <1> SUFFICES ASSUME Init PROVE CInv
    OBVIOUS
  <1>1. AnyMessage \in Messages
    BY MessagesAreFinite DEF AnyMessage
  <1>2. Cardinality({}) <= BatchSize
    BY FS_EmptySet, BatchSizeIsPositive
  <1>3. TypeOK
    BY <1>1, <1>2, ConsumerBounds DEF Init, TypeOK, Nothing, Steps, Places
  <1> QED
    BY <1>3 DEF Init, CInv, InHandIsStored, AcknowledgedIsStored, Nothing

LEMMA CInvIsInductive == CInv /\ [Next]_vars => CInv'
  <1> SUFFICES ASSUME CInv, [Next]_vars PROVE CInv'
    OBVIOUS
  <1> USE DEF CInv
  <1>1. /\ msg \in [Messages -> Slot]
        /\ rows \in [Incidents -> 0 .. MaxRows]
        /\ current \in [step : Steps, of : Messages]
        /\ AnyMessage \in Messages
    BY MessagesAreFinite DEF TypeOK, Slot, AnyMessage
  <1>2. ASSUME NEW m \in Messages, NEW p \in {"visible", "hidden"}, Move(m, p),
               UNCHANGED <<batch, current, rows, created, crashes, troubles>>
        PROVE  CInv'
    <2>1. /\ msg' \in [Messages -> Slot]
          /\ \A n \in Messages : /\ msg'[n].kind = msg[n].kind
                                 /\ msg'[n].incident = msg[n].incident
                                 /\ msg'[n].place = "deleted" => msg[n].place = "deleted"
      BY <1>1, <1>2, MoveEffect DEF Places
    <2>2. TypeOK'
      BY <1>2, <2>1 DEF TypeOK, Slot
    <2> QED
      BY <1>2, <2>1, <2>2, MovesLoseNothing
  <1>3. ASSUME NEW m \in Messages, Send(m) \/ Redeliver(m)
        PROVE  CInv'
    BY <1>2, <1>3 DEF Send, Redeliver
  <1>4. ASSUME NEW ms \in SUBSET Messages, Receive(ms)
        PROVE  CInv'
    <2>1. /\ msg' \in [Messages -> Slot]
          /\ \A n \in Messages : /\ msg'[n].kind = msg[n].kind
                                 /\ msg'[n].incident = msg[n].incident
                                 /\ msg'[n].place = "deleted" => msg[n].place = "deleted"
      BY <1>1, <1>4, ReceiveEffect
    <2>2. /\ UNCHANGED <<current, rows, created, crashes, troubles>> /\ batch' = ms
          /\ Cardinality(ms) <= BatchSize /\ current.step = "none"
      BY <1>4 DEF Receive, Polling, Nothing
    <2>3. TypeOK'
      BY <2>1, <2>2 DEF TypeOK, Slot
    <2> QED
      BY <2>1, <2>2, <2>3, MovesLoseNothing
  <1>5. ASSUME NEW m \in Messages, ProcessMessage(m)
        PROVE  CInv'
    <2>1. UNCHANGED <<msg, rows, created, crashes, troubles>> /\ m \in batch /\ batch' = batch \ {m}
      BY <1>5 DEF ProcessMessage
    <2>2. /\ current' \in [step : Steps, of : Messages]
          /\ current'.step = "delete" => current'.of = m /\ msg[m].kind # "grave"
          /\ current'.step # "publish"
          /\ current'.step = "none" \/ current'.of = m
      BY <1>1, <1>5 DEF ProcessMessage, Nothing, Steps
    <2>3. TypeOK'
      BY <2>1, <2>2, BatchShrinks DEF TypeOK
    <2> QED
      BY <2>1, <2>2, <2>3 DEF InHandIsStored, AcknowledgedIsStored, HasRow
  <1>6. ASSUME NEW m \in Messages, NEW res \in Outcomes, CreateCorrective(m, res)
        PROVE  CInv'
    <2>1. UNCHANGED <<msg, batch, created, crashes>>
      BY <1>6 DEF CreateCorrective
    <2>2. current' = IF res = "ok" THEN [step |-> "publish", of |-> m] ELSE Nothing
      BY <1>6 DEF CreateCorrective
    <2>3. /\ rows' \in [Incidents -> 0 .. MaxRows]
          /\ \A i \in Incidents : rows[i] > 0 => rows'[i] > 0
          /\ res = "ok" => rows'[msg[m].incident] > 0
          /\ troubles' \in 0 .. MaxRows
      BY <1>6, InsertEffect, TroublesAreTyped DEF CreateCorrective
    <2>4. current = [step |-> "insert", of |-> m]
      BY <1>6 DEF CreateCorrective
    <2>7. TypeOK'
      BY <1>1, <2>1, <2>2, <2>3, <2>4 DEF TypeOK, Nothing, Steps
    <2>5. InHandIsStored'
      BY <2>1, <2>2, <2>3 DEF InHandIsStored, HasRow, Nothing
    <2>6. AcknowledgedIsStored'
      BY <1>1, <2>1, <2>3 DEF AcknowledgedIsStored, Slot
    <2> QED
      BY <2>5, <2>6, <2>7
  <1>7. ASSUME NEW m \in Messages, NEW res \in Outcomes, PublishCreated(m, res)
        PROVE  CInv'
    <2>1. /\ UNCHANGED <<msg, batch, rows, crashes, troubles>>
          /\ current = [step |-> "publish", of |-> m]
          /\ current' = [step |-> "delete", of |-> m]
      BY <1>7 DEF PublishCreated
    <2>2. created' \subseteq Incidents
      BY <1>1, <1>7 DEF PublishCreated, TypeOK, Slot
    <2>3. TypeOK'
      BY <2>1, <2>2 DEF TypeOK, Steps
    <2> QED
      BY <2>1, <2>3 DEF InHandIsStored, AcknowledgedIsStored, HasRow
  <1>8. ASSUME NEW m \in Messages, NEW res \in Outcomes, DeleteMessage(m, res)
        PROVE  CInv'
    <2>1. /\ UNCHANGED <<batch, rows, created, crashes>>
          /\ current = [step |-> "delete", of |-> m]
          /\ current' = Nothing
      BY <1>8 DEF DeleteMessage
    <2>2. msg[m].kind = "grave" => HasRow(m)
      BY <2>1 DEF InHandIsStored
    <2>3. /\ msg' \in [Messages -> Slot]
          /\ \A n \in Messages : /\ msg'[n].kind = msg[n].kind
                                 /\ msg'[n].incident = msg[n].incident
                                 /\ n # m => msg'[n].place = msg[n].place
      BY <1>1, <1>8, MoveEffect DEF DeleteMessage, Places
    <2>5. troubles' \in 0 .. MaxRows
      BY <1>8, TroublesAreTyped DEF DeleteMessage
    <2>4. TypeOK'
      BY <1>1, <2>1, <2>3, <2>5 DEF TypeOK, Nothing, Steps, Slot
    <2>6. InHandIsStored'
      BY <2>1 DEF InHandIsStored, Nothing
    <2>7. \A n \in Messages : HasRow(n)' <=> HasRow(n)
      BY <2>1, <2>3 DEF HasRow
    <2>8. AcknowledgedIsStored'
      BY <2>2, <2>3, <2>7 DEF AcknowledgedIsStored, HasRow
    <2> QED
      BY <2>4, <2>6, <2>8
  <1>9. CASE Crash
    <2>1. UNCHANGED <<msg, rows, created>> /\ current' = Nothing /\ batch' = {}
          /\ crashes' \in 0 .. MaxCrashes
          /\ troubles' \in 0 .. MaxRows
      <3>1. troubles' \in 0 .. MaxRows
        BY <1>9, TroublesAreTyped DEF Crash
      <3> QED
        BY <1>9, <3>1, ConsumerBounds DEF Crash, TypeOK
    <2>2. Cardinality({}) <= BatchSize
      BY FS_EmptySet, BatchSizeIsPositive
    <2>3. TypeOK'
      BY <1>1, <2>1, <2>2 DEF TypeOK, Nothing, Steps
    <2> QED
      BY <2>1, <2>3 DEF InHandIsStored, AcknowledgedIsStored, Nothing
  <1>10. CASE UNCHANGED vars
    BY <1>10 DEF vars, TypeOK, InHandIsStored, AcknowledgedIsStored, HasRow
  <1> QED
    BY <1>3, <1>4, <1>5, <1>6, <1>7, <1>8, <1>9, <1>10 DEF Next

\* The queue, the loop and a crash keep every variable in its type, and no more than
\* BatchSize messages are in the loop's hands.
THEOREM ConsumerTypesAreCorrect == Spec => []TypeOK
  <1>1. CInv => TypeOK
    BY DEF CInv
  <1> QED
    BY <1>1, InitIsSound, CInvIsInductive, PTL DEF Spec

\* A grave incident whose message has left the queue has a maintenance, whatever is
\* lost, redelivered or interrupted (processMessage deletes last, and only after an
\* INSERT that succeeded).
THEOREM NoIncidentIsLost == Spec => []AcknowledgedIsStored
  <1>1. CInv => AcknowledgedIsStored
    BY DEF CInv
  <1> QED
    BY <1>1, InitIsSound, CInvIsInductive, PTL DEF Spec

--------------------------------------------------------------------------------
(* Every row is a message's, or paid for. *)

\* The grave messages about i that have their row and will not get another one: the
\* loop is about to delete them, or has done so.
Handled(i) ==
    {m \in Messages : /\ msg[m].kind = "grave" /\ msg[m].incident = i
                      /\ \/ msg[m].place = "deleted"
                         \/ current.step \in {"publish", "delete"} /\ current.of = m}

\* What the loop has to do, or is doing, has been sent and not been deleted.
Live(m) == msg[m].place \in {"visible", "hidden"}

InHandIsLive ==
    /\ \A m \in batch : Live(m)
    /\ current.step # "none" => Live(current.of)

RowsAreAccountedFor == \A i \in Incidents : rows[i] <= Cardinality(Handled(i)) + troubles

\* Only grave incidents are inserted and published, and only messages that can be
\* handled are deleted.
WorkFitsMessage ==
    /\ current.step \in {"insert", "publish"} => msg[current.of].kind = "grave"
    /\ current.step = "delete" => msg[current.of].kind # "incomplete"

RInv == CInv /\ InHandIsLive /\ WorkFitsMessage /\ RowsAreAccountedFor

\* Sets of messages are finite; one message more or less is one in the count.
LEMMA CountingMessages ==
  ASSUME NEW S \in SUBSET Messages, NEW T \in SUBSET Messages
  PROVE  /\ Cardinality(S) \in Nat
         /\ S \subseteq T => Cardinality(S) <= Cardinality(T)
         /\ \A m \in Messages : S \subseteq T \cup {m} => Cardinality(S) <= Cardinality(T) + 1
         /\ \A m \in Messages :
               m \notin S /\ T = S \cup {m} => Cardinality(T) = Cardinality(S) + 1
  <1>1. IsFiniteSet(S) /\ IsFiniteSet(T)
    BY MessagesAreFinite, FS_Subset
  <1>2. \A m : /\ IsFiniteSet(T \cup {m})
               /\ Cardinality(T \cup {m}) =
                     IF m \in T THEN Cardinality(T) ELSE Cardinality(T) + 1
    BY <1>1, FS_AddElement
  <1>3. \A m : Cardinality(S \cup {m}) =
                  IF m \in S THEN Cardinality(S) ELSE Cardinality(S) + 1
    BY <1>1, FS_AddElement
  <1>4. Cardinality(S) \in Nat /\ Cardinality(T) \in Nat
    BY <1>1, FS_CardinalityType
  <1>5. S \subseteq T => Cardinality(S) <= Cardinality(T)
    BY <1>1, FS_Subset
  <1>6. ASSUME NEW m \in Messages, S \subseteq T \cup {m}
        PROVE  Cardinality(S) <= Cardinality(T) + 1
    <2>1. Cardinality(S) <= Cardinality(T \cup {m})
      BY <1>2, <1>6, FS_Subset
    <2> QED
      BY <1>2, <1>4, <2>1
  <1> QED
    BY <1>3, <1>4, <1>5, <1>6

\* As long as no message leaves Handled, nothing is handled twice.
LEMMA AccountsStayBalanced ==
  ASSUME RInv, UNCHANGED <<rows, troubles>>,
         \A i \in Incidents : Handled(i) \subseteq Handled(i)'
  PROVE  RowsAreAccountedFor'
  <1>1. \A i \in Incidents : Handled(i) \in SUBSET Messages /\ Handled(i)' \in SUBSET Messages
    BY DEF Handled
  <1>2. \A i \in Incidents :
           /\ Cardinality(Handled(i)) \in Nat /\ Cardinality(Handled(i)') \in Nat
           /\ Cardinality(Handled(i)) <= Cardinality(Handled(i)')
    BY <1>1, CountingMessages
  <1>3. \A i \in Incidents : rows[i] \in Int /\ troubles \in Int
    BY ConsumerBounds DEF RInv, CInv, TypeOK
  <1> QED
    BY <1>2, <1>3 DEF RInv, RowsAreAccountedFor

\* A trouble pays for one row more or one handled message less, of one incident.
LEMMA TroublePays ==
  ASSUME RInv, TroubleIf(TRUE), rows' \in [Incidents -> 0 .. MaxRows],
         NEW m \in Messages,
         \A i \in Incidents : \/ /\ rows'[i] <= rows[i]
                                 /\ Handled(i) \subseteq Handled(i)' \cup {m}
                              \/ /\ rows'[i] <= rows[i] + 1
                                 /\ Handled(i) \subseteq Handled(i)'
  PROVE  RowsAreAccountedFor'
  <1>1. \A i \in Incidents : Handled(i) \in SUBSET Messages /\ Handled(i)' \in SUBSET Messages
    BY DEF Handled
  <1>2. ASSUME NEW i \in Incidents
        PROVE  rows'[i] <= Cardinality(Handled(i)') + troubles'
    <2>1. /\ Cardinality(Handled(i)) \in Nat /\ Cardinality(Handled(i)') \in Nat
          /\ Handled(i) \subseteq Handled(i)'
                => Cardinality(Handled(i)) <= Cardinality(Handled(i)')
          /\ Handled(i) \subseteq Handled(i)' \cup {m}
                => Cardinality(Handled(i)) <= Cardinality(Handled(i)') + 1
      BY <1>1, CountingMessages
    <2>2. /\ rows[i] \in 0 .. MaxRows /\ rows'[i] \in 0 .. MaxRows
          /\ troubles \in 0 .. MaxRows /\ MaxRows \in Nat
      BY ConsumerBounds DEF RInv, CInv, TypeOK
    <2>3. rows[i] <= Cardinality(Handled(i)) + troubles
      BY DEF RInv, RowsAreAccountedFor
    <2>4. rows'[i] <= Cardinality(Handled(i)') + troubles + 1
      BY <2>1, <2>2, <2>3
    <2>5. troubles' = IF troubles < MaxRows THEN troubles + 1 ELSE troubles
      BY DEF TroubleIf
    <2> QED
      BY <2>1, <2>2, <2>4, <2>5
  <1> QED
    BY <1>2 DEF RowsAreAccountedFor

\* An INSERT that succeeds makes the message a handled one.
LEMMA InsertIsAccountedFor ==
  ASSUME RInv, NEW m \in Messages, CreateCorrective(m, "ok")
  PROVE  RowsAreAccountedFor'
  <1> DEFINE j == msg[m].incident
  <1>1. /\ UNCHANGED <<msg, troubles>>
        /\ current = [step |-> "insert", of |-> m] /\ current' = [step |-> "publish", of |-> m]
        /\ rows' = IF rows[j] = MaxRows THEN rows ELSE [rows EXCEPT ![j] = @ + 1]
    BY DEF CreateCorrective, TroubleIf
  <1>2. /\ j \in Incidents
        /\ rows \in [Incidents -> 0 .. MaxRows] /\ troubles \in 0 .. MaxRows /\ MaxRows \in Nat
    BY ConsumerBounds DEF RInv, CInv, TypeOK
  <1>3. msg[m].place # "deleted"
    BY <1>1 DEF RInv, InHandIsLive, Live
  <1>4. \A i \in Incidents : Handled(i) \subseteq Handled(i)'
    BY <1>1, <1>3 DEF Handled
  <1>5. msg[m].kind = "grave"
    BY <1>1 DEF RInv, WorkFitsMessage
  <1>7. \A i \in Incidents : i = j => m \notin Handled(i) /\ Handled(i)' = Handled(i) \cup {m}
    BY <1>1, <1>3, <1>5 DEF Handled
  <1>6. ASSUME NEW i \in Incidents
        PROVE  rows'[i] <= Cardinality(Handled(i)') + troubles
    <2>1. Handled(i) \in SUBSET Messages /\ Handled(i)' \in SUBSET Messages
      BY DEF Handled
    <2>2. /\ Cardinality(Handled(i)) \in Nat /\ Cardinality(Handled(i)') \in Nat
          /\ Cardinality(Handled(i)) <= Cardinality(Handled(i)')
      BY <1>4, <2>1, CountingMessages
    <2>5. ASSUME i = j
          PROVE  Cardinality(Handled(i)') = Cardinality(Handled(i)) + 1
      <3>1. m \notin Handled(i) /\ Handled(i)' = Handled(i) \cup {m}
        BY <1>7, <2>5
      <3> QED
        BY <2>1, <3>1, CountingMessages
    <2>3. rows[i] <= Cardinality(Handled(i)) + troubles
      BY DEF RInv, RowsAreAccountedFor
    <2> HIDE DEF j
    <2>4. rows'[i] = rows[i] \/ (i = j /\ rows'[i] = rows[i] + 1)
      BY <1>1, <1>2
    <2> QED
      BY <1>2, <2>2, <2>3, <2>4, <2>5
  <1> QED
    BY <1>1, <1>6 DEF RowsAreAccountedFor

\* One that fails makes no row, or makes one and a trouble.
LEMMA FailedInsertIsAccountedFor ==
  ASSUME RInv, NEW m \in Messages, NEW res \in {"lost", "unacked"}, CreateCorrective(m, res)
  PROVE  RowsAreAccountedFor'
  <1> DEFINE j == msg[m].incident
  <1>1. /\ UNCHANGED msg /\ TroubleIf(res = "unacked")
        /\ current = [step |-> "insert", of |-> m] /\ current' = Nothing
        /\ rows' = IF res = "lost" \/ rows[j] = MaxRows THEN rows
                   ELSE [rows EXCEPT ![j] = @ + 1]
    BY DEF CreateCorrective
  <1>2. \A i \in Incidents : Handled(i) \subseteq Handled(i)'
    BY <1>1 DEF Handled
  <1>3. CASE res = "lost"
    <2>1. UNCHANGED <<rows, troubles>>
      BY <1>1, <1>3 DEF TroubleIf
    <2> QED
      BY <1>2, <2>1, AccountsStayBalanced
  <1>4. CASE res = "unacked"
    <2>1. /\ j \in Incidents /\ rows \in [Incidents -> 0 .. MaxRows] /\ MaxRows \in Nat
      BY ConsumerBounds DEF RInv, CInv, TypeOK
    <2>2. TroubleIf(TRUE)
      BY <1>1, <1>4 DEF TroubleIf
    <2> HIDE DEF j
    <2>3. /\ rows' \in [Incidents -> 0 .. MaxRows]
          /\ \A i \in Incidents : rows'[i] <= rows[i] + 1
      BY <1>1, <1>4, <2>1
    <2> QED
      BY <1>2, <2>2, <2>3, TroublePays
  <1> QED
    BY <1>3, <1>4

LEMMA RInvIsInductive == RInv /\ [Next]_vars => RInv'
  <1> SUFFICES ASSUME RInv, [Next]_vars
               PROVE  InHandIsLive' /\ WorkFitsMessage' /\ RowsAreAccountedFor'
    BY CInvIsInductive DEF RInv
  <1>1. /\ msg \in [Messages -> Slot] /\ batch \subseteq Messages
        /\ current.of \in Messages /\ AnyMessage \in Messages
        /\ rows \in [Incidents -> 0 .. MaxRows]
        /\ InHandIsLive /\ WorkFitsMessage
    BY MessagesAreFinite DEF RInv, CInv, TypeOK, Slot, AnyMessage
  <1>2. ASSUME NEW m \in Messages, NEW p \in {"visible", "hidden"}, Move(m, p),
               msg[m].place # "deleted",
               UNCHANGED <<batch, current, rows, created, crashes, troubles>>
        PROVE  InHandIsLive' /\ WorkFitsMessage' /\ RowsAreAccountedFor'
    <2>1. /\ msg'[m].kind = msg[m].kind /\ msg'[m].incident = msg[m].incident
          /\ msg'[m].place = p
          /\ \A n \in Messages : n # m => msg'[n] = msg[n]
      BY <1>1, <1>2, MoveEffect DEF Places
    <2>2. \A n \in Messages : /\ msg'[n].kind = msg[n].kind
                              /\ msg'[n].incident = msg[n].incident
                              /\ Live(n) => Live(n)'
                              /\ msg[n].place = "deleted" => msg'[n].place = "deleted"
      BY <1>2, <2>1 DEF Live
    <2>3. InHandIsLive' /\ WorkFitsMessage'
      BY <1>1, <1>2, <2>2 DEF InHandIsLive, WorkFitsMessage
    <2>4. \A i \in Incidents : Handled(i) \subseteq Handled(i)'
      BY <1>2, <2>2 DEF Handled
    <2> QED
      BY <1>2, <2>3, <2>4, AccountsStayBalanced
  <1>3. ASSUME NEW m \in Messages, Send(m) \/ Redeliver(m)
        PROVE  InHandIsLive' /\ WorkFitsMessage' /\ RowsAreAccountedFor'
    BY <1>2, <1>3 DEF Send, Redeliver
  <1>4. ASSUME NEW ms \in SUBSET Messages, Receive(ms)
        PROVE  InHandIsLive' /\ WorkFitsMessage' /\ RowsAreAccountedFor'
    <2>1. /\ UNCHANGED <<current, rows, troubles>> /\ batch' = ms /\ current.step = "none"
          /\ ms \subseteq At("visible")
          /\ msg' = [n \in Messages |-> IF n \in ms THEN [msg[n] EXCEPT !.place = "hidden"]
                                        ELSE msg[n]]
      BY <1>4 DEF Receive, Polling, Nothing
    <2>2. \A n \in ms : msg[n].place = "visible" /\ msg'[n].place = "hidden"
      BY <1>1, <2>1 DEF At, Slot
    <2>3. \A n \in Messages : n \notin ms => msg'[n] = msg[n]
      BY <2>1
    <2>4. InHandIsLive' /\ WorkFitsMessage'
      BY <2>1, <2>2 DEF InHandIsLive, WorkFitsMessage, Live
    <2>5. \A i \in Incidents : Handled(i) \subseteq Handled(i)'
      BY <2>1, <2>2, <2>3 DEF Handled
    <2> QED
      BY <2>1, <2>4, <2>5, AccountsStayBalanced
  <1>5. ASSUME NEW m \in Messages, ProcessMessage(m)
        PROVE  InHandIsLive' /\ WorkFitsMessage' /\ RowsAreAccountedFor'
    <2>1. /\ UNCHANGED <<msg, rows, troubles>> /\ m \in batch /\ batch' = batch \ {m}
          /\ current.step = "none"
      BY <1>5 DEF ProcessMessage, Nothing
    <2>2. /\ current'.step = "none" \/ current'.of = m
          /\ current'.step = "insert" => msg[m].kind = "grave"
          /\ current'.step = "delete" => msg[m].kind # "incomplete"
          /\ current'.step # "publish"
      BY <1>5 DEF ProcessMessage, Nothing
    <2>3. InHandIsLive' /\ WorkFitsMessage'
      BY <1>1, <2>1, <2>2 DEF InHandIsLive, WorkFitsMessage, Live
    <2>4. \A i \in Incidents : Handled(i) \subseteq Handled(i)'
      BY <2>1 DEF Handled
    <2> QED
      BY <2>1, <2>3, <2>4, AccountsStayBalanced
  <1>6. ASSUME NEW m \in Messages, NEW res \in Outcomes, CreateCorrective(m, res)
        PROVE  InHandIsLive' /\ WorkFitsMessage' /\ RowsAreAccountedFor'
    <2>1. /\ UNCHANGED <<msg, batch>>
          /\ current = [step |-> "insert", of |-> m]
          /\ current' = [step |-> "publish", of |-> m] \/ current' = Nothing
      BY <1>6 DEF CreateCorrective
    <2>2. InHandIsLive' /\ WorkFitsMessage'
      BY <1>1, <2>1 DEF InHandIsLive, WorkFitsMessage, Live, Nothing
    <2>3. res = "ok" \/ res \in {"lost", "unacked"}
      BY ConsumerFaultsAreKnown DEF Outcomes
    <2> QED
      BY <1>6, <2>2, <2>3, InsertIsAccountedFor, FailedInsertIsAccountedFor
  <1>7. ASSUME NEW m \in Messages, NEW res \in Outcomes, PublishCreated(m, res)
        PROVE  InHandIsLive' /\ WorkFitsMessage' /\ RowsAreAccountedFor'
    <2>1. /\ UNCHANGED <<msg, batch, rows, troubles>>
          /\ current = [step |-> "publish", of |-> m]
          /\ current' = [step |-> "delete", of |-> m]
      BY <1>7 DEF PublishCreated
    <2>2. InHandIsLive' /\ WorkFitsMessage'
      BY <1>1, <2>1 DEF InHandIsLive, WorkFitsMessage, Live
    <2>3. \A i \in Incidents : Handled(i) \subseteq Handled(i)'
      BY <2>1 DEF Handled
    <2> QED
      BY <2>1, <2>2, <2>3, AccountsStayBalanced
  <1>8. ASSUME NEW m \in Messages, NEW res \in Outcomes, DeleteMessage(m, res)
        PROVE  InHandIsLive' /\ WorkFitsMessage' /\ RowsAreAccountedFor'
    <2>1. /\ UNCHANGED <<batch, rows>> /\ TroubleIf(res = "lost")
          /\ current = [step |-> "delete", of |-> m] /\ current' = Nothing
          /\ IF res = "lost" THEN UNCHANGED msg ELSE Move(m, "deleted")
      BY <1>8 DEF DeleteMessage
    <2>2. m \notin batch
      BY <2>1 DEF RInv, CInv, TypeOK
    <2>3. CASE res = "lost"
      <3>1. UNCHANGED msg /\ TroubleIf(TRUE)
        BY <2>1, <2>3
      <3>2. InHandIsLive' /\ WorkFitsMessage'
        BY <1>1, <2>1, <3>1 DEF InHandIsLive, WorkFitsMessage, Live, Nothing
      <3>3. \A i \in Incidents : Handled(i) \subseteq Handled(i)' \cup {m}
        BY <2>1, <3>1 DEF Handled
      <3>4. \A i \in Incidents : rows'[i] <= rows[i]
        BY <1>1, <2>1, ConsumerBounds
      <3> QED
        BY <1>1, <2>1, <3>1, <3>2, <3>3, <3>4, TroublePays
    <2>4. CASE res # "lost"
      <3>1. /\ msg'[m].kind = msg[m].kind /\ msg'[m].incident = msg[m].incident
            /\ msg'[m].place = "deleted"
            /\ \A n \in Messages : n # m => msg'[n] = msg[n]
        BY <1>1, <2>1, <2>4, MoveEffect DEF Places
      <3>2. InHandIsLive' /\ WorkFitsMessage'
        BY <1>1, <2>1, <2>2, <3>1 DEF InHandIsLive, WorkFitsMessage, Live, Nothing
      <3>3. \A i \in Incidents : Handled(i) \subseteq Handled(i)'
        BY <2>1, <3>1 DEF Handled
      <3>4. UNCHANGED troubles
        BY <2>1, <2>4 DEF TroubleIf
      <3> QED
        BY <2>1, <3>2, <3>3, <3>4, AccountsStayBalanced
    <2> QED
      BY <2>3, <2>4
  <1>9. CASE Crash
    <2>1. /\ UNCHANGED <<msg, rows>> /\ TroubleIf(TRUE)
          /\ batch' = {} /\ current' = Nothing
      BY <1>9 DEF Crash
    <2>2. InHandIsLive' /\ WorkFitsMessage'
      BY <2>1 DEF InHandIsLive, WorkFitsMessage, Nothing
    <2>3. \A i \in Incidents : Handled(i) \subseteq Handled(i)' \cup {current.of}
      BY <2>1 DEF Handled
    <2>4. \A i \in Incidents : rows'[i] <= rows[i]
      BY <1>1, <2>1, ConsumerBounds
    <2> QED
      BY <1>1, <2>1, <2>2, <2>3, <2>4, TroublePays
  <1>10. CASE UNCHANGED vars
    <2>1. UNCHANGED <<msg, batch, current, rows, troubles>>
      BY <1>10 DEF vars
    <2>2. InHandIsLive' /\ WorkFitsMessage'
      BY <1>1, <2>1 DEF InHandIsLive, WorkFitsMessage, Live
    <2>3. \A i \in Incidents : Handled(i) \subseteq Handled(i)'
      BY <2>1 DEF Handled
    <2> QED
      BY <2>1, <2>2, <2>3, AccountsStayBalanced
  <1> QED
    BY <1>3, <1>4, <1>5, <1>6, <1>7, <1>8, <1>9, <1>10 DEF Next

LEMMA ConsumerInvariant == Spec => []RInv
  <1>1. Init => RInv
    <2> SUFFICES ASSUME Init PROVE InHandIsLive /\ WorkFitsMessage /\ RowsAreAccountedFor
      BY InitIsSound DEF RInv
    <2>1. \A i \in Incidents : Handled(i) \in SUBSET Messages
      BY DEF Handled
    <2>2. \A i \in Incidents : Cardinality(Handled(i)) \in Nat
      BY <2>1, CountingMessages
    <2> QED
      BY <2>2 DEF Init, InHandIsLive, WorkFitsMessage, RowsAreAccountedFor, Nothing
  <1> QED
    BY <1>1, RInvIsInductive, PTL DEF Spec

\* An incident has no more rows than messages and troubles: whatever expires or is
\* delivered again, only an INSERT applied with an error, a failed deletion or a crash
\* makes a second row for a message (CreateCorrective, deleteMessage).
THEOREM EveryRowIsAccountedFor == Spec => []OneRowPerMessage
  <1>1. RInv => OneRowPerMessage
    <2> SUFFICES ASSUME RInv, NEW i \in Incidents
                 PROVE  rows[i] <= Cardinality(GraveFor(i)) + troubles
      BY DEF OneRowPerMessage
    <2>1. Handled(i) \subseteq GraveFor(i)
      BY DEF Handled, GraveFor, Sent, RInv, InHandIsLive, Live
    <2>2. /\ Handled(i) \in SUBSET Messages /\ GraveFor(i) \in SUBSET Messages
      BY DEF Handled, GraveFor
    <2>3. /\ Cardinality(Handled(i)) \in Nat /\ Cardinality(GraveFor(i)) \in Nat
          /\ Cardinality(Handled(i)) <= Cardinality(GraveFor(i))
      BY <2>1, <2>2, CountingMessages
    <2>4. rows[i] \in Int /\ troubles \in Int
      BY ConsumerBounds DEF RInv, CInv, TypeOK
    <2>5. rows[i] <= Cardinality(Handled(i)) + troubles
      BY DEF RInv, RowsAreAccountedFor
    <2> QED
      BY <2>3, <2>4, <2>5
  <1> QED
    BY <1>1, ConsumerInvariant, PTL

--------------------------------------------------------------------------------
(* The consumer implements the intake. *)

Pending == At("visible") \cup At("hidden")
WithMaintenance == {i \in Incidents : rows[i] > 0}

\* The intake's variables in terms of the consumer's.
LEMMA IntakeStutters ==
  ASSUME UNCHANGED <<About, Pending, At("deleted"), WithMaintenance, created>>
  PROVE  UNCHANGED Intake!intakeVars
  BY DEF Intake!intakeVars, Pending, WithMaintenance

\* Messages that move within the queue are the same messages to the intake.
LEMMA MovingIsStuttering ==
  ASSUME msg \in [Messages -> Slot], msg' \in [Messages -> Slot],
         UNCHANGED <<rows, created>>,
         \A n \in Messages : /\ msg'[n].kind = msg[n].kind
                             /\ msg'[n].incident = msg[n].incident
                             /\ \/ msg'[n] = msg[n]
                                \/ Live(n) /\ Live(n)'
  PROVE  UNCHANGED Intake!intakeVars
  <1>1. About' = About
    BY DEF About
  <1>2. Pending' = Pending /\ At("deleted")' = At("deleted")
    BY DEF Pending, At, Live
  <1>3. WithMaintenance' = WithMaintenance
    BY DEF WithMaintenance
  <1> QED
    BY <1>1, <1>2, <1>3, IntakeStutters

LEMMA SendingIsSubmitting ==
  ASSUME TypeOK, NEW m \in Messages, Send(m)
  PROVE  Intake!Submit(m)
  <1>1. /\ msg \in [Messages -> Slot] /\ UNCHANGED <<rows, created>>
        /\ msg[m].place = "unsent" /\ Move(m, "visible")
    BY DEF TypeOK, Slot, Send
  <1>2. /\ \A n \in Messages : n # m => msg'[n] = msg[n]
        /\ msg'[m].kind = msg[m].kind /\ msg'[m].incident = msg[m].incident
        /\ msg'[m].place = "visible"
    BY <1>1, MoveEffect DEF Places
  <1>3. About' = About
    BY <1>2 DEF About
  <1>4. Pending' = Pending \cup {m} /\ At("deleted")' = At("deleted")
    BY <1>1, <1>2 DEF Pending, At
  <1>5. m \notin Pending \cup At("deleted")
    BY <1>1 DEF Pending, At
  <1>6. WithMaintenance' = WithMaintenance
    BY <1>1 DEF WithMaintenance
  <1> QED
    BY <1>1, <1>3, <1>4, <1>5, <1>6 DEF Intake!Submit, Pending, WithMaintenance

\* What is in hand is pending, and the intake knows what it says.
LEMMA InHandIsPending ==
  ASSUME RInv, current.step # "none"
  PROVE  /\ current.of \in Messages
         /\ current.of \in Pending
         /\ About[current.of].kind = msg[current.of].kind
         /\ About[current.of].incident = msg[current.of].incident
         /\ msg[current.of].incident \in Incidents
  BY DEF RInv, CInv, TypeOK, InHandIsLive, Live, Pending, At, About

\* An INSERT that is applied stores the incident of a pending grave message, again
\* or for the first time.
LEMMA InsertingIsStoring ==
  ASSUME RInv, NEW m \in Messages, NEW res \in Outcomes, CreateCorrective(m, res)
  PROVE  Intake!Store(m) \/ UNCHANGED Intake!intakeVars
  <1>1. /\ current.step = "insert" /\ current.of = m
        /\ UNCHANGED <<msg, created>>
    BY DEF CreateCorrective
  <1>2. /\ TypeOK /\ ConsumerBounds /\ rows \in [Incidents -> 0 .. MaxRows]
        /\ msg[m].kind = "grave"
    BY <1>1, ConsumerBounds DEF RInv, CInv, TypeOK, WorkFitsMessage
  <1>3. /\ m \in Pending /\ About[m].kind = "grave"
        /\ About[m].incident = msg[m].incident /\ msg[m].incident \in Incidents
    BY <1>1, <1>2, InHandIsPending
  <1>4. UNCHANGED <<About, Pending, At("deleted")>>
    BY <1>1 DEF About, Pending, At
  <1>5. WithMaintenance' = WithMaintenance
           \/ WithMaintenance' = WithMaintenance \cup {msg[m].incident}
    <2> DEFINE i == msg[m].incident
    <2>1. rows' = rows \/ rows' = [rows EXCEPT ![i] = @ + 1]
      BY DEF CreateCorrective
    <2> HIDE DEF i
    <2>2. CASE rows' = rows
      BY <2>2 DEF WithMaintenance
    <2>3. CASE rows' = [rows EXCEPT ![i] = @ + 1]
      <3>1. /\ \A j \in Incidents : j # i => rows'[j] = rows[j]
            /\ i \in Incidents /\ rows'[i] > 0
        BY <1>2, <1>3, <2>3 DEF i
      <3>2. WithMaintenance' = WithMaintenance \cup {i}
        BY <3>1 DEF WithMaintenance
      <3> QED
        BY <3>2 DEF i
    <2> QED
      BY <2>1, <2>2, <2>3
  <1>6. CASE WithMaintenance' = WithMaintenance
    BY <1>1, <1>4, <1>6, IntakeStutters
  <1>7. CASE WithMaintenance' = WithMaintenance \cup {msg[m].incident}
    BY <1>1, <1>3, <1>4, <1>7 DEF Intake!Store, Pending, WithMaintenance
  <1> QED
    BY <1>5, <1>6, <1>7

\* The event of a pending message goes out when its row is there.
LEMMA PublishingIsAnnouncing ==
  ASSUME RInv, NEW m \in Messages, NEW res \in Outcomes, PublishCreated(m, res)
  PROVE  Intake!Announce(m) \/ UNCHANGED Intake!intakeVars
  <1>1. /\ current.step = "publish" /\ current.of = m
        /\ UNCHANGED <<msg, rows>>
        /\ created' = created \/ created' = created \cup {msg[m].incident}
    BY DEF PublishCreated
  <1>2. msg[m].kind = "grave"
    BY <1>1 DEF RInv, WorkFitsMessage
  <1>3. /\ m \in Pending /\ About[m].kind = "grave"
        /\ About[m].incident = msg[m].incident /\ msg[m].incident \in Incidents
    BY <1>1, <1>2, InHandIsPending
  <1>4. msg[m].incident \in WithMaintenance
    BY <1>1, <1>2, <1>3 DEF RInv, CInv, InHandIsStored, HasRow, WithMaintenance
  <1>5. UNCHANGED <<About, Pending, At("deleted"), WithMaintenance>>
    BY <1>1 DEF About, Pending, At, WithMaintenance
  <1>6. CASE created' = created
    BY <1>5, <1>6, IntakeStutters
  <1>7. CASE created' = created \cup {msg[m].incident}
    BY <1>3, <1>4, <1>5, <1>7 DEF Intake!Announce, Pending, WithMaintenance
  <1> QED
    BY <1>1, <1>6, <1>7

\* A message is deleted when nothing is left to do for it.
LEMMA DeletingIsAcknowledging ==
  ASSUME RInv, NEW m \in Messages, NEW res \in Outcomes, DeleteMessage(m, res)
  PROVE  Intake!Acknowledge(m) \/ UNCHANGED Intake!intakeVars
  <1>1. /\ current.step = "delete" /\ current.of = m
        /\ UNCHANGED <<rows, created>>
        /\ msg' = msg \/ Move(m, "deleted")
    BY DEF DeleteMessage
  <1>2. msg \in [Messages -> Slot] /\ msg[m].kind # "incomplete"
    BY <1>1 DEF RInv, CInv, TypeOK, Slot, WorkFitsMessage
  <1>3. /\ m \in Pending /\ About[m].kind = msg[m].kind
        /\ About[m].incident = msg[m].incident /\ msg[m].incident \in Incidents
    BY <1>1, InHandIsPending
  <1>4. About[m].kind = "grave" => About[m].incident \in WithMaintenance
    BY <1>1, <1>3 DEF RInv, CInv, InHandIsStored, HasRow, WithMaintenance
  <1>5. WithMaintenance' = WithMaintenance
    BY <1>1 DEF WithMaintenance
  <1>6. CASE msg' = msg
    BY <1>1, <1>5, <1>6, IntakeStutters DEF About, Pending, At
  <1>7. CASE Move(m, "deleted")
    <2>1. /\ \A n \in Messages : n # m => msg'[n] = msg[n]
          /\ msg'[m].kind = msg[m].kind /\ msg'[m].incident = msg[m].incident
          /\ msg'[m].place = "deleted"
      BY <1>2, <1>7, MoveEffect DEF Places
    <2>2. About' = About
      BY <2>1 DEF About
    <2>3. Pending' = Pending \ {m} /\ At("deleted")' = At("deleted") \cup {m}
      BY <2>1 DEF Pending, At
    <2> QED
      BY <1>1, <1>2, <1>3, <1>4, <1>5, <2>2, <2>3
         DEF Intake!Acknowledge, Pending, WithMaintenance
  <1> QED
    BY <1>1, <1>6, <1>7

LEMMA IntakeFollows == RInv /\ [Next]_vars => [Intake!IntakeNext]_(Intake!intakeVars)
  <1> SUFFICES ASSUME RInv, [Next]_vars
               PROVE  Intake!IntakeNext \/ UNCHANGED Intake!intakeVars
    OBVIOUS
  <1>1. TypeOK /\ msg \in [Messages -> Slot]
    BY DEF RInv, CInv, TypeOK, Slot
  <1>2. ASSUME NEW m \in Messages, Send(m)
        PROVE  Intake!IntakeNext
    BY <1>1, <1>2, SendingIsSubmitting DEF Intake!IntakeNext
  <1>3. ASSUME NEW m \in Messages, Redeliver(m)
        PROVE  UNCHANGED Intake!intakeVars
    <2>1. Live(m) /\ Move(m, "visible") /\ UNCHANGED <<rows, created>>
      BY <1>3 DEF Redeliver, Live
    <2>2. /\ msg' \in [Messages -> Slot]
          /\ \A n \in Messages : n # m => msg'[n] = msg[n]
          /\ msg'[m].kind = msg[m].kind /\ msg'[m].incident = msg[m].incident
          /\ Live(m)'
      BY <1>1, <2>1, MoveEffect DEF Places, Live
    <2> QED
      BY <1>1, <2>1, <2>2, MovingIsStuttering
  <1>4. ASSUME NEW ms \in SUBSET Messages, Receive(ms)
        PROVE  UNCHANGED Intake!intakeVars
    <2>1. /\ UNCHANGED <<rows, created>>
          /\ ms \subseteq At("visible")
          /\ msg' = [n \in Messages |-> IF n \in ms THEN [msg[n] EXCEPT !.place = "hidden"]
                                        ELSE msg[n]]
      BY <1>4 DEF Receive
    <2>2. msg' \in [Messages -> Slot]
      BY <1>1, <1>4, ReceiveEffect
    <2>3. \A n \in Messages : /\ msg'[n].kind = msg[n].kind
                              /\ msg'[n].incident = msg[n].incident
                              /\ \/ msg'[n] = msg[n]
                                 \/ Live(n) /\ Live(n)'
      BY <1>1, <2>1 DEF At, Live, Slot
    <2> QED
      BY <1>1, <2>1, <2>2, <2>3, MovingIsStuttering
  <1>5. ASSUME UNCHANGED <<msg, rows, created>>
        PROVE  UNCHANGED Intake!intakeVars
    BY <1>5, IntakeStutters DEF About, Pending, At, WithMaintenance
  <1>6. ASSUME NEW m \in Messages, ProcessMessage(m)
        PROVE  UNCHANGED Intake!intakeVars
    BY <1>5, <1>6 DEF ProcessMessage
  <1>7. ASSUME NEW m \in Messages, NEW res \in Outcomes,
               CreateCorrective(m, res) \/ PublishCreated(m, res) \/ DeleteMessage(m, res)
        PROVE  Intake!IntakeNext \/ UNCHANGED Intake!intakeVars
    BY <1>7, InsertingIsStoring, PublishingIsAnnouncing, DeletingIsAcknowledging
       DEF Intake!IntakeNext
  <1>8. CASE Crash \/ UNCHANGED vars
    BY <1>5, <1>8 DEF Crash, vars
  <1> QED
    BY <1>2, <1>3, <1>4, <1>6, <1>7, <1>8 DEF Next

LEMMA IntakeStarts == Init => Intake!IntakeInit
  <1> SUFFICES ASSUME Init PROVE Intake!IntakeInit
    OBVIOUS
  <1>1. \A m \in Messages : /\ msg[m].kind \in Kinds /\ msg[m].incident \in Incidents
                            /\ msg[m].place = "unsent"
    BY DEF Init
  <1>2. About \in [Messages -> [kind : Intake!Kinds, incident : Incidents]]
    BY <1>1 DEF About, Kinds, Intake!Kinds
  <1>3. At("visible") \cup At("hidden") = {} /\ At("deleted") = {}
    BY <1>1 DEF At
  <1>4. {i \in Incidents : rows[i] > 0} = {}
    BY DEF Init
  <1> QED
    BY <1>2, <1>3, <1>4 DEF Intake!IntakeInit, Init

\* The consumer handles incidents at least once: its initial states and its steps are
\* the intake's, so that no event precedes its row or follows the acknowledgement, and
\* no message is acknowledged before its row is there, for any number of messages and
\* crashes, any redeliveries and any faults (processMessage, CreateCorrective).
THEOREM ConsumerImplementsIntake == Spec => ImplementsIntake
  BY ConsumerInvariant, IntakeStarts, IntakeFollows, PTL
  DEF Spec, ImplementsIntake, Intake!IntakeSpec
================================================================================
