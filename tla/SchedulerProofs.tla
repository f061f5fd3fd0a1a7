----------------------------- MODULE SchedulerProofs -----------------------------
(* Proofs about PreventiveScheduler, for every fleet, every set of vehicles, every
   threshold, every choice of faults and any number of crashes: its types; that a vehicle
   has at most one active row for each run there can be at a time and each trouble it
   had; that no event goes out without its row; and that due vehicles are recognized. *)
EXTENDS PreventiveScheduler, FiniteSetTheorems, TLAPS

--------------------------------------------------------------------------------
(* Steps on the rows of one vehicle. *)

\* A step that books nothing: no vehicle gets more active or more queued rows.
NothingBooked ==
    /\ rows' \in [Vehicles -> Row]
    /\ \A w \in Vehicles :
          /\ Active(w, "preventive")' <= Active(w, "preventive")
          /\ rows'[w]["preventive"]["queued"] <= rows[w]["preventive"]["queued"]

\* Counts are numbers.
LEMMA CountsAreNumbers ==
  ASSUME rows \in [Vehicles -> Row]
  PROVE  \A w \in Vehicles, u \in Types, x \in ActiveStatus :
            rows[w][u][x] \in 0 .. MaxRows
  BY DEF Row

\* rows with one count changed.
WithCount(v, t, st, n) == [rows EXCEPT ![v][t][st] = n]

\* Setting one count of one vehicle and type leaves every other count alone.
LEMMA SetCount ==
  ASSUME NEW v \in Vehicles, NEW t \in Types, NEW st \in ActiveStatus,
         NEW n \in 0 .. MaxRows,
         rows \in [Vehicles -> Row],
         rows' = WithCount(v, t, st, n)
  PROVE  /\ rows' \in [Vehicles -> Row]
         /\ \A w \in Vehicles, u \in Types, x \in ActiveStatus :
               rows'[w][u][x] = IF w = v /\ u = t /\ x = st THEN n ELSE rows[w][u][x]
  <1>1. rows[v] \in Row /\ rows[v][t] \in [ActiveStatus -> 0 .. MaxRows]
    BY DEF Row
  <1>2. rows' = [rows EXCEPT ![v] = [rows[v] EXCEPT ![t] = [rows[v][t] EXCEPT ![st] = n]]]
    BY DEF WithCount
  <1>3. [rows[v] EXCEPT ![t] = [rows[v][t] EXCEPT ![st] = n]] \in Row
    BY <1>1 DEF Row
  <1> QED
    BY <1>1, <1>2, <1>3 DEF Row

\* A row that starts moves from one count to the other.
LEMMA StartEffect ==
  ASSUME TypeOK, NEW v \in Vehicles, NEW t \in Types, StartRow(v, t)
  PROVE  NothingBooked
  <1> DEFINE q == rows[v][t]["queued"]
             p == rows[v][t]["in_progress"]
             row == [rows[v][t] EXCEPT !["queued"] = q - 1, !["in_progress"] = p + 1]
  <1>1. rows \in [Vehicles -> Row]
    BY DEF TypeOK, RowsTypeOK
  <1>2. /\ rows[v] \in Row
        /\ rows[v][t] \in [ActiveStatus -> 0 .. MaxRows]
        /\ q \in 0 .. MaxRows /\ p \in 0 .. MaxRows /\ q > 0 /\ p < MaxRows
    BY <1>1 DEF Row, ActiveStatus, StartRow
  <1>3. /\ row \in [ActiveStatus -> 0 .. MaxRows]
        /\ row["queued"] = q - 1 /\ row["in_progress"] = p + 1
    BY <1>2, SchedulerBounds DEF ActiveStatus
  <1>4. rows' = [rows EXCEPT ![v] = [rows[v] EXCEPT ![t] = row]]
    BY <1>1, <1>2 DEF StartRow, Row
  <1>5. rows' \in [Vehicles -> Row]
    BY <1>1, <1>2, <1>3, <1>4 DEF Row
  <1>6. \A w \in Vehicles, u \in Types :
           rows'[w][u] = IF w = v /\ u = t THEN row ELSE rows[w][u]
    BY <1>1, <1>2, <1>4 DEF Row
  <1>7. ASSUME NEW w \in Vehicles
        PROVE  /\ Active(w, "preventive")' <= Active(w, "preventive")
               /\ rows'[w]["preventive"]["queued"] <= rows[w]["preventive"]["queued"]
    <2>1. /\ "preventive" \in Types
          /\ rows[w]["preventive"]["queued"] \in Int
          /\ rows[w]["preventive"]["in_progress"] \in Int
      BY <1>1 DEF Row, Types, ActiveStatus
    <2>2. rows'[w]["preventive"] = IF w = v /\ "preventive" = t THEN row ELSE rows[w]["preventive"]
      BY <1>6, <2>1
    <2> QED
      BY <1>2, <1>3, <2>1, <2>2 DEF Active
  <1> QED
    BY <1>5, <1>7 DEF NothingBooked

\* A row that is completed leaves its count.
LEMMA CompleteEffect ==
  ASSUME TypeOK, NEW v \in Vehicles, NEW t \in Types, NEW st \in ActiveStatus,
         CompleteRow(v, t, st)
  PROVE  NothingBooked
  <1>1. rows \in [Vehicles -> Row]
    BY DEF TypeOK, RowsTypeOK
  <1>2. rows[v][t][st] \in 0 .. MaxRows /\ rows[v][t][st] > 0
    BY <1>1, CountsAreNumbers DEF CompleteRow
  <1>3. rows[v][t][st] - 1 \in 0 .. MaxRows
    BY <1>2, SchedulerBounds
  <1>4. rows' = WithCount(v, t, st, rows[v][t][st] - 1)
    BY DEF CompleteRow, WithCount
  <1>5. /\ rows' \in [Vehicles -> Row]
        /\ \A w \in Vehicles, u \in Types, x \in ActiveStatus :
              rows'[w][u][x] = IF w = v /\ u = t /\ x = st THEN rows[v][t][st] - 1
                               ELSE rows[w][u][x]
    BY <1>1, <1>3, <1>4, SetCount
  <1>6. \A w \in Vehicles, x \in ActiveStatus :
           /\ rows'[w]["preventive"][x] <= rows[w]["preventive"][x]
           /\ rows'[w]["preventive"][x] \in Int
           /\ rows[w]["preventive"][x] \in Int
    BY <1>1, <1>2, <1>3, <1>5, CountsAreNumbers DEF Types
  <1> QED
    BY <1>5, <1>6 DEF NothingBooked, Active, ActiveStatus

\* A corrective row is no preventive row.
LEMMA CorrectiveEffect ==
  ASSUME TypeOK, NEW v \in Vehicles, InsertRow(v, "corrective")
  PROVE  NothingBooked
  <1> DEFINE q == rows[v]["corrective"]["queued"]
  <1>1. rows \in [Vehicles -> Row]
    BY DEF TypeOK, RowsTypeOK
  <1>2. "queued" \in ActiveStatus /\ "in_progress" \in ActiveStatus
        /\ "corrective" \in Types /\ "preventive" \in Types
    BY DEF ActiveStatus, Types
  <1>3. /\ q \in 0 .. MaxRows
        /\ rows[v]["corrective"]["in_progress"] \in 0 .. MaxRows
        /\ q + rows[v]["corrective"]["in_progress"] < MaxRows
    BY <1>1, <1>2, CountsAreNumbers DEF InsertRow, Active
  <1>4. q + 1 \in 0 .. MaxRows
    BY <1>3, SchedulerBounds
  <1>5. rows' = WithCount(v, "corrective", "queued", q + 1)
    BY DEF InsertRow, WithCount
  <1>6. /\ rows' \in [Vehicles -> Row]
        /\ \A w \in Vehicles, x \in ActiveStatus :
              rows'[w]["preventive"][x] = rows[w]["preventive"][x]
    BY <1>1, <1>2, <1>4, <1>5, SetCount
  <1>7. \A w \in Vehicles, x \in ActiveStatus : rows[w]["preventive"][x] \in Int
    BY <1>1, <1>2, CountsAreNumbers
  <1> QED
    BY <1>2, <1>6, <1>7 DEF NothingBooked, Active

\* An INSERT adds at most one queued row, to one vehicle.
LEMMA InsertEffect ==
  ASSUME TypeOK, NEW v \in Vehicles, NEW res, Insert(v, res)
  PROVE  /\ rows' \in [Vehicles -> Row]
         /\ booked' \subseteq Vehicles
         /\ \A w \in Vehicles : w # v => rows'[w] = rows[w]
         /\ Active(v, "preventive")' \in 0 .. Active(v, "preventive") + 1
         /\ rows'[v]["preventive"]["queued"] <= rows[v]["preventive"]["queued"] + 1
  <1> DEFINE q == rows[v]["preventive"]["queued"]
  <1>1. rows \in [Vehicles -> Row] /\ booked \subseteq Vehicles
    BY DEF TypeOK, RowsTypeOK
  <1>2. "queued" \in ActiveStatus /\ "in_progress" \in ActiveStatus /\ "preventive" \in Types
    BY DEF ActiveStatus, Types
  <1>3. q \in 0 .. MaxRows /\ rows[v]["preventive"]["in_progress"] \in 0 .. MaxRows
    BY <1>1, <1>2, CountsAreNumbers
  <1>4. CASE UNCHANGED rows
    BY <1>1, <1>3, <1>4 DEF Insert, Active
  <1>5. CASE rows' # rows
    <2>1. q # MaxRows /\ rows' = WithCount(v, "preventive", "queued", q + 1)
      BY <1>5 DEF Insert, WithCount
    <2>2. q + 1 \in 0 .. MaxRows
      BY <1>3, <2>1, SchedulerBounds
    <2>3. /\ rows' \in [Vehicles -> Row]
          /\ rows'[v]["preventive"]["queued"] = q + 1
          /\ rows'[v]["preventive"]["in_progress"] = rows[v]["preventive"]["in_progress"]
      BY <1>1, <1>2, <2>1, <2>2, SetCount
    <2>4. \A w \in Vehicles : w # v => rows'[w] = rows[w]
      BY <1>1, <2>1 DEF WithCount
    <2> QED
      BY <1>1, <1>3, <1>5, <2>3, <2>4 DEF Insert, Active
  <1> QED
    BY <1>4, <1>5

--------------------------------------------------------------------------------
(* Types. *)

\* Troubles are counted up to their bound.
LEMMA TroublesAreCounted ==
  ASSUME TypeOK, NEW V, TroubleWith(V)
  PROVE  /\ troubles' \in [Vehicles -> 0 .. MaxTroubles]
         /\ \A v \in Vehicles :
               /\ troubles'[v] >= troubles[v]
               /\ v \notin V => troubles'[v] = troubles[v]
               /\ v \in V /\ troubles'[v] < MaxTroubles => troubles'[v] = troubles[v] + 1
  <1>1. \A v \in Vehicles :
           /\ troubles[v] \in 0 .. MaxTroubles
           /\ troubles'[v] = IF v \in V /\ troubles[v] < MaxTroubles
                             THEN troubles[v] + 1 ELSE troubles[v]
    BY DEF TypeOK, TroubleWith
  <1>2. troubles' = [v \in Vehicles |-> troubles'[v]]
    BY DEF TroubleWith
  <1>3. \A v \in Vehicles : troubles'[v] \in 0 .. MaxTroubles
    BY <1>1, SchedulerBounds
  <1> QED
    BY <1>1, <1>2, <1>3, SchedulerBounds

LEMMA InitIsTyped == Init => TypeOK
  <1> SUFFICES ASSUME Init PROVE TypeOK
    OBVIOUS
  <1>1. RowsTypeOK
    BY SchedulerBounds DEF Init, RowsInit, RowsTypeOK, Row
  <1>2. crashes \in 0 .. MaxCrashes /\ troubles \in [Vehicles -> 0 .. MaxTroubles]
    BY SchedulerBounds DEF Init
  <1> QED
    BY <1>1, <1>2 DEF Init, TypeOK, At, Steps

LEMMA RunKeepsTypes ==
  ASSUME TypeOK, NEW s \in Schedulers, SchedulerStep(s)
  PROVE  TypeOK'
  <1> USE DEF TypeOK, RowsTypeOK, envVars
  <1>1. \A step \in Steps : At(step) \in [step : Steps, of : Vehicles \cup {NoVehicle}]
    BY DEF At
  <1>2. CASE FetchVehicles(s)
    <2>1. {v \in GetAllVehicles : IsTakenUp(v)} \subseteq Vehicles
      BY DEF GetAllVehicles
    <2> QED
      BY <1>1, <1>2, <2>1 DEF FetchVehicles, Steps
  <1>3. ASSUME NEW ok \in BOOLEAN, ReadQueued(s, ok) \/ ReadInProgress(s, ok)
        PROVE  TypeOK'
    <2>1. PICK st \in ActiveStatus, next \in Steps : ReadActive(s, st, next, ok)
      <3>1. CASE ReadQueued(s, ok)
        BY <3>1 DEF ReadQueued, ActiveStatus, Steps
      <3>2. CASE ReadInProgress(s, ok)
        BY <3>2 DEF ReadInProgress, ActiveStatus, Steps
      <3> QED
        BY <1>3, <3>1, <3>2
    <2>2. (IF ok THEN WithRow(st) ELSE {}) \subseteq Vehicles
      BY DEF WithRow
    <2>3. active' \in [Schedulers -> SUBSET Vehicles]
      BY <2>1, <2>2 DEF ReadActive
    <2>4. run' \in [Schedulers -> [step : Steps, of : Vehicles \cup {NoVehicle}]]
      BY <1>1, <2>1 DEF ReadActive
    <2>5. UNCHANGED <<envVars, rows, booked, created, todo>>
      BY <2>1 DEF ReadActive
    <2>6. troubles' \in [Vehicles -> 0 .. MaxTroubles]
      BY <2>1, TroublesAreCounted DEF ReadActive
    <2> QED
      BY <2>3, <2>4, <2>5, <2>6
  <1>4. ASSUME NEW v \in Vehicles, SkipActive(s, v)
        PROVE  TypeOK'
    BY <1>4 DEF SkipActive
  <1>5. ASSUME NEW v \in Vehicles, NEW res, NEW again, Create(s, v, res, again)
        PROVE  TypeOK'
    <2>1. rows' \in [Vehicles -> Row] /\ booked' \subseteq Vehicles
      BY <1>5, InsertEffect DEF Create
    <2>2. troubles' \in [Vehicles -> 0 .. MaxTroubles]
      BY <1>5, TroublesAreCounted DEF Create, Handled
    <2>3. todo' \in [Schedulers -> SUBSET Vehicles]
      BY <1>5 DEF Create, Handled
    <2>4. run' \in [Schedulers -> [step : Steps, of : Vehicles \cup {NoVehicle}]]
      BY <1>5 DEF Create, Steps
    <2> QED
      BY <1>5, <2>1, <2>2, <2>3, <2>4 DEF Create
  <1>6. ASSUME NEW v \in Vehicles, NEW res, PublishCreated(s, v, res)
        PROVE  TypeOK'
    BY <1>1, <1>6 DEF PublishCreated, Steps
  <1>7. CASE RunEnds(s)
    BY <1>1, <1>7 DEF RunEnds, Steps
  <1> QED
    BY <1>2, <1>3, <1>4, <1>5, <1>6, <1>7 DEF SchedulerStep

\* What workers, clients, the release cycle and the consumer do, seen from a run:
\* nothing is booked behind its back.
LEMMA EnvironmentEffect ==
  ASSUME TypeOK, CorrectiveIsInserted \/ RowsMove
  PROVE  NothingBooked /\ stale' \subseteq Vehicles \X Types
  <1>1. ASSUME NEW v \in Vehicles, InsertRow(v, "corrective")
        PROVE  NothingBooked /\ UNCHANGED stale
    BY <1>1, CorrectiveEffect DEF InsertRow
  <1>2. ASSUME NEW v \in Vehicles, NEW t \in Types, StartRow(v, t)
        PROVE  NothingBooked /\ UNCHANGED stale
    BY <1>2, StartEffect DEF StartRow
  <1>3. ASSUME NEW v \in Vehicles, NEW t \in Types, NEW st \in ActiveStatus,
               CompleteRow(v, t, st)
        PROVE  NothingBooked /\ (stale' = stale \/ stale' = stale \cup {<<v, t>>})
    BY <1>3, CompleteEffect DEF CompleteRow
  <1>4. ASSUME NEW v \in Vehicles, NEW t \in Types, GiveUpCopy(v, t)
        PROVE  NothingBooked /\ stale' \subseteq stale
    <2>1. UNCHANGED rows /\ rows \in [Vehicles -> Row]
      BY <1>4 DEF GiveUpCopy, TypeOK, RowsTypeOK
    <2>2. \A w \in Vehicles, x \in ActiveStatus : rows[w]["preventive"][x] \in Int
      BY <2>1, CountsAreNumbers DEF Types
    <2> QED
      BY <1>4, <2>1, <2>2 DEF GiveUpCopy, NothingBooked, Active, ActiveStatus
  <1>5. stale \subseteq Vehicles \X Types
    BY DEF TypeOK, RowsTypeOK
  <1> QED
    BY <1>1, <1>2, <1>3, <1>4, <1>5 DEF CorrectiveIsInserted, RowsMove

\* A completed row that is put in progress again is one row more in progress.
LEMMA ReopenEffect ==
  ASSUME TypeOK, NEW v \in Vehicles, NEW t \in Types, ReopenRow(v, t)
  PROVE  /\ rows' \in [Vehicles -> Row] /\ stale' \subseteq Vehicles \X Types
         /\ \A w \in Vehicles, u \in Types, x \in ActiveStatus :
               rows'[w][u][x] = IF w = v /\ u = t /\ x = "in_progress"
                                THEN rows[w][u][x] + 1 ELSE rows[w][u][x]
  <1> DEFINE p == rows[v][t]["in_progress"]
  <1>1. rows \in [Vehicles -> Row] /\ stale \subseteq Vehicles \X Types
    BY DEF TypeOK, RowsTypeOK
  <1>2. "in_progress" \in ActiveStatus
    BY DEF ActiveStatus
  <1>3. p \in 0 .. MaxRows /\ p < MaxRows
    BY <1>1, <1>2, CountsAreNumbers DEF ReopenRow
  <1>4. p + 1 \in 0 .. MaxRows
    BY <1>3, SchedulerBounds
  <1>5. rows' = WithCount(v, t, "in_progress", p + 1)
    BY DEF ReopenRow, WithCount
  <1>6. /\ rows' \in [Vehicles -> Row]
        /\ \A w \in Vehicles, u \in Types, x \in ActiveStatus :
              rows'[w][u][x] = IF w = v /\ u = t /\ x = "in_progress"
                               THEN rows[w][u][x] + 1 ELSE rows[w][u][x]
    BY <1>1, <1>2, <1>4, <1>5, SetCount
  <1>7. stale' \subseteq Vehicles \X Types
    BY <1>1 DEF ReopenRow
  <1> QED
    BY <1>6, <1>7

LEMMA TypesAreKept == TypeOK /\ [Next]_vars => TypeOK'
  <1> SUFFICES ASSUME TypeOK, [Next]_vars PROVE TypeOK'
    OBVIOUS
  <1>1. ASSUME NEW s \in Schedulers, SchedulerStep(s) PROVE TypeOK'
    BY <1>1, RunKeepsTypes
  <1>2. CASE CorrectiveIsInserted \/ RowsMove
    <2>1. rows' \in [Vehicles -> Row] /\ stale' \subseteq Vehicles \X Types
      BY <1>2, EnvironmentEffect DEF NothingBooked
    <2>2. UNCHANGED <<fleet, crashes, troubles, runVars>>
      BY <1>2 DEF CorrectiveIsInserted, RowsMove
    <2> QED
      BY <2>1, <2>2 DEF TypeOK, RowsTypeOK, runVars
  <1>6. ASSUME NEW v \in Vehicles, NEW t \in Types, RowReopens(v, t) PROVE TypeOK'
    <2>1. rows' \in [Vehicles -> Row] /\ stale' \subseteq Vehicles \X Types
      BY <1>6, ReopenEffect DEF RowReopens
    <2>2. troubles' \in [Vehicles -> 0 .. MaxTroubles]
      BY <1>6, TroublesAreCounted DEF RowReopens
    <2> QED
      BY <1>6, <2>1, <2>2 DEF RowReopens, TypeOK, RowsTypeOK, runVars
  <1>3. ASSUME NEW v \in Vehicles, NEW ev \in Fleet, VehicleChanges(v, ev) PROVE TypeOK'
    BY <1>3 DEF VehicleChanges, TypeOK, RowsTypeOK, rowsVars, runVars
  <1>4. CASE Crash
    BY <1>4, SchedulerBounds DEF Crash, CopiesAreLost, TypeOK, RowsTypeOK, At, Steps
  <1>5. CASE UNCHANGED vars
    BY <1>5 DEF vars, TypeOK, RowsTypeOK
  <1> QED
    BY <1>1, <1>2, <1>3, <1>4, <1>5, <1>6 DEF Next

\* A run of the scheduler, its environment and a crash keep every variable in its type.
THEOREM SchedulerTypesAreCorrect == Spec => []TypeOK
  BY InitIsTyped, TypesAreKept, PTL DEF Spec

--------------------------------------------------------------------------------
(* Every active row of a vehicle has a run or a trouble of its own. *)

\* The runs that may still insert a row for v on what they have read.
MayBook(v) ==
    {s \in Schedulers : /\ v \in todo[s] \ active[s]
                        /\ run[s].step \in {"evaluate", "publish"}}

\* The runs that found no queued row of v and have yet to read those in progress.
SawNoneQueued(v) ==
    {s \in Schedulers : /\ v \in todo[s] \ active[s]
                        /\ run[s].step = "readInProgress"}

Queued(v) == rows[v]["preventive"]["queued"]

\* Room for every row that may still be inserted, beside the ones that troubles account
\* for.  A run whose reads succeed comes to SawNoneQueued(v) when no row of v is queued,
\* so that the second count starts from 0; it moves on to MayBook(v) when none is in
\* progress, so that the queued rows are all the active ones.  This is where the order
\* of the two reads matters: a row that starts leaves the queued rows and never comes
\* back to them.  A run whose read fails, the next copy of a plate and a reopened row
\* each bring the trouble that pays for them.
RoomForBookings(v) ==
    troubles[v] < MaxTroubles =>
       /\ Active(v, "preventive") + Cardinality(MayBook(v))
             <= Cardinality(Schedulers) + troubles[v]
       /\ Queued(v) + Cardinality(MayBook(v) \cup SawNoneQueued(v))
             <= Cardinality(Schedulers) + troubles[v]

BInv == TypeOK /\ \A v \in Vehicles : RoomForBookings(v)

\* Fewer runs than before make a smaller or equal number.
LEMMA FewerRuns ==
  ASSUME NEW R \in SUBSET Schedulers, NEW Q \in SUBSET R
  PROVE  /\ Cardinality(R) \in Nat /\ Cardinality(Q) \in Nat
         /\ Cardinality(Q) <= Cardinality(R)
         /\ Cardinality(R) <= Cardinality(Schedulers)
         /\ Cardinality(Schedulers) \in Nat
  <1>1. IsFiniteSet(R) /\ IsFiniteSet(Q)
    BY SchedulersAreFinite, FS_Subset
  <1> QED
    BY <1>1, SchedulersAreFinite, FS_Subset, FS_CardinalityType

LEMMA ActiveIsNumber ==
  ASSUME rows \in [Vehicles -> Row], NEW v \in Vehicles
  PROVE  /\ Active(v, "preventive") \in Nat /\ Queued(v) \in Nat
         /\ Queued(v) <= Active(v, "preventive")
         /\ rows[v]["preventive"]["in_progress"] = 0 => Active(v, "preventive") = Queued(v)
  BY CountsAreNumbers DEF Active, Queued, Types, ActiveStatus

\* The counts of a vehicle before and after a step.
LEMMA CountsAreTyped ==
  ASSUME TypeOK, TypeOK', NEW v \in Vehicles
  PROVE  /\ Active(v, "preventive") \in Nat /\ Queued(v) \in Nat
         /\ Active(v, "preventive")' \in Nat /\ Queued(v)' \in Nat
  <1>1. rows \in [Vehicles -> Row] /\ rows' \in [Vehicles -> Row]
    BY DEF TypeOK, RowsTypeOK, Row
  <1> QED
    BY <1>1 DEF Active, Queued, Types, ActiveStatus, Row

\* Room is kept when there are no more rows than before and no more runs that may
\* insert one.
LEMMA RoomIsKept ==
  ASSUME TypeOK, TypeOK', NEW v \in Vehicles, RoomForBookings(v),
         troubles'[v] >= troubles[v],
         Active(v, "preventive")' <= Active(v, "preventive"),
         Queued(v)' <= Queued(v),
         MayBook(v)' \subseteq MayBook(v),
         SawNoneQueued(v)' \subseteq SawNoneQueued(v)
  PROVE  RoomForBookings(v)'
  <1>1. /\ MayBook(v) \subseteq Schedulers
        /\ MayBook(v) \cup SawNoneQueued(v) \subseteq Schedulers
        /\ (MayBook(v) \cup SawNoneQueued(v))' \subseteq MayBook(v) \cup SawNoneQueued(v)
    BY DEF MayBook, SawNoneQueued
  <1>2. /\ Cardinality(MayBook(v)) \in Nat /\ Cardinality(MayBook(v)') \in Nat
        /\ Cardinality(MayBook(v)') <= Cardinality(MayBook(v))
        /\ Cardinality(Schedulers) \in Nat
    BY <1>1, FewerRuns
  <1>3. /\ Cardinality(MayBook(v) \cup SawNoneQueued(v)) \in Nat
        /\ Cardinality((MayBook(v) \cup SawNoneQueued(v))') \in Nat
        /\ Cardinality((MayBook(v) \cup SawNoneQueued(v))')
              <= Cardinality(MayBook(v) \cup SawNoneQueued(v))
    BY <1>1, FewerRuns
  <1>4. /\ Active(v, "preventive") \in Nat /\ Queued(v) \in Nat
        /\ Active(v, "preventive")' \in Nat /\ Queued(v)' \in Nat
    BY CountsAreTyped
  <1>5. troubles[v] \in Nat /\ troubles'[v] \in Nat
    BY SchedulerBounds DEF TypeOK
  <1> QED
    BY <1>2, <1>3, <1>4, <1>5, SchedulerBounds DEF RoomForBookings

\* Room is kept as well when one row has come with a trouble of its own ...
LEMMA TroublePaysForRow ==
  ASSUME TypeOK, TypeOK', NEW v \in Vehicles, RoomForBookings(v),
         troubles'[v] < MaxTroubles => troubles'[v] = troubles[v] + 1,
         troubles'[v] >= troubles[v],
         Active(v, "preventive")' <= Active(v, "preventive") + 1,
         Queued(v)' <= Queued(v) + 1,
         MayBook(v)' = MayBook(v),
         SawNoneQueued(v)' = SawNoneQueued(v)
  PROVE  RoomForBookings(v)'
  <1> DEFINE both == MayBook(v) \cup SawNoneQueued(v)
  <1>1. MayBook(v) \subseteq Schedulers /\ both \subseteq Schedulers /\ both' = both
    BY DEF MayBook, SawNoneQueued
  <1>2. /\ Cardinality(MayBook(v)) \in Nat /\ Cardinality(both) \in Nat
        /\ Cardinality(Schedulers) \in Nat
    BY <1>1, FewerRuns
  <1>3. /\ Active(v, "preventive") \in Nat /\ Queued(v) \in Nat
        /\ Active(v, "preventive")' \in Nat /\ Queued(v)' \in Nat
    BY CountsAreTyped
  <1>4. troubles[v] \in Nat /\ troubles'[v] \in Nat
    BY SchedulerBounds DEF TypeOK
  <1> QED
    BY <1>1, <1>2, <1>3, <1>4, SchedulerBounds DEF RoomForBookings

\* ... or one run that may insert a row has.
LEMMA TroublePaysForRun ==
  ASSUME TypeOK, TypeOK', NEW v \in Vehicles, RoomForBookings(v),
         troubles'[v] < MaxTroubles => troubles'[v] = troubles[v] + 1,
         troubles'[v] >= troubles[v],
         NEW s \in Schedulers,
         Active(v, "preventive")' <= Active(v, "preventive"),
         Queued(v)' <= Queued(v),
         MayBook(v)' \subseteq MayBook(v) \cup {s},
         SawNoneQueued(v)' \subseteq SawNoneQueued(v) \cup {s}
  PROVE  RoomForBookings(v)'
  <1> DEFINE both == MayBook(v) \cup SawNoneQueued(v)
  <1>1. /\ MayBook(v) \subseteq Schedulers /\ both \subseteq Schedulers
        /\ MayBook(v) \cup {s} \subseteq Schedulers /\ both \cup {s} \subseteq Schedulers
        /\ MayBook(v)' \subseteq MayBook(v) \cup {s} /\ both' \subseteq both \cup {s}
    BY DEF MayBook, SawNoneQueued
  <1>2. /\ Cardinality(MayBook(v) \cup {s}) <= Cardinality(MayBook(v)) + 1
        /\ Cardinality(both \cup {s}) <= Cardinality(both) + 1
    <2>1. ASSUME NEW R, IsFiniteSet(R)
          PROVE  Cardinality(R \cup {s}) <= Cardinality(R) + 1
      <3>1. Cardinality(R \cup {s}) = IF s \in R THEN Cardinality(R) ELSE Cardinality(R) + 1
        BY <2>1, FS_AddElement
      <3>2. Cardinality(R) \in Nat
        BY <2>1, FS_CardinalityType
      <3> QED
        BY <3>1, <3>2
    <2>2. IsFiniteSet(MayBook(v)) /\ IsFiniteSet(both)
      BY <1>1, SchedulersAreFinite, FS_Subset
    <2> QED
      BY <2>1, <2>2
  <1>3. /\ Cardinality(MayBook(v)) \in Nat /\ Cardinality(MayBook(v)') \in Nat
        /\ Cardinality(both) \in Nat /\ Cardinality(both') \in Nat
        /\ Cardinality(Schedulers) \in Nat
        /\ Cardinality(MayBook(v)') <= Cardinality(MayBook(v)) + 1
        /\ Cardinality(both') <= Cardinality(both) + 1
    <2>1. /\ Cardinality(MayBook(v)') <= Cardinality(MayBook(v) \cup {s})
          /\ Cardinality(both') <= Cardinality(both \cup {s})
          /\ Cardinality(MayBook(v)') \in Nat /\ Cardinality(both') \in Nat
          /\ Cardinality(MayBook(v) \cup {s}) \in Nat /\ Cardinality(both \cup {s}) \in Nat
          /\ Cardinality(Schedulers) \in Nat
      BY <1>1, FewerRuns
    <2>2. Cardinality(MayBook(v)) \in Nat /\ Cardinality(both) \in Nat
      BY <1>1, FewerRuns
    <2> HIDE DEF both
    <2> QED
      BY <1>2, <2>1, <2>2
  <1>4. /\ Active(v, "preventive") \in Nat /\ Queued(v) \in Nat
        /\ Active(v, "preventive")' \in Nat /\ Queued(v)' \in Nat
    BY CountsAreTyped
  <1>5. troubles[v] \in Nat /\ troubles'[v] \in Nat
    BY SchedulerBounds DEF TypeOK
  <1> QED
    BY <1>3, <1>4, <1>5, SchedulerBounds DEF RoomForBookings

\* The first read: the runs that come to SawNoneQueued(v) do so when no row of v is
\* queued, or when the read has failed.
LEMMA FirstReadKeepsRoom ==
  ASSUME BInv, TypeOK', NEW s \in Schedulers, NEW ok \in BOOLEAN, ReadQueued(s, ok),
         NEW v \in Vehicles
  PROVE  RoomForBookings(v)'
  <1>1. TypeOK /\ rows \in [Vehicles -> Row] /\ RoomForBookings(v)
    BY DEF BInv, TypeOK, RowsTypeOK
  <1>2. /\ UNCHANGED <<rows, todo>>
        /\ run[s].step = "readQueued"
        /\ run' = [run EXCEPT ![s] = At("readInProgress")]
        /\ active' = [active EXCEPT ![s] = @ \cup (IF ok THEN WithRow("queued") ELSE {})]
        /\ TroubleWith(IF ok THEN {} ELSE todo[s])
    BY DEF ReadQueued, ReadActive, At
  <1>3. /\ \A r \in Schedulers : r # s => run'[r] = run[r] /\ active'[r] = active[r]
        /\ run'[s].step = "readInProgress"
        /\ ok => WithRow("queued") \subseteq active'[s]
    BY <1>1, <1>2 DEF TypeOK, At
  <1>4. /\ MayBook(v)' \subseteq MayBook(v)
        /\ SawNoneQueued(v)' \subseteq SawNoneQueued(v) \cup {s}
        /\ v \notin todo[s] => SawNoneQueued(v)' \subseteq SawNoneQueued(v)
    BY <1>2, <1>3 DEF MayBook, SawNoneQueued
  <1>5. Active(v, "preventive")' = Active(v, "preventive") /\ Queued(v)' = Queued(v)
    BY <1>2 DEF Active, Queued
  <1>6. Active(v, "preventive") \in Nat /\ Queued(v) \in Nat /\ troubles[v] \in Nat
    BY <1>1, ActiveIsNumber, SchedulerBounds DEF TypeOK
  <1>7. /\ troubles'[v] >= troubles[v]
        /\ ok => troubles'[v] = troubles[v]
        /\ ~ ok /\ v \in todo[s] /\ troubles'[v] < MaxTroubles
              => troubles'[v] = troubles[v] + 1
    BY <1>1, <1>2, TroublesAreCounted
  <1>8. CASE v \notin todo[s] \/ (ok /\ Queued(v) > 0)
    <2>1. v \notin todo[s] \/ v \in active'[s]
      BY <1>3, <1>8 DEF WithRow, Queued, Types
    <2>2. SawNoneQueued(v)' \subseteq SawNoneQueued(v)
      BY <1>2, <1>3, <2>1 DEF SawNoneQueued
    <2> QED
      BY <1>1, <1>4, <1>5, <1>6, <1>7, <2>2, RoomIsKept
  <1>9. CASE ~ ok /\ v \in todo[s]
    BY <1>1, <1>4, <1>5, <1>6, <1>7, <1>9, TroublePaysForRun
  <1>10. CASE ok /\ Queued(v) = 0
    <2>1. /\ MayBook(v) \subseteq Schedulers
          /\ (MayBook(v) \cup SawNoneQueued(v))' \subseteq Schedulers
      BY DEF MayBook, SawNoneQueued
    <2>2. /\ Cardinality(MayBook(v)') <= Cardinality(MayBook(v))
          /\ Cardinality(MayBook(v)') \in Nat /\ Cardinality(MayBook(v)) \in Nat
          /\ Cardinality(Schedulers) \in Nat
      BY <1>1, <1>4, <2>1, FewerRuns
    <2>3. /\ Cardinality((MayBook(v) \cup SawNoneQueued(v))') \in Nat
          /\ Cardinality((MayBook(v) \cup SawNoneQueued(v))') <= Cardinality(Schedulers)
      BY <1>1, <2>1, FewerRuns
    <2> QED
      BY <1>1, <1>5, <1>6, <1>7, <1>10, <2>2, <2>3 DEF RoomForBookings
  <1> QED
    BY <1>6, <1>8, <1>9, <1>10

\* The second read: the runs that come to MayBook(v) come from SawNoneQueued(v), and do
\* so when no row of v is in progress, or when the read has failed.
LEMMA SecondReadKeepsRoom ==
  ASSUME BInv, TypeOK', NEW s \in Schedulers, NEW ok \in BOOLEAN, ReadInProgress(s, ok),
         NEW v \in Vehicles
  PROVE  RoomForBookings(v)'
  <1>1. TypeOK /\ rows \in [Vehicles -> Row] /\ RoomForBookings(v)
    BY DEF BInv, TypeOK, RowsTypeOK
  <1>2. /\ UNCHANGED <<rows, todo>>
        /\ run[s].step = "readInProgress"
        /\ run' = [run EXCEPT ![s] = At("evaluate")]
        /\ active' = [active EXCEPT ![s] = @ \cup (IF ok THEN WithRow("in_progress") ELSE {})]
        /\ TroubleWith(IF ok THEN {} ELSE todo[s])
    BY DEF ReadInProgress, ReadActive, At
  <1>3. /\ \A r \in Schedulers : r # s => run'[r] = run[r] /\ active'[r] = active[r]
        /\ run'[s].step = "evaluate"
        /\ active'[s] = active[s] \cup (IF ok THEN WithRow("in_progress") ELSE {})
    BY <1>1, <1>2 DEF TypeOK, At
  <1>4. /\ SawNoneQueued(v)' \subseteq SawNoneQueued(v)
        /\ MayBook(v)' \subseteq MayBook(v) \cup {s}
        /\ (MayBook(v) \cup SawNoneQueued(v))' \subseteq MayBook(v) \cup SawNoneQueued(v)
    BY <1>2, <1>3 DEF MayBook, SawNoneQueued
  <1>5. Active(v, "preventive")' = Active(v, "preventive") /\ Queued(v)' = Queued(v)
    BY <1>2 DEF Active, Queued
  <1>6. Active(v, "preventive") \in Nat /\ Queued(v) \in Nat /\ troubles[v] \in Nat
    BY <1>1, ActiveIsNumber, SchedulerBounds DEF TypeOK
  <1>7. /\ troubles'[v] >= troubles[v]
        /\ ok => troubles'[v] = troubles[v]
        /\ ~ ok /\ v \in todo[s] /\ troubles'[v] < MaxTroubles
              => troubles'[v] = troubles[v] + 1
    BY <1>1, <1>2, TroublesAreCounted
  <1>8. CASE s \notin MayBook(v)'
    <2>1. MayBook(v)' \subseteq MayBook(v)
      BY <1>2, <1>3, <1>8 DEF MayBook
    <2> QED
      BY <1>1, <1>4, <1>5, <1>6, <1>7, <2>1, RoomIsKept
  <1>9. CASE ~ ok /\ s \in MayBook(v)'
    <2>1. v \in todo[s]
      BY <1>2, <1>9 DEF MayBook
    <2> QED
      BY <1>1, <1>4, <1>5, <1>6, <1>7, <1>9, <2>1, TroublePaysForRun
  <1>10. CASE ok /\ s \in MayBook(v)'
    <2>1. v \notin WithRow("in_progress")
      BY <1>3, <1>10 DEF MayBook
    <2>2. rows[v]["preventive"]["in_progress"] = 0
      BY <1>1, <2>1, CountsAreNumbers DEF WithRow, Types, ActiveStatus
    <2>3. Active(v, "preventive") = Queued(v)
      BY <1>1, <2>2, ActiveIsNumber
    <2>4. MayBook(v) \cup SawNoneQueued(v) \subseteq Schedulers
      BY DEF MayBook, SawNoneQueued
    <2>5. /\ Cardinality((MayBook(v) \cup SawNoneQueued(v))') \in Nat
          /\ Cardinality(MayBook(v) \cup SawNoneQueued(v)) \in Nat
          /\ Cardinality((MayBook(v) \cup SawNoneQueued(v))')
                <= Cardinality(MayBook(v) \cup SawNoneQueued(v))
          /\ Cardinality(Schedulers) \in Nat
      BY <1>1, <1>4, <2>4, FewerRuns
    <2>6. /\ Cardinality(MayBook(v)') \in Nat
          /\ Cardinality(MayBook(v)') <= Cardinality(MayBook(v) \cup SawNoneQueued(v))
      BY <1>1, <1>4, <2>4, FewerRuns
    <2> QED
      BY <1>1, <1>5, <1>6, <1>7, <1>10, <2>3, <2>5, <2>6 DEF RoomForBookings
  <1> QED
    BY <1>8, <1>9, <1>10

\* The INSERT: one row more, and one run less that may insert one, or one trouble more
\* because the plate comes again.
LEMMA CreateKeepsRoom ==
  ASSUME BInv, TypeOK', NEW s \in Schedulers, NEW u \in Vehicles, NEW res,
         NEW again \in BOOLEAN, Create(s, u, res, again), NEW v \in Vehicles
  PROVE  RoomForBookings(v)'
  <1>1. TypeOK /\ rows \in [Vehicles -> Row] /\ RoomForBookings(v)
    BY DEF BInv, TypeOK, RowsTypeOK
  <1>2. /\ UNCHANGED active
        /\ run[s].step = "evaluate" /\ run'[s].step \in {"evaluate", "publish"}
        /\ u \in todo[s] \ active[s]
        /\ todo'[s] = IF again THEN todo[s] ELSE todo[s] \ {u}
        /\ \A r \in Schedulers : r # s => run'[r] = run[r] /\ todo'[r] = todo[r]
    BY <1>1 DEF Create, Handled, At, TypeOK
  <1>3. /\ rows' \in [Vehicles -> Row]
        /\ \A w \in Vehicles : w # u => rows'[w] = rows[w]
        /\ Active(u, "preventive")' \in 0 .. Active(u, "preventive") + 1
        /\ Queued(u)' <= Queued(u) + 1
    BY <1>1, InsertEffect DEF Create, Queued
  <1>4. /\ MayBook(v)' = IF v = u /\ ~ again THEN MayBook(v) \ {s} ELSE MayBook(v)
        /\ SawNoneQueued(v)' = SawNoneQueued(v)
    BY <1>2 DEF MayBook, SawNoneQueued
  <1>5. Active(v, "preventive") \in Nat /\ Queued(v) \in Nat /\ troubles[v] \in Nat
    BY <1>1, ActiveIsNumber, SchedulerBounds DEF TypeOK
  <1>6. /\ troubles'[v] >= troubles[v]
        /\ again /\ v = u /\ troubles'[v] < MaxTroubles => troubles'[v] = troubles[v] + 1
        /\ ~ again => troubles'[v] = troubles[v]
    BY <1>1, TroublesAreCounted DEF Create, Handled
  <1>7. CASE v # u
    <2>1. Active(v, "preventive")' = Active(v, "preventive") /\ Queued(v)' = Queued(v)
      BY <1>3, <1>7 DEF Active, Queued
    <2> QED
      BY <1>1, <1>4, <1>5, <1>6, <1>7, <2>1, RoomIsKept
  <1>8. CASE v = u /\ again
    BY <1>1, <1>3, <1>4, <1>5, <1>6, <1>8, TroublePaysForRow
  <1>9. CASE v = u /\ ~ again
    <2> DEFINE both == MayBook(v) \cup SawNoneQueued(v)
    <2>1. s \in MayBook(v) /\ s \notin SawNoneQueued(v)
      BY <1>2, <1>9 DEF MayBook, SawNoneQueued
    <2>2. both' = both \ {s}
      BY <1>4, <1>9, <2>1
    <2>3. MayBook(v) \subseteq Schedulers /\ both \subseteq Schedulers
      BY DEF MayBook, SawNoneQueued
    <2>4. IsFiniteSet(MayBook(v)) /\ IsFiniteSet(both)
      BY <2>3, SchedulersAreFinite, FS_Subset
    <2>5. Cardinality(MayBook(v)') = Cardinality(MayBook(v)) - 1
      BY <1>4, <1>9, <2>1, <2>4, FS_RemoveElement
    <2>6. Cardinality(both') = Cardinality(both) - 1
      BY <2>1, <2>2, <2>4, FS_RemoveElement
    <2>7. /\ Cardinality(MayBook(v)) \in Nat /\ Cardinality(both) \in Nat
          /\ Cardinality(Schedulers) \in Nat
      BY <2>3, FewerRuns
    <2>8. Active(v, "preventive")' \in Nat /\ Queued(v)' \in Nat
      BY <1>1, CountsAreTyped
    <2> QED
      BY <1>1, <1>3, <1>5, <1>6, <1>9, <2>5, <2>6, <2>7, <2>8 DEF RoomForBookings
  <1> QED
    BY <1>7, <1>8, <1>9

\* The other steps of a run insert nothing and bring no run nearer to an INSERT.
LEMMA RunKeepsRoom ==
  ASSUME BInv, TypeOK', NEW s \in Schedulers, SchedulerStep(s), NEW v \in Vehicles
  PROVE  RoomForBookings(v)'
  <1>1. TypeOK /\ rows \in [Vehicles -> Row] /\ RoomForBookings(v)
    BY DEF BInv, TypeOK, RowsTypeOK
  <1>2. ASSUME UNCHANGED <<rows, troubles>>, MayBook(v)' \subseteq MayBook(v),
               SawNoneQueued(v)' \subseteq SawNoneQueued(v)
        PROVE  RoomForBookings(v)'
    <2>1. Active(v, "preventive")' = Active(v, "preventive") /\ Queued(v)' = Queued(v)
      BY <1>2 DEF Active, Queued
    <2>2. Active(v, "preventive") \in Nat /\ Queued(v) \in Nat /\ troubles[v] \in Nat
      BY <1>1, ActiveIsNumber, SchedulerBounds DEF TypeOK
    <2> QED
      BY <1>1, <1>2, <2>1, <2>2, RoomIsKept
  <1>3. CASE FetchVehicles(s)
    <2>1. /\ UNCHANGED <<rows, troubles, active>>
          /\ run'[s].step = "readQueued"
          /\ \A r \in Schedulers : r # s => run'[r] = run[r] /\ todo'[r] = todo[r]
      BY <1>1, <1>3 DEF FetchVehicles, At, TypeOK
    <2> QED
      BY <1>2, <2>1 DEF MayBook, SawNoneQueued
  <1>4. ASSUME NEW u \in Vehicles, SkipActive(s, u)
        PROVE  RoomForBookings(v)'
    <2>1. /\ UNCHANGED <<rows, troubles, run, active>>
          /\ \A r \in Schedulers : todo'[r] \subseteq todo[r]
      BY <1>1, <1>4 DEF SkipActive, TypeOK
    <2> QED
      BY <1>2, <2>1 DEF MayBook, SawNoneQueued
  <1>5. ASSUME NEW u \in Vehicles, NEW res, PublishCreated(s, u, res)
        PROVE  RoomForBookings(v)'
    <2>1. /\ UNCHANGED <<rows, troubles, todo, active>>
          /\ run[s].step = "publish" /\ run'[s].step = "evaluate"
          /\ \A r \in Schedulers : r # s => run'[r] = run[r]
      BY <1>1, <1>5 DEF PublishCreated, At, TypeOK
    <2> QED
      BY <1>2, <2>1 DEF MayBook, SawNoneQueued
  <1>6. CASE RunEnds(s)
    <2>1. /\ UNCHANGED <<rows, troubles, todo>>
          /\ run'[s].step = "waiting"
          /\ \A r \in Schedulers : r # s => run'[r] = run[r] /\ active'[r] = active[r]
      BY <1>1, <1>6 DEF RunEnds, At, TypeOK
    <2> QED
      BY <1>2, <2>1 DEF MayBook, SawNoneQueued
  <1> QED
    BY <1>3, <1>4, <1>5, <1>6, FirstReadKeepsRoom, SecondReadKeepsRoom, CreateKeepsRoom
    DEF SchedulerStep

\* A reopened row is one active row more, and none queued; if it is preventive, it is a
\* trouble more as well.
LEMMA ReopeningKeepsRoom ==
  ASSUME BInv, TypeOK', NEW w \in Vehicles, NEW t \in Types, RowReopens(w, t),
         NEW v \in Vehicles
  PROVE  RoomForBookings(v)'
  <1>1. TypeOK /\ rows \in [Vehicles -> Row] /\ RoomForBookings(v)
    BY DEF BInv, TypeOK, RowsTypeOK
  <1>2. UNCHANGED <<run, todo, active>>
    BY DEF RowReopens, runVars
  <1>3. MayBook(v)' = MayBook(v) /\ SawNoneQueued(v)' = SawNoneQueued(v)
    BY <1>2 DEF MayBook, SawNoneQueued
  <1>4. Active(v, "preventive") \in Nat /\ Queued(v) \in Nat
    BY <1>1, ActiveIsNumber
  <1>5. \A u \in Types, x \in ActiveStatus :
           rows'[v][u][x] = IF v = w /\ u = t /\ x = "in_progress"
                            THEN rows[v][u][x] + 1 ELSE rows[v][u][x]
    BY <1>1, ReopenEffect DEF RowReopens
  <1>6. /\ Queued(v)' = Queued(v)
        /\ Active(v, "preventive")' = IF v = w /\ t = "preventive"
                                      THEN Active(v, "preventive") + 1
                                      ELSE Active(v, "preventive")
    <2>1. /\ "preventive" \in Types /\ "queued" \in ActiveStatus
          /\ "in_progress" \in ActiveStatus
      BY DEF Types, ActiveStatus
    <2>2. /\ rows[v]["preventive"]["queued"] \in Int
          /\ rows[v]["preventive"]["in_progress"] \in Int
      BY <1>1, <2>1, CountsAreNumbers
    <2> QED
      BY <1>5, <2>1, <2>2 DEF Active, Queued
  <1>7. /\ troubles'[v] >= troubles[v]
        /\ v = w /\ t = "preventive" /\ troubles'[v] < MaxTroubles
              => troubles'[v] = troubles[v] + 1
    BY <1>1, TroublesAreCounted DEF RowReopens
  <1>8. CASE v = w /\ t = "preventive"
    BY <1>1, <1>3, <1>4, <1>6, <1>7, <1>8, TroublePaysForRow
  <1>9. CASE ~ (v = w /\ t = "preventive")
    BY <1>1, <1>3, <1>4, <1>6, <1>7, <1>9, RoomIsKept
  <1> QED
    BY <1>8, <1>9

LEMMA BInvIsInductive == BInv /\ [Next]_vars => BInv'
  <1> SUFFICES ASSUME BInv, [Next]_vars, NEW v \in Vehicles PROVE RoomForBookings(v)'
    BY TypesAreKept DEF BInv
  <1>1. TypeOK /\ TypeOK' /\ rows \in [Vehicles -> Row] /\ RoomForBookings(v)
    BY TypesAreKept DEF BInv, TypeOK, RowsTypeOK
  <1>2. /\ Active(v, "preventive") \in Nat /\ Queued(v) \in Nat
        /\ troubles[v] \in Nat
    BY <1>1, ActiveIsNumber, SchedulerBounds DEF TypeOK
  <1>3. CASE \E s \in Schedulers : SchedulerStep(s)
    BY <1>1, <1>3, RunKeepsRoom
  <1>4. CASE CorrectiveIsInserted \/ RowsMove
    <2>1. NothingBooked /\ UNCHANGED <<troubles, run, todo, active>>
      BY <1>1, <1>4, EnvironmentEffect DEF CorrectiveIsInserted, RowsMove, runVars
    <2>2. MayBook(v)' = MayBook(v) /\ SawNoneQueued(v)' = SawNoneQueued(v)
      BY <2>1 DEF MayBook, SawNoneQueued
    <2>3. /\ Active(v, "preventive")' <= Active(v, "preventive")
          /\ Queued(v)' <= Queued(v)
          /\ troubles'[v] >= troubles[v]
      BY <1>2, <2>1 DEF NothingBooked, Queued
    <2> QED
      BY <1>1, <2>2, <2>3, RoomIsKept
  <1>5. CASE /\ UNCHANGED <<rows, troubles>>
             /\ \/ UNCHANGED <<run, todo, active>>
                \/ \A s \in Schedulers : todo'[s] = {}
    <2>1. Active(v, "preventive")' = Active(v, "preventive") /\ Queued(v)' = Queued(v)
      BY <1>5 DEF Active, Queued
    <2>2. MayBook(v)' \subseteq MayBook(v) /\ SawNoneQueued(v)' \subseteq SawNoneQueued(v)
      BY <1>5 DEF MayBook, SawNoneQueued
    <2> QED
      BY <1>1, <1>2, <1>5, <2>1, <2>2, RoomIsKept
  <1>6. CASE \E w \in Vehicles, t \in Types : RowReopens(w, t)
    BY <1>1, <1>6, ReopeningKeepsRoom
  <1>7. CASE \E w \in Vehicles, ev \in Fleet : VehicleChanges(w, ev)
    BY <1>5, <1>7 DEF VehicleChanges, rowsVars, runVars
  <1>8. CASE Crash
    BY <1>5, <1>8 DEF Crash, CopiesAreLost
  <1>9. CASE UNCHANGED vars
    BY <1>5, <1>9 DEF vars
  <1> QED
    BY <1>3, <1>4, <1>6, <1>7, <1>8, <1>9 DEF Next

\* Any finite number of runs that overlap as they please give a vehicle at most one
\* active preventive row each, and every further one has a failed read, a repeated plate
\* or a reopened row behind it, whatever workers, clients, failing INSERTs and crashes do
\* between their reads and their writes, and however often they run (SchedulePreventive
\* reads the queue first).
THEOREM BookingsHaveACause == Spec => []BookingsAreAccountedFor
  <1>1. Init => BInv
    <2> SUFFICES ASSUME Init, NEW v \in Vehicles PROVE RoomForBookings(v)
      BY InitIsTyped DEF BInv
    <2>1. Active(v, "preventive") = 0 /\ Queued(v) = 0 /\ troubles[v] = 0
      BY DEF Init, RowsInit, Active, Queued, Types, ActiveStatus
    <2>2. MayBook(v) = {} /\ SawNoneQueued(v) = {}
      BY DEF Init, MayBook, SawNoneQueued
    <2>3. Cardinality({}) = 0 /\ Cardinality(Schedulers) \in Nat
      BY SchedulersAreFinite, FS_EmptySet, FS_CardinalityType
    <2> QED
      BY <2>1, <2>2, <2>3 DEF RoomForBookings
  <1>2. BInv /\ [Next]_vars => BInv'
    BY BInvIsInductive
  <1>3. BInv => BookingsAreAccountedFor
    <2> SUFFICES ASSUME BInv, NEW v \in Vehicles, troubles[v] < MaxTroubles
                 PROVE  Active(v, "preventive") <= Cardinality(Schedulers) + troubles[v]
      BY DEF BookingsAreAccountedFor
    <2>1. rows \in [Vehicles -> Row] /\ RoomForBookings(v) /\ troubles[v] \in Nat
      BY SchedulerBounds DEF BInv, TypeOK, RowsTypeOK
    <2>2. MayBook(v) \subseteq Schedulers
      BY DEF MayBook
    <2>3. Cardinality(MayBook(v)) \in Nat /\ Cardinality(Schedulers) \in Nat
      BY <2>2, FewerRuns
    <2> QED
      BY <2>1, <2>3, ActiveIsNumber DEF RoomForBookings
  <1> QED
    BY <1>1, <1>2, <1>3, PTL DEF Spec

--------------------------------------------------------------------------------
(* No event without its row. *)

\* A run that is about to publish has inserted the row.
PublishesWhatItBooked ==
    \A s \in Schedulers : run[s].step = "publish" => run[s].of \in booked

EInv == TypeOK /\ EventsAreForBookings /\ PublishesWhatItBooked

\* A run that goes on without coming to a publish.
LEMMA RunPublishesNothing ==
  ASSUME EInv, NEW s \in Schedulers, NEW step, step # "publish",
         run' = [run EXCEPT ![s] = At(step)], UNCHANGED booked, created' \subseteq booked
  PROVE  EventsAreForBookings' /\ PublishesWhatItBooked'
  <1>1. run \in [Schedulers -> [step : Steps, of : Vehicles \cup {NoVehicle}]]
    BY DEF EInv, TypeOK
  <1>2. \A r \in Schedulers : run'[r] = run[r] \/ run'[r].step = step
    BY <1>1 DEF At
  <1>3. PublishesWhatItBooked'
    BY <1>2 DEF EInv, PublishesWhatItBooked
  <1> QED
    BY <1>3 DEF EventsAreForBookings

LEMMA EInvIsInductive == EInv /\ [Next]_vars => EInv'
  <1> SUFFICES ASSUME EInv, [Next]_vars
               PROVE  EventsAreForBookings' /\ PublishesWhatItBooked'
    BY TypesAreKept DEF EInv
  <1> USE DEF EInv, EventsAreForBookings, PublishesWhatItBooked
  <1>1. ASSUME NEW s \in Schedulers, SchedulerStep(s)
        PROVE  EventsAreForBookings' /\ PublishesWhatItBooked'
    <2>1. CASE FetchVehicles(s)
      BY <2>1, RunPublishesNothing DEF FetchVehicles
    <2>2. ASSUME NEW ok \in BOOLEAN, ReadQueued(s, ok) \/ ReadInProgress(s, ok)
          PROVE  EventsAreForBookings' /\ PublishesWhatItBooked'
      <3>1. CASE ReadQueued(s, ok)
        BY <3>1, RunPublishesNothing DEF ReadQueued, ReadActive
      <3>2. CASE ReadInProgress(s, ok)
        BY <3>2, RunPublishesNothing DEF ReadInProgress, ReadActive
      <3> QED
        BY <2>2, <3>1, <3>2
    <2>3. ASSUME NEW v \in Vehicles, SkipActive(s, v)
          PROVE  EventsAreForBookings' /\ PublishesWhatItBooked'
      BY <2>3 DEF SkipActive
    <2>4. ASSUME NEW v \in Vehicles, NEW res, NEW again, Create(s, v, res, again)
          PROVE  EventsAreForBookings' /\ PublishesWhatItBooked'
      <3>1. UNCHANGED created /\ booked \subseteq booked'
        BY <2>4 DEF Create, Insert
      <3>2. /\ res = "ok" => v \in booked'
            /\ run' = IF res = "ok" THEN [run EXCEPT ![s] = [step |-> "publish", of |-> v]]
                      ELSE run
        BY <2>4 DEF Create, Insert
      <3> QED
        BY <3>1, <3>2 DEF TypeOK
    <2>5. ASSUME NEW v \in Vehicles, NEW res, PublishCreated(s, v, res)
          PROVE  EventsAreForBookings' /\ PublishesWhatItBooked'
      <3>1. v \in booked
        BY <2>5 DEF PublishCreated
      <3>2. created' \subseteq booked
        BY <2>5, <3>1 DEF PublishCreated
      <3> QED
        BY <2>5, <3>2, RunPublishesNothing DEF PublishCreated
    <2>6. CASE RunEnds(s)
      BY <2>6, RunPublishesNothing DEF RunEnds
    <2> QED
      BY <1>1, <2>1, <2>2, <2>3, <2>4, <2>5, <2>6 DEF SchedulerStep
  <1>2. CASE \/ CorrectiveIsInserted \/ RowsMove
             \/ \E v \in Vehicles, t \in Types : RowReopens(v, t)
    BY <1>2 DEF CorrectiveIsInserted, RowsMove, RowReopens, runVars
  <1>3. ASSUME NEW v \in Vehicles, NEW ev \in Fleet, VehicleChanges(v, ev)
        PROVE  EventsAreForBookings' /\ PublishesWhatItBooked'
    BY <1>3 DEF VehicleChanges, runVars
  <1>4. CASE Crash
    BY <1>4 DEF Crash, At
  <1>5. CASE UNCHANGED vars
    BY <1>5 DEF vars
  <1> QED
    BY <1>1, <1>2, <1>3, <1>4, <1>5 DEF Next

\* The vehicles service never hears of a maintenance that has no row, whoever runs
\* the scheduler and whichever calls fail (SchedulePreventive skips the event after
\* a failed INSERT).
THEOREM NoEventWithoutRow == Spec => []EventsAreForBookings
  <1>1. Init => EInv
    BY InitIsTyped DEF Init, EInv, EventsAreForBookings, PublishesWhatItBooked, At
  <1>2. EInv => EventsAreForBookings
    BY DEF EInv
  <1> QED
    BY <1>1, <1>2, EInvIsInductive, PTL DEF Spec

--------------------------------------------------------------------------------
(* Due vehicles are recognized. *)

\* Truncating to whole days, towards zero, and comparing with the threshold is
\* comparing hours.
LEMMA WholeDaysReachThreshold ==
  ASSUME NEW h \in Int
  PROVE  WholeDays(h) >= DaysThreshold <=> LongAgo(h)
  <1>1. CASE h >= 0
    BY <1>1, DaysThresholdIsInt DEF WholeDays, LongAgo
  <1>2. CASE h < 0
    BY <1>2, DaysThresholdIsInt DEF WholeDays, LongAgo
  <1> QED
    BY <1>1, <1>2

\* The translated number of days reaches the threshold exactly when the last service
\* (or the creation, or now) is that many days back.
LEMMA DaysAreRight ==
  ASSUME NEW ev, ev.fechaUltimoMant \in Date, ev.creadoEn \in Date
  PROVE  DaysSinceLastMaintenance(ev) >= DaysThreshold <=> LongAgo(LastService(ev).hours)
  <1> DEFINE date == LastService(ev)
             days == IF date.form = "valid" THEN WholeDays(date.hours) ELSE 0
  <1>1. DaysSinceLastMaintenance(ev) = days
    BY DEF DaysSinceLastMaintenance, LastService
  <1>2. date \in Date
    BY DEF LastService
  <1> HIDE DEF date
  <1>3. date.hours \in Int /\ (date.form # "valid" => date.hours = 0)
    BY <1>2 DEF Date, Absent, Invalid
  <1>4. days = WholeDays(date.hours)
    BY <1>3 DEF WholeDays
  <1> QED
    BY <1>1, <1>3, <1>4, WholeDaysReachThreshold DEF date

LEMMA DueIsRecognized ==
  ASSUME NEW ev, ev.fechaUltimoMant \in Date, ev.creadoEn \in Date
  PROVE  Due(ev) <=> /\ ev.idVehiculo # ""
                     /\ MapVehicle(ev).ID # ""
                     /\ NeedsPreventiveMaintenance(MapVehicle(ev))
  <1>1. /\ MapVehicle(ev).ID = ev.numeroPlaca
        /\ MapVehicle(ev).VehicleType = ev.tipoVehiculo
        /\ MapVehicle(ev).KilometersRecorded = ev.kilometraje
        /\ MapVehicle(ev).DaysSinceLastMaintenance = DaysSinceLastMaintenance(ev)
        /\ MapVehicle(ev).Available <=> ev.estadoVehiculo = "DISPONIBLE" /\ ev.activo
    BY DEF MapVehicle
  <1> QED
    BY <1>1, DaysAreRight DEF NeedsPreventiveMaintenance, Due

\* A step that takes a run past its fetch is the fetch.
LEMMA OnlyTheFetchFetches ==
  ASSUME TypeOK, [Next]_vars, NEW s \in Schedulers,
         run[s].step = "waiting", run'[s].step = "readQueued"
  PROVE  FetchVehicles(s)
  <1> USE DEF TypeOK, At
  <1>1. ASSUME NEW r \in Schedulers, SchedulerStep(r)
        PROVE  FetchVehicles(s)
    <2>1. CASE FetchVehicles(r)
      BY <2>1 DEF FetchVehicles
    <2>2. ASSUME NEW ok \in BOOLEAN, ReadQueued(r, ok) \/ ReadInProgress(r, ok)
          PROVE  FALSE
      <3>1. run' = [run EXCEPT ![r] = At("readInProgress")]
               \/ run' = [run EXCEPT ![r] = At("evaluate")]
        BY <2>2 DEF ReadQueued, ReadInProgress, ReadActive
      <3> HIDE DEF At
      <3>2. run'[s] = run[s] \/ run'[s] = At("readInProgress") \/ run'[s] = At("evaluate")
        BY <3>1
      <3> QED
        BY <3>2 DEF At
    <2>3. ASSUME NEW v \in Vehicles, SkipActive(r, v)
          PROVE  FALSE
      BY <2>3 DEF SkipActive
    <2>4. ASSUME NEW v \in Vehicles, NEW res, NEW again, Create(r, v, res, again)
          PROVE  FALSE
      BY <2>4 DEF Create
    <2>5. ASSUME NEW v \in Vehicles, NEW res, PublishCreated(r, v, res)
          PROVE  FALSE
      BY <2>5 DEF PublishCreated
    <2>6. CASE RunEnds(r)
      BY <2>6 DEF RunEnds
    <2> QED
      BY <1>1, <2>1, <2>2, <2>3, <2>4, <2>5, <2>6 DEF SchedulerStep
  <1>2. CASE \/ CorrectiveIsInserted \/ RowsMove
             \/ \E v \in Vehicles, t \in Types : RowReopens(v, t)
    BY <1>2 DEF CorrectiveIsInserted, RowsMove, RowReopens, runVars
  <1>3. ASSUME NEW v \in Vehicles, NEW ev \in Fleet, VehicleChanges(v, ev)
        PROVE  FALSE
    BY <1>3 DEF VehicleChanges, runVars
  <1>4. CASE Crash
    BY <1>4 DEF Crash
  <1>5. CASE UNCHANGED vars
    BY <1>5 DEF vars
  <1> QED
    BY <1>1, <1>2, <1>3, <1>4, <1>5 DEF Next

\* A run takes up exactly the vehicles that are due, for every fleet, every integer
\* threshold and every table of kilometres (mapVehicle, NeedsPreventiveMaintenance).
THEOREM DueVehiclesAreRecognized == Spec => DueVehiclesAreTakenUp
  <1>1. TypeOK /\ [Next]_vars =>
           [\A s \in Schedulers :
               run[s].step = "waiting" /\ run'[s].step = "readQueued" =>
                  todo'[s] = {v \in Vehicles : Due(fleet[v])}]_vars
    <2> SUFFICES ASSUME TypeOK, [Next]_vars, NEW s \in Schedulers,
                        run[s].step = "waiting", run'[s].step = "readQueued"
                 PROVE  todo'[s] = {v \in Vehicles : Due(fleet[v])}
      OBVIOUS
    <2>1. FetchVehicles(s)
      BY OnlyTheFetchFetches
    <2>2. todo'[s] = {v \in GetAllVehicles : IsTakenUp(v)}
      BY <2>1 DEF FetchVehicles, TypeOK
    <2>3. \A v \in Vehicles : /\ fleet[v].fechaUltimoMant \in Date
                              /\ fleet[v].creadoEn \in Date
      BY FleetHasDates DEF TypeOK
    <2>4. \A v \in Vehicles :
             Due(fleet[v]) <=> v \in GetAllVehicles /\ IsTakenUp(v)
      BY <2>3, DueIsRecognized DEF GetAllVehicles, IsTakenUp
    <2> QED
      BY <2>2, <2>4 DEF GetAllVehicles
  <1> QED
    BY <1>1, SchedulerTypesAreCorrect, PTL DEF Spec, DueVehiclesAreTakenUp
================================================================================
