---------------------------- MODULE ServiceRowsProofs ----------------------------
(* Proof that MaintenanceService, seen as ServiceRows sees it, implements ActiveRows:
   for any finite number of rows of any vehicles, any number of workers and clients,
   and any faults, crashes and shutdowns.  The steps are sorted by what they do to the
   one row they write, and a count of rows then changes by one element of a set. *)
EXTENDS ServiceRows, MaintenanceServiceProofs

\* The worker of a row will write in_progress.
Holds(id) == worker[id] \in {"listed", "starting"}

\* The row of such a worker is still queued, or has been completed in the meantime: no
\* other worker touches it, and whoever else writes rows writes "completed".
HoldersSeeTwoStatuses ==
    \A id \in Ids : Holds(id) => db[id].status \in {"queued", "completed"}

RInv == Inv /\ HoldersSeeTwoStatuses

--------------------------------------------------------------------------------
(* Counting. *)

\* What RowCounts counts are finite sets of rows.
LEMMA CountsCount ==
  /\ RowCounts \in [Vehicles -> [RowsSeen!Types -> [RowsSeen!ActiveStatus -> Nat]]]
  /\ RowCounts' \in [Vehicles -> [RowsSeen!Types -> [RowsSeen!ActiveStatus -> Nat]]]
  /\ \A v \in Vehicles, t \in RowsSeen!Types, st \in RowsSeen!ActiveStatus :
        /\ RowCounts[v][t][st] = Cardinality(RowsOf(v, t, st))
        /\ RowCounts'[v][t][st] = Cardinality(RowsOf(v, t, st)')
        /\ IsFiniteSet(RowsOf(v, t, st)) /\ RowsOf(v, t, st) \subseteq Ids
  <1> USE DEF RowsSeen!Types, RowsSeen!ActiveStatus
  <1>1. \A v, t, st : /\ RowsOf(v, t, st) \subseteq Ids
                      /\ RowsOf(v, t, st)' \subseteq Ids
    BY DEF RowsOf
  <1>2. \A v, t, st : /\ IsFiniteSet(RowsOf(v, t, st))
                      /\ Cardinality(RowsOf(v, t, st)) \in Nat
                      /\ Cardinality(RowsOf(v, t, st)') \in Nat
    BY <1>1, IdsAreFinite, FS_Subset, FS_CardinalityType
  <1> HIDE DEF RowsOf
  <1> QED
    BY <1>1, <1>2 DEF RowCounts

\* A row that is in none of some sets of rows leaves room in the bound on their sizes.
LEMMA RowsLeaveRoom ==
  ASSUME NEW id \in Ids, NEW R \in SUBSET (Ids \ {id})
  PROVE  Cardinality(R) \in Nat /\ Cardinality(R) < Cardinality(Ids)
  <1>1. IsFiniteSet(Ids \ {id}) /\ Cardinality(Ids \ {id}) = Cardinality(Ids) - 1
    BY IdsAreFinite, FS_RemoveElement
  <1>2. /\ Cardinality(R) <= Cardinality(Ids \ {id})
        /\ Cardinality(R) \in Nat /\ Cardinality(Ids) \in Nat
    BY <1>1, IdsAreFinite, FS_Subset, FS_CardinalityType
  <1> QED
    BY <1>1, <1>2

\* The vehicle and the type of a row.
LEMMA RowHasOwner ==
  ASSUME NEW id \in Ids
  PROVE  \E v \in Vehicles, t \in RowsSeen!Types : Of[id] = <<v, t>>
  BY OfIsGiven DEF RowsSeen!Types

\* Only the row of id changes its status.
OneRowMoves(id) == \A i \in Ids : i # id => db'[i].status = db[i].status

\* The counts when one row changes its status: the one it leaves goes down, the one it
\* comes to goes up, and all others stay.
LEMMA CountsFollowRow ==
  ASSUME NEW id \in Ids, OneRowMoves(id), db'[id].status # db[id].status,
         NEW v \in Vehicles, NEW t \in RowsSeen!Types, Of[id] = <<v, t>>
  PROVE  \A w \in Vehicles, u \in RowsSeen!Types, st \in RowsSeen!ActiveStatus :
            RowCounts'[w][u][st] =
               IF w # v \/ u # t THEN RowCounts[w][u][st]
               ELSE IF st = db[id].status THEN RowCounts[w][u][st] - 1
               ELSE IF st = db'[id].status THEN RowCounts[w][u][st] + 1
               ELSE RowCounts[w][u][st]
  <1> SUFFICES ASSUME NEW w \in Vehicles, NEW u \in RowsSeen!Types,
                      NEW st \in RowsSeen!ActiveStatus
               PROVE  Cardinality(RowsOf(w, u, st)') =
                         IF w # v \/ u # t THEN Cardinality(RowsOf(w, u, st))
                         ELSE IF st = db[id].status THEN Cardinality(RowsOf(w, u, st)) - 1
                         ELSE IF st = db'[id].status THEN Cardinality(RowsOf(w, u, st)) + 1
                         ELSE Cardinality(RowsOf(w, u, st))
    BY CountsCount
  <1>1. IsFiniteSet(RowsOf(w, u, st))
    BY CountsCount
  <1>2. CASE w # v \/ u # t
    <2>1. Of[id] # <<w, u>>
      BY <1>2
    <2>2. RowsOf(w, u, st)' = RowsOf(w, u, st)
      BY <2>1 DEF RowsOf, OneRowMoves
    <2> QED
      BY <1>2, <2>2
  <1>3. CASE w = v /\ u = t /\ st = db[id].status
    <2>1. id \in RowsOf(w, u, st) /\ RowsOf(w, u, st)' = RowsOf(w, u, st) \ {id}
      BY <1>3 DEF RowsOf, OneRowMoves
    <2> QED
      BY <1>1, <1>3, <2>1, FS_RemoveElement
  <1>4. CASE w = v /\ u = t /\ st # db[id].status /\ st = db'[id].status
    <2>1. id \notin RowsOf(w, u, st)
      BY <1>4 DEF RowsOf
    <2>2. RowsOf(w, u, st)' \subseteq RowsOf(w, u, st) \cup {id}
      BY <1>4 DEF RowsOf, OneRowMoves
    <2>3. RowsOf(w, u, st) \cup {id} \subseteq RowsOf(w, u, st)'
      BY <1>4 DEF RowsOf, OneRowMoves
    <2>4. Cardinality(RowsOf(w, u, st) \cup {id}) = Cardinality(RowsOf(w, u, st)) + 1
      BY <1>1, <2>1, FS_AddElement
    <2>5. RowsOf(w, u, st)' = RowsOf(w, u, st) \cup {id}
      BY <2>2, <2>3
    <2> QED
      BY <1>4, <2>4, <2>5
  <1>5. CASE w = v /\ u = t /\ st # db[id].status /\ st # db'[id].status
    <2>1. RowsOf(w, u, st)' = RowsOf(w, u, st)
      BY <1>5 DEF RowsOf, OneRowMoves
    <2> QED
      BY <1>5, <2>1
  <1> QED
    BY <1>2, <1>3, <1>4, <1>5

\* Counts that agree but in one place are an EXCEPT of each other.
LEMMA OneCountMoves ==
  ASSUME NEW v \in Vehicles, NEW t \in RowsSeen!Types, NEW st \in RowsSeen!ActiveStatus,
         \A w \in Vehicles, u \in RowsSeen!Types, x \in RowsSeen!ActiveStatus :
            (w = v /\ u = t /\ x = st) \/ RowCounts'[w][u][x] = RowCounts[w][u][x]
  PROVE  RowCounts' = [RowCounts EXCEPT ![v][t][st] = RowCounts'[v][t][st]]
  <1> DEFINE R == [RowsSeen!Types -> [RowsSeen!ActiveStatus -> Nat]]
             row == [RowCounts[v][t] EXCEPT ![st] = RowCounts'[v][t][st]]
  <1>1. RowCounts \in [Vehicles -> R] /\ RowCounts' \in [Vehicles -> R]
    BY CountsCount
  <1>2. RowCounts'[v][t] = row
    BY <1>1
  <1>3. RowCounts'[v] = [RowCounts[v] EXCEPT ![t] = row]
    <2>1. ASSUME NEW u \in RowsSeen!Types, u # t PROVE RowCounts'[v][u] = RowCounts[v][u]
      BY <1>1, <2>1
    <2> QED
      BY <1>1, <1>2, <2>1
  <1>4. ASSUME NEW w \in Vehicles, w # v PROVE RowCounts'[w] = RowCounts[w]
    <2>1. ASSUME NEW u \in RowsSeen!Types PROVE RowCounts'[w][u] = RowCounts[w][u]
      BY <1>1, <1>4
    <2> QED
      BY <1>1, <2>1
  <1>5. RowCounts' = [RowCounts EXCEPT ![v] = [RowCounts[v] EXCEPT ![t] = row]]
    BY <1>1, <1>3, <1>4
  <1> QED
    BY <1>1, <1>5

\* A row becomes active: its count goes up by one.
LEMMA CountGoesUp ==
  ASSUME NEW id \in Ids, OneRowMoves(id), NEW st \in RowsSeen!ActiveStatus,
         db[id].status \notin RowsSeen!ActiveStatus, db'[id].status = st,
         NEW v \in Vehicles, NEW t \in RowsSeen!Types, Of[id] = <<v, t>>
  PROVE  RowCounts' = [RowCounts EXCEPT ![v][t][st] = RowCounts[v][t][st] + 1]
  <1>1. \A w \in Vehicles, u \in RowsSeen!Types, x \in RowsSeen!ActiveStatus :
           RowCounts'[w][u][x] =
              IF w # v \/ u # t THEN RowCounts[w][u][x]
              ELSE IF x = db[id].status THEN RowCounts[w][u][x] - 1
              ELSE IF x = db'[id].status THEN RowCounts[w][u][x] + 1
              ELSE RowCounts[w][u][x]
    BY CountsFollowRow
  <1>2. /\ \A w \in Vehicles, u \in RowsSeen!Types, x \in RowsSeen!ActiveStatus :
              (w = v /\ u = t /\ x = st) \/ RowCounts'[w][u][x] = RowCounts[w][u][x]
        /\ RowCounts'[v][t][st] = RowCounts[v][t][st] + 1
    BY <1>1
  <1>3. RowCounts' = [RowCounts EXCEPT ![v][t][st] = RowCounts'[v][t][st]]
    BY <1>2, OneCountMoves
  <1> QED
    BY <1>2, <1>3

\* A row ceases to be active: its count, which included it, goes down by one.
LEMMA CountGoesDown ==
  ASSUME NEW id \in Ids, OneRowMoves(id), NEW st \in RowsSeen!ActiveStatus,
         db[id].status = st, db'[id].status \notin RowsSeen!ActiveStatus,
         NEW v \in Vehicles, NEW t \in RowsSeen!Types, Of[id] = <<v, t>>
  PROVE  RowCounts' = [RowCounts EXCEPT ![v][t][st] = RowCounts[v][t][st] - 1]
  <1>1. \A w \in Vehicles, u \in RowsSeen!Types, x \in RowsSeen!ActiveStatus :
           RowCounts'[w][u][x] =
              IF w # v \/ u # t THEN RowCounts[w][u][x]
              ELSE IF x = db[id].status THEN RowCounts[w][u][x] - 1
              ELSE IF x = db'[id].status THEN RowCounts[w][u][x] + 1
              ELSE RowCounts[w][u][x]
    BY CountsFollowRow
  <1>2. /\ \A w \in Vehicles, u \in RowsSeen!Types, x \in RowsSeen!ActiveStatus :
              (w = v /\ u = t /\ x = st) \/ RowCounts'[w][u][x] = RowCounts[w][u][x]
        /\ RowCounts'[v][t][st] = RowCounts[v][t][st] - 1
    BY <1>1
  <1>3. RowCounts' = [RowCounts EXCEPT ![v][t][st] = RowCounts'[v][t][st]]
    BY <1>2, OneCountMoves
  <1> QED
    BY <1>2, <1>3

\* A row counts where it is, and leaves room where it is not.
LEMMA CountIncludesRow ==
  ASSUME NEW id \in Ids, NEW st \in RowsSeen!ActiveStatus,
         NEW v \in Vehicles, NEW t \in RowsSeen!Types, Of[id] = <<v, t>>
  PROVE  /\ RowCounts[v][t][st] \in Nat
         /\ db[id].status = st => RowCounts[v][t][st] > 0
         /\ db[id].status # st => RowCounts[v][t][st] < Cardinality(Ids)
  <1>1. /\ RowCounts[v][t][st] = Cardinality(RowsOf(v, t, st))
        /\ IsFiniteSet(RowsOf(v, t, st))
    BY CountsCount
  <1>2. RowCounts[v][t][st] \in Nat
    BY <1>1, FS_CardinalityType
  <1>3. ASSUME db[id].status = st PROVE RowCounts[v][t][st] > 0
    <2>1. id \in RowsOf(v, t, st)
      BY <1>3 DEF RowsOf
    <2>2. Cardinality(RowsOf(v, t, st)) # 0
      BY <1>1, <2>1, FS_EmptySet
    <2> QED
      BY <1>1, <1>2, <2>2
  <1>4. ASSUME db[id].status # st PROVE RowCounts[v][t][st] < Cardinality(Ids)
    <2>1. RowsOf(v, t, st) \in SUBSET (Ids \ {id})
      BY <1>4 DEF RowsOf
    <2> QED
      BY <1>1, <2>1, RowsLeaveRoom
  <1> QED
    BY <1>2, <1>3, <1>4

\* The stale copies when one worker begins or ceases to hold one, or none does.
LEMMA CopiesFollowWorker ==
  ASSUME NEW id \in Ids,
         \A i \in Ids : i # id => (HoldsStaleCopy(i)' <=> HoldsStaleCopy(i))
  PROVE  /\ (HoldsStaleCopy(id)' <=> HoldsStaleCopy(id)) => StaleCopies' = StaleCopies
         /\ HoldsStaleCopy(id)' => StaleCopies' = StaleCopies \cup {Of[id]}
         /\ ~ HoldsStaleCopy(id)' => StaleCopies' \in {StaleCopies, StaleCopies \ {Of[id]}}
  <1> DEFINE H == {i \in Ids : HoldsStaleCopy(i)}
             K == {i \in Ids : HoldsStaleCopy(i)'}
  <1>1. StaleCopies = {Of[i] : i \in H} /\ StaleCopies' = {Of[i] : i \in K}
    BY DEF StaleCopies
  <1>2. ASSUME HoldsStaleCopy(id)' <=> HoldsStaleCopy(id)
        PROVE  StaleCopies' = StaleCopies
    <2>1. H = K
      BY <1>2
    <2> QED
      BY <1>1, <2>1
  <1>3. ASSUME HoldsStaleCopy(id)'
        PROVE  StaleCopies' = StaleCopies \cup {Of[id]}
    <2>1. K = H \cup {id}
      BY <1>3
    <2> HIDE DEF H, K
    <2> QED
      BY <1>1, <2>1
  <1>4. ASSUME ~ HoldsStaleCopy(id)'
        PROVE  StaleCopies' \in {StaleCopies, StaleCopies \ {Of[id]}}
    <2>1. K = H \ {id}
      BY <1>4
    <2> HIDE DEF H, K
    <2>2. StaleCopies' \subseteq StaleCopies /\ StaleCopies \ {Of[id]} \subseteq StaleCopies'
      BY <1>1, <2>1
    <2>3. CASE Of[id] \in StaleCopies'
      <3>1. StaleCopies' = StaleCopies
        BY <2>2, <2>3
      <3> QED
        BY <3>1
    <2>4. CASE Of[id] \notin StaleCopies'
      <3>1. StaleCopies' = StaleCopies \ {Of[id]}
        BY <2>2, <2>4
      <3> QED
        BY <3>1
    <2> QED
      BY <2>3, <2>4
  <1> QED
    BY <1>2, <1>3, <1>4

--------------------------------------------------------------------------------
(* The shapes a step of the service can have, as the scheduler sees them. *)

NothingSeen == RowsSeen!RowsNext \/ UNCHANGED RowsSeen!rowsVars

\* No row changes its status.
RowsStay == \A i \in Ids : db'[i].status = db[i].status

LEMMA CountsStay ==
  ASSUME RowsStay
  PROVE  RowCounts' = RowCounts
  <1>1. \A v, t, st : RowsOf(v, t, st)' = RowsOf(v, t, st)
    BY DEF RowsStay, RowsOf
  <1> QED
    BY <1>1 DEF RowCounts

\* No row changes, and no worker is left that holds a stale copy.
LEMMA ForgettingIsLosingCopies ==
  ASSUME RowsStay, \A i \in Ids : ~ HoldsStaleCopy(i)'
  PROVE  NothingSeen
  <1>1. RowCounts' = RowCounts
    BY CountsStay
  <1>2. StaleCopies' = {}
    BY DEF StaleCopies
  <1> QED
    BY <1>1, <1>2 DEF NothingSeen, RowsSeen!RowsNext, RowsSeen!CopiesAreLost

\* No row changes, and one worker at most gives up the copy it holds.
LEMMA GivingUpIsGivingUp ==
  ASSUME RowsStay, NEW id \in Ids,
         \A i \in Ids : i # id => (HoldsStaleCopy(i)' <=> HoldsStaleCopy(i)),
         HoldsStaleCopy(id)' => HoldsStaleCopy(id)
  PROVE  NothingSeen
  <1>1. RowCounts' = RowCounts
    BY CountsStay
  <1>2. PICK v \in Vehicles, t \in RowsSeen!Types : Of[id] = <<v, t>>
    BY RowHasOwner
  <1>3. CASE StaleCopies' = StaleCopies
    BY <1>1, <1>3 DEF NothingSeen, RowsSeen!rowsVars
  <1>4. CASE StaleCopies' = StaleCopies \ {<<v, t>>}
    <2>1. RowsSeen!GiveUpCopy(v, t)
      BY <1>1, <1>4 DEF RowsSeen!GiveUpCopy
    <2> QED
      BY <2>1 DEF NothingSeen, RowsSeen!RowsNext
  <1>5. StaleCopies' = StaleCopies \/ StaleCopies' = StaleCopies \ {Of[id]}
    BY CopiesFollowWorker
  <1> QED
    BY <1>2, <1>3, <1>4, <1>5

\* A row is inserted.
LEMMA CreatingIsInserting ==
  ASSUME HoldersSeeTwoStatuses, NEW id \in Ids, OneRowMoves(id),
         db[id].status = "none", db'[id].status = "queued", worker' = worker
  PROVE  NothingSeen
  <1>1. PICK v \in Vehicles, t \in RowsSeen!Types : Of[id] = <<v, t>>
    BY RowHasOwner
  <1>2. /\ "queued" \in RowsSeen!ActiveStatus /\ "in_progress" \in RowsSeen!ActiveStatus
    BY DEF RowsSeen!ActiveStatus
  <1>3. RowCounts' = [RowCounts EXCEPT ![v][t]["queued"] = RowCounts[v][t]["queued"] + 1]
    <2>1. db[id].status \notin RowsSeen!ActiveStatus
      BY DEF RowsSeen!ActiveStatus
    <2> QED
      BY <1>1, <1>2, <2>1, CountGoesUp
  <1>4. RowsSeen!Active(v, t) < Cardinality(Ids)
    <2> DEFINE Q == RowsOf(v, t, "queued")
               P == RowsOf(v, t, "in_progress")
    <2>1. Q \cup P \in SUBSET (Ids \ {id}) /\ Q \cap P = {}
      BY DEF RowsOf
    <2>2. IsFiniteSet(Q) /\ IsFiniteSet(P)
      BY <1>2, CountsCount
    <2>3. /\ Cardinality(Q) \in Nat /\ Cardinality(P) \in Nat
          /\ Cardinality(Q \cup P) = Cardinality(Q) + Cardinality(P) - Cardinality(Q \cap P)
      BY <2>2, FS_Union, FS_CardinalityType
    <2>4. Cardinality(Q \cap P) = 0
      BY <2>1, FS_EmptySet
    <2>5. Cardinality(Q \cup P) < Cardinality(Ids)
      BY <2>1, RowsLeaveRoom
    <2>6. RowCounts[v][t]["queued"] = Cardinality(Q)
          /\ RowCounts[v][t]["in_progress"] = Cardinality(P)
      BY <1>2, CountsCount
    <2> QED
      BY <2>3, <2>4, <2>5, <2>6 DEF RowsSeen!Active
  <1>5. StaleCopies' = StaleCopies
    <2>1. \A i \in Ids : HoldsStaleCopy(i)' <=> HoldsStaleCopy(i)
      BY DEF HoldsStaleCopy, HoldersSeeTwoStatuses, Holds, OneRowMoves
    <2> QED
      BY <2>1, CopiesFollowWorker
  <1>6. RowsSeen!InsertRow(v, t)
    BY <1>3, <1>4, <1>5 DEF RowsSeen!InsertRow
  <1> QED
    BY <1>6 DEF NothingSeen, RowsSeen!RowsNext

\* A worker puts a queued row in progress.
LEMMA StartingIsStarting ==
  ASSUME NEW id \in Ids, OneRowMoves(id),
         db[id].status = "queued", db'[id].status = "in_progress",
         \A i \in Ids : i # id => worker'[i] = worker[i], ~ Holds(id)'
  PROVE  NothingSeen
  <1>1. PICK v \in Vehicles, t \in RowsSeen!Types : Of[id] = <<v, t>>
    BY RowHasOwner
  <1> DEFINE q == RowCounts[v][t]["queued"]
             p == RowCounts[v][t]["in_progress"]
             row == [RowCounts[v][t] EXCEPT !["queued"] = q - 1, !["in_progress"] = p + 1]
             R == [RowsSeen!Types -> [RowsSeen!ActiveStatus -> Nat]]
  <1>2. /\ RowsSeen!ActiveStatus = {"queued", "in_progress"}
        /\ RowCounts \in [Vehicles -> R] /\ RowCounts' \in [Vehicles -> R]
    BY CountsCount DEF RowsSeen!ActiveStatus
  <1>3. q \in Nat /\ q > 0 /\ p \in Nat /\ p < Cardinality(Ids)
    BY <1>1, <1>2, CountIncludesRow
  <1>4. \A w \in Vehicles, u \in RowsSeen!Types, x \in RowsSeen!ActiveStatus :
           RowCounts'[w][u][x] =
              IF w # v \/ u # t THEN RowCounts[w][u][x]
              ELSE IF x = db[id].status THEN RowCounts[w][u][x] - 1
              ELSE IF x = db'[id].status THEN RowCounts[w][u][x] + 1
              ELSE RowCounts[w][u][x]
    BY <1>1, CountsFollowRow
  <1>5. RowCounts'[v][t] = row
    <2>1. RowCounts'[v][t]["queued"] = q - 1 /\ RowCounts'[v][t]["in_progress"] = p + 1
      BY <1>2, <1>4
    <2>2. /\ RowCounts[v][t] \in [RowsSeen!ActiveStatus -> Nat]
          /\ RowCounts'[v][t] \in [RowsSeen!ActiveStatus -> Nat]
      BY <1>2
    <2> QED
      BY <1>2, <2>1, <2>2
  <1>6. RowCounts' = [RowCounts EXCEPT ![v] = [RowCounts[v] EXCEPT ![t] = row]]
    <2>1. ASSUME NEW w \in Vehicles, NEW u \in RowsSeen!Types, w # v \/ u # t
          PROVE  RowCounts'[w][u] = RowCounts[w][u]
      <3>1. /\ RowCounts[w][u] \in [RowsSeen!ActiveStatus -> Nat]
            /\ RowCounts'[w][u] \in [RowsSeen!ActiveStatus -> Nat]
        BY <1>2
      <3> QED
        BY <1>4, <2>1, <3>1
    <2>2. RowCounts'[v] = [RowCounts[v] EXCEPT ![t] = row]
      BY <1>2, <1>5, <2>1
    <2>3. ASSUME NEW w \in Vehicles, w # v PROVE RowCounts'[w] = RowCounts[w]
      BY <1>2, <2>1, <2>3
    <2> QED
      BY <1>2, <2>2, <2>3
  <1>7. RowCounts' = [RowCounts EXCEPT ![v][t]["queued"] = q - 1,
                                       ![v][t]["in_progress"] = p + 1]
    BY <1>2, <1>6
  <1>8. StaleCopies' = StaleCopies
    <2>1. \A i \in Ids : HoldsStaleCopy(i)' <=> HoldsStaleCopy(i)
      BY DEF HoldsStaleCopy, Holds, OneRowMoves
    <2> QED
      BY <2>1, CopiesFollowWorker
  <1>9. RowsSeen!StartRow(v, t)
    BY <1>2, <1>3, <1>7, <1>8 DEF RowsSeen!StartRow
  <1> QED
    BY <1>9 DEF NothingSeen, RowsSeen!RowsNext

\* A worker puts a completed row in progress again.
LEMMA RestartingIsReopening ==
  ASSUME NEW id \in Ids, OneRowMoves(id),
         db[id].status = "completed", db'[id].status = "in_progress",
         \A i \in Ids : i # id => worker'[i] = worker[i], Holds(id), ~ Holds(id)'
  PROVE  NothingSeen
  <1>1. PICK v \in Vehicles, t \in RowsSeen!Types : Of[id] = <<v, t>>
    BY RowHasOwner
  <1>2. RowsSeen!ActiveStatus = {"queued", "in_progress"}
    BY DEF RowsSeen!ActiveStatus
  <1>3. RowCounts[v][t]["in_progress"] < Cardinality(Ids)
    BY <1>1, <1>2, CountIncludesRow
  <1>4. RowCounts' = [RowCounts EXCEPT ![v][t]["in_progress"] =
                         RowCounts[v][t]["in_progress"] + 1]
    BY <1>1, <1>2, CountGoesUp
  <1>5. <<v, t>> \in StaleCopies
    BY <1>1 DEF StaleCopies, HoldsStaleCopy, Holds
  <1>6. StaleCopies' \in {StaleCopies, StaleCopies \ {<<v, t>>}}
    <2>1. /\ \A i \in Ids : i # id => (HoldsStaleCopy(i)' <=> HoldsStaleCopy(i))
          /\ ~ HoldsStaleCopy(id)'
      BY DEF HoldsStaleCopy, Holds, OneRowMoves
    <2> QED
      BY <1>1, <2>1, CopiesFollowWorker
  <1>7. RowsSeen!ReopenRow(v, t)
    BY <1>3, <1>4, <1>5, <1>6 DEF RowsSeen!ReopenRow
  <1> QED
    BY <1>7 DEF NothingSeen, RowsSeen!RowsNext

\* A row is written completed, by whomever.
LEMMA CompletingIsCompletingRow ==
  ASSUME HoldersSeeTwoStatuses, NEW id \in Ids, OneRowMoves(id),
         db[id].status # "none", db'[id].status = "completed",
         \A i \in Ids : Holds(i)' <=> Holds(i)
  PROVE  NothingSeen
  <1>1. PICK v \in Vehicles, t \in RowsSeen!Types : Of[id] = <<v, t>>
    BY RowHasOwner
  <1>2. RowsSeen!ActiveStatus = {"queued", "in_progress"}
    BY DEF RowsSeen!ActiveStatus
  <1>3. \A i \in Ids : i # id => (HoldsStaleCopy(i)' <=> HoldsStaleCopy(i))
    BY DEF HoldsStaleCopy, Holds, OneRowMoves
  <1>4. ASSUME NEW st \in RowsSeen!ActiveStatus, db[id].status = st
        PROVE  NothingSeen
    <2>1. RowCounts[v][t][st] > 0
      BY <1>1, <1>4, CountIncludesRow
    <2>2. RowCounts' = [RowCounts EXCEPT ![v][t][st] = RowCounts[v][t][st] - 1]
      <3>1. db'[id].status \notin RowsSeen!ActiveStatus
        BY <1>2
      <3> QED
        BY <1>1, <1>4, <3>1, CountGoesDown
    <2>3. \/ StaleCopies' = StaleCopies
          \/ st = "queued" /\ StaleCopies' = StaleCopies \cup {<<v, t>>}
      <3>1. CASE Holds(id)
        <4>1. st = "queued" /\ HoldsStaleCopy(id)'
          BY <1>2, <1>4, <3>1 DEF HoldersSeeTwoStatuses, HoldsStaleCopy, Holds
        <4> QED
          BY <1>1, <1>3, <4>1, CopiesFollowWorker
      <3>2. CASE ~ Holds(id)
        <4>1. HoldsStaleCopy(id)' <=> HoldsStaleCopy(id)
          BY <3>2 DEF HoldsStaleCopy, Holds
        <4> QED
          BY <1>3, <4>1, CopiesFollowWorker
      <3> QED
        BY <3>1, <3>2
    <2>4. RowsSeen!CompleteRow(v, t, st)
      <3>1. /\ RowCounts[v][t][st] > 0
            /\ RowCounts' = [RowCounts EXCEPT ![v][t][st] = @ - 1]
        BY <2>1, <2>2
      <3> QED
        BY <2>3, <3>1 DEF RowsSeen!CompleteRow
    <2> QED
      BY <2>4 DEF NothingSeen, RowsSeen!RowsNext
  <1>5. CASE db[id].status \notin RowsSeen!ActiveStatus
    <2>1. \A w, u : \A st \in RowsSeen!ActiveStatus : RowsOf(w, u, st)' = RowsOf(w, u, st)
      BY <1>2, <1>5 DEF RowsOf, OneRowMoves
    <2>2. RowCounts' = RowCounts
      BY <1>2, <2>1 DEF RowCounts
    <2>3. HoldsStaleCopy(id)' <=> HoldsStaleCopy(id)
      BY <1>2, <1>5 DEF HoldsStaleCopy, Holds
    <2>4. StaleCopies' = StaleCopies
      BY <1>3, <2>3, CopiesFollowWorker
    <2> QED
      BY <2>2, <2>4 DEF NothingSeen, RowsSeen!rowsVars
  <1> QED
    BY <1>4, <1>5

--------------------------------------------------------------------------------
(* The steps of the service, sorted by what they do. *)

\* The writes of "completed", and what they are made of.
Completes(id, m, res) ==
    /\ UpdateStatus(id, m, res)
    /\ m \in Slot /\ m.status = "completed" /\ Stored(id)

SameHolders == \A i \in Ids : Holds(i)' <=> Holds(i)

\* Nothing of interest happens.
Idles == RowsStay /\ SameHolders

\* All copies are dropped, but for those of rows that are queued now.
Forgets == RowsStay /\ \A i \in Ids : Holds(i)' => db'[i].status = "queued"

\* A worker goes on without a write.
GoesOn(id) ==
    /\ RowsStay
    /\ Holds(id)' => Holds(id)
    /\ \A i \in Ids : i # id => (Holds(i)' <=> Holds(i))

\* A worker makes its first write.
Starts(id) ==
    /\ \E m \in Slot, res \in DbOutcomes :
          m.status = "in_progress" /\ UpdateStatus(id, m, res)
    /\ Holds(id) /\ ~ Holds(id)'
    /\ \A i \in Ids : i # id => worker'[i] = worker[i]

\* Somebody completes a row.
Finishes(id) ==
    /\ \E m \in Slot, res \in DbOutcomes : Completes(id, m, res)
    /\ SameHolders

\* Somebody inserts a row.
Inserts(id) ==
    /\ OneRowMoves(id)
    /\ db[id].status = "none" /\ db'[id].status = "queued"
    /\ worker' = worker

Sorted ==
    \/ Idles
    \/ Forgets
    \/ \E id \in Ids : GoesOn(id) \/ Starts(id) \/ Finishes(id) \/ Inserts(id)

\* The pool takes up the queue, moves a goroutine on, or makes one of its two writes.
LEMMA PoolIsSorted ==
  ASSUME Inv, PoolStep
  PROVE  Sorted
  <1> USE DEF Inv, TypeOK, PoolTypeOK
  <1>1. CASE ProcessQueue
    BY <1>1 DEF ProcessQueue, ListByStatus, Holds, RowsStay, Forgets, Sorted, storeVars
  <1>2. ASSUME NEW id \in Ids, Dispatch(id)
        PROVE  GoesOn(id)
    BY <1>2 DEF Dispatch, IsFirst, Listed, Holds, GoesOn, RowsStay, storeVars
  <1>3. ASSUME NEW id \in Ids, NEW res \in DbOutcomes, TransitionToInProgress(id, res)
        PROVE  GoesOn(id) \/ Starts(id)
    <2>1. /\ \A i \in Ids : i # id => worker'[i] = worker[i]
          /\ Holds(id) /\ ~ Holds(id)'
      BY <1>3 DEF TransitionToInProgress, WorkerExits, Holds
    <2>2. CASE ~ CanMarkInProgress(copy[id])
      BY <1>3, <2>1, <2>2 DEF TransitionToInProgress, RowsStay, GoesOn, Holds, storeVars
    <2>3. CASE CanMarkInProgress(copy[id])
      <3>1. /\ MarkInProgress(copy[id]) \in Slot
            /\ MarkInProgress(copy[id]).status = "in_progress"
        BY <2>3, MarkInProgressKeeps DEF CopiesConsistent
      <3>2. UpdateStatus(id, MarkInProgress(copy[id]), res)
        BY <1>3, <2>3 DEF TransitionToInProgress
      <3> QED
        BY <2>1, <3>1, <3>2 DEF Starts
    <2> QED
      BY <2>2, <2>3
  <1>4. ASSUME NEW id \in Ids, NEW res \in DbOutcomes, TransitionToCompleted(id, res)
        PROVE  Idles \/ Finishes(id)
    <2>1. worker[id] = "finishing" /\ SameHolders
      BY <1>4 DEF TransitionToCompleted, WorkerExits, Holds, SameHolders
    <2>2. CASE ~ CanMarkCompleted(copy[id])
      BY <1>4, <2>1, <2>2 DEF TransitionToCompleted, RowsStay, Idles, storeVars
    <2>3. CASE CanMarkCompleted(copy[id])
      <3>1. MarkCompleted(copy[id]) \in Slot /\ MarkCompleted(copy[id]).status = "completed"
        BY MarkCompletedKeeps DEF CopiesConsistent
      <3>2. Stored(id)
        BY <2>1 DEF WorkersHoldRows, Begun, Stored
      <3>3. UpdateStatus(id, MarkCompleted(copy[id]), res)
        BY <1>4, <2>3 DEF TransitionToCompleted
      <3> QED
        BY <2>1, <3>1, <3>2, <3>3 DEF Completes, Finishes
    <2> QED
      BY <2>2, <2>3
  <1>5. CASE CycleEnds
    BY <1>5 DEF CycleEnds, Holds, RowsStay, SameHolders, Idles, Sorted, storeVars
  <1> QED
    BY <1>1, <1>2, <1>3, <1>4, <1>5 DEF PoolStep, PoolNext, Sorted

\* The others leave the workers alone, and write nothing or "completed".
LEMMA OthersAreSorted ==
  ASSUME Inv, ReleaseStep \/ QueueStep \/ SummaryStep
  PROVE  Sorted
  <1> USE DEF Inv, TypeOK
  <1>0. worker' = worker
    BY DEF ReleaseStep, QueueStep, SummaryStep, poolVars
  <1>1. SameHolders
    BY <1>0 DEF SameHolders, Holds
  <1>2. CASE db' = db
    BY <1>1, <1>2 DEF Idles, RowsStay, Sorted
  <1>3. ASSUME NEW id \in Ids, NEW res \in DbOutcomes, ReleaseUpdate(id, res)
        PROVE  Finishes(id)
    <2>1. Stored(id) /\ batch[id].status = "completed" /\ batch[id] \in Slot
      BY <1>3 DEF ReleaseUpdate, IsFirst, BatchHoldsRows, ReleaseTypeOK
    <2> QED
      BY <1>1, <1>3, <2>1 DEF ReleaseUpdate, Completes, Finishes
  <1>4. ASSUME NEW c \in Clients, NEW res \in DbOutcomes, FinalizeUpdate(c, res)
        PROVE  fin[c].id \in Ids /\ Finishes(fin[c].id)
    <2>1. fin[c] \in Request /\ HoldsRow(fin[c])
      BY DEF QueueTypeOK, RequestsHoldRows
    <2>2. /\ fin[c].id \in Ids /\ Stored(fin[c].id)
          /\ fin[c].m \in Slot /\ fin[c].m.status = "completed"
      BY <1>4, <2>1 DEF FinalizeUpdate, HoldsRow, Request
    <2> QED
      BY <1>1, <1>4, <2>2 DEF FinalizeUpdate, Completes, Finishes
  <1>5. CASE ReleaseStep
    <2>1. \/ db' = db
          \/ \E id \in Ids, res \in DbOutcomes : ReleaseUpdate(id, res)
      BY <1>5 DEF ReleaseStep, ReleaseNext, ReleaseList, ReleasePublish,
                  PublishMaintenanceEvent, storeVars
    <2> QED
      BY <1>2, <1>3, <2>1 DEF Sorted
  <1>6. CASE QueueStep
    <2>1. \/ db' = db
          \/ \E c \in Clients, res \in DbOutcomes : FinalizeUpdate(c, res)
      BY <1>6 DEF QueueStep, FinalizeBegins, FinalizeGoesOn, FinalizeGet, FinalizeGetFails,
                  FinalizePublish, PublishMaintenanceEvent, storeVars
    <2> QED
      BY <1>2, <1>4, <2>1 DEF Sorted
  <1>7. CASE SummaryStep
    BY <1>2, <1>7 DEF SummaryStep, SummaryReadQueued, SummaryGoesOn, SummaryReadInProgress,
                      storeVars
  <1> QED
    BY <1>5, <1>6, <1>7

LEMMA EnvironmentIsSorted ==
  ASSUME Inv, EnvironmentStep
  PROVE  Sorted
  <1> USE DEF Inv, TypeOK, StoreTypeOK
  <1>0. worker' = worker
    BY DEF EnvironmentStep, poolVars
  <1>1. ASSUME NEW id \in Ids, Create(id)
        PROVE  Inserts(id)
    BY <1>0, <1>1, NewMaintenanceIsConsistent
       DEF Create, IsFirst, Stored, Inserts, OneRowMoves
  <1>2. ASSUME NEW id \in Ids, Age(id)
        PROVE  Idles
    BY <1>0, <1>2 DEF Age, Idles, RowsStay, SameHolders, Holds
  <1> QED
    BY <1>1, <1>2 DEF EnvironmentStep, Sorted

\* A crash and an exit forget all copies; the rest of a shutdown touches none.
LEMMA EndsAreSorted ==
  ASSUME Inv, Crash \/ ShutdownStep
  PROVE  Sorted
  <1>1. CASE Crash \/ Exit
    BY <1>1 DEF Crash, Exit, ProcessIsGone, Holds, RowsStay, Forgets, Sorted, storeVars
  <1>2. CASE ShutdownStep /\ ~ Exit
    BY <1>2 DEF ShutdownStep, Signal, Drained, ReleaseWorkerQuits, ReleaseQuits,
                ReleaseWorkerStopped, Holds, SameHolders, RowsStay, Idles, Sorted,
                storeVars, poolVars
  <1> QED
    BY <1>1, <1>2

LEMMA StepsAreSorted == Inv /\ [Next]_vars => Sorted
  <1> SUFFICES ASSUME Inv, [Next]_vars PROVE Sorted
    OBVIOUS
  <1>1. CASE UNCHANGED vars
    BY <1>1 DEF vars, storeVars, poolVars, Holds, SameHolders, RowsStay, Idles, Sorted
  <1> QED
    BY <1>1, PoolIsSorted, OthersAreSorted, EnvironmentIsSorted, EndsAreSorted DEF Next

--------------------------------------------------------------------------------
(* The invariant, and what the scheduler sees of each sort of step. *)

\* UpdateStatus writes one row: as the copy says, or not at all.
LEMMA OneRowIsWritten ==
  ASSUME StoreTypeOK, NEW id \in Ids, NEW m \in Slot, NEW res, UpdateStatus(id, m, res)
  PROVE  /\ OneRowMoves(id)
         /\ res = "lost" => RowsStay
         /\ res # "lost" => db'[id].status = m.status
  BY UpdateStatusEffect DEF OneRowMoves, RowsStay

LEMMA HoldersKeepTwoStatuses ==
  ASSUME RInv, Sorted
  PROVE  HoldersSeeTwoStatuses'
  <1> USE DEF RInv, HoldersSeeTwoStatuses
  <1>0. StoreTypeOK
    BY DEF Inv, TypeOK
  <1>1. CASE Idles \/ Forgets
    BY <1>1 DEF Idles, Forgets, RowsStay, SameHolders
  <1>2. ASSUME NEW id \in Ids, GoesOn(id) PROVE HoldersSeeTwoStatuses'
    BY <1>2 DEF GoesOn, RowsStay
  <1>3. ASSUME NEW id \in Ids, Starts(id) PROVE HoldersSeeTwoStatuses'
    <2>1. OneRowMoves(id)
      BY <1>0, <1>3, OneRowIsWritten DEF Starts
    <2> QED
      BY <1>3, <2>1 DEF Starts, OneRowMoves, Holds
  <1>4. ASSUME NEW id \in Ids, Finishes(id) PROVE HoldersSeeTwoStatuses'
    <2>1. PICK m \in Slot, res \in DbOutcomes : Completes(id, m, res)
      BY <1>4 DEF Finishes
    <2>2. OneRowMoves(id) /\ (RowsStay \/ db'[id].status = "completed")
      BY <1>0, <2>1, OneRowIsWritten DEF Completes
    <2> QED
      BY <1>4, <2>2 DEF Finishes, SameHolders, OneRowMoves, RowsStay
  <1>5. ASSUME NEW id \in Ids, Inserts(id) PROVE HoldersSeeTwoStatuses'
    BY <1>5 DEF Inserts, OneRowMoves, Holds
  <1> QED
    BY <1>1, <1>2, <1>3, <1>4, <1>5 DEF Sorted

LEMMA SortedIsSeen ==
  ASSUME RInv, Sorted
  PROVE  NothingSeen
  <1>0. StoreTypeOK /\ HoldersSeeTwoStatuses
    BY DEF RInv, Inv, TypeOK
  <1>1. CASE Idles
    <2>1. \A i \in Ids : HoldsStaleCopy(i)' <=> HoldsStaleCopy(i)
      BY <1>1 DEF Idles, RowsStay, SameHolders, HoldsStaleCopy, Holds
    <2>2. StaleCopies' = StaleCopies
      BY <2>1 DEF StaleCopies
    <2> QED
      BY <1>1, <2>2, CountsStay DEF Idles, NothingSeen, RowsSeen!rowsVars
  <1>2. CASE Forgets
    <2>1. RowsStay /\ \A i \in Ids : ~ HoldsStaleCopy(i)'
      BY <1>2 DEF Forgets, HoldsStaleCopy, Holds
    <2> QED
      BY <2>1, ForgettingIsLosingCopies
  <1>3. ASSUME NEW id \in Ids, GoesOn(id) PROVE NothingSeen
    <2>1. /\ RowsStay
          /\ HoldsStaleCopy(id)' => HoldsStaleCopy(id)
          /\ \A i \in Ids : i # id => (HoldsStaleCopy(i)' <=> HoldsStaleCopy(i))
      BY <1>3 DEF GoesOn, RowsStay, HoldsStaleCopy, Holds
    <2> QED
      BY <2>1, GivingUpIsGivingUp
  <1>4. ASSUME NEW id \in Ids, Starts(id) PROVE NothingSeen
    <2>1. PICK m \in Slot, res \in DbOutcomes :
             m.status = "in_progress" /\ UpdateStatus(id, m, res)
      BY <1>4 DEF Starts
    <2>2. /\ Holds(id) /\ ~ Holds(id)'
          /\ \A i \in Ids : i # id => worker'[i] = worker[i]
      BY <1>4 DEF Starts
    <2>3. OneRowMoves(id) /\ (RowsStay \/ db'[id].status = "in_progress")
      BY <1>0, <2>1, OneRowIsWritten
    <2>4. CASE RowsStay
      <3>1. GoesOn(id)
        BY <2>2, <2>4 DEF GoesOn, Holds
      <3> QED
        BY <1>3, <3>1
    <2>5. CASE db'[id].status = "in_progress"
      <3>1. db[id].status \in {"queued", "completed"}
        BY <1>0, <2>2 DEF HoldersSeeTwoStatuses
      <3> QED
        BY <2>2, <2>3, <2>5, <3>1, StartingIsStarting, RestartingIsReopening
    <2> QED
      BY <2>3, <2>4, <2>5
  <1>5. ASSUME NEW id \in Ids, Finishes(id) PROVE NothingSeen
    <2>1. PICK m \in Slot, res \in DbOutcomes : Completes(id, m, res)
      BY <1>5 DEF Finishes
    <2>2. SameHolders /\ db[id].status # "none"
      BY <1>5, <2>1 DEF Finishes, Completes, Stored
    <2>3. OneRowMoves(id) /\ (RowsStay \/ db'[id].status = "completed")
      BY <1>0, <2>1, OneRowIsWritten DEF Completes
    <2>4. CASE RowsStay
      BY <1>1, <2>2, <2>4 DEF Idles
    <2>5. CASE db'[id].status = "completed"
      BY <1>0, <2>2, <2>3, <2>5, CompletingIsCompletingRow DEF SameHolders
    <2> QED
      BY <2>3, <2>4, <2>5
  <1>6. ASSUME NEW id \in Ids, Inserts(id) PROVE NothingSeen
    BY <1>0, <1>6, CreatingIsInserting DEF Inserts
  <1> QED
    BY <1>1, <1>2, <1>3, <1>4, <1>5, <1>6 DEF Sorted

LEMMA RowsStart == Init => RowsSeen!RowsInit
  <1> SUFFICES ASSUME Init PROVE RowsSeen!RowsInit
    OBVIOUS
  <1>1. \A id \in Ids : db[id].status = "none" /\ worker[id] = "none"
    BY NoRowIsConsistent DEF Init, StoreInit, PoolInit
  <1>2. \A v, t : \A st \in RowsSeen!ActiveStatus : RowsOf(v, t, st) = {}
    BY <1>1 DEF RowsOf, RowsSeen!ActiveStatus
  <1>3. RowCounts = [v \in Vehicles |-> [t \in RowsSeen!Types |->
                        [st \in RowsSeen!ActiveStatus |-> 0]]]
    BY <1>2, FS_EmptySet DEF RowCounts, RowsSeen!Types, RowsSeen!ActiveStatus
  <1>4. StaleCopies = {}
    BY <1>1 DEF StaleCopies, HoldsStaleCopy
  <1> QED
    BY <1>3, <1>4 DEF RowsSeen!RowsInit

\* The service does to the rows of a vehicle what the model of the scheduler assumes of
\* its environment, and nothing else: no row becomes active but by its INSERT or by a
\* worker with a copy from when it was queued, and none returns to the queue
\* (processQueue, UpdateStatus).
THEOREM ServiceImplementsActiveRows == Spec => ImplementsActiveRows
  <1>1. Init => RInv /\ RowsSeen!RowsInit
    BY InvHoldsInitially, RowsStart
       DEF RInv, HoldersSeeTwoStatuses, Holds, Init, PoolInit
  <1>2. RInv /\ [Next]_vars => RInv'
    BY InvIsInductive, StepsAreSorted, HoldersKeepTwoStatuses DEF RInv
  <1>3. RInv /\ [Next]_vars => [RowsSeen!RowsNext]_(RowsSeen!rowsVars)
    BY StepsAreSorted, SortedIsSeen DEF RInv, NothingSeen
  <1> QED
    BY <1>1, <1>2, <1>3, PTL DEF Spec, ImplementsActiveRows, RowsSeen!RowsSpec
================================================================================
