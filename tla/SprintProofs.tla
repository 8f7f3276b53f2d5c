---------------------------- MODULE SprintProofs ----------------------------
(***************************************************************************)
(* Theorems about the sprints of a project, for any tasks, sprints, names  *)
(* and workers.  The inductive invariant RowsInv is one of the rows alone: *)
(* every effect keeps it, whatever the handler has checked before.  It     *)
(* therefore holds of handlers that run alone and of requests that         *)
(* interleave.                                                             *)
(***************************************************************************)
EXTENDS SprintRequests, TLAPS

\* What the foreign keys ensure.
RowsOfSprints ==
    \A s \in Sprints, t \in Tasks : item[s][t] # "none" => Exists(s)

\* What the forms ensure.
NamesOfSprints == \A s \in Sprints : Exists(s) => name[s] \in Names

RowsInv ==
    /\ TypeOK
    /\ OnePlannedSprint
    /\ TransfersLeadOn
    /\ RowsOfSprints
    /\ NamesOfSprints

-----------------------------------------------------------------------------
\* A new or changed sprint leaves the rows of the tasks in order as long as no
\* sprint goes.
LEMMA SprintsChange ==
    ASSUME RowsInv, UNCHANGED linkVars,
           status' \in [Sprints -> SprintStatus \cup {"none", "deleted"}],
           archived' \subseteq Sprints,
           name' \in [Sprints -> Names \cup {Blank}],
           \A s \in Sprints : Exists(s) => Exists(s)',
           \A s \in Sprints : Exists(s)' => name'[s] \in Names
    PROVE  RowsInv'
<1>1. TypeOK'
  BY DEF RowsInv, TypeOK, linkVars
<1>2. OnePlannedSprint'
  BY DEF RowsInv, OnePlannedSprint, linkVars
<1>3. TransfersLeadOn'
  <2> USE DEF RowsInv, TransfersLeadOn, linkVars
  <2>1. ASSUME NEW s \in Sprints, NEW t \in Tasks, movedTo'[s][t] # NoSprint
        PROVE  item'[s][t] = "transferred" /\ Exists(movedTo[s][t])'
    <3>1. movedTo[s][t] \in Sprints /\ Exists(movedTo[s][t])
      BY <2>1 DEF TypeOK, Links
    <3> QED BY <2>1, <3>1 DEF Exists
  <2>2. ASSUME NEW t \in Tasks, NEW C \in SUBSET Sprints,
               \A s \in C : movedTo'[s][t] \in C
        PROVE  C = {}
    BY <2>2
  <2> QED BY <2>1, <2>2
<1>4. RowsOfSprints' /\ NamesOfSprints'
  BY DEF RowsInv, RowsOfSprints, NamesOfSprints, linkVars
<1> QED BY <1>1, <1>2, <1>3, <1>4 DEF RowsInv

\* What a move writes to each row.
MovedRows(T, Left, s) ==
    \A r \in Sprints, t \in Tasks :
        \/ /\ t \in T /\ r = s
           /\ item'[r][t] = "planned" /\ movedTo'[r][t] = NoSprint
        \/ /\ t \in T /\ Leaves(r, t, Left, s)
           /\ s = NoSprint => item'[r][t] = "removed"
           /\ s # NoSprint => item'[r][t] = "transferred"
           /\ movedTo'[r][t] = s
        \/ /\ ~(t \in T /\ r = s)
           /\ ~(t \in T /\ Leaves(r, t, Left, s))
           /\ item'[r][t] = item[r][t] /\ movedTo'[r][t] = movedTo[r][t]

LEMMA MoveRows ==
    ASSUME NEW T \in SUBSET Tasks, NEW Left \in SUBSET Sprints, NEW s \in Links,
           TypeOK, MoveTasks(T, Left, s)
    PROVE  /\ item' \in [Sprints -> [Tasks -> LinkStatus \cup {"none"}]]
           /\ movedTo' \in [Sprints -> [Tasks -> Links]]
           /\ MovedRows(T, Left, s)
<1>1. NoSprint \in Links
  BY DEF Links
<1>2. item' \in [Sprints -> [Tasks -> LinkStatus \cup {"none"}]]
  BY DEF MoveTasks, MovedItem, TypeOK, LinkStatus
<1>3. movedTo' \in [Sprints -> [Tasks -> Links]]
  BY <1>1 DEF MoveTasks, MovedLink, TypeOK
<1>4. ASSUME NEW r \in Sprints, NEW t \in Tasks
      PROVE  /\ item'[r][t] =
                  IF t \in T /\ r = s THEN "planned"
                  ELSE IF t \in T /\ Leaves(r, t, Left, s)
                       THEN IF s = NoSprint THEN "removed" ELSE "transferred"
                       ELSE item[r][t]
             /\ movedTo'[r][t] =
                  IF t \in T /\ r = s THEN NoSprint
                  ELSE IF t \in T /\ Leaves(r, t, Left, s) THEN s
                       ELSE movedTo[r][t]
  BY <1>4 DEF MoveTasks, MovedItem, MovedLink
<1> QED BY <1>2, <1>3, <1>4 DEF MovedRows

\* A move keeps the rows in order if every task it moves leaves all the sprints
\* it is planned in.
LEMMA MoveKeepsRows ==
    ASSUME NEW T \in SUBSET Tasks, NEW Left \in SUBSET Sprints, NEW s \in Links,
           RowsInv, MoveTasks(T, Left, s),
           \A t \in T : PlannedIn(t) \subseteq Left \cup {s},
           T = {} \/ s = NoSprint \/ Exists(s)',
           \A r \in Sprints : Exists(r) => Exists(r)'
    PROVE  OnePlannedSprint' /\ TransfersLeadOn' /\ RowsOfSprints'
<1> USE DEF RowsInv
<1>1. TypeOK
  OBVIOUS
<1>2. NoSprint \notin Sprints
  BY SprintAssumption DEF NoSprint, Sprints
<1> DEFINE Joins(r, t) == t \in T /\ r = s
           Goes(r, t) == t \in T /\ r # s /\ Leaves(r, t, Left, s)
<1>3. \A r \in Sprints, t \in Tasks :
        \/ Joins(r, t) /\ item'[r][t] = "planned" /\ movedTo'[r][t] = NoSprint
        \/ /\ Goes(r, t)
           /\ s = NoSprint => item'[r][t] = "removed"
           /\ s # NoSprint => item'[r][t] = "transferred"
           /\ movedTo'[r][t] = s
        \/ /\ ~Joins(r, t) /\ ~Goes(r, t)
           /\ item'[r][t] = item[r][t] /\ movedTo'[r][t] = movedTo[r][t]
  <2>1. MovedRows(T, Left, s)
    <3> HIDE DEF RowsInv
    <3> QED BY <1>1, MoveRows
  <2> QED BY <2>1 DEF MovedRows, Leaves
<1>4. ASSUME NEW r \in Sprints, NEW t \in Tasks, ~Joins(r, t), ~Goes(r, t),
             t \in T
      PROVE  item[r][t] # "planned"
  BY <1>4 DEF PlannedIn, Leaves
<1>5. OnePlannedSprint'
  <2> SUFFICES ASSUME NEW t \in Tasks, NEW q \in Sprints, NEW r \in Sprints,
                      item'[q][t] = "planned", item'[r][t] = "planned"
               PROVE  q = r
    BY DEF OnePlannedSprint
  <2>1. CASE t \in T
    BY <2>1, <1>3, <1>4
  <2>2. CASE t \notin T
    BY <2>2, <1>3 DEF OnePlannedSprint
  <2> QED BY <2>1, <2>2
<1>6. ASSUME NEW r \in Sprints, NEW t \in Tasks, movedTo'[r][t] # NoSprint
      PROVE  item'[r][t] = "transferred" /\ Exists(movedTo[r][t])'
  <2>1. CASE Goes(r, t)
    BY <2>1, <1>3, <1>6
  <2>2. CASE ~Goes(r, t)
    <3>1. item'[r][t] = item[r][t] /\ movedTo'[r][t] = movedTo[r][t]
      BY <2>2, <1>3, <1>6
    <3>2. movedTo[r][t] \in Sprints
      BY <3>1, <1>6 DEF TypeOK, Links
    <3>3. Exists(movedTo[r][t])
      BY <3>1, <1>6 DEF TransfersLeadOn
    <3> QED BY <3>1, <3>2, <3>3, <1>6 DEF TransfersLeadOn, Exists
  <2> QED BY <2>1, <2>2
<1>7. ASSUME NEW t \in Tasks, NEW C \in SUBSET Sprints,
             \A r \in C : movedTo'[r][t] \in C
      PROVE  C = {}
  <2>1. \A r \in C : ~Joins(r, t)
    BY <1>2, <1>3, <1>7
  <2>2. t \in T => s \notin C
    BY <2>1
  <2>3. \A r \in C : ~Goes(r, t)
    BY <2>2, <1>3, <1>7
  <2>4. \A r \in C : movedTo[r][t] \in C
    BY <2>1, <2>3, <1>3, <1>7
  <2> QED BY <2>4 DEF TransfersLeadOn
<1>8. TransfersLeadOn'
  BY <1>6, <1>7 DEF TransfersLeadOn
<1>9. RowsOfSprints'
  <2> SUFFICES ASSUME NEW r \in Sprints, NEW t \in Tasks, item'[r][t] # "none"
               PROVE  Exists(r)'
    BY DEF RowsOfSprints
  <2>1. CASE Joins(r, t)
    BY <2>1, <1>2
  <2>2. CASE ~Joins(r, t)
    <3>1. item[r][t] # "none"
      BY <2>2, <1>3 DEF Leaves
    <3> QED BY <3>1 DEF RowsOfSprints
  <2> QED BY <2>1, <2>2
<1> QED BY <1>5, <1>8, <1>9

-----------------------------------------------------------------------------
(***************************************************************************)
(* The effects.                                                            *)
(***************************************************************************)

LEMMA NoSprintIsNone == NoSprint \notin Sprints /\ NoSprint \in Links
BY SprintAssumption DEF NoSprint, Sprints, Links

LEMMA InsertKeepsSprints ==
    ASSUME NEW s \in Sprints, NEW n \in Names, TypeOK, NamesOfSprints,
           Insert(s, n)
    PROVE  /\ status' \in [Sprints -> SprintStatus \cup {"none", "deleted"}]
           /\ archived' \subseteq Sprints
           /\ name' \in [Sprints -> Names \cup {Blank}]
           /\ \A r \in Sprints : Exists(r) => Exists(r)'
           /\ \A r \in Sprints : Exists(r)' => name'[r] \in Names
           /\ Exists(s)'
BY DEF TypeOK, NamesOfSprints, Insert, Unused, Exists, SprintStatus

LEMMA CreateKeepsRows ==
    ASSUME NEW n \in Names, RowsInv, SprintCreate(n)
    PROVE  RowsInv'
<1>1. PICK s \in Sprints : Insert(s, n) /\ UNCHANGED linkVars
  BY DEF SprintCreate
<1> QED BY <1>1, InsertKeepsSprints, SprintsChange DEF RowsInv

LEMMA SetStatusKeepsRows ==
    ASSUME NEW s \in Sprints, NEW to \in SprintStatus, RowsInv, SetStatus(s, to)
    PROVE  RowsInv'
<1>1. /\ UNCHANGED linkVars
      /\ status' \in [Sprints -> SprintStatus \cup {"none", "deleted"}]
      /\ archived' \subseteq Sprints
      /\ name' \in [Sprints -> Names \cup {Blank}]
      /\ \A r \in Sprints : Exists(r) => Exists(r)'
      /\ \A r \in Sprints : Exists(r)' => name'[r] \in Names
  BY DEF RowsInv, TypeOK, NamesOfSprints, SetStatus, Exists
<1> QED BY <1>1, SprintsChange

LEMMA SetArchivedKeepsRows ==
    ASSUME NEW s \in Sprints, NEW yes \in BOOLEAN, RowsInv, SetArchived(s, yes)
    PROVE  RowsInv'
<1>1. /\ UNCHANGED linkVars
      /\ status' \in [Sprints -> SprintStatus \cup {"none", "deleted"}]
      /\ archived' \subseteq Sprints
      /\ name' \in [Sprints -> Names \cup {Blank}]
      /\ \A r \in Sprints : Exists(r) => Exists(r)'
      /\ \A r \in Sprints : Exists(r)' => name'[r] \in Names
  BY DEF RowsInv, TypeOK, NamesOfSprints, SetArchived, Exists
<1> QED BY <1>1, SprintsChange

LEMMA SaveKeepsRows ==
    ASSUME NEW s \in Sprints, NEW st \in OpenStatus, NEW n \in Names, RowsInv,
           SaveSprint(s, st, n)
    PROVE  RowsInv'
<1>1. /\ UNCHANGED linkVars
      /\ status' \in [Sprints -> SprintStatus \cup {"none", "deleted"}]
      /\ archived' \subseteq Sprints
      /\ name' \in [Sprints -> Names \cup {Blank}]
      /\ \A r \in Sprints : Exists(r) => Exists(r)'
      /\ \A r \in Sprints : Exists(r)' => name'[r] \in Names
  BY DEF RowsInv, TypeOK, NamesOfSprints, SaveSprint, Exists, OpenStatus,
         SprintStatus
<1> QED BY <1>1, SprintsChange

LEMMA AddKeepsRows ==
    ASSUME NEW s \in Sprints, NEW T \in SUBSET Tasks, RowsInv, AddTasks(s, T)
    PROVE  RowsInv'
<1> DEFINE new == T \cap Unplanned
<1>1. /\ new # {} => Exists(s)
      /\ MoveTasks(new, {}, s)
      /\ UNCHANGED sprintVars
  BY DEF AddTasks
<1>2. new \in SUBSET Tasks /\ s \in Links /\ TypeOK
  BY DEF Links, RowsInv
<1>3. \A t \in new : PlannedIn(t) \subseteq {} \cup {s}
  BY DEF Unplanned
<1>4. \A r \in Sprints : Exists(r)' <=> Exists(r)
  BY <1>1 DEF sprintVars, Exists
<1> HIDE DEF new
<1>5. OnePlannedSprint' /\ TransfersLeadOn' /\ RowsOfSprints'
  BY <1>1, <1>2, <1>3, <1>4, MoveKeepsRows
<1>6. TypeOK'
  BY <1>1, <1>2, MoveRows DEF TypeOK, sprintVars
<1>7. NamesOfSprints'
  BY <1>1 DEF RowsInv, NamesOfSprints, sprintVars, Exists
<1> QED BY <1>5, <1>6, <1>7 DEF RowsInv

LEMMA TransferKeepsRows ==
    ASSUME NEW s \in Sprints, NEW target \in Sprints, NEW T \in SUBSET Tasks,
           RowsInv, TransferTasks(s, target, T)
    PROVE  RowsInv'
<1> DEFINE moved == Transferable(s, target, T)
<1>1. /\ moved # {} => Exists(target)
      /\ MoveTasks(moved, {s}, target)
      /\ UNCHANGED sprintVars
  BY DEF TransferTasks
<1>2. moved \in SUBSET Tasks /\ target \in Links /\ TypeOK
  BY DEF Links, RowsInv, Transferable
<1>3. \A t \in moved : PlannedIn(t) \subseteq {s} \cup {target}
  BY DEF Transferable
<1>4. \A r \in Sprints : Exists(r)' <=> Exists(r)
  BY <1>1 DEF sprintVars, Exists
<1> HIDE DEF moved
<1>5. OnePlannedSprint' /\ TransfersLeadOn' /\ RowsOfSprints'
  BY <1>1, <1>2, <1>3, <1>4, MoveKeepsRows
<1>6. TypeOK'
  BY <1>1, <1>2, MoveRows DEF TypeOK, sprintVars
<1>7. NamesOfSprints'
  BY <1>1 DEF RowsInv, NamesOfSprints, sprintVars, Exists
<1> QED BY <1>5, <1>6, <1>7 DEF RowsInv

LEMMA ImportKeepsRows ==
    ASSUME NEW t \in Tasks, NEW n \in Names \cup {Blank}, RowsInv,
           SprintImport(t, n)
    PROVE  RowsInv'
<1>1. PICK s \in Links : TargetOf(n, s) /\ MoveTasks({t}, Sprints, s)
  BY DEF SprintImport
<1>2. TypeOK /\ NamesOfSprints /\ {t} \in SUBSET Tasks /\ Sprints \in SUBSET Sprints
  BY DEF RowsInv
<1>3. /\ status' \in [Sprints -> SprintStatus \cup {"none", "deleted"}]
      /\ archived' \subseteq Sprints
      /\ name' \in [Sprints -> Names \cup {Blank}]
      /\ \A r \in Sprints : Exists(r) => Exists(r)'
      /\ \A r \in Sprints : Exists(r)' => name'[r] \in Names
      /\ s = NoSprint \/ Exists(s)'
  <2>1. CASE UNCHANGED sprintVars /\ (s = NoSprint \/ Named(n) = {s})
    BY <2>1, <1>2 DEF sprintVars, TypeOK, NamesOfSprints, Exists, Named
  <2>2. CASE n # Blank /\ s # NoSprint /\ Insert(s, n)
    <3>1. s \in Sprints /\ n \in Names
      BY <2>2 DEF Links
    <3> QED BY <2>2, <3>1, <1>2, InsertKeepsSprints
  <2> QED BY <1>1, <2>1, <2>2 DEF TargetOf
<1>4. \A u \in {t} : PlannedIn(u) \subseteq Sprints \cup {s}
  BY DEF PlannedIn
<1>5. OnePlannedSprint' /\ TransfersLeadOn' /\ RowsOfSprints'
  BY <1>1, <1>2, <1>3, <1>4, MoveKeepsRows
<1>6. TypeOK'
  BY <1>1, <1>2, <1>3, MoveRows DEF TypeOK
<1>7. NamesOfSprints'
  BY <1>3 DEF NamesOfSprints
<1> QED BY <1>5, <1>6, <1>7 DEF RowsInv

\* Rows that go take what they refer to with them; nothing else changes.
LEMMA RowsGoKeepsRows ==
    ASSUME RowsInv, TypeOK', NamesOfSprints',
           \A r \in Sprints, t \in Tasks :
              \/ item'[r][t] = "none" /\ movedTo'[r][t] = NoSprint
              \/ /\ item'[r][t] = item[r][t]
                 /\ Exists(r) => Exists(r)'
                 /\ \/ movedTo'[r][t] = NoSprint
                    \/ /\ movedTo'[r][t] = movedTo[r][t]
                       /\ Exists(movedTo[r][t]) => status'[movedTo[r][t]] \in SprintStatus
    PROVE  RowsInv'
<1> USE DEF RowsInv
<1>1. OnePlannedSprint'
  BY DEF OnePlannedSprint
<1>2. ASSUME NEW r \in Sprints, NEW t \in Tasks, movedTo'[r][t] # NoSprint
      PROVE  item'[r][t] = "transferred" /\ Exists(movedTo[r][t])'
             /\ movedTo'[r][t] = movedTo[r][t]
  BY <1>2 DEF TransfersLeadOn, Exists
<1>3. ASSUME NEW t \in Tasks, NEW C \in SUBSET Sprints,
             \A r \in C : movedTo'[r][t] \in C
      PROVE  C = {}
  <2>1. \A r \in C : movedTo[r][t] \in C
    BY <1>2, <1>3, NoSprintIsNone
  <2> QED BY <2>1 DEF TransfersLeadOn
<1>4. TransfersLeadOn'
  BY <1>2, <1>3 DEF TransfersLeadOn, Exists
<1>5. RowsOfSprints'
  BY DEF RowsOfSprints
<1> QED BY <1>1, <1>4, <1>5

LEMMA DeleteKeepsRows ==
    ASSUME NEW s \in Sprints, RowsInv, SprintDelete(s)
    PROVE  RowsInv'
<1>1. TypeOK /\ NamesOfSprints
  BY DEF RowsInv
<1>2. TypeOK'
  BY <1>1, NoSprintIsNone DEF TypeOK, SprintDelete
<1>3. NamesOfSprints'
  BY <1>1 DEF TypeOK, NamesOfSprints, SprintDelete, Exists, SprintStatus
<1>4. \A r \in Sprints \ {s} : status'[r] = status[r]
  BY <1>1 DEF TypeOK, SprintDelete
<1>5. ASSUME NEW r \in Sprints, NEW t \in Tasks
      PROVE  \/ item'[r][t] = "none" /\ movedTo'[r][t] = NoSprint
             \/ /\ item'[r][t] = item[r][t]
                /\ Exists(r) => Exists(r)'
                /\ \/ movedTo'[r][t] = NoSprint
                   \/ /\ movedTo'[r][t] = movedTo[r][t]
                      /\ Exists(movedTo[r][t]) =>
                            status'[movedTo[r][t]] \in SprintStatus
  <2>1. movedTo'[r][t] =
          IF r = s \/ movedTo[r][t] = s THEN NoSprint ELSE movedTo[r][t]
    BY DEF SprintDelete
  <2>2. item'[r][t] = IF r = s THEN "none" ELSE item[r][t]
    BY <1>1 DEF TypeOK, SprintDelete
  <2>3. movedTo[r][t] \in Links
    BY <1>1 DEF TypeOK
  <2> QED BY <2>1, <2>2, <2>3, <1>4 DEF Exists, Links
<1> QED BY <1>2, <1>3, <1>5, RowsGoKeepsRows

LEMMA RemoveKeepsRows ==
    ASSUME NEW s \in Sprints, NEW t \in Tasks, RowsInv, RemoveTask(s, t)
    PROVE  RowsInv'
<1>1. TypeOK /\ NamesOfSprints
  BY DEF RowsInv
<1>2. TypeOK'
  BY <1>1, NoSprintIsNone DEF TypeOK, RemoveTask, sprintVars
<1>3. NamesOfSprints'
  BY <1>1 DEF NamesOfSprints, RemoveTask, Exists, sprintVars
<1>4. ASSUME NEW r \in Sprints, NEW u \in Tasks
      PROVE  \/ item'[r][u] = "none" /\ movedTo'[r][u] = NoSprint
             \/ /\ item'[r][u] = item[r][u]
                /\ Exists(r) => Exists(r)'
                /\ movedTo'[r][u] = movedTo[r][u]
  BY <1>1 DEF TypeOK, RemoveTask, sprintVars, Exists
<1>5. UNCHANGED status
  BY DEF RemoveTask, sprintVars
<1> QED BY <1>2, <1>3, <1>4, <1>5, RowsGoKeepsRows DEF Exists

LEMMA TaskDeleteKeepsRows ==
    ASSUME NEW t \in Tasks, RowsInv, TaskDelete(t)
    PROVE  RowsInv'
<1>1. TypeOK /\ NamesOfSprints
  BY DEF RowsInv
<1>2. TypeOK'
  BY <1>1, NoSprintIsNone DEF TypeOK, TaskDelete, sprintVars
<1>3. NamesOfSprints'
  BY <1>1 DEF NamesOfSprints, TaskDelete, Exists, sprintVars
<1>4. ASSUME NEW r \in Sprints, NEW u \in Tasks
      PROVE  \/ item'[r][u] = "none" /\ movedTo'[r][u] = NoSprint
             \/ /\ item'[r][u] = item[r][u]
                /\ Exists(r) => Exists(r)'
                /\ movedTo'[r][u] = movedTo[r][u]
  BY <1>1 DEF TypeOK, TaskDelete, sprintVars, Exists
<1>5. UNCHANGED status
  BY DEF TaskDelete, sprintVars
<1> QED BY <1>2, <1>3, <1>4, <1>5, RowsGoKeepsRows DEF Exists

LEMMA InitRows ==
    ASSUME Init
    PROVE  RowsInv
<1>1. TypeOK
  BY NoSprintIsNone DEF Init, TypeOK
<1>2. OnePlannedSprint /\ RowsOfSprints /\ NamesOfSprints
  BY DEF Init, OnePlannedSprint, RowsOfSprints, NamesOfSprints, Exists,
         SprintStatus
<1>3. \A s \in Sprints, t \in Tasks : movedTo[s][t] = NoSprint
  BY DEF Init
<1>4. TransfersLeadOn
  BY <1>3, NoSprintIsNone DEF TransfersLeadOn
<1> QED BY <1>1, <1>2, <1>4 DEF RowsInv

LEMMA StutterKeepsRows ==
    ASSUME RowsInv, UNCHANGED vars
    PROVE  RowsInv'
BY DEF RowsInv, TypeOK, OnePlannedSprint, TransfersLeadOn, RowsOfSprints,
       NamesOfSprints, Exists, vars, sprintVars, linkVars

-----------------------------------------------------------------------------
(***************************************************************************)
(* Handlers that run alone.                                                *)
(***************************************************************************)

LEMMA NextKeepsRows ==
    ASSUME RowsInv, Next
    PROVE  RowsInv'
<1>1. CASE \E n \in Names : SprintCreate(n)
  BY <1>1, CreateKeepsRows
<1>2. CASE \E s \in Sprints, n \in Names : SprintCopy(s, n)
  BY <1>2, CreateKeepsRows DEF SprintCopy
<1>3. CASE \E s \in Sprints : SprintDelete(s)
  BY <1>3, DeleteKeepsRows
<1>4. CASE \E s \in Sprints, to \in SprintStatus : SprintSetStatus(s, to)
  BY <1>4, SetStatusKeepsRows DEF SprintSetStatus
<1>5. CASE \E s \in Sprints : SprintArchive(s) \/ SprintRestore(s)
  BY <1>5, SetArchivedKeepsRows DEF SprintArchive, SprintRestore
<1>6. CASE \E s \in Sprints, T \in SUBSET Tasks : SprintAddTasks(s, T)
  BY <1>6, AddKeepsRows DEF SprintAddTasks
<1>7. CASE \E s \in Sprints, t \in Tasks : SprintRemoveTask(s, t)
  BY <1>7, RemoveKeepsRows DEF SprintRemoveTask
<1>8. CASE \E s, target \in Sprints, T \in SUBSET Tasks :
              SprintTransferTasks(s, target, T)
  BY <1>8, TransferKeepsRows DEF SprintTransferTasks
<1>9. CASE Import
  BY <1>9, ImportKeepsRows, SprintAssumption DEF Import
<1>10. CASE \E t \in Tasks : TaskDelete(t)
  BY <1>10, TaskDeleteKeepsRows
<1> QED BY <1>1, <1>2, <1>3, <1>4, <1>5, <1>6, <1>7, <1>8, <1>9, <1>10 DEF Next

\* When handlers run alone, rows stay well typed and in order.
THEOREM SprintsInOrder == Spec => []RowsInv
<1>1. Init => RowsInv
  BY InitRows
<1>2. RowsInv /\ [Next]_vars => RowsInv'
  BY NextKeepsRows, StutterKeepsRows
<1> QED BY <1>1, <1>2, PTL DEF Spec

\* The archive holds completed sprints only, while handlers run alone
\* (sprint_set_status and sprint_archive check each other's field).
THEOREM ArchivedAlwaysCompleted == Spec => []ArchivedIsCompleted
<1>1. Init => ArchivedIsCompleted
  BY DEF Init, ArchivedIsCompleted
<1>2. ASSUME TypeOK, ArchivedIsCompleted, [Next]_vars
      PROVE  ArchivedIsCompleted'
  <2> USE DEF ArchivedIsCompleted, TypeOK
  <2>1. ASSUME NEW n \in Names, NEW s \in Sprints, Insert(s, n)
        PROVE  ArchivedIsCompleted'
    BY <2>1, <1>2 DEF Insert, Unused
  <2>2. CASE \E n \in Names : SprintCreate(n)
    BY <2>2, <2>1 DEF SprintCreate
  <2>3. CASE \E s \in Sprints, n \in Names : SprintCopy(s, n)
    BY <2>3, <2>1 DEF SprintCopy, SprintCreate
  <2>4. CASE \E s \in Sprints : SprintDelete(s)
    BY <2>4, <1>2 DEF SprintDelete
  <2>5. CASE \E s \in Sprints, to \in SprintStatus : SprintSetStatus(s, to)
    BY <2>5, <1>2 DEF SprintSetStatus, SetStatus
  <2>6. CASE \E s \in Sprints : SprintArchive(s) \/ SprintRestore(s)
    BY <2>6, <1>2 DEF SprintArchive, SprintRestore, SetArchived
  <2>7. CASE UNCHANGED sprintVars
    BY <2>7, <1>2 DEF sprintVars
  <2>8. CASE Import
    <3>1. PICK t \in InFile, n \in Names \cup {Blank}, s \in Links : TargetOf(n, s)
      BY <2>8 DEF Import, SprintImport
    <3>2. CASE n # Blank /\ s # NoSprint /\ Insert(s, n)
      BY <3>2, <2>1 DEF Links
    <3> QED BY <3>1, <3>2, <2>7 DEF TargetOf
  <2> QED BY <2>2, <2>3, <2>4, <2>5, <2>6, <2>7, <2>8, <1>2
          DEF Next, vars, SprintAddTasks, AddTasks, SprintRemoveTask, RemoveTask,
              SprintTransferTasks, TransferTasks, TaskDelete
<1>3. RowsInv => TypeOK
  BY DEF RowsInv
<1> QED BY <1>1, <1>2, <1>3, SprintsInOrder, PTL DEF Spec

-----------------------------------------------------------------------------
(***************************************************************************)
(* Requests that interleave.                                               *)
(***************************************************************************)

Pending == request \in [Workers -> Requests \cup {Idle}]

LEMMA EffectKeepsRows ==
    ASSUME NEW r \in Requests, RowsInv, Effect(r)
    PROVE  RowsInv'
<1> USE DEF Requests
<1>1. CASE r.op = "add" /\ AddTasks(r.s, r.tasks)
  <2>1. r.s \in Sprints /\ r.tasks \in SUBSET Tasks
    BY <1>1
  <2> QED BY <1>1, <2>1, AddKeepsRows
<1>2. CASE r.op = "remove" /\ RemoveTask(r.s, r.t)
  <2>1. r.s \in Sprints /\ r.t \in Tasks
    BY <1>2
  <2> QED BY <1>2, <2>1, RemoveKeepsRows
<1>3. CASE r.op = "set_status" /\ SetStatus(r.s, r.to)
  <2>1. r.s \in Sprints /\ r.to \in SprintStatus
    BY <1>3
  <2> QED BY <1>3, <2>1, SetStatusKeepsRows
<1>4. CASE \/ r.op = "archive" /\ SetArchived(r.s, TRUE)
           \/ r.op = "restore" /\ SetArchived(r.s, FALSE)
  <2>1. r.s \in Sprints
    BY <1>4
  <2> QED BY <1>4, <2>1, SetArchivedKeepsRows
<1>5. CASE r.op = "transfer" /\ TransferTasks(r.s, r.target, r.tasks)
  <2>1. r.s \in Sprints /\ r.target \in Sprints /\ r.tasks \in SUBSET Tasks
    BY <1>5
  <2> QED BY <1>5, <2>1, TransferKeepsRows
<1>6. CASE r.op = "capacity" /\ SaveSprint(r.s, r.status, r.name)
  <2>1. r.s \in Sprints /\ r.status \in OpenStatus /\ r.name \in Names
    BY <1>6
  <2> QED BY <1>6, <2>1, SaveKeepsRows
<1> QED BY <1>1, <1>2, <1>3, <1>4, <1>5, <1>6 DEF Effect

LEMMA ReadKeepsPending ==
    ASSUME NEW w \in Workers, RowsInv, Pending, Read(w)
    PROVE  Pending' /\ UNCHANGED vars
<1> USE DEF Begin, Pending
<1>1. ASSUME NEW r \in Requests, Begin(w, r)
      PROVE  Pending' /\ UNCHANGED vars
  BY <1>1
<1>2. CASE \E s \in Sprints, T \in SUBSET Tasks : ReadAdd(w, s, T)
  BY <1>2, <1>1 DEF ReadAdd, Requests
<1>3. CASE \E s, target \in Sprints, T \in SUBSET Tasks : ReadTransfer(w, s, target, T)
  BY <1>3, <1>1 DEF ReadTransfer, Requests
<1>4. CASE \E s \in Sprints, t \in Tasks : ReadRemove(w, s, t)
  BY <1>4, <1>1 DEF ReadRemove, Requests
<1>5. CASE \E s \in Sprints, to \in SprintStatus : ReadSetStatus(w, s, to)
  BY <1>5, <1>1 DEF ReadSetStatus, Requests
<1>6. CASE \E s \in Sprints : ReadArchive(w, s) \/ ReadRestore(w, s)
  BY <1>6, <1>1 DEF ReadArchive, ReadRestore, Requests
<1>7. CASE \E s \in Sprints : ReadCapacity(w, s)
  <2>1. PICK s \in Sprints : ReadCapacity(w, s)
    BY <1>7
  <2>2. status[s] \in OpenStatus /\ name[s] \in Names
    BY <2>1 DEF ReadCapacity, Open, OpenStatus, RowsInv, NamesOfSprints, Exists,
                SprintStatus
  <2>3. [op |-> "capacity", s |-> s, status |-> status[s], name |-> name[s]]
          \in Requests
    BY <2>2 DEF Requests
  <2> QED BY <2>1, <2>3, <1>1 DEF ReadCapacity
<1> QED BY <1>2, <1>3, <1>4, <1>5, <1>6, <1>7 DEF Read

LEMMA RequestsNextKeepsRows ==
    ASSUME RowsInv, Pending, [RequestsNext]_allVars
    PROVE  RowsInv' /\ Pending'
<1>1. CASE AtOnce
  <2>1. Pending'
    BY <1>1 DEF AtOnce, Pending, Kept
  <2> SUFFICES RowsInv'
    BY <2>1
  <2>2. CASE \E n \in Names : SprintCreate(n)
    BY <2>2, CreateKeepsRows
  <2>3. CASE \E n \in Names, s \in Sprints : SprintCopy(s, n)
    BY <2>3, CreateKeepsRows DEF SprintCopy
  <2>4. CASE \E s \in Sprints : SprintDelete(s)
    BY <2>4, DeleteKeepsRows
  <2>5. CASE Import
    BY <2>5, ImportKeepsRows, SprintAssumption DEF Import
  <2> QED BY <1>1, <2>2, <2>3, <2>4, <2>5 DEF AtOnce
<1>2. ASSUME NEW w \in Workers, Read(w)
      PROVE  RowsInv' /\ Pending'
  BY <1>2, ReadKeepsPending, StutterKeepsRows
<1>3. ASSUME NEW w \in Workers, Write(w)
      PROVE  RowsInv' /\ Pending'
  <2>1. request[w] \in Requests /\ Effect(request[w])
    BY <1>3 DEF Write, Pending
  <2>2. Pending'
    BY <1>3 DEF Write, Pending, Kept
  <2> QED BY <2>1, <2>2, EffectKeepsRows
<1>4. ASSUME NEW w \in Workers, Fail(w)
      PROVE  RowsInv' /\ Pending'
  BY <1>4, StutterKeepsRows DEF Fail, Pending
<1>5. CASE UNCHANGED allVars
  BY <1>5, StutterKeepsRows DEF allVars, Pending
<1> QED BY <1>1, <1>2, <1>3, <1>4, <1>5 DEF RequestsNext

\* However requests interleave, the rows stay in order.
THEOREM SprintRequestsInOrder == RequestsSpec => [](RowsInv /\ Pending)
<1>1. RequestsInit => RowsInv /\ Pending
  BY InitRows DEF RequestsInit, Pending
<1>2. RowsInv /\ Pending /\ [RequestsNext]_allVars => (RowsInv /\ Pending)'
  BY RequestsNextKeepsRows
<1> QED BY <1>1, <1>2, PTL DEF RequestsSpec

\* Rows and remembered reads keep their types.
THEOREM SprintRequestsTypeCorrect == RequestsSpec => []RequestsTypeOK
<1>1. RowsInv /\ Pending => RequestsTypeOK
  BY DEF RowsInv, Pending, RequestsTypeOK
<1> QED BY <1>1, SprintRequestsInOrder, PTL

\* However requests interleave, a task is planned in one sprint at a time.
THEOREM PlannedInOneSprint == RequestsSpec => []OnePlannedSprint
<1>1. RowsInv /\ Pending => OnePlannedSprint
  BY DEF RowsInv
<1> QED BY <1>1, SprintRequestsInOrder, PTL

\* However requests interleave, transfers lead to existing sprints and never
\* in a circle.
THEOREM TransfersAlwaysLeadOn == RequestsSpec => []TransfersLeadOn
<1>1. RowsInv /\ Pending => TransfersLeadOn
  BY DEF RowsInv
<1> QED BY <1>1, SprintRequestsInOrder, PTL

-----------------------------------------------------------------------------
(***************************************************************************)
(* What a step may do.                                                     *)
(***************************************************************************)

\* A move changes the rows of its tasks only, in the sprints they leave and
\* in the one they join.
LEMMA MoveChanges ==
    ASSUME NEW T \in SUBSET Tasks, NEW Left \in SUBSET Sprints, NEW s \in Links,
           TypeOK, MoveTasks(T, Left, s), NEW r \in Sprints, NEW t \in Tasks
    PROVE  /\ t \in T /\ r = s => item'[r][t] = "planned"
           /\ t \notin T => item'[r][t] = item[r][t]
           /\ item'[r][t] # item[r][t] =>
                 r = s \/ (r \in Left /\ item[r][t] = "planned")
           /\ item'[r][t] # item[r][t] /\ r # s =>
                 item'[r][t] = (IF s = NoSprint THEN "removed" ELSE "transferred")
<1>1. MovedRows(T, Left, s)
  BY MoveRows
<1> QED BY <1>1 DEF MovedRows, Leaves

LEMMA MoveStaysPlanned ==
    ASSUME NEW T \in SUBSET Tasks, NEW Left \in SUBSET Sprints, NEW s \in Sprints,
           TypeOK, MoveTasks(T, Left, s), NEW t \in Tasks, PlannedIn(t) # {}
    PROVE  PlannedIn(t)' # {}
<1>1. s \in Links
  BY DEF Links
<1>2. CASE t \in T
  BY <1>1, <1>2, MoveChanges DEF PlannedIn
<1>3. CASE t \notin T
  <2>1. \A r \in Sprints : item'[r][t] = item[r][t]
    BY <1>1, <1>3, MoveChanges
  <2> QED BY <2>1 DEF PlannedIn
<1> QED BY <1>2, <1>3

DroppedOut(t) ==
    \/ \E s \in PlannedIn(t) : SprintDelete(s) \/ RemoveTask(s, t)
    \/ SprintImport(t, Blank)
    \/ TaskDelete(t)

LEMMA ImportDrops ==
    ASSUME NEW u \in Tasks, NEW n \in Names \cup {Blank}, TypeOK,
           SprintImport(u, n),
           NEW t \in Tasks, PlannedIn(t) # {}, PlannedIn(t)' = {}
    PROVE  SprintImport(t, Blank)
<1>1. PICK s \in Links : TargetOf(n, s) /\ MoveTasks({u}, Sprints, s)
  BY DEF SprintImport
<1>2. s \notin Sprints
  BY <1>1, MoveStaysPlanned
<1>3. s = NoSprint
  BY <1>2 DEF Links
<1>4. n = Blank
  BY <1>1, <1>2, <1>3 DEF TargetOf, Named
<1>5. t = u
  <2> SUFFICES ASSUME t # u
               PROVE  FALSE
    OBVIOUS
  <2>1. {u} \in SUBSET Tasks /\ Sprints \in SUBSET Sprints /\ t \notin {u}
    OBVIOUS
  <2>2. \A r \in Sprints : item'[r][t] = item[r][t]
    BY <2>1, <1>1, MoveChanges, ZenonT(30)
  <2> QED BY <2>2 DEF PlannedIn
<1> QED BY <1>4, <1>5

LEMMA DeleteDrops ==
    ASSUME NEW s \in Sprints, TypeOK, SprintDelete(s),
           NEW t \in Tasks, PlannedIn(t) # {}, PlannedIn(t)' = {}
    PROVE  s \in PlannedIn(t)
<1>1. \A r \in Sprints \ {s} : item'[r] = item[r]
  BY DEF SprintDelete, TypeOK
<1> QED BY <1>1 DEF PlannedIn

LEMMA RemoveDrops ==
    ASSUME NEW s \in Sprints, NEW u \in Tasks, TypeOK, RemoveTask(s, u),
           NEW t \in Tasks, PlannedIn(t) # {}, PlannedIn(t)' = {}
    PROVE  s \in PlannedIn(t) /\ t = u
<1>1. \A r \in Sprints : ~(r = s /\ t = u) => item'[r][t] = item[r][t]
  BY DEF RemoveTask, TypeOK
<1> QED BY <1>1 DEF PlannedIn

LEMMA EffectStaysPlanned ==
    ASSUME NEW r \in Requests, TypeOK, Effect(r),
           NEW t \in Tasks, PlannedIn(t) # {}, PlannedIn(t)' = {}
    PROVE  DroppedOut(t)
<1> USE DEF Requests
<1>1. CASE r.op = "add" /\ AddTasks(r.s, r.tasks)
  <2>1. r.s \in Sprints /\ r.tasks \cap Unplanned \in SUBSET Tasks
    BY <1>1 DEF Unplanned
  <2> QED BY <1>1, <2>1, MoveStaysPlanned DEF AddTasks
<1>2. CASE r.op = "remove" /\ RemoveTask(r.s, r.t)
  <2>1. r.s \in Sprints /\ r.t \in Tasks
    BY <1>2
  <2> QED BY <1>2, <2>1, RemoveDrops DEF DroppedOut
<1>3. CASE r.op = "transfer" /\ TransferTasks(r.s, r.target, r.tasks)
  <2>1. /\ r.s \in Sprints /\ {r.s} \in SUBSET Sprints /\ r.target \in Sprints
        /\ Transferable(r.s, r.target, r.tasks) \in SUBSET Tasks
    BY <1>3 DEF Transferable
  <2> QED BY <1>3, <2>1, MoveStaysPlanned DEF TransferTasks
<1>4. CASE UNCHANGED linkVars
  BY <1>4 DEF linkVars, PlannedIn
<1> QED BY <1>1, <1>2, <1>3, <1>4 DEF Effect, SetStatus, SetArchived, SaveSprint

\* However requests interleave, a planned task drops out of all plans only when
\* it is taken out, its sprint is deleted or an import says so: a transfer
\* does not lose it.
THEOREM PlannedTasksStayPlanned == RequestsSpec => TasksStayPlanned
<1>1. ASSUME TypeOK, Pending, RequestsNext,
             NEW t \in Tasks, PlannedIn(t) # {}, PlannedIn(t)' = {}
      PROVE  DroppedOut(t)
  <2>1. CASE UNCHANGED linkVars
    BY <2>1, <1>1 DEF linkVars, PlannedIn
  <2>2. CASE AtOnce
    <3>1. CASE \E s \in Sprints : SprintDelete(s)
      BY <3>1, <1>1, DeleteDrops DEF DroppedOut
    <3>2. CASE Import
      BY <3>2, <1>1, ImportDrops, SprintAssumption DEF Import, DroppedOut
    <3> QED BY <2>1, <2>2, <3>1, <3>2 DEF AtOnce, SprintCreate, SprintCopy
  <2>3. ASSUME NEW w \in Workers, Write(w)
        PROVE  DroppedOut(t)
    BY <2>3, <1>1, EffectStaysPlanned DEF Write, Pending
  <2>4. ASSUME NEW w \in Workers, Read(w) \/ Fail(w)
        PROVE  UNCHANGED linkVars
    BY <2>4 DEF Read, Fail, vars, ReadAdd, ReadRemove, ReadSetStatus,
                ReadArchive, ReadRestore, ReadTransfer, ReadCapacity, Begin
  <2> QED BY <2>1, <2>2, <2>3, <2>4, <1>1 DEF RequestsNext
<1>2. RowsInv /\ Pending /\ [RequestsNext]_allVars =>
        [\A t \in Tasks :
            PlannedIn(t) # {} /\ PlannedIn(t)' = {} => DroppedOut(t)]_vars
  BY <1>1 DEF RowsInv, allVars
<1>3. RowsInv /\ Pending /\ [RequestsNext]_allVars =>
        [\A t \in Tasks :
            PlannedIn(t) # {} /\ PlannedIn(t)' = {} =>
              \/ \E s \in PlannedIn(t) : SprintDelete(s) \/ RemoveTask(s, t)
              \/ SprintImport(t, Blank)
              \/ TaskDelete(t)]_vars
  BY <1>2 DEF DroppedOut
<1> QED BY <1>3, SprintRequestsInOrder, PTL DEF RequestsSpec, TasksStayPlanned

\* How the row of s and t may change when handlers run alone.
RowStep(s, t) ==
    \/ item'[s][t] = item[s][t]
    \/ Open(s) /\ item[s][t] # "planned" /\ item'[s][t] = "planned"
    \/ Open(s) /\ item[s][t] = "planned" /\ item'[s][t] = "none"
    \/ /\ s \notin archived
       /\ item[s][t] = "planned" /\ item'[s][t] = "transferred"
    \/ /\ t \in InFile /\ \E n \in Names \cup {Blank} : SprintImport(t, n)
       /\ item'[s][t] = "planned" \/ item[s][t] = "planned"
    \/ SprintDelete(s)
    \/ TaskDelete(t)

LEMMA NextRowStep ==
    ASSUME TypeOK, Next, NEW s \in Sprints, NEW t \in Tasks
    PROVE  RowStep(s, t)
<1> USE DEF RowStep
<1>1. CASE UNCHANGED linkVars
  BY <1>1 DEF linkVars
<1>2. ASSUME NEW r \in Sprints, SprintDelete(r)
      PROVE  RowStep(s, t)
  <2>1. r # s => item'[s] = item[s]
    BY <1>2 DEF SprintDelete, TypeOK
  <2> QED BY <1>2, <2>1
<1>3. ASSUME NEW r \in Sprints, NEW T \in SUBSET Tasks, SprintAddTasks(r, T)
      PROVE  RowStep(s, t)
  <2>1. /\ Open(r) /\ r \in Links
        /\ T \cap Unplanned \in SUBSET Tasks /\ {} \in SUBSET Sprints
        /\ MoveTasks(T \cap Unplanned, {}, r)
    BY <1>3 DEF SprintAddTasks, AddTasks, Links
  <2>2. /\ t \in T \cap Unplanned /\ s = r => item'[s][t] = "planned"
        /\ t \notin T \cap Unplanned => item'[s][t] = item[s][t]
        /\ item'[s][t] # item[s][t] => s = r
    BY <2>1, MoveChanges
  <2> QED BY <2>1, <2>2
<1>4. ASSUME NEW r \in Sprints, NEW u \in Tasks, SprintRemoveTask(r, u)
      PROVE  RowStep(s, t)
  <2>1. item'[s][t] = IF s = r /\ t = u THEN "none" ELSE item[s][t]
    BY <1>4 DEF SprintRemoveTask, RemoveTask, TypeOK
  <2> QED BY <1>4, <2>1 DEF SprintRemoveTask, CanRemove
<1>5. ASSUME NEW r \in Sprints, NEW target \in Sprints, NEW T \in SUBSET Tasks,
             SprintTransferTasks(r, target, T)
      PROVE  RowStep(s, t)
  <2> DEFINE moved == Transferable(r, target, T)
  <2>1. /\ r \notin archived /\ Open(target)
        /\ target \in Links /\ target # NoSprint
        /\ moved \in SUBSET Tasks /\ {r} \in SUBSET Sprints
        /\ MoveTasks(moved, {r}, target)
    BY <1>5, NoSprintIsNone DEF SprintTransferTasks, CanTransfer, TransferTasks,
                                Links, Transferable
  <2> HIDE DEF moved
  <2>2. /\ t \in moved /\ s = target => item'[s][t] = "planned"
        /\ t \notin moved => item'[s][t] = item[s][t]
        /\ item'[s][t] # item[s][t] =>
              s = target \/ (s \in {r} /\ item[s][t] = "planned")
        /\ item'[s][t] # item[s][t] /\ s # target => item'[s][t] = "transferred"
    BY <2>1, MoveChanges
  <2> QED BY <2>1, <2>2
<1>6. ASSUME NEW u \in InFile, NEW n \in Names \cup {Blank}, SprintImport(u, n)
      PROVE  RowStep(s, t)
  <2>1. PICK r \in Links : MoveTasks({u}, Sprints, r)
    BY <1>6 DEF SprintImport
  <2>2. u \in Tasks /\ {u} \in SUBSET Tasks /\ Sprints \in SUBSET Sprints
    BY SprintAssumption
  <2> DEFINE T == {u}
  <2>3. T \in SUBSET Tasks /\ MoveTasks(T, Sprints, r)
    BY <2>1, <2>2
  <2> HIDE DEF T
  <2>4. /\ t \in T /\ s = r => item'[s][t] = "planned"
        /\ t \notin T => item'[s][t] = item[s][t]
        /\ item'[s][t] # item[s][t] =>
              s = r \/ (s \in Sprints /\ item[s][t] = "planned")
    BY <2>2, <2>3, MoveChanges
  <2> USE DEF T
  <2> QED BY <1>6, <2>4
<1>7. ASSUME NEW u \in Tasks, TaskDelete(u)
      PROVE  RowStep(s, t)
  <2>1. u # t => item'[s][t] = item[s][t]
    BY <1>7 DEF TaskDelete, TypeOK
  <2> QED BY <1>7, <2>1
<1>8. CASE Import
  BY <1>6, <1>8 DEF Import
<1> HIDE DEF RowStep
<1> QED BY <1>1, <1>2, <1>3, <1>4, <1>5, <1>7, <1>8
        DEF Next, SprintCreate, SprintCopy, SprintSetStatus, SetStatus,
            SprintArchive, SprintRestore, SetArchived

\* While handlers run alone, the plan of a closed sprint is not changed by
\* hand, except by transferring its tasks on.
THEOREM ClosedPlansKept == Spec => ClosedPlanKept
<1>1. RowsInv /\ [Next]_vars =>
        [\A s \in Sprints, t \in Tasks :
            Closed(s) /\ item'[s][t] # item[s][t] =>
              \/ s \notin archived /\ item[s][t] = "planned"
                                  /\ item'[s][t] = "transferred"
              \/ t \in InFile /\ \E n \in Names \cup {Blank} : SprintImport(t, n)
              \/ SprintDelete(s)
              \/ TaskDelete(t)]_vars
  BY NextRowStep DEF RowsInv, RowStep, Closed
<1> QED BY <1>1, SprintsInOrder, PTL DEF Spec, ClosedPlanKept

\* While handlers run alone, the record of a transfer stays.
THEOREM TransfersStayOnRecord == Spec => TransfersKept
<1>1. RowsInv /\ [Next]_vars =>
        [\A s \in Sprints, t \in Tasks :
            item[s][t] = "transferred" =>
              \/ item'[s][t] \in {"transferred", "planned"}
              \/ SprintDelete(s) \/ TaskDelete(t)]_vars
  BY NextRowStep DEF RowsInv, RowStep
<1> QED BY <1>1, SprintsInOrder, PTL DEF Spec, TransfersKept

-----------------------------------------------------------------------------
(***************************************************************************)
(* Imports.                                                                *)
(***************************************************************************)

\* An import plans its task in the sprint it names and nowhere else.
LEMMA ImportPlans ==
    ASSUME NEW t \in Tasks, NEW s \in Links, TypeOK, MoveTasks({t}, Sprints, s)
    PROVE  /\ \A u \in Tasks \ {t} : PlannedIn(u)' = PlannedIn(u)
           /\ s = NoSprint => PlannedIn(t)' = {}
           /\ s # NoSprint => PlannedIn(t)' = {s}
<1> DEFINE T == {t}
<1>1. T \in SUBSET Tasks /\ MoveTasks(T, Sprints, s) /\ Sprints \in SUBSET Sprints
  OBVIOUS
<1> HIDE DEF T
<1>2. MovedRows(T, Sprints, s)
  BY <1>1, MoveRows
<1> USE DEF T
<1>3. \A u \in Tasks \ {t}, r \in Sprints : item'[r][u] = item[r][u]
  BY <1>2 DEF MovedRows
<1>4. \A r \in Sprints : item'[r][t] = "planned" <=> r = s
  BY <1>2 DEF MovedRows, Leaves
<1> QED BY <1>3, <1>4, NoSprintIsNone DEF PlannedIn, Links

\* Which sprints bear a name after a row was imported.
LEMMA ImportNames ==
    ASSUME NEW n \in Names \cup {Blank}, NEW s \in Links, TypeOK, TargetOf(n, s)
    PROVE  /\ n = Blank => s = NoSprint
           /\ n # Blank => s \in Sprints /\ Named(n)' = {s}
           /\ \A m : m # n /\ Named(m) # {} => Named(m)' = Named(m)
<1>1. CASE UNCHANGED sprintVars
  <2>1. \A m : Named(m)' = Named(m)
    BY <1>1 DEF sprintVars, Named, Exists
  <2>2. /\ n = Blank => s = NoSprint
        /\ n # Blank => Named(n) = {s} \/ (s \in Sprints /\ Insert(s, n))
    BY DEF TargetOf, Links
  <2>3. s \in Sprints => ~Insert(s, n)
    BY <1>1 DEF Insert, Unused, sprintVars, TypeOK
  <2>4. Named(n) = {s} => s \in Sprints
    BY DEF Named
  <2> QED BY <2>1, <2>2, <2>3, <2>4
<1>2. CASE n # Blank /\ Named(n) = {} /\ s # NoSprint /\ Insert(s, n)
  <2>1. s \in Sprints
    BY <1>2 DEF Links
  <2>2. \A r \in Sprints \ {s} : status'[r] = status[r] /\ name'[r] = name[r]
    BY <1>2 DEF Insert, TypeOK
  <2>3. /\ ~Exists(s) /\ status'[s] = "planning" /\ name'[s] = n
        /\ "planning" \in SprintStatus
    BY <1>2, <2>1 DEF Insert, Unused, TypeOK, Exists, SprintStatus
  <2>4. Named(n)' = {s}
    BY <1>2, <2>1, <2>2, <2>3 DEF Named, Exists
  <2>5. \A m : m # n => Named(m)' = Named(m)
    BY <2>1, <2>2, <2>3 DEF Named, Exists
  <2> QED BY <1>2, <2>1, <2>4, <2>5
<1> QED BY <1>1, <1>2 DEF TargetOf

LEMMA ImportSettles ==
    ASSUME NEW t \in Tasks, NEW n \in Names \cup {Blank}, TypeOK,
           SprintImport(t, n)
    PROVE  Settled(t, n)'
<1>1. PICK s \in Links : TargetOf(n, s) /\ MoveTasks({t}, Sprints, s)
  BY DEF SprintImport
<1>2. /\ s = NoSprint => PlannedIn(t)' = {}
      /\ s # NoSprint => PlannedIn(t)' = {s}
  BY <1>1, ImportPlans
<1>3. /\ n = Blank => s = NoSprint
      /\ n # Blank => s \in Sprints /\ Named(n)' = {s}
  BY <1>1, ImportNames
<1> QED BY <1>2, <1>3, NoSprintIsNone DEF Settled

LEMMA SettledIsFixed ==
    ASSUME NEW t \in Tasks, NEW n \in Names \cup {Blank}, RowsInv,
           SprintImport(t, n), Settled(t, n)
    PROVE  UNCHANGED vars
<1>1. PICK s \in Links : TargetOf(n, s) /\ MoveTasks({t}, Sprints, s)
  BY DEF SprintImport
<1>2. TypeOK
  BY DEF RowsInv
<1>3. /\ UNCHANGED sprintVars
      /\ s = NoSprint => PlannedIn(t) = {}
      /\ s # NoSprint => PlannedIn(t) = {s}
  BY <1>1, NoSprintIsNone DEF TargetOf, Settled, Named
<1>4. \A r \in Sprints : item[r][t] = "planned" <=> r = s
  BY <1>3, NoSprintIsNone DEF PlannedIn, Links
<1>5. /\ item' \in [Sprints -> [Tasks -> LinkStatus \cup {"none"}]]
      /\ movedTo' \in [Sprints -> [Tasks -> Links]]
      /\ MovedRows({t}, Sprints, s)
  <2> DEFINE T == {t}
  <2>1. T \in SUBSET Tasks /\ MoveTasks(T, Sprints, s) /\ Sprints \in SUBSET Sprints
    BY <1>1
  <2> HIDE DEF T
  <2>2. /\ item' \in [Sprints -> [Tasks -> LinkStatus \cup {"none"}]]
        /\ movedTo' \in [Sprints -> [Tasks -> Links]]
        /\ MovedRows(T, Sprints, s)
    BY <1>2, <2>1, MoveRows
  <2> QED BY <2>2 DEF T
<1>6. ASSUME NEW r \in Sprints, NEW u \in Tasks
      PROVE  item'[r][u] = item[r][u] /\ movedTo'[r][u] = movedTo[r][u]
  <2>1. item[r][u] = "planned" => movedTo[r][u] = NoSprint
    BY DEF RowsInv, TransfersLeadOn
  <2> QED BY <2>1, <1>4, <1>5 DEF MovedRows, Leaves
<1>7. item' = item /\ movedTo' = movedTo
  BY <1>2, <1>5, <1>6 DEF TypeOK
<1> QED BY <1>3, <1>7 DEF vars, linkVars

LEMMA OtherRowsKeepSettled ==
    ASSUME NEW t \in Tasks, NEW n \in Names \cup {Blank}, TypeOK, Settled(t, n),
           NEW u \in Tasks \ {t}, NEW m \in Names \cup {Blank},
           SprintImport(u, m)
    PROVE  Settled(t, n)'
<1>1. PICK s \in Links : TargetOf(m, s) /\ MoveTasks({u}, Sprints, s)
  BY DEF SprintImport
<1>2. PlannedIn(t)' = PlannedIn(t)
  BY <1>1, ImportPlans
<1>3. n # Blank => Named(n)' = Named(n)
  <2>1. Named(n) # {} /\ m # n => Named(n)' = Named(n)
    BY <1>1, ImportNames
  <2>2. n # Blank => Named(n) # {}
    BY DEF Settled
  <2>3. n # Blank /\ m = n => UNCHANGED sprintVars
    BY <1>1, <2>2 DEF TargetOf
  <2>4. UNCHANGED sprintVars => Named(n)' = Named(n)
    BY DEF sprintVars, Named, Exists
  <2> QED BY <2>1, <2>2, <2>3, <2>4
<1> QED BY <1>2, <1>3 DEF Settled

\* A row is settled once it is imported, importing it again changes nothing,
\* and other rows keep it settled: a file may be imported again.
THEOREM ImportsAlwaysConverge == Spec => ImportsConverge
<1>1. RowsInv /\ [Next]_vars =>
        [\A t \in InFile, n \in Names \cup {Blank} :
            /\ SprintImport(t, n) => Settled(t, n)'
            /\ SprintImport(t, n) /\ Settled(t, n) => UNCHANGED vars
            /\ \A u \in InFile \ {t}, m \in Names \cup {Blank} :
                  Settled(t, n) /\ SprintImport(u, m) => Settled(t, n)']_vars
  <2> SUFFICES ASSUME RowsInv, NEW t \in InFile, NEW n \in Names \cup {Blank}
               PROVE  /\ SprintImport(t, n) => Settled(t, n)'
                      /\ SprintImport(t, n) /\ Settled(t, n) => UNCHANGED vars
                      /\ \A u \in InFile \ {t}, m \in Names \cup {Blank} :
                            Settled(t, n) /\ SprintImport(u, m) => Settled(t, n)'
    OBVIOUS
  <2>1. TypeOK /\ t \in Tasks /\ InFile \subseteq Tasks
    BY SprintAssumption DEF RowsInv
  <2> QED BY <2>1, ImportSettles, SettledIsFixed, OtherRowsKeepSettled
<1> QED BY <1>1, SprintsInOrder, PTL DEF Spec, ImportsConverge

=============================================================================
