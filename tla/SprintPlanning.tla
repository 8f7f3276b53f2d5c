--------------------------- MODULE SprintPlanning ---------------------------
(***************************************************************************)
(* The sprints of one project and the tasks planned in them: one action    *)
(* per handler, run alone.  A row SprintTask of sprint s and task t is     *)
(* addressed by the two: item[s][t] is its status, "none" without a row,   *)
(* movedTo[s][t] its transferred_to.  Primary keys are given in ascending  *)
(* order and never again, so sprints are numbered.                         *)
(*                                                                         *)
(* Capacities, dates and the order within a sprint are left out.  Which of *)
(* the tasks are estimated and open is the business of the backlog: a      *)
(* request to add tasks names any of them.                                 *)
(***************************************************************************)
EXTENDS Naturals

CONSTANTS Tasks,      \* tasks of the project
          MaxSprint,  \* bound: sprints that are ever created
          Names,      \* names of sprints, equal up to case
          Blank,      \* no name: an empty cell of an import
          InFile      \* bound: tasks that imports have rows for

ASSUME SprintAssumption ==
    /\ MaxSprint \in Nat
    /\ Blank \notin Names
    /\ InFile \subseteq Tasks

Sprints == 1..MaxSprint
NoSprint == 0
Links == Sprints \cup {NoSprint}

SprintStatus == {"planning", "active", "completed"}
LinkStatus == {"planned", "transferred", "removed"}

VARIABLES
    status,    \* of each sprint: "none" before it exists, "deleted" after
    archived,  \* sprints with archived_at
    name,      \* name of each sprint
    item,      \* status of each row SprintTask
    movedTo    \* transferred_to of each row

sprintVars == <<status, archived, name>>
linkVars == <<item, movedTo>>
vars == <<sprintVars, linkVars>>

TypeOK ==
    /\ status \in [Sprints -> SprintStatus \cup {"none", "deleted"}]
    /\ archived \subseteq Sprints
    /\ name \in [Sprints -> Names \cup {Blank}]
    /\ item \in [Sprints -> [Tasks -> LinkStatus \cup {"none"}]]
    /\ movedTo \in [Sprints -> [Tasks -> Links]]

-----------------------------------------------------------------------------
Exists(s) == status[s] \in SprintStatus

\* The check of every handler that changes a plan.
Open(s) == status[s] \in {"planning", "active"} /\ s \notin archived

Closed(s) == Exists(s) /\ ~Open(s)

PlannedIn(t) == {s \in Sprints : item[s][t] = "planned"}

\* Mutant of Unplanned: only the open sprints are looked at.
UnplannedInOpen == {t \in Tasks : \A s \in PlannedIn(t) : ~Open(s)}

\* available_sprint_tasks, as far as the sprints decide.
Unplanned == {t \in Tasks : PlannedIn(t) = {}}

Named(n) == {s \in Sprints : Exists(s) /\ name[s] = n}

\* The next primary key.
Unused(s) ==
    /\ status[s] = "none"
    /\ \A r \in Sprints : status[r] = "none" => s <= r

\* The tasks T get a row planned in s (in none, if s is NoSprint).  Their rows
\* planned in the sprints Left say where they went.
Leaves(r, t, Left, s) == r \in Left \ {s} /\ item[r][t] = "planned"

\* Mutant of MovedItem: a row that is already there is left as it is.
ItemIfNew(T, Left, s) ==
    [r \in Sprints |-> [t \in Tasks |->
        IF t \in T /\ r = s /\ item[r][t] = "none" THEN "planned"
        ELSE IF t \in T /\ Leaves(r, t, Left, s)
             THEN IF s = NoSprint THEN "removed" ELSE "transferred"
             ELSE item[r][t]]]

MovedItem(T, Left, s) ==
    [r \in Sprints |-> [t \in Tasks |->
        IF t \in T /\ r = s THEN "planned"
        ELSE IF t \in T /\ Leaves(r, t, Left, s)
             THEN IF s = NoSprint THEN "removed" ELSE "transferred"
             ELSE item[r][t]]]

\* Mutant of MovedLink: the row in the new sprint keeps its old transferred_to.
KeptLink(T, Left, s) ==
    [r \in Sprints |-> [t \in Tasks |->
        IF t \in T /\ Leaves(r, t, Left, s) THEN s ELSE movedTo[r][t]]]

MovedLink(T, Left, s) ==
    [r \in Sprints |-> [t \in Tasks |->
        IF t \in T /\ r = s THEN NoSprint
        ELSE IF t \in T /\ Leaves(r, t, Left, s) THEN s ELSE movedTo[r][t]]]

MoveTasks(T, Left, s) ==
    /\ item' = MovedItem(T, Left, s)
    /\ movedTo' = MovedLink(T, Left, s)

-----------------------------------------------------------------------------
Insert(s, n) ==
    /\ Unused(s)
    /\ status' = [status EXCEPT ![s] = "planning"]
    /\ name' = [name EXCEPT ![s] = n]
    /\ UNCHANGED archived

SprintCreate(n) == \E s \in Sprints : Insert(s, n) /\ UNCHANGED linkVars

\* The copy is empty.  Its name is the old one with a suffix, cut to 160
\* characters: any name, even the old one.
SprintCopy(s, n) == Exists(s) /\ SprintCreate(n)

\* The rows of the sprint go with it, references to it become null.
SprintDelete(s) ==
    /\ Exists(s)
    /\ status' = [status EXCEPT ![s] = "deleted"]
    /\ archived' = archived \ {s}
    /\ name' = [name EXCEPT ![s] = Blank]
    /\ item' = [item EXCEPT ![s] = [t \in Tasks |-> "none"]]
    /\ movedTo' = [r \in Sprints |-> [t \in Tasks |->
          IF r = s \/ movedTo[r][t] = s THEN NoSprint ELSE movedTo[r][t]]]

SetStatus(s, to) ==
    /\ Exists(s)
    /\ status' = [status EXCEPT ![s] = to]
    /\ UNCHANGED <<archived, name, linkVars>>

\* Mutant of SprintSetStatus: archived sprints are not left alone.
SetAnyStatus(s, to) == SetStatus(s, to)

SprintSetStatus(s, to) == s \notin archived /\ SetStatus(s, to)

SetArchived(s, yes) ==
    /\ Exists(s)
    /\ archived' = IF yes THEN archived \cup {s} ELSE archived \ {s}
    /\ UNCHANGED <<status, name, linkVars>>

SprintArchive(s) ==
    status[s] = "completed" /\ s \notin archived /\ SetArchived(s, TRUE)

SprintRestore(s) == s \in archived /\ SetArchived(s, FALSE)

\* Mutant of AddTasks: the tasks are not looked up again under the lock.
AddTasksAsRead(s, T) ==
    /\ T # {} => Exists(s)
    /\ MoveTasks(T, {}, s)
    /\ UNCHANGED sprintVars

\* Under the lock on the project: only tasks planned nowhere are added, and
\* a row for a sprint that is gone is refused.
AddTasks(s, T) ==
    LET new == T \cap Unplanned
    IN  /\ new # {} => Exists(s)
        /\ MoveTasks(new, {}, s)
        /\ UNCHANGED sprintVars

SprintAddTasks(s, T) == Open(s) /\ AddTasks(s, T)

\* Mutants of CanRemove: no check of the sprint; no check of the row.
CanRemoveAnywhere(s, t) == item[s][t] = "planned"
CanRemoveAnyRow(s, t) == Open(s) /\ item[s][t] # "none"

CanRemove(s, t) == Open(s) /\ item[s][t] = "planned"

RemoveTask(s, t) ==
    /\ item' = [item EXCEPT ![s][t] = "none"]
    /\ movedTo' = [movedTo EXCEPT ![s][t] = NoSprint]
    /\ UNCHANGED sprintVars

SprintRemoveTask(s, t) == CanRemove(s, t) /\ RemoveTask(s, t)

CanTransfer(s, target) ==
    Exists(s) /\ s \notin archived /\ Open(target) /\ target # s

\* Under the lock on the project: of the requested tasks, those planned in s
\* and in no third sprint.
Transferable(s, target, T) ==
    {t \in T : s \in PlannedIn(t) /\ PlannedIn(t) \subseteq {s, target}}

TransferTasks(s, target, T) ==
    LET moved == Transferable(s, target, T)
    IN  /\ moved # {} => Exists(target)
        /\ MoveTasks(moved, {s}, target)
        /\ UNCHANGED sprintVars

SprintTransferTasks(s, target, T) ==
    CanTransfer(s, target) /\ TransferTasks(s, target, T)

-----------------------------------------------------------------------------
(***************************************************************************)
(* An import handles one row after the other under the lock on the         *)
(* project; a row that names its sprint ambiguously is skipped.  It may    *)
(* reach sprints of any status.                                            *)
(***************************************************************************)

\* Mutant of TargetOf: sprints in the archive are not found by their name.
TargetOutsideArchive(n, s) ==
    \/ n = Blank /\ s = NoSprint /\ UNCHANGED sprintVars
    \/ n # Blank /\ Named(n) \ archived = {s} /\ UNCHANGED sprintVars
    \/ n # Blank /\ Named(n) \subseteq archived /\ s # NoSprint /\ Insert(s, n)

\* The sprint that a row names, created if there is none.
TargetOf(n, s) ==
    \/ n = Blank /\ s = NoSprint /\ UNCHANGED sprintVars
    \/ n # Blank /\ Named(n) = {s} /\ UNCHANGED sprintVars
    \/ n # Blank /\ Named(n) = {} /\ s # NoSprint /\ Insert(s, n)

SprintImport(t, n) ==
    \E s \in Links : TargetOf(n, s) /\ MoveTasks({t}, Sprints, s)

TaskDelete(t) ==
    /\ item' = [s \in Sprints |-> [item[s] EXCEPT ![t] = "none"]]
    /\ movedTo' = [s \in Sprints |-> [movedTo[s] EXCEPT ![t] = NoSprint]]
    /\ UNCHANGED sprintVars

-----------------------------------------------------------------------------
\* A project without sprints.
Init ==
    /\ status = [s \in Sprints |-> "none"]
    /\ archived = {}
    /\ name = [s \in Sprints |-> Blank]
    /\ item = [s \in Sprints |-> [t \in Tasks |-> "none"]]
    /\ movedTo = [s \in Sprints |-> [t \in Tasks |-> NoSprint]]

Import == \E t \in InFile, n \in Names \cup {Blank} : SprintImport(t, n)

Next ==
    \/ \E n \in Names : SprintCreate(n)
    \/ \E s \in Sprints :
          \/ \E n \in Names : SprintCopy(s, n)
          \/ SprintDelete(s)
          \/ \E to \in SprintStatus : SprintSetStatus(s, to)
          \/ SprintArchive(s) \/ SprintRestore(s)
          \/ \E T \in SUBSET Tasks : SprintAddTasks(s, T)
          \/ \E t \in Tasks : SprintRemoveTask(s, t)
          \/ \E target \in Sprints, T \in SUBSET Tasks :
                SprintTransferTasks(s, target, T)
    \/ Import
    \/ \E t \in Tasks : TaskDelete(t)

Spec == Init /\ [][Next]_vars

-----------------------------------------------------------------------------
(***************************************************************************)
(* Properties.                                                             *)
(***************************************************************************)

\* A task is planned in one sprint at a time: adding (views.py:1926-1937),
\* transferring (2083-2102) and importing (sprint_import.py:260-275) keep it so.
OnePlannedSprint ==
    \A t \in Tasks, r, s \in Sprints :
        item[r][t] = "planned" /\ item[s][t] = "planned" => r = s

\* Only a row that was transferred says where to, and the sprint is there;
\* whoever follows the transfers of a task from sprint to sprint comes to an
\* end, also when tasks went back and forth (views.py:2092-2102: the rows are
\* reused): no set of sprints passes a task on within itself.
TransfersLeadOn ==
    /\ \A s \in Sprints, t \in Tasks :
          movedTo[s][t] # NoSprint =>
              item[s][t] = "transferred" /\ Exists(movedTo[s][t])
    /\ \A t \in Tasks, C \in SUBSET Sprints :
          (\A s \in C : movedTo[s][t] \in C) => C = {}

\* Only completed sprints are in the archive: "В архив можно переместить только
\* завершённый спринт." (views.py:1992); sprint_set_status leaves them alone.
ArchivedIsCompleted == \A s \in archived : status[s] = "completed"

\* The plan of a completed or archived sprint is not changed by hand (views.py:
\* 1918-1923, 1947-1952), except that tasks of a completed sprint may be
\* transferred on.  An import may change it (sprint_import.py:205).
ClosedPlanKept ==
    [][\A s \in Sprints, t \in Tasks :
          Closed(s) /\ item'[s][t] # item[s][t] =>
              \/ s \notin archived /\ item[s][t] = "planned"
                                  /\ item'[s][t] = "transferred"
              \/ t \in InFile /\ \E n \in Names \cup {Blank} : SprintImport(t, n)
              \/ SprintDelete(s)
              \/ TaskDelete(t)]_vars

\* A transfer stays on record: the row of the old sprint is there until the
\* task is planned in it again or the sprint or the task is deleted (test
\* test_transfer_preserves_source_history, tests/test_views.py:1640).
TransfersKept ==
    [][\A s \in Sprints, t \in Tasks :
          item[s][t] = "transferred" =>
              \/ item'[s][t] \in {"transferred", "planned"}
              \/ SprintDelete(s) \/ TaskDelete(t)]_vars

\* A planned task drops out of all plans only if it is taken out or its sprint
\* is deleted.  A transfer never loses it, although it writes two rows and the
\* row in the new sprint may be left from before (views.py:2092-2102).
TasksStayPlanned ==
    [][\A t \in Tasks :
          PlannedIn(t) # {} /\ PlannedIn(t)' = {} =>
              \/ \E s \in PlannedIn(t) : SprintDelete(s) \/ RemoveTask(s, t)
              \/ SprintImport(t, Blank)
              \/ TaskDelete(t)]_vars

\* The rows with t and n of a file are done: importing them changes nothing.
Settled(t, n) ==
    IF n = Blank
    THEN PlannedIn(t) = {}
    ELSE \E s \in Sprints : Named(n) = {s} /\ PlannedIn(t) = {s}

\* "Повторный импорт того же файла не создаёт дубликатов задач, спринтов или
\* назначений." (docs/user-guide.md:140): a row is settled once imported, the
\* other rows of the file keep it settled, and a settled row changes nothing.
ImportsConverge ==
    [][\A t \in InFile, n \in Names \cup {Blank} :
          /\ SprintImport(t, n) => Settled(t, n)'
          /\ SprintImport(t, n) /\ Settled(t, n) => UNCHANGED vars
          /\ \A u \in InFile \ {t}, m \in Names \cup {Blank} :
                Settled(t, n) /\ SprintImport(u, m) => Settled(t, n)']_vars

=============================================================================
