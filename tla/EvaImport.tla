----------------------------- MODULE EvaImport -----------------------------
(***************************************************************************)
(* The backlog of a project under imports from EVA.  A file is read as a   *)
(* whole and may be rejected as a whole (FileValid).  Its rows are then    *)
(* saved one after the other in one transaction, under a lock on the       *)
(* project that keeps other imports out.  What other requests do in the    *)
(* meantime, like opening a round, is seen by the rows that are left: the  *)
(* unit that is atomic is the row.  SaveFile is the whole, for the         *)
(* properties about files.                                                 *)
(*                                                                         *)
(* Descriptions, quotas and the values of estimates are left out, and the  *)
(* sprints are in SprintPlanning: here a task is planned or not.           *)
(***************************************************************************)
EXTENDS EvaReadiness, SequencesExt

CONSTANTS Rows,         \* bound: rows that files have
          ByHand,       \* bound: tasks that anything but an import changes
          Columns,      \* bound: sets of optional columns that files have
          UnknownTypes  \* bound: tasks with rows of a type that nobody knows

\* A row as the parser leaves it.  sprint is its cell: empty, one name, or
\* several, which nobody can decide between.
FileRow == [number : Numbers,
            eva : Identifiers,
            kind : Kinds,
            title : Titles,
            parent : Titles \cup {NoTitle},
            project : Titles \cup {NoTitle},
            epic : Titles \cup {NoTitle},
            evaStatus : EvaStatus,
            closedType : BOOLEAN,  \* the cached type of the status is a closed one
            estimate : {"blank", "zero", "hours", "invalid"},
            sprint : {"", "one", "many"}]

\* The columns that a file may lack.
OptionalColumns == {"parent", "project", "epic", "status", "sprints"}

ASSUME ImportAssumption ==
    /\ Rows \subseteq FileRow
    /\ ByHand \subseteq Numbers
    /\ Columns \subseteq SUBSET OptionalColumns
    /\ UnknownTypes \subseteq Numbers

VARIABLES
    task,     \* the backlog: number -> row or NoRow
    voting,   \* tasks with a round that is open or shown
    skipped,  \* tasks whose last row in a file was not applied
    unread    \* tasks whose last row in a file had a type nobody knows

importVars == <<task, voting, skipped, unread>>

ImportTypeOK ==
    /\ task \in [Numbers -> TaskRow \cup {NoRow}]
    /\ voting \subseteq Existing(task)
    /\ skipped \subseteq Existing(task)
    /\ unread \subseteq Existing(task)

-----------------------------------------------------------------------------
\* Mutant of OtherIdentifier: the tasks of the project are not searched.
OtherIdentifierOfTask(db, r) ==
    db[r.number] # NoRow /\ db[r.number].eva \notin {NoIdentifier, r.eva}

\* The two conflicts about identifiers: the task has another one, or another
\* task has this one.
OtherIdentifier(db, r) ==
    \/ db[r.number] # NoRow /\ db[r.number].eva \notin {NoIdentifier, r.eva}
    \/ \E n \in Existing(db) \ {r.number} : db[n].eva = r.eva

\* V are the tasks with an open round.
Skip(db, V, cols, r) ==
    \/ r.estimate = "invalid"
    \/ OtherIdentifier(db, r)
    \/ r.number \in V
    \/ "sprints" \in cols /\ r.sprint = "many"

\* mark_readiness_stale
MarkStale(db, n) ==
    IF db[n] = NoRow THEN db ELSE [db EXCEPT ![n].stale = TRUE]

\* The values of a new row.
NewTask(n) ==
    [eva |-> NoIdentifier, kind |-> "free", title |-> NoTitle, parent |-> NoTitle,
     project |-> NoTitle, epic |-> NoTitle, evaStatus |-> "", stale |-> FALSE,
     completed |-> FALSE, blocked |-> FALSE, imported |-> FALSE, voted |-> FALSE,
     status |-> "unestimated", planned |-> FALSE]

Old(db, n) == IF db[n] = NoRow THEN NewTask(n) ELSE db[n]

\* Mutant of Estimated: a blank cell takes the estimate back, like a zero.
EstimatedByBlank(t, estimate) ==
    [t EXCEPT !.imported = estimate = "hours",
              !.voted = @ /\ estimate = "hours",
              !.status = IF estimate = "hours" THEN "estimated" ELSE "unestimated"]

\* Zero takes the estimate back, a blank cell leaves it as it is.
Estimated(t, estimate) ==
    [t EXCEPT !.imported = IF estimate = "blank" THEN @ ELSE estimate = "hours",
              !.voted = @ /\ estimate # "zero",
              !.status = IF estimate = "hours" THEN "estimated"
                         ELSE IF estimate = "blank" /\ HasEstimate(t) THEN @
                         ELSE "unestimated"]

\* The status or its cached type is one of the CLOSED_STATUSES.
ClosedInEva(r) == r.evaStatus \in {"done", "cancelled"} \/ r.closedType

Applied(db, cols, r) ==
    LET t == Estimated(Old(db, r.number), r.estimate)
        hasStatus == "status" \in cols /\ r.evaStatus # ""
    IN [t EXCEPT
          !.eva = r.eva, !.kind = r.kind, !.title = r.title,
          !.parent = IF "parent" \in cols THEN r.parent ELSE @,
          !.project = IF "project" \in cols THEN r.project ELSE @,
          !.epic = IF "epic" \in cols THEN r.epic ELSE @,
          !.evaStatus = IF "status" \in cols THEN r.evaStatus ELSE @,
          !.stale = @ /\ ~hasStatus,
          !.completed = IF hasStatus THEN ClosedInEva(r) ELSE @,
          !.blocked = IF hasStatus THEN ClosedInEva(r) ELSE t.completed,
          !.planned = IF "sprints" \in cols THEN r.sprint = "one" ELSE @]

\* _parse_sprint_file rejects a file that says two things of one task, or gives
\* one identifier to two.
FileValid(file) ==
    \A i, j \in DOMAIN file :
        file[i].number = file[j].number \/ file[i].eva = file[j].eva
            => file[i] = file[j]

\* Mutant of SaveRow: a row with an unusable estimate leaves no mark.
SaveRowUnmarked(db, V, cols, r) ==
    IF r.estimate = "invalid" THEN db
    ELSE IF Skip(db, V, cols, r) THEN MarkStale(db, r.number)
    ELSE [db EXCEPT ![r.number] = Applied(db, cols, r)]

\* One turn of the loop of save_sprint_import.
SaveRow(db, V, cols, r) ==
    IF Skip(db, V, cols, r) THEN MarkStale(db, r.number)
    ELSE [db EXCEPT ![r.number] = Applied(db, cols, r)]

WantsEstimate(t) == ~HasEstimate(t) /\ ~t.completed /\ ~t.planned

\* The rows of a file from the first to the last, with the numbers of those that
\* are applied and, in tasks, those that want an estimate.
SaveNext(saved, V, cols, r) ==
    LET db == SaveRow(saved.db, V, cols, r)
    IN IF Skip(saved.db, V, cols, r) THEN [saved EXCEPT !.db = db]
       ELSE [db |-> db,
             applied |-> saved.applied \cup {r.number},
             tasks |-> saved.tasks
                           \cup (IF WantsEstimate(db[r.number]) THEN {r.number} ELSE {})]

SaveFile(db, V, cols, file) ==
    LET saved[i \in 0 .. Len(file)] ==
            IF i = 0 THEN [db |-> db, applied |-> {}, tasks |-> {}]
            ELSE SaveNext(saved[i - 1], V, cols, file[i])
    IN saved[Len(file)]

\* Mutant of Queued: the analysis is looked at before the file is saved.
QueuedAtOnce(db, saved) == {n \in saved.tasks : Allowed(db, saved.db[n])}

\* SavedPlanningImport.tasks in the end: readiness is looked at when all rows of
\* a file for the backlog db are saved.
Queued(db, saved) == {n \in saved.tasks : Allowed(saved.db, saved.db[n])}

-----------------------------------------------------------------------------
ImportRow(cols, r) ==
    /\ task' = SaveRow(task, voting, cols, r)
    /\ skipped' = IF Skip(task, voting, cols, r)
                  THEN skipped \cup ({r.number} \cap Existing(task))
                  ELSE skipped \ {r.number}
    /\ unread' = unread \ {r.number}
    /\ UNCHANGED voting

\* A row of unknown type ends in the parser.
ImportUnknown(n) ==
    /\ n \in UnknownTypes
    /\ unread' = unread \cup ({n} \cap Existing(task))
    /\ UNCHANGED <<task, voting, skipped>>

\* task_import: a list of numbers and titles, typed in.
TaskImport(n, kind, title) ==
    /\ task' = [task EXCEPT ![n] = [Old(task, n) EXCEPT !.kind = kind, !.title = title]]
    /\ UNCHANGED <<voting, skipped, unread>>

TaskCompetencyUpdate(n, kind) ==
    /\ task[n] # NoRow
    /\ task' = [task EXCEPT ![n].kind = kind]
    /\ UNCHANGED <<voting, skipped, unread>>

\* task_complete and task_reopen
TaskComplete(n, completed) ==
    /\ task[n] # NoRow
    /\ task' = [task EXCEPT ![n].completed = completed]
    /\ UNCHANGED <<voting, skipped, unread>>

\* Mutant of BacklogDelete: the rounds of the task stay.
BacklogDeleteOnly(n) ==
    /\ task[n] # NoRow
    /\ task' = [task EXCEPT ![n] = NoRow]
    /\ skipped' = skipped \ {n}
    /\ unread' = unread \ {n}
    /\ UNCHANGED voting

BacklogDelete(n) ==
    /\ task[n] # NoRow
    /\ task' = [task EXCEPT ![n] = NoRow]
    /\ voting' = voting \ {n}
    /\ skipped' = skipped \ {n}
    /\ unread' = unread \ {n}

\* What the rooms of the project do to a task: open a round, accept its result
\* (Task.capture_estimate), or take it away with the room.
RoundOpened(n) ==
    /\ task[n] # NoRow
    /\ voting' = voting \cup {n}
    /\ UNCHANGED <<task, skipped, unread>>

\* Mutant of RoundAccepted: the status of the task is left as it is.
AcceptedWithoutStatus(n) ==
    /\ n \in voting
    /\ voting' = voting \ {n}
    /\ task' = [task EXCEPT ![n].voted = TRUE, ![n].imported = FALSE]
    /\ UNCHANGED <<skipped, unread>>

RoundAccepted(n) ==
    /\ n \in voting
    /\ voting' = voting \ {n}
    /\ task' = [task EXCEPT ![n].voted = TRUE, ![n].imported = FALSE,
                            ![n].status = "estimated"]
    /\ UNCHANGED <<skipped, unread>>

RoundDeleted(n) ==
    /\ n \in voting
    /\ voting' = voting \ {n}
    /\ UNCHANGED <<task, skipped, unread>>

\* available_sprint_tasks
AvailableSprintTasks ==
    {n \in Existing(task) : /\ task[n].status = "estimated" /\ HasEstimate(task[n])
                            /\ ~task[n].completed /\ ~task[n].blocked /\ ~task[n].planned}

TaskPlanned(n) ==
    /\ n \in AvailableSprintTasks
    /\ task' = [task EXCEPT ![n].planned = TRUE]
    /\ UNCHANGED <<voting, skipped, unread>>

TaskUnplanned(n) ==
    /\ task[n] # NoRow /\ task[n].planned
    /\ task' = [task EXCEPT ![n].planned = FALSE]
    /\ UNCHANGED <<voting, skipped, unread>>

-----------------------------------------------------------------------------
ImportInit ==
    /\ task = [n \in Numbers |-> NoRow]
    /\ voting = {} /\ skipped = {} /\ unread = {}

EvaFile ==
    \/ \E cols \in Columns, r \in Rows : ImportRow(cols, r)
    \/ \E n \in Numbers : ImportUnknown(n)

Backlog ==
    \E n \in ByHand :
        \/ \E kind \in Kinds, title \in Titles : TaskImport(n, kind, title)
        \/ \E kind \in Kinds : TaskCompetencyUpdate(n, kind)
        \/ \E completed \in BOOLEAN : TaskComplete(n, completed)
        \/ BacklogDelete(n)
        \/ TaskPlanned(n) \/ TaskUnplanned(n)

Rooms ==
    \E n \in ByHand : RoundOpened(n) \/ RoundAccepted(n) \/ RoundDeleted(n)

ImportNext == EvaFile \/ Backlog \/ Rooms

ImportSpec == ImportInit /\ [][ImportNext]_importVars

-----------------------------------------------------------------------------
\* No two tasks of a project have the same identifier in EVA.  No constraint of
\* the database says so: it is the lock on the project, under which the import
\* looks at all its tasks.
IdentifiersUnique ==
    \A m, n \in Existing(task) :
        task[m].eva = task[n].eva => m = n \/ task[m].eva = NoIdentifier

\* A task is marked as estimated exactly when it has an estimate, whoever gave
\* or took it: the queue goes by both.  (unestimated_tasks)
StatusMatchesEstimate ==
    \A n \in Existing(task) :
        task[n].status = "estimated" <=> HasEstimate(task[n])

\* An import takes an estimate away only with a zero, never with a blank cell:
\* the votes may not have reached EVA yet.  Nothing else but deletion does.
EstimateKeptStep ==
    \A n \in Existing(task) :
        HasEstimate(task[n]) /\ task'[n] # NoRow /\ ~HasEstimate(task'[n])
            => \E cols \in Columns, r \in Rows :
                   /\ r.number = n /\ r.estimate = "zero"
                   /\ ImportRow(cols, r)

EstimateKept == [][EstimateKeptStep]_importVars

\* The analysis that tells of the readiness of t: same name, and no project or
\* epic that speaks against it.
AnalysisOf(db, t) ==
    {n \in Group(db, RelationshipKey(t)) :
        /\ db[n].kind = "analysis"
        /\ db[n].project \in {t.project, NoTitle} \/ t.project = NoTitle
        /\ db[n].epic \in {t.epic, NoTitle} \/ t.epic = NoTitle}

\* A task that waits for analysis is ready only when there is some for it, all
\* of it is done and up to date, and all of it is known to be of the same
\* project and epic: a missing one joins nothing.  (EvaReadiness.check)
ReadyIsAnalysed ==
    \A n \in Existing(task) :
        LET t == task[n]
            analysis == AnalysisOf(task, t)
        IN t.eva # NoIdentifier /\ t.kind = "gated" /\ Allowed(task, t) =>
               /\ analysis # {}
               /\ \A a \in analysis : /\ task[a].evaStatus \in DoneStatuses /\ ~task[a].stale
                                      /\ SameScope(task[a], t)

\* A task is not ready as long as what the last file said of it, or of its
\* analysis, was not applied.  (mark_readiness_stale)
ReadyWithout(S) ==
    \A n \in Existing(task) :
        LET t == task[n]
        IN t.eva # NoIdentifier /\ t.kind = "gated" /\ Allowed(task, t) =>
               S \cap ({n} \cup AnalysisOf(task, t)) = {}

SkippedBlocksReadiness == ReadyWithout(skipped)

\* The same, when the last row of the task had a type that is not known:
\* "skips of the import block readiness until a successful import".
UnreadBlocksReadiness == ReadyWithout(unread)

\* Files of two rows, in one order each.
Files == {file \in {SetToSeq(P) : P \in kSubset(2, Rows)} : FileValid(file)}

\* A file leaves the same backlog and queues the same tasks in whatever order
\* its rows are, changes nothing when it is imported again, and queues exactly
\* those of its applied tasks that a new session could take as well.
\* (save_sprint_import: "export order is irrelevant"; estimation_tasks)
FilesSettle ==
    \A cols \in Columns, file \in Files :
        LET saved == SaveFile(task, voting, cols, file)
            turned == SaveFile(task, voting, cols, Reverse(file))
            again == SaveFile(saved.db, voting, cols, file)
            queued == Queued(task, saved)
        IN /\ turned.db = saved.db /\ Queued(task, turned) = queued
           /\ again.db = saved.db
           /\ queued = EstimationTasks(saved.db) \cap saved.applied

=============================================================================
