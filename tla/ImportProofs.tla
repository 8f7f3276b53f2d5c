---------------------------- MODULE ImportProofs ----------------------------
(***************************************************************************)
(* Theorems about the backlog of a project under imports from EVA, for any *)
(* tasks, identifiers, names and files, and any bounds on what is changed  *)
(* by hand.                                                                *)
(***************************************************************************)
EXTENDS EvaImport, SumsAndEstimates

\* A row that an import skipped leaves its mark on the task.
SkippedMarked == \A n \in skipped : task[n].stale

ImportInv ==
    ImportTypeOK /\ IdentifiersUnique /\ StatusMatchesEstimate /\ SkippedMarked

-----------------------------------------------------------------------------
\* Single rows.

Settled(t) == t.status = "estimated" <=> HasEstimate(t)

LEMMA NewTaskRow ==
  ASSUME NEW n
  PROVE  /\ NewTask(n) \in TaskRow /\ NewTask(n).eva = NoIdentifier
         /\ Settled(NewTask(n)) /\ ~HasEstimate(NewTask(n))
  BY DEF NewTask, TaskRow, Settled, HasEstimate, Kinds, EvaStatus

\* The row that a task has, or would have if it were new.
LEMMA OldRow ==
  ASSUME ImportInv, NEW n \in Numbers
  PROVE  /\ Old(task, n) \in TaskRow /\ Settled(Old(task, n))
         /\ \A m \in Existing(task) \ {n} :
               task[m].eva = Old(task, n).eva => task[m].eva = NoIdentifier
         /\ n \in Existing(task) => Old(task, n) = task[n]
         /\ n \in skipped => Old(task, n).stale
<1>1. CASE task[n] = NoRow
  <2>1. Old(task, n) = NewTask(n) /\ n \notin Existing(task)
    BY <1>1 DEF Old, Existing
  <2>2. n \notin skipped
    BY <2>1 DEF ImportInv, ImportTypeOK
  <2> QED
    BY <2>1, <2>2, NewTaskRow
<1>2. CASE task[n] # NoRow
  <2>1. Old(task, n) = task[n] /\ n \in Existing(task)
    BY <1>2 DEF Old, Existing
  <2>2. task[n] \in TaskRow
    BY <1>2 DEF ImportInv, ImportTypeOK
  <2>3. Settled(task[n])
    BY <2>1 DEF ImportInv, StatusMatchesEstimate, Settled
  <2> QED
    BY <2>1, <2>2, <2>3
    DEF ImportInv, IdentifiersUnique, SkippedMarked
<1> QED
  BY <1>1, <1>2

\* The rows have the same estimates.
Estimates(u, t) ==
    u.imported = t.imported /\ u.voted = t.voted /\ u.status = t.status

\* The fields of a row, and rows that agree but for some of them.
Fields == {"eva", "kind", "title", "parent", "project", "epic", "evaStatus", "stale",
           "completed", "blocked", "imported", "voted", "status", "planned"}

KeepsBut(u, t, changed) == \A f \in Fields \ changed : u[f] = t[f]

\* The file says of the row what its status is.
HasStatus(cols, r) == "status" \in cols /\ r.evaStatus # ""

\* Rows are the same when all their fields are.
LEMMA SameRow ==
  ASSUME NEW t \in TaskRow, NEW u \in TaskRow,
         t.eva = u.eva, t.kind = u.kind, t.title = u.title, t.parent = u.parent,
         t.project = u.project, t.epic = u.epic, t.evaStatus = u.evaStatus,
         t.stale = u.stale, t.completed = u.completed, t.blocked = u.blocked,
         t.imported = u.imported, t.voted = u.voted, t.status = u.status,
         t.planned = u.planned
  PROVE  t = u
  BY DEF TaskRow

\* What a row of a file leaves in each field.
LEMMA AppliedFields ==
  ASSUME NEW db, NEW cols, NEW r \in FileRow, NEW t, t = Old(db, r.number), t \in TaskRow,
         NEW u, u = Applied(db, cols, r)
  PROVE  /\ u \in TaskRow
         /\ u.eva = r.eva /\ u.kind = r.kind /\ u.title = r.title
         /\ u.parent = IF "parent" \in cols THEN r.parent ELSE t.parent
         /\ u.project = IF "project" \in cols THEN r.project ELSE t.project
         /\ u.epic = IF "epic" \in cols THEN r.epic ELSE t.epic
         /\ u.evaStatus = IF "status" \in cols THEN r.evaStatus ELSE t.evaStatus
         /\ u.stale = (t.stale /\ ~HasStatus(cols, r))
         /\ u.completed = IF HasStatus(cols, r) THEN ClosedInEva(r) ELSE t.completed
         /\ u.blocked = IF HasStatus(cols, r) THEN ClosedInEva(r) ELSE t.completed
         /\ u.imported = IF r.estimate = "blank" THEN t.imported ELSE r.estimate = "hours"
         /\ u.voted = (t.voted /\ r.estimate # "zero")
         /\ u.status = (IF r.estimate = "hours" THEN "estimated"
                        ELSE IF r.estimate = "blank" /\ HasEstimate(t) THEN t.status
                        ELSE "unestimated")
         /\ u.planned = IF "sprints" \in cols THEN r.sprint = "one" ELSE t.planned
<1> DEFINE imported == IF r.estimate = "blank" THEN t.imported ELSE r.estimate = "hours"
           voted == t.voted /\ r.estimate # "zero"
           mark == IF r.estimate = "hours" THEN "estimated"
                   ELSE IF r.estimate = "blank" /\ HasEstimate(t) THEN t.status
                   ELSE "unestimated"
           v0 == [t EXCEPT !.imported = imported, !.voted = voted, !.status = mark]
           parent == IF "parent" \in cols THEN r.parent ELSE v0.parent
           project == IF "project" \in cols THEN r.project ELSE v0.project
           epic == IF "epic" \in cols THEN r.epic ELSE v0.epic
           evaStatus == IF "status" \in cols THEN r.evaStatus ELSE v0.evaStatus
           stale == v0.stale /\ ~HasStatus(cols, r)
           completed == IF HasStatus(cols, r) THEN ClosedInEva(r) ELSE v0.completed
           blocked == IF HasStatus(cols, r) THEN ClosedInEva(r) ELSE v0.completed
           planned == IF "sprints" \in cols THEN r.sprint = "one" ELSE v0.planned
           v1 == [v0 EXCEPT !.eva = r.eva, !.kind = r.kind, !.title = r.title]
           v2 == [v1 EXCEPT !.parent = parent, !.project = project, !.epic = epic]
           v3 == [v2 EXCEPT !.evaStatus = evaStatus, !.stale = stale]
           v == [v3 EXCEPT !.completed = completed, !.blocked = blocked,
                           !.planned = planned]
<1>1. imported \in BOOLEAN /\ voted \in BOOLEAN /\ mark \in {"unestimated", "estimated"}
  BY DEF TaskRow
<1>2. v0 = Estimated(t, r.estimate)
  BY DEF Estimated
<1> HIDE DEF imported, voted, mark
<1>3. v0 \in TaskRow /\ KeepsBut(v0, t, {"imported", "voted", "status"})
      /\ v0.imported = imported /\ v0.voted = voted /\ v0.status = mark
  <2>1. v0 \in TaskRow
    <3> DEFINE w1 == [t EXCEPT !.imported = imported]
               w2 == [w1 EXCEPT !.voted = voted]
               w3 == [w2 EXCEPT !.status = mark]
    <3>1. v0 = w3
      OBVIOUS
    <3> HIDE DEF v0
    <3>2. w1 \in TaskRow
      BY <1>1 DEF TaskRow
    <3> HIDE DEF w1
    <3>3. w2 \in TaskRow
      BY <1>1, <3>2 DEF TaskRow
    <3> HIDE DEF w2
    <3>4. w3 \in TaskRow
      BY <1>1, <3>3 DEF TaskRow
    <3> QED
      BY <3>1, <3>4
  <2>2. DOMAIN t = Fields
    BY <1>1 DEF TaskRow, Fields
  <2> QED
    BY <2>1, <2>2 DEF KeepsBut, Fields
<1> HIDE DEF v0
<1>4. u = v
  BY <1>2 DEF Applied, HasStatus
<1>5. /\ r.eva \in Identifiers \cup {NoIdentifier} /\ r.kind \in Kinds
      /\ r.title \in Titles \cup {NoTitle}
      /\ parent \in Titles \cup {NoTitle} /\ project \in Titles \cup {NoTitle}
      /\ epic \in Titles \cup {NoTitle} /\ evaStatus \in EvaStatus
  BY <1>3 DEF TaskRow, FileRow
<1>6. stale \in BOOLEAN /\ planned \in BOOLEAN
  BY <1>3 DEF TaskRow
<1>7. completed \in BOOLEAN /\ blocked \in BOOLEAN
  <2>1. /\ ClosedInEva(r) \in BOOLEAN /\ v0.completed \in BOOLEAN
        /\ HasStatus(cols, r) \in BOOLEAN
    BY <1>3 DEF ClosedInEva, HasStatus, TaskRow
  <2> QED
    BY <2>1, Zenon
<1> HIDE DEF parent, project, epic, evaStatus, stale, completed, blocked, planned
<1>8. /\ v1 \in TaskRow /\ KeepsBut(v1, v0, {"eva", "kind", "title"})
      /\ v1.eva = r.eva /\ v1.kind = r.kind /\ v1.title = r.title
  <2>1. v1 \in TaskRow
    BY <1>3, <1>5, ZenonT(30) DEF TaskRow
  <2>2. DOMAIN v0 = Fields
    BY <1>3, <1>5 DEF TaskRow, Fields
  <2> QED
    BY <2>1, <2>2 DEF KeepsBut, Fields
<1> HIDE DEF v1
<1>9. /\ v2 \in TaskRow /\ KeepsBut(v2, v1, {"parent", "project", "epic"})
      /\ v2.parent = parent /\ v2.project = project /\ v2.epic = epic
  <2>1. v2 \in TaskRow
    BY <1>5, <1>8, ZenonT(30) DEF TaskRow
  <2>2. DOMAIN v1 = Fields
    BY <1>5, <1>8 DEF TaskRow, Fields
  <2> QED
    BY <2>1, <2>2 DEF KeepsBut, Fields
<1> HIDE DEF v2
<1>10. /\ v3 \in TaskRow /\ KeepsBut(v3, v2, {"evaStatus", "stale"})
       /\ v3.evaStatus = evaStatus /\ v3.stale = stale
  <2>1. v3 \in TaskRow
    BY <1>5, <1>6, <1>9, ZenonT(30) DEF TaskRow
  <2>2. DOMAIN v2 = Fields
    BY <1>5, <1>6, <1>9 DEF TaskRow, Fields
  <2> QED
    BY <2>1, <2>2 DEF KeepsBut, Fields
<1> HIDE DEF v3
<1>11. v \in TaskRow
  BY <1>6, <1>7, <1>10 DEF TaskRow
<1>12. /\ KeepsBut(v, v3, {"completed", "blocked", "planned"})
       /\ v.completed = completed /\ v.blocked = blocked /\ v.planned = planned
  BY <1>10 DEF TaskRow, KeepsBut, Fields
<1> HIDE DEF v
<1>13. /\ v.eva = r.eva /\ v.kind = r.kind /\ v.title = r.title
       /\ v.parent = parent /\ v.project = project /\ v.epic = epic
       /\ v.evaStatus = evaStatus /\ v.stale = stale
       /\ v.imported = imported /\ v.voted = voted /\ v.status = mark
  BY <1>3, <1>8, <1>9, <1>10, <1>12 DEF KeepsBut, Fields
<1>14. /\ v0.parent = t.parent /\ v0.project = t.project /\ v0.epic = t.epic
       /\ v0.evaStatus = t.evaStatus /\ v0.stale = t.stale
       /\ v0.completed = t.completed /\ v0.planned = t.planned
  BY <1>3 DEF KeepsBut, Fields
<1> QED
  BY <1>4, <1>11, <1>12, <1>13, <1>14 DEF parent, project, epic, evaStatus, stale,
     completed, blocked, planned, imported, voted, mark

\* A row of a file that is applied.
LEMMA AppliedRow ==
  ASSUME ImportInv, NEW cols, NEW r \in FileRow, r.estimate # "invalid"
  PROVE  /\ Applied(task, cols, r) \in TaskRow
         /\ Applied(task, cols, r).eva = r.eva
         /\ Settled(Applied(task, cols, r))
         /\ r.number \in Existing(task) /\ HasEstimate(task[r.number])
               /\ r.estimate # "zero" => HasEstimate(Applied(task, cols, r))
<1> DEFINE t == Old(task, r.number)
           u == Applied(task, cols, r)
<1>1. r.number \in Numbers /\ r.estimate \in {"blank", "zero", "hours"}
  BY DEF FileRow
<1>2. /\ t \in TaskRow /\ Settled(t)
      /\ r.number \in Existing(task) => t = task[r.number]
  BY <1>1, OldRow
<1>3. /\ u \in TaskRow /\ u.eva = r.eva
      /\ u.imported = IF r.estimate = "blank" THEN t.imported ELSE r.estimate = "hours"
      /\ u.voted = (t.voted /\ r.estimate # "zero")
      /\ u.status = (IF r.estimate = "hours" THEN "estimated"
                     ELSE IF r.estimate = "blank" /\ HasEstimate(t) THEN t.status
                     ELSE "unestimated")
  BY <1>2, AppliedFields
<1>4. t.imported \in BOOLEAN /\ t.voted \in BOOLEAN /\ t.status \in {"unestimated", "estimated"}
  BY <1>2 DEF TaskRow
<1> HIDE DEF t, u
<1>5. Settled(u) /\ (HasEstimate(t) /\ r.estimate # "zero" => HasEstimate(u))
  BY <1>1, <1>2, <1>3, <1>4 DEF Settled, HasEstimate
<1> QED
  BY <1>2, <1>3, <1>5 DEF u

-----------------------------------------------------------------------------
\* Steps.

LEMMA ImportInvInit == ImportInit => ImportInv
  BY DEF ImportInit, ImportInv, ImportTypeOK, IdentifiersUnique,
         StatusMatchesEstimate, SkippedMarked, Existing

\* A task gets another row, whose identifier no other task has.
LEMMA RowReplaced ==
  ASSUME ImportInv, NEW n \in Numbers, NEW row \in TaskRow,
         task' = [task EXCEPT ![n] = row],
         Settled(row), n \in skipped' => row.stale,
         \A m \in Existing(task) \ {n} :
            task[m].eva = row.eva => task[m].eva = NoIdentifier,
         voting' \subseteq voting \cup ({n} \cap Existing(task)),
         skipped' \subseteq skipped \cup ({n} \cap Existing(task)),
         unread' \subseteq unread
  PROVE  /\ ImportInv'
         /\ task'[n] = row /\ \A m \in Existing(task) \ {n} : task'[m] = task[m]
<1>1. /\ task'[n] = row /\ row # NoRow
      /\ Existing(task)' = Existing(task) \cup {n}
      /\ \A m \in Numbers \ {n} : task'[m] = task[m]
  BY TaskAssumption DEF ImportInv, ImportTypeOK, Existing
<1>2. ImportTypeOK'
  BY <1>1 DEF ImportInv, ImportTypeOK
<1>3. IdentifiersUnique'
  BY <1>1 DEF ImportInv, IdentifiersUnique, Existing
<1>4. StatusMatchesEstimate'
  BY <1>1 DEF ImportInv, StatusMatchesEstimate, Settled, Existing
<1>5. SkippedMarked'
  BY <1>1 DEF ImportInv, ImportTypeOK, SkippedMarked, Existing
<1> QED
  BY <1>1, <1>2, <1>3, <1>4, <1>5 DEF ImportInv, Existing

\* The backlog stays as it is.
LEMMA RowsKept ==
  ASSUME ImportInv, task' = task, voting' \subseteq Existing(task),
         skipped' \subseteq skipped, unread' \subseteq Existing(task)
  PROVE  ImportInv'
  BY DEF ImportInv, ImportTypeOK, IdentifiersUnique, StatusMatchesEstimate,
         SkippedMarked, Existing

\* No task but by a zero loses its estimate.
NoneLost(zero) ==
    \A n \in Existing(task) :
        HasEstimate(task[n]) /\ task'[n] # NoRow /\ ~HasEstimate(task'[n])
            => n \in zero

\* One turn of the loop of save_sprint_import.
LEMMA ImportRowStep ==
  ASSUME ImportInv, NEW cols \in Columns, NEW r \in Rows, ImportRow(cols, r)
  PROVE  ImportInv' /\ NoneLost(IF r.estimate = "zero" THEN {r.number} ELSE {})
<1> DEFINE n == r.number
<1>1. r \in FileRow /\ n \in Numbers
  BY ImportAssumption DEF FileRow
<1>2. voting' = voting /\ unread' \subseteq unread
  BY DEF ImportRow
<1>3. CASE Skip(task, voting, cols, r)
  <2>1. task' = MarkStale(task, n) /\ skipped' = skipped \cup ({n} \cap Existing(task))
    BY <1>3 DEF ImportRow, SaveRow
  <2>2. CASE task[n] = NoRow
    <3>1. task' = task /\ n \notin Existing(task)
      BY <2>1, <2>2 DEF MarkStale, Existing
    <3>2. ImportInv'
      BY <1>2, <2>1, <3>1, RowsKept DEF ImportInv, ImportTypeOK
    <3> QED
      BY <3>1, <3>2 DEF NoneLost
  <2>3. CASE task[n] # NoRow
    <3> DEFINE row == [task[n] EXCEPT !.stale = TRUE]
    <3>1. task' = [task EXCEPT ![n] = row] /\ n \in Existing(task)
      BY <1>1, <2>1, <2>3 DEF MarkStale, Existing
    <3>2. Old(task, n) = task[n] /\ task[n] \in TaskRow /\ Settled(task[n])
      BY <1>1, <3>1, OldRow
    <3>3. /\ row \in TaskRow /\ row.stale /\ row.eva = task[n].eva
          /\ Estimates(row, task[n])
      BY <3>2 DEF TaskRow, Estimates
    <3> HIDE DEF row
    <3>4. Settled(row) /\ (HasEstimate(row) <=> HasEstimate(task[n]))
      BY <3>2, <3>3 DEF Settled, HasEstimate, Estimates
    <3>5. \A m \in Existing(task) \ {n} :
             task[m].eva = row.eva => task[m].eva = NoIdentifier
      BY <1>1, <3>2, <3>3, OldRow
    <3>6. /\ ImportInv' /\ task'[n] = row
          /\ \A m \in Existing(task) \ {n} : task'[m] = task[m]
      BY <1>1, <1>2, <2>1, <3>1, <3>3, <3>4, <3>5, RowReplaced
    <3> QED
      BY <3>4, <3>6 DEF NoneLost
  <2> QED
    BY <2>2, <2>3
<1>4. CASE ~Skip(task, voting, cols, r)
  <2> DEFINE row == Applied(task, cols, r)
  <2>1. task' = [task EXCEPT ![n] = row] /\ skipped' = skipped \ {n}
    BY <1>4 DEF ImportRow, SaveRow
  <2>2. /\ row \in TaskRow /\ row.eva = r.eva /\ Settled(row)
        /\ n \in Existing(task) /\ HasEstimate(task[n]) /\ r.estimate # "zero"
              => HasEstimate(row)
    BY <1>1, <1>4, AppliedRow DEF Skip
  <2>3. \A m \in Existing(task) \ {n} : task[m].eva # row.eva
    BY <1>4, <2>2 DEF Skip, OtherIdentifier
  <2> HIDE DEF row
  <2>4. /\ ImportInv' /\ task'[n] = row
        /\ \A m \in Existing(task) \ {n} : task'[m] = task[m]
    BY <1>1, <1>2, <2>1, <2>2, <2>3, RowReplaced
  <2> QED
    BY <2>2, <2>4 DEF NoneLost
<1> QED
  BY <1>3, <1>4

\* Requests that change a row without its estimate and its identifier.
LEMMA OtherFields ==
  ASSUME ImportInv, NEW n \in Numbers, NEW row,
         row \in TaskRow, task' = [task EXCEPT ![n] = row],
         Estimates(row, Old(task, n)) \/ (row.voted /\ row.status = "estimated"),
         row.eva = Old(task, n).eva, row.stale = Old(task, n).stale,
         voting' \subseteq voting, skipped' = skipped, unread' = unread
  PROVE  ImportInv' /\ NoneLost({})
<1>1. /\ Old(task, n) \in TaskRow /\ Settled(Old(task, n))
      /\ \A m \in Existing(task) \ {n} :
            task[m].eva = row.eva => task[m].eva = NoIdentifier
      /\ n \in Existing(task) => Old(task, n) = task[n]
      /\ n \in skipped => row.stale
  BY OldRow
<1>2. Settled(row) /\ (HasEstimate(Old(task, n)) => HasEstimate(row))
  BY <1>1 DEF Settled, HasEstimate, Estimates
<1>3. /\ ImportInv' /\ task'[n] = row
      /\ \A m \in Existing(task) \ {n} : task'[m] = task[m]
  BY <1>1, <1>2, RowReplaced
<1> QED
  BY <1>1, <1>2, <1>3 DEF NoneLost

\* What people and rooms do to a task.
LEMMA ByHandStep ==
  ASSUME ImportInv, Backlog \/ Rooms
  PROVE  ImportInv' /\ NoneLost({})
<1>0. PICK n \in ByHand :
        \/ \E kind \in Kinds, title \in Titles : TaskImport(n, kind, title)
        \/ \E kind \in Kinds : TaskCompetencyUpdate(n, kind)
        \/ \E completed \in BOOLEAN : TaskComplete(n, completed)
        \/ BacklogDelete(n) \/ TaskPlanned(n) \/ TaskUnplanned(n)
        \/ RoundOpened(n) \/ RoundAccepted(n) \/ RoundDeleted(n)
  BY DEF Backlog, Rooms
<1>1. n \in Numbers /\ Old(task, n) \in TaskRow
  BY ImportAssumption, OldRow
<1>2. task[n] # NoRow => Old(task, n) = task[n] /\ n \in Existing(task)
  BY <1>1 DEF Old, Existing
<1>3. ASSUME NEW kind \in Kinds, NEW title \in Titles, TaskImport(n, kind, title)
      PROVE  ImportInv' /\ NoneLost({})
  <2> DEFINE row == [Old(task, n) EXCEPT !.kind = kind, !.title = title]
  <2>1. /\ row \in TaskRow /\ Estimates(row, Old(task, n))
        /\ row.eva = Old(task, n).eva /\ row.stale = Old(task, n).stale
    BY <1>1 DEF TaskRow, Estimates
  <2>2. task' = [task EXCEPT ![n] = row] /\ UNCHANGED <<voting, skipped, unread>>
    BY <1>3 DEF TaskImport
  <2> HIDE DEF row
  <2> QED
    BY <1>1, <2>1, <2>2, OtherFields
<1>4. ASSUME NEW kind \in Kinds, TaskCompetencyUpdate(n, kind)
      PROVE  ImportInv' /\ NoneLost({})
  <2> DEFINE row == [task[n] EXCEPT !.kind = kind]
  <2>1. task' = [task EXCEPT ![n] = row] /\ Old(task, n) = task[n]
    BY <1>2, <1>4 DEF TaskCompetencyUpdate
  <2>2. /\ row \in TaskRow /\ Estimates(row, Old(task, n))
        /\ row.eva = Old(task, n).eva /\ row.stale = Old(task, n).stale
    BY <1>1, <2>1 DEF TaskRow, Estimates
  <2> HIDE DEF row
  <2> QED
    BY <1>1, <1>4, <2>1, <2>2, OtherFields DEF TaskCompetencyUpdate
<1>5. ASSUME NEW completed \in BOOLEAN, TaskComplete(n, completed)
      PROVE  ImportInv' /\ NoneLost({})
  <2> DEFINE row == [task[n] EXCEPT !.completed = completed]
  <2>1. task' = [task EXCEPT ![n] = row] /\ Old(task, n) = task[n]
    BY <1>2, <1>5 DEF TaskComplete
  <2>2. /\ row \in TaskRow /\ Estimates(row, Old(task, n))
        /\ row.eva = Old(task, n).eva /\ row.stale = Old(task, n).stale
    BY <1>1, <2>1 DEF TaskRow, Estimates
  <2> HIDE DEF row
  <2> QED
    BY <1>1, <1>5, <2>1, <2>2, OtherFields DEF TaskComplete
<1>6. ASSUME NEW planned \in BOOLEAN, task' = [task EXCEPT ![n].planned = planned],
             task[n] # NoRow, UNCHANGED <<voting, skipped, unread>>
      PROVE  ImportInv' /\ NoneLost({})
  <2> DEFINE row == [task[n] EXCEPT !.planned = planned]
  <2>1. task' = [task EXCEPT ![n] = row] /\ Old(task, n) = task[n]
    BY <1>2, <1>6
  <2>2. /\ row \in TaskRow /\ Estimates(row, Old(task, n))
        /\ row.eva = Old(task, n).eva /\ row.stale = Old(task, n).stale
    BY <1>1, <2>1 DEF TaskRow, Estimates
  <2> HIDE DEF row
  <2> QED
    BY <1>1, <1>6, <2>1, <2>2, OtherFields
<1>7. CASE TaskPlanned(n)
  BY <1>6, <1>7 DEF TaskPlanned, AvailableSprintTasks, Existing
<1>8. CASE TaskUnplanned(n)
  BY <1>6, <1>8 DEF TaskUnplanned
<1>9. CASE BacklogDelete(n)
  <2>1. /\ task' = [task EXCEPT ![n] = NoRow] /\ voting' = voting \ {n}
        /\ skipped' = skipped \ {n} /\ unread' = unread \ {n}
    BY <1>9 DEF BacklogDelete
  <2>2. /\ task'[n] = NoRow /\ \A m \in Numbers \ {n} : task'[m] = task[m]
        /\ Existing(task)' = Existing(task) \ {n}
    BY <1>1, <2>1 DEF ImportInv, ImportTypeOK, Existing
  <2>3. ImportTypeOK'
    BY <2>1, <2>2 DEF ImportInv, ImportTypeOK
  <2>4. IdentifiersUnique' /\ StatusMatchesEstimate' /\ NoneLost({})
    BY <2>2
    DEF ImportInv, IdentifiersUnique, StatusMatchesEstimate, NoneLost, Existing
  <2>5. SkippedMarked'
    BY <2>1, <2>2 DEF ImportInv, ImportTypeOK, SkippedMarked, Existing
  <2> QED
    BY <2>3, <2>4, <2>5 DEF ImportInv
<1>10. CASE RoundOpened(n)
  BY <1>2, <1>10, RowsKept DEF RoundOpened, NoneLost, ImportInv, ImportTypeOK
<1>11. CASE RoundAccepted(n)
  <2> DEFINE row == [task[n] EXCEPT !.voted = TRUE, !.imported = FALSE,
                                    !.status = "estimated"]
  <2>1. n \in Existing(task)
    BY <1>11 DEF RoundAccepted, ImportInv, ImportTypeOK
  <2>2. task' = [task EXCEPT ![n] = row] /\ Old(task, n) = task[n]
    BY <1>2, <1>11, <2>1 DEF RoundAccepted, Existing
  <2>3. /\ row \in TaskRow /\ row.voted /\ row.status = "estimated"
        /\ row.eva = Old(task, n).eva /\ row.stale = Old(task, n).stale
    BY <1>1, <2>2 DEF TaskRow
  <2> HIDE DEF row
  <2> QED
    BY <1>1, <1>11, <2>2, <2>3, OtherFields DEF RoundAccepted
<1>12. CASE RoundDeleted(n)
  BY <1>12, RowsKept DEF RoundDeleted, NoneLost, ImportInv, ImportTypeOK
<1> QED
  BY <1>0, <1>3, <1>4, <1>5, <1>7, <1>8, <1>9, <1>10, <1>11, <1>12

LEMMA ImportInvNext ==
  ASSUME ImportInv, [ImportNext]_importVars
  PROVE  ImportInv' /\ EstimateKeptStep
<1>1. ASSUME NEW cols \in Columns, NEW r \in Rows, ImportRow(cols, r)
      PROVE  ImportInv' /\ EstimateKeptStep
  BY <1>1, ImportRowStep DEF NoneLost, EstimateKeptStep
<1>2. ASSUME NEW n \in Numbers, ImportUnknown(n)
      PROVE  ImportInv' /\ EstimateKeptStep
  BY <1>2, RowsKept DEF ImportUnknown, EstimateKeptStep, ImportInv, ImportTypeOK
<1>3. CASE Backlog \/ Rooms
  BY <1>3, ByHandStep DEF NoneLost, EstimateKeptStep
<1>4. CASE UNCHANGED importVars
  BY <1>4, RowsKept DEF importVars, EstimateKeptStep, ImportInv, ImportTypeOK
<1> QED
  BY <1>1, <1>2, <1>3, <1>4 DEF ImportNext, EvaFile

-----------------------------------------------------------------------------
\* Whatever files are imported and whatever is done by hand in between, the
\* tasks of a project have identifiers of their own, are marked as estimated
\* exactly when they are, and a task whose row was skipped is marked
\* (save_sprint_import, Task.capture_estimate).
THEOREM ImportsInOrder == ImportSpec => []ImportInv
<1>1. ImportInv /\ [ImportNext]_importVars => ImportInv'
  BY ImportInvNext
<1> QED
  BY <1>1, ImportInvInit, PTL DEF ImportSpec

\* The backlog is a function to rows, and rounds and marks are of tasks that
\* exist (save_sprint_import, backlog_delete).
THEOREM ImportTypeCorrect == ImportSpec => []ImportTypeOK
<1>1. ImportInv => ImportTypeOK
  BY DEF ImportInv
<1> QED
  BY <1>1, ImportsInOrder, PTL

\* No two tasks of a project have the same identifier in EVA, although only the
\* import looks at it (save_sprint_import).
THEOREM IdentifiersAlwaysUnique == ImportSpec => []IdentifiersUnique
<1>1. ImportInv => IdentifiersUnique
  BY DEF ImportInv
<1> QED
  BY <1>1, ImportsInOrder, PTL

\* The status of a task and its estimate always agree (save_sprint_import,
\* Task.capture_estimate).
THEOREM StatusAlwaysMatches == ImportSpec => []StatusMatchesEstimate
<1>1. ImportInv => StatusMatchesEstimate
  BY DEF ImportInv
<1> QED
  BY <1>1, ImportsInOrder, PTL

\* Nothing but a zero in a file, or deletion, takes an estimate away
\* (save_sprint_import, task_complete, task_competency_update).
THEOREM EstimatesAlwaysKept == ImportSpec => EstimateKept
<1>1. ImportInv /\ [ImportNext]_importVars => [EstimateKeptStep]_importVars
  BY ImportInvNext
<1> QED
  BY <1>1, ImportsInOrder, PTL DEF ImportSpec, EstimateKept

\* What readiness looks at is the analysis of the task.
LEMMA ReadinessLooks ==
  ASSUME NEW n \in Existing(task), task[n].eva # NoIdentifier,
         task[n].kind = "gated", Allowed(task, task[n])
  PROVE  /\ ~task[n].stale /\ AnalysisOf(task, task[n]) # {}
         /\ \A a \in AnalysisOf(task, task[n]) :
               /\ task[a].evaStatus \in DoneStatuses /\ ~task[a].stale
               /\ SameScope(task[a], task[n])
<1> DEFINE t == task[n]
           all == Group(task, RelationshipKey(t))
           ofEpic == Narrowed(task, Narrowed(task, all, t, "project"), t, "epic")
           analysis == {m \in ofEpic : task[m].kind = "analysis"}
<1>1. analysis = AnalysisOf(task, t)
  BY DEF Narrowed, AnalysisOf, Scope
<1>2. /\ ~t.stale /\ analysis # {}
      /\ \A m \in analysis : /\ SameScope(task[m], t) /\ ~task[m].stale
                              /\ task[m].evaStatus \in DoneStatuses
  BY DEF Allowed
<1> QED
  BY <1>1, <1>2

\* A task that waits for analysis is ready only when there is some and all of
\* it is done, up to date and of the same scope: two ways to select it, of
\* which the code has one (EvaReadiness.check).
THEOREM ReadyAlwaysAnalysed == ImportSpec => []ReadyIsAnalysed
<1>1. ReadyIsAnalysed
  BY ReadinessLooks DEF ReadyIsAnalysed
<1> QED
  BY <1>1, PTL

\* A task is never ready when the last row of a file about it, or about its
\* analysis, was skipped: the mark stays until a row is applied
\* (mark_readiness_stale, save_sprint_import).
THEOREM SkippedAlwaysBlock == ImportSpec => []SkippedBlocksReadiness
<1>1. ImportInv => SkippedBlocksReadiness
  BY ReadinessLooks DEF ImportInv, SkippedMarked, SkippedBlocksReadiness, ReadyWithout
<1> QED
  BY <1>1, ImportsInOrder, PTL

-----------------------------------------------------------------------------
\* Files.

\* A row that is applied twice leaves what it leaves once.
LEMMA AppliedAgain ==
  ASSUME NEW db, NEW later, NEW cols, NEW r \in FileRow,
         Old(db, r.number) \in TaskRow, later[r.number] = Applied(db, cols, r)
  PROVE  Applied(later, cols, r) = Applied(db, cols, r)
<1> DEFINE t == Old(db, r.number)
           u == Applied(db, cols, r)
           v == Applied(later, cols, r)
<1>1. u \in TaskRow
  BY AppliedFields
<1>2. Old(later, r.number) = u
  BY <1>1, TaskAssumption DEF Old
<1>3. v \in TaskRow
  BY <1>1, <1>2, AppliedFields
<1>4. /\ v.eva = u.eva /\ v.kind = u.kind /\ v.title = u.title
      /\ v.parent = u.parent /\ v.project = u.project /\ v.epic = u.epic
      /\ v.evaStatus = u.evaStatus
  BY <1>1, <1>2, AppliedFields
<1>5. v.completed = u.completed /\ v.blocked = u.blocked /\ v.planned = u.planned
  BY <1>1, <1>2, AppliedFields
<1>6. v.stale = u.stale
  BY <1>1, <1>2, AppliedFields DEF TaskRow
<1>7. v.imported = u.imported /\ v.voted = u.voted
  BY <1>1, <1>2, AppliedFields DEF TaskRow
<1>8. v.status = u.status
  <2>1. u.status = (IF r.estimate = "hours" THEN "estimated"
                    ELSE IF r.estimate = "blank" /\ HasEstimate(t) THEN t.status
                    ELSE "unestimated")
    BY AppliedFields
  <2>2. v.status = (IF r.estimate = "hours" THEN "estimated"
                    ELSE IF r.estimate = "blank" /\ HasEstimate(u) THEN u.status
                    ELSE "unestimated")
    BY <1>1, <1>2, AppliedFields
  <2>3. r.estimate = "blank" => (HasEstimate(u) <=> HasEstimate(t))
    BY AppliedFields DEF HasEstimate, TaskRow
  <2> QED
    BY <2>1, <2>2, <2>3
<1> HIDE DEF u, v
<1>9. v = u
  BY <1>1, <1>3, <1>4, <1>5, <1>6, <1>7, <1>8, SameRow
<1> QED
  BY <1>9 DEF u, v

BacklogTyped(db) == db \in [Numbers -> TaskRow \cup {NoRow}]

\* The old row is a row.
LEMMA OldTyped ==
  ASSUME NEW db, BacklogTyped(db), NEW n \in Numbers
  PROVE  Old(db, n) \in TaskRow
  BY NewTaskRow DEF BacklogTyped, Old

\* One turn of the loop changes one row: an applied one,
LEMMA RowApplied ==
  ASSUME NEW db, BacklogTyped(db), NEW V, NEW cols, NEW r \in FileRow,
         ~Skip(db, V, cols, r)
  PROVE  /\ SaveRow(db, V, cols, r) = [db EXCEPT ![r.number] = Applied(db, cols, r)]
         /\ SaveRow(db, V, cols, r)[r.number] = Applied(db, cols, r)
         /\ Applied(db, cols, r) \in TaskRow /\ Applied(db, cols, r).eva = r.eva
<1>1. r.number \in Numbers
  BY DEF FileRow
<1>2. Applied(db, cols, r) \in TaskRow /\ Applied(db, cols, r).eva = r.eva
  BY <1>1, OldTyped, AppliedFields
<1>3. SaveRow(db, V, cols, r) = [db EXCEPT ![r.number] = Applied(db, cols, r)]
  BY DEF SaveRow
<1> QED
  BY <1>1, <1>2, <1>3 DEF BacklogTyped

\* or one that is marked, if it is there.
LEMMA RowMarked ==
  ASSUME NEW db, BacklogTyped(db), NEW V, NEW cols, NEW r \in FileRow,
         Skip(db, V, cols, r), db[r.number] # NoRow,
         NEW row, row = [db[r.number] EXCEPT !.stale = TRUE]
  PROVE  /\ SaveRow(db, V, cols, r) = [db EXCEPT ![r.number] = row]
         /\ SaveRow(db, V, cols, r)[r.number] = row
         /\ row \in TaskRow /\ row.eva = db[r.number].eva
<1>1. r.number \in Numbers
  BY DEF FileRow
<1>2. row \in TaskRow /\ row.eva = db[r.number].eva
  BY <1>1, ZenonT(30) DEF BacklogTyped, TaskRow
<1>3. SaveRow(db, V, cols, r) = [db EXCEPT ![r.number] = row]
  BY DEF SaveRow, MarkStale
<1> QED
  BY <1>1, <1>2, <1>3 DEF BacklogTyped

\* or none at all.
LEMMA NothingMarked ==
  ASSUME NEW db, NEW V, NEW cols, NEW r,
         Skip(db, V, cols, r), db[r.number] = NoRow
  PROVE  SaveRow(db, V, cols, r) = db
  BY DEF SaveRow, MarkStale

\* The other rows stay as they are.
LEMMA OneRowSaved ==
  ASSUME NEW db, BacklogTyped(db), NEW V, NEW cols, NEW r \in FileRow
  PROVE  /\ BacklogTyped(SaveRow(db, V, cols, r))
         /\ \A m \in Numbers \ {r.number} : SaveRow(db, V, cols, r)[m] = db[m]
<1>1. CASE ~Skip(db, V, cols, r)
  <2>1. /\ SaveRow(db, V, cols, r) = [db EXCEPT ![r.number] = Applied(db, cols, r)]
        /\ Applied(db, cols, r) \in TaskRow
    BY <1>1, RowApplied
  <2> QED
    BY <2>1 DEF BacklogTyped
<1>2. CASE Skip(db, V, cols, r) /\ db[r.number] # NoRow
  <2> DEFINE row == [db[r.number] EXCEPT !.stale = TRUE]
  <2>1. SaveRow(db, V, cols, r) = [db EXCEPT ![r.number] = row] /\ row \in TaskRow
    BY <1>2, RowMarked
  <2> HIDE DEF row
  <2> QED
    BY <2>1 DEF BacklogTyped
<1>3. CASE Skip(db, V, cols, r) /\ db[r.number] = NoRow
  BY <1>3, NothingMarked
<1> QED
  BY <1>1, <1>2, <1>3

\* Rows that one file may have: see FileValid.
Consistent(S) ==
    \A r, s \in S : r.number = s.number \/ r.eva = s.eva => r = s

\* Some of the rows S are saved.
Between(db, V, cols, S, later) ==
    /\ BacklogTyped(later)
    /\ \A n \in Numbers :
          \/ later[n] = db[n]
          \/ \E s \in S : s.number = n /\ later[n] = SaveRow(db, V, cols, s)[n]

\* What a row does to the identifier of its task.
LEMMA SavedIdentifier ==
  ASSUME NEW db, BacklogTyped(db), NEW V, NEW cols, NEW r \in FileRow,
         NEW row, row = SaveRow(db, V, cols, r)[r.number]
  PROVE  /\ Skip(db, V, cols, r) => /\ row = NoRow <=> db[r.number] = NoRow
                                    /\ row # NoRow => row.eva = db[r.number].eva
         /\ ~Skip(db, V, cols, r) =>
               /\ row # NoRow /\ row.eva = r.eva
               /\ db[r.number] # NoRow => db[r.number].eva \in {NoIdentifier, r.eva}
<1>1. CASE ~Skip(db, V, cols, r)
  BY <1>1, RowApplied, TaskAssumption DEF Skip, OtherIdentifier
<1>2. CASE Skip(db, V, cols, r) /\ db[r.number] # NoRow
  <2> DEFINE marked == [db[r.number] EXCEPT !.stale = TRUE]
  <2>1. row = marked /\ marked \in TaskRow /\ marked.eva = db[r.number].eva
    BY <1>2, RowMarked
  <2> HIDE DEF marked
  <2> QED
    BY <1>2, <2>1, TaskAssumption
<1>3. CASE Skip(db, V, cols, r) /\ db[r.number] = NoRow
  BY <1>3, NothingMarked
<1> QED
  BY <1>1, <1>2, <1>3

\* Whether a row is skipped does not depend on the others of its file.
LEMMA SkipStays ==
  ASSUME NEW db, BacklogTyped(db), NEW V, NEW cols, NEW r \in FileRow,
         NEW S \in SUBSET FileRow, Consistent(S \cup {r}),
         NEW later, Between(db, V, cols, S, later)
  PROVE  Skip(later, V, cols, r) <=> Skip(db, V, cols, r)
<1>1. r.number \in Numbers /\ r.eva # NoIdentifier
  BY ReadinessAssumption DEF FileRow
<1> DEFINE Differs(d) == d[r.number] # NoRow /\ d[r.number].eva \notin {NoIdentifier, r.eva}
<1>2. Differs(later) <=> Differs(db)
  <2>1. CASE later[r.number] = db[r.number]
    BY <2>1
  <2>2. CASE later[r.number] # db[r.number]
    <3>1. PICK s \in S : s.number = r.number /\ later[r.number] = SaveRow(db, V, cols, s)[r.number]
      BY <1>1, <2>2 DEF Between
    <3>2. s = r
      BY <3>1 DEF Consistent
    <3> QED
      BY <3>1, <3>2, SavedIdentifier
  <2> QED
    BY <2>1, <2>2
<1>3. ASSUME NEW n \in Numbers \ {r.number}
      PROVE  later[n] # NoRow /\ later[n].eva = r.eva <=> db[n] # NoRow /\ db[n].eva = r.eva
  <2>1. CASE later[n] = db[n]
    BY <2>1
  <2>2. ASSUME NEW s \in S, s.number = n, later[n] = SaveRow(db, V, cols, s)[n]
        PROVE  later[n] # NoRow /\ later[n].eva = r.eva <=> db[n] # NoRow /\ db[n].eva = r.eva
    <3>1. s.eva # r.eva
      BY <1>3, <2>2 DEF Consistent
    <3> QED
      BY <1>1, <2>2, <3>1, SavedIdentifier
  <2> QED
    BY <2>1, <2>2 DEF Between
<1>4. OtherIdentifier(later, r) <=> OtherIdentifier(db, r)
  BY <1>2, <1>3 DEF OtherIdentifier, Existing
<1> QED
  BY <1>4 DEF Skip

\* Nor does what it leaves.
LEMMA RowStays ==
  ASSUME NEW db, BacklogTyped(db), NEW V, NEW cols, NEW r \in FileRow,
         NEW S \in SUBSET FileRow, Consistent(S \cup {r}),
         NEW later, Between(db, V, cols, S, later)
  PROVE  SaveRow(later, V, cols, r)[r.number] = SaveRow(db, V, cols, r)[r.number]
<1> DEFINE n == r.number
           row == SaveRow(db, V, cols, r)[n]
           again == SaveRow(later, V, cols, r)[n]
<1>1. n \in Numbers /\ BacklogTyped(later) /\ Old(db, n) \in TaskRow
  BY OldTyped DEF FileRow, Between
<1>2. Skip(later, V, cols, r) <=> Skip(db, V, cols, r)
  BY SkipStays
<1>3. later[n] = db[n] \/ later[n] = row
  <2>1. ASSUME NEW s \in S, s.number = n
        PROVE  s = r
    BY <2>1 DEF Consistent
  <2> QED
    BY <1>1, <2>1 DEF Between
<1>4. CASE ~Skip(db, V, cols, r)
  <2>1. row = Applied(db, cols, r) /\ again = Applied(later, cols, r)
    BY <1>1, <1>2, <1>4, RowApplied
  <2>2. CASE later[n] = db[n]
    BY <2>1, <2>2 DEF Applied, Old
  <2>3. CASE later[n] = row
    BY <1>1, <2>1, <2>3, AppliedAgain
  <2> QED
    BY <1>3, <2>2, <2>3
<1>5. CASE Skip(db, V, cols, r) /\ db[n] # NoRow
  <2> DEFINE marked == [db[n] EXCEPT !.stale = TRUE]
  <2>1. row = marked /\ marked \in TaskRow
    BY <1>5, RowMarked
  <2>2. [marked EXCEPT !.stale = TRUE] = marked
    BY <1>1, <1>5 DEF BacklogTyped, TaskRow
  <2>3. later[n] # NoRow /\ [later[n] EXCEPT !.stale = TRUE] = marked
    BY <1>3, <1>5, <2>1, <2>2, TaskAssumption
  <2>4. again = [later[n] EXCEPT !.stale = TRUE]
    BY <1>1, <1>2, <1>5, <2>3, RowMarked
  <2> QED
    BY <2>1, <2>3, <2>4
<1>6. CASE Skip(db, V, cols, r) /\ db[n] = NoRow
  <2>1. row = NoRow
    BY <1>6, NothingMarked
  <2>2. later[n] = NoRow
    BY <1>3, <1>6, <2>1
  <2> QED
    BY <1>2, <1>6, <2>1, <2>2, NothingMarked
<1> QED
  BY <1>4, <1>5, <1>6

\* What saving leaves of the rows S, in whatever order they are.
Applying(db, V, cols, S) == {r \in S : ~Skip(db, V, cols, r)}

Saved(db, V, cols, S) ==
    [db |-> [n \in Numbers |->
                IF \E r \in S : r.number = n
                THEN SaveRow(db, V, cols, CHOOSE r \in S : r.number = n)[n]
                ELSE db[n]],
     applied |-> {r.number : r \in Applying(db, V, cols, S)},
     tasks |-> {r.number : r \in
                   {s \in Applying(db, V, cols, S) :
                       WantsEstimate(SaveRow(db, V, cols, s)[s.number])}}]

\* It has the new rows of S, and the old ones of other tasks.
LEMMA SavedRows ==
  ASSUME NEW db, BacklogTyped(db), NEW V, NEW cols,
         NEW S \in SUBSET FileRow, Consistent(S)
  PROVE  /\ \A r \in S : Saved(db, V, cols, S).db[r.number]
                             = SaveRow(db, V, cols, r)[r.number]
         /\ \A n \in Numbers : (\A r \in S : r.number # n)
                                   => Saved(db, V, cols, S).db[n] = db[n]
         /\ Between(db, V, cols, S, Saved(db, V, cols, S).db)
<1> DEFINE later == [n \in Numbers |->
                       IF \E r \in S : r.number = n
                       THEN SaveRow(db, V, cols, CHOOSE r \in S : r.number = n)[n]
                       ELSE db[n]]
<1>1. Saved(db, V, cols, S).db = later
  BY DEF Saved
<1>2. ASSUME NEW r \in S
      PROVE  later[r.number] = SaveRow(db, V, cols, r)[r.number]
  <2>1. (CHOOSE s \in S : s.number = r.number) = r
    BY DEF Consistent
  <2>2. r.number \in Numbers
    BY DEF FileRow
  <2> QED
    BY <2>1, <2>2
<1>3. \A n \in Numbers : (\A r \in S : r.number # n) => later[n] = db[n]
  OBVIOUS
<1>4. ASSUME NEW n \in Numbers
      PROVE  later[n] \in TaskRow \cup {NoRow}
  <2>1. CASE \A r \in S : r.number # n
    BY <1>3, <2>1 DEF BacklogTyped
  <2>2. ASSUME NEW r \in S, r.number = n
        PROVE  later[n] \in TaskRow \cup {NoRow}
    BY <1>2, <2>2, OneRowSaved DEF BacklogTyped
  <2> QED
    BY <2>1, <2>2
<1>5. later = [n \in Numbers |-> later[n]]
  OBVIOUS
<1> HIDE DEF later
<1>6. BacklogTyped(later)
  BY <1>4, <1>5 DEF BacklogTyped
<1>7. Between(db, V, cols, S, later)
  BY <1>2, <1>3, <1>6 DEF Between
<1> QED
  BY <1>1, <1>2, <1>3, <1>7

\* One more row.
LEMMA SaveNextRow ==
  ASSUME NEW db, BacklogTyped(db), NEW V, NEW cols, NEW r \in FileRow,
         NEW S \in SUBSET FileRow, Consistent(S \cup {r})
  PROVE  SaveNext(Saved(db, V, cols, S), V, cols, r) = Saved(db, V, cols, S \cup {r})
<1> DEFINE before == Saved(db, V, cols, S)
           after == Saved(db, V, cols, S \cup {r})
           new == SaveRow(before.db, V, cols, r)
           row == SaveRow(db, V, cols, r)[r.number]
<1>1. Consistent(S) /\ S \cup {r} \in SUBSET FileRow
  BY DEF Consistent
<1>2. Between(db, V, cols, S, before.db) /\ Between(db, V, cols, S \cup {r}, after.db)
  BY <1>1, SavedRows
<1>3. Skip(before.db, V, cols, r) <=> Skip(db, V, cols, r)
  BY <1>2, SkipStays
<1>4. new[r.number] = row
  BY <1>2, RowStays
<1>5. new = after.db
  <2>1. BacklogTyped(before.db) /\ BacklogTyped(after.db)
    BY <1>2 DEF Between
  <2>2. BacklogTyped(new) /\ \A m \in Numbers \ {r.number} : new[m] = before.db[m]
    BY <2>1, OneRowSaved
  <2>3. after.db[r.number] = row
    BY <1>1, SavedRows
  <2>4. ASSUME NEW m \in Numbers \ {r.number}
        PROVE  after.db[m] = before.db[m]
    <3>1. CASE \A s \in S : s.number # m
      <4>1. \A s \in S \cup {r} : s.number # m
        BY <2>4, <3>1
      <4> QED
        BY <1>1, <2>4, <3>1, <4>1, SavedRows
    <3>2. ASSUME NEW s \in S, s.number = m
          PROVE  after.db[m] = before.db[m]
      BY <1>1, <3>2, SavedRows
    <3> QED
      BY <3>1, <3>2
  <2> HIDE DEF before, after, new, row
  <2>5. \A m \in Numbers : new[m] = after.db[m]
    BY <1>4, <2>2, <2>3, <2>4
  <2> QED
    BY <2>1, <2>2, <2>5 DEF BacklogTyped
<1>6. CASE Skip(db, V, cols, r)
  <2>1. Applying(db, V, cols, S \cup {r}) = Applying(db, V, cols, S)
    BY <1>6 DEF Applying
  <2>2. /\ before = [db |-> before.db, applied |-> before.applied, tasks |-> before.tasks]
        /\ after = [db |-> after.db, applied |-> before.applied, tasks |-> before.tasks]
    BY <2>1 DEF Saved
  <2>3. SaveNext(before, V, cols, r) = [before EXCEPT !.db = new]
    BY <1>3, <1>6 DEF SaveNext
  <2> HIDE DEF before, after, new
  <2>4. SaveNext(before, V, cols, r) = after
    BY <1>5, <2>2, <2>3
  <2> QED
    BY <2>4 DEF before, after
<1>7. CASE ~Skip(db, V, cols, r)
  <2>1. Applying(db, V, cols, S \cup {r}) = Applying(db, V, cols, S) \cup {r}
    BY <1>7 DEF Applying
  <2>2. after.applied = before.applied \cup {r.number}
    BY <2>1 DEF Saved
  <2>3. after.tasks = before.tasks \cup (IF WantsEstimate(row) THEN {r.number} ELSE {})
    BY <2>1 DEF Saved
  <2>4. after = [db |-> after.db, applied |-> after.applied, tasks |-> after.tasks]
    BY DEF Saved
  <2>5. SaveNext(before, V, cols, r)
          = [db |-> new, applied |-> before.applied \cup {r.number},
             tasks |-> before.tasks \cup (IF WantsEstimate(new[r.number]) THEN {r.number} ELSE {})]
    BY <1>3, <1>7 DEF SaveNext
  <2> QED
    BY <1>4, <1>5, <2>2, <2>3, <2>4, <2>5
<1> QED
  BY <1>6, <1>7

\* The rows of a file up to one.
UpTo(file, i) == {file[j] : j \in 1 .. i}

\* SaveFile goes from row to row, and ends with what Saved says.
LEMMA FileIsItsRows ==
  ASSUME NEW db, BacklogTyped(db), NEW V, NEW cols,
         NEW file \in Seq(FileRow), FileValid(file)
  PROVE  /\ SaveFile(db, V, cols, file) = Saved(db, V, cols, Range(file))
         /\ Range(file) \in SUBSET FileRow /\ Consistent(Range(file))
<1> DEFINE next(g, i) == IF i = 0 THEN [db |-> db, applied |-> {}, tasks |-> {}]
                         ELSE SaveNext(g[i - 1], V, cols, file[i])
           saves(g) == g = [i \in 0 .. Len(file) |-> next(g, i)]
           known == [i \in 0 .. Len(file) |-> Saved(db, V, cols, UpTo(file, i))]
<1>1. /\ Len(file) \in Nat /\ DOMAIN file = 1 .. Len(file)
      /\ \A i \in 1 .. Len(file) : file[i] \in FileRow
  OBVIOUS
<1>2. /\ Range(file) = UpTo(file, Len(file)) /\ Range(file) \in SUBSET FileRow
      /\ Consistent(Range(file))
  BY <1>1 DEF FileValid, Consistent, Range, UpTo
<1>3. Saved(db, V, cols, UpTo(file, 0)) = [db |-> db, applied |-> {}, tasks |-> {}]
  <2>1. UpTo(file, 0) = {}
    BY DEF UpTo
  <2>2. [n \in Numbers |-> db[n]] = db
    BY DEF BacklogTyped
  <2> QED
    BY <2>1, <2>2 DEF Saved, Applying
<1>4. ASSUME NEW i \in 1 .. Len(file)
      PROVE  SaveNext(Saved(db, V, cols, UpTo(file, i - 1)), V, cols, file[i])
               = Saved(db, V, cols, UpTo(file, i))
  <2>1. /\ UpTo(file, i) = UpTo(file, i - 1) \cup {file[i]}
        /\ UpTo(file, i) \subseteq Range(file)
    BY <1>1, <1>2 DEF UpTo
  <2>2. /\ UpTo(file, i - 1) \in SUBSET FileRow /\ file[i] \in FileRow
        /\ Consistent(UpTo(file, i - 1) \cup {file[i]})
    BY <1>1, <1>2, <2>1 DEF Consistent
  <2> QED
    BY <2>1, <2>2, SaveNextRow
<1>5. saves(known)
  BY <1>1, <1>3, <1>4
<1>6. ASSUME NEW g, saves(g)
      PROVE  g[Len(file)] = Saved(db, V, cols, UpTo(file, Len(file)))
  <2> DEFINE A == {i \in Nat : i <= Len(file) => g[i] = Saved(db, V, cols, UpTo(file, i))}
  <2>1. /\ g[0] = [db |-> db, applied |-> {}, tasks |-> {}]
        /\ \A i \in 1 .. Len(file) : g[i] = SaveNext(g[i - 1], V, cols, file[i])
    <3>1. \A i \in 0 .. Len(file) : g[i] = next(g, i)
      BY <1>6
    <3>2. /\ next(g, 0) = [db |-> db, applied |-> {}, tasks |-> {}]
          /\ \A i \in 1 .. Len(file) : next(g, i) = SaveNext(g[i - 1], V, cols, file[i])
      OBVIOUS
    <3>3. 0 \in 0 .. Len(file) /\ \A i \in 1 .. Len(file) : i \in 0 .. Len(file)
      BY <1>1
    <3> HIDE DEF next, saves
    <3> QED
      BY <3>1, <3>2, <3>3
  <2> HIDE DEF saves
  <2>2. 0 \in A
    BY <1>3, <2>1
  <2>3. ASSUME NEW i \in Nat, i \in A
        PROVE  i + 1 \in A
    BY <1>1, <1>4, <2>1, <2>3
  <2> HIDE DEF A
  <2>4. Len(file) \in A
    BY <1>1, <2>2, <2>3, NatSetInduction
  <2> QED
    BY <1>1, <2>4 DEF A
<1>7. SaveFile(db, V, cols, file) = (CHOOSE g : saves(g))[Len(file)]
  BY DEF SaveFile
<1> QED
  BY <1>2, <1>5, <1>6, <1>7

\* The order of the rows of a file does not matter, however many there are.
LEMMA AnyOrder ==
  ASSUME NEW db, BacklogTyped(db), NEW V, NEW cols,
         NEW file \in Seq(FileRow), FileValid(file),
         NEW other \in Seq(FileRow), Range(other) = Range(file)
  PROVE  FileValid(other) /\ SaveFile(db, V, cols, other) = SaveFile(db, V, cols, file)
<1>1. FileValid(other)
  <2>1. \A i \in DOMAIN other : \E j \in DOMAIN file : other[i] = file[j]
    BY DEF Range
  <2> QED
    BY <2>1 DEF FileValid
<1> QED
  BY <1>1, FileIsItsRows

\* Nor how often it is imported.
LEMMA SavedAgain ==
  ASSUME NEW db, BacklogTyped(db), NEW V, NEW cols,
         NEW file \in Seq(FileRow), FileValid(file),
         NEW later, later = SaveFile(db, V, cols, file).db
  PROVE  BacklogTyped(later) /\ SaveFile(later, V, cols, file).db = later
<1> DEFINE S == Range(file)
           again == Saved(later, V, cols, S).db
<1>1. /\ S \in SUBSET FileRow /\ Consistent(S)
      /\ later = Saved(db, V, cols, S).db /\ Between(db, V, cols, S, later)
  BY FileIsItsRows, SavedRows
<1>2. BacklogTyped(later)
  BY <1>1 DEF Between
<1>3. SaveFile(later, V, cols, file).db = again /\ BacklogTyped(again)
  BY <1>1, <1>2, FileIsItsRows, SavedRows DEF Between
<1>4. ASSUME NEW n \in Numbers
      PROVE  again[n] = later[n]
  <2>1. CASE \A r \in S : r.number # n
    BY <1>1, <1>2, <2>1, SavedRows
  <2>2. ASSUME NEW r \in S, r.number = n
        PROVE  again[n] = later[n]
    <3>1. S \cup {r} = S /\ r \in FileRow
      BY <1>1
    <3>2. SaveRow(later, V, cols, r)[n] = SaveRow(db, V, cols, r)[n]
      BY <1>1, <2>2, <3>1, RowStays
    <3>3. again[n] = SaveRow(later, V, cols, r)[n] /\ later[n] = SaveRow(db, V, cols, r)[n]
      BY <1>1, <1>2, <2>2, SavedRows
    <3> QED
      BY <3>2, <3>3
  <2> QED
    BY <2>1, <2>2
<1> HIDE DEF again
<1>5. again = later
  BY <1>2, <1>3, <1>4 DEF BacklogTyped
<1> QED
  BY <1>2, <1>3, <1>5

\* It queues what a new session would take.
LEMMA QueuedAsNew ==
  ASSUME ImportInv, NEW cols, NEW file \in Seq(FileRow), FileValid(file),
         NEW saved, saved = SaveFile(task, voting, cols, file)
  PROVE  Queued(task, saved) = EstimationTasks(saved.db) \cap saved.applied
<1> DEFINE S == Range(file)
           applying == Applying(task, voting, cols, S)
<1>1. BacklogTyped(task)
  BY DEF ImportInv, ImportTypeOK, BacklogTyped
<1>2. /\ S \in SUBSET FileRow /\ Consistent(S) /\ saved = Saved(task, voting, cols, S)
  BY <1>1, FileIsItsRows
<1>3. ASSUME NEW r \in applying
      PROVE  /\ r.number \in Existing(saved.db)
             /\ saved.db[r.number] = SaveRow(task, voting, cols, r)[r.number]
             /\ Settled(saved.db[r.number])
  <2>1. r \in FileRow /\ r \in S /\ ~Skip(task, voting, cols, r) /\ r.estimate # "invalid"
    BY <1>2 DEF Applying, Skip
  <2>2. saved.db[r.number] = SaveRow(task, voting, cols, r)[r.number]
    BY <1>1, <1>2, <2>1, SavedRows
  <2>3. SaveRow(task, voting, cols, r)[r.number] = Applied(task, cols, r)
    BY <1>1, <2>1, RowApplied
  <2>4. Applied(task, cols, r) \in TaskRow /\ Settled(Applied(task, cols, r))
    BY <2>1, AppliedRow
  <2> QED
    BY <2>1, <2>2, <2>3, <2>4, TaskAssumption DEF Existing, FileRow
<1>4. /\ saved.applied = {r.number : r \in applying}
      /\ saved.tasks = {r.number : r \in {s \in applying :
             WantsEstimate(SaveRow(task, voting, cols, s)[s.number])}}
  BY <1>2 DEF Saved
<1>5. saved.tasks = {n \in saved.applied : WantsEstimate(saved.db[n])}
  BY <1>3, <1>4
<1>6. ASSUME NEW n \in saved.applied
      PROVE  n \in UnestimatedTasks(saved.db) <=> WantsEstimate(saved.db[n])
  <2>1. /\ n \in Existing(saved.db) /\ Settled(saved.db[n])
    BY <1>3, <1>4
  <2>2. saved.db[n].status \in {"unestimated", "estimated"}
    <3>1. BacklogTyped(saved.db)
      BY <1>1, <1>2, SavedRows DEF Between
    <3> QED
      BY <2>1, <3>1 DEF BacklogTyped, Existing, TaskRow
  <2> QED
    BY <2>1, <2>2 DEF UnestimatedTasks, WantsEstimate, Settled
<1> HIDE DEF applying
<1> QED
  BY <1>5, <1>6 DEF Queued, EstimationTasks

\* A function on 1 .. n is a sequence.
LEMMA FunctionIsSeq ==
  ASSUME NEW X, NEW n \in Nat, NEW f \in [1 .. n -> X]
  PROVE  f \in Seq(X) /\ Len(f) = n
  OBVIOUS

\* The files of the runs are files.
LEMMA FilesOfRows ==
  ASSUME NEW file \in Files
  PROVE  /\ file \in Seq(FileRow) /\ FileValid(file)
         /\ Reverse(file) \in Seq(FileRow) /\ Range(Reverse(file)) = Range(file)
<1>1. PICK P \in SUBSET Rows : /\ Cardinality(P) = 2 /\ file = SetToSeq(P)
                               /\ FileValid(file)
  BY DEF Files, kSubset
<1>2. \E f \in [1 .. 2 -> P] : IsInjective(f)
  <2>1. P # {} /\ \A x \in P : P # {x}
    <3>1. Cardinality({}) = 0 /\ \A x \in P : Cardinality({x}) = 1
      BY FS_EmptySet, FS_Singleton
    <3> QED
      BY <1>1, <3>1
  <2>2. PICK x \in P, y \in P : x # y
    BY <2>1
  <2>3. LET f == [i \in 1 .. 2 |-> IF i = 1 THEN x ELSE y]
        IN f \in [1 .. 2 -> P] /\ IsInjective(f)
    BY <2>2 DEF IsInjective
  <2> QED
    BY <2>3
<1>3. file \in [1 .. 2 -> P]
  BY <1>1, <1>2 DEF SetToSeq
<1>4. P \subseteq FileRow
  BY ImportAssumption
<1>5. file \in Seq(FileRow) /\ Len(file) = 2
  <2>1. file \in [1 .. 2 -> FileRow]
    BY <1>3, <1>4
  <2>2. 2 \in Nat
    OBVIOUS
  <2> QED
    BY <2>1, <2>2, FunctionIsSeq, Zenon
<1>6. Reverse(file) = [i \in 1 .. 2 |-> file[(2 - i) + 1]]
  BY <1>5 DEF Reverse
<1>7. Reverse(file) \in [1 .. 2 -> P]
  BY <1>3, <1>6
<1>8. Reverse(file)[1] = file[2] /\ Reverse(file)[2] = file[1]
  BY <1>6
<1>9. Range(file) = {file[1], file[2]} /\ Range(Reverse(file)) = {file[2], file[1]}
  BY <1>3, <1>7, <1>8 DEF Range
<1> QED
  BY <1>1, <1>4, <1>5, <1>7, <1>9, FunctionIsSeq

\* A file with any number of rows leaves the same in any order, changes nothing
\* when it is imported again, and queues what a new session could take of it.
AnyFileSettles ==
    \A cols \in SUBSET OptionalColumns, file, other \in Seq(FileRow) :
        FileValid(file) /\ Range(other) = Range(file) =>
            LET saved == SaveFile(task, voting, cols, file)
            IN /\ SaveFile(task, voting, cols, other) = saved
               /\ SaveFile(saved.db, voting, cols, file).db = saved.db
               /\ Queued(task, saved) = EstimationTasks(saved.db) \cap saved.applied

\* In whatever state of the backlog a valid file is imported, and however many
\* rows it has, their order and a second import make no difference, and the
\* tasks it queues are those that are left to estimate (save_sprint_import).
THEOREM AnyFileAlwaysSettles == ImportSpec => []AnyFileSettles
<1>1. ImportInv => AnyFileSettles
  <2>1. SUFFICES ASSUME ImportInv, NEW cols \in SUBSET OptionalColumns,
                        NEW file \in Seq(FileRow), NEW other \in Seq(FileRow),
                        FileValid(file), Range(other) = Range(file),
                        NEW saved, saved = SaveFile(task, voting, cols, file)
                 PROVE  /\ SaveFile(task, voting, cols, other) = saved
                        /\ SaveFile(saved.db, voting, cols, file).db = saved.db
                        /\ Queued(task, saved) = EstimationTasks(saved.db) \cap saved.applied
    BY DEF AnyFileSettles
  <2>2. BacklogTyped(task)
    BY <2>1 DEF ImportInv, ImportTypeOK, BacklogTyped
  <2> QED
    BY <2>1, <2>2, AnyOrder, SavedAgain, QueuedAsNew
<1> QED
  BY <1>1, ImportsInOrder, PTL

\* The same for the files of two rows that the run imports (save_sprint_import,
\* estimation_tasks).
THEOREM FilesAlwaysSettle == ImportSpec => []FilesSettle
<1>1. AnyFileSettles => FilesSettle
  <2>1. SUFFICES ASSUME AnyFileSettles, NEW cols \in Columns, NEW file \in Files
                 PROVE  LET saved == SaveFile(task, voting, cols, file)
                            turned == SaveFile(task, voting, cols, Reverse(file))
                            again == SaveFile(saved.db, voting, cols, file)
                            queued == Queued(task, saved)
                        IN /\ turned.db = saved.db /\ Queued(task, turned) = queued
                           /\ again.db = saved.db
                           /\ queued = EstimationTasks(saved.db) \cap saved.applied
    BY DEF FilesSettle
  <2>2. cols \in SUBSET OptionalColumns
    BY ImportAssumption
  <2>3. /\ file \in Seq(FileRow) /\ FileValid(file)
        /\ Reverse(file) \in Seq(FileRow) /\ Range(Reverse(file)) = Range(file)
    BY FilesOfRows
  <2> QED
    BY <2>1, <2>2, <2>3 DEF AnyFileSettles
<1> QED
  BY <1>1, AnyFileAlwaysSettles, PTL

=============================================================================
