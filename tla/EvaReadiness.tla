---------------------------- MODULE EvaReadiness ----------------------------
(***************************************************************************)
(* Which tasks of a project may be put up for estimation.  Development and *)
(* testing wait for their analysis.  EVA exports no relation between the   *)
(* two, so they are matched by name: of the parent task, or else their own *)
(* title without its prefix.  The EVA project and epic narrow the match.   *)
(*                                                                         *)
(* db is the backlog: a function from the numbers of tasks to their rows,  *)
(* or NoRow.  Titles stand for what normalise() and title_key() leave of    *)
(* them.                                                                   *)
(***************************************************************************)
EXTENDS Naturals, FiniteSets

CONSTANTS Numbers,      \* numbers of tasks
          Identifiers,  \* identifiers that EVA gives its objects
          NoIdentifier, \* a task that was not imported from EVA
          Titles,        \* names of tasks, EVA projects and epics
          NoTitle,        \* the empty string
          NoRow         \* there is no such task

ASSUME ReadinessAssumption ==
    /\ NoIdentifier \notin Identifiers
    /\ NoTitle \notin Titles

\* Task.Competency, as far as readiness tells them apart: "gated" stands for
\* the GATED_COMPETENCIES, "free" for all but these and analysis.
Kinds == {"analysis", "gated", "free"}

\* The name of a status: "done" stands for the names of DONE_STATUSES that are
\* also in CLOSED_STATUSES, "completed" for the one that is not, "cancelled" for
\* the other CLOSED_STATUSES, "open" for any other name.
EvaStatus == {"", "open", "done", "completed", "cancelled"}
DoneStatuses == {"done", "completed"}

TaskRow == [eva : Identifiers \cup {NoIdentifier},
            kind : Kinds,
            title : Titles \cup {NoTitle},
            parent : Titles \cup {NoTitle},
            project : Titles \cup {NoTitle},
            epic : Titles \cup {NoTitle},
            evaStatus : EvaStatus,
            stale : BOOLEAN,       \* eva_readiness_stale
            completed : BOOLEAN,   \* completed_at is set
            blocked : BOOLEAN,     \* eva_block_reason is "closed"
            imported : BOOLEAN,    \* imported_estimate is set
            voted : BOOLEAN,       \* estimate_sum and estimate_count are set
            status : {"unestimated", "estimated"},
            planned : BOOLEAN]     \* planned in a sprint

ASSUME TaskAssumption == NoRow \notin TaskRow

Existing(db) == {n \in Numbers : db[n] # NoRow}

\* Task.estimate is not None.
HasEstimate(t) == t.imported \/ t.voted

RelationshipKey(t) == IF t.parent # NoTitle THEN t.parent ELSE t.title

-----------------------------------------------------------------------------
\* EvaReadiness.groups: imported tasks by name.
Group(db, key) ==
    {n \in Existing(db) : db[n].eva # NoIdentifier /\ RelationshipKey(db[n]) = key}

Scope(t, field) == IF field = "project" THEN t.project ELSE t.epic

\* Several EVA projects (or epics) have the name, and the task does not say which.
Ambiguous(db, G, t, field) ==
    /\ Scope(t, field) = NoTitle
    /\ Cardinality({Scope(db[n], field) : n \in G} \ {NoTitle}) > 1

\* What is left of a group when a known project (or epic) narrows it.
Narrowed(db, G, t, field) ==
    {n \in G : Scope(t, field) = NoTitle
               \/ Scope(db[n], field) \in {NoTitle, Scope(t, field)}}

SameScope(t, u) == t.project = u.project /\ t.epic = u.epic

\* Mutant of Allowed: analysis without a project or an epic is taken for the task's own.
AllowedAcrossScopes(db, t) ==
    \/ t.eva = NoIdentifier \/ t.kind # "gated"
    \/ LET all == Group(db, RelationshipKey(t))
           ofProject == Narrowed(db, all, t, "project")
           ofEpic == Narrowed(db, ofProject, t, "epic")
           analysis == {n \in ofEpic : db[n].kind = "analysis"}
       IN /\ ~t.stale
          /\ RelationshipKey(t) # NoTitle
          /\ ~Ambiguous(db, all, t, "project")
          /\ ~Ambiguous(db, ofProject, t, "epic")
          /\ analysis # {}
          /\ \A n \in analysis : ~db[n].stale /\ db[n].evaStatus \in DoneStatuses

\* EvaReadiness.check
Allowed(db, t) ==
    \/ t.eva = NoIdentifier \/ t.kind # "gated"
    \/ LET all == Group(db, RelationshipKey(t))
           ofProject == Narrowed(db, all, t, "project")
           ofEpic == Narrowed(db, ofProject, t, "epic")
           analysis == {n \in ofEpic : db[n].kind = "analysis"}
       IN /\ ~t.stale
          /\ RelationshipKey(t) # NoTitle
          /\ ~Ambiguous(db, all, t, "project")
          /\ ~Ambiguous(db, ofProject, t, "epic")
          /\ analysis # {}
          /\ \A n \in analysis : SameScope(db[n], t)
          /\ \A n \in analysis : ~db[n].stale
          /\ \A n \in analysis : db[n].evaStatus \in DoneStatuses

\* unestimated_tasks and, of these, estimation_tasks
UnestimatedTasks(db) ==
    {n \in Existing(db) : /\ db[n].status = "unestimated" /\ ~HasEstimate(db[n])
                          /\ ~db[n].completed /\ ~db[n].planned}

EstimationTasks(db) == {n \in UnestimatedTasks(db) : Allowed(db, db[n])}

=============================================================================
