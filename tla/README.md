# Verification of score-it

score-it is a Django application for planning poker. An organiser imports the
tasks of a project, opens a voting room, and hands out one public link.
Participants walk through the queue of tasks on their own and place cards. The
organiser reveals the cards of a task, accepts the result, and plans sprints
with the estimates. EVA, the tracker, exchanges tasks and estimates with
score-it through files.

In production gunicorn runs two workers of two threads each
(`deploy/gunicorn.conf.py`) on PostgreSQL at READ COMMITTED. Requests are not
wrapped in transactions (`ATOMIC_REQUESTS` is off). Only parts of some handlers
are in `transaction.atomic()`, and most handlers check what they need before
that, without a lock. There are no background jobs and no in-memory state: a
browser polls (`static/js/room.js`), and all state is rows.

## 1. Inventory

| Component | State | Operations | Hard behaviour |
|---|---|---|---|
| **Estimation scale** (`models.py:16-78`, `503-514`) | none | `estimate_on_scale`, `VotingRound.summary`, `Task.estimate` | nearest card of an uneven scale, ties upwards, a positive total never 0 |
| **Voting room** (`views.py:208-306`, `937-1399`; `models.py:301-547`) | session status, archive mark and focus; queue items with position, status and current round; rounds; votes | create, copy, queue add, start, start task, navigate, reveal, revote, accept, finish, archive, restore, delete | item, round and session status in three tables, kept in step by all of these |
| **Participants** (`views.py:394-501`, `1400-1417`, `1546-1803`) | name, personal token, cursor, completion; the token in each browser's session | join, resume, poll, vote, navigate, complete; rotate token | completion withdrawn by new rounds; cursor saved by reads; a token rotated under a running request; names equal but for case |
| **Requests of a room** | what each running handler has read | check, then write | votes, reveals, completions and starts on stale checks |
| **Room export** (`views.py:65-91`, `1028-1093`) | none | CSV and XLSX of accepted estimates | recomputed from the votes, must stay what the room accepted whatever imports and other rooms do |
| **Task backlog** (`models.py:170-298`, `views.py:794-934`) | tasks, estimate, completion, competency | bulk import, complete, reopen, competency, delete | changes under a running room |
| **EVA import** (`sprint_import.py`, `task_import.py`) | tasks, sprints, memberships | parse, save one row after the other under a project lock | conflicts, voted tasks, idempotence, stale readiness |
| **EVA readiness** (`eva_readiness.py`) | derived | `EvaReadiness.check`, `unestimated_tasks` | matching by title and scope; stale data must block |
| **Sprint planning** (`views.py:1806-2108`, `models.py:550-942`, `1029-1073`) | sprints, memberships with PLANNED / TRANSFERRED / REMOVED | create, capacity, add, remove, status, archive, restore, delete, copy, transfer | one planned sprint per task; stale whole-row saves; lock order |
| **Team capacity** (`team.py`, `team_views.py`, `forms.py`, `models.py:945-1026`) | members, resources of a sprint | add, update, remove, settings | snapshots; rounding; locked sprints |
| **Organizer invitations** (`models.py:85-144`, `views.py:707-748`, `admin.py:37-110`) | invitation, accounts | issue, accept, edit the label, delete | used once, expiry, an admin form that saves the whole row |
| **Import slot and worker** (`import_process.py`, `import_worker.py`) | one file lock, a context variable | admit, parse in a child process | release on every exit, re-entry, timeout |
| **Room client** (`static/js/room.js`) | poll timer, buttons | poll, vote, navigate, complete | answers that overtake each other; a vote goes to the server-side cursor |
| **Data transfer** (`data_transfer.py`) | bundle | capture, validate, import, verify | empty target, same contents |
| Administration, parsing of spreadsheets, export files, configuration, deployment | - | - | not modelled: generated, sequential string handling, or no state machine |

How they interact. A room draws its queue from the backlog and writes accepted
estimates back to it (`Task.capture_estimate`). Imports update the backlog
under the room, leave tasks with an open round alone, and may extend the queue.
Readiness decides which tasks may enter a queue or get a round. Deleting a task
cascades to its queue item, rounds and votes. Sprints sum the estimates.

What makes them correct: an estimate is spanned by its votes; queue, rounds and
session tell one story; who has finished has voted on everything; results that
were shown do not change and are the ones exported; a finished room stays
finished; a task is planned in one sprint at a time; a link or an invitation
that was revoked or used is of no use any more.

`PROJECT.json` lists the hazards by source line with the properties that watch
them.

## 2. Modules

```
Estimation --> Ballot --> Round            (abstract: what one round promises)
                    \        ^
                     \       | ImplementsRounds (one instance per task, number)
                      --> VotingRoom --> VotingRequests
                                    \--> RoomClient        (one page in front of it)
SumsAndEstimates --> VotingRoomProofs --> VotingRoomSteps <-- RoomClient
VotingRequests, VotingRoomProofs --> VotingRequestsProofs

SprintPlanning --> SprintRequests --> SprintProofs
Capacity --> SprintTeam, Round --> MCOffice --> OfficeProofs
EvaReadiness --> EvaImport --> ImportProofs
ParticipantAccess, OrganizerInvitations, ImportSlot, DataTransfer --> AccessProofs
SumsAndEstimates --> OfficeProofs, ImportProofs, AccessProofs
```

The rooms and their page:

- **Estimation**: the cards and `estimate_on_scale`, in integers as in the code
  (distances times count), beside a reference definition by midpoints.
- **Ballot**: the votes of one round, `[Participants -> Cards or NoVote]`
  (the unique `Vote` row per round and participant), and `VotingRound.summary`.
- **Round**: the abstract specification. Cards are placed while voting is open,
  shown with a quorum, then frozen, and accepted only after they were shown.
- **VotingRoom**: one session and the tasks of its project; every handler that
  changes them is one action with all that it calls. Rows are addressed by
  task: `position[t] = 0` means that `t` has no `VotingSessionTask`;
  `currentRound[t] = 0` is a null foreign key; `roundStatus[t][n] = "none"`
  means that round `n` does not exist. The estimate of a task is the summary it
  was accepted with, `Imported`, or `NoSummary`.
- **VotingRequests**: the same effects, with the check of a handler (`Read...`)
  and its write (`Effect`) as two steps of a worker. `request[w]` is what the
  handler goes by after its check: the round it found, the session status and
  focus it loaded, the task it will focus. A worker may also stop in between
  (`Fail`).
- **RoomClient**: the page of one participant (`static/js/room.js`) composed
  with the handlers of VotingRoom. `page` is what `render` left on the screen,
  `poll` the polls under way (of the timer, after a vote, after a move),
  `casting` and `moving` are `requestInProgress` and `navigationInProgress` with
  the step the request has reached. Answers are late, overtake each other or
  are lost; the organiser goes on meanwhile.

Tasks, files and sprints:

- **EvaReadiness**: `EvaReadiness.check` over the rows of a backlog, as sets:
  tasks of one name, narrowed by EVA project and epic, ambiguous or not.
- **EvaImport**: the backlog under files from EVA (`SaveRow` is one turn of the
  loop of `save_sprint_import`), people and rooms. `Skip` has every way a row is
  not applied, `Applied` every field that a column sets or leaves. `SaveFile`
  folds `SaveRow` over a file for the properties about whole files; a file that
  contradicts itself is rejected by `FileValid`, as the parser does. `skipped`
  and `unread` are history: which tasks' last row was not applied, or not read.
- **SprintPlanning**: the sprints of a project and the tasks planned in them,
  one action per handler. Sprints are their primary keys, given in order;
  `status[s]` is "none" before and "deleted" after a sprint exists. The row
  `SprintTask` of sprint `s` and task `t` is `item[s][t]` and `movedTo[s][t]`
  (unique per sprint and task, as the constraint of the table says).
  `MoveTasks` is what add, transfer and import have in common: a row in one
  sprint, and a note in the rows of the sprints that are left.
- **SprintRequests**: the same effects with the check and the write of a
  handler apart. Add, transfer and import write under the lock on the project
  (`Project.objects.select_for_update()`) and look the tasks up again there;
  nobody looks at the sprint again. `ReadCapacity` keeps the row that
  `sprint_capacity_update` saves whole. A removal goes by the key of the row it
  found, so it is dropped when that row is deleted (`Kept`).
- **Capacity**: what the properties of `Sprint` and `SprintResource` derive from
  rows: working days, hours, remaining hours, overage, usage. Decimals are
  integers (half days, half hours, hundredths of an hour), rounded as
  `ROUND_HALF_UP` does.
- **SprintTeam**: members, the team of one sprint and its settings, with the
  checks of the forms. The handlers of the team page lock the row of the sprint
  and are one step; `sprint_capacity_update` does not, so its read
  (`CapacityRead`) and save (`CapacitySaved`) are two.

Access and operation:

- **ParticipantAccess**: participants, their tokens, and the token in the session
  of each browser. `running[b]` is what the request of browser `b` has read:
  a name that was free, a token that somebody had, or a participant's row.
- **OrganizerInvitations**: invitations, the accounts they made, the forms that
  visitors have posted, and the row that an administrator is editing.
- **ImportSlot**: the lock on the file, `_admitted` of each thread, the parser
  process and its time limit, web processes that are killed.
- **DataTransfer**: `capture` in one snapshot, `import_records` in one
  transaction, the comparison and the sequences, beside both applications.

For TLC:

- **MCVotingRequests, MCEvaImport**: symmetry sets, and the rows and columns of
  files. **MCPage**: RoomClient with both tasks queued at once.
- **MCVotingRoom**: one room in two settings, so that rounds and changes of the
  project are each explored as far as they need. `part` is chosen in the initial
  state; in *rounds* the analysis is done first (`TaskCompetencyUpdate`) and
  nothing changes the project after that, in *project* a task has one round.
- **MCOffice, MCWeb, MCAccess** put components that share no state side by side
  in one run. `part` is chosen in the initial state and never changes; only
  that component moves, so the states are the sum and not the product, and each
  property is checked on the whole behaviour of its own component.
- Symmetry is over participants, workers, names and tasks, which no definition
  tells apart; no run with a liveness property uses it.

Definitions named `... Mutant of X` in a comment are plausible mistakes in X;
each property is shown to be violated when X is replaced by one of them.

| Handler | Action | | Handler | Action |
|---|---|---|---|---|
| `session_create` | `SessionCreate` | | `room_join` | `RoomJoin` |
| `session_copy` | `SessionCopy` | | `room_state` | `RoomState` |
| `session_queue_add` | `SessionQueueAdd` | | `room_vote` | `RoomVote` |
| `session_start` | `SessionStart` | | `room_navigate` | `RoomNavigate` |
| `session_start_task` | `SessionStartTask` | | `room_complete` | `RoomComplete` |
| `session_navigate` | `SessionNavigate` | | `task_complete`, `task_reopen` | `TaskComplete`, `TaskReopen` |
| `session_reveal`, `_revote`, `_accept` | `SessionReveal`, ... | | `task_delete` | `TaskDelete` |
| `session_finish` | `SessionFinish` | | `task_competency_update` | `TaskCompetencyUpdate` |
| `session_archive`, `_restore`, `_delete` | `SessionArchive`, ... | | `task_import_file`, `sprint_import` | `TaskImport` |
| `session_accept` of another room | `AcceptElsewhere` | | `session_import_file` | `SessionImportFile` |
| `sprint_create`, `_copy`, `_delete` | `SprintCreate`, ... | | `sprint_add_tasks`, `_remove_task` | `SprintAddTasks`, `SprintRemoveTask` |
| `sprint_set_status` | `SprintSetStatus` | | `sprint_transfer_tasks` | `SprintTransferTasks` |
| `sprint_archive`, `_restore` | `SprintArchive`, ... | | `save_sprint_import` | `SprintImport` |
| `sprint_capacity_update` | `ReadCapacity`, `SaveSprint` | | | |

| Code | Action (module) |
|---|---|
| `refresh`, `render`, the timer (`room.js`) | `PollSent`, `PollHandled`, `Rendered`, `PollLost` (RoomClient) |
| `sendVote` with `room_vote` | `ClickCard`, `VoteHandled`, `VoteRefused`, `VoteLost`, `VoteConfirmed` |
| `navigate`, `completeVoting` with `room_navigate`, `room_complete` | `ClickMove`, `MoveHandled`, `CompleteHandled`, `MoveLost`, `MoveAnswered`, `CompletionAnswered` |
| `room` (the page), `room_join` | `Enter`, `Reload` |
| `save_sprint_import`, `_parse_sprint_file` | `ImportRow`, `ImportUnknown`, `FileValid` (EvaImport) |
| `task_import`, `task_competency_update`, `task_complete`, `task_reopen`, `backlog_delete` | `TaskImport`, `TaskCompetencyUpdate`, `TaskComplete`, `BacklogDelete` |
| rounds of the project's rooms, `Task.capture_estimate` | `RoundOpened`, `RoundAccepted`, `RoundDeleted` |
| `sprint_create`, `_copy`, `_delete`, `_set_status`, `_archive`, `_restore` | `TeamSprintCreate`, ... (SprintTeam) |
| `sprint_team`: settings, capacity | `SprintTeamSettings`, `SprintTeamCapacity` |
| `project_team`, `sprint_resource_create`, `_update`, `_remove`, `sprint_members_add` | `ProjectTeam`, `SprintResourceCreate`, ..., `SprintMembersAdd` |
| `room_join`, `room_resume` | `JoinRead`, `JoinRefused`, `JoinSaved`; `ResumeRead`, `ResumeSaved` (ParticipantAccess) |
| `_participant_from_request` and what saves the participant later | `ParticipantRead`, `ParticipantSaved` |
| `participant_resume_rotate` | `ParticipantResumeRotate` |
| `organizer_invitation_accept` | `InvitationOpened`, `InvitationLocked`, `OrganizerRegistered`, `RegistrationAborted` (OrganizerInvitations) |
| `OrganizerInvitationAdmin` | `InvitationMade`, `InvitationDeleted`, `LabelRead`, `LabelSaved` |
| `bounded_import_view`, `import_slot`, `parse_import` | `EnterView`, `LeaveView`, `StartParser`, `ParserEnds`, `ParserTimeout`, `ProcessKilled` (ImportSlot) |
| `capture`, `import_records` | `ExportBegun`, `TableCaptured`; `ImportBegun`, `RowSaved`, `ImportCommitted`, `ImportAborted` (DataTransfer) |

Abstractions:

- One room. Another room of the same project that has queued a task too can
  write the summary of its own votes to `estimate` (`AcceptElsewhere`, for the
  tasks in `Managed`) or block an import of the task.
- Readiness of a gated task is a free choice at every import, competency change
  and deletion (`Readiness(r)`), which covers whatever `EvaReadiness` computes.
- Whether a task is planned in a sprint is a free choice at every import.
- In VotingRoom a file has one row; a longer file saves its rows one after the
  other, but all its new tasks join the queue together, as in
  `SessionQueueAdd(T)`. Files of several rows are in EvaImport.
- A write transaction in VotingRequests is one step. Transactions that overlap
  at READ COMMITTED could also read each other's old maxima; the unique
  constraints on (session, task, number) and (session, position) make the later
  one fail, which is `Fail`. Other overlaps inside two write blocks are finer
  than this model.
- VotingRequests keeps the project as it is and does not delete the room;
  SprintRequests does not delete tasks.
- Sprints: which tasks are estimated and open is up to the backlog, so a request
  to add tasks names any set of them. Names are equal up to case, as
  `name__iexact` compares them. A row of an import that is skipped for another
  reason than its sprint (an open round, a foreign identifier) is an import
  without that row. An import is one step per row: it holds the lock, nobody
  sees it half done, and its rows depend on the database only, so what holds
  for any sequence of rows holds for a file.
- EvaImport: titles stand for what `normalise` and `title_key` leave of them;
  statuses of EVA are open, "done", "completed", cancelled or none: readiness
  takes the English "completed" for done, but an import does not close a task
  for it (`DoneStatuses`, `ClosedInEva`). A task is planned or not.
- RoomClient: one page. Others at the room are the organiser's actions; other
  participants matter to a page only through them. Cards are not disabled by a
  move, buttons not by a vote, as in the script; an answer without a task hides
  the buttons and leaves them as they were (`EnabledBy`).
- ParticipantAccess: tokens are numbers in the order they are made and never
  repeat (`client_token`, a random UUID). `SavedRow` is a save with
  `update_fields`. `seen` is history: how many participants a join had seen when
  its name was free.
- ImportSlot: a parser may run beside the next import only when its web process
  was killed: `flock` goes with the process, the parser's own limit of processor
  time ends it (`orphans`). Nothing that it writes is read.
- DataTransfer: two tables, the second referring to the first; a row that the
  target did not keep as it was is not `exact`. Digests and schemas are equal.

## 3. Runs

Bounds: `MaxRounds` rounds per task and `MaxPosition` positions of the queue
stop actions that would exceed them, and likewise `MaxSprint`, `MaxPeople`,
`MaxTokens`, `MaxAccounts`, `MaxKey` and `MaxPolls`; `InFile`, `Managed` and
`ByHand` say which tasks files and people touch. `Ticks` has as many members as
polls of the timer may be under way at once.

| Run | Instance | Shows |
|---|---|---|
| `room` (419 000 states) | 2 participants, 2 tasks, 1 card, quorum 1. *rounds*: 2 rounds each, nobody touches the project. *project*: 1 round each; `t1` closed, reopened, deleted, accepted in another room; `t2` gated and imported. | Items match rounds; completions are right, and are withdrawn only for something new; every round implements `Round`; the queue stays in order; voting only in an active room; a finished room stays as it is; a line of the export appears with the estimate that the room accepts, and stays what it was until the room votes on the task again, whatever becomes of the estimate in the backlog (a late vote would change its count). Two rounds are what a revote, a reopened task and a skipped task need. |
| `requests_rounds` | 3 workers, 2 participants, 1 task, 2 rounds | With any interleaving: quorum behind every result, gapless rounds. |
| `office` (370 000 states) | *plans*: 2 workers, 2 sprints, 1 task. *team*: 1 member and 1 guest of different competencies, 3 dates, 2 absences, a calendar, 2 reserves, 3 manual capacities. *round*: 3 voters, 9 cards, quorum 2. | With any interleaving: one plan at a time, no circles of transfers, no task lost by one. Absences fit the calendar whatever is changed last; closed sprints keep team and capacity; the figures of capacity balance and hours are within half a hundredth per person. The estimate is the card the midpoints give and never falls when a vote rises. |
| `eva_import` (127 000 states) | 3 tasks (two of analysis, one that waits), 7 rows with every estimate, status and way to be skipped, with or without the status column, and for one task a row of a type nobody knows | Identifiers unique, status and estimate agree, no estimate lost to a blank cell, readiness rests on analysis that is done, up to date and in scope, skipped rows block it, and every file of two rows may be turned round or repeated. |
| `access` (151 000 states) | *plans*: 2 sprints, 2 tasks, 2 names. *access*: 2 browsers, names `ann`, `Ann`, `bob`, 3 tokens. *invitations*: 2 invitations, 2 visitors, 3 accounts. *transfer*: 2 tables of 2 keys. | Handlers alone: the archive holds completed sprints, closed plans are left alone by hand, transfers stay on record, an import can be repeated. Revoked links stay revoked; two joins at once never take the same name, and take twins only if neither has seen the other; an invitation is used once; a transfer is whole or nothing. |
| `web` (41 000 states) | *page*: 1 participant, 2 tasks, 1 poll at a time. *slot*: 3 threads of 2 processes. | Liveness: the page's controls come back, the slot is free again. Safety: the slot is exclusive, the timer's polls leave the controls of a running move alone (`ClientTypeOK`). |
| `page_moves` (204 000 states) | 1 participant, 2 tasks, 1 round; the polls of the timer, of a vote and of a move, 2 of them at a time | Liveness: the page catches up with the server, however answers overtake each other while the participant votes and walks through the queue and the organiser reveals, accepts and finishes. |

Why the bounds are enough. Two sprints are enough to go back and forth, and to
share a name, which makes rows ambiguous; longer circles are excluded by proof.
The dates of `office` are two Fridays and a Wednesday between them, so that
periods begin and end at a weekend and have a remainder of a week on both sides;
the hours 7.5 and 6.5 at 75 % and 33 % leave half hundredths. Sums of one to
three cards reach both sides of every midpoint and the midpoints themselves.
Three tokens let a link be replaced while its old token is still in a session, in
a request and in a link. Three threads are the smallest number with two in one
process and one in another. Two keys let a row of the application come before
and after an imported one. Two polls are the smallest number that can overtake
each other, and in `page_moves` they do: an answer that was given before a move,
a vote or a reveal is rendered after a later one. With one task, two rounds and
two polls of the timer `PageCatchesUp` holds as well (126 000 states, no run is
kept); with three polls at once TLC takes too long. For the controls in `web` one
poll at a time is the strictest bound, since timer, vote and move have to wait
for each other.

### Fairness

`web` and `page_moves` have liveness properties. Nothing on the server makes a
room progress; people do, so no fairness is assumed of clicks, of
the organiser, or of losses.

- `ClientFairness`: the timer goes on (`setInterval`), the server answers what
  reaches it, the browser handles what arrives, and requests and answers may be
  lost but not all polls are (strong fairness of handling and rendering *some*
  poll). The two actions that send a poll after a vote or a move have strong
  fairness only because of `MaxPolls`: in a browser they never wait.
- `SlotFairness`: a view that has begun returns or raises, and `WALL_SECONDS`
  pass (`ParserTimeout`). A parser need not end by itself.

`PageCatchesUp` says: once nothing changes at the server, the page comes to show
what the server has. It excepts the page of somebody who has completed: that one
is static, has no script, and shows a withdrawn completion only when it is
loaded again.

Deadlock is not checked in `requests_rounds`, `office` and
`deleted_sprint_race`: a room that has used up its bounded rounds and votes with
all workers idle may stop, and so may a project that has used up its bounded
sprints.

### Divergences

Five runs are expected to fail, each with one property that the repository
itself states:

| Run | What the code does | What is stated |
|---|---|---|
| `reestimated_export` | A task that is started again after its estimate was accepted, in a room that is then finished, is missing from the export; the backlog keeps the estimate. | all accepted estimates can be exported (`docs/user-guide.md:16`) |
| `vote_after_reveal` | `room_vote` saves a vote after the cards were revealed. | the choice may change until the cards are shown (`static/js/room.js:196`) |
| `deleted_sprint_race` | `sprint_capacity_update` saves the whole row of a sprint deleted after it was read: the sprint is back. | a deleted sprint no longer exists (`poker/tests/test_views.py:1470`) |
| `unread_analysis` | A row whose type is not known ends in the parser and leaves no mark: the task, or what its analysis says, still counts. | skips of an import block readiness (`docs/user-guide.md:195`) |
| `reused_invitation` | The admin form of a label saves the whole row it has read, and with it an empty `used_at` after a registration. | an invitation is good for one use (`docs/user-guide.md:225`) |

TLC finds more of the same pattern, a check before a lock or without one, for
which no run is kept. Each is reproduced by putting the property, or the value
of the constant, into the run named:

| What happens | Reproduced by |
|---|---|
| `session_start` reopens a room that was finished after its check | `FinishedStaysFinished` in `requests_rounds` |
| `room_complete` saves a completion after `session_queue_add` reset them: completed with a task left, and unable to vote | `CompletedVotedAll` in `requests_rounds` with two tasks, positions and workers |
| a reveal that overlaps `session_finish` leaves a shown round in a finished room; a revote and an accept that have both found the same round leave an accepted task with a round that is open, and its estimate out of the export | `ItemsMatchRounds` in `requests_rounds` |
| a room that is finished, reopened by a `session_start_task` which checked before, and archived by a `session_archive` which checked in between: archived with a task being voted on | `VotingOnlyWhileActive` in `requests_rounds` |
| a card that is clicked while a move is under way is stored for the next task, and reported as saved under the one still shown: `navigate` waits for votes and moves under way (`room.js:250`), `sendVote` for votes only (`room.js:222`) | `SavedForShownTask` in `page_moves` |
| two joins at once read the names before either is saved, and the constraint of the table tells names apart by case: two participants whose names differ in case only, which `test_participant_name_must_be_unique_in_room` (`poker/tests/test_views.py:1310`) excludes for joins that do not overlap | `NamesDiffer` in `access` |
| a capacity form undoes a change of dates, and a person is away longer than the sprint has days; or changes a sprint that was closed meanwhile | `Overlapping = TRUE` in `office` |
| `sprint_set_status` puts an archived sprint back to planning | `ArchivedIsCompleted` over `SprintRequests` |
| `sprint_add_tasks` extends a sprint that has just been completed | `ClosedPlanKept` over `SprintRequests` |
| `sprint_remove_task` deletes a row that has just become the record of a transfer | `TransfersKept` over `SprintRequests` |

All but the export and the unread row are races, and all but the card clicked
during a move are races of the server. When the handlers run alone, completions are right, a finished room is final, shown cards are frozen (unless
the task or the room is deleted), and closed sprints keep their plans and teams:
all of these are proved. So it is the unlocked check before the write that
breaks them, not the handlers' logic.

One more observation: a closed task that is reopened by hand keeps the block
reason "closed" from EVA until a file says otherwise (`blocked` in EvaImport), so
it cannot be planned although it is in the backlog again.

## 4. Proofs

TLAPS checks these for every set of tasks and participants, every quorum and
every bound; they rest on the named assumptions of the modules, which TLC
evaluates in the runs (that the members, guests, participants and competencies of
a sum are finite sets is among them). Three theorems have a further hypothesis,
which they state: that labels are not edited while an invitation is used
(`InvitationAlwaysUsedOnce`, `EditsOverlap = FALSE`), and that nothing comes
between the halves of `sprint_capacity_update` (`AbsencesAlwaysFit` and
`ClosedTeamsAlwaysKept`, `Overlapping = FALSE`). Without it TLC finds each of them
violated (section 3). Everything else about teams and capacity is proved however
requests overlap.

- `SumsAndEstimates`: what several proofs need. Induction is stated for a *set*
  (`NatSetInduction`, `FiniteSetInduction`: a set of numbers that holds 0 and the
  successor of each of its members holds all), a form that the provers can
  instantiate. From it follow the laws of sums over finite sets
  (`SumFunctionOnSet`): that a sum exists, does not depend on the order
  (`SumOfMember`), is additive, monotone and between its bounds, and splits into
  parts. The estimate: the choice by distance is the choice by midpoints
  (`EstimateIsReference`), from which monotonicity and "between the votes" follow.
- `VotingRoomProofs`: `Spec => []TypeOK`, `Spec => []IInv` and the four invariants
  that follow. The lemmas say what `FirstIn`, `LastIn`, `LastPosition`, `LastOf`
  return; one step per action.
  `ItemsMatchRounds`, `QueueInOrder`, `VotingOnlyWhileActive` and
  `CompletedVotedAll` are not inductive one by one. Starting a task may focus
  it only because its item is open; a cursor stays in the queue only because
  item and position go together; a completed participant keeps a vote in every
  item only because the current round is the latest one and its votes never
  disappear while the round exists. `IInv` joins them with the fact that nobody
  has finished in a room that is still a draft, which creating and extending a
  draft need.
- `VotingRoomSteps`: what a step may do, from `IInv`. Every handler moves each
  round by one of the moves of `RoundMove`, each of which is an action of
  `Round` (`RoomImplementsRounds`: the refinement, initial states and steps).
  The only fact it needs beyond types is that a number without a round has no
  votes (`BallotsOfRounds`). In a finished room the invariant leaves nothing
  open to act on, so nothing changes (`FinishedStaysFinal`). A new round takes
  a number that was free, so its ballot is empty and whoever is called back has
  something to vote on (`CompletionsKept`). A line of the export
  rests on a closed round. A round is closed only by an accept, which writes the
  summary of its votes to the backlog in the same step (`AcceptExports`), and the
  ballot of a round that is shown or closed stays as long as its task and its
  room exist (`ResultsKept`). So a line is what was accepted, until the item gets
  a new round (`ExportAlwaysAccepted`), whatever the backlog says by then. And the page in front
  of the room implements it (`PageKeepsRoom`: every step of `ClientSpec` is a step
  of the room or leaves its rows alone), so all that is proved of a room holds
  with a page whose requests are late, overtake each other or are lost; the types
  of the page are proved on top of that (`PageTypeCorrect`).
- `VotingRequestsProofs`: `RequestsSpec => []RequestsInv`, for any number of
  workers. A handler writes on the strength of an older read; `Sound` says what
  of that read is still true at the write: its round exists, the votes it
  counted are there, the item it chose is in the queue. `RowsKept` says that no
  write takes such things away, which makes `Sound` stable under the steps of
  all other workers. Quorum, numbering and the order of the queue follow; what
  is not of that kind (an open round stays open, a room is still unfinished)
  is what the races of section 3 break.
- `SprintProofs`: `RowsInv` joins "planned in one sprint", "transfers lead on"
  and what the foreign keys ensure (rows only of sprints that exist). It speaks
  of the rows alone, and every effect keeps it whatever was checked before, so
  it holds of handlers alone (`SprintsInOrder`) and of requests that interleave
  (`SprintRequestsInOrder`). One plan at a time needs that a move takes along
  every other plan of its tasks (`MoveKeepsRows`), which is what the second
  look under the lock is for. There is no circle because a task that joins a
  sprint loses the link there: a set of sprints that passes the task on within
  itself cannot contain the target, so it was one before the move. The step
  theorems follow from what each handler may do to one row (`RowStep`).
- `ImportProofs`: `ImportSpec => []ImportInv`, for any files. What every request
  leaves of a row is in lemmas about single rows (`AppliedFields`, `AppliedRow`,
  `OldRow`), what replacing one row leaves of the backlog in one lemma about
  steps (`RowReplaced`). `SkippedMarked` is the strengthening that readiness
  needs: whoever's last row was skipped carries the mark, because only an
  applied row takes it away. `NoneLost` follows the estimates
  (`EstimatesAlwaysKept`). `ReadyAlwaysAnalysed` needs no invariant: it shows that
  narrowing in steps, as the code does, is the selection by all three names.
  Files: `Saved` says what saving leaves of a *set* of rows, without an order.
  A row of a valid file changes its own task only, and neither whether it is
  skipped nor what it leaves depends on which of the others are saved before it
  (`SkipStays`, `RowStays`): another row can give its own identifier to its own
  task at most, and a task that has a different one is skipped. Saving one row
  more is therefore one row more in the set (`SaveNextRow`), and by induction
  along the file `SaveFile` is `Saved` of its rows (`FileIsItsRows`). That the
  order is irrelevant and that a second import changes nothing follow for files
  of any length (`AnyFileAlwaysSettles`), of which the run has those of two rows
  (`FilesAlwaysSettle`).
- `OfficeProofs`: the types of rows (`TeamsTypeCorrect`). `TeamInv` joins them with
  `AbsenceFits` and `LoadedIsCurrent`, "what a capacity form is about to save is
  what is there and may be edited". The working days go by dates and calendar
  alone (`SameDaysFit`), and are never negative (`DaysCounted`), so whoever is not
  away fits everywhere. The figures follow from the types alone:
  `WeekdaysAreCounted` goes day by day through a period and shows that whole weeks
  and a remainder count what a calendar would; every person's hours are rounded by
  half a hundredth at most, and a sum of such errors is at most their number
  (`HoursAlwaysCounted`); row by row what is left less what is lacking is capacity
  less estimate, and sums of both sides are equal (`CapacitiesBalanced`). The sum
  of a ballot of any size goes through `SumsAndEstimates` to the estimate
  (`EstimatesGoByMidpoints`), and one raised vote raises the sum and leaves the
  count (`RaisedVotesKeepOrder`).
- `AccessProofs`: four small invariants. The slot: the thread with the lock, the
  thread that is admitted and the stage of its request are one
  (`SlotAlwaysExclusive`). Invitations: an account stands behind a mark or a
  deleted key, and whoever has the lock has seen the row unused
  (`InvitationAlwaysUsedOnce`). Participants: tokens are at most the last one made
  and nobody shares one, so a token that is gone is never made again
  (`RevokedLinksStayRevoked`); a join
  under way has a name that was free among those it had seen, and the rows it had
  seen keep their names, so a twin can only be among those it had not
  (`NamesSeen`, `NamesAlwaysApart`). Transfers: while tables are captured, the bundle is a part
  of a snapshot in which every row has what it refers to; nothing is in the target
  beside an import that is not committed; afterwards every sequence is at least
  the largest key of its table, so new rows come behind (`TransfersAreWhole`).

Only model-checked: the liveness properties (`PageCatchesUp`, `ControlsReturn`,
`SlotReleased`), since the prover has neither fairness nor `ENABLED`. Every
invariant and every action property of the runs is stated by a theorem. The type
invariants of VotingRoom, VotingRequests, SprintRequests and ImportSlot are proved,
or part of what is, and do not run. The violations are TLC's counterexamples.

## 5. Not modelled, and what is left

- Finer transactions for VotingRequests and SprintRequests: statements of two
  write blocks interleaved at READ COMMITTED with unique constraints; deletion of
  tasks in SprintRequests and changes of the project in VotingRequests. These
  two components are therefore "partly" modelled.
- Several pages at one room, and the organiser's page
  (`templates/poker/session_detail.html`), which polls without state of its own.

Left out for good: the parsing of CSV and XLSX and the writing of export files
(`task_import.py`, `import_worker.py`; which rows are exported is
`AcceptedIsExported`), because they are sequential string handling that tests
reach; administration pages generated by the framework, except the one of
invitations; settings, container images and release scripts (`deploy/`), which
have no state of the application; templates.
