------------------------- MODULE ParticipantAccess -------------------------
(***************************************************************************)
(* Who a browser is in a room.  A participant has no account but a token:  *)
(* the browser keeps it in its session, the personal link carries it, and  *)
(* the organiser may replace it.  Handlers read the participant or the     *)
(* names of the room first and write later, with other requests in         *)
(* between.                                                                *)
(*                                                                         *)
(* Tokens are random and never repeat: they are numbered as they are made. *)
(* A link, once given, may be opened by anybody at any time.               *)
(***************************************************************************)
EXTENDS Naturals, Sequences

CONSTANTS People,       \* names as they are typed
          Folded,       \* People -> the name without its case
          Browsers,
          MaxPeople,    \* bound: participants of the room
          MaxTokens,    \* bound: tokens that are ever made
          Ready         \* a browser without a request

ASSUME AccessAssumption ==
    /\ DOMAIN Folded = People
    /\ MaxPeople \in Nat /\ MaxTokens \in Nat

VARIABLES
    person,    \* the rows Participant of the room, oldest first
    made,      \* number of the last token
    cookie,    \* token in the session of each browser, 0 for none
    running,   \* what the request of each browser has read
    over       \* the room is finished

accessVars == <<person, made, cookie, running, over>>

Tokens == 1..made
\* seen is no column: the number of participants whose names room_join had read
\* when it let this one in, for the property about names.
Person == [name : People, token : 1..MaxTokens, saved : BOOLEAN,
           seen : 0..MaxPeople]

Requested == [op : {"join"}, name : People, seen : 0..MaxPeople]
             \cup [op : {"resume"}, token : 1..MaxTokens]
             \cup [op : {"save"}, who : 1..MaxPeople, row : Person]

AccessTypeOK ==
    /\ person \in Seq(Person) /\ Len(person) <= MaxPeople
    /\ made \in 0..MaxTokens
    /\ cookie \in [Browsers -> 0..MaxTokens]
    /\ running \in [Browsers -> Requested \cup {Ready}]
    /\ over \in BOOLEAN

-----------------------------------------------------------------------------
Holders(token) == {i \in DOMAIN person : person[i].token = token}

Begins(b, r) == running[b] = Ready /\ running' = [running EXCEPT ![b] = r]
Ends(b) == running' = [running EXCEPT ![b] = Ready]

Runs(b, op) == running[b] # Ready /\ running[b].op = op

Alike(m, n) == Folded[m] = Folded[n]

\* Mutant of NameTaken: the names are compared as they are.
NameTakenExactly(n) == \E i \in DOMAIN person : person[i].name = n

NameTaken(n) == \E i \in DOMAIN person : Alike(person[i].name, n)

\* room_join reads the names of the room ...
JoinRead(b, n) ==
    /\ ~over /\ ~NameTaken(n)
    /\ Begins(b, [op |-> "join", name |-> n, seen |-> Len(person)])
    /\ UNCHANGED <<person, made, cookie, over>>

\* The room is over, or has somebody of that name.
JoinRefused(b, n) ==
    /\ running[b] = Ready /\ (over \/ NameTaken(n))
    /\ UNCHANGED accessVars

\* ... and inserts the row.  The database refuses a name only if it is the
\* same letter by letter; the request then ends with an error.  Bound: so does
\* one beyond MaxPeople or MaxTokens.
JoinSaved(b) ==
    /\ Runs(b, "join")
    /\ LET n == running[b].name
       IN IF \/ \E i \in DOMAIN person : person[i].name = n
             \/ Len(person) = MaxPeople \/ made = MaxTokens
          THEN UNCHANGED <<person, made, cookie>>
          ELSE /\ made' = made + 1
               /\ person' = Append(person, [name |-> n, token |-> made + 1,
                                            saved |-> FALSE,
                                            seen |-> running[b].seen])
               /\ cookie' = [cookie EXCEPT ![b] = made + 1]
    /\ Ends(b) /\ UNCHANGED over

\* room_resume: a link that nobody has ends the session of the browser.
ResumeRead(b, token) ==
    /\ IF Holders(token) = {}
       THEN /\ running[b] = Ready
            /\ cookie' = [cookie EXCEPT ![b] = 0]
            /\ UNCHANGED running
       ELSE /\ Begins(b, [op |-> "resume", token |-> token])
            /\ UNCHANGED cookie
    /\ UNCHANGED <<person, made, over>>

ResumeSaved(b) ==
    /\ Runs(b, "resume")
    /\ cookie' = [cookie EXCEPT ![b] = running[b].token]
    /\ Ends(b) /\ UNCHANGED <<person, made, over>>

\* _participant_from_request, at the beginning of every request of the room ...
ParticipantRead(b) ==
    \E i \in Holders(cookie[b]) :
        /\ Begins(b, [op |-> "save", who |-> i, row |-> person[i]])
        /\ UNCHANGED <<person, made, cookie, over>>

\* Mutant of SavedRow: participant.save() without update_fields.
WholeRow(now, read) == [read EXCEPT !.saved = TRUE]

\* What is saved of a participant, when the row is now so and was read so:
\* current_task, completed_at or last_seen_at, each with update_fields.
SavedRow(now, read) == [now EXCEPT !.saved = TRUE]

\* ... which saves something of the participant later (room_navigate,
\* room_complete, _participant_queue_item).
ParticipantSaved(b) ==
    /\ Runs(b, "save")
    /\ person' = [person EXCEPT ![running[b].who] = SavedRow(@, running[b].row)]
    /\ Ends(b) /\ UNCHANGED <<made, cookie, over>>

RotatedRow(row, token) == [row EXCEPT !.token = token]

\* participant_resume_rotate
ParticipantResumeRotate(i) ==
    /\ i \in DOMAIN person /\ made < MaxTokens
    /\ made' = made + 1
    /\ person' = [person EXCEPT ![i] = RotatedRow(@, made + 1)]
    /\ UNCHANGED <<cookie, running, over>>

\* session_finish, which closes the room for new participants.
RoomOver == ~over /\ over' = TRUE /\ UNCHANGED <<person, made, cookie, running>>

-----------------------------------------------------------------------------
AccessInit ==
    /\ person = << >> /\ made = 0
    /\ cookie = [b \in Browsers |-> 0]
    /\ running = [b \in Browsers |-> Ready]
    /\ over = FALSE

AccessNext ==
    \/ \E b \in Browsers :
          \/ \E n \in People : JoinRead(b, n) \/ JoinRefused(b, n)
          \/ \E token \in Tokens : ResumeRead(b, token)
          \/ JoinSaved(b) \/ ResumeSaved(b)
          \/ ParticipantRead(b) \/ ParticipantSaved(b)
    \/ \E i \in 1..MaxPeople : ParticipantResumeRotate(i)
    \/ RoomOver

AccessSpec == AccessInit /\ [][AccessNext]_accessVars

-----------------------------------------------------------------------------
\* A personal link that was replaced never gives access again, in whatever
\* browser it is kept and whatever requests were under way when it was
\* replaced; and what the participant has done stays: "выпускает новую ссылку
\* и отзывает старую; участник, его прогресс и голоса при этом сохраняются"
\* (user-guide.md:22, views.py:1400-1417).
RevokedStep ==
    /\ \A token \in Tokens : Holders(token) = {} => Holders(token)' = {}
    /\ \A i \in DOMAIN person :
          /\ person'[i].name = person[i].name
          /\ person[i].saved => person'[i].saved

RevokedForGood == [][RevokedStep]_accessVars

\* However joins overlap, no two participants of a room have the same name
\* letter by letter, nor the same token; and if their names differ in case only,
\* the later one looked at the names before the earlier one was there
\* (room_join, views.py:1555-1578, with the constraint of models.py:450-454).
NamesApart ==
    \A i, j \in DOMAIN person :
        i < j => /\ person[i].name # person[j].name
                 /\ person[i].token # person[j].token
                 /\ i <= person[j].seen => ~Alike(person[i].name, person[j].name)

\* No two participants of a room have names that differ only in case:
\* test_participant_name_must_be_unique_in_room lets "Анна" in and refuses
\* "анна" (poker/tests/test_views.py:1310-1325).
NamesDiffer ==
    \A i, j \in DOMAIN person :
        i # j => ~Alike(person[i].name, person[j].name)

=============================================================================
