----------------------------- MODULE RoomClient -----------------------------
(***************************************************************************)
(* The page of one participant (static/js/room.js, templates/poker/        *)
(* room.html) in front of the room.  The page shows the answer to its last *)
(* poll; a vote, a move and a completion are requests of their own, each   *)
(* followed by a poll, and all of them may be delayed, overtake each other *)
(* or be lost.  The server side are the handlers of VotingRoom.            *)
(***************************************************************************)
EXTENDS VotingRoom

CONSTANTS Me,           \* the participant whose page it is
          Ticks,        \* bound: polls of the timer under way at the same time
          MaxPolls      \* bound: polls under way at the same time

ASSUME ClientAssumption ==
    /\ Me \in Participants
    /\ Ticks \cap {"vote", "move"} = {}
    /\ MaxPolls \in Nat \ {0}

VARIABLES
    page,      \* what render() left on the screen
    enabled,   \* the buttons of the navigation are not disabled
    casting,   \* sendVote: requestInProgress, from the click to its refresh
    moving,    \* navigate, completeVoting: navigationInProgress
    poll       \* refresh(): Nothing, Sent, or the answer on its way

clientVars == <<page, enabled, casting, moving, poll>>
allVars == <<vars, clientVars>>

\* refresh() is called by the timer, which does not wait for the answer to its
\* last poll, after a vote and after a move.  Bound: at most MaxPolls of these
\* polls are under way; the next one waits.
Chains == Ticks \cup {"vote", "move"}

Views == {"waiting", "voting", "revealed", "finished", "completed"}
Moves == Directions \cup {"missing"}

Page == [view : Views, task : Tasks \cup {NoTask}, vote : Cards \cup {NoVote},
         previous : BOOLEAN, action : Moves \cup {"complete", "none"}]

Message(view) == [view |-> view, task |-> NoTask, vote |-> NoVote,
                  previous |-> FALSE, action |-> "none"]

\* No poll, and one that has not been answered.
Nothing == Message("nothing")
Sent == Message("sent")

NotCasting == [step |-> "idle", value |-> NoVote]
NotMoving == [step |-> "idle", to |-> "none"]

\* The types; and the timer's polls, which render the buttons anew, leave them
\* disabled while a move is under way (room.js:144-147).
ClientTypeOK ==
    /\ TypeOK
    /\ page \in Page
    /\ enabled \in BOOLEAN
    /\ casting.step \in {"idle", "sent", "saved", "refreshing"}
    /\ casting.value \in Cards \cup {NoVote}
    /\ moving.step \in {"idle", "sent", "moved", "completed", "failed"}
    /\ moving.to \in Moves \cup {"complete", "none"}
    /\ poll \in [Chains -> Page \cup {Nothing, Sent}]
    /\ moving.step # "idle" => ~enabled

-----------------------------------------------------------------------------
\* What room_state answers and render() makes of it: the view, the selected
\* card and what the two buttons do.

NextAction(t) ==
    IF After(t) # {} THEN "next"
    ELSE IF AllVoted(Me) THEN "complete"
    ELSE IF First(Missing(Me), position) # t THEN "missing" ELSE "none"

Item(t) ==
    [view |-> IF roundStatus[t][currentRound[t]] \in {"revealed", "closed"}
              THEN "revealed" ELSE "voting",
     task |-> t, vote |-> votes[t][currentRound[t]][Me],
     previous |-> Before(t) # {}, action |-> NextAction(t)]

Answer ==
    LET t == QueueItem(Me)
    IN  IF Me \in completed THEN Message("completed")
        ELSE IF status = "finished" THEN Message("finished")
        ELSE IF status = "draft" \/ t = NoTask THEN Message("waiting")
        ELSE IF currentRound[t] = 0 THEN Message("waiting")
        ELSE Item(t)

AllIdle == [c \in Chains |-> Nothing]

\* A poll of chain c can be sent.
MayPoll(c) ==
    /\ poll[c] = Nothing
    /\ Cardinality({d \in Chains : poll[d] # Nothing}) < MaxPolls

\* window.location.reload(), or a new page: what is under way is abandoned.
Load(shown) ==
    /\ page' = shown /\ enabled' = TRUE
    /\ casting' = NotCasting /\ moving' = NotMoving
    /\ poll' = AllIdle

\* The room view: room_completed.html or room.html before its first poll.
Loaded == Message(IF Me \in completed THEN "completed" ELSE "waiting")

-----------------------------------------------------------------------------
(***************************************************************************)
(* Polling: refresh() and render().                                        *)
(***************************************************************************)

\* The page of a participant who has completed has no script.
Running == Me \in joined /\ page.view # "completed"

PollSent(c) ==
    /\ Running /\ MayPoll(c)
    /\ poll' = [poll EXCEPT ![c] = Sent]
    /\ UNCHANGED <<vars, page, enabled, casting, moving>>

PollHandled(c) ==
    /\ Running /\ poll[c] = Sent
    /\ RoomState(Me)
    /\ poll' = [poll EXCEPT ![c] = Answer]
    /\ UNCHANGED <<page, enabled, casting, moving>>

\* sendVote awaits its refresh before it takes another vote.
CastingAfter(c) == IF c = "vote" THEN NotCasting ELSE casting

\* The buttons after an answer.  Without a task to show they are hidden and left
\* as they were.
EnabledBy(answer) ==
    IF answer.task = NoTask THEN enabled ELSE moving.step = "idle"

\* Mutants of Rendered: an answer for the same task is taken for old news; the
\* buttons are enabled while a move is under way.
RenderedOnChange(c) ==
    /\ Running /\ poll[c] \notin {Nothing, Sent}
    /\ page' = IF poll[c].task = page.task THEN page ELSE poll[c]
    /\ enabled' = EnabledBy(poll[c])
    /\ casting' = CastingAfter(c)
    /\ poll' = [poll EXCEPT ![c] = Nothing]
    /\ UNCHANGED <<vars, moving>>

RenderedEnabled(c) ==
    /\ Running /\ poll[c] \notin {Nothing, Sent}
    /\ page' = poll[c] /\ enabled' = TRUE
    /\ casting' = CastingAfter(c)
    /\ poll' = [poll EXCEPT ![c] = Nothing]
    /\ UNCHANGED <<vars, moving>>

Rendered(c) ==
    /\ Running /\ poll[c] \notin {Nothing, Sent}
    /\ IF poll[c].view = "completed" THEN Load(Loaded)
       ELSE /\ page' = poll[c]
            /\ enabled' = EnabledBy(poll[c])
            /\ casting' = CastingAfter(c)
            /\ poll' = [poll EXCEPT ![c] = Nothing]
            /\ UNCHANGED moving
    /\ UNCHANGED vars

\* The request or its answer is lost: "Нет соединения", and the timer goes on.
PollLost(c) ==
    /\ Running /\ poll[c] # Nothing
    /\ poll' = [poll EXCEPT ![c] = Nothing]
    /\ casting' = CastingAfter(c)
    /\ UNCHANGED <<vars, page, enabled, moving>>

-----------------------------------------------------------------------------
(***************************************************************************)
(* sendVote.                                                               *)
(***************************************************************************)

ClickCard(v) ==
    /\ Running /\ page.view = "voting" /\ casting.step = "idle"
    /\ casting' = [step |-> "sent", value |-> v]
    /\ UNCHANGED <<vars, page, enabled, moving, poll>>

\* room_vote saves the vote, or refuses it: "Не удалось сохранить голос".
VoteHandled ==
    /\ Running /\ casting.step = "sent"
    /\ RoomVote(Me, casting.value)
    /\ casting' = [casting EXCEPT !.step = "saved"]
    /\ UNCHANGED <<page, enabled, moving, poll>>

VoteRefused ==
    /\ Running /\ casting.step = "sent"
    /\ ~CanVote(Me, QueueItem(Me), currentRound[QueueItem(Me)])
    /\ RoomState(Me)
    /\ casting' = NotCasting
    /\ UNCHANGED <<page, enabled, moving, poll>>

\* The request or its answer is lost, with the same message.
VoteLost ==
    /\ casting.step \in {"sent", "saved"}
    /\ casting' = NotCasting
    /\ UNCHANGED <<vars, page, enabled, moving, poll>>

VoteConfirmed ==
    /\ Running /\ casting.step = "saved" /\ MayPoll("vote")
    /\ page' = [page EXCEPT !.vote = casting.value]
    /\ casting' = [casting EXCEPT !.step = "refreshing"]
    /\ poll' = [poll EXCEPT !["vote"] = Sent]
    /\ UNCHANGED <<vars, enabled, moving>>

-----------------------------------------------------------------------------
(***************************************************************************)
(* navigate and completeVoting.                                            *)
(***************************************************************************)

Offered(to) ==
    IF to = "previous" THEN page.previous ELSE page.action = to

ClickMove(to) ==
    /\ Running /\ page.view \in {"voting", "revealed"}
    /\ enabled /\ Offered(to)
    /\ moving.step = "idle" /\ casting.step = "idle"
    /\ moving' = [step |-> "sent", to |-> to]
    /\ enabled' = FALSE
    /\ UNCHANGED <<vars, page, casting, poll>>

Moved(step) == moving' = [step |-> step, to |-> "none"]

\* room_navigate moves the cursor or refuses.
MoveHandled ==
    /\ Running /\ moving.step = "sent" /\ moving.to # "complete"
    /\ \/ RoomNavigate(Me, moving.to) /\ Moved("moved")
       \/ ~CanNavigate(Me, moving.to) /\ RoomState(Me) /\ Moved("failed")
    /\ UNCHANGED <<page, enabled, casting, poll>>

\* room_complete; one who has completed may complete again.
CompleteHandled ==
    LET again == Me \in completed /\ AllVoted(Me)
    IN  /\ Running /\ moving.step = "sent" /\ moving.to = "complete"
        /\ \/ RoomComplete(Me) /\ Moved("completed")
           \/ again /\ RoomState(Me) /\ Moved("completed")
           \/ /\ ~again /\ ~CanComplete(Me, QueueItem(Me))
              /\ RoomState(Me) /\ Moved("failed")
        /\ UNCHANGED <<page, enabled, casting, poll>>

MoveLost ==
    /\ moving.step \in {"sent", "moved", "completed"}
    /\ Moved("failed")
    /\ UNCHANGED <<vars, page, enabled, casting, poll>>

\* Mutant of MoveAnswered: navigationInProgress is not reset, and the refresh
\* leaves the buttons disabled.
MoveAnsweredOnly ==
    /\ moving.step \in {"moved", "failed"} /\ MayPoll("move")
    /\ poll' = [poll EXCEPT !["move"] = Sent]
    /\ UNCHANGED <<vars, page, enabled, casting, moving>>

\* No card is selected after a move; the buttons wait for the next render.
MoveAnswered ==
    /\ moving.step \in {"moved", "failed"} /\ MayPoll("move")
    /\ page' = IF moving.step = "moved" THEN [page EXCEPT !.vote = NoVote]
                                        ELSE page
    /\ moving' = NotMoving
    /\ poll' = [poll EXCEPT !["move"] = Sent]
    /\ UNCHANGED <<vars, enabled, casting>>

CompletionAnswered ==
    /\ Running /\ moving.step = "completed"
    /\ Load(Loaded)
    /\ UNCHANGED vars

\* The participant joins and gets the page.  A page without a script may be
\* loaded again.
Enter == RoomJoin(Me) /\ Load(Message("waiting"))

Reload == Me \in joined /\ page.view = "completed" /\ Load(Loaded) /\ UNCHANGED vars

-----------------------------------------------------------------------------

ClientInit == Init /\ page = Message("waiting") /\ enabled = TRUE
              /\ casting = NotCasting /\ moving = NotMoving /\ poll = AllIdle

Polling == \/ \E c \in Ticks : PollSent(c)
           \/ \E c \in Chains : PollHandled(c) \/ Rendered(c) \/ PollLost(c)

Voting == \/ \E v \in Cards : ClickCard(v)
          \/ VoteHandled \/ VoteRefused \/ VoteLost \/ VoteConfirmed

Moving == \/ \E to \in Moves \cup {"complete"} : ClickMove(to)
          \/ MoveHandled \/ CompleteHandled
          \/ MoveLost \/ MoveAnswered \/ CompletionAnswered

\* The organiser, as far as the page shows it.  Bound: the room is neither
\* deleted nor archived meanwhile, and voting starts on the whole queue.
Conducting ==
    \/ \E T \in SUBSET Tasks : SessionCreate(T) \/ SessionQueueAdd(T)
    \/ SessionStart
    \/ SessionReveal \/ SessionRevote \/ SessionAccept \/ SessionFinish

ClientNext == \/ Conducting /\ UNCHANGED clientVars
              \/ Enter \/ Reload \/ Polling \/ Voting \/ Moving

\* The server answers what reaches it and the timer goes on.  Requests and
\* answers may be lost, but not all polls are.  (An answer that is followed by
\* a poll waits for the bound on polls and needs strong fairness for it alone.)
ClientFairness ==
    /\ WF_allVars(\E c \in Ticks : PollSent(c))
    /\ \A c \in Chains : WF_allVars(PollHandled(c)) /\ WF_allVars(Rendered(c))
    /\ SF_allVars(\E c \in Chains : PollHandled(c))
    /\ SF_allVars(\E c \in Chains : Rendered(c))
    /\ WF_allVars(VoteHandled \/ VoteRefused) /\ SF_allVars(VoteConfirmed)
    /\ WF_allVars(MoveHandled \/ CompleteHandled) /\ SF_allVars(MoveAnswered)
    /\ WF_allVars(CompletionAnswered)

ClientSpec == ClientInit /\ [][ClientNext]_allVars
LiveSpec == ClientSpec /\ ClientFairness

-----------------------------------------------------------------------------

\* However many answers overtook each other or were lost, once nothing changes
\* at the server the page comes to show what the server has, and the card that
\* it shows as selected is the stored vote (refresh, room.js:197-217).  The
\* page of one who has completed stays as it is until it is loaded again.
PageCatchesUp ==
    <>[][FALSE]_vars =>
        <>[](Me \in joined => page.view = "completed" \/ page = Answer)

\* A click disables the cards or the buttons, but never for good, whatever
\* becomes of the request (sendVote, navigate, completeVoting,
\* room.js:219-300).  A room that waits or is finished shows no buttons.
ControlsReturn ==
    /\ casting.step # "idle" ~> casting.step = "idle"
    /\ ~enabled ~> (enabled \/ page.view \in {"waiting", "finished"})

\* When the page says that the vote is saved, the task it shows has that vote:
\* "Выберите оценку в часах" stands under that task (room.html:37), and the
\* answer is "Ваш выбор: ... Голос сохранён" (sendVote, room.js:235).
SavedForShownTask ==
    casting.step = "refreshing" /\ page.view = "voting" =>
        LET t == page.task
        IN  currentRound[t] # 0 /\ votes[t][currentRound[t]][Me] = casting.value

=============================================================================
