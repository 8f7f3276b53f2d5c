---------------------------- MODULE AccessProofs ----------------------------
(***************************************************************************)
(* The slot of imports is exclusive, an invitation makes one account,      *)
(* links that were replaced stay of no use, and a transfer of the data is  *)
(* whole, for any number of threads, visitors, browsers, participants and  *)
(* rows.                                                                   *)
(***************************************************************************)
EXTENDS ImportSlot, OrganizerInvitations, ParticipantAccess, DataTransfer,
        SumsAndEstimates

-----------------------------------------------------------------------------
\* The slot.  SlotExclusive is inductive together with the types.

SlotInv == SlotTypeOK /\ SlotExclusive

LEMMA SlotInvInit == SlotInit => SlotInv
  BY SlotAssumption DEF SlotInit, SlotInv, SlotTypeOK, SlotExclusive, Stages

LEMMA SlotInvNext == SlotInv /\ [SlotNext]_slotVars => SlotInv'
<1> SUFFICES ASSUME SlotInv, [SlotNext]_slotVars PROVE SlotInv'
  OBVIOUS
<1> USE SlotAssumption DEF SlotInv, SlotTypeOK, SlotExclusive, Stages
<1>1. ASSUME NEW r \in Threads, EnterView(r) PROVE SlotInv'
  <2>1. CASE Admission(r) = "busy"
    BY <1>1, <2>1 DEF EnterView, Admission
  <2>2. CASE Admission(r) # "busy"
    <3>1. ~admitted[r] /\ flock = NoThread
      BY <1>1, <2>2 DEF EnterView, Admission
    <3>2. /\ stage' = [stage EXCEPT ![r] = "view"] /\ refused' = refused \ {r}
          /\ admitted' = [admitted EXCEPT ![r] = TRUE] /\ flock' = r
          /\ UNCHANGED orphans
      BY <1>1, <2>2, <3>1 DEF EnterView, Entered, Admission
    <3>3. SlotTypeOK'
      BY <3>2
    <3> QED
      BY <3>1, <3>2, <3>3
  <2> QED
    BY <2>1, <2>2
<1>2. ASSUME NEW r \in Threads, StartParser(r) PROVE SlotInv'
  BY <1>2 DEF StartParser, Admission
<1>3. ASSUME NEW r \in Threads, ParserEnds(r) PROVE SlotInv'
  BY <1>3 DEF ParserEnds
<1>4. ASSUME NEW r \in Threads, LeaveView(r) PROVE SlotInv'
  BY <1>4 DEF LeaveView
<1>5. ASSUME NEW p \in Processes, ProcessKilled(p) PROVE SlotInv'
  <2> DEFINE killed == {r \in Threads : ProcessOf[r] = p}
  <2>1. /\ stage' = [r \in Threads |-> IF r \in killed THEN "idle" ELSE stage[r]]
        /\ admitted' = [r \in Threads |-> admitted[r] /\ r \notin killed]
        /\ flock' = IF flock \in killed THEN NoThread ELSE flock
        /\ refused' = refused \ killed
        /\ orphans' = [r \in Threads |->
                         IF r \in killed /\ stage[r] = "parsing" THEN 1 ELSE orphans[r]]
    BY <1>5 DEF ProcessKilled
  <2> HIDE DEF killed
  <2>2. SlotTypeOK'
    BY <2>1
  <2>3. \A r \in Threads : /\ admitted'[r] <=> admitted[r] /\ r \notin killed
                           /\ stage'[r] = IF r \in killed THEN "idle" ELSE stage[r]
    BY <2>1
  <2>4. \A r \in Threads : flock' = r <=> flock = r /\ r \notin killed
    BY <2>1
  <2> QED
    BY <2>1, <2>2, <2>3, <2>4
<1>6. ASSUME NEW r \in Threads, OrphanEnds(r) PROVE SlotInv'
  BY <1>6 DEF OrphanEnds
<1>7. CASE UNCHANGED slotVars
  BY <1>7 DEF slotVars
<1> QED
  BY <1>1, <1>2, <1>3, <1>4, <1>5, <1>6, <1>7 DEF SlotNext, ParserTimeout

\* At most one request is inside the slot, it holds the lock, and its own lock
\* never turns it away (import_slot).
THEOREM SlotAlwaysExclusive == SlotSpec => []SlotExclusive
<1>1. SlotInv => SlotExclusive
  BY DEF SlotInv
<1> QED
  BY <1>1, SlotInvInit, SlotInvNext, PTL DEF SlotSpec

-----------------------------------------------------------------------------
\* Invitations.  Who has made an account has used its invitation up; a row
\* that a registration has locked is there and is not used, and no other
\* registration has locked it.

UsedBehind ==
    \A n \in DOMAIN account :
        LET i == account[n].by
        IN i \in everMade /\ (invitation[i] # Absent => invitation[i].used)

RowsMade == \A i \in Invitations : invitation[i] # Absent => i \in everMade

LockedUnused ==
    \A v \in Visitors : Posted(v, "locked") =>
        invitation[form[v].of] # Absent /\ ~invitation[form[v].of].used

LockedByOne ==
    \A v, w \in Visitors :
        Posted(v, "locked") /\ Posted(w, "locked") /\ form[v].of = form[w].of
            => v = w

InviteInv ==
    /\ InviteTypeOK
    /\ edit = Absent
    /\ UsedBehind /\ RowsMade
    /\ LockedUnused /\ LockedByOne
    /\ InvitationUsedOnce

LEMMA InviteInvInit == InviteInit => InviteInv
  BY InvitationAssumption
  DEF InviteInit, InviteInv, InviteTypeOK, UsedBehind, RowsMade, LockedUnused,
      LockedByOne, Posted, InvitationUsedOnce

LEMMA InviteInvNext ==
  ASSUME EditsOverlap = FALSE
  PROVE InviteInv /\ [InviteNext]_inviteVars => InviteInv'
<1> SUFFICES ASSUME InviteInv, [InviteNext]_inviteVars PROVE InviteInv'
  OBVIOUS
<1> USE InvitationAssumption
    DEF InviteInv, InviteTypeOK, Invitation, Form, Posted
<1>1. ASSUME NEW v \in Visitors, NEW i \in Invitations, NEW login \in Logins,
             InvitationOpened(v, i, login)
      PROVE  InviteInv'
  BY <1>1 DEF InvitationOpened, UsedBehind, RowsMade, LockedUnused, LockedByOne,
              InvitationUsedOnce
<1>2. ASSUME NEW v \in Visitors, InvitationLocked(v) PROVE InviteInv'
  <2>1. /\ form[v] \in Form /\ form[v] # Absent /\ ~Locked(form[v].of)
        /\ UNCHANGED <<invitation, everMade, account, edit>>
    BY <1>2 DEF InvitationLocked
  <2>2. UsedBehind' /\ RowsMade' /\ InvitationUsedOnce'
    BY <2>1 DEF UsedBehind, RowsMade, InvitationUsedOnce
  <2>3. CASE Available(form[v].of)
    <3> DEFINE row == [form[v] EXCEPT !.step = "locked"]
    <3>1. form' = [form EXCEPT ![v] = row]
      BY <1>2, <2>3 DEF InvitationLocked
    <3>2. row \in Form /\ row.of = form[v].of
      BY <2>1
    <3> HIDE DEF row
    <3>3. InviteTypeOK'
      BY <2>1, <3>1, <3>2
    <3>4. LockedUnused'
      BY <2>1, <2>3, <3>1, <3>2 DEF LockedUnused, Available
    <3>5. LockedByOne'
      BY <2>1, <3>1, <3>2 DEF LockedByOne, Locked
    <3> QED
      BY <2>1, <2>2, <3>3, <3>4, <3>5
  <2>4. CASE ~Available(form[v].of)
    <3>1. form' = [form EXCEPT ![v] = Absent]
      BY <1>2, <2>4 DEF InvitationLocked
    <3> QED
      BY <2>1, <2>2, <3>1 DEF LockedUnused, LockedByOne
  <2> QED
    BY <2>3, <2>4
<1>3. ASSUME NEW v \in Visitors, OrganizerRegistered(v) PROVE InviteInv'
  <2>1. CASE LoginTaken(form[v].login)
    BY <1>3, <2>1 DEF OrganizerRegistered, UsedBehind, RowsMade, LockedUnused,
                      LockedByOne, InvitationUsedOnce
  <2>2. CASE ~LoginTaken(form[v].login)
    <3> DEFINE i == form[v].of
               new == [login |-> form[v].login, by |-> i, exists |-> TRUE]
    <3>1. /\ form[v] \in Form /\ i \in Invitations
          /\ invitation[i] # Absent /\ ~invitation[i].used
          /\ invitation[i] \in Invitation /\ new \in Account
      BY <1>3 DEF OrganizerRegistered, LockedUnused, Account
    <3>2. /\ account' = Append(account, new) /\ Len(account) < MaxAccounts
          /\ invitation' = [invitation EXCEPT ![i].used = TRUE]
          /\ form' = [form EXCEPT ![v] = Absent]
          /\ UNCHANGED <<everMade, edit>>
      BY <1>3, <2>2 DEF OrganizerRegistered
    <3>3. \A n \in DOMAIN account : account[n].by # i
      BY <3>1 DEF UsedBehind
    <3>4. /\ DOMAIN account' = 1..(Len(account) + 1)
          /\ \A n \in DOMAIN account : account'[n] = account[n]
          /\ account'[Len(account) + 1] = new
          /\ DOMAIN account = 1..Len(account) /\ Len(account) \in Nat
          /\ account' \in Seq(Account) /\ Len(account') = Len(account) + 1
      BY <3>1, <3>2
    <3>5. InviteTypeOK'
      <4> DEFINE row == [invitation[i] EXCEPT !.used = TRUE]
      <4>1. row \in Invitation
        BY <3>1
      <4>2. invitation' = [invitation EXCEPT ![i] = row]
        BY <3>2
      <4> HIDE DEF row
      <4>3. invitation' \in [Invitations -> Invitation \cup {Absent}]
        BY <4>1, <4>2
      <4>4. form' \in [Visitors -> Form \cup {Absent}]
        BY <3>2
      <4>5. Len(account') <= MaxAccounts
        BY <3>2, <3>4
      <4> QED
        BY <3>2, <3>4, <4>3, <4>4, <4>5
    <3>6. UsedBehind' /\ RowsMade'
      BY <3>1, <3>2, <3>4 DEF UsedBehind, RowsMade
    <3>7. LockedUnused' /\ LockedByOne'
      BY <1>3, <3>1, <3>2 DEF OrganizerRegistered, LockedUnused, LockedByOne
    <3>8. InvitationUsedOnce'
      BY <3>1, <3>3, <3>4 DEF InvitationUsedOnce
    <3> QED
      BY <3>2, <3>5, <3>6, <3>7, <3>8
  <2> QED
    BY <2>1, <2>2
<1>4. ASSUME NEW v \in Visitors, RegistrationAborted(v) PROVE InviteInv'
  BY <1>4 DEF RegistrationAborted, UsedBehind, RowsMade, LockedUnused, LockedByOne,
              InvitationUsedOnce
<1>5. ASSUME NEW i \in Invitations, InvitationMade(i) PROVE InviteInv'
  BY <1>5 DEF InvitationMade, UsedBehind, RowsMade, LockedUnused, LockedByOne,
              InvitationUsedOnce, Account
<1>6. ASSUME NEW i \in Invitations, InvitationDeleted(i) PROVE InviteInv'
  BY <1>6 DEF InvitationDeleted, Locked, UsedBehind, RowsMade, LockedUnused,
              LockedByOne, InvitationUsedOnce
<1>7. ASSUME NEW i \in Invitations, InvitationExpired(i) PROVE InviteInv'
  <2> DEFINE row == [invitation[i] EXCEPT !.expired = TRUE]
  <2>1. invitation[i] # Absent /\ invitation[i] \in Invitation
    BY <1>7 DEF InvitationExpired
  <2>2. row \in Invitation /\ row.used = invitation[i].used /\ row # Absent
    BY <2>1
  <2>3. /\ invitation' = [invitation EXCEPT ![i] = row]
        /\ UNCHANGED <<everMade, account, form, edit>>
    BY <1>7 DEF InvitationExpired
  <2> HIDE DEF row
  <2> QED
    BY <2>1, <2>2, <2>3 DEF UsedBehind, RowsMade, LockedUnused, LockedByOne,
                            InvitationUsedOnce
<1>8. ASSUME NEW n \in 1..MaxAccounts, OrganizerDeleted(n) PROVE InviteInv'
  <2> DEFINE row == [account[n] EXCEPT !.exists = FALSE]
  <2>1. n \in 1..Len(account) /\ account[n] \in Account
    BY <1>8 DEF OrganizerDeleted
  <2>2. row \in Account /\ row.by = account[n].by
    BY <2>1 DEF Account
  <2>3. /\ account' = [account EXCEPT ![n] = row]
        /\ UNCHANGED <<invitation, everMade, form, edit>>
    BY <1>8 DEF OrganizerDeleted
  <2> HIDE DEF row
  <2>4. /\ account' \in Seq(Account) /\ Len(account') = Len(account)
        /\ DOMAIN account' = DOMAIN account
        /\ \A k \in DOMAIN account : account'[k].by = account[k].by
    BY <2>1, <2>2, <2>3
  <2> QED
    BY <2>3, <2>4 DEF UsedBehind, RowsMade, LockedUnused, LockedByOne,
                      InvitationUsedOnce
<1>9. CASE UNCHANGED inviteVars
  BY <1>9 DEF inviteVars, UsedBehind, RowsMade, LockedUnused, LockedByOne,
              InvitationUsedOnce
<1> QED
  BY <1>1, <1>2, <1>3, <1>4, <1>5, <1>6, <1>7, <1>8, <1>9
  DEF InviteNext, Registration, Administration

\* As long as no label is edited meanwhile, an invitation makes one account,
\* however many visitors post its form (organizer_invitation_accept).
THEOREM InvitationAlwaysUsedOnce ==
  ASSUME EditsOverlap = FALSE
  PROVE  InviteSpec => []InvitationUsedOnce
<1>1. InviteInv => InvitationUsedOnce
  BY DEF InviteInv
<1>2. InviteInv /\ [InviteNext]_inviteVars => InviteInv'
  BY InviteInvNext
<1> QED
  BY <1>1, <1>2, InviteInvInit, PTL DEF InviteSpec

-----------------------------------------------------------------------------
\* Participants.  Every token that anybody holds was made, and no two hold the
\* same one.

TokensMade ==
    /\ \A i \in DOMAIN person : person[i].token <= made
    /\ \A i, j \in DOMAIN person : person[i].token = person[j].token => i = j

LinksInv == AccessTypeOK /\ TokensMade

\* What a step does to the rows: it changes neither their names nor, except for
\* one that is made now, their tokens, and adds at most one row.
RowsStep ==
    /\ Len(person') >= Len(person)
    /\ made' \in {made, made + 1}
    /\ \A i \in DOMAIN person :
          /\ person'[i].name = person[i].name
          /\ person'[i].seen = person[i].seen
          /\ person[i].saved => person'[i].saved
          /\ \/ person'[i].token = person[i].token
             \/ made' = made + 1 /\ person'[i].token = made + 1
    /\ \A i \in DOMAIN person' \ DOMAIN person :
          made' = made + 1 /\ person'[i].token = made + 1

\* Facts of sequences: what their elements are, and what replacing one does.
LEMMA Elements ==
  ASSUME NEW S, NEW s \in Seq(S)
  PROVE  /\ Len(s) \in Nat /\ DOMAIN s = 1..Len(s)
         /\ \A i \in DOMAIN s : s[i] \in S
  OBVIOUS

LEMMA Replaced ==
  ASSUME NEW S, NEW s \in Seq(S), NEW k \in DOMAIN s, NEW row \in S, NEW t,
         t = [s EXCEPT ![k] = row]
  PROVE  /\ t \in Seq(S) /\ Len(t) = Len(s) /\ DOMAIN t = DOMAIN s
         /\ \A i \in DOMAIN s : t[i] = IF i = k THEN row ELSE s[i]
<1>1. Len(s) \in Nat /\ DOMAIN s = 1..Len(s) /\ \A i \in DOMAIN s : s[i] \in S
  BY Elements
<1>2. DOMAIN t = DOMAIN s /\ \A i \in DOMAIN s : t[i] = IF i = k THEN row ELSE s[i]
  OBVIOUS
<1>3. t \in [1..Len(s) -> S]
  BY <1>1
<1>4. t \in Seq(S)
  BY <1>1, <1>3
<1>5. Len(t) = Len(s)
  BY <1>1, <1>3
<1> QED
  BY <1>2, <1>4, <1>5

\* The rows, and the numbers of their tokens.
LEMMA RowFacts ==
  ASSUME AccessTypeOK
  PROVE  /\ made \in Nat /\ person \in Seq(Person)
         /\ Len(person) \in Nat /\ DOMAIN person = 1..Len(person)
         /\ \A i \in DOMAIN person : person[i] \in Person /\ person[i].token \in Nat
<1> USE AccessAssumption
<1>1. made \in Nat /\ person \in Seq(Person)
  BY DEF AccessTypeOK
<1>2. /\ Len(person) \in Nat /\ DOMAIN person = 1..Len(person)
      /\ \A i \in DOMAIN person : person[i] \in Person
  BY <1>1, Elements
<1>3. \A row \in Person : row.token \in Nat
  BY DEF Person
<1> QED
  BY <1>1, <1>2, <1>3

LEMMA LinksInvInit == AccessInit => LinksInv
<1> SUFFICES ASSUME AccessInit PROVE LinksInv
  OBVIOUS
<1>1. person \in Seq(Person) /\ Len(person) = 0 /\ DOMAIN person = {}
  BY DEF AccessInit
<1>2. made \in 0..MaxTokens /\ Len(person) <= MaxPeople /\ 0 \in 0..MaxTokens
  BY <1>1, AccessAssumption DEF AccessInit
<1>3. /\ cookie \in [Browsers -> 0..MaxTokens] /\ over \in BOOLEAN
      /\ running \in [Browsers -> Requested \cup {Ready}]
  BY <1>2 DEF AccessInit
<1> QED
  BY <1>1, <1>2, <1>3 DEF LinksInv, AccessTypeOK, TokensMade

LEMMA JoinStep ==
  ASSUME LinksInv, NEW b \in Browsers, JoinSaved(b)
  PROVE  LinksInv' /\ RowsStep
<1> USE AccessAssumption
<1> DEFINE n == running[b].name
           m == running[b].seen
           new == [name |-> n, token |-> made + 1, saved |-> FALSE, seen |-> m]
           turnedAway == \/ \E i \in DOMAIN person : person[i].name = n
                         \/ Len(person) = MaxPeople \/ made = MaxTokens
<1>1. n \in People /\ m \in 0..MaxPeople
  BY DEF JoinSaved, Runs, LinksInv, AccessTypeOK, Requested
<1>2. /\ running' \in [Browsers -> Requested \cup {Ready}] /\ over' = over
  BY DEF JoinSaved, Ends, LinksInv, AccessTypeOK
<1>3. CASE turnedAway
  <2>1. UNCHANGED <<person, made, cookie>>
    BY <1>3 DEF JoinSaved
  <2> QED
    BY <1>2, <2>1, RowFacts DEF LinksInv, AccessTypeOK, TokensMade, RowsStep
<1>4. CASE ~turnedAway
  <2>1. /\ Len(person) < MaxPeople /\ made < MaxTokens
        /\ made' = made + 1 /\ person' = Append(person, new)
        /\ cookie' = [cookie EXCEPT ![b] = made + 1]
    <3>1. /\ Len(person) \in Nat /\ Len(person) <= MaxPeople
          /\ made \in Nat /\ made <= MaxTokens
      BY RowFacts DEF LinksInv, AccessTypeOK
    <3>2. Len(person) < MaxPeople /\ made < MaxTokens
      BY <1>4, <3>1
    <3> QED
      BY <1>4, <3>2 DEF JoinSaved
  <2>2. /\ made \in Nat /\ person \in Seq(Person) /\ made + 1 \in 1..MaxTokens
        /\ \A i \in DOMAIN person : person[i].token \in Nat
    BY <2>1, RowFacts DEF LinksInv, AccessTypeOK
  <2>3. new \in Person
    BY <1>1, <2>2 DEF Person
  <2>4. new.token = made + 1
    OBVIOUS
  <2> HIDE DEF n, m, new, turnedAway
  <2>5. /\ person' \in Seq(Person) /\ Len(person') = Len(person) + 1
        /\ Len(person) \in Nat
        /\ DOMAIN person = 1..Len(person) /\ DOMAIN person' = 1..(Len(person) + 1)
        /\ \A i \in DOMAIN person : person'[i] = person[i]
        /\ person'[Len(person) + 1] = new
    BY <2>1, <2>2, <2>3
  <2>6. AccessTypeOK'
    BY <1>2, <2>1, <2>2, <2>5 DEF LinksInv, AccessTypeOK
  <2>7. \A i \in DOMAIN person : person[i].token \in Nat /\ person[i].token <= made
    BY <2>2 DEF LinksInv, TokensMade
  <2>8. TokensMade'
    BY <2>1, <2>2, <2>4, <2>5, <2>7 DEF LinksInv, TokensMade
  <2>9. RowsStep
    BY <2>1, <2>2, <2>4, <2>5 DEF RowsStep
  <2> QED
    BY <2>6, <2>8, <2>9 DEF LinksInv
<1> QED
  BY <1>3, <1>4

LEMMA LinksInvNext ==
  LinksInv /\ [AccessNext]_accessVars => LinksInv' /\ RowsStep
<1> SUFFICES ASSUME LinksInv, [AccessNext]_accessVars PROVE LinksInv' /\ RowsStep
  OBVIOUS
<1> USE AccessAssumption
<1>0. /\ made \in Nat /\ person \in Seq(Person)
      /\ Len(person) \in Nat /\ DOMAIN person = 1..Len(person)
      /\ \A i \in DOMAIN person : person[i] \in Person /\ person[i].token \in Nat
  BY RowFacts DEF LinksInv
<1>1. ASSUME UNCHANGED <<person, made>>, AccessTypeOK' PROVE LinksInv' /\ RowsStep
  BY <1>0, <1>1 DEF LinksInv, TokensMade, RowsStep
<1>2. ASSUME NEW b \in Browsers, NEW n \in People, JoinRead(b, n)
      PROVE  LinksInv' /\ RowsStep
  <2>1. [op |-> "join", name |-> n, seen |-> Len(person)] \in Requested
    BY <1>0 DEF Requested, LinksInv, AccessTypeOK
  <2> QED
    BY <1>1, <1>2, <2>1 DEF JoinRead, Begins, LinksInv, AccessTypeOK
<1>3. ASSUME NEW b \in Browsers, NEW n \in People, JoinRefused(b, n)
      PROVE  LinksInv' /\ RowsStep
  BY <1>1, <1>3 DEF JoinRefused, accessVars, LinksInv, AccessTypeOK
<1>4. ASSUME NEW b \in Browsers, NEW token \in Tokens, ResumeRead(b, token)
      PROVE  LinksInv' /\ RowsStep
  <2>1. [op |-> "resume", token |-> token] \in Requested
    BY DEF Requested, Tokens, LinksInv, AccessTypeOK
  <2> QED
    BY <1>1, <1>4, <2>1, SMTT(30) DEF ResumeRead, Begins, LinksInv, AccessTypeOK
<1>5. ASSUME NEW b \in Browsers, JoinSaved(b) PROVE LinksInv' /\ RowsStep
  BY <1>5, JoinStep
<1>6. ASSUME NEW b \in Browsers, ResumeSaved(b) PROVE LinksInv' /\ RowsStep
  <2>1. running[b].token \in 1..MaxTokens
    BY <1>6 DEF ResumeSaved, Runs, LinksInv, AccessTypeOK, Requested
  <2> QED
    BY <1>1, <1>6, <2>1 DEF ResumeSaved, Ends, LinksInv, AccessTypeOK
<1>7. ASSUME NEW b \in Browsers, ParticipantRead(b) PROVE LinksInv' /\ RowsStep
  <2>1. PICK i \in Holders(cookie[b]) :
          /\ Begins(b, [op |-> "save", who |-> i, row |-> person[i]])
          /\ UNCHANGED <<person, made, cookie, over>>
    BY <1>7 DEF ParticipantRead
  <2>2. i \in 1..MaxPeople /\ person[i] \in Person
    BY <1>0 DEF Holders, LinksInv, AccessTypeOK
  <2>3. [op |-> "save", who |-> i, row |-> person[i]] \in Requested
    BY <2>2 DEF Requested
  <2> QED
    BY <1>1, <2>1, <2>3 DEF Begins, LinksInv, AccessTypeOK
<1>8. ASSUME NEW b \in Browsers, ParticipantSaved(b) PROVE LinksInv' /\ RowsStep
  <2> DEFINE k == running[b].who
             row == [person[k] EXCEPT !.saved = TRUE]
  <2>1. /\ person' = [person EXCEPT ![k] = row]
        /\ running' = [running EXCEPT ![b] = Ready]
        /\ UNCHANGED <<made, cookie, over>>
    BY <1>8 DEF ParticipantSaved, SavedRow, Ends
  <2>2. CASE k \notin DOMAIN person
    <3>1. person' = person
      BY <1>0, <2>1, <2>2
    <3> QED
      BY <1>1, <2>1, <3>1 DEF LinksInv, AccessTypeOK
  <2>3. CASE k \in DOMAIN person
    <3>1. person[k] \in Person
      BY <1>0, <2>3
    <3>2. /\ row \in Person /\ row.name = person[k].name
          /\ row.seen = person[k].seen
          /\ row.token = person[k].token /\ row.saved
      BY <3>1 DEF Person
    <3> HIDE DEF row, k
    <3>3. /\ person' \in Seq(Person) /\ Len(person') = Len(person)
          /\ DOMAIN person' = DOMAIN person
          /\ \A i \in DOMAIN person : person'[i] = IF i = k THEN row ELSE person[i]
      BY <1>0, <2>1, <2>3, <3>2, Replaced
    <3>4. AccessTypeOK'
      BY <2>1, <3>3 DEF LinksInv, AccessTypeOK
    <3>5. Len(person) \in Nat /\ \A i \in DOMAIN person : person'[i].token = person[i].token
      BY <1>0, <3>2, <3>3
    <3> QED
      BY <2>1, <3>2, <3>3, <3>4, <3>5 DEF LinksInv, TokensMade, RowsStep
  <2> QED
    BY <2>2, <2>3
<1>9. ASSUME NEW k \in 1..MaxPeople, ParticipantResumeRotate(k)
      PROVE  LinksInv' /\ RowsStep
  <2> DEFINE row == [person[k] EXCEPT !.token = made + 1]
  <2>1. /\ k \in DOMAIN person /\ made < MaxTokens /\ made' = made + 1
        /\ person' = [person EXCEPT ![k] = row]
        /\ UNCHANGED <<cookie, running, over>>
    BY <1>9 DEF ParticipantResumeRotate, RotatedRow
  <2>2. person[k] \in Person /\ made + 1 \in 1..MaxTokens
    BY <1>0, <2>1
  <2>3. /\ row \in Person /\ row.name = person[k].name
        /\ row.seen = person[k].seen
        /\ row.token = made + 1 /\ row.saved = person[k].saved
    BY <2>2 DEF Person
  <2> HIDE DEF row
  <2>4. /\ person' \in Seq(Person) /\ Len(person') = Len(person)
        /\ Len(person) \in Nat
        /\ DOMAIN person' = DOMAIN person
        /\ \A i \in DOMAIN person : person'[i] = IF i = k THEN row ELSE person[i]
    BY <1>0, <2>1, <2>3, Replaced
  <2>5. AccessTypeOK'
    BY <2>1, <2>2, <2>4 DEF LinksInv, AccessTypeOK
  <2>6. \A i \in DOMAIN person : person[i].token \in Nat /\ person[i].token <= made
    BY <1>0 DEF LinksInv, TokensMade
  <2>7. TokensMade'
    BY <1>0, <2>1, <2>3, <2>4, <2>6 DEF LinksInv, TokensMade
  <2>8. RowsStep
    BY <1>0, <2>1, <2>3, <2>4 DEF RowsStep
  <2> QED
    BY <2>5, <2>7, <2>8 DEF LinksInv
<1>10. ASSUME RoomOver PROVE LinksInv' /\ RowsStep
  BY <1>1, <1>10 DEF RoomOver, LinksInv, AccessTypeOK
<1>11. CASE UNCHANGED accessVars
  BY <1>1, <1>11 DEF accessVars, LinksInv, AccessTypeOK
<1> QED
  BY <1>2, <1>3, <1>4, <1>5, <1>6, <1>7, <1>8, <1>9, <1>10, <1>11 DEF AccessNext

\* A personal link that was replaced never gives access again, and nothing of
\* what a participant has done is lost, whatever requests were under way
\* (participant_resume_rotate, room_resume, _participant_from_request).
THEOREM RevokedLinksStayRevoked == AccessSpec => RevokedForGood
<1>1. ASSUME LinksInv, RowsStep, LinksInv' PROVE RevokedStep
  <2>2. /\ made \in Nat /\ \A i \in DOMAIN person : person[i].token \in Nat
    BY <1>1, RowFacts DEF LinksInv
  <2>3. ASSUME NEW token \in Tokens, Holders(token) = {} PROVE Holders(token)' = {}
    <3>1. token \in Nat /\ token <= made
      BY <2>2 DEF Tokens
    <3>2. \A i \in DOMAIN person : person[i].token # token
      BY <2>3 DEF Holders
    <3>3. \A i \in DOMAIN person' : person'[i].token # token
      BY <1>1, <2>2, <3>1, <3>2 DEF RowsStep
    <3> QED
      BY <3>3 DEF Holders
  <2> QED
    BY <1>1, <2>3 DEF RowsStep, RevokedStep
<1>2. LinksInv /\ [AccessNext]_accessVars => LinksInv' /\ [RevokedStep]_accessVars
  BY <1>1, LinksInvNext
<1> QED
  BY <1>2, LinksInvInit, PTL DEF AccessSpec, RevokedForGood

\* The names that a join has read are still there, and none is like its own.
NamesSeen ==
    \A b \in Browsers : Runs(b, "join") =>
        /\ running[b].seen <= Len(person)
        /\ \A i \in 1..running[b].seen : ~Alike(person[i].name, running[b].name)

NamesInv == LinksInv /\ NamesSeen /\ NamesApart

\* A step that begins no join and adds no row.
LEMMA NamesKept ==
  ASSUME NamesInv, LinksInv', RowsStep, Len(person') = Len(person),
         \A c \in Browsers :
            Runs(c, "join")' => Runs(c, "join") /\ running'[c] = running[c]
  PROVE  NamesInv'
<1>1. /\ DOMAIN person' = DOMAIN person
      /\ Len(person) \in Nat /\ DOMAIN person = 1..Len(person)
      /\ \A i \in DOMAIN person : /\ person'[i].name = person[i].name
                                  /\ person'[i].seen = person[i].seen
  BY RowFacts, Elements DEF NamesInv, LinksInv, AccessTypeOK, RowsStep
<1>2. NamesSeen'
  <2>1. SUFFICES ASSUME NEW c \in Browsers, Runs(c, "join")'
                 PROVE  /\ running'[c].seen <= Len(person')
                        /\ \A i \in 1..running'[c].seen :
                              ~Alike(person'[i].name, running'[c].name)
    BY DEF NamesSeen, Alike
  <2>2. /\ Runs(c, "join") /\ running'[c] = running[c]
        /\ running[c].seen \in Nat
    BY <2>1, AccessAssumption
    DEF NamesInv, LinksInv, AccessTypeOK, Requested, Runs
  <2> QED
    BY <1>1, <2>2 DEF NamesInv, NamesSeen
<1>3. NamesApart'
  BY <1>1 DEF NamesInv, NamesApart, LinksInv, TokensMade, Alike
<1> QED
  BY <1>2, <1>3 DEF NamesInv

\* A join that is saved: no name is the same letter by letter, and none that it
\* had read is like its own.
LEMMA NameJoins ==
  ASSUME NamesInv, LinksInv', RowsStep, NEW b \in Browsers, JoinSaved(b)
  PROVE  NamesInv'
<1> DEFINE n == running[b].name
           m == running[b].seen
           new == [name |-> n, token |-> made + 1, saved |-> FALSE, seen |-> m]
           turnedAway == \/ \E i \in DOMAIN person : person[i].name = n
                         \/ Len(person) = MaxPeople \/ made = MaxTokens
<1>1. \A c \in Browsers :
         Runs(c, "join")' => Runs(c, "join") /\ running'[c] = running[c]
  BY DEF JoinSaved, Ends, Runs, NamesInv, LinksInv, AccessTypeOK
<1>2. CASE turnedAway
  <2>1. person' = person
    BY <1>2 DEF JoinSaved
  <2> QED
    BY <1>1, <2>1, NamesKept
<1>3. CASE ~turnedAway
  <2>1. person' = Append(person, new) /\ person \in Seq(Person)
    BY <1>3 DEF JoinSaved, NamesInv, LinksInv, AccessTypeOK
  <2>2. new.name = n /\ new.seen = m
    OBVIOUS
  <2>3. /\ \A i \in DOMAIN person : person[i].name # n
        /\ m \in Nat /\ \A i \in 1..m : ~Alike(person[i].name, n)
    <3>1. Runs(b, "join")
      BY DEF JoinSaved
    <3>2. m \in Nat
      BY <3>1, AccessAssumption
      DEF NamesInv, LinksInv, AccessTypeOK, Requested, Runs
    <3>3. \A i \in 1..m : ~Alike(person[i].name, n)
      BY <3>1 DEF NamesInv, NamesSeen
    <3> QED
      BY <1>3, <3>2, <3>3
  <2> HIDE DEF n, m, new, turnedAway
  <2>4. /\ Len(person) \in Nat
        /\ DOMAIN person = 1..Len(person) /\ DOMAIN person' = 1..(Len(person) + 1)
        /\ Len(person') = Len(person) + 1
        /\ \A i \in DOMAIN person : person'[i] = person[i]
        /\ person'[Len(person) + 1] = new
    BY <2>1
  <2>5. NamesApart'
    <3>1. SUFFICES ASSUME NEW i \in DOMAIN person', NEW j \in DOMAIN person', i < j
                   PROVE  /\ person'[i].name # person'[j].name
                          /\ person'[i].token # person'[j].token
                          /\ i <= person'[j].seen =>
                                ~Alike(person'[i].name, person'[j].name)
      BY DEF NamesApart, Alike
    <3>2. i \in DOMAIN person /\ person'[i] = person[i] /\ i \in Nat /\ i # 0
      BY <2>4, <3>1
    <3>3. person'[i].token # person'[j].token
      BY <2>4, <3>1 DEF LinksInv, TokensMade
    <3>4. CASE j \in DOMAIN person
      BY <2>4, <3>1, <3>2, <3>3, <3>4 DEF NamesInv, NamesApart
    <3>5. CASE j = Len(person) + 1
      BY <2>2, <2>3, <2>4, <3>2, <3>3, <3>5
    <3> QED
      BY <2>4, <3>4, <3>5
  <2>6. NamesSeen'
    <3>1. SUFFICES ASSUME NEW c \in Browsers, Runs(c, "join")'
                   PROVE  /\ running'[c].seen <= Len(person')
                          /\ \A i \in 1..running'[c].seen :
                                ~Alike(person'[i].name, running'[c].name)
      BY DEF NamesSeen, Alike
    <3>2. /\ Runs(c, "join") /\ running'[c] = running[c]
          /\ running[c].seen \in Nat
      BY <1>1, <3>1, AccessAssumption
      DEF NamesInv, LinksInv, AccessTypeOK, Requested, Runs
    <3>3. /\ running[c].seen <= Len(person)
          /\ \A i \in 1..running[c].seen : ~Alike(person[i].name, running[c].name)
      BY <3>2 DEF NamesInv, NamesSeen
    <3> QED
      BY <2>4, <3>2, <3>3
  <2> QED
    BY <2>5, <2>6 DEF NamesInv
<1> QED
  BY <1>2, <1>3

\* Rows with the same numbers are as many.
LEMMA RowsAsLong ==
  ASSUME LinksInv, LinksInv', DOMAIN person' = DOMAIN person
  PROVE  Len(person') = Len(person)
BY Elements DEF LinksInv, AccessTypeOK

LEMMA NamesInvNext ==
  ASSUME NamesInv, [AccessNext]_accessVars
  PROVE  NamesInv'
<1>1. LinksInv' /\ RowsStep
  BY LinksInvNext DEF NamesInv
<1>2. running \in [Browsers -> Requested \cup {Ready}]
  BY DEF NamesInv, LinksInv, AccessTypeOK
<1>3. ASSUME NEW b \in Browsers, NEW n \in People, JoinRead(b, n) PROVE NamesInv'
  <2> DEFINE r == [op |-> "join", name |-> n, seen |-> Len(person)]
  <2>1. /\ person' = person /\ \A i \in DOMAIN person : ~Alike(person[i].name, n)
        /\ running' = [running EXCEPT ![b] = r]
    BY <1>3 DEF JoinRead, Begins, NameTaken
  <2>2. Len(person) \in Nat /\ DOMAIN person = 1..Len(person)
    BY RowFacts DEF NamesInv, LinksInv
  <2>3. r.name = n /\ r.seen = Len(person)
    OBVIOUS
  <2> HIDE DEF r
  <2>4. \A c \in Browsers : /\ Runs(c, "join")' /\ c # b => Runs(c, "join")
                            /\ running'[c] = IF c = b THEN r ELSE running[c]
    BY <1>2, <2>1 DEF Runs
  <2>5. NamesSeen'
    BY <2>1, <2>2, <2>3, <2>4 DEF NamesInv, NamesSeen, Alike
  <2>6. NamesApart'
    BY <2>1 DEF NamesInv, NamesApart, Alike
  <2> QED
    BY <1>1, <2>5, <2>6 DEF NamesInv
<1>4. ASSUME NEW b \in Browsers, NEW n \in People, JoinRefused(b, n) PROVE NamesInv'
  BY <1>1, <1>4, NamesKept DEF JoinRefused, accessVars, Runs
<1>5. ASSUME NEW b \in Browsers, NEW token \in Tokens, ResumeRead(b, token)
      PROVE  NamesInv'
  <2>1. CASE running' = running
    BY <1>1, <1>5, <2>1, NamesKept DEF ResumeRead, Runs
  <2>2. CASE running' = [running EXCEPT ![b] = [op |-> "resume", token |-> token]]
    BY <1>1, <1>2, <1>5, <2>2, NamesKept DEF ResumeRead, Runs
  <2> QED
    BY <1>5, <2>1, <2>2 DEF ResumeRead, Begins
<1>6. ASSUME NEW b \in Browsers, JoinSaved(b) PROVE NamesInv'
  BY <1>1, <1>6, NameJoins
<1>7. ASSUME NEW b \in Browsers, ResumeSaved(b) PROVE NamesInv'
  BY <1>1, <1>2, <1>7, NamesKept DEF ResumeSaved, Ends, Runs
<1>8. ASSUME NEW b \in Browsers, ParticipantRead(b) PROVE NamesInv'
  <2>1. PICK i \in Holders(cookie[b]) :
          /\ running' = [running EXCEPT ![b] = [op |-> "save", who |-> i, row |-> person[i]]]
          /\ person' = person
    BY <1>8 DEF ParticipantRead, Begins
  <2> QED
    BY <1>1, <1>2, <2>1, NamesKept DEF Runs
<1>9. ASSUME NEW b \in Browsers, ParticipantSaved(b) PROVE NamesInv'
  <2>1. \A c \in Browsers :
           Runs(c, "join")' => Runs(c, "join") /\ running'[c] = running[c]
    BY <1>2, <1>9 DEF ParticipantSaved, Ends, Runs
  <2>2. DOMAIN person' = DOMAIN person
    BY <1>9 DEF ParticipantSaved
  <2>3. Len(person') = Len(person)
    BY <1>1, <2>2, RowsAsLong DEF NamesInv
  <2> QED
    BY <1>1, <2>1, <2>3, NamesKept
<1>10. ASSUME NEW i \in 1..MaxPeople, ParticipantResumeRotate(i) PROVE NamesInv'
  <2>1. DOMAIN person' = DOMAIN person /\ running' = running
    BY <1>10 DEF ParticipantResumeRotate
  <2>2. Len(person') = Len(person)
    BY <1>1, <2>1, RowsAsLong DEF NamesInv
  <2> QED
    BY <1>1, <2>1, <2>2, NamesKept DEF Runs
<1>11. CASE RoomOver
  BY <1>1, <1>11, NamesKept DEF RoomOver, Runs
<1>12. CASE UNCHANGED accessVars
  BY <1>1, <1>12, NamesKept DEF accessVars, Runs
<1> QED
  BY <1>3, <1>4, <1>5, <1>6, <1>7, <1>8, <1>9, <1>10, <1>11, <1>12 DEF AccessNext

\* However joins overlap, no two participants have the same name letter by
\* letter, nor the same token; and if their names differ in case only, the later
\* one looked at the names before the earlier one was there (room_join,
\* participant_resume_rotate).
THEOREM NamesAlwaysApart == AccessSpec => []NamesApart
<1>1. AccessInit => NamesInv
  <2>1. AccessInit => NamesSeen /\ NamesApart
    BY DEF AccessInit, NamesSeen, NamesApart, Runs
  <2> QED
    BY <2>1, LinksInvInit DEF NamesInv
<1>2. NamesInv /\ [AccessNext]_accessVars => NamesInv'
  BY NamesInvNext
<1>3. NamesInv => NamesApart
  BY DEF NamesInv
<1> QED
  BY <1>1, <1>2, <1>3, PTL DEF AccessSpec

-----------------------------------------------------------------------------
\* A transfer.  The file is one state of the origin, whose rows are exact and
\* refer to rows; the target is empty as long as an import is under way, and
\* after it holds the file and rows with later keys.

ExactRow == {r \in Row : r.exact}

WholeRows(rows) == rows \subseteq ExactRow /\ References(rows)

\* What the export has read of its snapshot.
Capturing ==
    IF snapshot # NoRows
    THEN /\ WholeRows(snapshot)
         /\ captured \in {{}, {1}}
         /\ bundle = {r \in snapshot : r.table \in captured}
    ELSE captured \in {{}, Tables} /\ WholeRows(bundle)

\* Nothing gets into the target beside the import.
WorkAlone == work # NoRows => File /\ target = {}

KeysBehind == \A r \in target : r.key <= sequence[r.table]

LaterKeys ==
    \A r \in target \ bundle, q \in bundle : r.table = q.table => r.key > q.key

TransferInv ==
    /\ sequence \in [Tables -> Nat]
    /\ WholeRows(origin) /\ Capturing /\ WorkAlone
    /\ target \subseteq ExactRow
    /\ applied => /\ File /\ bundle \subseteq target /\ References(target)
                  /\ KeysBehind /\ LaterKeys

LEMMA TransferInvInit == TransferInit => TransferInv
BY TransferAssumption DEF TransferInit, TransferInv, WholeRows, References, Capturing, WorkAlone, Tables

\* Rows with their references, and one row for a key.
LEMMA WholePlus ==
  ASSUME NEW rows, WholeRows(rows), NEW k \in Keys
  PROVE  /\ WholeRows(rows \cup {RowOf(1, k)})
         /\ WholeRows(rows \cup Pair(k))
         /\ WholeRows(rows \ Pair(k))
<1>1. /\ RowOf(1, k) \in ExactRow /\ RowOf(2, k) \in ExactRow
      /\ RowOf(1, k).table = 1 /\ RowOf(1, k).key = k
      /\ RowOf(2, k).table = 2 /\ RowOf(2, k).key = k
  BY DEF RowOf, ExactRow, Row, Tables
<1>2. \A r \in ExactRow : r.table = 1 \/ r.table = 2
  BY DEF ExactRow, Row, Tables
<1>3. \A r \in ExactRow : r = RowOf(r.table, r.key)
  BY DEF ExactRow, Row, RowOf
<1>4. WholeRows(rows \cup {RowOf(1, k)})
  BY <1>1 DEF WholeRows, References
<1>5. WholeRows(rows \cup Pair(k))
  BY <1>1 DEF WholeRows, References, Pair
<1>6. WholeRows(rows \ Pair(k))
  <2>1. ASSUME NEW r \in rows \ Pair(k), r.table = 2
        PROVE  \E q \in rows \ Pair(k) : q.table = 1 /\ q.key = r.key
    <3>1. PICK q \in rows : q.table = 1 /\ q.key = r.key
      BY <2>1 DEF WholeRows, References
    <3>2. r.key # k
      BY <1>3, <2>1 DEF WholeRows, Pair
    <3>3. q \notin Pair(k)
      BY <1>1, <3>1, <3>2 DEF Pair
    <3> QED
      BY <3>1, <3>3
  <2> QED
    BY <2>1 DEF WholeRows, References
<1> QED
  BY <1>4, <1>5, <1>6

\* The sequences are set behind the keys of the rows.
LEMMA SequencesBehind ==
  ASSUME NEW rows \in SUBSET Row
  PROVE  /\ Advanced(rows) \in [Tables -> Nat]
         /\ \A r \in rows : r.key <= Advanced(rows)[r.table]
<1> DEFINE keys(m) == {r.key : r \in {q \in rows : q.table = m}}
<1>1. ASSUME NEW m \in Tables, keys(m) # {}
      PROVE  Max(keys(m)) \in Nat /\ \A k \in keys(m) : k <= Max(keys(m))
  <2>1. keys(m) \in SUBSET (0 .. MaxKey)
    BY TransferAssumption DEF Row, Keys
  <2>2. \E k \in keys(m) : \A j \in keys(m) : j <= k
    <3> HIDE DEF keys
    <3> QED
      BY <1>1, <2>1, TransferAssumption, LargestOf
  <2>3. \E k \in keys(m) : \A j \in keys(m) : k >= j
    <3>1. \A j, k \in keys(m) : k >= j <=> j <= k
      BY <2>1, TransferAssumption
    <3> HIDE DEF keys
    <3> QED
      BY <2>2, <3>1
  <2>4. Max(keys(m)) \in keys(m) /\ \A j \in keys(m) : Max(keys(m)) >= j
    <3> HIDE DEF keys
    <3> QED
      BY <2>3 DEF Max
  <2> HIDE DEF keys
  <2> QED
    BY <2>1, <2>4, TransferAssumption
<1>2. \A m \in Tables : Advanced(rows)[m] = IF keys(m) = {} THEN 0 ELSE Max(keys(m))
  BY DEF Advanced
<1>3. Advanced(rows) \in [Tables -> Nat]
  <2>1. Advanced(rows) = [m \in Tables |-> IF keys(m) = {} THEN 0 ELSE Max(keys(m))]
    BY DEF Advanced
  <2> HIDE DEF keys
  <2> QED
    BY <1>1, <2>1
<1>4. ASSUME NEW r \in rows
      PROVE  r.key <= Advanced(rows)[r.table]
  <2>1. r.table \in Tables /\ r.key \in keys(r.table)
    BY DEF Row
  <2> HIDE DEF keys
  <2> QED
    BY <1>1, <1>2, <2>1
<1> QED
  BY <1>3, <1>4

LEMMA ExportKeepsInv ==
  ASSUME TransferInv, Export
  PROVE  TransferInv'
<1>1. UNCHANGED <<origin, target, sequence, work, applied>> /\ ~File
  BY DEF Export, ExportBegun, ExportAborted, TableCaptured, importVars, TransferInv, Capturing,
         File, Tables
<1>2. work = NoRows /\ ~applied
  BY <1>1 DEF TransferInv, WorkAlone
<1>3. WorkAlone'
  BY <1>1, <1>2 DEF WorkAlone
<1>4. CASE ExportBegun
  <2>1. Capturing'
    BY <1>4 DEF ExportBegun, Capturing, TransferInv, WholeRows, References
  <2> QED
    BY <1>1, <1>2, <1>3, <2>1 DEF TransferInv
<1>5. CASE ExportAborted
  <2>1. Capturing'
    BY <1>5 DEF ExportAborted, Capturing, TransferInv, WholeRows, References
  <2> QED
    BY <1>1, <1>2, <1>3, <2>1 DEF TransferInv
<1>6. ASSUME NEW m \in Tables, TableCaptured(m)
      PROVE  TransferInv'
  <2>1. /\ WholeRows(snapshot)
        /\ snapshot # NoRows /\ captured \in {{}, {1}}
        /\ bundle = {r \in snapshot : r.table \in captured}
    BY <1>6 DEF TableCaptured, TransferInv, Capturing
  <2>2. /\ captured = 1..(m - 1) /\ captured' = captured \cup {m}
        /\ bundle' = bundle \cup {r \in snapshot : r.table = m}
        /\ snapshot' = IF m = 2 THEN NoRows ELSE snapshot
    BY <1>6 DEF TableCaptured, Seen
  <2>3. CASE m = 1
    <3>1. captured = {} /\ captured' = {1}
      BY <2>2, <2>3
    <3>2. snapshot' = snapshot
      BY <2>2, <2>3
    <3>3. bundle' = {r \in snapshot' : r.table \in captured'}
      BY <2>1, <2>2, <2>3, <3>1, <3>2
    <3>4. Capturing'
      BY <2>1, <3>1, <3>2, <3>3, Zenon DEF Capturing
    <3> QED
      BY <1>1, <1>2, <1>3, <3>4 DEF TransferInv
  <2>4. CASE m = 2
    <3>1. captured = {1} /\ captured' = Tables
      BY <2>2, <2>4 DEF Tables
    <3>2. bundle' = snapshot
      <4>1. \A r \in snapshot : r.table = 1 \/ r.table = 2
        BY <2>1 DEF WholeRows, ExactRow, Row, Tables
      <4> QED
        BY <2>1, <2>2, <2>4, <3>1, <4>1
    <3>3. Capturing'
      BY <2>1, <2>2, <2>4, <3>1, <3>2 DEF Capturing
    <3> QED
      BY <1>1, <1>2, <1>3, <3>3 DEF TransferInv
  <2> QED
    BY <2>3, <2>4 DEF Tables
<1> QED
  BY <1>4, <1>5, <1>6 DEF Export

LEMMA ImportKeepsInv ==
  ASSUME TransferInv, Importing
  PROVE  TransferInv'
<1>1. /\ UNCHANGED <<origin, snapshot, captured, bundle>>
      /\ WholeRows(origin)' /\ Capturing' /\ File' = File
  BY DEF Importing, ImportBegun, ImportCommitted, ImportAborted, RowSaved, exportVars,
         TransferInv, Capturing, WholeRows, File
<1>2. CASE ImportBegun
  BY <1>1, <1>2 DEF ImportBegun, TransferInv, WorkAlone, KeysBehind, LaterKeys
<1>3. ASSUME NEW r \in Row, RowSaved(r)
      PROVE  TransferInv'
  BY <1>1, <1>3 DEF RowSaved, TransferInv, WorkAlone, KeysBehind, LaterKeys
<1>4. ASSUME work # NoRows
      PROVE  /\ File /\ target = {} /\ WholeRows(bundle) /\ bundle \in SUBSET Row
  BY <1>4 DEF TransferInv, WorkAlone, Capturing, WholeRows, ExactRow, File, Tables
<1>5. CASE ImportCommitted
  <2>1. /\ work # NoRows /\ work = bundle /\ target' = bundle
        /\ sequence' = Advanced(bundle) /\ applied' = TRUE /\ work' = NoRows
    BY <1>5 DEF ImportCommitted, Verified
  <2>2. KeysBehind' /\ LaterKeys' /\ sequence' \in [Tables -> Nat]
    BY <1>1, <1>4, <2>1, SequencesBehind DEF KeysBehind, LaterKeys
  <2> QED
    BY <1>1, <1>4, <2>1, <2>2 DEF TransferInv, WorkAlone, WholeRows
<1>6. CASE ImportAborted
  <2>1. /\ work # NoRows /\ work' = NoRows /\ UNCHANGED <<target, applied>>
        /\ sequence' \in {sequence, Advanced(bundle)}
    BY <1>6 DEF ImportAborted, Verified
  <2>2. sequence' \in [Tables -> Nat]
    BY <1>4, <2>1, SequencesBehind DEF TransferInv
  <2>3. target' = {}
    BY <1>4, <2>1
  <2>4. KeysBehind' /\ LaterKeys'
    BY <2>3 DEF KeysBehind, LaterKeys
  <2> QED
    BY <1>1, <2>1, <2>2, <2>4 DEF TransferInv, WorkAlone
<1> QED
  BY <1>2, <1>3, <1>5, <1>6 DEF Importing

LEMMA TargetWritesKeepInv ==
  ASSUME TransferInv, NEW m \in Tables, TargetWrites(m)
  PROVE  TransferInv'
<1> DEFINE k == sequence[m] + 1
<1>1. /\ work = NoRows /\ sequence[m] < MaxKey
      /\ sequence' = [sequence EXCEPT ![m] = k]
      /\ UNCHANGED <<origin, snapshot, captured, bundle, work, applied>>
  BY DEF TargetWrites, exportVars
<1>2. /\ sequence \in [Tables -> Nat] /\ sequence' \in [Tables -> Nat]
      /\ sequence'[m] = k /\ k \in Keys
      /\ \A n \in Tables : sequence[n] <= sequence'[n]
  BY <1>1, TransferAssumption DEF TransferInv, Keys
<1>3. \/ UNCHANGED target
      \/ /\ m = 2 => RowOf(1, k) \in target
         /\ target' = target \cup {RowOf(m, k)}
  BY <1>1, <1>2 DEF TargetWrites
<1>4. /\ RowOf(m, k) \in ExactRow /\ RowOf(1, k) \in ExactRow
      /\ RowOf(m, k).table = m /\ RowOf(m, k).key = k
      /\ RowOf(1, k).table = 1 /\ RowOf(1, k).key = k
  BY <1>2 DEF RowOf, ExactRow, Row, Tables
<1>5. \A r \in target : r.table \in Tables /\ r.key \in Nat
  BY TransferAssumption DEF TransferInv, ExactRow, Row, Keys
<1> HIDE DEF k
<1>6. target' \subseteq ExactRow
  BY <1>3, <1>4 DEF TransferInv
<1>7. WholeRows(origin)' /\ Capturing' /\ WorkAlone' /\ File' = File
  BY <1>1 DEF TransferInv, WholeRows, Capturing, WorkAlone, File
<1>8. ASSUME applied
      PROVE  /\ bundle \subseteq target' /\ References(target')
             /\ KeysBehind' /\ LaterKeys'
  <2>1. /\ bundle \subseteq target /\ References(target) /\ KeysBehind /\ LaterKeys
    BY <1>8 DEF TransferInv
  <2>2. \A r \in target : r.key <= sequence'[r.table]
    <3>1. \A r \in target : r.key <= sequence[r.table] /\ sequence[r.table] \in Nat
                            /\ sequence'[r.table] \in Nat
                            /\ sequence[r.table] <= sequence'[r.table]
      BY <1>2, <1>5, <2>1 DEF KeysBehind
    <3> QED
      BY <1>5, <3>1
  <2>3. KeysBehind'
    BY <1>2, <1>3, <1>4, <2>2 DEF KeysBehind, Keys
  <2>4. References(target')
    BY <1>3, <1>4, <2>1 DEF References, Tables
  <2>5. \A q \in bundle : q.table = m => k > q.key
    <3>1. \A q \in bundle : q.table = m => q.key <= sequence[m] /\ q.key \in Nat
      BY <1>5, <2>1 DEF KeysBehind
    <3> QED
      BY <1>2, <3>1 DEF k
  <2>6. LaterKeys'
    BY <1>1, <1>3, <1>4, <2>1, <2>5 DEF LaterKeys
  <2> QED
    BY <1>3, <2>1, <2>3, <2>4, <2>6
<1> QED
  BY <1>1, <1>2, <1>6, <1>7, <1>8 DEF TransferInv

LEMMA TransferInvNext ==
  ASSUME TransferInv, [TransferNext]_transferVars
  PROVE  TransferInv'
<1>1. ASSUME NEW k \in Keys, OriginWrites(k)
      PROVE  TransferInv'
  <2>1. /\ UNCHANGED <<snapshot, captured, bundle, target, sequence, work, applied>>
        /\ origin' \in {origin \cup {RowOf(1, k)}, origin \cup Pair(k), origin \ Pair(k)}
    BY <1>1 DEF OriginWrites, importVars
  <2>2. WholeRows(origin')
    BY <2>1, WholePlus DEF TransferInv
  <2> QED
    BY <2>1, <2>2 DEF TransferInv, Capturing, WorkAlone, File, KeysBehind, LaterKeys, WholeRows, References
<1>2. CASE UNCHANGED transferVars
  BY <1>2 DEF transferVars, exportVars, importVars, TransferInv, Capturing, WorkAlone, File,
              KeysBehind, LaterKeys, WholeRows
<1> QED
  BY <1>1, <1>2, ExportKeepsInv, ImportKeepsInv, TargetWritesKeepInv DEF TransferNext

\* The file is a state that the origin was in, and after IMPORT_VERIFIED the
\* target holds all of it, unchanged, and later rows with later keys alone,
\* however long the tables are and whatever the applications write meanwhile
\* (data_transfer.capture, import_records).
THEOREM TransfersAreWhole == TransferSpec => []TransferWhole
<1>1. TransferInv => TransferWhole
  BY DEF TransferInv, TransferWhole, Capturing, WholeRows, File, Tables, KeysBehind,
         LaterKeys, ExactRow
<1> QED
  BY <1>1, TransferInvInit, TransferInvNext, PTL DEF TransferSpec

=============================================================================
