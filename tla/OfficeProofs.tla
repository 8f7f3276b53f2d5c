---------------------------- MODULE OfficeProofs ----------------------------
(***************************************************************************)
(* Theorems about the team and the capacity of a sprint, for any members,  *)
(* guests, dates and absences, and about the result of a round, for any    *)
(* participants and votes.                                                 *)
(***************************************************************************)
EXTENDS MCOffice, SumsAndEstimates

\* What sprint_capacity_update is about to save is what is there.
LoadedIsCurrent == loaded # NoRow => loaded = sprint /\ Editable(sprint)

TeamInv == TeamTypeOK /\ AbsenceFits /\ LoadedIsCurrent

-----------------------------------------------------------------------------
\* Working days.

LEMMA WeekdaysCounted ==
  ASSUME NEW first \in Nat, NEW n \in Nat
  PROVE  WeekdaysIn(first, n) \in Nat
<1> DEFINE rest == 0 .. ((n % 7) - 1)
           S == {k \in rest : ((first % 7) + k) % 7 < 5}
<1>1. n % 7 \in 0..6 /\ n \div 7 \in Nat
  OBVIOUS
<1>2. IsFiniteSet(rest)
  BY <1>1, FS_Interval
<1>3. IsFiniteSet(S)
  BY <1>2, FS_Subset
<1>4. Cardinality(S) \in Nat
  BY <1>3, FS_CardinalityType
<1> HIDE DEF S, rest
<1> QED
  BY <1>1, <1>4 DEF WeekdaysIn, S, rest

\* The days of a sprint are a number, or not known.
LEMMA DaysCounted ==
  ASSUME NEW s \in SprintRow
  PROVE  WorkingDays(s) # Unset => WorkingDays(s) \in Nat
<1>1. /\ s.start \in Dates \cup {Unset} /\ s.end \in Dates \cup {Unset}
      /\ s.override \in Overrides \cup {Unset}
  BY DEF SprintRow
<1>2. Dates \subseteq Nat /\ Overrides \subseteq Nat
  BY TeamAssumption
<1>3. CASE Dated(s) /\ s.override = Unset
  <2>1. s.start \in Nat /\ s.end \in Nat /\ s.start <= s.end
    BY <1>1, <1>2, <1>3 DEF Dated
  <2>2. PICK n \in Nat : n = s.end - s.start + 1
    BY <2>1
  <2>3. WeekdaysIn(s.start, n) \in Nat
    BY <2>1, WeekdaysCounted
  <2> QED
    BY <1>3, <2>2, <2>3 DEF WorkingDays
<1>4. CASE ~Dated(s) \/ s.override # Unset
  BY <1>1, <1>2, <1>4 DEF WorkingDays
<1> QED
  BY <1>3, <1>4

\* Whoever is not away fits in every sprint.
LEMMA NobodyAwayFits ==
  ASSUME NEW s \in SprintRow
  PROVE  Fits(s, 0)
BY DaysCounted DEF Fits

\* Working days go by the dates and the calendar.
SameDays(s, r) ==
    s.start = r.start /\ s.end = r.end /\ s.override = r.override

LEMMA SameDaysFit ==
  ASSUME NEW s, NEW r, SameDays(s, r), NEW absence
  PROVE  Fits(s, absence) <=> Fits(r, absence)
<1>1. WorkingDays(s) = WorkingDays(r)
  BY DEF SameDays, WorkingDays, Dated
<1> QED
  BY <1>1 DEF Fits

\* The working days among the first m days from a day of the week.
LEMMA PartOfWeek ==
  ASSUME NEW f \in 0..6, NEW m \in 0..6
  PROVE  LET S(k) == {i \in 0 .. (k - 1) : (f + i) % 7 < 5}
         IN  /\ Cardinality(S(m)) \in Nat
             /\ Cardinality(S(m + 1))
                   = Cardinality(S(m)) + (IF (f + m) % 7 < 5 THEN 1 ELSE 0)
<1> DEFINE S(k) == {i \in 0 .. (k - 1) : (f + i) % 7 < 5}
<1>1. IsFiniteSet(S(m))
  <2>1. IsFiniteSet(0 .. (m - 1))
    BY FS_Interval
  <2> QED
    BY <2>1, FS_Subset
<1>2. Cardinality(S(m)) \in Nat
  BY <1>1, FS_CardinalityType
<1>3. S(m + 1) = IF (f + m) % 7 < 5 THEN S(m) \cup {m} ELSE S(m)
  OBVIOUS
<1>4. m \notin S(m)
  OBVIOUS
<1> HIDE DEF S
<1>5. Cardinality(S(m + 1)) = Cardinality(S(m)) + (IF (f + m) % 7 < 5 THEN 1 ELSE 0)
  BY <1>1, <1>2, <1>3, <1>4, FS_AddElement
<1> QED
  BY <1>2, <1>5 DEF S

\* Any seven days have five working days.
LEMMA WholeWeek ==
  ASSUME NEW f \in 0..6
  PROVE  Cardinality({i \in 0 .. 6 : (f + i) % 7 < 5}) = 5
<1> DEFINE S(k) == {i \in 0 .. (k - 1) : (f + i) % 7 < 5}
           step(m) == IF (f + m) % 7 < 5 THEN 1 ELSE 0
<1>0. Cardinality(S(0)) = 0
  <2>1. S(0) = {}
    OBVIOUS
  <2> QED
    BY <2>1, FS_EmptySet
<1>1. \A m \in 0..6 : Cardinality(S(m)) \in Nat /\ Cardinality(S(m + 1)) = Cardinality(S(m)) + step(m)
  BY PartOfWeek
<1> HIDE DEF S
<1>2. Cardinality(S(7)) = step(0) + step(1) + step(2) + step(3) + step(4) + step(5) + step(6)
  BY <1>0, <1>1
<1>3. Cardinality(S(7)) = 5
  BY <1>2
<1> QED
  BY <1>3 DEF S

\* The days of the week go round.
LEMMA WeekdayNext ==
  ASSUME NEW first \in Nat, NEW n \in Nat
  PROVE  WeekdaysIn(first, n + 1)
           = WeekdaysIn(first, n) + (IF (first + n) % 7 < 5 THEN 1 ELSE 0)
<1> DEFINE f == first % 7
           m == n % 7
           S(k) == {i \in 0 .. (k - 1) : (f + i) % 7 < 5}
<1>1. f \in 0..6 /\ m \in 0..6 /\ n \div 7 \in Nat
  OBVIOUS
<1>2. (first + n) % 7 = (f + m) % 7
  OBVIOUS
<1>3. WeekdaysIn(first, n) = (n \div 7) * 5 + Cardinality(S(m))
  BY DEF WeekdaysIn
<1>4. WeekdaysIn(first, n + 1) = ((n + 1) \div 7) * 5 + Cardinality(S((n + 1) % 7))
  BY DEF WeekdaysIn
<1>5. /\ Cardinality(S(m)) \in Nat
      /\ Cardinality(S(m + 1)) = Cardinality(S(m)) + (IF (f + m) % 7 < 5 THEN 1 ELSE 0)
  BY <1>1, PartOfWeek
<1>6. CASE m = 6
  <2>1. (n + 1) % 7 = 0 /\ (n + 1) \div 7 = (n \div 7) + 1
    BY <1>6
  <2>2. Cardinality(S(0)) = 0
    <3>1. S(0) = {}
      OBVIOUS
    <3> QED
      BY <3>1, FS_EmptySet
  <2>3. Cardinality(S(7)) = 5
    <3>1. S(7) = {i \in 0 .. 6 : (f + i) % 7 < 5}
      OBVIOUS
    <3> HIDE DEF S, f
    <3> QED
      BY <1>1, <3>1, WholeWeek
  <2> HIDE DEF S, f, m
  <2> QED
    BY <1>1, <1>2, <1>3, <1>4, <1>5, <1>6, <2>1, <2>2, <2>3
<1>7. CASE m # 6
  <2>1. (n + 1) % 7 = m + 1 /\ (n + 1) \div 7 = n \div 7
    BY <1>7
  <2> HIDE DEF S, f, m
  <2> QED
    BY <1>1, <1>2, <1>3, <1>4, <1>5, <2>1
<1> QED
  BY <1>6, <1>7

\* The closed form counts the days from Monday to Friday.
LEMMA WeekdaysAreCounted ==
  ASSUME NEW first \in Nat, NEW n \in Nat
  PROVE  WeekdaysIn(first, n) = Cardinality({d \in first .. (first + n - 1) : d % 7 < 5})
<1> DEFINE D(k) == {d \in first .. (first + k - 1) : d % 7 < 5}
           A == {k \in Nat : /\ IsFiniteSet(D(k)) /\ Cardinality(D(k)) \in Nat
                             /\ WeekdaysIn(first, k) = Cardinality(D(k))}
<1>1. 0 \in A
  <2>1. D(0) = {}
    OBVIOUS
  <2>2. WeekdaysIn(first, 0) = 0
    <3>1. {k \in 0 .. ((0 % 7) - 1) : ((first % 7) + k) % 7 < 5} = {}
      OBVIOUS
    <3> QED
      BY <3>1, FS_EmptySet DEF WeekdaysIn
  <2> QED
    BY <2>1, <2>2, FS_EmptySet
<1>2. ASSUME NEW k \in Nat, k \in A
      PROVE  k + 1 \in A
  <2>1. D(k + 1) = IF (first + k) % 7 < 5 THEN D(k) \cup {first + k} ELSE D(k)
    OBVIOUS
  <2>2. first + k \notin D(k)
    OBVIOUS
  <2>3. IsFiniteSet(D(k)) /\ Cardinality(D(k)) \in Nat /\ WeekdaysIn(first, k) = Cardinality(D(k))
    BY <1>2
  <2> HIDE DEF D
  <2>4. /\ IsFiniteSet(D(k + 1)) /\ Cardinality(D(k + 1)) \in Nat
        /\ WeekdaysIn(first, k + 1) = Cardinality(D(k + 1))
    BY <2>1, <2>2, <2>3, FS_AddElement, WeekdayNext
  <2> QED
    BY <2>4
<1> HIDE DEF A
<1>3. n \in A
  BY <1>1, <1>2, NatSetInduction
<1> QED
  BY <1>3 DEF A

-----------------------------------------------------------------------------
\* Rows.

LEMMA ResourceMade ==
  ASSUME NEW profile \in Profiles, NEW absence \in Absences
  PROVE  /\ Resource(profile, absence) \in ResourceRow
         /\ Resource(profile, absence) # NoRow
         /\ Resource(profile, absence).absence = absence
<1>1. profile \in [competency : Competencies, allocation : 0..100, hours : 1..48]
  BY TeamAssumption
<1>2. Resource(profile, absence) \in ResourceRow
  BY <1>1 DEF Resource, ResourceRow
<1>3. Resource(profile, absence) # NoRow
  BY <1>2, RowAssumption
<1>4. Resource(profile, absence).absence = absence
  BY DEF Resource
<1> QED
  BY <1>2, <1>3, <1>4

\* Members who are added are there for all days.
LEMMA MembersAdded ==
  ASSUME NEW team \in [Members \cup Guests -> ResourceRow \cup {NoRow}],
         member \in [Members -> MemberRow \cup {NoRow}],
         NEW M \in SUBSET Members, \A m \in M : Active(m)
  PROVE  /\ AddedMembers(team, M) \in [Members \cup Guests -> ResourceRow \cup {NoRow}]
         /\ \A i \in Members \cup Guests :
               \/ AddedMembers(team, M)[i] = team[i]
               \/ AddedMembers(team, M)[i].absence = 0
<1>1. ASSUME NEW m \in M
      PROVE  /\ Resource(member[m].profile, 0) \in ResourceRow
             /\ Resource(member[m].profile, 0).absence = 0
  <2>1. member[m] \in MemberRow
    BY <1>1 DEF Active
  <2>2. member[m].profile \in Profiles
    BY <2>1 DEF MemberRow
  <2> QED
    BY <2>2, ResourceMade, TeamAssumption
<1> QED
  BY <1>1 DEF AddedMembers

-----------------------------------------------------------------------------
\* Steps, when no request comes between the read and the save.

LEMMA TeamInvInit == TeamInit => TeamInv
<1> SUFFICES ASSUME TeamInit PROVE TeamInv
  OBVIOUS
<1>1. /\ resource = EmptyTeam /\ loaded = NoRow
      /\ member \in [Members -> MemberRow \cup {NoRow}]
  BY DEF TeamInit
<1>2. sprint \in SprintRow \cup {NoRow}
  <2> DEFINE blank == [c \in Competencies |-> Unset]
             new == [status |-> "planning", archived |-> FALSE,
                     source |-> "manual", start |-> Unset, end |-> Unset,
                     override |-> Unset, reserve |-> 0, manual |-> blank,
                     capacity |-> OldCapacity]
  <2>1. blank \in Manuals /\ 0 \in Reserves
    BY TeamAssumption
  <2>2. \/ sprint = NoRow
        \/ sprint = new
    BY DEF TeamInit
  <2> HIDE DEF blank
  <2>3. new \in SprintRow
    BY <2>1 DEF SprintRow, Sources
  <2> QED
    BY <2>2, <2>3
<1>3. Team = [i \in {} |-> NoRow] /\ DOMAIN Team = {}
  BY <1>1 DEF Team, EmptyTeam
<1>4. TeamTypeOK
  BY <1>1, <1>2 DEF TeamTypeOK, EmptyTeam
<1>5. AbsenceFits
  BY <1>3 DEF AbsenceFits
<1> QED
  BY <1>1, <1>4, <1>5 DEF TeamInv, LoadedIsCurrent

\* AbsenceFits, without the function Team.
Fitting(s, team) ==
    s # NoRow => \A i \in Members \cup Guests :
                     team[i] # NoRow => Fits(s, team[i].absence)

LEMMA FitsByRow == AbsenceFits <=> Fitting(sprint, resource)
  BY DEF AbsenceFits, Fitting, Team

LEMMA FitsByRowNext == AbsenceFits' <=> Fitting(sprint', resource')
  BY DEF AbsenceFits, Fitting, Team

\* What the sprint becomes has the same days, or no days at all.
LEMMA SprintChanges ==
  ASSUME TeamInv, loaded' = NoRow, UNCHANGED <<member, resource>>,
         sprint # NoRow, sprint' \in SprintRow,
         SameDays(sprint', sprint)
  PROVE  TeamInv'
<1>1. sprint' # NoRow
  BY RowAssumption
<1>2. TeamTypeOK'
  BY <1>1 DEF TeamInv, TeamTypeOK
<1>3. Fitting(sprint', resource')
  BY <1>1, SameDaysFit, FitsByRow DEF TeamInv, Fitting
<1> QED
  BY <1>2, <1>3, FitsByRowNext DEF TeamInv, LoadedIsCurrent

\* A row of the team comes, changes or goes.
LEMMA ResourcesChange ==
  ASSUME TeamInv, loaded' = NoRow, UNCHANGED <<member, sprint>>, sprint # NoRow,
         resource' \in [Members \cup Guests -> ResourceRow \cup {NoRow}],
         \A i \in Members \cup Guests :
            \/ resource'[i] = resource[i]
            \/ resource'[i] = NoRow
            \/ Fits(sprint, resource'[i].absence)
  PROVE  TeamInv'
<1>1. TeamTypeOK'
  BY DEF TeamInv, TeamTypeOK
<1>2. Fitting(sprint', resource')
  BY FitsByRow DEF TeamInv, Fitting
<1> QED
  BY <1>1, <1>2, FitsByRowNext DEF TeamInv, LoadedIsCurrent

\* A sprint is made, or copied, with the active members.
LEMMA SprintComes ==
  ASSUME TeamInv, loaded' = NoRow, UNCHANGED member, sprint' \in SprintRow,
         resource' = AddedMembers(EmptyTeam, {m \in Members : Active(m)})
  PROVE  TeamInv'
<1> DEFINE M == {m \in Members : Active(m)}
<1>1. EmptyTeam \in [Members \cup Guests -> ResourceRow \cup {NoRow}]
  BY DEF EmptyTeam
<1>2. member \in [Members -> MemberRow \cup {NoRow}]
  BY DEF TeamInv, TeamTypeOK
<1>3. M \in SUBSET Members /\ \A m \in M : Active(m)
  OBVIOUS
<1> HIDE DEF M
<1>4. /\ AddedMembers(EmptyTeam, M) \in [Members \cup Guests -> ResourceRow \cup {NoRow}]
      /\ \A i \in Members \cup Guests :
            \/ AddedMembers(EmptyTeam, M)[i] = EmptyTeam[i]
            \/ AddedMembers(EmptyTeam, M)[i].absence = 0
  BY <1>1, <1>2, <1>3, MembersAdded
<1>5. resource' = AddedMembers(EmptyTeam, M)
  BY DEF M
<1>6. sprint' # NoRow
  BY RowAssumption
<1>7. TeamTypeOK'
  BY <1>2, <1>4, <1>5, <1>6 DEF TeamTypeOK
<1>8. \A i \in Members \cup Guests : EmptyTeam[i] = NoRow
  BY DEF EmptyTeam
<1>9. Fitting(sprint', resource')
  BY <1>4, <1>5, <1>8, NobodyAwayFits DEF Fitting
<1> QED
  BY <1>7, <1>9, FitsByRowNext DEF TeamInv, LoadedIsCurrent

\* Rows of the sprint with other fields.
LEMMA RowsChanged ==
  ASSUME NEW s \in SprintRow
  PROVE  /\ \A st \in {"planning", "active", "completed"} :
               /\ [s EXCEPT !.status = st] \in SprintRow
               /\ SameDays([s EXCEPT !.status = st], s)
         /\ \A put \in BOOLEAN :
               /\ [s EXCEPT !.archived = put] \in SprintRow
               /\ SameDays([s EXCEPT !.archived = put], s)
         /\ \A manual \in Manuals :
               /\ [s EXCEPT !.manual = manual, !.capacity = Unset] \in SprintRow
               /\ SameDays([s EXCEPT !.manual = manual, !.capacity = Unset], s)
               /\ [s EXCEPT !.manual = manual, !.capacity = Unset,
                            !.source = "manual"] \in SprintRow
               /\ SameDays([s EXCEPT !.manual = manual, !.capacity = Unset,
                                     !.source = "manual"], s)
         /\ [s EXCEPT !.status = "planning", !.archived = FALSE, !.start = Unset,
                      !.end = Unset, !.override = Unset] \in SprintRow
<1> USE DEF SameDays
<1>1. ASSUME NEW st \in {"planning", "active", "completed"}
      PROVE  /\ [s EXCEPT !.status = st] \in SprintRow
             /\ SameDays([s EXCEPT !.status = st], s)
  BY DEF SprintRow
<1>2. ASSUME NEW put \in BOOLEAN
      PROVE  /\ [s EXCEPT !.archived = put] \in SprintRow
             /\ SameDays([s EXCEPT !.archived = put], s)
  BY DEF SprintRow
<1>3. ASSUME NEW manual \in Manuals
      PROVE  /\ [s EXCEPT !.manual = manual, !.capacity = Unset] \in SprintRow
             /\ SameDays([s EXCEPT !.manual = manual, !.capacity = Unset], s)
  BY DEF SprintRow
<1>4. ASSUME NEW manual \in Manuals
      PROVE  /\ [s EXCEPT !.manual = manual, !.capacity = Unset,
                          !.source = "manual"] \in SprintRow
             /\ SameDays([s EXCEPT !.manual = manual, !.capacity = Unset,
                                   !.source = "manual"], s)
  BY DEF SprintRow, Sources
<1>5. [s EXCEPT !.status = "planning", !.archived = FALSE, !.start = Unset,
               !.end = Unset, !.override = Unset] \in SprintRow
  BY DEF SprintRow
<1> QED
  BY <1>1, <1>2, <1>3, <1>4, <1>5

LEMMA ProjectStep ==
  ASSUME TeamInv, loaded = NoRow, Project
  PROVE  TeamInv' /\ ClosedTeamStep
<1>0. sprint # NoRow => sprint \in SprintRow
  BY DEF TeamInv, TeamTypeOK
<1>1. ASSUME NEW m \in Members, NEW row \in MemberRow, ProjectTeam(m, row)
      PROVE  TeamInv' /\ ClosedTeamStep
  <2>1. TeamTypeOK'
    BY <1>1 DEF ProjectTeam, TeamInv, TeamTypeOK
  <2>2. AbsenceFits' /\ LoadedIsCurrent'
    BY <1>1, FitsByRow, FitsByRowNext
    DEF ProjectTeam, TeamInv, LoadedIsCurrent, Editable
  <2> QED
    BY <1>1, <2>1, <2>2 DEF ProjectTeam, TeamInv, ClosedTeamStep
<1>2. ASSUME NEW source \in Sources, NEW start \in Dates \cup {Unset},
             NEW end \in Dates \cup {Unset}, NEW manual \in Manuals,
             TeamSprintCreate(source, start, end, manual)
      PROVE  TeamInv' /\ ClosedTeamStep
  <2> DEFINE new == [status |-> "planning", archived |-> FALSE, source |-> source,
                     start |-> start, end |-> end, override |-> Unset,
                     reserve |-> 0, manual |-> manual, capacity |-> Unset]
  <2>1. new \in SprintRow
    BY TeamAssumption DEF SprintRow
  <2>2. /\ sprint = NoRow /\ sprint' = new /\ UNCHANGED <<member, loaded>>
        /\ resource' = AddedMembers(EmptyTeam, {m \in Members : Active(m)})
    BY <1>2 DEF TeamSprintCreate
  <2> HIDE DEF new
  <2> QED
    BY <2>1, <2>2, SprintComes DEF ClosedTeamStep
<1>3. CASE TeamSprintCopy
  <2> DEFINE copy == [sprint EXCEPT !.status = "planning", !.archived = FALSE,
                        !.start = Unset, !.end = Unset, !.override = Unset]
  <2>1. /\ sprint # NoRow /\ sprint' = copy /\ loaded' = NoRow /\ UNCHANGED member
        /\ resource' = AddedMembers(EmptyTeam, {m \in Members : Active(m)})
    BY <1>3 DEF TeamSprintCopy
  <2>2. copy \in SprintRow
    BY <1>0, <2>1, RowsChanged
  <2>3. copy.status = "planning" /\ ~copy.archived
    BY <1>0, <2>1 DEF SprintRow
  <2> HIDE DEF copy
  <2> QED
    BY <2>1, <2>2, <2>3, SprintComes DEF ClosedTeamStep, Editable
<1>4. CASE TeamSprintDelete
  <2>1. sprint' = NoRow /\ resource' = EmptyTeam /\ UNCHANGED <<member, loaded>>
    BY <1>4 DEF TeamSprintDelete
  <2>2. TeamTypeOK'
    BY <2>1 DEF TeamInv, TeamTypeOK, EmptyTeam
  <2>3. AbsenceFits'
    BY <2>1 DEF AbsenceFits
  <2> QED
    BY <2>1, <2>2, <2>3 DEF TeamInv, LoadedIsCurrent, ClosedTeamStep
<1>5. ASSUME NEW st \in {"planning", "active", "completed"},
             TeamSprintSetStatus(st)
      PROVE  TeamInv' /\ ClosedTeamStep
  <2>1. /\ sprint # NoRow /\ sprint' = [sprint EXCEPT !.status = st]
        /\ UNCHANGED <<member, resource, loaded>>
    BY <1>5 DEF TeamSprintSetStatus
  <2>2. sprint' \in SprintRow /\ SameDays(sprint', sprint)
    BY <1>0, <2>1, RowsChanged
  <2>3. Settings(sprint') = Settings(sprint)
    BY <1>0, <2>1 DEF Settings, SprintRow
  <2> QED
    BY <2>1, <2>2, <2>3, SprintChanges DEF ClosedTeamStep
<1>6. ASSUME NEW put \in BOOLEAN, sprint # NoRow,
             sprint' = [sprint EXCEPT !.archived = put],
             UNCHANGED <<member, resource, loaded>>
      PROVE  TeamInv' /\ ClosedTeamStep
  <2>1. sprint' \in SprintRow /\ SameDays(sprint', sprint)
    BY <1>0, <1>6, RowsChanged
  <2>2. Settings(sprint') = Settings(sprint)
    BY <1>0, <1>6 DEF Settings, SprintRow
  <2> QED
    BY <1>6, <2>1, <2>2, SprintChanges DEF ClosedTeamStep
<1>7. CASE TeamSprintArchive
  BY <1>6, <1>7 DEF TeamSprintArchive
<1>8. CASE TeamSprintRestore
  BY <1>6, <1>8 DEF TeamSprintRestore
<1> QED
  BY <1>1, <1>2, <1>3, <1>4, <1>5, <1>7, <1>8 DEF Project

LEMMA TeamPageStep ==
  ASSUME TeamInv, loaded = NoRow, TeamPage
  PROVE  TeamInv' /\ ClosedTeamStep
<1>0. Editable(sprint) => sprint # NoRow /\ sprint \in SprintRow
  BY DEF Editable, TeamInv, TeamTypeOK
<1>1. ASSUME NEW source \in Sources, NEW start \in Dates \cup {Unset},
             NEW end \in Dates \cup {Unset},
             NEW override \in Overrides \cup {Unset}, NEW reserve \in Reserves,
             SprintTeamSettings(source, start, end, override, reserve)
      PROVE  TeamInv' /\ ClosedTeamStep
  <2> DEFINE new == [sprint EXCEPT !.source = source, !.start = start, !.end = end,
                                   !.override = override, !.reserve = reserve]
  <2>1. /\ Editable(sprint) /\ sprint' = new /\ SettingsValid(sprint')
        /\ UNCHANGED <<member, resource, loaded>>
    BY <1>1 DEF SprintTeamSettings
  <2>2. new \in SprintRow
    BY <1>0, <2>1 DEF SprintRow
  <2> HIDE DEF new
  <2>3. sprint' # NoRow
    BY <2>1, <2>2, RowAssumption
  <2>4. TeamTypeOK'
    BY <2>1, <2>2, <2>3 DEF TeamInv, TeamTypeOK
  <2>5. Fitting(sprint', resource')
    BY <2>1 DEF SettingsValid, Team, Fitting
  <2> QED
    BY <2>1, <2>4, <2>5, FitsByRowNext DEF TeamInv, LoadedIsCurrent, ClosedTeamStep
<1>2. ASSUME NEW manual \in Manuals, SprintTeamCapacity(manual)
      PROVE  TeamInv' /\ ClosedTeamStep
  <2>1. /\ Editable(sprint) /\ UNCHANGED <<member, resource, loaded>>
        /\ sprint' = [sprint EXCEPT !.manual = manual, !.capacity = Unset,
                                    !.source = "manual"]
    BY <1>2 DEF SprintTeamCapacity
  <2>2. sprint' \in SprintRow /\ SameDays(sprint', sprint)
    BY <1>0, <2>1, RowsChanged
  <2> QED
    BY <1>0, <2>1, <2>2, SprintChanges DEF ClosedTeamStep
<1>3. ASSUME NEW M \in SUBSET Members, SprintMembersAdd(M)
      PROVE  TeamInv' /\ ClosedTeamStep
  <2>1. /\ Editable(sprint) /\ \A m \in M : Active(m)
        /\ resource' = AddedMembers(resource, M) /\ UNCHANGED <<member, sprint, loaded>>
    BY <1>3 DEF SprintMembersAdd
  <2>2. /\ AddedMembers(resource, M) \in [Members \cup Guests -> ResourceRow \cup {NoRow}]
        /\ \A i \in Members \cup Guests :
              \/ AddedMembers(resource, M)[i] = resource[i]
              \/ AddedMembers(resource, M)[i].absence = 0
    BY <2>1, MembersAdded DEF TeamInv, TeamTypeOK
  <2>3. Fits(sprint, 0)
    BY <1>0, <2>1, NobodyAwayFits
  <2> QED
    BY <1>0, <2>1, <2>2, <2>3, ResourcesChange DEF ClosedTeamStep
<1>4. ASSUME NEW i \in Members \cup Guests, NEW profile \in Profiles,
             NEW absence \in Absences,
             \/ SprintResourceCreate(i, profile, absence)
             \/ SprintResourceUpdate(i, profile, absence)
      PROVE  TeamInv' /\ ClosedTeamStep
  <2> DEFINE row == Resource(profile, absence)
  <2>1. /\ Editable(sprint) /\ Fits(sprint, absence)
        /\ resource' = [resource EXCEPT ![i] = row]
        /\ UNCHANGED <<member, sprint, loaded>>
    BY <1>4 DEF SprintResourceCreate, SprintResourceUpdate
  <2>2. row \in ResourceRow /\ row.absence = absence
    BY ResourceMade
  <2> HIDE DEF row
  <2>3. resource \in [Members \cup Guests -> ResourceRow \cup {NoRow}]
    BY DEF TeamInv, TeamTypeOK
  <2> QED
    BY <1>0, <2>1, <2>2, <2>3, ResourcesChange DEF ClosedTeamStep
<1>5. ASSUME NEW i \in Members \cup Guests, SprintResourceRemove(i)
      PROVE  TeamInv' /\ ClosedTeamStep
  <2>1. resource \in [Members \cup Guests -> ResourceRow \cup {NoRow}]
    BY DEF TeamInv, TeamTypeOK
  <2> QED
    BY <1>0, <1>5, <2>1, ResourcesChange DEF SprintResourceRemove, ClosedTeamStep
<1> QED
  BY <1>1, <1>2, <1>3, <1>4, <1>5 DEF TeamPage

LEMMA TeamInvNext ==
  ASSUME Overlapping = FALSE, TeamInv, [TeamNext]_teamVars
  PROVE  TeamInv' /\ ClosedTeamStep
<1>1. CASE loaded = NoRow /\ (Project \/ TeamPage)
  BY <1>1, ProjectStep, TeamPageStep
<1>2. CASE CapacityRead
  <2>1. TeamTypeOK' /\ LoadedIsCurrent'
    BY <1>2 DEF CapacityRead, TeamInv, TeamTypeOK, LoadedIsCurrent, Editable
  <2>2. AbsenceFits' /\ ClosedTeamStep
    BY <1>2, FitsByRow, FitsByRowNext DEF CapacityRead, TeamInv, ClosedTeamStep
  <2> QED
    BY <2>1, <2>2 DEF TeamInv
<1>3. ASSUME NEW manual \in Manuals, CapacitySaved(manual)
      PROVE  TeamInv' /\ ClosedTeamStep
  <2>1. /\ loaded # NoRow /\ loaded' = NoRow /\ UNCHANGED <<member, resource>>
        /\ sprint' = [loaded EXCEPT !.manual = manual, !.capacity = Unset]
    BY <1>3 DEF CapacitySaved
  <2>2. loaded = sprint /\ Editable(sprint) /\ sprint \in SprintRow
    BY <2>1 DEF TeamInv, LoadedIsCurrent, TeamTypeOK
  <2>3. sprint' \in SprintRow /\ SameDays(sprint', sprint)
    BY <2>1, <2>2, RowsChanged
  <2> QED
    BY <2>1, <2>2, <2>3, SprintChanges DEF ClosedTeamStep
<1>4. CASE UNCHANGED teamVars
  <2>1. TeamTypeOK' /\ LoadedIsCurrent' /\ ClosedTeamStep
    BY <1>4
    DEF teamVars, TeamInv, TeamTypeOK, LoadedIsCurrent, Editable, ClosedTeamStep
  <2>2. AbsenceFits'
    BY <1>4, FitsByRow, FitsByRowNext DEF teamVars, TeamInv
  <2> QED
    BY <2>1, <2>2 DEF TeamInv
<1> QED
  BY <1>1, <1>2, <1>3, <1>4 DEF TeamNext

-----------------------------------------------------------------------------
\* As long as no request comes between the read and the save of
\* sprint_capacity_update, rows have their types, nobody is away for more days
\* than the sprint has, and what is about to be saved is what is there.
THEOREM TeamsInOrder ==
  ASSUME Overlapping = FALSE
  PROVE  TeamSpec => []TeamInv
<1>1. TeamInv /\ [TeamNext]_teamVars => TeamInv'
  BY TeamInvNext
<1> QED
  BY <1>1, TeamInvInit, PTL DEF TeamSpec

\* Nobody in a team is away for more days than the sprint has working days
\* (SprintResource.clean, SprintSettingsForm.clean, add_project_members).
THEOREM AbsencesAlwaysFit ==
  ASSUME Overlapping = FALSE
  PROVE  TeamSpec => []AbsenceFits
<1>1. TeamInv => AbsenceFits
  BY DEF TeamInv
<1> QED
  BY <1>1, TeamsInOrder, PTL

\* Team, calendar and capacity of a completed or archived sprint do not change
\* as long as it stays one (_check_editable, sprint_capacity_update).
THEOREM ClosedTeamsAlwaysKept ==
  ASSUME Overlapping = FALSE
  PROVE  TeamSpec => ClosedTeamKept
<1>1. TeamInv /\ [TeamNext]_teamVars => [ClosedTeamStep]_teamVars
  BY TeamInvNext
<1> QED
  BY <1>1, TeamsInOrder, PTL DEF TeamSpec, ClosedTeamKept
-----------------------------------------------------------------------------
\* The hours of a team.

\* Rounding moves by half a unit at most.
LEMMA RoundedNear ==
  ASSUME NEW n \in Int
  PROVE  /\ RoundHalfUp(n, 400) \in Int
         /\ -200 <= 400 * RoundHalfUp(n, 400) - n
         /\ 400 * RoundHalfUp(n, 400) - n <= 200
BY DEF RoundHalfUp

\* The hours of a person, before and after rounding.
LEMMA HoursOfRow ==
  ASSUME NEW s \in SprintRow, NEW r \in ResourceRow, WorkingDays(s) # Unset
  PROVE  /\ GrossHours(s, r) \in Nat
         /\ CapacityHours(s, r) \in Nat
         /\ -200 <= 400 * CapacityHours(s, r) - (100 - s.reserve) * GrossHours(s, r)
         /\ 400 * CapacityHours(s, r) - (100 - s.reserve) * GrossHours(s, r) <= 200
<1>1. WorkingDays(s) \in Nat
  BY DaysCounted
<1>2. r.absence \in Nat /\ r.hours \in Nat /\ r.allocation \in Nat /\ 100 - s.reserve \in Nat
  <2>1. r.absence \in Nat /\ r.hours \in 1..48 /\ r.allocation \in 0..100
    BY TeamAssumption DEF ResourceRow
  <2>2. s.reserve \in 0..100
    BY TeamAssumption DEF SprintRow
  <2> QED
    BY <2>1, <2>2
<1>3. AtLeastZero(2 * WorkingDays(s) - r.absence) \in Nat
  BY <1>1, <1>2 DEF AtLeastZero
<1>4. GrossHours(s, r) \in Nat
  BY <1>2, <1>3 DEF GrossHours
<1>5. GrossHours(s, r) * (100 - s.reserve) \in Nat
  BY <1>2, <1>4
<1>6. GrossHours(s, r) * (100 - s.reserve) = (100 - s.reserve) * GrossHours(s, r)
  BY <1>2, <1>4
<1>7. CapacityHours(s, r) \in Nat
  BY <1>5 DEF CapacityHours, RoundHalfUp
<1>8. PICK n \in Int : n = GrossHours(s, r) * (100 - s.reserve)
  BY <1>5
<1>9. CapacityHours(s, r) = RoundHalfUp(n, 400)
  BY <1>8 DEF CapacityHours
<1>10. /\ -200 <= 400 * CapacityHours(s, r) - n
       /\ 400 * CapacityHours(s, r) - n <= 200
  BY <1>9, RoundedNear
<1>11. n = (100 - s.reserve) * GrossHours(s, r)
  BY <1>6, <1>8
<1> QED
  BY <1>4, <1>7, <1>10, <1>11

\* Rows of the team.
LEMMA TeamRows ==
  ASSUME resource \in [Members \cup Guests -> ResourceRow \cup {NoRow}]
  PROVE  /\ IsFiniteSet(DOMAIN Team)
         /\ \A i \in DOMAIN Team : Team[i] \in ResourceRow
<1>1. DOMAIN Team \in SUBSET (Members \cup Guests)
  BY DEF Team
<1>2. IsFiniteSet(DOMAIN Team)
  BY <1>1, FS_Subset, TeamAssumption
<1> QED
  BY <1>2 DEF Team

\* The capacity of a competency, when the days are known.
LEMMA CapacityOfTeam ==
  ASSUME NEW s \in SprintRow,
         resource \in [Members \cup Guests -> ResourceRow \cup {NoRow}],
         TeamKnown(s, Team), NEW c \in Competencies
  PROVE  TeamCapacity(s, Team, c) \in Nat
<1> DEFINE f == [i \in DOMAIN Team |-> CapacityHours(s, Team[i])]
           P == {i \in DOMAIN Team : Team[i].competency = c}
<1>1. IsFiniteSet(P)
  BY TeamRows, FS_Subset
<1>2. \A i \in P : f[i] \in Nat
  BY TeamRows, HoursOfRow DEF TeamKnown
<1>3. TeamCapacity(s, Team, c) = SumFunctionOnSet(f, P)
  BY DEF TeamCapacity
<1> HIDE DEF f, P
<1> QED
  BY <1>1, <1>2, <1>3, SumIsNat

\* The hours of the team are those of its competencies together.
LEMMA HoursOfTeam ==
  ASSUME NEW s \in SprintRow,
         resource \in [Members \cup Guests -> ResourceRow \cup {NoRow}],
         s.source = "team", TeamKnown(s, Team)
  PROVE  LET exact == TeamGross(s, Team) * (100 - s.reserve)
             hours == CapacityTotal(s, Team)
             slack == 200 * Cardinality(DOMAIN Team)
         IN 400 * hours - exact \in -slack..slack
<1> DEFINE D == DOMAIN Team
           k == 100 - s.reserve
           gross == [i \in D |-> GrossHours(s, Team[i])]
           net == [i \in D |-> k * GrossHours(s, Team[i])]
           cap == [i \in D |-> CapacityHours(s, Team[i])]
           cap400 == [i \in D |-> 400 * CapacityHours(s, Team[i])]
           diff == [i \in D |-> 400 * CapacityHours(s, Team[i]) - k * GrossHours(s, Team[i])]
           kind == [i \in D |-> Team[i].competency]
           parts == [c \in Competencies |-> {i \in D : Team[i].competency = c}]
           rows == [c \in Competencies |-> RowCapacity(s, Team, c)]
<1>1. IsFiniteSet(D) /\ \A i \in D : Team[i] \in ResourceRow
  BY TeamRows
<1>2. k \in Int
  <2>1. s.reserve \in 0..100
    BY TeamAssumption DEF SprintRow
  <2> QED
    BY <2>1
<1>3. \A i \in D : /\ GrossHours(s, Team[i]) \in Nat /\ CapacityHours(s, Team[i]) \in Nat
                   /\ -200 <= 400 * CapacityHours(s, Team[i]) - k * GrossHours(s, Team[i])
                   /\ 400 * CapacityHours(s, Team[i]) - k * GrossHours(s, Team[i]) <= 200
  BY <1>1, HoursOfRow DEF TeamKnown
<1>4. /\ TeamGross(s, Team) = SumFunctionOnSet(gross, D)
      /\ SumFunctionOnSet(gross, D) \in Int
  <2>1. \A i \in D : gross[i] \in Int
    BY <1>3
  <2>2. TeamGross(s, Team) = SumFunction(gross)
    BY DEF TeamGross
  <2>3. DOMAIN gross = D
    OBVIOUS
  <2> HIDE DEF gross, D
  <2> QED
    BY <1>1, <2>1, <2>2, <2>3, SumOfAll, SumOfMember
<1>5. SumFunctionOnSet(net, D) = k * SumFunctionOnSet(gross, D)
  <2>1. \A i \in D : gross[i] \in Int /\ net[i] = k * gross[i]
    BY <1>3
  <2> HIDE DEF gross, net, D, k
  <2> QED
    BY <1>1, <1>2, <2>1, SumOfMultiples
<1>6. SumFunctionOnSet(cap400, D) = 400 * SumFunctionOnSet(cap, D) /\ SumFunctionOnSet(cap, D) \in Int
  <2>1. \A i \in D : cap[i] \in Int /\ cap400[i] = 400 * cap[i]
    BY <1>3
  <2> HIDE DEF cap, cap400, D
  <2> QED
    BY <1>1, <2>1, SumOfMultiples, SumOfMember
<1>7. \A i \in D : /\ diff[i] \in Int /\ net[i] \in Int /\ cap400[i] = diff[i] + net[i]
                   /\ -200 <= diff[i] /\ diff[i] <= 200
  BY <1>2, <1>3
<1>8. /\ SumFunctionOnSet(cap400, D) = SumFunctionOnSet(diff, D) + SumFunctionOnSet(net, D)
      /\ SumFunctionOnSet(diff, D) \in Int /\ SumFunctionOnSet(net, D) \in Int
      /\ -(200 * Cardinality(D)) <= SumFunctionOnSet(diff, D)
      /\ SumFunctionOnSet(diff, D) <= 200 * Cardinality(D)
  <2> HIDE DEF diff, net, cap400, D
  <2>1. SumFunctionOnSet(cap400, D) = SumFunctionOnSet(diff, D) + SumFunctionOnSet(net, D)
    BY <1>1, <1>7, SumOfPlus
  <2>2. SumFunctionOnSet(diff, D) \in Int /\ SumFunctionOnSet(net, D) \in Int
    BY <1>1, <1>7, SumOfMember
  <2>3. PICK low \in Int : low = -200
    OBVIOUS
  <2>4. PICK high \in Int : high = 200
    OBVIOUS
  <2>5. \A i \in D : diff[i] \in Int /\ low <= diff[i] /\ diff[i] <= high
    BY <1>7, <2>3, <2>4
  <2>6. /\ low * Cardinality(D) <= SumFunctionOnSet(diff, D)
        /\ SumFunctionOnSet(diff, D) <= high * Cardinality(D)
    BY <1>1, <2>5, SumBetween, Zenon
  <2> QED
    BY <1>1, <2>1, <2>2, <2>3, <2>4, <2>6, FS_CardinalityType
<1>9. CapacityTotal(s, Team) = SumFunctionOnSet(cap, D)
  <2>1. \A c \in Competencies : /\ RowCapacity(s, Team, c) = TeamCapacity(s, Team, c)
                                /\ TeamCapacity(s, Team, c) \in Nat
    BY CapacityOfTeam DEF RowCapacity
  <2>2. Configured(s, Team) = Competencies
    BY <2>1, CapacityAssumption DEF Configured
  <2>3. PICK i \in D : TRUE
    BY DEF TeamKnown
  <2>4. \A j \in D : kind[j] \in Competencies
    BY <1>1 DEF ResourceRow
  <2>5. Competencies # {}
    BY <2>3, <2>4
  <2>6. CapacityTotal(s, Team) = SumFunction(rows)
    BY <2>2, <2>5 DEF CapacityTotal, ByCompetency, TotalCapacity
  <2>7. DOMAIN rows = Competencies
    OBVIOUS
  <2>8. \A c \in Competencies : rows[c] = SumFunctionOnSet(cap, parts[c])
    BY <2>1 DEF TeamCapacity
  <2>9. \A j \in D : cap[j] \in Int
    BY <1>3
  <2>10. /\ \A c \in Competencies : parts[c] \in SUBSET D
         /\ \A c \in Competencies : \A j \in D : j \in parts[c] <=> kind[j] = c
    OBVIOUS
  <2>11. IsFiniteSet(Competencies)
    BY CapacityAssumption
  <2> HIDE DEF rows, cap, kind, D, parts
  <2>12. SumFunctionOnSet(rows, Competencies) = SumFunctionOnSet(cap, D)
    BY <1>1, <2>4, <2>8, <2>9, <2>10, <2>11, SumOfParts
  <2> QED
    BY <2>6, <2>7, <2>12, SumOfAll
<1>10. Cardinality(D) \in Nat
  BY <1>1, FS_CardinalityType
<1> HIDE DEF D, k, gross, net, cap, cap400, diff
<1>11. 400 * CapacityTotal(s, Team) - TeamGross(s, Team) * k = SumFunctionOnSet(diff, D)
  <2>1. TeamGross(s, Team) * k = k * SumFunctionOnSet(gross, D)
    BY <1>2, <1>4
  <2> QED
    BY <1>4, <1>5, <1>6, <1>8, <1>9, <2>1
<1>12. SumFunctionOnSet(diff, D) \in -(200 * Cardinality(D)) .. (200 * Cardinality(D))
  BY <1>8, <1>10
<1> QED
  BY <1>11, <1>12 DEF D, k

LEMMA HoursByTypes ==
  ASSUME sprint \in SprintRow \cup {NoRow},
         resource \in [Members \cup Guests -> ResourceRow \cup {NoRow}]
  PROVE  HoursCounted
<1>1. ASSUME sprint # NoRow, Dated(sprint), sprint.override = Unset
      PROVE  WorkingDays(sprint)
                = Cardinality({d \in sprint.start..sprint.end : d % 7 < 5})
  <2>1. sprint.start \in Nat /\ sprint.end \in Nat /\ sprint.start <= sprint.end
    BY <1>1, TeamAssumption DEF SprintRow, Dated
  <2>2. PICK n \in Nat : n = sprint.end - sprint.start + 1
    BY <2>1
  <2>3. sprint.start + n - 1 = sprint.end
    BY <2>1, <2>2
  <2>4. WorkingDays(sprint) = WeekdaysIn(sprint.start, n)
    BY <1>1, <2>2 DEF WorkingDays
  <2> QED
    BY <2>1, <2>3, <2>4, WeekdaysAreCounted
<1>2. ASSUME sprint # NoRow, sprint.source = "team", TeamKnown(sprint, Team)
      PROVE  LET exact == TeamGross(sprint, Team) * (100 - sprint.reserve)
                 hours == CapacityTotal(sprint, Team)
                 slack == 200 * Cardinality(DOMAIN Team)
             IN 400 * hours - exact \in -slack..slack
  BY <1>2, HoursOfTeam
<1> QED
  BY <1>1, <1>2 DEF HoursCounted

-----------------------------------------------------------------------------
\* Capacity against estimate.

\* The bar of a row that is over is full.
LEMMA FullBar ==
  ASSUME NEW capacity \in Nat, NEW estimate \in Nat, estimate > capacity
  PROVE  UsagePercent(capacity, estimate) = 100
<1>1. capacity # Unset
  BY CapacityAssumption
<1>2. CASE capacity = 0
  BY <1>1, <1>2 DEF UsagePercent
<1>3. CASE capacity > 0
  <2> DEFINE n == 2 * (100 * estimate) + capacity
             d == 2 * capacity
  <2>1. d \in Nat \ {0} /\ n \in Nat /\ 100 * d <= n
    BY <1>3
  <2>2. n \div d \in Int
    BY <2>1
  <2>3. n \div d >= 100
    <3> HIDE DEF n, d
    <3> QED
      BY <2>1, QuotientAtLeast
  <2>4. RoundHalfUp(100 * estimate, capacity) = n \div d
    BY DEF RoundHalfUp
  <2>5. UsagePercent(capacity, estimate) = Least(n \div d, 100)
    BY <1>1, <1>3, <2>4 DEF UsagePercent
  <2> HIDE DEF n, d
  <2> QED
    BY <2>2, <2>3, <2>5 DEF Least
<1> QED
  BY <1>2, <1>3

\* What is left and what is lacking of a capacity.
LEMMA LeftAndLacking ==
  ASSUME NEW capacity \in Nat, NEW estimate \in Nat
  PROVE  /\ capacity # Unset
         /\ Remaining(capacity, estimate) \in Nat /\ Remaining(capacity, estimate) # Unset
         /\ Overage(capacity, estimate) \in Nat
         /\ estimate + Remaining(capacity, estimate) = capacity + Overage(capacity, estimate)
         /\ Remaining(capacity, estimate) = 0 \/ Overage(capacity, estimate) = 0
         /\ IsOver(capacity, estimate) <=> Overage(capacity, estimate) > 0
<1>1. capacity # Unset /\ \A n \in Nat : n # Unset
  BY CapacityAssumption
<1> QED
  BY <1>1 DEF Remaining, Overage, IsOver, AtLeastZero

\* Nothing is over a capacity that is not known.
LEMMA NothingLacking ==
  ASSUME NEW estimate
  PROVE  Overage(Unset, estimate) = 0 /\ ~IsOver(Unset, estimate)
BY DEF Overage, IsOver

\* The capacity of a row is a number or not known.
LEMMA CapacityOfRow ==
  ASSUME NEW s \in SprintRow,
         resource \in [Members \cup Guests -> ResourceRow \cup {NoRow}],
         NEW c \in Competencies
  PROVE  RowCapacity(s, Team, c) \in Nat \cup {Unset}
<1>1. CASE s.source = "team"
  BY <1>1, CapacityOfTeam DEF RowCapacity, TeamCapacity
<1>2. CASE s.source # "team"
  <2>1. s.manual \in [Competencies -> Nat \cup {Unset}]
    BY TeamAssumption DEF SprintRow
  <2> QED
    BY <1>2, <2>1 DEF RowCapacity
<1> QED
  BY <1>1, <1>2

\* A sprint with capacities by competency.
LEMMA BalancedByCompetency ==
  ASSUME sprint \in SprintRow,
         resource \in [Members \cup Guests -> ResourceRow \cup {NoRow}],
         NEW planned \in [Competencies \cup {Unset} -> Nat],
         ByCompetency(sprint)
  PROVE  Balanced(planned)
<1> DEFINE K == Configured(sprint, Team)
           capacity == [c \in K |-> RowCapacity(sprint, Team, c)]
           remaining == [c \in K |-> Remaining(RowCapacity(sprint, Team, c), planned[c])]
           overage == [c \in Competencies |->
                         Overage(RowCapacity(sprint, Team, c), planned[c])]
           both == [c \in K |-> planned[c] + remaining[c]]
           U == Unconfigured(sprint, Team, planned)
           work == SumFunctionOnSet(planned, K)
           total == SumFunctionOnSet(capacity, K)
           left == SumFunctionOnSet(remaining, K)
           over == SumFunctionOnSet(overage, Competencies)
<1>1. IsFiniteSet(Competencies) /\ Unset \notin Int /\ Unset \notin Competencies
  BY CapacityAssumption
<1>2. K \in SUBSET Competencies /\ U \in SUBSET (Competencies \ K)
  BY DEF Configured, Unconfigured
<1>3. \A c \in K : RowCapacity(sprint, Team, c) \in Nat
  BY CapacityOfRow DEF Configured
<1>4. \A c \in Competencies \ K : RowCapacity(sprint, Team, c) = Unset
  BY DEF Configured
<1>5. \A c \in K : /\ capacity[c] \in Nat /\ remaining[c] \in Nat /\ overage[c] \in Nat
                   /\ planned[c] \in Nat
                   /\ both[c] = planned[c] + remaining[c]
                   /\ both[c] = capacity[c] + overage[c]
                   /\ IsOver(RowCapacity(sprint, Team, c), planned[c]) <=> overage[c] > 0
  BY <1>2, <1>3, LeftAndLacking
<1>6. \A c \in Competencies \ K :
         overage[c] = 0 /\ ~IsOver(RowCapacity(sprint, Team, c), planned[c])
  BY <1>4, NothingLacking
<1>7. IsFiniteSet(K) /\ IsFiniteSet(U) /\ IsFiniteSet(Competencies \ K)
  BY <1>1, <1>2, FS_Subset
<1>8. /\ CapacityTotal(sprint, Team) = IF K = {} THEN Unset ELSE total
      /\ CapacityRemaining(sprint, Team, planned)
            = IF CapacityTotal(sprint, Team) = Unset THEN Unset ELSE left
      /\ CapacityOverage(sprint, Team, planned) = over
      /\ CapacityUsage(sprint, Team, planned) = UsagePercent(total, work)
  BY SumOfAll DEF CapacityTotal, TotalCapacity, CapacityRemaining, CapacityOverage,
                  CapacityUsage
<1>9. IsOverCapacity(sprint, Team, planned)
         <=> \E c \in Competencies : IsOver(RowCapacity(sprint, Team, c), planned[c])
  BY DEF IsOverCapacity
<1>10. \A c \in Competencies \cup {Unset} : planned[c] \in Nat
  OBVIOUS
<1>11. U = {c \in Competencies \ K : planned[c] > 0}
  BY DEF Unconfigured, Configured
<1>12. \A c \in K : LET row == RowCapacity(sprint, Team, c)
                    IN /\ Remaining(row, planned[c]) = 0 \/ Overage(row, planned[c]) = 0
                       /\ IsOver(row, planned[c]) => UsagePercent(row, planned[c]) = 100
  <2>1. ASSUME NEW c \in K, NEW row \in Nat, row = RowCapacity(sprint, Team, c)
        PROVE  /\ Remaining(row, planned[c]) = 0 \/ Overage(row, planned[c]) = 0
               /\ IsOver(row, planned[c]) => UsagePercent(row, planned[c]) = 100
    BY <1>5, LeftAndLacking, FullBar, ZenonT(30) DEF IsOver
  <2> QED
    BY <1>3, <2>1
<1>13. TotalEstimate(planned) = SumFunctionOnSet(planned, Competencies \cup {Unset})
  BY SumOfAll DEF TotalEstimate
<1> HIDE DEF K, U, capacity, remaining, overage, both
<1>14. work \in Nat /\ total \in Nat /\ left \in Nat /\ over \in Nat
  <2>1. \A c \in Competencies : overage[c] \in Nat
    BY <1>5, <1>6
  <2> QED
    BY <1>1, <1>5, <1>7, <2>1, SumIsNat
<1>15. work + left = total + over
  <2>1. SumFunctionOnSet(both, K) = work + left
    BY <1>5, <1>7, SumOfPlus
  <2>2. SumFunctionOnSet(both, K) = total + SumFunctionOnSet(overage, K)
    BY <1>5, <1>7, SumOfPlus
  <2>3. over = SumFunctionOnSet(overage, K)
    <3>1. \A c \in Competencies : overage[c] \in Int
      BY <1>5, <1>6
    <3> QED
      BY <1>1, <1>2, <1>6, <3>1, SumWithoutZeros
  <2> QED
    BY <2>1, <2>2, <2>3
<1>16. K = {} => over = 0
  <2>1. K = {} => \A c \in Competencies : overage[c] = 0
    BY <1>6
  <2> QED
    BY <1>1, <2>1, SumOfZeros
<1>17. over > 0 <=> \E c \in Competencies : IsOver(RowCapacity(sprint, Team, c), planned[c])
  <2>1. \A c \in Competencies : /\ overage[c] \in Nat
                                /\ IsOver(RowCapacity(sprint, Team, c), planned[c]) <=> overage[c] > 0
    BY <1>5, <1>6
  <2>2. over > 0 <=> \E c \in Competencies : overage[c] > 0
    BY <1>1, <2>1, SumPositive
  <2> QED
    BY <2>1, <2>2
<1>18. TotalEstimate(planned) = work + planned[Unset] + SumFunctionOnSet(planned, U)
  <2>1. SumFunctionOnSet(planned, Competencies \cup {Unset})
           = planned[Unset] + SumFunctionOnSet(planned, Competencies)
    BY <1>1, <1>10, SumWithMember
  <2>2. SumFunctionOnSet(planned, K \cup (Competencies \ K))
           = work + SumFunctionOnSet(planned, Competencies \ K)
    <3>1. K \cap (Competencies \ K) = {} /\ \A c \in K \cup (Competencies \ K) : planned[c] \in Int
      BY <1>2, <1>10
    <3> QED
      BY <1>7, <3>1, SumOfUnion
  <2>3. K \cup (Competencies \ K) = Competencies
    BY <1>2
  <2>4. SumFunctionOnSet(planned, Competencies \ K) = SumFunctionOnSet(planned, U)
    <3>1. /\ \A c \in Competencies \ K : planned[c] \in Int
          /\ \A c \in (Competencies \ K) \ U : planned[c] = 0
      BY <1>10, <1>11
    <3> QED
      BY <1>2, <1>7, <3>1, SumWithoutZeros
  <2>5. SumFunctionOnSet(planned, U) \in Int /\ planned[Unset] \in Int
    <3>1. \A c \in U : planned[c] \in Int
      BY <1>2, <1>10
    <3> QED
      BY <1>7, <1>10, <3>1, SumOfMember
  <2>6. SumFunctionOnSet(planned, Competencies) = work + SumFunctionOnSet(planned, U)
    BY <2>2, <2>3, <2>4
  <2> HIDE DEF work
  <2> QED
    BY <1>13, <1>14, <2>1, <2>5, <2>6
<1> HIDE DEF work, total, left, over
<1>19. work > total => UsagePercent(total, work) = 100
  BY <1>14, FullBar
<1>20. total # Unset /\ left # Unset
  BY <1>1, <1>14
<1>21. /\ CapacityTotal(sprint, Team) = Unset <=> CapacityRemaining(sprint, Team, planned) = Unset
       /\ CapacityTotal(sprint, Team) = Unset <=> K = {}
  BY <1>8, <1>20
<1> QED
  BY <1>8, <1>9, <1>12, <1>15, <1>16, <1>17, <1>18, <1>19, <1>20, <1>21
  DEF Balanced, K, U, work

\* A sprint from before capacities by competency.
LEMMA BalancedAsWhole ==
  ASSUME sprint \in SprintRow,
         resource \in [Members \cup Guests -> ResourceRow \cup {NoRow}],
         NEW planned \in [Competencies \cup {Unset} -> Nat],
         ~ByCompetency(sprint)
  PROVE  Balanced(planned)
<1> DEFINE work == TotalEstimate(planned)
<1>1. work \in Nat
  <2>1. IsFiniteSet(Competencies)
    BY CapacityAssumption
  <2>2. IsFiniteSet(Competencies \cup {Unset})
    BY <2>1, FS_AddElement
  <2>3. work = SumFunctionOnSet(planned, Competencies \cup {Unset})
    BY SumOfAll DEF TotalEstimate
  <2>4. \A c \in Competencies \cup {Unset} : planned[c] \in Nat
    OBVIOUS
  <2> HIDE DEF work
  <2> QED
    BY <2>2, <2>3, <2>4, SumIsNat
<1>2. Configured(sprint, Team) = {}
  BY DEF Configured, RowCapacity, ByCompetency
<1>3. sprint.capacity \in Nat \cup {Unset}
  BY TeamAssumption DEF SprintRow
<1>4. /\ CapacityTotal(sprint, Team) = sprint.capacity
      /\ CapacityRemaining(sprint, Team, planned)
            = IF sprint.capacity = Unset THEN Unset ELSE Remaining(sprint.capacity, work)
      /\ CapacityOverage(sprint, Team, planned) = Overage(sprint.capacity, work)
      /\ CapacityUsage(sprint, Team, planned) = UsagePercent(sprint.capacity, work)
      /\ IsOverCapacity(sprint, Team, planned) = IsOver(sprint.capacity, work)
  BY DEF CapacityTotal, CapacityRemaining, CapacityOverage, CapacityUsage,
         IsOverCapacity
<1> HIDE DEF work
<1>5. CASE sprint.capacity = Unset
  <2>1. Overage(Unset, work) = 0 /\ ~IsOver(Unset, work)
    BY NothingLacking
  <2> QED
    BY <1>2, <1>4, <1>5, <2>1 DEF Balanced, work
<1>6. CASE sprint.capacity \in Nat
  <2>1. /\ sprint.capacity # Unset
        /\ Remaining(sprint.capacity, work) # Unset
        /\ work + Remaining(sprint.capacity, work)
              = sprint.capacity + Overage(sprint.capacity, work)
        /\ IsOver(sprint.capacity, work) <=> Overage(sprint.capacity, work) > 0
    BY <1>1, <1>6, LeftAndLacking
  <2>2. work > sprint.capacity => UsagePercent(sprint.capacity, work) = 100
    BY <1>1, <1>6, FullBar
  <2> QED
    BY <1>2, <1>4, <2>1, <2>2 DEF Balanced, work
<1> QED
  BY <1>3, <1>5, <1>6

LEMMA BalancedByTypes ==
  ASSUME sprint \in SprintRow \cup {NoRow},
         resource \in [Members \cup Guests -> ResourceRow \cup {NoRow}]
  PROVE  CapacityBalanced
BY BalancedByCompetency, BalancedAsWhole, PlansAssumption DEF CapacityBalanced
-----------------------------------------------------------------------------
\* Types, which hold however requests overlap.

LEMMA ProjectTyped ==
  ASSUME TeamTypeOK, Project
  PROVE  TeamTypeOK'
<1> USE RowAssumption DEF TeamTypeOK
<1>1. ASSUME NEW m \in Members, NEW row \in MemberRow, ProjectTeam(m, row)
      PROVE  TeamTypeOK'
  BY <1>1 DEF ProjectTeam
<1>2. /\ EmptyTeam \in [Members \cup Guests -> ResourceRow \cup {NoRow}]
      /\ AddedMembers(EmptyTeam, {m \in Members : Active(m)})
            \in [Members \cup Guests -> ResourceRow \cup {NoRow}]
  <2> DEFINE M == {m \in Members : Active(m)}
  <2>1. EmptyTeam \in [Members \cup Guests -> ResourceRow \cup {NoRow}]
    BY DEF EmptyTeam
  <2>2. M \in SUBSET Members /\ \A m \in M : Active(m)
    OBVIOUS
  <2> HIDE DEF M
  <2>3. AddedMembers(EmptyTeam, M) \in [Members \cup Guests -> ResourceRow \cup {NoRow}]
    BY <2>1, <2>2, MembersAdded
  <2> QED
    BY <2>1, <2>3 DEF M
<1>3. ASSUME NEW source \in Sources, NEW start \in Dates \cup {Unset},
             NEW end \in Dates \cup {Unset}, NEW manual \in Manuals,
             TeamSprintCreate(source, start, end, manual)
      PROVE  TeamTypeOK'
  <2> DEFINE new == [status |-> "planning", archived |-> FALSE, source |-> source,
                     start |-> start, end |-> end, override |-> Unset,
                     reserve |-> 0, manual |-> manual, capacity |-> Unset]
  <2>1. new \in SprintRow
    BY TeamAssumption DEF SprintRow
  <2>2. /\ sprint' = new /\ UNCHANGED <<member, loaded>>
        /\ resource' = AddedMembers(EmptyTeam, {m \in Members : Active(m)})
    BY <1>3 DEF TeamSprintCreate
  <2> HIDE DEF new
  <2> QED
    BY <1>2, <2>1, <2>2
<1>4. CASE TeamSprintCopy
  <2> DEFINE copy == [sprint EXCEPT !.status = "planning", !.archived = FALSE,
                        !.start = Unset, !.end = Unset, !.override = Unset]
  <2>1. /\ sprint # NoRow /\ sprint' = copy /\ loaded' = NoRow /\ UNCHANGED member
        /\ resource' = AddedMembers(EmptyTeam, {m \in Members : Active(m)})
    BY <1>4 DEF TeamSprintCopy
  <2>2. copy \in SprintRow
    BY <2>1, RowsChanged
  <2> HIDE DEF copy
  <2> QED
    BY <1>2, <2>1, <2>2
<1>5. CASE TeamSprintDelete
  BY <1>2, <1>5 DEF TeamSprintDelete, EmptyTeam
<1>6. ASSUME NEW st \in {"planning", "active", "completed"},
             TeamSprintSetStatus(st)
      PROVE  TeamTypeOK'
  <2>1. /\ sprint # NoRow /\ sprint' = [sprint EXCEPT !.status = st]
        /\ UNCHANGED <<member, resource, loaded>>
    BY <1>6 DEF TeamSprintSetStatus
  <2>2. sprint' \in SprintRow
    BY <2>1, RowsChanged
  <2> QED
    BY <2>1, <2>2
<1>7. ASSUME NEW put \in BOOLEAN, sprint # NoRow,
             sprint' = [sprint EXCEPT !.archived = put],
             UNCHANGED <<member, resource, loaded>>
      PROVE  TeamTypeOK'
  <2>1. sprint' \in SprintRow
    BY <1>7, RowsChanged
  <2> QED
    BY <1>7, <2>1
<1>8. CASE TeamSprintArchive
  BY <1>7, <1>8 DEF TeamSprintArchive
<1>9. CASE TeamSprintRestore
  BY <1>7, <1>9 DEF TeamSprintRestore
<1> QED
  BY <1>1, <1>3, <1>4, <1>5, <1>6, <1>8, <1>9 DEF Project

LEMMA TeamPageTyped ==
  ASSUME TeamTypeOK, TeamPage
  PROVE  TeamTypeOK'
<1> USE RowAssumption DEF TeamTypeOK
<1>0. Editable(sprint) => sprint \in SprintRow /\ sprint # NoRow
  BY DEF Editable
<1>1. ASSUME NEW source \in Sources, NEW start \in Dates \cup {Unset},
             NEW end \in Dates \cup {Unset},
             NEW override \in Overrides \cup {Unset}, NEW reserve \in Reserves,
             SprintTeamSettings(source, start, end, override, reserve)
      PROVE  TeamTypeOK'
  <2> DEFINE new == [sprint EXCEPT !.source = source, !.start = start, !.end = end,
                                   !.override = override, !.reserve = reserve]
  <2>1. Editable(sprint) /\ sprint' = new /\ UNCHANGED <<member, resource, loaded>>
    BY <1>1 DEF SprintTeamSettings
  <2>2. new \in SprintRow
    BY <1>0, <2>1 DEF SprintRow
  <2> HIDE DEF new
  <2> QED
    BY <2>1, <2>2
<1>2. ASSUME NEW manual \in Manuals, SprintTeamCapacity(manual)
      PROVE  TeamTypeOK'
  <2>1. /\ Editable(sprint) /\ UNCHANGED <<member, resource, loaded>>
        /\ sprint' = [sprint EXCEPT !.manual = manual, !.capacity = Unset,
                                    !.source = "manual"]
    BY <1>2 DEF SprintTeamCapacity
  <2>2. sprint' \in SprintRow
    BY <1>0, <2>1, RowsChanged
  <2>3. sprint' # NoRow
    BY <2>2
  <2> QED
    BY <2>1, <2>2, <2>3
<1>3. ASSUME NEW M \in SUBSET Members, SprintMembersAdd(M)
      PROVE  TeamTypeOK'
  <2>1. /\ Editable(sprint) /\ \A m \in M : Active(m)
        /\ resource' = AddedMembers(resource, M) /\ UNCHANGED <<member, sprint, loaded>>
    BY <1>3 DEF SprintMembersAdd
  <2>2. AddedMembers(resource, M) \in [Members \cup Guests -> ResourceRow \cup {NoRow}]
    BY <2>1, MembersAdded
  <2> QED
    BY <1>0, <2>1, <2>2
<1>4. ASSUME NEW i \in Members \cup Guests, NEW profile \in Profiles,
             NEW absence \in Absences,
             \/ SprintResourceCreate(i, profile, absence)
             \/ SprintResourceUpdate(i, profile, absence)
      PROVE  TeamTypeOK'
  <2>1. /\ Editable(sprint)
        /\ resource' = [resource EXCEPT ![i] = Resource(profile, absence)]
        /\ UNCHANGED <<member, sprint, loaded>>
    BY <1>4 DEF SprintResourceCreate, SprintResourceUpdate
  <2>2. Resource(profile, absence) \in ResourceRow
    BY ResourceMade
  <2> QED
    BY <1>0, <2>1, <2>2
<1>5. ASSUME NEW i \in Members \cup Guests, SprintResourceRemove(i)
      PROVE  TeamTypeOK'
  BY <1>5 DEF SprintResourceRemove
<1> QED
  BY <1>1, <1>2, <1>3, <1>4, <1>5 DEF TeamPage

LEMMA TeamTypeNext ==
  ASSUME TeamTypeOK, [TeamNext]_teamVars
  PROVE  TeamTypeOK'
<1>1. CASE Project \/ TeamPage
  BY <1>1, ProjectTyped, TeamPageTyped
<1>2. CASE CapacityRead
  BY <1>2 DEF CapacityRead, TeamTypeOK
<1>3. ASSUME NEW manual \in Manuals, CapacitySaved(manual)
      PROVE  TeamTypeOK'
  <2>1. /\ loaded # NoRow /\ loaded' = NoRow /\ UNCHANGED <<member, resource>>
        /\ sprint' = [loaded EXCEPT !.manual = manual, !.capacity = Unset]
    BY <1>3 DEF CapacitySaved
  <2>2. sprint' \in SprintRow
    BY <2>1, RowsChanged DEF TeamTypeOK
  <2>3. sprint' # NoRow
    BY <2>2, RowAssumption
  <2> QED
    BY <2>1, <2>2, <2>3 DEF TeamTypeOK
<1>4. CASE UNCHANGED teamVars
  BY <1>4 DEF teamVars, TeamTypeOK
<1> QED
  BY <1>1, <1>2, <1>3, <1>4 DEF TeamNext

\* Rows of sprints, teams and members have their types, and there is no team
\* without a sprint, however requests overlap: also when the save of a capacity
\* form brings a deleted sprint back (sprint_team, sprint_delete,
\* sprint_capacity_update).
THEOREM TeamsTypeCorrect == TeamSpec => []TeamTypeOK
<1>1. TeamInit => TeamTypeOK
  BY TeamInvInit DEF TeamInv
<1>2. TeamTypeOK /\ [TeamNext]_teamVars => TeamTypeOK'
  BY TeamTypeNext
<1> QED
  BY <1>1, <1>2, PTL DEF TeamSpec

\* Capacity, estimate, what is left and what is lacking make up for each other
\* in every row and in the totals, whatever is planned and however requests
\* overlap (competency_capacity_rows, capacity_remaining, capacity_overage).
THEOREM CapacitiesBalanced == TeamSpec => []CapacityBalanced
<1>1. TeamTypeOK => CapacityBalanced
  BY BalancedByTypes DEF TeamTypeOK
<1> QED
  BY <1>1, TeamsTypeCorrect, PTL

\* Working days are the days from Monday to Friday, and the hours of a team of
\* any size are its gross hours less the reserve, up to half a hundredth of an
\* hour for each person (Sprint.working_days, SprintResource.capacity_hours).
THEOREM HoursAlwaysCounted == TeamSpec => []HoursCounted
<1>1. TeamTypeOK => HoursCounted
  BY HoursByTypes DEF TeamTypeOK
<1> QED
  BY <1>1, TeamsTypeCorrect, PTL

-----------------------------------------------------------------------------
\* The result of a round.

\* The operators of the round are those of the scale.
LEMMA RoundSum ==
  ASSUME NEW f, NEW S
  PROVE  OneRound!SumFunctionOnSet(f, S) = SumFunctionOnSet(f, S)
BY DEF OneRound!SumFunctionOnSet, SumFunctionOnSet, OneRound!FoldFunctionOnSet, FoldFunctionOnSet,
       OneRound!MapThenFoldSet, MapThenFoldSet

LEMMA RoundCount ==
  ASSUME NEW S
  PROVE  OneRound!Cardinality(S) = Cardinality(S)
BY DEF OneRound!Cardinality, Cardinality

LEMMA RoundEstimate ==
  ASSUME NEW total, NEW count
  PROVE  /\ OneRound!EstimateOnScale(total, count) = EstimateOnScale(total, count)
         /\ OneRound!ReferenceEstimate(total, count) = ReferenceEstimate(total, count)
         /\ OneRound!Scale = Scale
<1>1. OneRound!Scale = Scale /\ OneRound!PositiveCards = PositiveCards
  BY DEF OneRound!Scale, Scale, OneRound!PositiveCards, PositiveCards
<1>2. OneRound!EstimateOnScale(total, count) = EstimateOnScale(total, count)
  BY <1>1 DEF OneRound!EstimateOnScale, EstimateOnScale, OneRound!Preferred, Preferred,
     OneRound!Distance, Distance, OneRound!NoEstimate, NoEstimate
<1>3. OneRound!ReferenceEstimate(total, count) = ReferenceEstimate(total, count)
  BY DEF OneRound!ReferenceEstimate, ReferenceEstimate, OneRound!ReachesMidpoint, ReachesMidpoint
<1> QED
  BY <1>1, <1>2, <1>3

\* What the votes of a round add up to.
LEMMA RoundVotes ==
  ASSUME NEW b \in OneRound!Ballots, OneRound!Voters(b) # {}
  PROVE  /\ IsFiniteSet(OneRound!Voters(b))
         /\ \A p \in OneRound!Voters(b) : b[p] \in Nat
         /\ OneRound!Summary(b).sum = SumFunctionOnSet(b, OneRound!Voters(b))
         /\ OneRound!Summary(b).sum \in Nat
         /\ OneRound!Summary(b).count = Cardinality(OneRound!Voters(b))
         /\ OneRound!Summary(b).count \in Nat \ {0}
         /\ OneRound!FinalEstimate(b)
               = EstimateOnScale(OneRound!Summary(b).sum, OneRound!Summary(b).count)
<1> DEFINE V == OneRound!Voters(b)
<1>1. IsFiniteSet(V)
  BY BallotAssumption, FS_Subset DEF OneRound!Voters
<1>2. \A p \in V : b[p] \in Nat
  BY BallotAssumption, RoundEstimate DEF OneRound!Voters, OneRound!Ballots, Scale
<1>3. /\ OneRound!Summary(b).sum = SumFunctionOnSet(b, V)
      /\ OneRound!Summary(b).count = Cardinality(V)
  BY RoundSum, RoundCount DEF OneRound!Summary, OneRound!VoteCount
<1>4. Cardinality(V) \in Nat \ {0}
  BY <1>1, FS_CardinalityType, FS_EmptySet
<1>5. SumFunctionOnSet(b, V) \in Nat
  BY <1>1, <1>2, SumIsNat
<1>6. OneRound!FinalEstimate(b)
         = EstimateOnScale(OneRound!Summary(b).sum, OneRound!Summary(b).count)
  BY RoundEstimate DEF OneRound!FinalEstimate
<1> QED
  BY <1>1, <1>2, <1>3, <1>4, <1>5, <1>6

\* Votes that are not lower have a result that is not lower.
LEMMA RoundMonotone ==
  ASSUME NEW b \in OneRound!Ballots, NEW c \in OneRound!Ballots,
         OneRound!Voters(b) # {}, OneRound!Voters(c) = OneRound!Voters(b),
         \A p \in OneRound!Voters(b) : b[p] <= c[p]
  PROVE  OneRound!FinalEstimate(b) <= OneRound!FinalEstimate(c)
<1> DEFINE V == OneRound!Voters(b)
<1>1. /\ IsFiniteSet(V)
      /\ \A p \in V : b[p] \in Int /\ c[p] \in Int /\ b[p] <= c[p]
  BY RoundVotes
<1>2. SumFunctionOnSet(b, V) <= SumFunctionOnSet(c, V)
  <2> HIDE DEF V
  <2> QED
    BY <1>1, SumMonotone
<1> QED
  BY <1>2, RoundVotes, EstimateMonotone

LEMMA RoundTypedNext ==
  ASSUME OneRound!TypeOK, [OneRound!Next]_OneRound!vars
  PROVE  OneRound!TypeOK'
<1> USE DEF OneRound!TypeOK, OneRound!Ballots
<1>1. ASSUME NEW p \in Participants, NEW v \in Cards, OneRound!Vote(p, v)
      PROVE  OneRound!TypeOK'
  BY <1>1 DEF OneRound!Vote
<1>2. CASE OneRound!Open
  BY <1>2 DEF OneRound!Open
<1>3. CASE OneRound!Reveal
  BY <1>3 DEF OneRound!Reveal
<1>4. CASE OneRound!Accept
  BY <1>4 DEF OneRound!Accept
<1>5. CASE OneRound!Cancel
  BY <1>5 DEF OneRound!Cancel
<1>6. CASE OneRound!Discard
  BY <1>6 DEF OneRound!Discard, OneRound!EmptyBallot
<1>7. CASE UNCHANGED OneRound!vars
  BY <1>7 DEF OneRound!vars
<1> QED
  BY <1>1, <1>2, <1>3, <1>4, <1>5, <1>6, <1>7 DEF OneRound!Next

LEMMA RoundTyped == OneRound!Spec => []OneRound!TypeOK
<1>1. OneRound!Init => OneRound!TypeOK
  BY DEF OneRound!Init, OneRound!TypeOK, OneRound!Ballots, OneRound!EmptyBallot
<1> QED
  BY <1>1, RoundTypedNext, PTL DEF OneRound!Spec

\* Whatever the votes, the result of a round is the card that the midpoints
\* around its average give (VotingRound.summary, estimate_on_scale).
THEOREM EstimatesGoByMidpoints == OneRound!Spec => []EstimateByMidpoints
<1>1. ASSUME OneRound!TypeOK
      PROVE  EstimateByMidpoints
  <2>1. ballot \in OneRound!Ballots
    BY <1>1 DEF OneRound!TypeOK
  <2>2. ASSUME OneRound!Voters(ballot) # {}
        PROVE  OneRound!FinalEstimate(ballot)
                  = OneRound!ReferenceEstimate(OneRound!Summary(ballot).sum,
                                               OneRound!Summary(ballot).count)
    BY <2>1, <2>2, RoundVotes, RoundEstimate, EstimateIsReference
  <2> QED
    BY <2>2 DEF EstimateByMidpoints, OneRound!EstimateByMidpoints
<1> QED
  BY <1>1, RoundTyped, PTL

\* A participant who raises a card never lowers the result of the round, and
\* one who lowers it never raises the result (vote, VotingRound.summary).
THEOREM RaisedVotesKeepOrder == OneRound!Spec => RaisedVoteKeepsOrder
<1> DEFINE Keeps ==
      \A p \in OneRound!Voters(ballot) :
          ballot' = [ballot EXCEPT ![p] = ballot'[p]] /\ ballot'[p] # NoVote =>
              /\ ballot[p] <= ballot'[p]
                    => OneRound!FinalEstimate(ballot) <= OneRound!FinalEstimate(ballot')
              /\ ballot'[p] <= ballot[p]
                    => OneRound!FinalEstimate(ballot') <= OneRound!FinalEstimate(ballot)
<1>1. ASSUME OneRound!TypeOK, OneRound!TypeOK'
      PROVE  Keeps
  <2>1. ballot \in OneRound!Ballots /\ ballot' \in OneRound!Ballots
    BY <1>1 DEF OneRound!TypeOK, OneRound!Ballots
  <2>2. SUFFICES ASSUME NEW p \in OneRound!Voters(ballot),
                        ballot' = [ballot EXCEPT ![p] = ballot'[p]],
                        ballot'[p] # NoVote
                 PROVE  /\ ballot[p] <= ballot'[p]
                              => OneRound!FinalEstimate(ballot) <= OneRound!FinalEstimate(ballot')
                        /\ ballot'[p] <= ballot[p]
                              => OneRound!FinalEstimate(ballot') <= OneRound!FinalEstimate(ballot)
    OBVIOUS
  <2> DEFINE V == OneRound!Voters(ballot)
  <2>3. \A q \in Participants : q # p => ballot'[q] = ballot[q]
    BY <2>1, <2>2 DEF OneRound!Ballots
  <2>4. OneRound!Voters(ballot') = V
    BY <2>2, <2>3 DEF OneRound!Voters
  <2>5. /\ V # {} /\ V \in SUBSET Participants
        /\ \A q \in V : ballot[q] \in Nat /\ ballot'[q] \in Nat
    BY <2>1, <2>4, RoundVotes DEF OneRound!Voters
  <2>6. ASSUME ballot[p] <= ballot'[p]
        PROVE  OneRound!FinalEstimate(ballot) <= OneRound!FinalEstimate(ballot')
    <3>1. \A q \in V : ballot[q] <= ballot'[q]
      BY <2>3, <2>5, <2>6
    <3> QED
      BY <2>1, <2>4, <2>5, <3>1, RoundMonotone
  <2>7. ASSUME ballot'[p] <= ballot[p]
        PROVE  OneRound!FinalEstimate(ballot') <= OneRound!FinalEstimate(ballot)
    <3>1. \A q \in V : ballot'[q] <= ballot[q]
      BY <2>3, <2>5, <2>7
    <3> QED
      BY <2>1, <2>4, <2>5, <3>1, RoundMonotone
  <2> QED
    BY <2>6, <2>7
<1>2. OneRound!TypeOK /\ OneRound!TypeOK' => [Keeps]_OneRound!vars
  BY <1>1
<1>3. RaisedVoteKeepsOrder <=> [][Keeps]_OneRound!vars
  BY DEF RaisedVoteKeepsOrder, OneRound!RaisedVoteKeepsOrder
<1> HIDE DEF Keeps
<1> QED
  BY <1>2, <1>3, RoundTyped, PTL

=============================================================================
