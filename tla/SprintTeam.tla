----------------------------- MODULE SprintTeam -----------------------------
(***************************************************************************)
(* The members of a project and the team and capacity of one sprint.  The  *)
(* team is a snapshot: rows SprintResource of their own, copied from the   *)
(* members when the sprint is made or when they are added to it.           *)
(*                                                                         *)
(* The handlers of the team page work under a lock on the row of the       *)
(* sprint and are one step.  sprint_capacity_update reads the row without  *)
(* a lock and saves all of it later: loaded is the row it has read.  With  *)
(* Overlapping = FALSE no other request comes between the two.             *)
(***************************************************************************)
EXTENDS Capacity

CONSTANTS Members,      \* members that a project ever has
          Guests,       \* rows of a sprint for somebody who is no member
          Profiles,     \* bound: competency, allocation and hours of a person
          Absences,     \* bound: absences, in half days
          Dates,        \* bound: first and last days of a sprint
          Overrides,    \* bound: working days by an own calendar
          Reserves,     \* bound: reserves, in percent
          Manuals,      \* bound: capacities by competency entered by hand
          OldCapacity,  \* bound: capacity of a sprint from before competencies
          NoRow,        \* no such row
          Overlapping   \* other requests come between a read and a save

ASSUME TeamAssumption ==
    /\ Profiles \subseteq [competency : Competencies, allocation : 0..100,
                           hours : 1..48]
    /\ Absences \subseteq Nat /\ 0 \in Absences
    /\ Dates \subseteq Nat
    /\ Overrides \subseteq Nat
    /\ Reserves \subseteq 0..100 /\ 0 \in Reserves
    /\ Manuals \subseteq [Competencies -> Nat \cup {Unset}]
    /\ [c \in Competencies |-> Unset] \in Manuals
    /\ OldCapacity \in Nat
    /\ IsFiniteSet(Members \cup Guests)
    /\ Overlapping \in BOOLEAN

Sources == {"manual", "team"}

SprintRow == [status : {"planning", "active", "completed"},
              archived : BOOLEAN,
              source : Sources,
              start : Dates \cup {Unset},
              end : Dates \cup {Unset},
              override : Overrides \cup {Unset},
              reserve : Reserves,
              manual : Manuals,
              capacity : {Unset, OldCapacity}]

ResourceRow == [competency : Competencies, allocation : 0..100, hours : 1..48,
                absence : Absences]

MemberRow == [profile : Profiles, active : BOOLEAN]

ASSUME RowAssumption == NoRow \notin SprintRow \cup ResourceRow \cup MemberRow

VARIABLES
    member,    \* the members of the project
    sprint,    \* the row of the sprint, or NoRow
    resource,  \* the team of the sprint: rows of members and of guests
    loaded     \* the row that a running sprint_capacity_update saves

teamVars == <<member, sprint, resource, loaded>>

TeamTypeOK ==
    /\ member \in [Members -> MemberRow \cup {NoRow}]
    /\ sprint \in SprintRow \cup {NoRow}
    /\ resource \in [Members \cup Guests -> ResourceRow \cup {NoRow}]
    /\ loaded \in SprintRow \cup {NoRow}
    /\ sprint = NoRow => \A i \in Members \cup Guests : resource[i] = NoRow

-----------------------------------------------------------------------------
Team == [i \in {j \in Members \cup Guests : resource[j] # NoRow} |-> resource[i]]

Active(m) == member[m] # NoRow /\ member[m].active

\* _locked, the other way round.
Editable(s) == s # NoRow /\ s.status # "completed" /\ ~s.archived

\* SprintResource.clean
Fits(s, absence) == WorkingDays(s) # Unset => absence <= 2 * WorkingDays(s)

Resource(profile, absence) ==
    [competency |-> profile.competency, allocation |-> profile.allocation,
     hours |-> profile.hours, absence |-> absence]

\* add_project_members(sprint, M): members who have a row keep it.
AddedMembers(team, M) ==
    [i \in Members \cup Guests |->
        IF i \in M /\ team[i] = NoRow THEN Resource(member[i].profile, 0)
        ELSE team[i]]

EmptyTeam == [i \in Members \cup Guests |-> NoRow]

-----------------------------------------------------------------------------
\* project_team: a member is added or edited.
ProjectTeam(m, row) ==
    /\ member' = [member EXCEPT ![m] = row]
    /\ UNCHANGED <<sprint, resource, loaded>>

\* SprintForm.clean.  Reserve and calendar come later, on the team page.
SprintFormValid(s) ==
    /\ s.start # Unset /\ s.end # Unset => s.start <= s.end
    /\ s.source = "team" =>
           /\ s.start # Unset /\ s.end # Unset
           /\ \E m \in Members : Active(m)

TeamSprintCreate(source, start, end, manual) ==
    LET new == [status |-> "planning", archived |-> FALSE, source |-> source,
                start |-> start, end |-> end, override |-> Unset, reserve |-> 0,
                manual |-> manual, capacity |-> Unset]
    IN /\ sprint = NoRow
       /\ SprintFormValid(new)
       /\ sprint' = new
       /\ resource' = AddedMembers(EmptyTeam, {m \in Members : Active(m)})
       /\ UNCHANGED <<member, loaded>>

\* From here on the copy is looked at.  The old sprint stays as it is.
TeamSprintCopy ==
    /\ sprint # NoRow
    /\ sprint' = [sprint EXCEPT !.status = "planning", !.archived = FALSE,
                                !.start = Unset, !.end = Unset, !.override = Unset]
    /\ resource' = AddedMembers(EmptyTeam, {m \in Members : Active(m)})
    /\ loaded' = NoRow
    /\ UNCHANGED member

\* Mutant of TeamSprintDelete: its resources stay, as they do without a member.
DeleteSprintOnly ==
    /\ sprint # NoRow
    /\ sprint' = NoRow
    /\ UNCHANGED <<member, resource, loaded>>

TeamSprintDelete ==
    /\ sprint # NoRow
    /\ sprint' = NoRow
    /\ resource' = EmptyTeam
    /\ UNCHANGED <<member, loaded>>

TeamSprintSetStatus(status) ==
    /\ sprint # NoRow /\ ~sprint.archived
    /\ sprint' = [sprint EXCEPT !.status = status]
    /\ UNCHANGED <<member, resource, loaded>>

TeamSprintArchive ==
    /\ sprint # NoRow /\ sprint.status = "completed"
    /\ sprint' = [sprint EXCEPT !.archived = TRUE]
    /\ UNCHANGED <<member, resource, loaded>>

TeamSprintRestore ==
    /\ sprint # NoRow
    /\ sprint' = [sprint EXCEPT !.archived = FALSE]
    /\ UNCHANGED <<member, resource, loaded>>

-----------------------------------------------------------------------------
\* SprintSettingsForm.clean, s being the row with the new settings.
SettingsSettled(s) ==
    /\ s.source = "team" =>
           s.start # Unset /\ s.end # Unset /\ DOMAIN Team # {}
    /\ s.start # Unset /\ s.end # Unset =>
           /\ s.start <= s.end
           /\ s.override # Unset => s.override <= s.end - s.start + 1

\* Mutant of SettingsValid: the team is not looked at again.
SettingsSettledOnly(s) == SettingsSettled(s)

SettingsValid(s) ==
    SettingsSettled(s) /\ \A i \in DOMAIN Team : Fits(s, Team[i].absence)

\* sprint_team with the settings form.
SprintTeamSettings(source, start, end, override, reserve) ==
    /\ Editable(sprint)
    /\ sprint' = [sprint EXCEPT !.source = source, !.start = start, !.end = end,
                                !.override = override, !.reserve = reserve]
    /\ SettingsValid(sprint')
    /\ UNCHANGED <<member, resource, loaded>>

\* sprint_team with the action "capacity".
SprintTeamCapacity(manual) ==
    /\ Editable(sprint)
    /\ sprint' = [sprint EXCEPT !.manual = manual, !.capacity = Unset,
                                !.source = "manual"]
    /\ UNCHANGED <<member, resource, loaded>>

SprintResourceCreate(g, profile, absence) ==
    /\ Editable(sprint) /\ resource[g] = NoRow
    /\ Fits(sprint, absence)
    /\ resource' = [resource EXCEPT ![g] = Resource(profile, absence)]
    /\ UNCHANGED <<member, sprint, loaded>>

\* All active members, or one of them.
SprintMembersAdd(M) ==
    /\ Editable(sprint)
    /\ \A m \in M : Active(m)
    /\ resource' = AddedMembers(resource, M)
    /\ UNCHANGED <<member, sprint, loaded>>

SprintResourceUpdate(i, profile, absence) ==
    /\ Editable(sprint) /\ resource[i] # NoRow
    /\ Fits(sprint, absence)
    /\ resource' = [resource EXCEPT ![i] = Resource(profile, absence)]
    /\ UNCHANGED <<member, sprint, loaded>>

SprintResourceRemove(i) ==
    /\ Editable(sprint) /\ resource[i] # NoRow
    /\ resource' = [resource EXCEPT ![i] = NoRow]
    /\ UNCHANGED <<member, sprint, loaded>>

\* Mutant of CapacityRead: only the source is looked at.
AnyCapacityRead ==
    /\ loaded = NoRow /\ sprint # NoRow
    /\ sprint.source = "manual"
    /\ loaded' = sprint
    /\ UNCHANGED <<member, sprint, resource>>

\* sprint_capacity_update, up to form.is_valid() ...
CapacityRead ==
    /\ loaded = NoRow
    /\ Editable(sprint) /\ sprint.source = "manual"
    /\ loaded' = sprint
    /\ UNCHANGED <<member, sprint, resource>>

\* ... and its save of the whole row, which also puts a deleted row back.
CapacitySaved(manual) ==
    /\ loaded # NoRow
    /\ sprint' = [loaded EXCEPT !.manual = manual, !.capacity = Unset]
    /\ loaded' = NoRow
    /\ UNCHANGED <<member, resource>>

-----------------------------------------------------------------------------
\* A sprint from before capacities by competency, or none.
TeamInit ==
    /\ member = [m \in Members |-> NoRow]
    /\ sprint \in {NoRow,
                   [status |-> "planning", archived |-> FALSE,
                    source |-> "manual", start |-> Unset, end |-> Unset,
                    override |-> Unset, reserve |-> 0,
                    manual |-> [c \in Competencies |-> Unset],
                    capacity |-> OldCapacity]}
    /\ resource = EmptyTeam
    /\ loaded = NoRow

Project ==
    \/ \E m \in Members, row \in MemberRow : ProjectTeam(m, row)
    \/ \E source \in Sources, start, end \in Dates \cup {Unset},
          manual \in Manuals : TeamSprintCreate(source, start, end, manual)
    \/ TeamSprintCopy \/ TeamSprintDelete \/ TeamSprintArchive \/ TeamSprintRestore
    \/ \E status \in {"planning", "active", "completed"} : TeamSprintSetStatus(status)

TeamPage ==
    \/ \E source \in Sources, start, end \in Dates \cup {Unset},
          override \in Overrides \cup {Unset}, reserve \in Reserves :
           SprintTeamSettings(source, start, end, override, reserve)
    \/ \E manual \in Manuals : SprintTeamCapacity(manual)
    \/ \E M \in SUBSET Members : SprintMembersAdd(M)
    \/ \E g \in Guests, profile \in Profiles, absence \in Absences :
           SprintResourceCreate(g, profile, absence)
    \/ \E i \in Members \cup Guests, profile \in Profiles, absence \in Absences :
           SprintResourceUpdate(i, profile, absence)
    \/ \E i \in Members \cup Guests : SprintResourceRemove(i)

TeamNext ==
    \/ /\ Overlapping \/ loaded = NoRow
       /\ Project \/ TeamPage
    \/ CapacityRead
    \/ \E manual \in Manuals : CapacitySaved(manual)

TeamSpec == TeamInit /\ [][TeamNext]_teamVars

-----------------------------------------------------------------------------
\* Nobody in the team is away for more days than the sprint has working days,
\* whatever was changed last: the person, the period or the calendar.
AbsenceFits ==
    sprint # NoRow => \A i \in DOMAIN Team : Fits(sprint, Team[i].absence)

\* What a row of the sprint still has and what it lacks make up for the
\* difference of capacity and estimate, never both at once, and so do the
\* totals.  The sprint is over its capacity exactly when some hours of it are
\* over, and then the bar of every row that is over is full.  All planned work
\* is in a row with a capacity, in one that a warning names, or without a
\* competency.  (competency_capacity_rows, capacity_remaining,
\* capacity_overage, capacity_usage_percent, unconfigured_capacity_rows)
Balanced(planned) ==
    LET over == CapacityOverage(sprint, Team, planned)
        left == CapacityRemaining(sprint, Team, planned)
        total == CapacityTotal(sprint, Team)
        work == IF ByCompetency(sprint)
                THEN SumFunctionOnSet(planned, Configured(sprint, Team))
                ELSE TotalEstimate(planned)
    IN /\ total = Unset <=> left = Unset
       /\ IF total = Unset THEN over = 0 ELSE work + left = total + over
       /\ IsOverCapacity(sprint, Team, planned) <=> over > 0
       /\ total # Unset /\ work > total => CapacityUsage(sprint, Team, planned) = 100
       /\ ByCompetency(sprint) =>
              TotalEstimate(planned)
                  = work + planned[Unset]
                    + SumFunctionOnSet(planned, Unconfigured(sprint, Team, planned))
       /\ \A c \in Configured(sprint, Team) :
              LET capacity == RowCapacity(sprint, Team, c)
              IN /\ Remaining(capacity, planned[c]) = 0
                    \/ Overage(capacity, planned[c]) = 0
                 /\ IsOver(capacity, planned[c])
                        => UsagePercent(capacity, planned[c]) = 100

CONSTANT Plans  \* bound: estimates of the planned tasks by competency

ASSUME PlansAssumption == Plans \subseteq [Competencies \cup {Unset} -> Nat]

CapacityBalanced == sprint # NoRow => \A planned \in Plans : Balanced(planned)

\* Without a calendar of its own a sprint has as many working days as there are
\* days from Monday to Friday in it, and the hours of its team are the gross
\* hours of these days less the reserve, up to half a hundredth of an hour for
\* each person.  (Sprint.working_days, SprintResource.capacity_hours)
HoursCounted ==
    /\ sprint # NoRow /\ Dated(sprint) /\ sprint.override = Unset =>
          WorkingDays(sprint)
              = Cardinality({d \in sprint.start..sprint.end : d % 7 < 5})
    /\ sprint # NoRow /\ sprint.source = "team" /\ TeamKnown(sprint, Team) =>
          LET exact == TeamGross(sprint, Team) * (100 - sprint.reserve)
              hours == CapacityTotal(sprint, Team)
              slack == 200 * Cardinality(DOMAIN Team)
          IN 400 * hours - exact \in -slack..slack

\* Team, calendar and capacity of a completed or archived sprint do not change
\* as long as it stays one.  (_check_editable, sprint_capacity_update)
Settings(s) == <<s.source, s.start, s.end, s.override, s.reserve, s.manual,
                 s.capacity>>

ClosedTeamStep ==
    sprint # NoRow /\ ~Editable(sprint) /\ sprint' # NoRow /\ ~Editable(sprint') =>
        resource' = resource /\ Settings(sprint') = Settings(sprint)

ClosedTeamKept == [][ClosedTeamStep]_teamVars

=============================================================================
