------------------------------ MODULE Capacity ------------------------------
(***************************************************************************)
(* The capacity of a sprint, as its row, the rows SprintResource of its    *)
(* team and the estimates of its planned tasks give it.  All of it is      *)
(* derived: nothing is stored.                                             *)
(*                                                                         *)
(* Decimals are integers here: absences are in half days, hours per day in *)
(* half hours, percentages are whole, hours of work are in hundredths.     *)
(* Dates are days, and day 0 is a Monday.                                  *)
(***************************************************************************)
EXTENDS Integers, FiniteSets, Functions

CONSTANTS Competencies,  \* Task.Competency without the empty one
          Unset          \* null

ASSUME CapacityAssumption ==
    Unset \notin Int \cup Competencies /\ IsFiniteSet(Competencies)

Least(a, b) == IF a < b THEN a ELSE b
AtLeastZero(n) == IF n < 0 THEN 0 ELSE n

\* n / d, rounded half up: quantize(..., ROUND_HALF_UP).
RoundHalfUp(n, d) == (2 * n + d) \div (2 * d)

-----------------------------------------------------------------------------
Dated(s) == s.start # Unset /\ s.end # Unset /\ s.start <= s.end

\* The working days among the n days from first.
WeekdaysIn(first, n) ==
    (n \div 7) * 5
    + Cardinality({k \in 0 .. ((n % 7) - 1) : ((first % 7) + k) % 7 < 5})

\* Sprint.working_days
WorkingDays(s) ==
    IF ~Dated(s) THEN Unset
    ELSE IF s.override # Unset THEN s.override
    ELSE WeekdaysIn(s.start, s.end - s.start + 1)

\* SprintResource.gross_hours, in 1/400 of an hour, when the days are known.
GrossHours(s, r) ==
    AtLeastZero(2 * WorkingDays(s) - r.absence) * r.hours * r.allocation

\* Mutant of CapacityHours: the part of an hour is cut off.
TruncatedHours(s, r) == (GrossHours(s, r) * (100 - s.reserve)) \div 400

\* SprintResource.capacity_hours, in 1/100 of an hour.
CapacityHours(s, r) == RoundHalfUp(GrossHours(s, r) * (100 - s.reserve), 400)

\* team is the team of the sprint: a function to its rows SprintResource.
TeamKnown(s, team) == WorkingDays(s) # Unset /\ DOMAIN team # {}

\* Sprint.team_gross_capacity
TeamGross(s, team) ==
    SumFunction([i \in DOMAIN team |-> GrossHours(s, team[i])])

\* Sprint.team_capacities
TeamCapacity(s, team, c) ==
    IF ~TeamKnown(s, team) THEN Unset
    ELSE SumFunctionOnSet([i \in DOMAIN team |-> CapacityHours(s, team[i])],
                          {i \in DOMAIN team : team[i].competency = c})

-----------------------------------------------------------------------------
\* The fields of a row of Sprint.competency_capacity_rows, from its capacity
\* and its estimate.
Remaining(capacity, estimate) ==
    IF capacity = Unset THEN Unset ELSE AtLeastZero(capacity - estimate)

Overage(capacity, estimate) ==
    IF capacity = Unset THEN 0 ELSE AtLeastZero(estimate - capacity)

UsagePercent(capacity, estimate) ==
    IF capacity = Unset THEN 0
    ELSE IF capacity <= 0 THEN IF estimate > 0 THEN 100 ELSE 0
    ELSE Least(RoundHalfUp(100 * estimate, capacity), 100)

IsOver(capacity, estimate) == capacity # Unset /\ estimate > capacity

RowCapacity(s, team, c) ==
    IF s.source = "team" THEN TeamCapacity(s, team, c) ELSE s.manual[c]

Configured(s, team) == {c \in Competencies : RowCapacity(s, team, c) # Unset}

\* Sprint.uses_competency_capacities
ByCompetency(s) ==
    s.source = "team" \/ \E c \in Competencies : s.manual[c] # Unset

\* planned[c] is the estimate of the tasks of competency c that are planned in
\* the sprint, planned[Unset] that of tasks without a competency.
TotalEstimate(planned) == SumFunction(planned)

TotalCapacity(s, team) ==
    SumFunction([c \in Configured(s, team) |-> RowCapacity(s, team, c)])

CapacityTotal(s, team) ==
    IF ~ByCompetency(s) THEN s.capacity
    ELSE IF Configured(s, team) = {} THEN Unset
    ELSE TotalCapacity(s, team)

CapacityRemaining(s, team, planned) ==
    IF CapacityTotal(s, team) = Unset THEN Unset
    ELSE IF ByCompetency(s)
    THEN SumFunction([c \in Configured(s, team) |->
                        Remaining(RowCapacity(s, team, c), planned[c])])
    ELSE Remaining(s.capacity, TotalEstimate(planned))

\* Mutant of CapacityOverage: the room left by one competency is given to another.
OverageOfSum(s, team, planned) ==
    Overage(CapacityTotal(s, team), TotalEstimate(planned))

CapacityOverage(s, team, planned) ==
    IF ByCompetency(s)
    THEN SumFunction([c \in Competencies |->
                        Overage(RowCapacity(s, team, c), planned[c])])
    ELSE Overage(s.capacity, TotalEstimate(planned))

CapacityUsage(s, team, planned) ==
    IF ByCompetency(s)
    THEN UsagePercent(TotalCapacity(s, team),
                      SumFunctionOnSet(planned, Configured(s, team)))
    ELSE UsagePercent(s.capacity, TotalEstimate(planned))

IsOverCapacity(s, team, planned) ==
    IF ByCompetency(s)
    THEN \E c \in Competencies : IsOver(RowCapacity(s, team, c), planned[c])
    ELSE IsOver(s.capacity, TotalEstimate(planned))

\* Sprint.unconfigured_capacity_rows: what a warning names beside the overage.
Unconfigured(s, team, planned) ==
    {c \in Competencies : ByCompetency(s)
        /\ RowCapacity(s, team, c) = Unset /\ planned[c] > 0}

=============================================================================
