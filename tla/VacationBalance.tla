--------------------------- MODULE VacationBalance ---------------------------
(***************************************************************************)
(* The annual leave balance of an employee and the rules a new request is  *)
(* checked against (the vacation service).  Dates are numbered from 1 and  *)
(* every year has YearLength of them.  The operators read a table leave of *)
(* requests and a calendar day of marked dates, both passed in.            *)
(***************************************************************************)
EXTENDS Integers, FiniteSets, FiniteSetsExt

CONSTANTS
  Requests,         \* ids of leave requests
  None,             \* NULL, and the absence of a row
  YearLength,       \* dates in a year
  LastDate,         \* bound on the dates
  Entitled,         \* annual_entitled_days
  MinContinuous,    \* min_continuous_vacation_days
  FlexibleSetting   \* flexible_annual_days

Dates == 1..LastDate

ASSUME CalendarAssumption ==
  /\ YearLength \in Nat \ {0} /\ LastDate \in Nat
  /\ Entitled \in Nat /\ MinContinuous \in Nat \ {0} /\ FlexibleSetting \in Nat

InProgress == {"pending", "pending_final"}

YearOf(d) == (d - 1) \div YearLength
YearsOf(from, to) == YearOf(from) .. YearOf(to)

AtLeast0(n) == IF n < 0 THEN 0 ELSE n

DaysCount(from, to) == to - from + 1

\* The days of the period from..to that fall into year y.
DaysInYear(from, to, y) ==
  LET start == Max({from, y * YearLength + 1})
      end == Min({to, (y + 1) * YearLength})
  IN  AtLeast0(end - start + 1)

\* The setting 0 counts as "not set".
FlexibleMax == IF FlexibleSetting = 0 THEN 7 ELSE FlexibleSetting

Annual(leave, u, statuses) ==
  {r \in Requests : leave[r] # None /\ leave[r].emp = u /\ leave[r].kind = "annual"
                      /\ leave[r].status \in statuses}

SumDays(leave, R, y) ==
  MapThenSumSet(LAMBDA r : DaysInYear(leave[r].from, leave[r].to, y), R)

Short(leave, r) == DaysCount(leave[r].from, leave[r].to) < MinContinuous

AnnualDates(day, u, y) ==
  {d \in Dates : YearOf(d) = y /\ day[<<u, d>>] # None /\ day[<<u, d>>].kind = "annual"}

\* Annual days of the calendar that belong to no request.
ManualDays(day, u, y) ==
  Cardinality({d \in AnnualDates(day, u, y) : day[<<u, d>>].req = None})

\* The mandatory block: an approved long request that touches the year, or
\* consecutive annual dates within it.
ContinuousTaken(leave, day, u, y) ==
  \/ \E r \in Annual(leave, u, {"approved"}) :
       ~Short(leave, r) /\ y \in YearsOf(leave[r].from, leave[r].to)
  \/ \E d \in Dates : d .. (d + MinContinuous - 1) \subseteq AnnualDates(day, u, y)

Used(leave, day, u, y) ==
  SumDays(leave, Annual(leave, u, {"approved"}), y) + ManualDays(day, u, y)

\* Mutant: requests that wait for a decision do not reserve days.
RemainingIgnoresPending(leave, day, u, y) == AtLeast0(Entitled - Used(leave, day, u, y))

Remaining(leave, day, u, y) ==
  AtLeast0(Entitled - Used(leave, day, u, y) - SumDays(leave, Annual(leave, u, InProgress), y))

\* Mutant: short requests that wait for a decision are not counted.
FlexibleUsedApproved(leave, day, u, y) ==
  LET short == {r \in Annual(leave, u, {"approved"}) : Short(leave, r)}
      n == SumDays(leave, short, y)
             + (IF ContinuousTaken(leave, day, u, y) THEN 0 ELSE ManualDays(day, u, y))
  IN  Min({n, FlexibleMax})

FlexibleUsed(leave, day, u, y) ==
  LET short == {r \in Annual(leave, u, InProgress \cup {"approved"}) : Short(leave, r)}
      n == SumDays(leave, short, y)
             + (IF ContinuousTaken(leave, day, u, y) THEN 0 ELSE ManualDays(day, u, y))
  IN  Min({n, FlexibleMax})

FlexibleRemaining(leave, day, u, y) ==
  IF ContinuousTaken(leave, day, u, y) THEN FlexibleMax
  ELSE FlexibleMax - FlexibleUsed(leave, day, u, y)

\* validate_annual_vacation_request: enough days in every year touched; and a
\* short request, before the block is taken, only from the flexible days of
\* the year it starts in.
RequestAllowed(leave, day, u, from, to) ==
  LET y0 == YearOf(from)
      n == DaysCount(from, to)
  IN
  /\ \A y \in YearsOf(from, to) : DaysInYear(from, to, y) <= Remaining(leave, day, u, y)
  /\ \/ ContinuousTaken(leave, day, u, y0)
     \/ n >= MinContinuous
     \/ n <= FlexibleRemaining(leave, day, u, y0)
=============================================================================
