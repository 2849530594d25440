------------------------------ MODULE SlaClock ------------------------------
(***************************************************************************)
(* tickets/sla.py: due dates in business time.  A moment is a number of    *)
(* time units since a Monday, 0:00 UTC.  The database and the callers use  *)
(* UTC; office hours and holidays are local, so every calculation shifts   *)
(* its arguments by the zone's offset and its result back.  (The code      *)
(* counts whole minutes and drops the seconds of the first and last day.)  *)
(***************************************************************************)
EXTENDS Integers, FiniteSets

CONSTANTS
  DayLength,
  StartTime, EndTime,      \* office hours, time of day
  WeekLength, Workdays,    \* the days of a week that are worked
  Holidays                 \* day numbers

ASSUME HoursAssumption ==
  /\ DayLength \in Nat /\ StartTime \in Nat /\ EndTime \in Nat
  /\ StartTime < EndTime /\ EndTime < DayLength
ASSUME WeekAssumption ==
  /\ WeekLength \in Nat \ {0} /\ Workdays # {} /\ Workdays \subseteq 0..(WeekLength - 1)
  /\ IsFiniteSet(Holidays)

Date(m) == m \div DayLength
Time(m) == m % DayLength
AtLocal(d, time) == d * DayLength + time

ToLocal(m, zone)   == m + zone
FromLocal(m, zone) == m - zone

IsWorkday(d) == d % WeekLength \in Workdays /\ d \notin Holidays

\* The loop over days ends: after that many weeks the holidays are used up.
NextWorkday(d) ==
  CHOOSE e \in (d + 1)..(d + WeekLength * (Cardinality(Holidays) + 1)) :
    IsWorkday(e) /\ \A f \in (d + 1)..(e - 1) : ~IsWorkday(f)

NextWorkdayStart(m) ==
  IF IsWorkday(Date(m)) /\ Time(m) < StartTime
  THEN AtLocal(Date(m), StartTime)
  ELSE AtLocal(NextWorkday(Date(m)), StartTime)

AfterHours(m) == ~IsWorkday(Date(m)) \/ Time(m) >= EndTime
EndOfDay(m)   == AtLocal(Date(m), EndTime)

\* A start outside office hours counts from the next opening.
WorkStart(m) ==
  IF AfterHours(m) THEN NextWorkdayStart(m)
  ELSE IF Time(m) < StartTime THEN AtLocal(Date(m), StartTime) ELSE m

\* Where WorkStart and NextWorkdayStart end, and the loops count.
AtWork == {m \in Nat : IsWorkday(Date(m)) /\ Time(m) \in StartTime..(EndTime - 1)}

\* The loop of due_at: day by day, from a moment in office hours.
Advance[remaining \in Nat] == [cursor \in AtWork |->
  IF remaining <= EndOfDay(cursor) - cursor
  THEN cursor + remaining
  ELSE Advance[remaining - (EndOfDay(cursor) - cursor)][NextWorkdayStart(EndOfDay(cursor))]]

\* Mutant of DueAt: the office hours are taken for UTC hours.
DueAtUtc(start, policy, zone) ==
  IF policy.businessHoursOnly THEN Advance[policy.minutes][WorkStart(start)]
  ELSE start + policy.minutes

DueAt(start, policy, zone) ==
  IF policy.businessHoursOnly
  THEN FromLocal(Advance[policy.minutes][WorkStart(ToLocal(start, zone))], zone)
  ELSE start + policy.minutes

Earlier(a, b) == IF a < b THEN a ELSE b

\* The loop of business_minutes_between.
Between(start, finish) ==
  LET minutes[cursor \in Nat] ==
        CASE cursor >= finish -> 0
          [] cursor < finish /\ WorkStart(cursor) # cursor -> minutes[WorkStart(cursor)]
          [] OTHER -> LET stop == Earlier(EndOfDay(cursor), finish)
                      IN  stop - cursor + minutes[NextWorkdayStart(stop)]
  IN  minutes[start]

BusinessMinutesBetween(start, end, zone) ==
  IF end <= start THEN 0 ELSE Between(ToLocal(start, zone), ToLocal(end, zone))

\* AT_RISK_RATIO: a quarter of the business time is left, or less.
AtRisk(createdAt, dueAt, now, zone) ==
  LET total == BusinessMinutesBetween(createdAt, dueAt, zone)
  IN  total > 0 /\ 4 * BusinessMinutesBetween(now, dueAt, zone) <= total

\* SlaCalculator.state of a ticket that is not resolved.  (paused_seconds is 0: nothing
\* in the code writes it.)
SlaState(createdAt, dueAt, now, zone) ==
  CASE now > dueAt -> "BREACHED"
    [] now <= dueAt /\ AtRisk(createdAt, dueAt, now, zone) -> "AT_RISK"
    [] OTHER -> "ON_TRACK"

-----------------------------------------------------------------------------
(***************************************************************************)
(* What the loops should compute: business minutes counted one by one.     *)
(***************************************************************************)
BusinessMinute(m, zone) == ToLocal(m, zone) \in AtWork

Counted(start, end, zone) == Cardinality({m \in start..(end - 1) : BusinessMinute(m, zone)})
=============================================================================
