-------------------------- MODULE SlaMonitorProofs --------------------------
(***************************************************************************)
(* The clock computes business time, for any calendar with a workday; and  *)
(* however many workers scan at once, however often the scans die or are   *)
(* rolled back and whatever the people do meanwhile: a ticket is reported  *)
(* once of each kind, truly, and its lateness to every admin.              *)
(*                                                                         *)
(* The loops of sla.py are recursive functions.  That such a function      *)
(* exists is shown by naming one, from what it should count (Worked,       *)
(* Reaches); that the loop is no other, by the least argument at which it  *)
(* would differ.                                                           *)
(*                                                                         *)
(* The properties of the monitor are not inductive.  A commit writes back  *)
(* rows that were read long ago; that it may do so rests on versions:      *)
(* ScanIsCurrent says that a row of a scan with the version of the table   *)
(* is the row of the table, so that the missing mark the scan relied on is *)
(* still missing, and its due date still the due date (ScanIsJustified).   *)
(***************************************************************************)
EXTENDS SlaMonitor, SequenceTheorems, FiniteSetTheorems, WellFoundedInduction, TLAPS

-----------------------------------------------------------------------------
(***************************************************************************)
(* Days and times of day.                                                  *)
(***************************************************************************)
\* A set of naturals has a least.
LEMMA Least ==
  ASSUME NEW B, B \subseteq Nat, B # {}
  PROVE  \E n \in B : \A m \in B : n <= m
<1>1. PICK n \in B : \A m \in B : ~(<<m, n>> \in OpToRel(<, Nat))
  BY WFMin, NatLessThanWellFounded
<1>2. \A m \in B : m < n => <<m, n>> \in OpToRel(<, Nat)
  BY DEF OpToRel
<1>3. \A m \in B : ~(m < n)
  BY <1>1, <1>2, Zenon
<1> QED BY <1>3

\* A moment is a day and a time of day.
LEMMA DayOf ==
  ASSUME NEW m \in Nat
  PROVE  /\ Date(m) \in Nat /\ Time(m) \in Nat /\ Time(m) < DayLength
         /\ m = AtLocal(Date(m), Time(m))
BY HoursAssumption DEF Date, Time, AtLocal

\* A day and a time of day make a moment.
LEMMA MomentOf ==
  ASSUME NEW d \in Nat, NEW time \in Nat, time < DayLength
  PROVE  /\ AtLocal(d, time) \in Nat
         /\ Date(AtLocal(d, time)) = d /\ Time(AtLocal(d, time)) = time
BY HoursAssumption DEF Date, Time, AtLocal

\* Moments are ordered as their days are, and in a day as their times are.
LEMMA MomentsInOrder ==
  ASSUME NEW m \in Nat, NEW n \in Nat
  PROVE  /\ Date(m) < Date(n) => m < n
         /\ Date(m) = Date(n) => (m < n <=> Time(m) < Time(n))
         /\ m <= n => Date(m) <= Date(n)
<1>1. /\ Date(m) \in Nat /\ Time(m) \in 0..(DayLength - 1)
      /\ m = Date(m) * DayLength + Time(m)
      /\ Date(n) \in Nat /\ Time(n) \in 0..(DayLength - 1)
      /\ n = Date(n) * DayLength + Time(n)
  BY DayOf, HoursAssumption DEF AtLocal
<1>2. ASSUME Date(m) < Date(n)  PROVE m < n
  <2>1. Date(m) * DayLength + DayLength <= Date(n) * DayLength
    BY <1>1, <1>2, HoursAssumption
  <2> QED BY <1>1, <2>1, HoursAssumption
<1>3. ASSUME Date(n) < Date(m)  PROVE n < m
  <2>1. Date(n) * DayLength + DayLength <= Date(m) * DayLength
    BY <1>1, <1>3, HoursAssumption
  <2> QED BY <1>1, <2>1, HoursAssumption
<1>4. ASSUME Date(m) = Date(n)  PROVE m < n <=> Time(m) < Time(n)
  BY <1>1, <1>4, HoursAssumption
<1> QED BY <1>1, <1>2, <1>3, <1>4

-----------------------------------------------------------------------------
(***************************************************************************)
(* Workdays.                                                               *)
(***************************************************************************)
\* After any day there is a workday, within a week more than there are holidays.
LEMMA WorkdayComes ==
  ASSUME NEW d \in Nat
  PROVE  \E e \in (d + 1)..(d + WeekLength * (Cardinality(Holidays) + 1)) : IsWorkday(e)
<1> DEFINE W == WeekLength
           n == Cardinality(Holidays)
<1>1. W \in Nat /\ W > 0 /\ n \in Nat
  BY WeekAssumption, FS_CardinalityType
<1>2. PICK w \in Workdays : w \in 0..(W - 1)
  BY WeekAssumption
<1> HIDE DEF W, n
\* A day of that weekday in the week that follows.
<1>3. PICK b \in (d + 1)..(d + W) : \E q \in Nat : b = q * W + w
  <2> DEFINE q == d \div W
  <2>1. q \in Nat /\ q * W <= d /\ d < q * W + W /\ q * W \in Nat
    BY <1>1
  <2> HIDE DEF q
  <2>2. CASE q * W + w > d
    <3>1. q * W + w \in (d + 1)..(d + W)
      BY <1>1, <1>2, <2>1, <2>2
    <3> QED BY <2>1, <3>1
  <2>3. CASE q * W + w <= d
    <3>1. (q + 1) * W + w = q * W + W + w /\ q + 1 \in Nat
      BY <1>1, <1>2, <2>1
    <3>2. q * W + W + w \in (d + 1)..(d + W)
      BY <1>1, <1>2, <2>1, <2>3
    <3> QED BY <3>1, <3>2
  <2> QED BY <1>1, <1>2, <2>1, <2>2, <2>3
\* The same weekday in one week more than there are holidays.
<1> DEFINE f == [k \in 0..n |-> b + k * W]
<1>4. ASSUME NEW k \in 0..n
      PROVE  /\ f[k] \in (d + 1)..(d + W * (n + 1))
             /\ f[k] % W = w
  <2>1. PICK q \in Nat : b = q * W + w
    BY <1>3
  <2>2. b + k * W = (q + k) * W + w /\ q + k \in Nat
    BY <1>1, <1>2, <2>1
  <2>3. \A p \in Nat : (p * W + w) % W = w
    BY <1>1, <1>2
  <2>4. k * W <= n * W /\ k * W \in Nat /\ n * W \in Nat /\ W * (n + 1) = n * W + W
    BY <1>1
  <2>5. b + k * W \in (d + 1)..(d + W * (n + 1))
    BY <1>1, <1>3, <2>4
  <2> QED BY <2>2, <2>3, <2>5
<1>5. PICK k \in 0..n : f[k] \notin Holidays
  <2>1. SUFFICES ASSUME \A k \in 0..n : f[k] \in Holidays
                 PROVE  FALSE
    OBVIOUS
  <2>2. f \in [0..n -> Holidays]
    BY <2>1
  <2>3. IsFiniteSet(0..n) /\ Cardinality(0..n) = n + 1
    BY <1>1, FS_Interval
  <2>4. PICK i \in 0..n, j \in 0..n : i # j /\ f[i] = f[j]
    <3> HIDE DEF f
    <3> QED BY <1>1, <2>2, <2>3, FS_PigeonHole, WeekAssumption DEF n
  <2>5. b + i * W = b + j * W
    BY <2>4
  <2> QED BY <1>1, <1>3, <2>4, <2>5
<1>6. IsWorkday(f[k])
  BY <1>2, <1>4, <1>5 DEF IsWorkday, W
<1> HIDE DEF f
<1> QED BY <1>4, <1>6 DEF W, n

\* The loop of next_workday_start ends at the first workday.
LEMMA NextWorkdayIs ==
  ASSUME NEW d \in Nat
  PROVE  /\ NextWorkday(d) \in Nat /\ NextWorkday(d) > d /\ IsWorkday(NextWorkday(d))
         /\ \A f \in Nat : d < f /\ f < NextWorkday(d) => ~IsWorkday(f)
<1> DEFINE last == d + WeekLength * (Cardinality(Holidays) + 1)
           B == {e \in (d + 1)..last : IsWorkday(e)}
<1>1. last \in Nat
  BY WeekAssumption, FS_CardinalityType
<1>2. B # {} /\ B \subseteq Nat
  BY <1>1, WorkdayComes
<1>3. PICK e \in B : \A f \in B : e <= f
  <2> HIDE DEF B
  <2> QED BY <1>2, Least
<1>4. e \in (d + 1)..last /\ IsWorkday(e) /\ \A f \in (d + 1)..(e - 1) : ~IsWorkday(f)
  BY <1>1, <1>3
<1>5. /\ NextWorkday(d) \in (d + 1)..last /\ IsWorkday(NextWorkday(d))
      /\ \A f \in (d + 1)..(NextWorkday(d) - 1) : ~IsWorkday(f)
  <2> HIDE DEF B
  <2> QED BY <1>4, Zenon DEF NextWorkday
<1> HIDE DEF last
<1> QED BY <1>1, <1>5

-----------------------------------------------------------------------------
(***************************************************************************)
(* Where the loops go on.                                                  *)
(***************************************************************************)
Idle(a, b) == \A m \in Nat : a <= m /\ m < b => m \notin AtWork

\* Outside office hours the next opening is next_workday_start.
LEMMA OpeningIs ==
  ASSUME NEW c \in Nat, c \notin AtWork
  PROVE  /\ NextWorkdayStart(c) \in AtWork /\ NextWorkdayStart(c) > c
         /\ Idle(c, NextWorkdayStart(c))
<1> DEFINE d == Date(c)
<1>1. d \in Nat /\ Time(c) \in Nat /\ Time(c) < DayLength
  BY DayOf
<1>2. CASE IsWorkday(d) /\ Time(c) < StartTime
  <2> DEFINE o == AtLocal(d, StartTime)
  <2>1. NextWorkdayStart(c) = o
    BY <1>2 DEF NextWorkdayStart
  <2>2. o \in Nat /\ Date(o) = d /\ Time(o) = StartTime
    BY <1>1, MomentOf, HoursAssumption
  <2> HIDE DEF o
  <2>3. o \in AtWork
    BY <1>2, <2>2, HoursAssumption DEF AtWork
  <2>4. o > c
    BY <1>2, <2>2, MomentsInOrder
  <2>5. ASSUME NEW m \in Nat, c <= m, m < o
        PROVE  m \notin AtWork
    <3>1. Date(m) = d
      <4>1. Date(c) <= Date(m) /\ Date(m) <= Date(o)
        BY <2>2, <2>5, MomentsInOrder
      <4> QED BY <1>1, <2>2, <2>5, <4>1, DayOf
    <3>2. Time(m) < StartTime
      BY <2>2, <2>5, <3>1, MomentsInOrder
    <3> QED BY <3>2, DayOf, HoursAssumption DEF AtWork
  <2> QED BY <2>1, <2>3, <2>4, <2>5 DEF Idle
<1>3. CASE ~(IsWorkday(d) /\ Time(c) < StartTime)
  <2> DEFINE e == NextWorkday(d)
             o == AtLocal(e, StartTime)
  <2>1. NextWorkdayStart(c) = o
    BY <1>3 DEF NextWorkdayStart
  <2>2. /\ e \in Nat /\ e > d /\ IsWorkday(e)
        /\ \A f \in Nat : d < f /\ f < e => ~IsWorkday(f)
    BY <1>1, NextWorkdayIs
  <2> HIDE DEF e
  <2>3. o \in Nat /\ Date(o) = e /\ Time(o) = StartTime
    BY <2>2, MomentOf, HoursAssumption
  <2> HIDE DEF o
  <2>4. o \in AtWork
    BY <2>2, <2>3, HoursAssumption DEF AtWork
  <2>5. o > c
    BY <2>2, <2>3, MomentsInOrder
  <2>6. ASSUME NEW m \in Nat, c <= m, m < o
        PROVE  m \notin AtWork
    <3>1. Date(m) \in Nat /\ Time(m) \in Nat /\ d <= Date(m) /\ Date(m) <= e
      BY <2>3, <2>6, MomentsInOrder, DayOf
    <3>2. CASE Date(m) = d
      <4>1. Time(c) <= Time(m)
        BY <1>1, <2>6, <3>1, <3>2, MomentsInOrder
      <4>2. ~IsWorkday(d) \/ Time(c) >= EndTime
        BY <1>1, <1>3, HoursAssumption DEF AtWork
      <4> QED BY <1>1, <3>1, <3>2, <4>1, <4>2, HoursAssumption DEF AtWork
    <3>3. CASE d < Date(m) /\ Date(m) < e
      BY <2>2, <3>1, <3>3 DEF AtWork
    <3>4. CASE Date(m) = e
      <4>1. Time(m) < StartTime
        BY <2>3, <2>6, <3>4, MomentsInOrder
      <4> QED BY <3>1, <4>1, HoursAssumption DEF AtWork
    <3> QED BY <1>1, <2>2, <3>1, <3>2, <3>3, <3>4
  <2> QED BY <2>1, <2>4, <2>5, <2>6 DEF Idle
<1> QED BY <1>2, <1>3

\* In any case it is later.
LEMMA OpensLater ==
  ASSUME NEW c \in Nat
  PROVE  NextWorkdayStart(c) \in Nat /\ NextWorkdayStart(c) > c
<1>1. CASE c \in AtWork
  <2> DEFINE e == NextWorkday(Date(c))
             o == AtLocal(e, StartTime)
  <2>1. NextWorkdayStart(c) = o
    BY <1>1, HoursAssumption, DayOf DEF NextWorkdayStart, AtWork
  <2>2. e \in Nat /\ e > Date(c)
    BY DayOf, NextWorkdayIs
  <2> HIDE DEF e
  <2>3. o \in Nat /\ Date(o) = e
    BY <2>2, MomentOf, HoursAssumption
  <2> HIDE DEF o
  <2> QED BY <2>1, <2>2, <2>3, MomentsInOrder
<1>2. CASE c \notin AtWork
  BY <1>2, OpeningIs DEF AtWork
<1> QED BY <1>1, <1>2

\* In office hours, they go on until the end of the day.
LEMMA DayEnds ==
  ASSUME NEW c \in AtWork
  PROVE  /\ c \in Nat /\ EndOfDay(c) \in Nat /\ EndOfDay(c) > c /\ EndOfDay(c) \notin AtWork
         /\ \A m \in Nat : c <= m /\ m < EndOfDay(c) => m \in AtWork
<1> DEFINE d == Date(c)
           z == EndOfDay(c)
<1>1. /\ c \in Nat /\ d \in Nat /\ IsWorkday(d)
      /\ Time(c) \in Nat /\ StartTime <= Time(c) /\ Time(c) < EndTime
  BY DayOf, HoursAssumption DEF AtWork
<1>2. z \in Nat /\ Date(z) = d /\ Time(z) = EndTime
  BY <1>1, MomentOf, HoursAssumption DEF EndOfDay
<1> HIDE DEF z
<1>3. z > c /\ z \notin AtWork
  BY <1>1, <1>2, MomentsInOrder, HoursAssumption DEF AtWork
<1>4. ASSUME NEW m \in Nat, c <= m, m < z
      PROVE  m \in AtWork
  <2>1. Date(m) = d
    <3>1. Date(c) <= Date(m) /\ Date(m) <= Date(z)
      BY <1>1, <1>2, <1>4, MomentsInOrder
    <3> QED BY <1>1, <1>2, <3>1, DayOf
  <2>2. Time(m) \in Nat /\ Time(m) < EndTime
    BY <1>2, <1>4, <2>1, MomentsInOrder, DayOf
  <2>3. Time(c) <= Time(m)
    BY <1>1, <1>4, <2>1, <2>2, MomentsInOrder
  <2> QED BY <1>1, <2>1, <2>2, <2>3, HoursAssumption DEF AtWork
<1> QED BY <1>1, <1>2, <1>3, <1>4 DEF z

\* Where counting begins.
LEMMA WorkStartIs ==
  ASSUME NEW c \in Nat
  PROVE  /\ WorkStart(c) \in AtWork /\ WorkStart(c) >= c /\ Idle(c, WorkStart(c))
         /\ WorkStart(c) = c <=> c \in AtWork
<1>1. Date(c) \in Nat /\ Time(c) \in Nat
  BY DayOf
<1>2. CASE c \in AtWork
  <2>1. WorkStart(c) = c
    BY <1>1, <1>2, HoursAssumption DEF WorkStart, AfterHours, AtWork
  <2> QED BY <1>2, <2>1 DEF Idle
<1>3. CASE c \notin AtWork
  <2>1. WorkStart(c) = NextWorkdayStart(c)
    BY <1>1, <1>3, HoursAssumption DEF WorkStart, AfterHours, NextWorkdayStart, AtWork
  <2> QED BY <1>3, <2>1, OpeningIs DEF AtWork
<1> QED BY <1>2, <1>3

-----------------------------------------------------------------------------
(***************************************************************************)
(* Counting minutes.                                                       *)
(***************************************************************************)
Minutes(a, b) == {m \in a..(b - 1) : m \in AtWork}
Worked(a, b)  == Cardinality(Minutes(a, b))

\* The minutes of office hours from a to b are finitely many.
LEMMA WorkedType ==
  ASSUME NEW a \in Nat, NEW b \in Nat
  PROVE  IsFiniteSet(Minutes(a, b)) /\ Worked(a, b) \in Nat
<1>1. IsFiniteSet(a..(b - 1))
  BY FS_Interval
<1> QED BY <1>1, FS_Subset, FS_CardinalityType DEF Minutes, Worked

\* They are counted in any two parts.
LEMMA WorkedSplits ==
  ASSUME NEW a \in Nat, NEW b \in Nat, NEW c \in Nat, a <= b, b <= c
  PROVE  Worked(a, c) = Worked(a, b) + Worked(b, c)
<1>1. \A m \in Int : m \in a..(c - 1) <=> m \in a..(b - 1) \/ m \in b..(c - 1)
  OBVIOUS
<1>2. Minutes(a, c) = Minutes(a, b) \cup Minutes(b, c)
  BY <1>1 DEF Minutes
<1>3. Minutes(a, b) \cap Minutes(b, c) = {}
  BY DEF Minutes
<1>4. IsFiniteSet(Minutes(a, b)) /\ IsFiniteSet(Minutes(b, c))
      /\ Worked(a, b) \in Nat /\ Worked(b, c) \in Nat
  BY WorkedType
<1> QED BY <1>2, <1>3, <1>4, FS_Union, FS_EmptySet DEF Worked

\* Outside office hours there are none.
LEMMA WorkedIdle ==
  ASSUME NEW a \in Nat, NEW b \in Nat, Idle(a, b)
  PROVE  Worked(a, b) = 0
<1>1. Minutes(a, b) = {}
  BY DEF Minutes, Idle
<1> QED BY <1>1, FS_EmptySet DEF Worked

\* In office hours every minute counts.
LEMMA WorkedAll ==
  ASSUME NEW a \in Nat, NEW b \in Nat, a <= b,
         \A m \in Nat : a <= m /\ m < b => m \in AtWork
  PROVE  Worked(a, b) = b - a
<1>1. Minutes(a, b) = a..(b - 1)
  BY DEF Minutes
<1>2. Cardinality(a..(b - 1)) = b - a
  <2> DEFINE z == b - 1
  <2>1. a \in Int /\ z \in Int /\ (IF a > z THEN 0 ELSE z - a + 1) = b - a
    OBVIOUS
  <2> HIDE DEF z
  <2>2. Cardinality(a..z) = IF a > z THEN 0 ELSE z - a + 1
    BY <2>1, FS_Interval
  <2> QED BY <2>1, <2>2 DEF z
<1> QED BY <1>1, <1>2 DEF Worked

-----------------------------------------------------------------------------
(***************************************************************************)
(* business_minutes_between.                                               *)
(***************************************************************************)
\* A pass of its loop, where g is what the passes that follow yield.
BetweenPass(g, finish, c) ==
  CASE c >= finish -> 0
    [] c < finish /\ WorkStart(c) # c -> g[WorkStart(c)]
    [] OTHER -> LET stop == Earlier(EndOfDay(c), finish)
                IN  stop - c + g[NextWorkdayStart(stop)]

\* The loop goes on later and has counted what lies between.
LEMMA BetweenPassIs ==
  ASSUME NEW c \in Nat, NEW finish \in Nat, NEW g,
         \A k \in Nat : c < k => g[k] = Worked(k, finish)
  PROVE  BetweenPass(g, finish, c) = Worked(c, finish)
<1>1. CASE c >= finish
  <2>1. Idle(c, finish)
    BY <1>1 DEF Idle
  <2> QED BY <1>1, <2>1, WorkedIdle DEF BetweenPass
<1>2. CASE c < finish /\ c \notin AtWork
  <2> DEFINE o == WorkStart(c)
  <2>1. o \in Nat /\ o > c /\ Idle(c, o) /\ o # c
    BY <1>2, WorkStartIs DEF AtWork
  <2>2. BetweenPass(g, finish, c) = g[o]
    BY <1>2, <2>1 DEF BetweenPass
  <2> HIDE DEF o
  <2>3. BetweenPass(g, finish, c) = Worked(o, finish)
    BY <2>1, <2>2
  <2>4. CASE o <= finish
    <3>1. Worked(c, finish) = Worked(c, o) + Worked(o, finish) /\ Worked(c, o) = 0
      BY <2>1, <2>4, WorkedSplits, WorkedIdle
    <3> QED BY <2>1, <2>3, <3>1, WorkedType
  <2>5. CASE o > finish
    <3>1. Idle(c, finish) /\ Idle(o, finish)
      BY <2>1, <2>5 DEF Idle
    <3> QED BY <2>1, <2>3, <3>1, WorkedIdle
  <2> QED BY <2>1, <2>4, <2>5
<1>3. CASE c < finish /\ c \in AtWork
  <2> DEFINE z == EndOfDay(c)
             stop == Earlier(z, finish)
             o == NextWorkdayStart(stop)
  <2>1. /\ z \in Nat /\ z > c /\ z \notin AtWork
        /\ \A m \in Nat : c <= m /\ m < z => m \in AtWork
    BY <1>3, DayEnds
  <2>2. WorkStart(c) = c
    BY <1>3, WorkStartIs
  <2>3. BetweenPass(g, finish, c) = stop - c + g[o]
    BY <1>3, <2>2 DEF BetweenPass
  <2>4. CASE z <= finish
    <3>1. stop = z
      BY <2>1, <2>4 DEF Earlier
    <3>2. o \in Nat /\ o > z /\ Idle(z, o)
      BY <2>1, <3>1, OpeningIs DEF AtWork
    <3>3. g[o] = Worked(o, finish)
      BY <2>1, <3>2
    <3>4. Worked(z, finish) = Worked(o, finish)
      <4>1. CASE o <= finish
        BY <2>1, <3>2, <4>1, WorkedSplits, WorkedIdle, WorkedType
      <4>2. CASE o > finish
        <5>1. Idle(z, finish) /\ Idle(o, finish)
          BY <3>2, <4>2 DEF Idle
        <5> QED BY <2>1, <3>2, <5>1, WorkedIdle
      <4> QED BY <3>2, <4>1, <4>2
    <3>5. Worked(c, finish) = Worked(c, z) + Worked(z, finish) /\ Worked(c, z) = z - c
      BY <2>1, <2>4, WorkedSplits, WorkedAll
    <3> QED BY <2>3, <3>1, <3>3, <3>4, <3>5
  <2>5. CASE z > finish
    <3>1. stop = finish
      BY <2>1, <2>5 DEF Earlier
    <3>2. o \in Nat /\ o > finish
      <4>1. finish \in AtWork
        BY <1>3, <2>1, <2>5
      <4> QED BY <3>1, <4>1, OpensLater
    <3>3. g[o] = Worked(o, finish)
      BY <1>3, <3>2
    <3>4. Idle(o, finish)
      BY <3>2 DEF Idle
    <3>5. Worked(c, finish) = finish - c
      BY <1>3, <2>1, <2>5, WorkedAll
    <3> QED BY <1>3, <2>3, <3>1, <3>2, <3>3, <3>4, <3>5, WorkedIdle
  <2> QED BY <2>1, <2>4, <2>5
<1> QED BY <1>1, <1>2, <1>3

\* The loop of business_minutes_between counts the minutes worked.
LEMMA BetweenIs ==
  ASSUME NEW start \in Nat, NEW finish \in Nat
  PROVE  Between(start, finish) = Worked(start, finish)
<1> DEFINE Solves(g) == g = [c \in Nat |-> BetweenPass(g, finish, c)]
           w == [c \in Nat |-> Worked(c, finish)]
           h == CHOOSE g : Solves(g)
<1>1. Solves(w)
  <2>1. \A k \in Nat : w[k] = Worked(k, finish)
    OBVIOUS
  <2>2. w = [c \in Nat |-> w[c]]
    OBVIOUS
  <2> HIDE DEF w
  <2>3. \A c \in Nat : BetweenPass(w, finish, c) = w[c]
    BY <2>1, BetweenPassIs
  <2> QED BY <2>2, <2>3
<1>2. Solves(h)
  <2> HIDE DEF Solves, w
  <2> QED BY <1>1, Zenon
<1>3. \A c \in Nat : h[c] = BetweenPass(h, finish, c)
  <2> HIDE DEF h
  <2>1. h = [c \in Nat |-> BetweenPass(h, finish, c)]
    BY <1>2
  <2> QED BY <2>1, Zenon
<1>4. Between(start, finish) = h[start]
  BY Zenon DEF Between, BetweenPass
<1> HIDE DEF h
\* The moment nearest to the end at which the loop is wrong.
<1> DEFINE B == {n \in Nat : \E c \in Nat : h[c] # Worked(c, finish) /\ c + n >= finish}
<1>5. B = {}
  <2>1. SUFFICES ASSUME B # {}  PROVE FALSE
    OBVIOUS
  <2>2. PICK n \in B : \A m \in B : n <= m
    <3>1. B \subseteq Nat
      OBVIOUS
    <3> HIDE DEF B
    <3> QED BY <2>1, <3>1, Least
  <2>3. PICK c \in Nat : h[c] # Worked(c, finish) /\ c + n >= finish
    OBVIOUS
  <2>4. ASSUME NEW k \in Nat, c < k
        PROVE  h[k] = Worked(k, finish)
    <3>1. SUFFICES ASSUME h[k] # Worked(k, finish)  PROVE FALSE
      OBVIOUS
    <3>2. CASE n = 0
      <4>1. Idle(k, finish) 
        BY <2>3, <2>4, <3>2 DEF Idle
      <4>2. BetweenPass(h, finish, k) = 0
        BY <2>3, <2>4, <3>2 DEF BetweenPass
      <4> QED BY <1>3, <3>1, <4>1, <4>2, WorkedIdle
    <3>3. CASE n # 0
      <4>1. n - 1 \in Nat /\ k + (n - 1) >= finish
        BY <2>3, <2>4, <3>3
      <4>2. n - 1 \in B
        BY <3>1, <4>1
      <4> QED BY <2>2, <4>1, <4>2
    <3> QED BY <3>2, <3>3
  <2>5. h[c] = Worked(c, finish)
    BY <1>3, <2>4, BetweenPassIs
  <2> QED BY <2>3, <2>5
<1>6. finish \notin B
  <2> HIDE DEF B
  <2> QED BY <1>5
<1>7. h[start] = Worked(start, finish)
  BY <1>6
<1> QED BY <1>4, <1>7

-----------------------------------------------------------------------------
(***************************************************************************)
(* due_at.                                                                 *)
(***************************************************************************)
\* The moment at which r minutes have been worked since c.
Reaches(a, r, c) ==
  /\ a \in Nat /\ a >= c /\ Worked(c, a) = r
  /\ IF r = 0 THEN a = c ELSE a > c /\ a - 1 \in AtWork

\* There is one such moment.
LEMMA ReachedOnce ==
  ASSUME NEW r \in Nat, NEW c \in Nat, NEW a, NEW b, Reaches(a, r, c), Reaches(b, r, c)
  PROVE  a = b
<1>1. ASSUME NEW x, NEW y, Reaches(x, r, c), Reaches(y, r, c), x < y
      PROVE  FALSE
  <2>1. x \in Nat /\ y \in Nat /\ c <= x /\ Worked(c, x) = r /\ Worked(c, y) = r
    BY <1>1 DEF Reaches
  <2>2. r # 0
    BY <1>1, <2>1 DEF Reaches
  <2>3. y - 1 \in Nat /\ y - 1 \in AtWork
    BY <1>1, <2>1, <2>2 DEF Reaches
  <2>4. Worked(c, y) = Worked(c, x) + Worked(x, y)
    BY <1>1, <2>1, WorkedSplits
  <2>5. Worked(x, y) = 0
    <3>1. Worked(x, y) \in Nat
      BY <2>1, WorkedType
    <3> QED BY <2>1, <2>4, <3>1
  <2>6. y - 1 \in Minutes(x, y)
    BY <1>1, <2>1, <2>3 DEF Minutes
  <2> QED BY <2>1, <2>5, <2>6, WorkedType, FS_EmptySet DEF Worked
<1>2. a \in Nat /\ b \in Nat
  BY DEF Reaches
<1> QED BY <1>1, <1>2

\* However many minutes are asked for, they will have been worked at some moment.
LEMMA AlwaysReached ==
  ASSUME NEW c \in Nat
  PROVE  \A r \in Nat : \E a : Reaches(a, r, c)
<1> DEFINE B == {r \in Nat : \A a : ~Reaches(a, r, c)}
<1>1. B = {}
  <2>1. SUFFICES ASSUME B # {}  PROVE FALSE
    OBVIOUS
  <2>2. PICK r \in B : \A m \in B : r <= m
    <3>1. B \subseteq Nat
      OBVIOUS
    <3> HIDE DEF B
    <3> QED BY <2>1, <3>1, Least
  <2>3. CASE r = 0
    <3>1. Worked(c, c) = 0
      BY WorkedIdle DEF Idle
    <3>2. Reaches(c, 0, c)
      BY <3>1 DEF Reaches
    <3> QED BY <2>3, <3>2
  <2>4. CASE r # 0
    <3>1. r - 1 \in Nat /\ r - 1 \notin B
      <4>1. r \in Nat
        OBVIOUS
      <4> HIDE DEF B
      <4> QED BY <2>2, <2>4, <4>1
    <3>2. PICK b : Reaches(b, r - 1, c)
      BY <3>1
    <3> DEFINE o == WorkStart(b)
    <3>3. b \in Nat /\ b >= c /\ Worked(c, b) = r - 1
      BY <3>2 DEF Reaches
    <3>4. o \in Nat /\ o \in AtWork /\ o >= b /\ Idle(b, o)
      BY <3>3, WorkStartIs DEF AtWork
    <3> HIDE DEF o
    <3>5. Worked(b, o) = 0 /\ Worked(o, o + 1) = 1
      <4>1. Worked(b, o) = 0
        BY <3>3, <3>4, WorkedIdle
      <4>2. \A m \in Nat : o <= m /\ m < o + 1 => m \in AtWork
        BY <3>4
      <4>3. Worked(o, o + 1) = (o + 1) - o
        BY <3>4, <4>2, WorkedAll
      <4> QED BY <3>4, <4>1, <4>3
    <3>6. Worked(c, o + 1) = Worked(c, o) + Worked(o, o + 1) /\ Worked(c, o) = Worked(c, b) + Worked(b, o)
      BY <3>3, <3>4, WorkedSplits
    <3>7. Reaches(o + 1, r, c)
      BY <2>4, <3>3, <3>4, <3>5, <3>6 DEF Reaches
    <3> QED BY <3>7
  <2> QED BY <2>3, <2>4
<1> QED BY <1>1

\* A pass of the loop, where g is what the passes that follow yield.
AdvancePass(g, r, c) ==
  IF r <= EndOfDay(c) - c
  THEN c + r
  ELSE g[r - (EndOfDay(c) - c)][NextWorkdayStart(EndOfDay(c))]

\* The loop goes on with less and ends where the minutes have been worked.
LEMMA AdvancePassIs ==
  ASSUME NEW r \in Nat, NEW c \in AtWork, NEW g,
         \A q \in Nat, k \in AtWork : q < r => Reaches(g[q][k], q, k)
  PROVE  Reaches(AdvancePass(g, r, c), r, c)
<1> DEFINE z == EndOfDay(c)
<1>1. /\ c \in Nat /\ z \in Nat /\ z > c /\ z \notin AtWork
      /\ \A m \in Nat : c <= m /\ m < z => m \in AtWork
  BY DayEnds
<1>2. CASE r <= z - c
  <2>1. AdvancePass(g, r, c) = c + r
    BY <1>2 DEF AdvancePass
  <2> HIDE DEF z
  <2>2. Worked(c, c + r) = r
    <3>1. c + r \in Nat /\ \A m \in Nat : c <= m /\ m < c + r => m \in AtWork
      BY <1>1, <1>2
    <3>2. Worked(c, c + r) = (c + r) - c
      BY <1>1, <3>1, WorkedAll
    <3> QED BY <1>1, <3>2
  <2>3. r # 0 => c + r - 1 \in AtWork
    BY <1>1, <1>2
  <2> QED BY <1>1, <2>1, <2>2, <2>3 DEF Reaches
<1>3. CASE r > z - c
  <2> DEFINE q == r - (z - c)
             o == NextWorkdayStart(z)
             a == g[q][o]
  <2>1. AdvancePass(g, r, c) = a
    BY <1>1, <1>3 DEF AdvancePass
  <2>2. q \in Nat /\ q # 0 /\ q < r /\ r = (z - c) + q
    BY <1>1, <1>3
  <2>3. o \in Nat /\ o \in AtWork /\ o > z /\ Idle(z, o)
    BY <1>1, OpeningIs DEF AtWork
  <2> HIDE DEF q, o, z
  <2>4. Reaches(a, q, o)
    BY <2>2, <2>3
  <2> HIDE DEF a
  <2>5. a \in Nat /\ a > o /\ a - 1 \in AtWork /\ Worked(o, a) = q
    BY <2>2, <2>4 DEF Reaches
  <2>6. /\ Worked(c, a) = Worked(c, z) + Worked(z, a)
        /\ Worked(z, a) = Worked(z, o) + Worked(o, a)
    BY <1>1, <2>3, <2>5, WorkedSplits
  <2>7. Worked(c, z) = z - c /\ Worked(z, o) = 0
    BY <1>1, <2>3, WorkedAll, WorkedIdle
  <2> QED BY <1>1, <2>1, <2>2, <2>3, <2>5, <2>6, <2>7 DEF Reaches
<1> QED BY <1>1, <1>2, <1>3

\* The loop of due_at ends when the minutes have been worked.
LEMMA AdvanceIs ==
  ASSUME NEW r \in Nat, NEW c \in AtWork
  PROVE  Reaches(Advance[r][c], r, c)
<1> DEFINE Solves(g) == g = [q \in Nat |-> [k \in AtWork |-> AdvancePass(g, q, k)]]
           w == [q \in Nat |-> [k \in AtWork |-> CHOOSE a : Reaches(a, q, k)]]
<1>1. Solves(w)
  <2>1. \A q \in Nat, k \in AtWork : Reaches(w[q][k], q, k)
    <3>1. \A q \in Nat, k \in AtWork : \E a : Reaches(a, q, k)
      BY AlwaysReached DEF AtWork
    <3> QED BY <3>1
  <2>2. \A q \in Nat : w[q] = [k \in AtWork |-> w[q][k]]
    OBVIOUS
  <2>3. w = [q \in Nat |-> w[q]]
    OBVIOUS
  <2> HIDE DEF w
  <2>4. ASSUME NEW q \in Nat, NEW k \in AtWork
        PROVE  AdvancePass(w, q, k) = w[q][k]
    <3>1. Reaches(AdvancePass(w, q, k), q, k)
      BY <2>1, AdvancePassIs
    <3> QED BY <2>1, <3>1, ReachedOnce DEF AtWork
  <2>5. \A q \in Nat : w[q] = [k \in AtWork |-> AdvancePass(w, q, k)]
    BY <2>2, <2>4
  <2> QED BY <2>3, <2>5
<1>2. Advance = CHOOSE g : Solves(g)
  BY Zenon DEF Advance, AdvancePass
<1>3. Solves(Advance)
  <2> HIDE DEF Solves, w
  <2> QED BY <1>1, <1>2, Zenon
<1>4. \A q \in Nat, k \in AtWork : Advance[q][k] = AdvancePass(Advance, q, k)
  <2> DEFINE h == Advance
  <2>1. h = [q \in Nat |-> [k \in AtWork |-> AdvancePass(h, q, k)]]
    BY <1>3
  <2> HIDE DEF h
  <2>2. \A q \in Nat : h[q] = [k \in AtWork |-> AdvancePass(h, q, k)]
    BY <2>1, Zenon
  <2>3. \A q \in Nat, k \in AtWork : h[q][k] = AdvancePass(h, q, k)
    BY <2>2, Zenon
  <2> QED BY <2>3 DEF h
\* The least number of minutes for which the loop is wrong.
<1> DEFINE B == {q \in Nat : \E k \in AtWork : ~Reaches(Advance[q][k], q, k)}
<1>5. B = {}
  <2>1. SUFFICES ASSUME B # {}  PROVE FALSE
    OBVIOUS
  <2>2. PICK q \in B : \A m \in B : q <= m
    <3>1. B \subseteq Nat
      OBVIOUS
    <3> HIDE DEF B
    <3> QED BY <2>1, <3>1, Least
  <2>3. PICK k \in AtWork : ~Reaches(Advance[q][k], q, k)
    OBVIOUS
  <2>4. \A p \in Nat, j \in AtWork : p < q => Reaches(Advance[p][j], p, j)
    BY <2>2
  <2>5. Reaches(AdvancePass(Advance, q, k), q, k)
    BY <2>4, AdvancePassIs
  <2> QED BY <1>4, <2>3, <2>5
<1> QED BY <1>5

\* What is counted minute by minute in UTC is what is worked in the zone.
LEMMA CountedIs ==
  ASSUME NEW a \in Nat, NEW b \in Nat, NEW zone \in Nat
  PROVE  Counted(a, b, zone) = Worked(a + zone, b + zone)
<1> DEFINE S == {m \in a..(b - 1) : BusinessMinute(m, zone)}
           T == Minutes(a + zone, b + zone)
           f == [m \in S |-> m + zone]
<1>1. IsFiniteSet(S)
  <2>1. IsFiniteSet(a..(b - 1))
    BY FS_Interval
  <2> QED BY <2>1, FS_Subset
<1>2. f \in [S -> T]
  BY DEF BusinessMinute, ToLocal, Minutes
<1>3. \A x \in S, y \in S : f[x] = f[y] => x = y
  OBVIOUS
<1>4. ASSUME NEW y \in T
      PROVE  \E x \in S : f[x] = y
  <2>1. y - zone \in S /\ (y - zone) + zone = y
    BY DEF Minutes, BusinessMinute, ToLocal
  <2> QED BY <2>1
<1>5. f \in Bijection(S, T)
  <2> HIDE DEF f, S, T
  <2>1. f \in Injection(S, T)
    BY <1>2, <1>3 DEF Injection, IsInjective
  <2>2. f \in Surjection(S, T)
    BY <1>2, <1>4 DEF Surjection
  <2> QED BY <2>1, <2>2 DEF Bijection
<1>6. ExistsBijection(S, T)
  BY <1>5, Zenon DEF ExistsBijection
<1>7. Cardinality(T) = Cardinality(S)
  <2> HIDE DEF S, T
  <2> QED BY <1>1, <1>6, FS_Bijection
<1> QED BY <1>7, Zenon DEF Counted, Worked

\* business_minutes_between counts minute by minute, in any zone.
LEMMA BusinessMinutesAre ==
  ASSUME NEW a \in Nat, NEW b \in Nat, NEW zone \in Nat
  PROVE  BusinessMinutesBetween(a, b, zone) = Counted(a, b, zone)
<1>1. a + zone \in Nat /\ b + zone \in Nat
  OBVIOUS
<1>2. CASE b <= a
  <2>1. Idle(a + zone, b + zone)
    BY <1>2 DEF Idle
  <2> QED BY <1>1, <1>2, <2>1, WorkedIdle, CountedIs DEF BusinessMinutesBetween
<1>3. CASE a < b
  BY <1>1, <1>3, BetweenIs, CountedIs DEF BusinessMinutesBetween, ToLocal
<1> QED BY <1>2, <1>3

\* A due date lies after the start, in office hours, by the minutes of the policy.
LEMMA DueAtIs ==
  ASSUME NEW start \in Nat, NEW zone \in Nat,
         NEW policy \in [minutes : Nat \ {0}, businessHoursOnly : BOOLEAN]
  PROVE  /\ DueAt(start, policy, zone) \in Nat
         /\ policy.businessHoursOnly =>
              /\ Counted(start, DueAt(start, policy, zone), zone) = policy.minutes
              /\ BusinessMinute(DueAt(start, policy, zone) - 1, zone)
<1>1. policy.minutes \in Nat /\ policy.minutes # 0
  OBVIOUS
<1>2. CASE ~policy.businessHoursOnly
  BY <1>1, <1>2 DEF DueAt
<1>3. CASE policy.businessHoursOnly
  <2> DEFINE s == start + zone
             c == WorkStart(s)
             r == policy.minutes
             a == Advance[r][c]
             due == a - zone
  <2>1. DueAt(start, policy, zone) = due
    BY <1>3 DEF DueAt, ToLocal, FromLocal
  <2>2. s \in Nat /\ c \in AtWork /\ c \in Nat /\ c >= s /\ Idle(s, c)
    BY WorkStartIs DEF AtWork
  <2> HIDE DEF s, c, r
  <2>3. Reaches(a, r, c)
    BY <1>1, <2>2, AdvanceIs DEF r
  <2> HIDE DEF a
  <2>4. a \in Nat /\ a > c /\ a - 1 \in AtWork /\ Worked(c, a) = r
    BY <1>1, <2>3 DEF Reaches, r
  <2>5. Worked(s, a) = r
    <3>1. Worked(s, a) = Worked(s, c) + Worked(c, a) /\ Worked(s, c) = 0
      BY <2>2, <2>4, WorkedSplits, WorkedIdle
    <3> QED BY <1>1, <2>4, <3>1 DEF r
  <2>6. due \in Nat /\ due + zone = a /\ (due - 1) + zone = a - 1
    BY <2>2, <2>4 DEF s
  <2> HIDE DEF due
  <2>7. Counted(start, due, zone) = r
    BY <2>5, <2>6, CountedIs DEF s
  <2>8. BusinessMinute(due - 1, zone)
    BY <2>4, <2>6 DEF BusinessMinute, ToLocal
  <2> QED BY <2>1, <2>6, <2>7, <2>8 DEF r
<1> QED BY <1>2, <1>3

\* So does the due date of a ticket.
LEMMA ApplySlaIs ==
  ASSUME NEW c \in Nat, NEW p \in Priorities
  PROVE  /\ ApplySla(c, p) \in Nat
         /\ Policy[p].businessHoursOnly =>
              /\ Counted(c, ApplySla(c, p), BusinessZone) = Policy[p].minutes
              /\ BusinessMinute(ApplySla(c, p) - 1, BusinessZone)
BY DueAtIs, PolicyAssumption, ZoneAssumption DEF ApplySla

-----------------------------------------------------------------------------
(***************************************************************************)
(* What the scans rest on.                                                 *)
(***************************************************************************)
Kinds == {"SLA_AT_RISK", "SLA_BREACHED"}

DueDates == {ApplySla(c, p) : c \in Nat, p \in Priorities}

Row ==
  [createdAt : Nat, priority : Priorities, dueAt : DueDates, open : BOOLEAN,
   assignee : Agents \cup {None}, warnedAt : Nat \cup {None}, breachedAt : Nat \cup {None},
   version : Nat]

Typed ==
  /\ DOMAIN rows \subseteq Tickets
  /\ \A t \in DOMAIN rows : rows[t] \in Row
  /\ events \in [Tickets -> Seq(Kinds)]
  /\ now \in Nat
  /\ DOMAIN scan = Workers

\* A kind of report is in the journal.
Reported(s, kind) == \E i \in DOMAIN s : s[i] = kind

Distinct(s) == \A i, j \in DOMAIN s : s[i] = s[j] => i = j

\* The marks of a row and the journal of its ticket agree.
Marked(row, s) ==
  /\ Distinct(s)
  /\ row.warnedAt # None <=> Reported(s, "SLA_AT_RISK")
  /\ row.breachedAt # None <=> Reported(s, "SLA_BREACHED")

MarksTrue ==
  \A t \in Tickets : IF t \in DOMAIN rows THEN Marked(rows[t], events[t]) ELSE events[t] = <<>>

\* The report was missing in the row that was read.
Missing(report) ==
  /\ report.type \in Kinds
  /\ report.type = "SLA_BREACHED" => report.row.breachedAt = None
  /\ report.type = "SLA_AT_RISK" => report.row.warnedAt = None

\* The row of a report is an older version of the row in the table, or the same row.
Behind(report, t) ==
  /\ t \in DOMAIN rows
  /\ report.row \in Row
  /\ report.row.version <= rows[t].version
  /\ report.row.version = rows[t].version => report.row = rows[t]

ScanIsCurrent ==
  \A w \in Workers : scan[w] # None =>
    /\ scan[w].at \in Nat
    /\ \A t \in DOMAIN scan[w].reports :
         Missing(scan[w].reports[t]) /\ Behind(scan[w].reports[t], t)

Told(u, t) == \E n \in notices : n.user = u /\ n.type = "SLA_BREACHED" /\ n.ticket = t

AllTold ==
  \A t \in DOMAIN rows : rows[t].breachedAt # None => \A u \in Admins : Told(u, t)

IInv == Typed /\ MarksTrue /\ ScanIsCurrent /\ AllTold

-----------------------------------------------------------------------------
(***************************************************************************)
(* Lemmas about the journal, the marks and the reports.                    *)
(***************************************************************************)
\* A kind that is appended for the first time leaves the journal without repetitions.
LEMMA AppendKind ==
  ASSUME NEW s \in Seq(Kinds), NEW kind \in Kinds, Distinct(s), ~Reported(s, kind)
  PROVE  /\ Append(s, kind) \in Seq(Kinds)
         /\ Distinct(Append(s, kind))
         /\ \A k \in Kinds : Reported(Append(s, kind), k) <=> k = kind \/ Reported(s, k)
<1>1. /\ Append(s, kind) \in Seq(Kinds)
      /\ Len(s) \in Nat /\ DOMAIN s = 1..Len(s)
      /\ DOMAIN Append(s, kind) = 1..(Len(s) + 1)
      /\ \A i \in 1..Len(s) : Append(s, kind)[i] = s[i]
      /\ Append(s, kind)[Len(s) + 1] = kind
  OBVIOUS
<1>2. Distinct(Append(s, kind))
  <2> SUFFICES ASSUME NEW i \in 1..(Len(s) + 1), NEW j \in 1..(Len(s) + 1),
                      Append(s, kind)[i] = Append(s, kind)[j]
               PROVE  i = j
    BY <1>1 DEF Distinct
  <2>1. CASE i \in 1..Len(s) /\ j \in 1..Len(s)
    BY <1>1, <2>1 DEF Distinct
  <2>2. CASE i = Len(s) + 1 \/ j = Len(s) + 1
    BY <1>1, <2>2 DEF Reported
  <2> QED BY <1>1, <2>1, <2>2
<1>3. ASSUME NEW k \in Kinds  PROVE Reported(Append(s, kind), k) <=> k = kind \/ Reported(s, k)
  <2>1. ASSUME Reported(Append(s, kind), k)  PROVE k = kind \/ Reported(s, k)
    BY <1>1, <2>1 DEF Reported
  <2>2. ASSUME k = kind  PROVE Reported(Append(s, kind), k)
    <3>1. Len(s) + 1 \in DOMAIN Append(s, kind)
      BY <1>1
    <3> QED BY <1>1, <2>2, <3>1 DEF Reported
  <2>3. ASSUME Reported(s, k)  PROVE Reported(Append(s, kind), k)
    <3>1. PICK i \in 1..Len(s) : s[i] = k
      BY <1>1, <2>3 DEF Reported
    <3>2. i \in DOMAIN Append(s, kind)
      BY <1>1
    <3> QED BY <1>1, <3>1, <3>2 DEF Reported
  <2> QED BY <2>1, <2>2, <2>3
<1> QED BY <1>1, <1>2, <1>3

\* Reporting what was missing keeps marks and journal in agreement.
LEMMA MarkAgrees ==
  ASSUME NEW row \in Row, NEW s \in Seq(Kinds), NEW kind \in Kinds, NEW at \in Nat,
         Marked(row, s),
         kind = "SLA_BREACHED" => row.breachedAt = None,
         kind = "SLA_AT_RISK" => row.warnedAt = None
  PROVE  /\ Mark(row, kind, at) \in Row
         /\ Mark(row, kind, at).version = row.version + 1
         /\ Append(s, kind) \in Seq(Kinds)
         /\ Marked(Mark(row, kind, at), Append(s, kind))
         /\ kind # "SLA_BREACHED" => Mark(row, kind, at).breachedAt = row.breachedAt
<1>1. ~Reported(s, kind)
  BY DEF Marked, Kinds
<1>2. /\ Append(s, kind) \in Seq(Kinds)
      /\ Distinct(Append(s, kind))
      /\ \A k \in Kinds : Reported(Append(s, kind), k) <=> k = kind \/ Reported(s, k)
  BY <1>1, AppendKind DEF Marked
<1>3. at # None
  BY NoneAssumption
<1>4. /\ Mark(row, kind, at) \in Row
      /\ Mark(row, kind, at).version = row.version + 1
      /\ Mark(row, kind, at).breachedAt = IF kind = "SLA_BREACHED" THEN at ELSE row.breachedAt
      /\ Mark(row, kind, at).warnedAt = IF kind = "SLA_BREACHED" THEN row.warnedAt ELSE at
  <2>1. CASE kind = "SLA_BREACHED"
    <3>1. Mark(row, kind, at) = [row EXCEPT !.breachedAt = at, !.version = @ + 1]
      BY <2>1 DEF Mark
    <3>2. row.version + 1 \in Nat /\ at \in Nat \cup {None}
      BY DEF Row
    <3>3. Mark(row, kind, at) \in Row
      BY <3>1, <3>2 DEF Row
    <3> QED BY <2>1, <3>1, <3>3 DEF Row
  <2>2. CASE kind # "SLA_BREACHED"
    <3>1. Mark(row, kind, at) = [row EXCEPT !.warnedAt = at, !.version = @ + 1]
      BY <2>2 DEF Mark
    <3>2. row.version + 1 \in Nat /\ at \in Nat \cup {None}
      BY DEF Row
    <3>3. Mark(row, kind, at) \in Row
      BY <3>1, <3>2 DEF Row
    <3> QED BY <2>2, <3>1, <3>3 DEF Row
  <2> QED BY <2>1, <2>2
<1>5. /\ Reported(Append(s, kind), "SLA_AT_RISK") <=>
           kind = "SLA_AT_RISK" \/ Reported(s, "SLA_AT_RISK")
      /\ Reported(Append(s, kind), "SLA_BREACHED") <=>
           kind = "SLA_BREACHED" \/ Reported(s, "SLA_BREACHED")
  BY <1>2 DEF Kinds
<1>6. Marked(Mark(row, kind, at), Append(s, kind))
  <2>1. CASE kind = "SLA_BREACHED"
    BY <1>2, <1>3, <1>4, <1>5, <2>1 DEF Marked
  <2>2. CASE kind = "SLA_AT_RISK"
    BY <1>2, <1>3, <1>4, <1>5, <2>2 DEF Marked
  <2> QED BY <2>1, <2>2 DEF Kinds
<1> QED BY <1>2, <1>4, <1>6

\* The monitor reports only what a row does not have marked, and in that state.
LEMMA ReportIs ==
  ASSUME NEW row, NEW at, Report(row, at) # None
  PROVE  LET state == SlaState(row.createdAt, row.dueAt, at, MonitorZone)
         IN  /\ Report(row, at) \in Kinds
             /\ Report(row, at) = "SLA_BREACHED" => row.breachedAt = None /\ state = "BREACHED"
             /\ Report(row, at) = "SLA_AT_RISK" => row.warnedAt = None /\ state = "AT_RISK"
<1> DEFINE state == SlaState(row.createdAt, row.dueAt, at, MonitorZone)
<1> HIDE DEF state
<1>1. Report(row, at) = CASE state = "BREACHED" /\ row.breachedAt = None -> "SLA_BREACHED"
                          [] state = "AT_RISK" /\ row.warnedAt = None    -> "SLA_AT_RISK"
                          [] OTHER                                       -> None
  BY DEF Report, state
<1>2. CASE state = "BREACHED" /\ row.breachedAt = None
  BY <1>1, <1>2 DEF Kinds, state
<1>3. CASE state = "AT_RISK" /\ row.warnedAt = None
  BY <1>1, <1>3 DEF Kinds, state
<1>4. CASE ~(state = "BREACHED" /\ row.breachedAt = None) /\ ~(state = "AT_RISK" /\ row.warnedAt = None)
  BY <1>1, <1>4
<1> QED BY <1>2, <1>3, <1>4

-----------------------------------------------------------------------------
(***************************************************************************)
(* One lemma per kind of step.                                             *)
(***************************************************************************)
LEMMA InitIInv == Init => IInv
<1> SUFFICES ASSUME Init  PROVE IInv
  OBVIOUS
<1>1. Typed
  BY DEF Init, Typed
<1>2. MarksTrue
  BY DEF Init, MarksTrue
<1>3. ScanIsCurrent
  BY DEF Init, ScanIsCurrent
<1>4. AllTold
  BY DEF Init, AllTold
<1> QED BY <1>1, <1>2, <1>3, <1>4 DEF IInv

\* A new ticket has no marks, no journal, and is in no scan.
LEMMA CreateKeeps ==
  ASSUME IInv, NEW t \in Tickets, NEW p \in Priorities, Create(t, p)
  PROVE  IInv'
<1>1. /\ t \notin DOMAIN rows
      /\ rows' = [r \in DOMAIN rows \cup {t} |-> IF r = t THEN NewRow(p) ELSE rows[r]]
      /\ notices' = notices /\ events' = events /\ scan' = scan /\ now' = now
  BY DEF Create, Created
<1>2. NewRow(p) \in Row
  <2>1. ApplySla(now, p) \in DueDates /\ now \in Nat
    BY DEF DueDates, IInv, Typed
  <2> QED BY <2>1 DEF NewRow, Row
<1>3. NewRow(p).warnedAt = None /\ NewRow(p).breachedAt = None
  BY DEF NewRow
<1>4. Typed'
  BY <1>1, <1>2 DEF IInv, Typed
<1>5. MarksTrue'
  <2>1. Marked(NewRow(p), <<>>)
    BY <1>3 DEF Marked, Reported, Distinct
  <2>2. events[t] = <<>>
    BY <1>1 DEF IInv, MarksTrue
  <2> QED BY <1>1, <2>1, <2>2 DEF IInv, MarksTrue
<1>6. ScanIsCurrent'
  BY <1>1 DEF IInv, ScanIsCurrent, Behind, Missing
<1>7. AllTold'
  BY <1>1, <1>3 DEF IInv, AllTold, Told
<1> QED BY <1>4, <1>5, <1>6, <1>7 DEF IInv

\* People change a row without touching its marks, and its version grows.
LEMMA EditedKeeps ==
  ASSUME IInv, NEW t \in DOMAIN rows, NEW row \in Row, Edited(t, row),
         row.version = rows[t].version,
         row.warnedAt = rows[t].warnedAt, row.breachedAt = rows[t].breachedAt
  PROVE  IInv'
<1> DEFINE new == [row EXCEPT !.version = @ + 1]
<1>1. /\ rows' = [rows EXCEPT ![t] = new]
      /\ notices' = notices /\ events' = events /\ scan' = scan /\ now' = now
  BY DEF Edited
<1>2. /\ new \in Row /\ new.version = rows[t].version + 1 /\ rows[t].version \in Nat
      /\ new.warnedAt = rows[t].warnedAt /\ new.breachedAt = rows[t].breachedAt
  <2>1. row.version + 1 \in Nat
    BY DEF Row
  <2>2. new \in Row
    BY <2>1 DEF Row
  <2> QED BY <2>2 DEF Row
<1> HIDE DEF new
<1>3. /\ DOMAIN rows' = DOMAIN rows
      /\ \A r \in DOMAIN rows : rows'[r] = IF r = t THEN new ELSE rows[r]
  BY <1>1
<1>4. Typed'
  BY <1>1, <1>2, <1>3 DEF IInv, Typed
<1>5. MarksTrue'
  BY <1>1, <1>2, <1>3 DEF IInv, MarksTrue, Marked
<1>6. ScanIsCurrent'
  <2> SUFFICES ASSUME NEW w \in Workers, scan[w] # None,
                      NEW r \in DOMAIN scan[w].reports
               PROVE  Behind(scan[w].reports[r], r)'
    BY <1>1 DEF IInv, ScanIsCurrent, Missing
  <2>1. Behind(scan[w].reports[r], r)
    BY DEF IInv, ScanIsCurrent
  <2>2. scan[w].reports[r].row.version \in Nat
    BY <2>1 DEF Behind, Row
  <2> QED BY <1>1, <1>2, <1>3, <2>1, <2>2 DEF Behind
<1>7. AllTold'
  BY <1>1, <1>2, <1>3 DEF IInv, AllTold, Told
<1> QED BY <1>4, <1>5, <1>6, <1>7 DEF IInv

LEMMA PeopleKeep ==
  ASSUME IInv, NEW t \in Tickets,
         \/ \E p \in Priorities : ChangePriority(t, p)
         \/ \E u \in Agents : Assign(t, u)
         \/ Resolve(t) \/ Reopen(t)
  PROVE  IInv'
<1>1. t \in DOMAIN rows
  BY DEF ChangePriority, Assign, Resolve, Reopen, Created
<1>2. rows[t] \in Row
  BY <1>1 DEF IInv, Typed
<1>3. ASSUME NEW p \in Priorities, ChangePriority(t, p)  PROVE IInv'
  <2> DEFINE row == [rows[t] EXCEPT !.priority = p, !.dueAt = ApplySla(rows[t].createdAt, p)]
  <2>1. ApplySla(rows[t].createdAt, p) \in DueDates
    BY <1>2 DEF DueDates, Row
  <2>2. row \in Row /\ row.version = rows[t].version
        /\ row.warnedAt = rows[t].warnedAt /\ row.breachedAt = rows[t].breachedAt
    BY <1>2, <2>1 DEF Row
  <2>3. Edited(t, row)
    BY <1>3 DEF ChangePriority
  <2> QED BY <1>1, <2>2, <2>3, EditedKeeps
<1>4. ASSUME NEW u \in Agents, Assign(t, u)  PROVE IInv'
  <2> DEFINE row == [rows[t] EXCEPT !.assignee = u]
  <2>1. row \in Row /\ row.version = rows[t].version
        /\ row.warnedAt = rows[t].warnedAt /\ row.breachedAt = rows[t].breachedAt
    BY <1>2 DEF Row
  <2>2. Edited(t, row)
    BY <1>4 DEF Assign
  <2> QED BY <1>1, <2>1, <2>2, EditedKeeps
<1>5. ASSUME NEW b \in BOOLEAN, Edited(t, [rows[t] EXCEPT !.open = b])  PROVE IInv'
  <2> DEFINE row == [rows[t] EXCEPT !.open = b]
  <2>1. row \in Row /\ row.version = rows[t].version
        /\ row.warnedAt = rows[t].warnedAt /\ row.breachedAt = rows[t].breachedAt
    BY <1>2 DEF Row
  <2> QED BY <1>1, <1>5, <2>1, EditedKeeps
<1> QED BY <1>3, <1>4, <1>5 DEF Resolve, Reopen

\* What a scan reads is current when it reads it.
LEMMA StartKeeps ==
  ASSUME IInv, NEW w \in Workers, StartScan(w)
  PROVE  IInv'
<1>1. PICK S \in SUBSET Candidates :
        LET new == {t \in S : Report(rows[t], now) # None}
        IN  scan' = [scan EXCEPT ![w] =
              [at |-> now,
               reports |-> [t \in new |-> [row |-> rows[t], type |-> Report(rows[t], now)]]]]
  BY DEF StartScan
<1> DEFINE new == {t \in S : Report(rows[t], now) # None}
           opened == [at |-> now,
                      reports |-> [t \in new |-> [row |-> rows[t], type |-> Report(rows[t], now)]]]
<1>2. rows' = rows /\ notices' = notices /\ events' = events /\ now' = now
  BY DEF StartScan
<1>3. scan' = [scan EXCEPT ![w] = opened]
  BY <1>1
<1>4. Typed' /\ MarksTrue' /\ AllTold'
  BY <1>2, <1>3 DEF IInv, Typed, MarksTrue, AllTold, Told
<1>5. opened.at \in Nat /\ DOMAIN opened.reports = new
  BY DEF IInv, Typed
<1>6. ASSUME NEW t \in new
      PROVE  Missing(opened.reports[t]) /\ Behind(opened.reports[t], t)
  <2>1. t \in DOMAIN rows /\ Report(rows[t], now) # None
    BY DEF Candidates, Created
  <2>2. rows[t] \in Row
    BY <2>1 DEF IInv, Typed
  <2>3. opened.reports[t].row = rows[t] /\ opened.reports[t].type = Report(rows[t], now)
    OBVIOUS
  <2> HIDE DEF opened, new
  <2>4. Missing(opened.reports[t])
    BY <2>1, <2>3, ReportIs DEF Missing
  <2>5. Behind(opened.reports[t], t)
    BY <2>1, <2>2, <2>3 DEF Behind, Row
  <2> QED BY <2>4, <2>5
<1> HIDE DEF opened, new
<1>7. ScanIsCurrent'
  <2> SUFFICES ASSUME NEW v \in Workers, scan'[v] # None
               PROVE  /\ scan'[v].at \in Nat
                      /\ \A t \in DOMAIN scan'[v].reports :
                           Missing(scan'[v].reports[t]) /\ Behind(scan'[v].reports[t], t)
    BY <1>2 DEF ScanIsCurrent, Behind, Missing
  <2>1. CASE v = w
    <3>1. scan'[v] = opened
      BY <1>3, <2>1 DEF IInv, Typed
    <3> QED BY <3>1, <1>5, <1>6
  <2>2. CASE v # w
    <3>1. scan'[v] = scan[v]
      BY <1>3, <2>2 DEF IInv, Typed
    <3> QED BY <3>1 DEF IInv, ScanIsCurrent
  <2> QED BY <2>1, <2>2
<1> QED BY <1>4, <1>7 DEF IInv

\* A scan that is given up, or rolled back, leaves no trace.
LEMMA DropKeeps ==
  ASSUME IInv, NEW w \in Workers, scan' = [scan EXCEPT ![w] = None],
         UNCHANGED <<rows, notices, events, now>>
  PROVE  IInv'
<1>1. Typed' /\ MarksTrue' /\ AllTold'
  BY DEF IInv, Typed, MarksTrue, AllTold, Told
<1>2. ASSUME NEW v \in Workers, scan'[v] # None  PROVE scan'[v] = scan[v]
  BY <1>2 DEF IInv, Typed
<1>3. ScanIsCurrent'
  BY <1>2 DEF IInv, ScanIsCurrent, Behind, Missing
<1> QED BY <1>1, <1>3 DEF IInv

\* The commit marks the very rows that were read, and tells every admin of a breach
\* unless the table shows that he was told.
LEMMA CommitKeeps ==
  ASSUME IInv, NEW w \in Workers, CommitScan(w)
  PROVE  IInv'
<1> DEFINE x == scan[w]
           reported == DOMAIN x.reports
           marked(t) == Mark(x.reports[t].row, x.reports[t].type, x.at)
<1>1. /\ x # None /\ Current(x)
      /\ rows' = [t \in DOMAIN rows |-> IF t \in reported THEN marked(t) ELSE rows[t]]
      /\ events' = [t \in Tickets |->
           IF t \in reported THEN Append(events[t], x.reports[t].type) ELSE events[t]]
      /\ notices' = notices \cup UNION
           {Notify(Recipients(x.reports[t]), x.reports[t].type, t, x.at) : t \in reported}
      /\ scan' = [scan EXCEPT ![w] = None] /\ now' = now
  BY DEF CommitScan
<1>2. x.at \in Nat
  BY <1>1 DEF IInv, ScanIsCurrent
<1>3. ASSUME NEW t \in reported
      PROVE  /\ t \in DOMAIN rows /\ t \in Tickets
             /\ x.reports[t].row = rows[t] /\ rows[t] \in Row
             /\ Missing(x.reports[t])
  <2>1. Missing(x.reports[t]) /\ Behind(x.reports[t], t)
    BY <1>1 DEF IInv, ScanIsCurrent
  <2>2. rows[t].version = x.reports[t].row.version
    BY <1>1 DEF Current
  <2> QED BY <2>1, <2>2 DEF Behind, IInv, Typed
<1>4. ASSUME NEW t \in reported
      PROVE  /\ marked(t) \in Row
             /\ marked(t).version = rows[t].version + 1
             /\ Append(events[t], x.reports[t].type) \in Seq(Kinds)
             /\ Marked(marked(t), Append(events[t], x.reports[t].type))
             /\ x.reports[t].type # "SLA_BREACHED" =>
                  marked(t).breachedAt = rows[t].breachedAt
  <2>1. Marked(rows[t], events[t]) /\ events[t] \in Seq(Kinds)
    BY <1>3 DEF IInv, MarksTrue, Typed
  <2>2. /\ x.reports[t].type \in Kinds
        /\ x.reports[t].type = "SLA_BREACHED" => rows[t].breachedAt = None
        /\ x.reports[t].type = "SLA_AT_RISK" => rows[t].warnedAt = None
    BY <1>3 DEF Missing
  <2>3. x.reports[t].row = rows[t] /\ rows[t] \in Row
    BY <1>3
  <2> QED BY <1>2, <2>1, <2>2, <2>3, MarkAgrees
<1> HIDE DEF marked
<1>5. Typed'
  BY <1>1, <1>3, <1>4 DEF IInv, Typed
<1>6. MarksTrue'
  <2> SUFFICES ASSUME NEW t \in Tickets
               PROVE  IF t \in DOMAIN rows' THEN Marked(rows'[t], events'[t]) ELSE events'[t] = <<>>
    BY DEF MarksTrue
  <2>1. CASE t \in reported
    BY <1>1, <1>3, <1>4, <2>1
  <2>2. CASE t \notin reported
    BY <1>1, <2>2 DEF IInv, MarksTrue
  <2> QED BY <2>1, <2>2
<1>7. ScanIsCurrent'
  <2>1. ASSUME NEW v \in Workers, scan'[v] # None  PROVE scan'[v] = scan[v] /\ scan[v] # None
    BY <1>1, <2>1 DEF IInv, Typed
  <2>2. ASSUME NEW v \in Workers, scan'[v] # None, NEW t \in DOMAIN scan'[v].reports
        PROVE  (Missing(scan[v].reports[t]) /\ Behind(scan[v].reports[t], t))'
    <3>1. Missing(scan[v].reports[t]) /\ Behind(scan[v].reports[t], t)
      BY <2>1, <2>2 DEF IInv, ScanIsCurrent
    <3>2. /\ t \in DOMAIN rows'
          /\ rows'[t] = rows[t] \/ rows'[t].version = rows[t].version + 1
      BY <1>1, <1>3, <1>4, <3>1 DEF Behind
    <3>3. scan[v].reports[t].row.version \in Nat /\ rows[t].version \in Nat
      BY <3>1 DEF Behind, Row, IInv, Typed
    <3>4. scan'[v] = scan[v]
      BY <2>1, <2>2
    <3> QED BY <3>1, <3>2, <3>3, <3>4 DEF Behind, Missing
  <2> QED BY <2>1, <2>2 DEF IInv, ScanIsCurrent
<1>8. AllTold'
  <2> SUFFICES ASSUME NEW t \in DOMAIN rows, rows'[t].breachedAt # None, NEW u \in Admins
               PROVE  Told(u, t)'
    BY <1>1 DEF AllTold
  <2>1. CASE t \in reported /\ x.reports[t].type = "SLA_BREACHED"
    <3>1. u \in Recipients(x.reports[t]) \ {None}
      BY <2>1, NoneAssumption DEF Recipients
    <3>2. CASE ExistsRecent(u, "SLA_BREACHED", t, x.at - DedupWindow)
      BY <1>1, <3>2 DEF ExistsRecent, Told
    <3>3. CASE ~ExistsRecent(u, "SLA_BREACHED", t, x.at - DedupWindow)
      <4> DEFINE n == [user |-> u, type |-> "SLA_BREACHED", ticket |-> t, at |-> x.at]
      <4>1. n \in Notify(Recipients(x.reports[t]), x.reports[t].type, t, x.at)
        BY <2>1, <3>1, <3>3 DEF Notify
      <4>2. n \in notices'
        BY <1>1, <2>1, <4>1
      <4> QED BY <4>2 DEF Told
    <3> QED BY <3>2, <3>3
  <2>2. CASE ~(t \in reported /\ x.reports[t].type = "SLA_BREACHED")
    <3>1. rows'[t].breachedAt = rows[t].breachedAt
      BY <1>1, <1>4, <2>2
    <3>2. Told(u, t)
      BY <3>1 DEF IInv, AllTold
    <3> QED BY <1>1, <3>2 DEF Told
  <2> QED BY <2>1, <2>2
<1> QED BY <1>5, <1>6, <1>7, <1>8 DEF IInv

LEMMA NextIInv == IInv /\ [Next]_vars => IInv'
<1> SUFFICES ASSUME IInv, [Next]_vars  PROVE IInv'
  OBVIOUS
<1>1. ASSUME NEW t \in Tickets, NEW p \in Priorities, Create(t, p)  PROVE IInv'
  BY <1>1, CreateKeeps
<1>2. ASSUME NEW t \in Tickets, NEW p \in Priorities, ChangePriority(t, p)  PROVE IInv'
  BY <1>2, PeopleKeep
<1>3. ASSUME NEW t \in Tickets, NEW u \in Agents, Assign(t, u)  PROVE IInv'
  BY <1>3, PeopleKeep
<1>4. ASSUME NEW t \in Tickets, Resolve(t) \/ Reopen(t)  PROVE IInv'
  BY <1>4, PeopleKeep
<1>5. CASE Tick
  BY <1>5 DEF Tick, IInv, Typed, MarksTrue, ScanIsCurrent, Behind, Missing, AllTold, Told
<1>6. ASSUME NEW w \in Workers, StartScan(w)  PROVE IInv'
  BY <1>6, StartKeeps
<1>7. ASSUME NEW w \in Workers, CommitScan(w)  PROVE IInv'
  BY <1>7, CommitKeeps
<1>8. ASSUME NEW w \in Workers, RollbackScan(w) \/ Die(w)  PROVE IInv'
  BY <1>8, DropKeeps DEF RollbackScan, Die
<1>9. CASE UNCHANGED vars
  BY <1>9 DEF vars, IInv, Typed, MarksTrue, ScanIsCurrent, Behind, Missing, AllTold, Told
<1> QED BY <1>1, <1>2, <1>3, <1>4, <1>5, <1>6, <1>7, <1>8, <1>9 DEF Next

LEMMA IInvHolds == Spec => []IInv
<1> QED BY InitIInv, NextIInv, PTL DEF Spec

-----------------------------------------------------------------------------
(***************************************************************************)
(* Due dates and reports are true.                                         *)
(***************************************************************************)
\* The due date of a ticket is the one of its present priority.
DueIsApplied ==
  \A t \in DOMAIN rows : rows[t].dueAt = ApplySla(rows[t].createdAt, rows[t].priority)

\* An open scan reports open tickets, and what it says was true when it read them.
ScanIsJustified ==
  \A w \in Workers : scan[w] # None =>
    /\ scan[w].at <= now
    /\ \A t \in DOMAIN scan[w].reports :
         LET x == scan[w].reports[t]
         IN  x.row.open /\ x.type = Report(x.row, scan[w].at) /\ x.type # None

ClockInv == IInv /\ DueIsApplied /\ ScanIsJustified

\* A system without tickets is in order.
LEMMA InitClockInv == Init => ClockInv
<1> SUFFICES ASSUME Init  PROVE ClockInv
  OBVIOUS
<1>1. DueIsApplied
  BY DEF Init, DueIsApplied
<1>2. ScanIsJustified
  BY DEF Init, ScanIsJustified
<1> QED BY <1>1, <1>2, InitIInv DEF ClockInv

\* A due date changes with the priority, and a scan writes back the row's own.
LEMMA DueStays ==
  ASSUME IInv, DueIsApplied, [Next]_vars
  PROVE  DueIsApplied'
<1>1. ASSUME NEW t \in Tickets, NEW p \in Priorities, Create(t, p)
      PROVE  DueIsApplied'
  <2>1. rows' = [r \in DOMAIN rows \cup {t} |-> IF r = t THEN NewRow(p) ELSE rows[r]]
    BY <1>1 DEF Create
  <2>2. NewRow(p).dueAt = ApplySla(NewRow(p).createdAt, NewRow(p).priority)
    BY DEF NewRow
  <2> HIDE DEF NewRow
  <2> QED BY <2>1, <2>2 DEF DueIsApplied
<1>2. ASSUME NEW t \in DOMAIN rows, NEW row, Edited(t, row), row \in Row,
             row.dueAt = ApplySla(row.createdAt, row.priority)
      PROVE  DueIsApplied'
  <2> DEFINE new == [row EXCEPT !.version = @ + 1]
  <2>1. rows' = [rows EXCEPT ![t] = new]
    BY <1>2 DEF Edited
  <2>2. new.dueAt = ApplySla(new.createdAt, new.priority)
    BY <1>2 DEF Row
  <2> HIDE DEF new
  <2> QED BY <2>1, <2>2 DEF DueIsApplied
<1>3. ASSUME NEW t \in Tickets,
             \/ \E p \in Priorities : ChangePriority(t, p)
             \/ \E u \in Agents : Assign(t, u)
             \/ Resolve(t) \/ Reopen(t)
      PROVE  DueIsApplied'
  <2> DEFINE row == rows[t]
  <2>1. t \in DOMAIN rows /\ row \in Row /\ row.dueAt = ApplySla(row.createdAt, row.priority)
    BY <1>3 DEF ChangePriority, Assign, Resolve, Reopen, Created, IInv, Typed, DueIsApplied
  <2> HIDE DEF row
  <2>2. ASSUME NEW p \in Priorities, ChangePriority(t, p)
        PROVE  DueIsApplied'
    <3> DEFINE new == [row EXCEPT !.priority = p, !.dueAt = ApplySla(row.createdAt, p)]
    <3>1. ApplySla(row.createdAt, p) \in DueDates
      BY <2>1 DEF DueDates, Row
    <3>2. new \in Row /\ new.dueAt = ApplySla(new.createdAt, new.priority)
      BY <2>1, <3>1 DEF Row
    <3>3. Edited(t, new)
      BY <2>2 DEF ChangePriority, row
    <3> HIDE DEF new
    <3> QED BY <1>2, <2>1, <3>2, <3>3
  <2>3. ASSUME NEW u \in Agents, Assign(t, u)
        PROVE  DueIsApplied'
    <3> DEFINE new == [row EXCEPT !.assignee = u]
    <3>1. new \in Row /\ new.dueAt = ApplySla(new.createdAt, new.priority)
      BY <2>1 DEF Row
    <3>2. Edited(t, new)
      BY <2>3 DEF Assign, row
    <3> HIDE DEF new
    <3> QED BY <1>2, <2>1, <3>1, <3>2
  <2>4. ASSUME NEW b \in BOOLEAN, Edited(t, [row EXCEPT !.open = b])
        PROVE  DueIsApplied'
    <3> DEFINE new == [row EXCEPT !.open = b]
    <3>1. new \in Row /\ new.dueAt = ApplySla(new.createdAt, new.priority)
      BY <2>1 DEF Row
    <3> HIDE DEF new
    <3> QED BY <1>2, <2>1, <2>4, <3>1 DEF new
  <2> QED BY <1>3, <2>2, <2>3, <2>4 DEF Resolve, Reopen, row
<1>4. ASSUME NEW w \in Workers, CommitScan(w)
      PROVE  DueIsApplied'
  <2> DEFINE x == scan[w]
             marked(t) == Mark(x.reports[t].row, x.reports[t].type, x.at)
  <2>1. /\ x # None /\ Current(x)
        /\ rows' = [t \in DOMAIN rows |-> IF t \in DOMAIN x.reports THEN marked(t) ELSE rows[t]]
    BY <1>4 DEF CommitScan
  <2>2. ASSUME NEW t \in DOMAIN x.reports
        PROVE  /\ x.reports[t].row = rows[t] /\ rows[t] \in Row /\ t \in DOMAIN rows
    <3>1. Behind(x.reports[t], t)
      BY <2>1 DEF IInv, ScanIsCurrent
    <3>2. rows[t].version = x.reports[t].row.version
      BY <2>1 DEF Current
    <3> QED BY <3>1, <3>2 DEF Behind, IInv, Typed
  <2>3. ASSUME NEW t \in DOMAIN x.reports
        PROVE  /\ marked(t).dueAt = rows[t].dueAt /\ marked(t).createdAt = rows[t].createdAt
               /\ marked(t).priority = rows[t].priority
    BY <2>2 DEF Mark, Row
  <2> HIDE DEF marked
  <2> QED BY <2>1, <2>3 DEF DueIsApplied
<1>5. ASSUME UNCHANGED rows
      PROVE  DueIsApplied'
  BY <1>5 DEF DueIsApplied
<1> QED BY <1>1, <1>3, <1>4, <1>5 DEF Next, vars, Tick, StartScan, RollbackScan, Die

\* A scan is what was true when it began, and that is not later than now.
LEMMA JustifiedStays ==
  ASSUME IInv, ScanIsJustified, [Next]_vars
  PROVE  ScanIsJustified'
<1>1. now \in Nat /\ now' \in Nat /\ now <= now'
  <2>1. now' = now \/ now' = now + 1
    BY DEF Next, vars, Create, ChangePriority, Edited, Assign, Resolve, Reopen, Tick,
           StartScan, CommitScan, RollbackScan, Die
  <2>2. now \in Nat
    BY DEF IInv, Typed
  <2> QED BY <2>1, <2>2
<1>2. ASSUME \A v \in Workers : scan'[v] = scan[v] \/ scan'[v] = None
      PROVE  ScanIsJustified'
  <2>1. \A v \in Workers : scan[v] # None => scan[v].at \in Nat
    BY DEF IInv, ScanIsCurrent
  <2> QED BY <1>1, <1>2, <2>1 DEF ScanIsJustified
<1>3. ASSUME NEW w \in Workers, StartScan(w)
      PROVE  ScanIsJustified'
  <2>1. PICK S \in SUBSET Candidates :
          scan' = [scan EXCEPT ![w] =
            [at |-> now,
             reports |-> [t \in {r \in S : Report(rows[r], now) # None} |->
                            [row |-> rows[t], type |-> Report(rows[t], now)]]]]
    BY <1>3 DEF StartScan
  <2>2. now' = now
    BY <1>3 DEF StartScan
  <2>3. \A t \in S : rows[t].open
    BY DEF Candidates
  <2>4. ASSUME NEW v \in Workers, v # w, scan'[v] # None
        PROVE  scan'[v] = scan[v] /\ scan[v].at <= now
    BY <2>1, <2>4 DEF ScanIsJustified, IInv, Typed
  <2> DEFINE x == scan'[w]
  <2>5. /\ x.at = now
        /\ \A t \in DOMAIN x.reports :
             /\ x.reports[t] = [row |-> rows[t], type |-> Report(rows[t], now)]
             /\ t \in S /\ Report(rows[t], now) # None
    BY <2>1 DEF IInv, Typed
  <2>6. /\ x.at <= now'
        /\ \A t \in DOMAIN x.reports :
             /\ x.reports[t].row.open /\ x.reports[t].type = Report(x.reports[t].row, x.at)
             /\ x.reports[t].type # None
    <3>1. x.at <= now'
      BY <1>1, <2>2, <2>5
    <3>2. ASSUME NEW t \in DOMAIN x.reports
          PROVE  /\ x.reports[t].row.open /\ x.reports[t].type = Report(x.reports[t].row, x.at)
                 /\ x.reports[t].type # None
      <4>1. /\ x.reports[t] = [row |-> rows[t], type |-> Report(rows[t], now)]
            /\ t \in S /\ Report(rows[t], now) # None /\ x.at = now
        BY <2>5
      <4>2. x.reports[t].row = rows[t] /\ x.reports[t].type = Report(rows[t], now)
        BY <4>1
      <4> QED BY <2>3, <4>1, <4>2
    <3> QED BY <3>1, <3>2
  <2> HIDE DEF x
  <2> QED BY <2>2, <2>4, <2>6 DEF ScanIsJustified, x
<1>4. \/ \E w \in Workers : StartScan(w)
      \/ \A v \in Workers : scan'[v] = scan[v] \/ scan'[v] = None
  <2>1. DOMAIN scan = Workers
    BY DEF IInv, Typed
  <2> QED BY <2>1 DEF Next, vars, Create, ChangePriority, Edited, Assign, Resolve, Reopen, Tick,
         CommitScan, RollbackScan, Die
<1> QED BY <1>2, <1>3, <1>4

\* The invariant of the clock.
LEMMA ClockInvHolds == Spec => []ClockInv
<1>1. ClockInv /\ [Next]_vars => ClockInv'
  BY NextIInv, DueStays, JustifiedStays DEF ClockInv
<1> QED BY <1>1, InitClockInv, PTL DEF Spec

\* Later, less is left.
LEMMA CountedLess ==
  ASSUME NEW a \in Nat, NEW b \in Nat, NEW c \in Nat, NEW zone \in Nat, a <= b
  PROVE  /\ Counted(a, c, zone) \in Nat /\ Counted(b, c, zone) \in Nat
         /\ Counted(b, c, zone) <= Counted(a, c, zone)
<1> DEFINE x == a + zone
           y == b + zone
           z == c + zone
<1>1. x \in Nat /\ y \in Nat /\ z \in Nat /\ x <= y
  OBVIOUS
<1>2. Counted(a, c, zone) = Worked(x, z) /\ Counted(b, c, zone) = Worked(y, z)
  BY CountedIs
<1> HIDE DEF x, y, z
<1>3. IsFiniteSet(Minutes(x, z)) /\ Worked(x, z) \in Nat /\ Worked(y, z) \in Nat
  BY <1>1, WorkedType
<1>4. Minutes(y, z) \subseteq Minutes(x, z)
  BY <1>1 DEF Minutes
<1>5. Worked(y, z) <= Worked(x, z)
  BY <1>3, <1>4, FS_Subset DEF Worked
<1> QED BY <1>2, <1>3, <1>5

-----------------------------------------------------------------------------
(***************************************************************************)
(* The theorems.                                                           *)
(***************************************************************************)
\* For any tickets, people and workers: the monitor's journal of a ticket (_record) holds
\* each kind at most once, and exactly the kinds that are marked.
THEOREM ReportsAreMadeOnce == Spec => []ReportedOnce
<1>1. IInv => ReportedOnce
  BY DEF IInv, MarksTrue, Marked, Distinct, Reported, ReportedOnce, Created, Typed
<1> QED BY <1>1, IInvHolds, PTL

\* For any tickets, people and workers: every admin has a notice of every ticket that is
\* marked late; the deduplication of notify loses none.
THEOREM AdminsAreToldOfBreaches == Spec => []AdminsToldOfBreach
<1>1. IInv => AdminsToldOfBreach
  BY DEF IInv, AllTold, Told, AdminsToldOfBreach, Created
<1> QED BY <1>1, IInvHolds, PTL

\* For any tickets, policies, zones, office hours, workdays and holidays: due_at leaves the
\* policy's minutes of business time and ends in office hours, and
\* business_minutes_between is the business time that is left.
THEOREM BusinessTimeIsCounted == Spec => []BusinessTimeCounted
<1>1. ASSUME ClockInv
      PROVE  BusinessTimeCounted
  <2> SUFFICES ASSUME NEW t \in Tickets, Created(t)
               PROVE  /\ Policy[rows[t].priority].businessHoursOnly =>
                           /\ Counted(rows[t].createdAt, rows[t].dueAt, BusinessZone)
                                = Policy[rows[t].priority].minutes
                           /\ BusinessMinute(rows[t].dueAt - 1, BusinessZone)
                      /\ BusinessMinutesBetween(now, rows[t].dueAt, MonitorZone)
                           = Counted(now, rows[t].dueAt, MonitorZone)
    BY DEF BusinessTimeCounted
  <2>1. /\ rows[t].createdAt \in Nat /\ rows[t].priority \in Priorities /\ now \in Nat
        /\ rows[t].dueAt = ApplySla(rows[t].createdAt, rows[t].priority)
    BY <1>1 DEF ClockInv, IInv, Typed, Row, DueIsApplied, Created
  <2> QED BY <2>1, ApplySlaIs, BusinessMinutesAre, ZoneAssumption
<1> QED BY <1>1, ClockInvHolds, PTL

\* For any tickets, people and workers: a ticket that gets a mark is open then, and late, or
\* in the last quarter of its business time, by the due date it has then.
THEOREM MarksAreMadeDue == Spec => MarksAreDue
<1> DEFINE Due(t) ==
       /\ rows'[t].breachedAt # rows[t].breachedAt => rows[t].open /\ rows[t].dueAt < now
       /\ rows'[t].warnedAt # rows[t].warnedAt =>
            /\ rows[t].open
            /\ 4 * Counted(now, rows[t].dueAt, MonitorZone)
                 <= Counted(rows[t].createdAt, rows[t].dueAt, MonitorZone)
<1>1. ASSUME ClockInv, [Next]_vars, NEW t \in Tickets, Created(t)
      PROVE  Due(t)
  <2>1. t \in DOMAIN rows /\ rows[t] \in Row /\ now \in Nat
    BY <1>1 DEF ClockInv, IInv, Typed, Created
  <2>2. CASE rows'[t].breachedAt = rows[t].breachedAt /\ rows'[t].warnedAt = rows[t].warnedAt
    BY <2>2
  <2>3. ASSUME NEW w \in Workers, CommitScan(w), t \in DOMAIN scan[w].reports
        PROVE  Due(t)
    <3> DEFINE x == scan[w]
               row == rows[t]
    <3>1. /\ x # None /\ Current(x)
          /\ rows' = [r \in DOMAIN rows |-> IF r \in DOMAIN x.reports
                        THEN Mark(x.reports[r].row, x.reports[r].type, x.at) ELSE rows[r]]
      BY <2>3 DEF CommitScan
    <3>2. x.at \in Nat /\ x.at <= now /\ Behind(x.reports[t], t)
      BY <1>1, <2>3, <3>1 DEF ClockInv, IInv, ScanIsCurrent, ScanIsJustified
    <3>3. x.reports[t].row = row
      BY <2>3, <3>1, <3>2 DEF Current, Behind
    <3>4. row.open /\ x.reports[t].type = Report(row, x.at) /\ Report(row, x.at) # None
      BY <1>1, <2>3, <3>1, <3>3 DEF ClockInv, ScanIsJustified
    <3>5. rows'[t] = Mark(row, Report(row, x.at), x.at)
      BY <2>1, <2>3, <3>1, <3>3, <3>4
    <3>6. x.reports[t].type \in Kinds
      BY <1>1, <2>3, <3>1 DEF ClockInv, IInv, ScanIsCurrent, Missing
    <3>7. /\ row \in Row /\ row.createdAt \in Nat /\ row.dueAt \in Nat
      <4>1. row.createdAt \in Nat /\ row.priority \in Priorities
            /\ row.dueAt = ApplySla(row.createdAt, row.priority)
        BY <1>1, <2>1 DEF ClockInv, DueIsApplied, Row
      <4> QED BY <2>1, <4>1, ApplySlaIs
    <3> DEFINE at == x.at
               state == SlaState(row.createdAt, row.dueAt, at, MonitorZone)
    <3>8. at \in Nat /\ at <= now /\ now \in Nat
      BY <2>1, <3>2
    <3>9. /\ Report(row, at) \in Kinds
          /\ Report(row, at) = "SLA_BREACHED" => state = "BREACHED"
          /\ Report(row, at) = "SLA_AT_RISK" => state = "AT_RISK"
      BY <3>4, <3>6, ReportIs
    <3> HIDE DEF x, row, at
    <3>10. CASE Report(row, at) = "SLA_BREACHED"
      <4>1. state = "BREACHED"
        BY <3>9, <3>10
      <4>2. row.dueAt < at
        BY <3>7, <3>8, <4>1 DEF SlaState
      <4>3. rows'[t].warnedAt = row.warnedAt
        BY <3>5, <3>7, <3>10 DEF Mark, Row, at
      <4> QED BY <3>4, <3>7, <3>8, <4>2, <4>3 DEF row
    <3>11. CASE Report(row, at) = "SLA_AT_RISK"
      <4>1. state = "AT_RISK"
        BY <3>9, <3>11
      <4>2. AtRisk(row.createdAt, row.dueAt, at, MonitorZone)
        BY <3>7, <3>8, <4>1 DEF SlaState
      <4>3. 4 * Counted(at, row.dueAt, MonitorZone) <= Counted(row.createdAt, row.dueAt, MonitorZone)
        BY <3>7, <3>8, <4>2, BusinessMinutesAre, ZoneAssumption DEF AtRisk
      <4>4. /\ Counted(at, row.dueAt, MonitorZone) \in Nat /\ Counted(now, row.dueAt, MonitorZone) \in Nat
            /\ Counted(now, row.dueAt, MonitorZone) <= Counted(at, row.dueAt, MonitorZone)
            /\ Counted(row.createdAt, row.dueAt, MonitorZone) \in Nat
        <5>1. MonitorZone \in Nat /\ row.createdAt <= row.createdAt
          BY <3>7, ZoneAssumption
        <5>2. /\ Counted(at, row.dueAt, MonitorZone) \in Nat
              /\ Counted(now, row.dueAt, MonitorZone) \in Nat
              /\ Counted(now, row.dueAt, MonitorZone) <= Counted(at, row.dueAt, MonitorZone)
          BY <3>7, <3>8, <5>1, CountedLess
        <5>3. Counted(row.createdAt, row.dueAt, MonitorZone) \in Nat
          BY <3>7, <5>1, CountedLess
        <5> QED BY <5>2, <5>3
      <4>5. 4 * Counted(now, row.dueAt, MonitorZone) <= Counted(row.createdAt, row.dueAt, MonitorZone)
        BY <4>3, <4>4
      <4>6. rows'[t].breachedAt = row.breachedAt
        BY <3>5, <3>7, <3>11 DEF Mark, Row, at
      <4> QED BY <3>4, <4>5, <4>6 DEF row
    <3> QED BY <3>9, <3>10, <3>11 DEF Kinds
  <2>4. \/ rows'[t].breachedAt = rows[t].breachedAt /\ rows'[t].warnedAt = rows[t].warnedAt
        \/ \E w \in Workers : CommitScan(w) /\ t \in DOMAIN scan[w].reports
    <3>1. ASSUME NEW w \in Workers, CommitScan(w), t \notin DOMAIN scan[w].reports
          PROVE  rows'[t] = rows[t]
      BY <2>1, <3>1 DEF CommitScan
    <3>2. ASSUME NEW s \in Tickets, NEW p \in Priorities, Create(s, p)
          PROVE  rows'[t] = rows[t]
      BY <2>1, <3>2 DEF Create, Created
    <3>3. ASSUME NEW s \in Tickets,
                 \/ \E p \in Priorities : ChangePriority(s, p)
                 \/ \E u \in Agents : Assign(s, u)
                 \/ Resolve(s) \/ Reopen(s)
          PROVE  rows'[t].breachedAt = rows[t].breachedAt /\ rows'[t].warnedAt = rows[t].warnedAt
      <4>1. s \in DOMAIN rows /\ rows[s] \in Row
        BY <1>1, <3>3 DEF ChangePriority, Assign, Resolve, Reopen, Created, ClockInv, IInv, Typed
      <4>2. PICK row : /\ Edited(s, row) /\ DOMAIN row = DOMAIN rows[s]
                       /\ row.breachedAt = rows[s].breachedAt /\ row.warnedAt = rows[s].warnedAt
        <5> DEFINE q == rows[s]
        <5>1. \A p : LET v == [q EXCEPT !.priority = p, !.dueAt = ApplySla(q.createdAt, p)]
                     IN  DOMAIN v = DOMAIN q /\ v.breachedAt = q.breachedAt /\ v.warnedAt = q.warnedAt
          BY <4>1 DEF Row
        <5>2. \A u : LET v == [q EXCEPT !.assignee = u]
                     IN  DOMAIN v = DOMAIN q /\ v.breachedAt = q.breachedAt /\ v.warnedAt = q.warnedAt
          BY <4>1 DEF Row
        <5>3. \A b : LET v == [q EXCEPT !.open = b]
                     IN  DOMAIN v = DOMAIN q /\ v.breachedAt = q.breachedAt /\ v.warnedAt = q.warnedAt
          BY <4>1 DEF Row
        <5>4. \/ \E p : Edited(s, [q EXCEPT !.priority = p, !.dueAt = ApplySla(q.createdAt, p)])
              \/ \E u : Edited(s, [q EXCEPT !.assignee = u])
              \/ \E b : Edited(s, [q EXCEPT !.open = b])
          BY <3>3 DEF ChangePriority, Assign, Resolve, Reopen
        <5> HIDE DEF q
        <5>5. ASSUME NEW p, Edited(s, [q EXCEPT !.priority = p, !.dueAt = ApplySla(q.createdAt, p)])
              PROVE  \E row : /\ Edited(s, row) /\ DOMAIN row = DOMAIN q
                              /\ row.breachedAt = q.breachedAt /\ row.warnedAt = q.warnedAt
          BY <5>1, <5>5, Zenon
        <5>6. ASSUME NEW u, Edited(s, [q EXCEPT !.assignee = u])
              PROVE  \E row : /\ Edited(s, row) /\ DOMAIN row = DOMAIN q
                              /\ row.breachedAt = q.breachedAt /\ row.warnedAt = q.warnedAt
          BY <5>2, <5>6, Zenon
        <5>7. ASSUME NEW b, Edited(s, [q EXCEPT !.open = b])
              PROVE  \E row : /\ Edited(s, row) /\ DOMAIN row = DOMAIN q
                              /\ row.breachedAt = q.breachedAt /\ row.warnedAt = q.warnedAt
          BY <5>3, <5>7, Zenon
        <5> QED BY <5>4, <5>5, <5>6, <5>7, Zenon DEF q
      <4> DEFINE new == [row EXCEPT !.version = @ + 1]
      <4>3. rows' = [rows EXCEPT ![s] = new]
        BY <4>2 DEF Edited
      <4>4. new.breachedAt = rows[s].breachedAt /\ new.warnedAt = rows[s].warnedAt
        BY <4>1, <4>2 DEF Row
      <4> HIDE DEF new
      <4> QED BY <2>1, <4>1, <4>3, <4>4
    <3> QED BY <1>1, <3>1, <3>2, <3>3 DEF Next, vars, Tick, StartScan, RollbackScan, Die
  <2> QED BY <2>2, <2>3, <2>4
<1>2. ClockInv /\ [Next]_vars => [\A t \in Tickets : Created(t) => Due(t)]_vars
  BY <1>1
<1> QED BY <1>2, ClockInvHolds, PTL DEF Spec, MarksAreDue
=============================================================================
