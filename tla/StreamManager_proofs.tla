------------------------- MODULE StreamManager_proofs -------------------------
(* Theorems about the two parts of StreamManager: StreamSession, for any markets, hours and *)
(* calendars, and StreamSupervisor, for any markets, backoffs and kinds of session.         *)
EXTENDS StreamSession, StreamSupervisor, WellFoundedInduction, TLAPS

-----------------------------------------------------------------------------
(* Days *)

\* A time is on a day from its midnight to the next.
LEMMA DayIs ==
    ASSUME NEW l \in Int
    PROVE  /\ DayOf(l) \in Int /\ DayOf(l) * Day <= l /\ l < DayOf(l) * Day + Day
           /\ TimeOf(l) = l - DayOf(l) * Day
  BY DEF DayOf, TimeOf, Day

LEMMA DayIsOf ==
    ASSUME NEW l \in Int, NEW d \in Int, d * Day <= l, l < d * Day + Day
    PROVE  DayOf(l) = d
  BY DEF DayOf, Day

-----------------------------------------------------------------------------
(* Zones *)

\* The day of the weekend on which the clocks of a market change.
ChangeDay(m) == DayOf(calendar.change + calendar.after[Zone[m]])

\* The offset of a market on any other day.
OffsetOn(m, d) == IF d > ChangeDay(m) THEN calendar.after[Zone[m]] ELSE calendar.before[Zone[m]]

\* Its opening on that day.
OpeningAt(m, d) == d * Day + Open[m] - OffsetOn(m, d)

\* The change of a market's clocks is on that day by either offset.
LEMMA ZoneTypes ==
    ASSUME calendar \in Calendars, NEW m \in Markets
    PROVE  /\ calendar.change \in Int
           /\ calendar.before[Zone[m]] \in Int /\ calendar.after[Zone[m]] \in Int
           /\ ChangeDay(m) \in Int /\ ~Weekday(ChangeDay(m))
           /\ ChangeDay(m) = DayOf(calendar.change + calendar.before[Zone[m]])
           /\ ChangeDay(m) * Day <= calendar.change + calendar.before[Zone[m]]
           /\ ChangeDay(m) * Day <= calendar.change + calendar.after[Zone[m]]
           /\ calendar.change + calendar.before[Zone[m]] < ChangeDay(m) * Day + Day
           /\ calendar.change + calendar.after[Zone[m]] < ChangeDay(m) * Day + Day
           /\ Open[m] \in 0 .. Day - 1 /\ Close[m] \in Int /\ Open[m] <= Close[m]
<1>1. WithinADay(calendar) /\ ChangesOnWeekend(calendar)
  BY CalendarsAssumption DEF CalendarsAssumption
<1>2. calendar.before[Zone[m]] \in Int /\ calendar.after[Zone[m]] \in Int
  BY <1>1 DEF WithinADay, Zones, Offsets
<1>3. calendar.change \in Int /\ ~Weekday(ChangeDay(m))
      /\ ChangeDay(m) = DayOf(calendar.change + calendar.before[Zone[m]])
  BY <1>1 DEF ChangesOnWeekend, ChangeDay
<1>4. calendar.change + calendar.before[Zone[m]] \in Int
      /\ calendar.change + calendar.after[Zone[m]] \in Int
  BY <1>2, <1>3
<1>5. Open[m] \in 0 .. Day - 1 /\ Close[m] \in Int /\ Open[m] <= Close[m]
  BY HoursAssumption DEF HoursAssumption
<1>6. /\ ChangeDay(m) \in Int
      /\ ChangeDay(m) * Day <= calendar.change + calendar.after[Zone[m]]
      /\ calendar.change + calendar.after[Zone[m]] < ChangeDay(m) * Day + Day
  BY <1>4, DayIs DEF ChangeDay
<1>7. /\ ChangeDay(m) * Day <= calendar.change + calendar.before[Zone[m]]
      /\ calendar.change + calendar.before[Zone[m]] < ChangeDay(m) * Day + Day
  BY <1>3, <1>4, DayIs
<1> QED BY <1>2, <1>3, <1>5, <1>6, <1>7

\* The clocks do not change on a weekday.
LEMMA WeekdayIsNoChange ==
    ASSUME calendar \in Calendars, NEW m \in Markets, NEW d \in Int, Weekday(d)
    PROVE  d # ChangeDay(m)
  BY ZoneTypes

\* On a day without a change, the opening is converted to UTC with the offset of that day,
\* and it is opening time at that time.
LEMMA OpeningInUtc ==
    ASSUME calendar \in Calendars, NEW m \in Markets, NEW d \in Int, d # ChangeDay(m)
    PROVE  /\ ToUtc(Zone[m], d * Day + Open[m]) = OpeningAt(m, d)
           /\ OpeningAt(m, d) \in Int
           /\ Local(Zone[m], OpeningAt(m, d)) = d * Day + Open[m]
<1> DEFINE W == ChangeDay(m)
           c == calendar.change
           a == calendar.after[Zone[m]]
           b == calendar.before[Zone[m]]
           o == Open[m]
<1>1. /\ W \in Int /\ c \in Int /\ a \in Int /\ b \in Int /\ o \in 0 .. 143
      /\ W * 144 <= c + b /\ W * 144 <= c + a /\ c + b < W * 144 + 144 /\ c + a < W * 144 + 144
  BY ZoneTypes DEF Day
<1>2. /\ OpeningAt(m, d) = d * 144 + o - (IF d > W THEN a ELSE b)
      /\ d * Day + Open[m] = d * 144 + o
  BY DEF OpeningAt, OffsetOn, Day
<1>3. ASSUME NEW l
      PROVE  ToUtc(Zone[m], l) = IF l - a >= c THEN l - a ELSE l - b
  BY DEF ToUtc
<1>4. Local(Zone[m], OpeningAt(m, d)) =
         OpeningAt(m, d) + (IF OpeningAt(m, d) < c THEN b ELSE a)
  BY DEF Local, Offset
<1>5. d # W
  OBVIOUS
<1> HIDE DEF W, c, a, b, o
<1>6. CASE d > W
  <2>1. d * 144 + o - a >= c /\ d * 144 + o - a \in Int
    BY <1>1, <1>6
  <2> QED BY <1>1, <1>2, <1>6, <1>3, <1>4, <2>1
<1>7. CASE d < W
  <2>1. d * 144 + o - a < c /\ d * 144 + o - b < c /\ d * 144 + o - b \in Int
    BY <1>1, <1>7
  <2> QED BY <1>1, <1>2, <1>7, <1>3, <1>4, <2>1
<1> QED BY <1>1, <1>5, <1>6, <1>7

\* It is not before the opening in UTC exactly if it is not in the market's zone.
LEMMA OpeningOrder ==
    ASSUME calendar \in Calendars, NEW m \in Markets, NEW d \in Int, d # ChangeDay(m),
           NEW t \in Int
    PROVE  OpeningAt(m, d) <= t <=> d * Day + Open[m] <= Local(Zone[m], t)
<1> DEFINE W == ChangeDay(m)
           c == calendar.change
           a == calendar.after[Zone[m]]
           b == calendar.before[Zone[m]]
           o == Open[m]
<1>1. /\ W \in Int /\ c \in Int /\ a \in Int /\ b \in Int /\ o \in 0 .. 143
      /\ W * 144 <= c + b /\ W * 144 <= c + a /\ c + b < W * 144 + 144 /\ c + a < W * 144 + 144
  BY ZoneTypes DEF Day
<1>2. OpeningAt(m, d) = d * 144 + o - (IF d > W THEN a ELSE b)
  BY DEF OpeningAt, OffsetOn, Day
<1>3. Local(Zone[m], t) = t + (IF t < c THEN b ELSE a) /\ d * Day + Open[m] = d * 144 + o
  BY DEF Local, Offset, Day
<1>4. d # W
  OBVIOUS
<1> HIDE DEF W, c, a, b, o
<1>5. CASE d > W
  <2>1. OpeningAt(m, d) = d * 144 + o - a
    BY <1>2, <1>5
  <2>2. CASE t < c
    <3>1. t + b < d * 144 + o /\ t < d * 144 + o - a
      BY <1>1, <1>5, <2>2
    <3> QED BY <1>1, <1>3, <2>1, <2>2, <3>1
  <2>3. CASE t >= c
    BY <1>1, <1>3, <2>1, <2>3
  <2> QED BY <1>1, <2>2, <2>3
<1>6. CASE d < W
  <2>1. OpeningAt(m, d) = d * 144 + o - b
    BY <1>1, <1>2, <1>6
  <2>2. CASE t < c
    BY <1>1, <1>3, <2>1, <2>2
  <2>3. CASE t >= c
    <3>1. d * 144 + o <= t + a /\ d * 144 + o - b <= t
      BY <1>1, <1>6, <2>3
    <3> QED BY <1>1, <1>3, <2>1, <2>3, <3>1
  <2> QED BY <1>1, <2>2, <2>3
<1>7. d > W \/ d < W
  BY <1>1, <1>4
<1> QED BY <1>5, <1>6, <1>7

-----------------------------------------------------------------------------
(* The next start *)

Today(m, t) == DayOf(Local(Zone[m], t))

LEMMA LocalType ==
    ASSUME calendar \in Calendars, NEW m \in Markets, NEW t \in Int
    PROVE  /\ Local(Zone[m], t) \in Int /\ Today(m, t) \in Int
           /\ Today(m, t) * Day <= Local(Zone[m], t)
           /\ Local(Zone[m], t) < Today(m, t) * Day + Day
<1>1. Local(Zone[m], t) \in Int
  BY ZoneTypes DEF Local, Offset
<1> QED BY <1>1, DayIs DEF Today

\* A market opens in UTC on the weekdays of the next week that are not in the season.
OpensOn(m, d, t) ==
    /\ d \in Today(m, t) .. Today(m, t) + 7
    /\ Weekday(d) /\ d \notin calendar.season
    /\ d * Day + Open[m] > Local(Zone[m], t)

LEMMA OpeningIs ==
    ASSUME calendar \in Calendars, NEW t \in Int, NEW o \in AllOpenings(t)
    PROVE  /\ o \in Int /\ o > t
           /\ \E m \in Markets, d \in Int : OpensOn(m, d, t) /\ o = OpeningAt(m, d)
<1>1. PICK m \in Markets : o \in Openings(m, t)
  BY DEF AllOpenings
<1>2. PICK d \in Today(m, t) .. Today(m, t) + 7 :
         /\ Weekday(d) /\ d \notin calendar.season /\ d * Day + Open[m] > Local(Zone[m], t)
         /\ o = ToUtc(Zone[m], d * Day + Open[m])
  BY <1>1 DEF Openings, Today
<1>3. d \in Int /\ OpensOn(m, d, t)
  BY <1>2, LocalType DEF OpensOn
<1>4. d # ChangeDay(m)
  BY <1>2, <1>3, WeekdayIsNoChange
<1>5. o = OpeningAt(m, d) /\ o \in Int
  <2>1. ToUtc(Zone[m], d * Day + Open[m]) = OpeningAt(m, d) /\ OpeningAt(m, d) \in Int
    BY <1>3, <1>4, OpeningInUtc
  <2>2. o = ToUtc(Zone[m], d * Day + Open[m])
    BY <1>2
  <2> QED BY <2>1, <2>2
<1>6. ~(d * Day + Open[m] <= Local(Zone[m], t))
  <2>1. Open[m] \in 0 .. 143
    BY ZoneTypes DEF Day
  <2>2. Local(Zone[m], t) \in Int
    BY LocalType
  <2> QED BY <1>2, <1>3, <2>1, <2>2 DEF Day
<1>7. ~(o <= t)
  BY <1>3, <1>4, <1>5, <1>6, OpeningOrder
<1> QED BY <1>3, <1>5, <1>7

LEMMA IsOpening ==
    ASSUME calendar \in Calendars, NEW t \in Int, NEW m \in Markets, NEW d \in Int,
           OpensOn(m, d, t)
    PROVE  OpeningAt(m, d) \in AllOpenings(t)
<1>1. OpeningAt(m, d) = ToUtc(Zone[m], d * Day + Open[m])
  BY WeekdayIsNoChange, OpeningInUtc DEF OpensOn
<1>2. OpeningAt(m, d) \in Openings(m, t)
  BY <1>1 DEF OpensOn, Openings, Today
<1> QED BY <1>2 DEF AllOpenings

\* There is an earliest opening.
LEMMA EarliestOpening ==
    ASSUME calendar \in Calendars, NEW t \in Int, AllOpenings(t) # {}
    PROVE  /\ Min(AllOpenings(t)) \in AllOpenings(t)
           /\ \A o \in AllOpenings(t) : Min(AllOpenings(t)) <= o
<1> DEFINE S == AllOpenings(t)
           N == {o - t : o \in S}
           R == OpToRel(<, Nat)
<1>1. \A o \in S : o \in Int /\ o > t
  BY OpeningIs
<1>2. N \subseteq Nat /\ N # {}
  BY <1>1
<1>3. IsWellFoundedOn(R, Nat)
  BY NatLessThanWellFounded
<1>4. \A x, y \in Nat : <<x, y>> \in R <=> x < y
  BY DEF OpToRel
<1> HIDE DEF N, R
<1>5. PICK x \in N : \A y \in N : ~(<<y, x>> \in R)
  BY <1>2, <1>3, WFMin
<1>6. PICK o \in S : x = o - t
  BY <1>5 DEF N
<1>7. ASSUME NEW p \in S PROVE o <= p
  <2>1. p - t \in N
    BY DEF N
  <2>2. ~(p - t < o - t)
    BY <1>2, <1>4, <1>5, <1>6, <2>1
  <2> QED BY <1>1, <2>2
<1> QED BY <1>7 DEF Min

\* The offset of a market, on a day or at a time, is one of the two of its zone.
LEMMA OffsetsNear ==
    ASSUME calendar \in Calendars, NEW m \in Markets, NEW n \in Markets
    PROVE  \A x \in Offsets(calendar, Zone[n]), w \in Offsets(calendar, Zone[m]) :
              x \in Int /\ w \in Int /\ x - w < Day
<1>1. WithinADay(calendar)
  BY CalendarsAssumption DEF CalendarsAssumption
<1> QED BY <1>1 DEF WithinADay, Zones

LEMMA OffsetIs ==
    ASSUME NEW m \in Markets
    PROVE  /\ \A d : OffsetOn(m, d) \in Offsets(calendar, Zone[m])
           /\ \A t : Offset(Zone[m], t) \in Offsets(calendar, Zone[m])
  BY DEF OffsetOn, Offset, Offsets

\* A market opens earlier on an earlier day, whatever the clocks do.
LEMMA EarlierDay ==
    ASSUME calendar \in Calendars, NEW m \in Markets, NEW e \in Int, NEW d \in Int, e <= d
    PROVE  OpeningAt(m, e) <= OpeningAt(m, d)
<1>1. /\ OffsetOn(m, e) \in Int /\ OffsetOn(m, d) \in Int
      /\ OffsetOn(m, d) - OffsetOn(m, e) < 144
  BY OffsetsNear, OffsetIs DEF Day
<1>2. Open[m] \in 0 .. 143
  BY ZoneTypes DEF Day
<1>3. e = d \/ e * 144 + 144 <= d * 144
  OBVIOUS
<1> QED BY <1>1, <1>2, <1>3 DEF OpeningAt, Day

\* Three days are more than what opening times and offsets differ by.
LEMMA MuchLater ==
    ASSUME calendar \in Calendars, NEW m \in Markets, NEW n \in Markets,
           NEW e \in Int, NEW d \in Int, e + 3 <= d
    PROVE  OpeningAt(n, e) <= OpeningAt(m, d)
<1> DEFINE x == OffsetOn(m, d)
           w == OffsetOn(n, e)
           o == Open[m]
           p == Open[n]
<1>1. x \in Int /\ w \in Int /\ x - w < 144
  BY OffsetsNear, OffsetIs DEF Day
<1>2. o \in 0 .. 143 /\ p \in 0 .. 143
  BY ZoneTypes DEF Day
<1>3. OpeningAt(m, d) = d * 144 + o - x /\ OpeningAt(n, e) = e * 144 + p - w
  BY DEF OpeningAt, Day
<1> HIDE DEF x, w, o, p
<1>4. e * 144 + p - w <= d * 144 + o - x
  BY <1>1, <1>2
<1> QED BY <1>3, <1>4

\* Two markets are at most a day apart, the one that is ahead being further east.
LEMMA TodaysNear ==
    ASSUME calendar \in Calendars, NEW m \in Markets, NEW n \in Markets, NEW t \in Int
    PROVE  /\ Today(n, t) <= Today(m, t) + 1
           /\ Today(n, t) > Today(m, t) => Offset(Zone[n], t) > Offset(Zone[m], t)
<1>1. /\ Offset(Zone[n], t) \in Int /\ Offset(Zone[m], t) \in Int
      /\ Offset(Zone[n], t) - Offset(Zone[m], t) < 144
  BY OffsetsNear, OffsetIs DEF Day
<1>2. /\ Today(n, t) \in Int /\ Today(n, t) * 144 <= t + Offset(Zone[n], t)
      /\ t + Offset(Zone[n], t) < Today(n, t) * 144 + 144
  BY LocalType DEF Local, Day
<1>3. /\ Today(m, t) \in Int /\ Today(m, t) * 144 <= t + Offset(Zone[m], t)
      /\ t + Offset(Zone[m], t) < Today(m, t) * 144 + 144
  BY LocalType DEF Local, Day
<1> QED BY <1>1, <1>2, <1>3

\* Of two markets the one that is ahead opens first on each day.
LEMMA EastOpens ==
    ASSUME calendar \in Calendars, NEW m \in Markets, NEW n \in Markets, NEW t \in Int,
           NEW d \in Int, Offset(Zone[n], t) > Offset(Zone[m], t)
    PROVE  OpeningAt(n, d) <= OpeningAt(m, d)
<1>1. EastOpensFirst(calendar)
  BY CalendarsAssumption DEF CalendarsAssumption
<1>2. \/ calendar.before[Zone[n]] > calendar.before[Zone[m]]
      \/ calendar.after[Zone[n]] > calendar.after[Zone[m]]
  BY DEF Offset
<1>3. Open[n] - OffsetOn(n, d) <= Open[m] - OffsetOn(m, d)
  BY <1>1, <1>2, OffsetIs DEF EastOpensFirst
<1>4. OffsetOn(n, d) \in Int /\ OffsetOn(m, d) \in Int
  BY OffsetsNear, OffsetIs
<1>5. Open[m] \in Int /\ Open[n] \in Int
  BY ZoneTypes
<1>6. /\ OpeningAt(n, d) = d * 144 + Open[n] - OffsetOn(n, d)
      /\ OpeningAt(m, d) = d * 144 + Open[m] - OffsetOn(m, d)
  BY DEF OpeningAt, Day
<1>7. d * 144 + Open[n] - OffsetOn(n, d) <= d * 144 + Open[m] - OffsetOn(m, d)
  BY <1>3, <1>4, <1>5
<1> QED BY <1>6, <1>7

\* Whatever market opens first in the coming week, no later opening of any market on a
\* weekday outside the season is before it.
LEMMA NoneBeforeNext ==
    ASSUME calendar \in Calendars, NEW t \in Int, AllOpenings(t) # {},
           NEW m \in Markets, NEW d \in Int, Weekday(d), d \notin calendar.season,
           d * Day + Open[m] > Local(Zone[m], t)
    PROVE  Min(AllOpenings(t)) <= OpeningAt(m, d)
<1> DEFINE first == Min(AllOpenings(t))
           today == Today(m, t)
<1>1. today \in Int /\ today * 144 <= Local(Zone[m], t) /\ Local(Zone[m], t) \in Int
      /\ Local(Zone[m], t) < today * 144 + 144
  BY LocalType DEF Day
<1>2. Open[m] \in 0 .. 143 /\ d * Day + Open[m] = d * 144 + Open[m]
  BY ZoneTypes DEF Day
<1>3. d >= today
  BY <1>1, <1>2
<1>4. CASE d <= today + 7
  BY <1>1, <1>3, <1>4, IsOpening, EarliestOpening DEF OpensOn
<1>5. CASE d > today + 7
  <2>1. first \in Int /\ first \in AllOpenings(t)
    BY EarliestOpening, OpeningIs
  <2>2. PICK n \in Markets, e \in Int : OpensOn(n, e, t) /\ first = OpeningAt(n, e)
    BY <2>1, OpeningIs
  <2>3. e <= today + 8
    BY <1>1, <2>2, TodaysNear, LocalType DEF OpensOn
  <2>4. CASE e <= today
    <3>1. e + 3 <= d
      BY <1>1, <1>5, <2>4
    <3> QED BY <2>2, <3>1, MuchLater
  <2>5. CASE e > today /\ e <= today + 7
    <3>1. OpensOn(m, e, t)
      <4>1. e * 144 + Open[m] > Local(Zone[m], t)
        BY <1>1, <1>2, <2>5
      <4> QED BY <1>1, <2>2, <2>5, <4>1 DEF OpensOn, Day
    <3>2. first <= OpeningAt(m, e)
      BY <3>1, IsOpening, EarliestOpening
    <3>3. OpeningAt(m, e) <= OpeningAt(m, d)
      BY <1>1, <1>5, <2>5, EarlierDay
    <3>4. OpeningAt(m, e) \in Int /\ OpeningAt(m, d) \in Int
      BY <2>2, WeekdayIsNoChange, OpeningInUtc DEF OpensOn
    <3> QED BY <2>1, <3>2, <3>3, <3>4
  <2>6. CASE e = today + 8
    <3>1. Today(n, t) > today
      BY <1>1, <2>2, <2>6, LocalType DEF OpensOn
    <3>2. first <= OpeningAt(m, e)
      BY <2>2, <3>1, TodaysNear, EastOpens
    <3>3. OpeningAt(m, e) <= OpeningAt(m, d)
      BY <1>1, <1>5, <2>6, EarlierDay
    <3>4. OpeningAt(m, e) \in Int /\ OpeningAt(m, d) \in Int
      BY <2>2, WeekdayIsNoChange, OpeningInUtc DEF OpensOn
    <3> QED BY <2>1, <3>2, <3>3, <3>4
  <2> QED BY <1>1, <2>3, <2>4, <2>5, <2>6
<1> QED BY <1>1, <1>4, <1>5

\* NextStart is ten minutes before an opening.
LEMMA NextStartIs ==
    ASSUME calendar \in Calendars, NEW t \in Int, NextStart(t) # None
    PROVE  /\ ~AnyMarketOpen(t) /\ AllOpenings(t) # {}
           /\ NextStart(t) = Min(AllOpenings(t)) - Lead
           /\ Min(AllOpenings(t)) \in AllOpenings(t)
           /\ NextStart(t) \in Int /\ NextStart(t) >= t
<1>1. /\ ~AnyMarketOpen(t) /\ AllOpenings(t) # {}
      /\ NextStart(t) = Min(AllOpenings(t)) - Lead
  BY DEF NextStart
<1>2. Min(AllOpenings(t)) \in AllOpenings(t)
  BY <1>1, EarliestOpening
<1>3. Min(AllOpenings(t)) \in Int /\ Min(AllOpenings(t)) > t
  BY <1>2, OpeningIs
<1> QED BY <1>1, <1>2, <1>3 DEF Lead

\* In the zone of a market, the hours of a day are one interval.
LEMMA HoursAre ==
    ASSUME calendar \in Calendars, NEW m \in Markets, NEW t \in Int
    PROVE  WithinHours(m, Zone[m], t) <=>
              /\ Weekday(Today(m, t))
              /\ Today(m, t) * Day + Open[m] <= Local(Zone[m], t)
              /\ Local(Zone[m], t) <= Today(m, t) * Day + Close[m]
<1> DEFINE l == Local(Zone[m], t)
           o == Open[m]
           c == Close[m]
           d == DayOf(l)
           day == d * 144
<1>1. l \in Int /\ d \in Int /\ TimeOf(l) = l - day
  BY LocalType, DayIs DEF Today, Day
<1>2. o \in Int /\ c \in Int
  BY ZoneTypes
<1>3. day \in Int
  BY <1>1
<1>4. /\ WithinHours(m, Zone[m], t) <=> Weekday(d) /\ o <= TimeOf(l) /\ TimeOf(l) <= c
      /\ Today(m, t) * Day + Open[m] = day + o /\ Today(m, t) * Day + Close[m] = day + c
      /\ Today(m, t) = d
  BY DEF WithinHours, Today, Day
<1> HIDE DEF l, o, c, d, day
<1>5. /\ o <= TimeOf(l) <=> day + o <= l
      /\ TimeOf(l) <= c <=> l <= day + c
  BY <1>1, <1>2, <1>3
<1> QED BY <1>4, <1>5 DEF l

\* A market is open on a day from its opening on, as long as it is not past its close.
LEMMA OpenSince ==
    ASSUME calendar \in Calendars, NEW m \in Markets, NEW t \in Int, NEW u \in Int, t <= u,
           NEW d \in Int, d = Today(m, u), Weekday(d),
           d * Day + Open[m] <= Local(Zone[m], t),
           Local(Zone[m], u) <= d * Day + Close[m]
    PROVE  Today(m, t) = d /\ WithinHours(m, Zone[m], t)
<1> DEFINE W == ChangeDay(m)
           c == calendar.change
           a == calendar.after[Zone[m]]
           b == calendar.before[Zone[m]]
           o == Open[m]
           e == Close[m]
           l == Local(Zone[m], t)
           k == Local(Zone[m], u)
<1>1. /\ W \in Int /\ c \in Int /\ a \in Int /\ b \in Int /\ o \in 0 .. 143 /\ e \in Int
      /\ W * 144 <= c + b /\ W * 144 <= c + a /\ c + b < W * 144 + 144 /\ c + a < W * 144 + 144
  BY ZoneTypes DEF Day
<1>2. d # W
  BY WeekdayIsNoChange
<1>3. l = t + (IF t < c THEN b ELSE a) /\ k = u + (IF u < c THEN b ELSE a)
  BY DEF Local, Offset
<1>4. d * 144 <= k /\ k < d * 144 + 144
  BY LocalType DEF Day
<1>5. d * 144 + o <= l /\ k <= d * 144 + e
  BY DEF Day
<1> HIDE DEF W, c, a, b, o, e, l, k
<1>6. l <= k
  <2>1. CASE t < c /\ u >= c
    <3>1. d < W
      BY <1>1, <1>2, <1>3, <1>5, <2>1
    <3>2. d > W
      BY <1>1, <1>2, <1>3, <1>4, <2>1
    <3> QED BY <1>1, <3>1, <3>2
  <2>2. CASE t < c /\ u < c
    BY <1>1, <1>3, <2>2
  <2>3. CASE t >= c
    BY <1>1, <1>3, <2>3
  <2> QED BY <1>1, <2>1, <2>2, <2>3
<1>7. l \in Int /\ d * 144 <= l /\ l < d * 144 + 144
  BY <1>1, <1>3, <1>4, <1>5, <1>6
<1>8. Today(m, t) = d
  BY <1>7, DayIsOf DEF Today, Day, l
<1>9. l <= d * 144 + e
  BY <1>1, <1>3, <1>5, <1>6
<1> QED BY <1>8, <1>9, HoursAre DEF l, e, Day

-----------------------------------------------------------------------------
(* Sleeping *)

\* The end of a sleep is the next start at the time it began.
SleepInv ==
    phase = "asleep" => \E t \in First .. now : NextStart(t) # None /\ wake = NextStart(t)

SessionInv == SessionTypeOK /\ SleepInv

LEMMA NextStartKept ==
    ASSUME calendar' = calendar
    PROVE  \A t : NextStart(t)' = NextStart(t)
  BY DEF NextStart, AnyMarketOpen, AllOpenings, WithinHours, IsHoliday, Openings, Local,
         Offset, ToUtc

LEMMA SessionStep == ASSUME SessionInv, [SessionNext]_sessionVars PROVE SessionInv'
<1> USE TimesAssumption, NoStartAssumption DEF TimesAssumption, NoStartAssumption
<1>0. /\ calendar \in Calendars /\ now \in First .. Last /\ now \in Int
      /\ phase \in {"start", "asleep", "login", "running"}
      /\ wake # None <=> phase = "asleep"
      /\ wake # None => wake \in Int /\ now <= wake
  BY DEF SessionInv, SessionTypeOK
<1>1. CASE Sleep
  <2>1. NextStart(now) # None /\ NextStart(now) \in Int /\ now <= NextStart(now)
    BY <1>0, <1>1, NextStartIs DEF Sleep
  <2>2. SessionTypeOK'
    BY <1>0, <1>1, <2>1 DEF Sleep, SessionTypeOK
  <2>3. SleepInv'
    <3>1. \A t : NextStart(t)' = NextStart(t)
      BY <1>1, NextStartKept DEF Sleep
    <3>2. now \in First .. now' /\ NextStart(now) # None /\ wake' = NextStart(now)
      BY <1>0, <1>1 DEF Sleep
    <3> QED BY <3>1, <3>2 DEF SleepInv
  <2> QED BY <2>2, <2>3 DEF SessionInv
<1>2. CASE StartNow \/ Wake \/ LogsIn \/ Again
  BY <1>0, <1>2 DEF StartNow, Wake, LogsIn, Again, SessionInv, SessionTypeOK, SleepInv
<1>3. CASE Elapse
  <2>1. SessionTypeOK'
    BY <1>0, <1>3 DEF Elapse, SessionTypeOK
  <2>2. SleepInv'
    <3>1. SUFFICES ASSUME phase = "asleep"
                   PROVE  \E t \in First .. now' : NextStart(t)' # None /\ wake' = NextStart(t)'
      BY <1>3 DEF Elapse, SleepInv
    <3>2. PICK t \in First .. now : NextStart(t) # None /\ wake = NextStart(t)
      BY <3>1 DEF SessionInv, SleepInv
    <3>3. NextStart(t)' = NextStart(t)
      BY <1>3, NextStartKept DEF Elapse
    <3>4. t \in First .. now' /\ wake' = wake
      BY <1>0, <1>3 DEF Elapse
    <3> QED BY <3>2, <3>3, <3>4
  <2> QED BY <2>1, <2>2 DEF SessionInv
<1>4. CASE UNCHANGED sessionVars
  <2>1. \A t : NextStart(t)' = NextStart(t)
    BY <1>4, NextStartKept DEF sessionVars
  <2>2. SleepInv'
    BY <1>4, <2>1 DEF sessionVars, SessionInv, SleepInv
  <2> QED BY <1>4, <2>2 DEF sessionVars, SessionInv, SessionTypeOK
<1> QED BY <1>1, <1>2, <1>3, <1>4 DEF SessionNext

LEMMA SessionInvariant == SessionSpec => []SessionInv
<1>1. SessionInit => SessionInv
  BY TimesAssumption, NoStartAssumption
     DEF TimesAssumption, NoStartAssumption, SessionInit, SessionInv, SessionTypeOK, SleepInv
<1> QED BY <1>1, SessionStep, PTL DEF SessionSpec

\* The session's types; a sleep never ends in the past.
THEOREM SessionTypes == SessionSpec => []SessionTypeOK
<1>1. SessionInv => SessionTypeOK
  BY DEF SessionInv
<1> QED BY <1>1, SessionInvariant, PTL

\* Whatever the clocks do, the streamer does not sleep while a market trades, nor in the ten
\* minutes before, the markets aside whose hours are in another zone.
THEOREM Awake == SessionSpec => []AwakeForOpenMarkets
<1>1. SessionInv => AwakeForOpenMarkets
  <2>1. SUFFICES ASSUME SessionInv, phase = "asleep", now < wake, NEW m \in Markets,
                        NEW u \in {now, now + Lead}, IsMarketOpen(m, u), Zone[m] = HoursZone[m]
                 PROVE  FALSE
    BY DEF AwakeForOpenMarkets
  <2>2. PICK t \in First .. now : NextStart(t) # None /\ wake = NextStart(t)
    BY <2>1 DEF SessionInv, SleepInv
  <2>3. calendar \in Calendars /\ now \in Int /\ t \in Int /\ u \in Int /\ t <= u /\ u <= now + 1
    BY <2>1, TimesAssumption DEF TimesAssumption, SessionInv, SessionTypeOK, Lead
  <2> DEFINE d == Today(m, u)
             first == Min(AllOpenings(t))
  <2>4. d \in Int
    BY <2>3, LocalType
  <2>5. /\ Weekday(d) /\ d * Day + Open[m] <= Local(Zone[m], u)
        /\ Local(Zone[m], u) <= d * Day + Close[m]
    BY <2>1, <2>3, HoursAre DEF IsMarketOpen
  <2>6. d \notin calendar.season \union calendar.holidays[m]
    BY <2>1 DEF IsMarketOpen, IsHoliday, Today
  <2>7. /\ ~AnyMarketOpen(t) /\ AllOpenings(t) # {}
        /\ wake = first - 1 /\ first \in Int
    <3>1. NextStart(t) \in Int /\ NextStart(t) = first - 1 /\ first \in AllOpenings(t)
      BY <2>2, <2>3, NextStartIs DEF Lead
    <3>2. first \in Int
      BY <2>3, <3>1, OpeningIs
    <3> QED BY <2>2, <2>3, <3>1, <3>2, NextStartIs
  <2>8. d # ChangeDay(m)
    BY <2>3, <2>4, <2>5, WeekdayIsNoChange
  <2>9. OpeningAt(m, d) \in Int /\ OpeningAt(m, d) <= u
    BY <2>3, <2>4, <2>5, <2>8, OpeningInUtc, OpeningOrder
  <2>10. CASE d * Day + Open[m] > Local(Zone[m], t)
    <3>1. first <= OpeningAt(m, d)
      BY <2>3, <2>4, <2>5, <2>6, <2>7, <2>10, NoneBeforeNext
    <3> QED BY <2>1, <2>3, <2>7, <2>9, <3>1
  <2>11. CASE d * Day + Open[m] <= Local(Zone[m], t)
    <3>1. Today(m, t) = d /\ WithinHours(m, Zone[m], t)
      BY <2>3, <2>4, <2>5, <2>11, OpenSince
    <3>2. ~IsHoliday(m, t)
      BY <2>6, <3>1 DEF IsHoliday, Today
    <3> QED BY <2>7, <3>1, <3>2 DEF AnyMarketOpen
  <2>12. d * Day + Open[m] \in Int /\ Local(Zone[m], t) \in Int
    <3>1. Open[m] \in Int /\ d * Day \in Int
      BY <2>3, <2>4, ZoneTypes DEF Day
    <3> QED BY <2>3, <3>1, LocalType
  <2> QED BY <2>10, <2>11, <2>12
<1> QED BY <1>1, SessionInvariant, PTL

-----------------------------------------------------------------------------
(* Starting *)

\* At an opening the market is within its hours, on a day outside the season.
LEMMA OpenAtOpening ==
    ASSUME calendar \in Calendars, NEW t \in Int, NEW o \in AllOpenings(t)
    PROVE  \E m \in Markets :
              WithinHours(m, Zone[m], o) /\ Today(m, o) \notin calendar.season
<1>1. o \in Int
  BY OpeningIs
<1>2. PICK m \in Markets, d \in Int : OpensOn(m, d, t) /\ o = OpeningAt(m, d)
  BY OpeningIs
<1>3. Weekday(d) /\ d \notin calendar.season
  BY <1>2 DEF OpensOn
<1>4. Local(Zone[m], o) = d * Day + Open[m]
  BY <1>2, <1>3, WeekdayIsNoChange, OpeningInUtc
<1> DEFINE l == Local(Zone[m], o)
           p == Open[m]
           c == Close[m]
<1>5. p \in 0 .. 143 /\ c \in Int /\ p <= c
  BY ZoneTypes DEF Day
<1>6. l = d * 144 + p
  BY <1>4 DEF Day
<1> HIDE DEF l, p, c
<1>7. l \in Int /\ d * 144 <= l /\ l < d * 144 + 144 /\ d * 144 + p <= l /\ l <= d * 144 + c
  BY <1>5, <1>6
<1>8. Today(m, o) = d
  BY <1>7, DayIsOf DEF Today, Day, l
<1> QED BY <1>1, <1>3, <1>7, <1>8, HoursAre DEF l, p, c, Day

\* The zone of a market's hours is ahead of the market's, so little that it opens on the
\* same day in both, whatever the clocks do.
LEMMA SameDay ==
    ASSUME calendar \in Calendars, NEW m \in Markets, NEW u \in Int,
           WithinHours(m, HoursZone[m], u)
    PROVE  /\ Weekday(Today(m, u))
           /\ Local(Zone[m], u) <= Today(m, u) * Day + Close[m]
           /\ \A w \in Offsets(calendar, Zone[m]) : Today(m, u) * Day <= u + w
<1> DEFINE h == Offset(HoursZone[m], u)
           z == Offset(Zone[m], u)
           l == u + h
           d == DayOf(l)
           o == Open[m]
           c == Close[m]
<1>1. HoursAhead(calendar) /\ WithinADay(calendar)
  BY CalendarsAssumption DEF CalendarsAssumption
<1>2. h \in Offsets(calendar, HoursZone[m]) /\ z \in Offsets(calendar, Zone[m])
  BY DEF Offset, Offsets
<1>3. h \in Int /\ z \in Int
  BY <1>1, <1>2 DEF WithinADay, Zones
<1>4. z <= h
  BY <1>1 DEF HoursAhead, Offset
<1>5. \A w \in Offsets(calendar, Zone[m]) : w \in Int /\ h - w <= o
  BY <1>1, <1>2 DEF HoursAhead, WithinADay, Zones
<1>6. o \in 0 .. 143 /\ c \in Int
  BY ZoneTypes DEF Day
<1>7. Weekday(d) /\ o <= TimeOf(l) /\ TimeOf(l) <= c
  BY DEF WithinHours, Local
<1>8. l \in Int
  BY <1>3
<1>9. d \in Int /\ d * 144 <= l /\ l < d * 144 + 144 /\ TimeOf(l) = l - d * 144
  BY <1>8, DayIs DEF Day
<1>10. Local(Zone[m], u) = u + z
  BY DEF Local
<1> HIDE DEF h, z, d, o, c
<1>11. h - z <= o
  BY <1>2, <1>5
<1>12. d * 144 <= u + z /\ u + z < d * 144 + 144 /\ u + z <= d * 144 + c /\ u + z \in Int
  BY <1>3, <1>4, <1>6, <1>7, <1>9, <1>11
<1>13. Today(m, u) = d
  BY <1>9, <1>10, <1>12, DayIsOf DEF Today, Day
<1>14. ASSUME NEW w \in Offsets(calendar, Zone[m])
       PROVE  d * 144 <= u + w
  BY <1>3, <1>5, <1>6, <1>7, <1>9, <1>14
<1> QED BY <1>7, <1>10, <1>12, <1>13, <1>14 DEF z, c, Day

\* When nothing is open and nothing opens within a week, there are no hours in that week.
LEMMA NothingInAWeek ==
    ASSUME calendar \in Calendars, NEW t \in Int, ~AnyMarketOpen(t), AllOpenings(t) = {},
           NEW m \in Markets, NEW k \in 1 .. Week * Day
    PROVE  ~IsMarketOpen(m, t + k)
<1> DEFINE u == t + k
           d == Today(m, u)
<1> SUFFICES ASSUME IsMarketOpen(m, u) PROVE FALSE
  OBVIOUS
<1>1. u \in Int /\ t <= u /\ u <= t + 1008 /\ d \in Int
  BY LocalType DEF Week, Day
<1>2. /\ Weekday(d) /\ Local(Zone[m], u) <= d * Day + Close[m]
      /\ d * 144 <= u + Offset(Zone[m], t)
  BY <1>1, SameDay, OffsetIs DEF IsMarketOpen, Day
<1>3. d \notin calendar.season \union calendar.holidays[m]
  BY DEF IsMarketOpen, IsHoliday, Today
<1>4. Open[m] \in 0 .. 143 /\ d * Day + Open[m] = d * 144 + Open[m]
  BY ZoneTypes DEF Day
<1> HIDE DEF u, d
<1>5. CASE d * Day + Open[m] > Local(Zone[m], t)
  <2>1. /\ Today(m, t) \in Int /\ Local(Zone[m], t) \in Int
        /\ Today(m, t) * 144 <= Local(Zone[m], t)
        /\ Local(Zone[m], t) < Today(m, t) * 144 + 144
        /\ Local(Zone[m], t) = t + Offset(Zone[m], t) /\ Offset(Zone[m], t) \in Int
    BY LocalType, OffsetsNear, OffsetIs DEF Local, Day
  <2>2. Today(m, t) <= d
    BY <1>1, <1>4, <1>5, <2>1
  <2>3. d <= Today(m, t) + 7
    BY <1>1, <1>2, <2>1
  <2>4. OpensOn(m, d, t)
    BY <1>1, <1>2, <1>3, <1>5, <2>1, <2>2, <2>3 DEF OpensOn
  <2> QED BY <1>1, <2>4, IsOpening
<1>6. CASE d * Day + Open[m] <= Local(Zone[m], t)
  <2>1. Today(m, t) = d /\ WithinHours(m, Zone[m], t)
    BY <1>1, <1>2, <1>6, OpenSince DEF d
  <2>2. ~IsHoliday(m, t)
    BY <1>3, <2>1 DEF IsHoliday, Today
  <2> QED BY <2>1, <2>2 DEF AnyMarketOpen
<1>7. d * Day + Open[m] \in Int /\ Local(Zone[m], t) \in Int
  BY <1>1, <1>4, LocalType
<1> QED BY <1>5, <1>6, <1>7

\* Streaming starts for a market that is open or about to be, or because none opens within a
\* week, whatever the clocks do.
THEOREM Starts == SessionSpec => StartsForAnOpening
<1>1. ASSUME SessionInv, SessionNext, phase # "login", phase' = "login"
      PROVE  ReasonToStream
  <2>1. calendar \in Calendars /\ now \in Int
    BY <1>1, TimesAssumption DEF TimesAssumption, SessionInv, SessionTypeOK
  <2>2. ASSUME NEW t \in Int, now + 1 \in AllOpenings(t)
        PROVE  ReasonToStream
    BY <2>1, <2>2, OpenAtOpening DEF Lead, Today, ReasonToStream
  <2>3. CASE Wake
    <3>1. PICK t \in First .. now : NextStart(t) # None /\ wake = NextStart(t)
      BY <1>1, <2>3 DEF Wake, SessionInv, SleepInv
    <3>2. t \in Int
      BY <3>1, TimesAssumption DEF TimesAssumption
    <3>3. /\ now = Min(AllOpenings(t)) - 1 /\ Min(AllOpenings(t)) \in AllOpenings(t)
          /\ Min(AllOpenings(t)) \in Int
      BY <2>1, <2>3, <3>1, <3>2, NextStartIs, OpeningIs DEF Wake, Lead
    <3>4. Min(AllOpenings(t)) = now + 1
      BY <3>3
    <3> QED BY <2>2, <3>2, <3>3, <3>4
  <2>4. CASE StartNow
    <3>1. CASE NextStart(now) # None
      <4>1. /\ Min(AllOpenings(now)) \in AllOpenings(now)
            /\ NextStart(now) = Min(AllOpenings(now)) - 1
            /\ NextStart(now) >= now /\ NextStart(now) <= now
        BY <2>1, <2>4, <3>1, NextStartIs DEF StartNow, Lead
      <4>2. Min(AllOpenings(now)) \in Int
        BY <2>1, <4>1, OpeningIs
      <4>3. Min(AllOpenings(now)) = now + 1
        BY <2>1, <4>1, <4>2
      <4> QED BY <2>1, <2>2, <4>1, <4>3
    <3>2. CASE AnyMarketOpen(now)
      BY <3>2 DEF AnyMarketOpen, IsHoliday, ReasonToStream
    <3>3. CASE ~AnyMarketOpen(now) /\ AllOpenings(now) = {}
      BY <2>1, <3>3, NothingInAWeek DEF ReasonToStream
    <3>4. CASE ~AnyMarketOpen(now) /\ AllOpenings(now) # {} /\ NextStart(now) = None
      <4>1. Min(AllOpenings(now)) \in Int
        BY <2>1, <3>4, EarliestOpening, OpeningIs
      <4>2. None \in Int
        BY <3>4, <4>1 DEF NextStart, Lead
      <4> QED BY <4>2, NoStartAssumption DEF NoStartAssumption
    <3> QED BY <3>1, <3>2, <3>3, <3>4
  <2> QED BY <1>1, <2>3, <2>4 DEF SessionNext, Sleep, LogsIn, Again, Elapse
<1>2. SessionInv /\ [SessionNext]_sessionVars
        => [phase # "login" /\ phase' = "login" => ReasonToStream]_sessionVars
  BY <1>1
<1> QED BY <1>2, SessionInvariant, PTL DEF StartsForAnOpening, SessionSpec

-----------------------------------------------------------------------------
(* The supervisors *)

USE BackoffAssumption, StoreAssumption, NoneAssumption, MuteAssumption
  DEF BackoffAssumption, StoreAssumption, NoneAssumption, MuteAssumption

-----------------------------------------------------------------------------
(* The parts of the type invariant: what the supervisors count, what the processes are, and *)
(* the tokens. *)

CountTypes ==
    /\ pc \in [Markets -> {"idle", "login", "run"}]
    /\ backoff \in [Markets -> InitialBackoff .. MaxBackoff]
    /\ fails \in [Markets -> 0 .. ReauthAfter]
    /\ onLogin \in [Markets -> Nat]
    /\ alerted \subseteq Markets

ProcessTypes ==
    /\ link \in [Markets -> Links]
    /\ aged \in [Markets -> BOOLEAN] /\ reading \in [Markets -> BOOLEAN]

TokenTypes ==
    /\ cached \in Tokens /\ store \in Tokens
    /\ creds \in [Markets -> Tokens]

\* There is a process exactly while its supervisor waits for it, and only a process ages.
Running ==
    \A m \in Markets : /\ link[m] # "none" <=> pc[m] = "run"
                       /\ aged[m] => pc[m] = "run"

Types == CountTypes /\ ProcessTypes /\ TokenTypes /\ Running

LEMMA TypesOfInit == Init => Types
<1> SUFFICES ASSUME Init PROVE Types
  OBVIOUS
<1>1. CountTypes
  BY DEF Init, CountTypes, ReauthAfter
<1>2. ProcessTypes
  BY DEF Init, ProcessTypes, Links
<1>3. TokenTypes
  BY DEF Init, TokenTypes, Tokens
<1>4. Running
  BY DEF Init, Running
<1> QED BY <1>1, <1>2, <1>3, <1>4 DEF Types

\* The end of an attempt keeps the types.
LEMMA AttemptEndsTypes ==
    ASSUME Types, NEW m \in Markets, AttemptEnds(m)
    PROVE  /\ CountTypes' /\ ProcessTypes' /\ Running'
           /\ creds' \in [Markets -> Tokens]
<1> USE DEF Types
<1>1. /\ pc' \in [Markets -> {"idle", "login", "run"}]
      /\ creds' \in [Markets -> Tokens]
  BY DEF AttemptEnds, CountTypes, TokenTypes, Tokens
<1>2. ProcessTypes'
  BY DEF AttemptEnds, ProcessTypes, Links
<1>3. Running'
  BY DEF AttemptEnds, Running, CountTypes, ProcessTypes
<1>4. Doubled(backoff[m]) \in InitialBackoff .. MaxBackoff
  BY DEF Doubled, CountTypes
<1>5. /\ backoff' \in [Markets -> InitialBackoff .. MaxBackoff]
      /\ fails' \in [Markets -> 0 .. ReauthAfter]
      /\ onLogin' \in [Markets -> Nat]
      /\ alerted' \subseteq Markets
  <2>1. CASE Healthy(m)
    BY <2>1 DEF AttemptEnds, AfterHealthy, CountTypes, ReauthAfter
  <2>2. CASE ~Healthy(m)
    BY <1>4, <2>2 DEF AttemptEnds, AfterFailure, CountTypes, ReauthAfter
  <2> QED BY <2>1, <2>2
<1> QED BY <1>1, <1>2, <1>3, <1>5 DEF CountTypes

\* So does the start of a process.
LEMMA SpawnTypes ==
    ASSUME Types, NEW m \in Markets, pc[m] = "login", NEW t \in Tokens,
           NEW tries \in [Markets -> Nat], Spawn(m, t, tries)
    PROVE  CountTypes' /\ ProcessTypes' /\ Running' /\ creds' \in [Markets -> Tokens]
<1> USE DEF Types
<1>1. CountTypes'
  <2>1. fails' \in [Markets -> 0 .. ReauthAfter]
    BY DEF Spawn, CountTypes, ReauthAfter
  <2>2. onLogin' \in [Markets -> Nat]
    BY DEF Spawn, CountTypes, OnceMore
  <2> QED BY <2>1, <2>2 DEF Spawn, CountTypes
<1>2. ProcessTypes'
  BY DEF Spawn, ProcessTypes, Links
<1>3. Running'
  BY DEF Spawn, Running, CountTypes, ProcessTypes
<1> QED BY <1>1, <1>2, <1>3 DEF Spawn, TokenTypes

\* And a change of the link of a process, or of its age.
LEMMA NodeTypes ==
    ASSUME Types, NEW m \in Markets,
           Connects(m) \/ GoesMute(m) \/ LosesConnection(m) \/ PassesThreshold(m)
             \/ PublishFails(m) \/ PipeFills(m)
    PROVE  Types'
<1>1. /\ link' \in [Markets -> Links]
      /\ \A n \in Markets : link'[n] # "none" <=> link[n] # "none"
  BY DEF Types, ProcessTypes, Links, Connects, GoesMute, LosesConnection, PassesThreshold,
         PublishFails, PipeFills, LinkBecomes
<1>2. /\ aged' \in [Markets -> BOOLEAN]
      /\ \A n \in Markets : aged'[n] => aged[n] \/ link[n] # "none"
  BY DEF Types, ProcessTypes, Connects, GoesMute, LosesConnection, PassesThreshold,
         PublishFails, PipeFills, LinkBecomes
<1>3. reading' \in [Markets -> BOOLEAN]
  BY DEF Types, ProcessTypes, Connects, GoesMute, LosesConnection, PassesThreshold,
         PublishFails, PipeFills, LinkBecomes, AfterPublishError
<1>4. UNCHANGED <<cached, store, pc, backoff, fails, alerted, creds, onLogin>>
  BY DEF Connects, GoesMute, LosesConnection, PassesThreshold, PublishFails, PipeFills,
         LinkBecomes
<1>5. Running'
  BY <1>1, <1>2, <1>4 DEF Types, Running
<1> QED BY <1>1, <1>2, <1>3, <1>4, <1>5 DEF Types, CountTypes, ProcessTypes, TokenTypes

LEMMA TypesStep == ASSUME Types, [Next]_vars PROVE Types'
<1>1. ASSUME NEW m \in Markets, BeginAttempt(m) PROVE Types'
  <2>1. cached' \in Tokens /\ pc' \in [Markets -> {"idle", "login", "run"}]
    BY <1>1 DEF Types, CountTypes, TokenTypes, Tokens, BeginAttempt
  <2>2. Running'
    BY <1>1 DEF Types, CountTypes, Running, BeginAttempt, process
  <2> QED BY <1>1, <2>1, <2>2
        DEF Types, CountTypes, ProcessTypes, TokenTypes, BeginAttempt, process
<1>2. ASSUME NEW m \in Markets, TakeTokens(m) PROVE Types'
  <2>1. CountTypes' /\ ProcessTypes' /\ Running' /\ creds' \in [Markets -> Tokens]
    BY <1>2, SpawnTypes DEF TakeTokens, Types, TokenTypes, CountTypes
  <2> QED BY <1>2, <2>1 DEF Types, TokenTypes, TakeTokens, Spawn
<1>3. ASSUME NEW m \in Markets, LogIn(m) PROVE Types'
  <2>1. cached' \in Tokens
    BY <1>3 DEF LogIn, Types, TokenTypes, Tokens
  <2>2. CountTypes' /\ ProcessTypes' /\ Running' /\ creds' \in [Markets -> Tokens]
    BY <1>3, <2>1, SpawnTypes DEF LogIn
  <2> QED BY <1>3, <2>1, <2>2 DEF Types, TokenTypes, LogIn, Spawn
<1>4. ASSUME NEW m \in Markets, LogInFails(m) PROVE Types'
  BY <1>4, AttemptEndsTypes DEF LogInFails, Types, TokenTypes
<1>5. ASSUME NEW m \in Markets, Exit(m) PROVE Types'
  BY <1>5, AttemptEndsTypes DEF Exit, Types, TokenTypes
<1>6. CASE Expire
  <2>1. cached' \in Tokens /\ store' \in Tokens /\ creds' \in [Markets -> Tokens]
    BY <1>6 DEF Expire, Expired, Types, TokenTypes, Tokens
  <2> QED BY <1>6, <2>1 DEF Expire, Types, CountTypes, ProcessTypes, TokenTypes, Running
<1>7. CASE Renew
  BY <1>7 DEF Renew, process, Types, CountTypes, ProcessTypes, TokenTypes, Running, Tokens
<1>8. CASE UNCHANGED vars
  BY <1>8 DEF vars, process, Types, CountTypes, ProcessTypes, TokenTypes, Running
<1> QED
  BY <1>1, <1>2, <1>3, <1>4, <1>5, <1>6, <1>7, <1>8, NodeTypes
  DEF Next, Supervise, Node, Exits, GivesUp, HeartbeatExpires

LEMMA TypesKept == Spec => []Types
BY TypesOfInit, TypesStep, PTL DEF Spec

\* Every variable of the supervisors and their processes keeps its type.
THEOREM TypeCorrect == Spec => []TypeOK
<1>1. Types => TypeOK
  BY DEF Types, CountTypes, ProcessTypes, TokenTypes, Running, TypeOK
<1> QED BY <1>1, TypesKept, PTL

-----------------------------------------------------------------------------
(* Alerts *)

\* However an attempt ends, its market is among the alerted ones exactly if its backoff is at
\* the cap then.
LEMMA AttemptEndsAlert ==
    ASSUME Types, AlertedExactlyAtCap, NEW m \in Markets, AttemptEnds(m)
    PROVE  AlertedExactlyAtCap'
<1> USE DEF Types, CountTypes, AlertedExactlyAtCap
<1>1. CASE Healthy(m)
  BY <1>1 DEF AttemptEnds, AfterHealthy
<1>2. CASE ~Healthy(m)
  <2>1. /\ backoff' = [backoff EXCEPT ![m] = Doubled(backoff[m])]
        /\ alerted' = IF Doubled(backoff[m]) >= MaxBackoff THEN alerted \union {m} ELSE alerted
    BY <1>2 DEF AttemptEnds, AfterFailure
  <2>2. m \in alerted' <=> Doubled(backoff[m]) = MaxBackoff
    BY <2>1 DEF Doubled
  <2> QED BY <2>1, <2>2
<1> QED BY <1>1, <1>2

\* One alert per outage: a market has been reported exactly while it is at the cap.
THEOREM AlertedOnce == Spec => []AlertedExactlyAtCap
<1>1. Init => AlertedExactlyAtCap
  <2> SUFFICES ASSUME Init, NEW m \in Markets PROVE m \in alerted <=> backoff[m] = MaxBackoff
    BY DEF AlertedExactlyAtCap
  <2>1. alerted = {} /\ backoff[m] = InitialBackoff /\ InitialBackoff # MaxBackoff
    BY DEF Init
  <2> QED BY <2>1
<1>2. ASSUME Types, AlertedExactlyAtCap, [Next]_vars PROVE AlertedExactlyAtCap'
  <2>1. ASSUME NEW m \in Markets, LogInFails(m) \/ Exit(m) PROVE AlertedExactlyAtCap'
    BY <1>2, <2>1, AttemptEndsAlert DEF LogInFails, Exit
  <2>2. CASE UNCHANGED <<backoff, alerted>>
    BY <1>2, <2>2 DEF AlertedExactlyAtCap
  <2> QED BY <1>2, <2>1, <2>2
        DEF Next, Supervise, Node, BeginAttempt, TakeTokens, LogIn, Spawn, Exits, GivesUp,
            HeartbeatExpires, Connects, GoesMute, LosesConnection, PassesThreshold,
            PublishFails, PipeFills, LinkBecomes, Expire, Renew, vars
<1> QED BY <1>1, <1>2, TypesKept, PTL DEF Spec

-----------------------------------------------------------------------------
(* Logins *)

\* The trader logs in on its own or shares a session for good.  A market's tries on a login
\* are counted among its failures, the one that runs now aside; a market that is due for a
\* login drops the tokens it finds, so what it finds after that is a login it has not tried.
TriesInv ==
    /\ store # None => \A m \in Markets : onLogin[m] = 0
    /\ \A m \in Markets :
          /\ onLogin[m] <= fails[m] + (IF pc[m] = "run" THEN 1 ELSE 0)
          /\ pc[m] = "run" => fails[m] < ReauthAfter
          /\ pc[m] = "login" /\ ReauthDue(m) /\ cached # None => onLogin[m] = 0

LEMMA AttemptEndsTries ==
    ASSUME Types, TriesInv, NEW m \in Markets, AttemptEnds(m), UNCHANGED <<cached, store>>
    PROVE  TriesInv'
<1> USE DEF Types, CountTypes, ReauthAfter, ReauthDue
<1>1. pc' = [pc EXCEPT ![m] = "idle"]
  BY DEF AttemptEnds
<1>2. CASE Healthy(m)
  BY <1>1, <1>2 DEF AttemptEnds, AfterHealthy, TriesInv
<1>3. CASE ~Healthy(m)
  <2>1. /\ fails' = [fails EXCEPT ![m] = IF @ < ReauthAfter THEN @ + 1 ELSE @]
        /\ onLogin' = onLogin
    BY <1>3 DEF AttemptEnds, AfterFailure
  <2>2. onLogin[m] <= fails'[m]
    BY <2>1 DEF TriesInv
  <2> QED BY <1>1, <2>1, <2>2 DEF TriesInv
<1> QED BY <1>2, <1>3

LEMMA SpawnTries ==
    ASSUME Types, TriesInv, NEW m \in Markets, pc[m] = "login", NEW t,
           NEW tries \in [Markets -> Nat], Spawn(m, t, tries),
           \/ cached' = cached /\ cached # None /\ tries = onLogin
           \/ \A n \in Markets : tries[n] = 0
    PROVE  TriesInv'
<1> USE DEF Types, CountTypes, ReauthAfter, ReauthDue
<1>1. pc' = [pc EXCEPT ![m] = "run"] /\ store' = store
  BY DEF Spawn
<1>2. CASE store # None
  BY <1>1, <1>2 DEF Spawn, TriesInv
<1>3. CASE store = None
  <2>0. /\ ReauthDue(m) => tries[m] = 0
        /\ \A n \in Markets : tries[n] <= onLogin[n]
    BY DEF TriesInv
  <2>1. /\ onLogin' = [tries EXCEPT ![m] = OnceMore(@)]
        /\ fails' = IF fails[m] >= ReauthAfter THEN [fails EXCEPT ![m] = 0] ELSE fails
    BY <1>3 DEF Spawn
  <2>2. fails'[m] < ReauthAfter /\ onLogin'[m] <= fails'[m] + 1
    <3>1. onLogin'[m] \in Nat /\ onLogin'[m] <= tries[m] + 1
      BY <2>1 DEF OnceMore
    <3>2. CASE ReauthDue(m)
      BY <2>0, <2>1, <3>1, <3>2
    <3>3. CASE ~ReauthDue(m)
      BY <2>0, <2>1, <3>1, <3>3 DEF TriesInv
    <3> QED BY <3>2, <3>3
  <2>3. ASSUME NEW n \in Markets, n # m
        PROVE  /\ onLogin'[n] = tries[n] /\ fails'[n] = fails[n] /\ pc'[n] = pc[n]
    BY <1>1, <2>1, <2>3
  <2> QED BY <1>1, <1>3, <2>0, <2>2, <2>3 DEF TriesInv
<1> QED BY <1>2, <1>3

LEMMA TriesStep == ASSUME Types, TriesInv, [Next]_vars PROVE TriesInv'
<1>1. ASSUME NEW m \in Markets, BeginAttempt(m) PROVE TriesInv'
  BY <1>1 DEF BeginAttempt, TriesInv, Types, CountTypes, ReauthDue, ReauthAfter
<1>2. ASSUME NEW m \in Markets, TakeTokens(m) PROVE TriesInv'
  BY <1>2, SpawnTries DEF TakeTokens, Types, CountTypes
<1>3. ASSUME NEW m \in Markets, LogIn(m) PROVE TriesInv'
  <2> DEFINE none == [n \in Markets |-> 0]
             t == cached'
  <2>1. none \in [Markets -> Nat] /\ \A n \in Markets : none[n] = 0
    OBVIOUS
  <2>2. pc[m] = "login" /\ Spawn(m, t, none)
    BY <1>3 DEF LogIn
  <2> HIDE DEF none, t
  <2> QED BY <1>3, <2>1, <2>2, SpawnTries
<1>4. ASSUME NEW m \in Markets, LogInFails(m) \/ Exit(m) PROVE TriesInv'
  BY <1>4, AttemptEndsTries DEF LogInFails, Exit
<1>5. CASE Expire
  BY <1>5 DEF Expire, Expired, TriesInv, ReauthDue
<1>6. CASE Renew
  BY <1>6 DEF Renew, TriesInv, ReauthDue
<1>7. CASE UNCHANGED <<cached, store, pc, fails, onLogin>>
  BY <1>7 DEF TriesInv, ReauthDue
<1> QED
  BY <1>1, <1>2, <1>3, <1>4, <1>5, <1>6, <1>7
  DEF Next, Supervise, Node, Exits, GivesUp, HeartbeatExpires, Connects, GoesMute,
      LosesConnection, PassesThreshold, PublishFails, PipeFills, LinkBecomes, vars

\* No market is started more than three times in a row on one login without a healthy run,
\* for any number of markets that share the tokens.
THEOREM ThriceAtMost == Spec => []LoginTriedThrice
<1>1. Init => TriesInv
  BY DEF Init, TriesInv, ReauthDue, ReauthAfter
<1>2. Types /\ TriesInv => LoginTriedThrice
  <2> SUFFICES ASSUME Types, TriesInv, NEW m \in Markets PROVE onLogin[m] <= ReauthAfter
    BY DEF LoginTriedThrice
  <2>1. CASE store # None
    BY <2>1 DEF TriesInv, ReauthAfter
  <2>2. CASE store = None
    BY <2>2 DEF TriesInv, Types, CountTypes, ReauthAfter
  <2> QED BY <2>1, <2>2
<1> QED BY <1>1, <1>2, TriesStep, TypesKept, PTL DEF Spec
=============================================================================
