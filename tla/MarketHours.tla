------------------------------ MODULE MarketHours ------------------------------
(***************************************************************************)
(* When markets trade, and when the streamer should run for them           *)
(* (src/app/services/market_status.py over src/app/core/markets.py).       *)
(*                                                                         *)
(* Time is in units of ten minutes since the start, UTC, of a Monday, day  *)
(* 0.  A zone's offset changes once at most, at `change`: the clocks       *)
(* change at the weekend, while every market is closed.                    *)
(***************************************************************************)
EXTENDS MarketConfigs, Integers, FiniteSets, FiniteSetsExt

CONSTANTS
    Zone,       \* the timezone of a market in MARKET_CONFIGS
    HoursZone,  \* the timezone of its hours in _get_market_hours
    Open,       \* its open and
    Close       \* its close there, since midnight

VARIABLE calendar
    \* before, after: the offset of each zone before and after the change, change: its time,
    \* holidays: the public holidays of each market, season: the days of _is_holiday_season

Day == 144
Lead == 1   \* ten minutes
Week == 7

ASSUME HoursAssumption ==
    \A m \in Markets : Open[m] \in 0 .. Day - 1 /\ Close[m] \in Int /\ Open[m] <= Close[m]

Offset(z, t) == IF t < calendar.change THEN calendar.before[z] ELSE calendar.after[z]
Local(z, t) == t + Offset(z, t)
DayOf(local) == local \div Day
TimeOf(local) == local % Day
Weekday(day) == day % Week < 5

\* A local time as UTC.
ToUtc(z, local) ==
    IF local - calendar.after[z] >= calendar.change THEN local - calendar.after[z]
    ELSE local - calendar.before[z]

\* is_holiday looks at the date in the zone of MARKET_CONFIGS.
IsHoliday(m, t) ==
    DayOf(Local(Zone[m], t)) \in calendar.season \union calendar.holidays[m]

\* The hours of a market applied in a zone, both ends included.
WithinHours(m, z, t) ==
    /\ Weekday(DayOf(Local(z, t)))
    /\ Open[m] <= TimeOf(Local(z, t)) /\ TimeOf(Local(z, t)) <= Close[m]

IsMarketOpen(m, t) == ~IsHoliday(m, t) /\ WithinHours(m, HoursZone[m], t)

-----------------------------------------------------------------------------
(* get_next_streaming_start: the hours are applied in the zone of           *)
(* MARKET_CONFIGS here, which for the DAX is not the zone of its hours.     *)

AnyMarketOpen(t) == \E m \in Markets : WithinHours(m, Zone[m], t) /\ ~IsHoliday(m, t)

\* Weekends and the season are not looked at either.
OpeningsOnAnyDay(m, t) ==
    LET today == DayOf(Local(Zone[m], t)) IN
    {ToUtc(Zone[m], d * Day + Open[m]) :
        d \in {e \in today .. today + 7 : e * Day + Open[m] > Local(Zone[m], t)}}
\* The openings of a market in the next days that are on a weekday and not in the season;
\* public holidays are not looked at.
Openings(m, t) ==
    LET today == DayOf(Local(Zone[m], t)) IN
    {ToUtc(Zone[m], d * Day + Open[m]) :
        d \in {e \in today .. today + 7 : Weekday(e) /\ e \notin calendar.season
                                            /\ e * Day + Open[m] > Local(Zone[m], t)}}

AllOpenings(t) == UNION {Openings(m, t) : m \in Markets}

\* The latest opening instead of the earliest.
LatestNextStart(t) ==
    IF AnyMarketOpen(t) \/ AllOpenings(t) = {} THEN None ELSE Max(AllOpenings(t)) - Lead

\* None when a market is open, and also when none opens within a week.
NextStart(t) ==
    IF AnyMarketOpen(t) \/ AllOpenings(t) = {} THEN None ELSE Min(AllOpenings(t)) - Lead
=============================================================================
