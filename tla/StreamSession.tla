----------------------------- MODULE StreamSession -----------------------------
(***************************************************************************)
(* When the streamer runs (StreamManager.start and _run_session in         *)
(* src/app/streamer/manager.py): it sleeps until the next opening, logs    *)
(* in, and starts the supervisors of StreamSupervisor, which never return. *)
(* A failed login starts the session again, and so does a new container.   *)
(***************************************************************************)
EXTENDS MarketHours

CONSTANTS
    Calendars,  \* the offsets, holidays and season a run may have
    First,      \* bound: the first and
    Last        \* the last time

ASSUME TimesAssumption == First \in Int /\ Last \in Int /\ First <= Last
ASSUME NoStartAssumption == None \notin Int

-----------------------------------------------------------------------------
(* What the zones of the markets have in common in every calendar *)

Offsets(c, z) == {c.before[z], c.after[z]}
Zones == {Zone[m] : m \in Markets} \union {HoursZone[m] : m \in Markets}

\* No two clocks are a day apart.
WithinADay(c) ==
    \A z, y \in Zones : \A x \in Offsets(c, z), w \in Offsets(c, y) :
        x \in Int /\ x - w < Day

\* The clocks change on a day of the weekend, wherever a market is.
ChangesOnWeekend(c) ==
    /\ c.change \in Int
    /\ \A m \in Markets :
          LET day == DayOf(c.change + c.after[Zone[m]])
          IN  day = DayOf(c.change + c.before[Zone[m]]) /\ ~Weekday(day)

\* A market that is further east than another one opens earlier on a day, or with it.
EastOpensFirst(c) ==
    \A m, n \in Markets :
        c.before[Zone[n]] > c.before[Zone[m]] \/ c.after[Zone[n]] > c.after[Zone[m]] =>
            \A x \in Offsets(c, Zone[n]), y \in Offsets(c, Zone[m]) :
                Open[n] - x <= Open[m] - y

\* The zone of a market's hours is that of its configuration or further east, by no more
\* than the time it opens at.
HoursAhead(c) ==
    \A m \in Markets :
        /\ c.before[Zone[m]] <= c.before[HoursZone[m]]
        /\ c.after[Zone[m]] <= c.after[HoursZone[m]]
        /\ \A x \in Offsets(c, HoursZone[m]), y \in Offsets(c, Zone[m]) : x - y <= Open[m]

ASSUME CalendarsAssumption ==
    \A c \in Calendars :
        WithinADay(c) /\ ChangesOnWeekend(c) /\ EastOpensFirst(c) /\ HoursAhead(c)

-----------------------------------------------------------------------------

VARIABLES
    now,
    phase,      \* "start" (of _run_session), "asleep", "login" or "running"
    wake        \* the end of the sleep

sessionVars == <<calendar, now, phase, wake>>

SessionTypeOK ==
    /\ calendar \in Calendars
    /\ now \in First .. Last
    /\ phase \in {"start", "asleep", "login", "running"}
    /\ wake # None <=> phase = "asleep"
    /\ wake # None => wake \in Int /\ now <= wake

SessionInit ==
    /\ calendar \in Calendars
    /\ now = First
    /\ phase = "start" /\ wake = None

\* It sleeps only if the start of streaming is ahead.
Sleep ==
    /\ phase = "start" /\ NextStart(now) # None /\ NextStart(now) > now
    /\ phase' = "asleep" /\ wake' = NextStart(now)
    /\ UNCHANGED <<calendar, now>>

StartNow ==
    /\ phase = "start" /\ (NextStart(now) # None => NextStart(now) <= now)
    /\ phase' = "login"
    /\ UNCHANGED <<calendar, now, wake>>

Wake ==
    /\ phase = "asleep" /\ now = wake
    /\ phase' = "login" /\ wake' = None
    /\ UNCHANGED <<calendar, now>>

LogsIn ==
    /\ phase = "login"
    /\ phase' = "running"
    /\ UNCHANGED <<calendar, now, wake>>

\* The login fails, which starts the session again after 5 s; or the container does.
Again ==
    /\ phase \in {"asleep", "login", "running"}
    /\ phase' = "start" /\ wake' = None
    /\ UNCHANGED <<calendar, now>>

\* The sleep is not ended in time.
ElapseOverslept ==
    /\ now < Last /\ now' = now + 1
    /\ phase # "start"
    /\ UNCHANGED <<calendar, phase, wake>>

\* Ten minutes pass, but for a session that starts or a sleep that is over.
Elapse ==
    /\ now < Last /\ now' = now + 1
    /\ phase # "start" /\ (phase = "asleep" => now < wake)
    /\ UNCHANGED <<calendar, phase, wake>>

SessionNext == Sleep \/ StartNow \/ Wake \/ LogsIn \/ Again \/ Elapse

SessionSpec == SessionInit /\ [][SessionNext]_sessionVars

-----------------------------------------------------------------------------

\* The streamer does not sleep while a market trades, nor in the ten minutes before, across
\* weekends, holidays and changes of the clocks.  Only a market whose hours are in another
\* zone than its configuration (the DAX) can open on a sleeping streamer.
AwakeForOpenMarkets ==
    phase = "asleep" /\ now < wake =>
        \A m \in Markets :
            IsMarketOpen(m, now) \/ IsMarketOpen(m, now + Lead) => Zone[m] # HoursZone[m]

\* A market is within its hours now or in ten minutes, or none opens within a week (the
\* holiday season is longer).
ReasonToStream ==
    \/ \E m \in Markets : \E t \in {now, now + Lead} :
          WithinHours(m, Zone[m], t) /\ DayOf(Local(Zone[m], t)) \notin calendar.season
    \/ \A m \in Markets : \A t \in 1 .. Week * Day : t % 6 = 0 => ~IsMarketOpen(m, now + t)

\* Streaming starts because a market is open or opens within ten minutes, or because no
\* market opens within a week: not at night or on a weekend.
StartsForAnOpening == [][phase # "login" /\ phase' = "login" => ReasonToStream]_sessionVars
=============================================================================
