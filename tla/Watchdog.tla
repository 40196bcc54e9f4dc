-------------------------------- MODULE Watchdog --------------------------------
(***************************************************************************)
(* The watchdog (src/watchdog.py) and the heartbeat it watches: a job of   *)
(* the execution server's scheduler writes the time into a key of Redis    *)
(* every minute (update_heartbeat in src/app/cli/schedule.py); the         *)
(* watchdog, a process of its own, reads the key every minute and alerts.  *)
(*                                                                         *)
(* What is due happens before time passes; Redis answers a check, or fails *)
(* it, within MaxDelay.                                                    *)
(***************************************************************************)
EXTENDS Alerting

CONSTANTS
    Interval,   \* CHECK_INTERVAL, and the interval of the heartbeat job
    Stale,      \* STALE_THRESHOLD_MINUTES
    Grace,      \* GRACE_PERIOD_MINUTES
    Limit       \* alerts are this far apart at least

ASSUME TimesAssumption ==
    /\ Interval \in Nat \ {0} /\ Stale \in Nat /\ Grace \in Nat /\ Limit \in Nat
    /\ MaxDelay \in Nat
    /\ Interval + MaxDelay <= Stale /\ Grace + MaxDelay <= Limit

VARIABLES
    alive,      \* the execution server runs
    nextBeat,   \* time to the next run of its heartbeat job
    key,        \* age of the time in health:app:last_seen, None if there is no key
    asked,      \* time since the check began (its `now`), None between the checks
    rest,       \* what is left of the sleep between two checks
    uptime,     \* time since start_time of the watchdog
    sinceAlert, \* time since last_alert_sent, None if that is None
    dark,       \* history: time since the last heartbeat that reached Redis
    silent,     \* history: time since an alert was sent or the watchdog was started
    calm,       \* history: time since something last was wrong or was restarted
    recovered   \* history: since the last alert a heartbeat arrived, or Redis or the
                \* watchdog was started

server == <<alive, nextBeat>>
watchdog == <<asked, rest, uptime, sinceAlert>>
hist == <<dark, silent, calm, recovered>>
vars == <<server, redisUp, key, watchdog, hist>>

\* The darkness no healthy check can overlook, and the longest silence in it.
DarkSeen   == Stale + Interval + 2 * MaxDelay
LongSilent == Limit + Interval + MaxDelay

\* The greatest age each counter tells apart.
OldKey == Stale + MaxDelay + 1

Init ==
    /\ alive = TRUE /\ nextBeat = Interval /\ redisUp = TRUE
    /\ key \in {None, 0, OldKey}    \* the key outlives the containers in Redis' volume
    /\ asked = None /\ rest = 0 /\ uptime = 0 /\ sinceAlert = None
    /\ dark = 0 /\ silent = 0 /\ calm = 0 /\ recovered = TRUE

-----------------------------------------------------------------------------
(* The heartbeat *)

\* update_heartbeat: the time is written.
Beat ==
    /\ alive /\ nextBeat = 0 /\ redisUp
    /\ nextBeat' = Interval /\ key' = 0
    /\ dark' = 0 /\ recovered' = TRUE
    /\ UNCHANGED <<alive, redisUp, watchdog, silent, calm>>

\* The job cannot reach Redis, which it only logs, or the scheduler runs it not at all: it is
\* due while the loop is busy, and more than a second late, or its last run has not ended.
MissBeat ==
    /\ alive /\ nextBeat = 0
    /\ nextBeat' = Interval /\ calm' = 0
    /\ UNCHANGED <<alive, redisUp, key, watchdog, dark, silent, recovered>>

ServerDies ==
    /\ alive /\ alive' = FALSE /\ calm' = 0
    /\ UNCHANGED <<nextBeat, redisUp, key, watchdog, dark, silent, recovered>>

\* The first heartbeat comes an interval after the start of the scheduler.
ServerStarts ==
    /\ ~alive /\ alive' = TRUE /\ nextBeat' = Interval /\ calm' = 0
    /\ UNCHANGED <<redisUp, key, watchdog, dark, silent, recovered>>

-----------------------------------------------------------------------------
(* check_liveness *)

\* The check takes the time and asks Redis for the key.
BeginCheck ==
    /\ asked = None /\ rest = 0 /\ asked' = 0
    /\ UNCHANGED <<server, redisUp, key, rest, uptime, sinceAlert, hist>>

\* What a check finds: an error or no key, once the grace period is over at its beginning,
\* or a time too long before its beginning.  A stale key has no grace.
InGrace      == uptime - asked < Grace
Unreadable   == ~redisUp \/ key = None
TooOldAtOnce == key # None /\ key - asked >= Interval
TooOld       == key # None /\ key - asked > Stale
IsStale      == IF Unreadable THEN ~InGrace ELSE TooOld
Skipped      == Unreadable /\ InGrace

\* The rate limit.
AlwaysMay == TRUE
MayAlert  == sinceAlert = None \/ sinceAlert > Limit
Alert     == IsStale /\ MayAlert

\* last_alert_sent: an alert that Home Assistant did not take counts as sent (and, in the
\* mutated form, one that the rate limit kept back).
AlertHeld == IF Skipped THEN sinceAlert ELSE IF IsStale THEN 0 ELSE None
AlertSent == IF Skipped \/ (IsStale /\ ~MayAlert) THEN sinceAlert
             ELSE IF IsStale THEN 0 ELSE None

\* Redis answers, or fails; the watchdog alerts if it must and goes to sleep.
EndCheck ==
    /\ asked # None
    /\ sinceAlert' = AlertSent
    /\ silent' = IF Alert THEN 0 ELSE silent
    /\ recovered' = (recovered /\ ~Alert)
    /\ asked' = None /\ rest' = Interval
    /\ UNCHANGED <<server, redisUp, key, uptime, dark, calm>>

\* The container is restarted, at any time.
WatchdogRestarts ==
    /\ asked' = None /\ rest' = 0 /\ uptime' = 0 /\ sinceAlert' = None
    /\ silent' = 0 /\ recovered' = TRUE
    /\ UNCHANGED <<server, redisUp, key, dark, calm>>

-----------------------------------------------------------------------------
(* Redis and time *)

RedisStops ==
    /\ redisUp /\ redisUp' = FALSE /\ calm' = 0
    /\ UNCHANGED <<server, key, watchdog, dark, silent, recovered>>

\* It comes back with the key, with one saved earlier, or without it.
RedisStarts ==
    /\ ~redisUp /\ redisUp' = TRUE /\ calm' = 0 /\ recovered' = TRUE
    /\ key' \in {key, None} \union (IF key = None THEN {} ELSE {OldKey})
    /\ UNCHANGED <<server, watchdog, dark, silent>>

\* Redis holds at most 200 MB and evicts any key (allkeys-lru).
Evict ==
    /\ redisUp /\ key # None /\ key' = None /\ calm' = 0
    /\ UNCHANGED <<server, redisUp, watchdog, dark, silent, recovered>>

Elapse ==
    /\ alive => nextBeat > 0
    /\ IF asked = None THEN rest > 0 ELSE asked < MaxDelay
    /\ nextBeat' = IF alive THEN nextBeat - 1 ELSE nextBeat
    /\ asked' = Older(asked, MaxDelay)
    /\ rest' = IF asked = None THEN rest - 1 ELSE rest
    /\ key' = Older(key, OldKey)
    /\ uptime' = Older(uptime, Grace + MaxDelay)
    /\ sinceAlert' = Older(sinceAlert, Limit + 1)
    /\ dark' = Older(dark, DarkSeen + 1)
    /\ silent' = Older(silent, LongSilent + 1)
    /\ calm' = IF alive /\ redisUp THEN Older(calm, Interval + 1) ELSE 0
    /\ UNCHANGED <<alive, redisUp, recovered>>

Next ==
    \/ Beat \/ MissBeat \/ ServerDies \/ ServerStarts
    \/ BeginCheck \/ EndCheck \/ WatchdogRestarts
    \/ RedisStops \/ RedisStarts \/ Evict \/ Elapse

Spec == Init /\ [][Next]_vars

-----------------------------------------------------------------------------
(* Properties *)

TypeOK ==
    /\ alive \in BOOLEAN /\ redisUp \in BOOLEAN /\ recovered \in BOOLEAN
    /\ nextBeat \in 0 .. Interval
    /\ key \in 0 .. OldKey \union {None}
    /\ asked \in 0 .. MaxDelay \union {None} /\ rest \in 0 .. Interval
    /\ uptime \in 0 .. Grace + MaxDelay
    /\ sinceAlert \in 0 .. Limit + 1 \union {None}
    /\ dark \in 0 .. DarkSeen + 1 /\ silent \in 0 .. LongSilent + 1
    /\ calm \in 0 .. Interval + 1

\* No alert is about a system that is well: within an interval before it the server or Redis
\* died or was started, the key was lost, or a heartbeat was missed; not even when Redis is
\* slow to answer, or the watchdog is restarted at any moment.
NoFalseAlarm == [][EndCheck /\ Alert => calm <= Interval]_vars

\* Once no heartbeat has come for so long that every check must have seen it, the last alert
\* is never longer ago than the rate limit and one check, whatever becomes of Redis, the
\* key and the server; only a restart of the watchdog allows as long again.
SentWhileDark == dark > DarkSeen => silent <= LongSilent

\* The rate limit is only passed by when there was news: between two alerts within it a
\* heartbeat arrived, or Redis or the watchdog was started.  Checks that fail, or that skip,
\* do not clear it.
NoRepeatedAlarm == [][EndCheck /\ Alert /\ silent <= Limit => recovered]_vars
=============================================================================
