------------------------------- MODULE PriceSensor -------------------------------
(***************************************************************************)
(* The volatility watcher (src/app/services/watcher.py): WatcherService     *)
(* listens to the ticks on Redis, and PriceSensor alerts when a market's    *)
(* price moved too far within its window, with a cooldown per market.  The  *)
(* sensor keeps apart what it knows of each market, so one market is        *)
(* modelled; the notifications of all of them delay the loop.               *)
(*                                                                         *)
(* A tick is dated when the loop takes it, not when it was published.      *)
(* It waits at most MaxDelay while notifications are sent.                 *)
(***************************************************************************)
EXTENDS Alerting, Sequences, SequencesExt

CONSTANTS
    Bids,       \* the bids published; 0 stands for a tick without one
    ThresholdNum, ThresholdDen,     \* threshold, as a fraction
    Window,     \* window_seconds
    Cooldown,   \* cooldown_seconds
    Retry       \* the sleep after an error

ASSUME SensorAssumption ==
    /\ Bids \subseteq Nat
    /\ ThresholdNum \in Nat \ {0} /\ ThresholdDen \in Nat /\ ThresholdNum <= ThresholdDen
    /\ Window \in Nat /\ Cooldown \in Nat \ {0} /\ Retry \in Nat
    /\ MaxDelay \in Nat /\ MaxDelay <= Window

VARIABLES
    open,       \* is_market_open
    ticked,     \* bound: a tick was published at this time
    listening,  \* the watcher is subscribed
    wait,       \* what is left of its sleep otherwise
    inbox,      \* ticks it has not taken, oldest first: bid, and time since published
    window,     \* windows[epic]: bid, and time since taken
    cooldown,   \* time since cooldowns[epic], None without one
    heard,      \* history: the prices taken: bid, and time since published
    told        \* history: time since the watcher notified, None if it has not

service == <<listening, wait, inbox>>
sensor == <<window, cooldown, heard, told>>
sensorVars == <<open, redisUp, ticked, service, sensor>>

Span == Window + MaxDelay

SensorInit ==
    /\ open \in BOOLEAN /\ redisUp = TRUE /\ ticked = FALSE
    /\ listening = FALSE /\ wait = 0 /\ inbox = <<>>
    /\ window = <<>> /\ cooldown = None /\ heard = <<>> /\ told = None

-----------------------------------------------------------------------------
(* PriceSensor.on_tick *)

Distance(a, b) == IF a < b THEN b - a ELSE a - b

\* abs(pct_change) >= threshold, for the change from one price to another.
Spike(from, to) == Distance(from, to) * ThresholdDen >= ThresholdNum * from

\* Ticks without the oldest ones, up to the first that is not too old.
FirstYoung(w, most) ==
    CHOOSE n \in 1 .. Len(w) + 1 :
        /\ n <= Len(w) => w[n].ago <= most
        /\ \A i \in 1 .. n - 1 : w[i].ago > most
Young(w, most) == SubSeq(w, FirstYoung(w, most), Len(w))

\* The cleanup drops what is older than the window; or only the oldest tick.
DropOne(w) == IF Head(w).ago > Window THEN Tail(w) ELSE w
Cleaned(w) == Young(w, Window)

\* The window is compared at its oldest price, not at its lowest or highest.
IsSpike(w) == Len(w) >= 2 /\ Spike(Head(w).bid, Last(w).bid)

Cooled == cooldown = None \/ cooldown >= Cooldown

\* _trigger_alert: the market is asked first and starts no cooldown; or it does.
StartsCooldownClosed(spike) == spike /\ Cooled
StartsCooldown(spike) == spike /\ open /\ Cooled

Take ==
    /\ listening /\ inbox # <<>>
    /\ inbox' = Tail(inbox)
    /\ IF Head(inbox).bid = 0 THEN UNCHANGED sensor
       ELSE LET seen  == Cleaned(Append(window, [bid |-> Head(inbox).bid, ago |-> 0]))
                alert == IsSpike(seen) /\ open /\ Cooled
            IN  /\ window' = seen
                /\ cooldown' = IF StartsCooldown(IsSpike(seen)) THEN 0 ELSE cooldown
                /\ told' = IF alert THEN 0 ELSE told
                /\ heard' = Append(heard, Head(inbox))
    /\ UNCHANGED <<open, redisUp, ticked, listening, wait>>

-----------------------------------------------------------------------------
(* WatcherService.start *)

\* It subscribes, or sleeps again.
Connect ==
    /\ ~listening /\ wait = 0
    /\ listening' = redisUp /\ wait' = IF redisUp THEN 0 ELSE Retry
    /\ UNCHANGED <<open, redisUp, ticked, inbox, sensor>>

\* An error, of the connection or any other: what was not taken is lost, the windows and the
\* cooldowns are kept.
Lose ==
    /\ listening /\ listening' = FALSE /\ wait' = Retry /\ inbox' = <<>>
    /\ UNCHANGED <<open, redisUp, ticked, sensor>>

\* A new container has neither.
WatcherRestarts ==
    /\ listening' = FALSE /\ wait' = 0 /\ inbox' = <<>>
    /\ window' = <<>> /\ cooldown' = None /\ heard' = <<>> /\ told' = None
    /\ UNCHANGED <<open, redisUp, ticked>>

-----------------------------------------------------------------------------
(* The surroundings *)

\* Nobody hears a tick that is published while the watcher is not subscribed.
Publish(b) ==
    /\ redisUp /\ ~ticked /\ ticked' = TRUE
    /\ inbox' = IF listening THEN Append(inbox, [bid |-> b, ago |-> 0]) ELSE inbox
    /\ UNCHANGED <<open, redisUp, listening, wait, sensor>>

RedisChanges ==
    /\ redisUp' = ~redisUp
    /\ UNCHANGED <<open, ticked, service, sensor>>

MarketChanges ==
    /\ open' = ~open
    /\ UNCHANGED <<redisUp, ticked, service, sensor>>

Aged(ticks, most) == [i \in DOMAIN ticks |-> [ticks[i] EXCEPT !.ago = Older(@, most)]]

\* Time passes, but for a tick that waited too long, a sleep that is over, or an end of Redis
\* the watcher has not noticed.
TimePasses ==
    /\ IF listening THEN redisUp /\ \A i \in DOMAIN inbox : inbox[i].ago < MaxDelay
       ELSE wait > 0
    /\ ticked' = FALSE
    /\ wait' = IF listening THEN wait ELSE wait - 1
    /\ inbox' = Aged(inbox, MaxDelay) /\ window' = Aged(window, Window + 1)
    /\ cooldown' = Older(cooldown, Cooldown) /\ told' = Older(told, Cooldown)
    /\ heard' = Young(Aged(heard, Span + 1), Span)
    /\ UNCHANGED <<open, redisUp, listening>>

SensorNext ==
    \/ \E b \in Bids : Publish(b)
    \/ Take \/ Connect \/ Lose \/ WatcherRestarts
    \/ RedisChanges \/ MarketChanges \/ TimePasses

SensorSpec == SensorInit /\ [][SensorNext]_sensorVars

-----------------------------------------------------------------------------
(* Properties *)

SensorTypeOK ==
    /\ open \in BOOLEAN /\ redisUp \in BOOLEAN /\ ticked \in BOOLEAN /\ listening \in BOOLEAN
    /\ wait \in 0 .. Retry
    /\ \A w \in {inbox, window, heard} : w \in Seq([bid : Bids, ago : Nat])
    /\ cooldown \in 0 .. Cooldown \union {None} /\ told \in 0 .. Cooldown \union {None}

Taken == Len(inbox') < Len(inbox) /\ listening' /\ Head(inbox).bid # 0
Alerts == Taken /\ told # 0 /\ told' = 0

\* An alert is about a move there was: a price published within the window before it, or
\* longer by what ticks may wait, differs by the threshold.  Quiet spells, reconnections and
\* ticks that waited leave no older price to be compared with.
AlertsAreMoves ==
    [][Alerts =>
          \E i \in DOMAIN heard :
              /\ heard[i].ago - Head(inbox).ago <= Span
              /\ Spike(heard[i].bid, Head(inbox).bid)]_sensorVars

\* No move is kept quiet: when a price is taken of an open market that differs by the
\* threshold from one published within the window before it, less what ticks may wait, then
\* an alert was sent within the cooldown.  The exception is a move that turned: an earlier
\* price of the window lies on the side of the new one.
MovesAreAlerted ==
    [][Taken /\ open =>
          \A i \in DOMAIN heard :
              LET from == heard[i].bid  to == Head(inbox).bid IN
              /\ heard[i].ago - Head(inbox).ago <= Window - MaxDelay
              /\ Spike(from, to)
              /\ \A j \in 1 .. i : IF from < to THEN heard[j].bid <= from
                                   ELSE heard[j].bid >= from
              => told' # None /\ told' < Cooldown]_sensorVars
=============================================================================
