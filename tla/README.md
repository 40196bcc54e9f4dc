# Trader V2: a verification project

TLA+ models of the trader in `src/`, the TLC configurations that check them on small
instances, and proofs that TLAPS checks for every instance. The models are written from the
code; where a document or a comment says something else, a run shows the difference.

1. [The system](#1-the-system)
2. [Modules and how they correspond to the code](#2-modules-and-how-they-correspond-to-the-code)
3. [Runs](#3-runs)
4. [Fairness](#4-fairness)
5. [Proofs](#5-proofs)
6. [What the code does that its documents do not say](#6-what-the-code-does-that-its-documents-do-not-say)
7. [What is not modelled](#7-what-is-not-modelled)
8. [Plan](#8-plan)
9. [Working with the project](#9-working-with-the-project)

## 1. The system

Five processes share a PostgreSQL database, a Redis and one broker account at IG:

| process | what runs in it |
|---|---|
| trader (`main.py`, `cli/server.py`) | the scheduler's jobs and the command listener; each runs strategies, and each strategy that finds a signal trades it to its end |
| streamer (`streamer/main.py`) | one supervisor and one node process per market; candles |
| watcher (`services/watcher.py`) | spikes in the last 60 s of prices |
| watchdog (`watchdog.py`) | alerts when the trader's heartbeat is old |
| dashboard | shows the tables, deletes signals |

| component | state | operations | talks to |
|---|---|---|---|
| `TradeExecutor` | one trade: awaits, clocks, the stop | wait for the trigger, order, confirm, record, monitor, move the stop, close, settle | broker, price stream, `trade_execution` |
| `AsyncIGClient` | tokens, httpx clients, a lock; one object for all tasks of a process | request, login, retry after 401, close | broker, igsession's Redis |
| `RiskManager` | none | validate a signal | broker's balance |
| `StrategyEngine`, `run_market_strategy`, `CommandListener`, scheduler | jobs, `active_markets`, stalking time | fire, receive, analyse, validate, trade | all of the above, Redis commands |
| `StreamManager`, `stream_service.js` | per market: backoff, failures, a process, a pipe with a reader | sleep, log in, spawn, publish, end | broker's stream, Redis `market_data`, candle builder |
| `CandleBuilder` | the candle forming in each timeframe | tick, store | `historical_candles` |
| `MarketDataService`, `CollectorService` | none | download what is missing, read | broker's history, `historical_candles` |
| `MarketStatusService` | calendars | open?, next start, next close | clock |
| `PriceSensor`, `WatcherService` | window and cooldown per market; the subscription | take a tick, alert, reconnect | Redis `market_data`, notifications |
| watchdog, `update_heartbeat` | the heartbeat key; time of the last alert | beat, check, alert | Redis, notifications |
| analyser, Gemini, news, notifications, scorecard, diagnostics, dashboard | none that another part reads | input, output, reports | |

What is hard in it:

- **Money is at stake in every lost answer.** An order, its confirmation, its row, a moved
  stop and a forced close are each a call that may be done and not answered.
- **Almost everything waits for the next price.** Timeouts, the position check and the forced
  close are looked at when an update of the stream arrives.
- **Tasks share objects across awaits.** The broker client's tokens, headers and client objects
  change under requests in flight; five supervisors share one login.
- **Processes share tables and an account.** Streamer and trader insert the same candles; jobs
  and commands trade on one balance, which knows nothing of the trades that have not ended.
- **Processes die and are restarted** (`restart: unless-stopped`) and remember nothing.
- **Somebody must notice.** The watchdog and the watcher judge by ages: of a heartbeat in a key
  that can be evicted, lost or restored, of ticks that waited before they were taken.
- **Clocks.** Opening hours in four zones, changes of the clocks, holidays; candles by the
  minute; a close that moves to tomorrow once it has passed.

`PROJECT.json` lists these as hazards, each at its line with the properties that watch it.

What makes each component correct:

| component | correct when |
|---|---|
| executor | one order per signal at most; no open position without a row, a watcher or a named reason; nothing late; flat at the close; rows tell what happened |
| stop | only ever tightened; the broker's stop never behind the executor's; no loss after breakeven |
| session | no call executed twice; no older login used; always usable again |
| risk | the size is within the risk, and short of it by one step at most, at the stop the order carries; the floor survives |
| server | no command lost to a lock; bounded stalking; the floor survives trades one after another |
| streamer | every market's ticks come back; expired logins replaced; one alert per outage; awake for openings |
| watchdog | no alert about a system that is well; none missing, in the dark, for longer than the rate limit; none repeated without news |
| watcher | an alert is about a move there was; no move is kept quiet by an older alert, a closed market or a quiet spell |
| candles | equal to the broker's but for ticks that cross a boundary on their way, complete, never changed, fresh when read |

## 2. Modules and how they correspond to the code

`PROJECT.json` maps every definition to its lines. In each module an action is what a task
does from one await to the next; `pc`, `stage` or `phase` names the await.

Some definitions stand directly below a variant of theirs (`NearClose` below `PastClose`,
`LockFree` below `NoLock`). The specification does not use the variant: it is the definition
with a plausible mistake in it, kept to show that the property it belongs to notices.

**`TradeExecutor`** (`services/executor.py`). One signal from `execute_trade` to its return.
`pc` goes from `start` over `wait`, `order`, `confirm`, `save`, `monitor`, `check`, `close` and
`sync` to `ended`, and `why` says how it ended. Calls are answered, refused, failed, or done
with the answer lost. Around the task the broker decides, closes positions and books history;
the user deletes the signal; the feed goes silent or Redis down; the process dies. Time is in
units coarser than a burst of calls and passes only while the task listens; a live feed
delivers at least one update per unit. `closeFails`, `closeRefused` and `gap` are history
variables, which no action reads except for the bound on `closeFails`.

The broker's endpoints (`adapters/ig_client.py:449-620`) are operators of their own: `Ordered`,
`Confirmations`, `PositionsSeen`, `History` and `Closed` say what a call may answer and what it
may have done when it does not.

**`TradeLedger`** is what a trade promises about its signal, without awaits, clocks or
failures: one order at most, sent while the trade runs, which the broker may decide after it; one
position at most, booked only if opened, settled only when closed, `WIN` only with a profit.
`TradeExecutor` implements it by `INSTANCE TradeLedger WITH running <- pc # "ended",
order <- Decision(deal)`, the other variables by name: the run is over when `execute_trade`
has returned or the process has died, and an order is decided once it is accepted or rejected.

**`TrailingStop`** (`executor.py`, the part of `_monitor_position` that moves the stop). The
stop is at the broker (`brokerStop`), on the row (`rowStop`) and in the executor (`stop`), and
two awaits change them one after the other. Prices are integers and a level is rounded to a
grid. It is a module of its own because the trade's life does not depend on where the stop is;
the executor's `BrokerCloses` covers every stop.

**`IGSession`** (`adapters/ig_client.py`). Two or more tasks share a client. A token is a
number; `header` says which token each httpx client sends. `store` is the shared session of
igsession when there is one.

**`RiskRules`**, **`RiskManager`** (`services/risk.py`). The rules on integers, with sizes in
steps of `1 / SizeUnit`; `StrategyServer` uses the same rules. The code divides binary floats and
truncates, so `TargetSizes` is a set: where the risk is a whole number of steps, the quotient may
fall just short of it and the size be one step less. Elsewhere an integer quotient is a whole
fraction of a step away from the next one, which is far more than the error of a float.

**`StrategyServer`** (`cli/server.py`, `cli/schedule.py`, `cli/trade.py`,
`services/command_listener.py`, `services/trader.py`). Runners are the markets' jobs and the
listener. A trade is abstract here and keeps to what `TradeLedger` says of it: between the
accepted signal and the return of `execute_trade` it sends one order at most; the broker may
fill the order after the run is over (a lost answer, ten polls in vain, a death of the process),
and the position outlives the run. `AccountBalances` is `get_account_balance`, which falls back
on the first account listed when the client's current account is another login's. The model's
answers (`Analyze`) are nondeterministic. `overlap` and `misread` are history variables.

**`StreamSupervisor`** (`streamer/manager.py`, `adapters/js/stream_service.js`). A supervisor,
its node process and the reader of the pipe per market, over one cache of tokens. `link` is
the state of the node process's connection. A *mute* link is open and brings no prices (as at
a weekend, when the heartbeat timer is off). `onLogin` is a history variable that counts
processes per login, up to one more than there may be. Sending an alert never raises
(`adapters/notification.py:46-54`), so the supervisors never return.

**`MarketHours`**, **`StreamSession`** (`services/market_status.py`, `streamer/manager.py:44-94`).
The calendar as operators on a clock of ten minutes, in UTC, with offsets of zones that change
once; and the session that sleeps until ten minutes before the earliest opening. The DAX has
its hours in one zone (Berlin) and its configuration in another (London): both are modelled
where the code uses them. What `StreamSupervisor` and the calendar both need to know of
`MARKET_CONFIGS`, the set of markets, is in **`MarketConfigs`**.

**`Watchdog`** (`watchdog.py`, `cli/schedule.py:12-34`). The scheduler's heartbeat job, the key
in Redis and the watchdog, each able to stop and start by itself; Redis may be slow, evict the
key (`allkeys-lru`), or come back from its volume with an old key or none. Times are ages that
are counted up to where nothing depends on them, so the instance has no bound on its length.
The check takes its time before it asks Redis and judges with it afterwards (`asked`). `dark`,
`silent`, `calm` and `recovered` are history variables. A heartbeat is written in one step.

What it has in common with the watcher, Redis and ages, is in **`Alerting`**.

**`PriceSensor`** (`services/watcher.py`). One market: the windows and cooldowns of markets are
apart, and what other markets' notifications do to this one is the delay a tick may have
(`MaxDelay`). `window` holds the time since a tick was taken, as the code does, and the history
`heard` the time since it was published.

**`CandleStore`** (`streamer/candle_builder.py`, `services/market_data.py`,
`services/collector.py`). `ticks` is all the broker quoted, and `Bar` computes the broker's
candle from it: the reference both writers are compared with. A tick waits (`Waiting`) from
`Quote` until `Take`, where `on_tick` dates it with its own clock (`dated`): after the node process,
the pipe, the publishing of its price and the inserts of the ticks before it. The broker's time
in the message is not used. Ticks are quoted, and time passes, while an insert is awaited. The
builder runs through its timeframes one await at a time (`work`), the reader is a call with its own
awaits (`pc`). A download includes the candle that is still forming (`early`), may lack prices
(`Without`, stored as 0.0), and a range of times is read by the broker in the zone of the
account (`InRange`), which `Offsets` says how far ahead of UTC it may be.

## 3. Runs

`pass` runs explore all reachable states of the instance. The others show a statement of a
document or comment to be false (section 6).

| run | instance | shows |
|---|---|---|
| `trade` | every trigger in both directions and an instant entry, watched or not, or dry; three prices around the entry and a missing one; clock of 7 units with the close at 6, a monitor that ends after 5, a trigger that expires after 1; two polls, two sync attempts, one failed close; fair | one order per signal; orphans, abandoned and wrongly settled positions only for named reasons; flat at the close; no late order; the ledger implemented; every trade ends unless its feed is silent for good |
| `trade_at_close` | units of ten minutes, a day of 144 | violated: section 6 |
| `stop` | 22 prices, trades in both directions, with an initial stop at, before and beyond the entry | the stop only tightens; the broker is never behind; breakeven and trailing happen and hold |
| `session` | two tasks, three faults (expiry, failed call, `close()`), own or shared login | nothing executed twice, no older login, the client recovers |
| `risk` | balances from below zero to above the floor, every signal on seven levels and four ATRs | a size within the risk, and one step short of all of it at most; the floor survives the stop |
| `server` | two markets, two jobs, two commands, three deals at a time, one death, a second account with more money; fair | every command runs; the floor survives trades one by one, sized on their account; all comes to rest |
| `stream` | two markets sharing a login, the code's backoffs, own or shared login, mute links | ticks come back; at most three processes per dead login; one alert per outage |
| `stream_dark` | one market, no mute links | violated: section 6 |
| `candles` | candles of one and two minutes, five minutes, three ticks that arrive up to a minute late, one call, one fault, an account in UTC or three minutes ahead, whole candles or ones without a low | candles equal the broker's or are named, none missing, none changed; readers get fresh ones |
| `hours` | the five markets from Friday 08:00 to Tuesday 23:00 UTC in steps of ten minutes, with every change of the clocks of the three continents, public holidays on Monday, a season that ends or begins there | awake for trading hours; started only for an opening |
| `watchdog` | half minutes, with the code's times: a check and a heartbeat every minute, stale after 5, 2 of grace, 30 between alerts; Redis takes up to half a minute | no false alarm, no silence in the dark, no repeated alarm |
| `watcher` | a window of 3, a cooldown of 4, ticks that wait one unit and one tick per unit at most; three prices of which the outer two are a spike apart, and ticks without a bid | alerts are moves; moves that do not turn are alerted |

Why these bounds are enough:

- The trade's clock covers a trigger that expires, a forced close with room for one failure, a
  monitor that times out after the close, and prices after the close; the time-out before the
  closing window is `trade_at_close`'s. A position opened after the close, whose close is
  tomorrow's, is beyond both clocks and covered by the proofs only. Two polls or attempts differ
  from ten only in number: the first, and the last after a failure. The proofs cover every bound.
- Two tasks, markets or supervisors show every interference of a pair; the shared objects
  (a cache, a lock, an account) are touched by one task at a time between awaits. The proofs
  cover every number of them.
- The backoff has the code's values, 10 s to the cap of 300 s: a forced login comes before,
  at and after the cap.
- Two timeframes, one within the other, have every relation of 1, 5 and 15 minutes. Three
  ticks make a candle with a first, a middle and a last, or three candles. A tick that is a
  minute late crosses a boundary of either timeframe, or none of the longer one. An
  offset of three minutes moves a range off all there is, as an hour does to a range of some
  minutes. One call: the reader keeps nothing between calls but the table, which the builder
  changes too; of the timeframes and minutes it may be made at, `Asked` has an early one, which downloads
  a candle that is still forming, and a late one, with a table that may be empty, too old, too
  short or fresh. Candles with a price left out count as faults for the bound. 2 million states.
- The watchdog's times are the code's, and no counter ends the run: restarts, evictions and
  missed heartbeats may go on for ever. What the watcher's window and cooldown tell apart is which
  is longer and which ticks are in them; four ages do that.
- Three faults let two tasks lose a login each and one of them be closed upon.

`CHECK_DEADLOCK FALSE` stands where the system really stops: a trade that has ended, a signal
that has been validated, commands and deaths used up, a clock at its end.

Bounds that are not in the code: `MaxTime`, `MaxCloseFails` (`TradeExecutor`), `MaxFaults`,
`MaxTokens`, `MaxClients` (`IGSession`, which reuses numbers nobody holds any more, so that
the last two bound the names only: a login needs a free token, and a client there always is), `Deals`, `MaxBalance`, `MaxFires`, `MaxCommands`,
`MaxDeaths` (`StrategyServer`), `MaxDelay` (`Alerting`), `ticked`
(`PriceSensor`), `Horizon`, `MaxTicks`, `MaxDelay`, `MaxCalls`, `MaxFaults`,
`Asked`, `Absent` (`CandleStore`),
`First`, `Last` (`StreamSession`).

## 4. Fairness

- *Calls return.* The httpx client has a time-out of 10 s, so weak fairness on the steps after
  an await (`TradeExecutor!Call`, `IGSession!Answer`, `StrategyServer!Run`).
- *Sleeps end and timers fire*: weak fairness on `BeginAttempt`, `GivesUp`, `HeartbeatExpires`.
  The timers of a node process that is blocked in a write do not fire, and the model's do not.
- *The lock of the client is handed on in the order of its waiters* (asyncio): strong fairness
  on `AcquireLock`.
- *The feed.* An update is handled if the feed is up again and again (strong fairness on
  `HearPrice`, `HearUpdate`); nothing says that the feed comes up.
- *Containers are restarted*: `restart: unless-stopped`, weak fairness on `Restart`.
- *The watchdog and the watcher* need no fairness: what is due happens before time passes, and
  their properties are bounds on ages.
- *The broker* accepts a login and a connection again and again, and igsession renews an
  expired session. Without that nothing could come back.

`TicksComeBack` is relative to tokens not expiring for ever, `Heals` and `Quiesces` to the
bounded faults and deaths of their instances.

## 5. Proofs

| theorem | says, for every value of the constants |
|---|---|
| `TradeExecutor_proofs!TypeCorrect`, `OneOrder`, `Orphans`, `SyncsClosed`, `WatchKept` | types and four of the safety invariants of `trade` |
| `TradeExecutor_proofs!Refinement` | the executor implements `TradeLedger` |
| `TradeExecutor_proofs!InTime`, `ClosedByClose` | no order after its trigger's time; flat at the close, for every clock, closing window and number of failed closes it has room for |
| `TrailingStop_proofs!TypeCorrect`, `BrokerFloor`, `Breakeven` | types, the broker is never behind, no loss after breakeven |
| `TrailingStop_proofs!Ratchet`, `NoKnowingLoosening` | the two action properties of the stop |
| `TrailingStop_proofs!BreakevenOnTime`, `KeepsUp` | a price handled without a failure has moved the stop, to the entry or after the price |
| `IGSession_proofs!TypeCorrect`, `ExecutedOnce`, `LatestLogin` | types, no call executed twice, no request on an older login, for every number of tasks and faults |
| `RiskManager_proofs!TypeCorrect`, `LargestSize`, `FloorSurvives` | types, the size within the risk and one step short of it at most, and the floor, for every balance, signal and unit of size |
| `StrategyServer_proofs!TypeCorrect`, `FloorOneByOne`, `StalkingBounded` | types, the floor, stalking, for every number of markets, commands and restarts |
| `StrategyServer_proofs!CommandsRun` | every command is run, whatever failed before |
| `StreamManager_proofs!SessionTypes`, `Awake`, `Starts` | types and the two properties of `hours`, for every set of markets, hours, holidays and change of the clocks on a weekend |
| `StreamManager_proofs!TypeCorrect`, `AlertedOnce`, `ThriceAtMost` | types, one alert per outage, at most three processes per login, for every number of markets |
| `CandleStore_proofs!TypeCorrect`, `RowsFixed`, `StoredBars`, `NoGapsLeft`, `FreshAnswer` | types and the four properties of `candles`, for every set of timeframes, every price, delay and zone |
| `Alerting_proofs!TypeCorrect`, `Justified`, `Spared`, `NotSilent` | types and the three properties of `watchdog`, for every interval, threshold and limit |
| `Alerting_proofs!SensorTypes`, `AlertedMoves`, `MovesAlerted` | types and the two properties of `watcher`, for every threshold, window, cooldown and delay |

*Executor.* None of the four invariants is inductive. `IInv` adds `OrderInv` (which of the
task's awaits allow which verdict of the broker: before the order there is none, from the save
on it is accepted, and a position exists exactly if it is), `RecordInv` (which awaits and which
reasons to end go with which row) and `CountInv` (a poll or an attempt is left while the task
makes one, without which the counters leave their type). The four follow from `IInv`; the
refinement goes action by action, each a step of the ledger or a stutter.

For the times it takes two more invariants. `TriggerInv`: an order is about to go out only in the
step of the clock in which its trigger was heard. `MonitorInv` and `CheckInv`: under the
conditions of `FlatAtClose` an open position is watched, and its last check was no later than
`CheckBy(n)`, where `n` closes have failed. Each failure moves that limit by one check, and the
limit for one failure more than there were lies before the close.

*Stop.* `SendingInv` says that a level is sent only if it tightens the known stop, that after
an answer without a refusal the broker has it, and that a stop past breakeven is past the
entry. The one fact about arithmetic is `RoundedNear`: a rounded level is at most a step away
from the asked one. It needs `GridAssumption`, a rounding of at most the step that makes a move worth
making: an ATR of at least half a point. Index markets have more; for a currency pair quoted
in units the code's rounding to one decimal would break it.

`KeepInv` adds what the stop promises about the price: the first stop is known until breakeven
(`FirstStopInv`), and a level that is being sent will keep to the distance (`TrailInv`). It needs
a trigger of breakeven that lies beyond the entry.

*Session.* `OnceInv`: a call that is not over has not been executed. `LockInv`: while a task logs
in, it holds the lock and there are no cached tokens, so that the current client is the one
it made or none, and no request goes out on another. The types need a counting argument:
the tasks hold two clients each at most, so a new client has a name (`ClientNamed`).

*Risk.* `Validated` says what becomes of a signal on its way. The size is a quotient rounded down
(`LargestFactor`), or one less where the quotient is whole (`EvenFactor`), at the distance the
widened stop has from the entry (`StopAtDistance`).
What a trade of that size loses at that stop is at most its share of the balance, and at most
the distance to the floor (`RiskBounded`, `LossAboveFloor`).

*Server.* `SoleTrade` says that, without overlap or a size of another account, there is at most
one trade that may lose money, be it a run about to send its order, an order at the broker, or a
position, and the balance less its risk is at the floor or above. Why an order that outlives its
run does no harm: the next accepted signal finds it outstanding, which is an overlap.
`BudgetKeepsFloor` is the arithmetic of `RiskRules` it rests on. `ActiveInv`: the lock on a market
is held only by the command that is being served, so a failure or a death leaves none behind.

*Streams.* `TriesInv`: the processes started on a login are among the failures counted, the
running one aside; and a market that is due for a login drops the tokens it finds, so that what it
finds after that, from another market, it has not tried.

*Sessions.* The invariant is short: a sleep ends at the next start, as it was computed at some
time before (`SleepInv`). The work is about calendars. On a day without a change of the clocks a
market opens at one time in UTC, and later on a later day (`OpeningInUtc`, `OpeningOrder`). No
opening of a weekday outside the season comes before the earliest one the code finds
(`NoneBeforeNext`), and a market that is open has been since it opened (`OpenSince`); so one that
opens before the sleep ends would have ended it. What the code takes for granted of its markets
became `CalendarsAssumption`: the clocks change on weekends; no two clocks are a day apart; a
market further east does not open later (each market is searched for a week from its own date,
and the one whose date is ahead sees a day more); and the zone of a market's hours is ahead
of its own by no more than the time it opens at. All of it is true of `MARKET_CONFIGS`, and TLC
evaluates it for the calendars of `hours`.

*Candles.* A tick has two places: the candle it was quoted in (`Time`) and the one it was taken in
(`Place`). The builder is tied to the second: the candle that is forming is the one of the ticks
taken in it (`FormingInv`), no tick taken lies beyond it (`HeardInv`), and a tick taken is in it or
in the table (`SavedInv`). The broker's candle is made of the first, and the two are the same
ticks for a candle that no tick left or joined on its way (`Moved`), of which none is waiting and
none was dropped (`LostInv`). `RowsInv` says of stored candles that they are the broker's
(`IsBar`, but for prices left out), with the time after which no tick can change them; `ServedInv`
and `FreshInv` speak of a download in progress. The
lemmas are about candles made of ticks: with one more tick the candle is the updated one
(`BarUpdates`), and ticks of other times leave it alone (`BarAgrees`). That a finite set
has a greatest and a least element, which induction would give, is proved from the
well-founded order of finite sets (`Extremes`).

*Watchdog.* All three need to know what the last check that could be wrong leaves behind.
`BeatInv`: while all is up, either it has been for less than an interval or the key is that
young. `LastInv` and `IllInv`: `last_alert_sent` is the time of the last alert, and as long as
there is no news the next check finds the system ill again, so that nothing clears it. `AgeInv`
and `DueInv`: with the time that is left to the end of the next check, either the silence or
the darkness is still within its bound. The proof found an assumption the runs did not need:
the grace period and the slowest check are together no longer than the rate limit.

*Watcher.* `Aligned` pairs the window with the prices heard, from their ends, since both may have
been cleaned at their beginnings: every tick that is young by either date is in both, at the
same price, and the two dates differ by what the tick waited. It holds because a cap or a clean-up only
concerns ticks that are too old by both. The first of the window is then a price that was
published in time, and the move that was noticed is one there was. For the other direction
`SpikeFromBeyond`: a move that has not turned is a spike from the first price of the window
too. Where the price fell that needs a threshold of 100 percent at most, and the bound on the last
alert a cooldown that is not zero; the code's are 0.15 percent and five minutes.

Assumptions on the constants are the named `ASSUME`s; TLC evaluates them in the runs.

Only model-checked: liveness (`EndsUnlessSilent`, `Heals`, `Quiesces`, `TicksComeBack`), which
is out of the prover's reach. Every other property of the passing runs is a theorem.

## 6. What the code does that its documents do not say

- `trade_at_close`: `_monitor_position` gives up after 8 h, and only later prices could have
  led to the forced close. The FTSE job runs at 07:55 London time, the market closes at 16:30,
  and the closing window begins at 16:15: a position opened before 08:15 stays open over night
  although nothing failed. `TRADING.md:71` says such positions are closed. `FlatAtClose` (run
  `trade`) has the condition under which they are.
- `stream_dark`: a Redis error while a tick is published ends the reader of the node process's
  pipe; node blocks, its timers with it, and the supervisor waits for ever
  (`streamer/manager.py:24` promises 24/7).

Conditions in the properties that hold which say as much about the code:

- `StalkingEnds` (proved): an analysis may begin up to one sleep after the stalking time.
- `FloorHoldsOneByOne`: two trades at once may together fall below the floor, and so may one that
  is sized on another account. Two trades may even be on one market: the scheduler runs
  strategies without the listener's `active_markets`, although `plans/plan_command_listener.md:22`
  promises a lock for that.
- `WatchedUntilClosed`, `SyncsOnlyClosedPositions`: a forced close that the broker refuses
  counts as done. `GAPS.md` describes crashes and lost confirmations.
- `RowsAreBars`: a candle downloaded while it forms, and one the streamer missed a tick of,
  stay as they are.
- `RowsAreBars`, `NoGaps`: `candle_builder.py:20` dates a tick with its own clock when it comes to
  it. One that is quoted just before a boundary and taken after it is missing in its own candle
  and counts in the next one; if it was the only tick of its candle, there is no such candle. Both
  properties leave out the candles at either end (`Moved`), and nothing else: without that
  exclusion TLC finds both violated in the same instance.
- `RowsAreBars`: `collector.py:65-71` stores a price the broker does not give as 0.0, and no later
  download mends it. The property allows for what `Absent` says may be missing.
- `AnswerIsFresh`: `ig_client.py:496-504` says that IG reads from and to in the zone of the
  account, that naive UTC strings "hide the most recent hour", and that the offset is no longer
  0; it pads its own range by 14 hours. `market_data.py:91-97` sends naive UTC strings without a
  pad. For an account ahead of UTC an answer after the download of a gap is as fresh as the
  offset allows (`call.offset`) and no fresher; for one behind UTC the range begins after the gap
  does, and the property says nothing.
- `SizeIsLargestInRisk`: `risk.py:71-73` truncates a binary float. 1% of 2900 at a distance of 100
  comes out as `0.29 * 100 = 28.999999999999996`, so the size is 0.28 where 0.29 would fit. The
  size is never too large, and at most one step too small.
- `TicksComeBack`: a link that is mute outlives the 90 s that count as healthy, and so is
  retried for ever without a new login or an alert.
- `NoFalseAlarm`: a restart of the server is an alert if the key is older than five minutes when
  the watchdog looks before the first heartbeat, since a stale key has no grace period.
- `NoRepeatedAlarm`: a heartbeat that comes and goes gives an alert each time it goes.
- `SentWhileDark`: an alert is sent, not delivered. One that Home Assistant did not take counts
  (`adapters/notification.py:46-54`) and is not repeated for half an hour.
- `MovesAreAlerted`: the window is compared at its oldest price. A fall and a rise by the
  threshold within one minute may end where the window begins, and is missed;
  `README.md:14` speaks of spikes above 0.15% in 60 s.
- `AwakeForOpenMarkets`: the DAX opens (09:00 Berlin) an hour before the streamer thinks so
  (09:00 London). The FTSE, which opens at the same time, hides that except on a public holiday
  in Britain only.

## 7. What is not modelled

- *Market analysis, Gemini, news, notifications, scorecard, diagnostics, dashboard, developer
  tasks, configuration*: text, input, output and reports without state that another part reads.
  What they answer is nondeterministic where it matters; the dashboard's one change, deleting a
  signal, is an action of `TradeExecutor`.
- *`trade_update` messages in the monitor*: nothing publishes them on `market_data`
  (`streamer/manager.py:219` publishes prices only), so that branch never runs.
- *Demo and live account at once*: one account environment per instance.
- *Fill prices*: slippage between trigger and fill (breakeven is computed from the trigger).
- *`run_sync_trade`*: planned, section 8.
- *An endpoint of Redis or IG that never answers*: calls end within the time they have in the
  model. Redis' clients have no time-out of their own in this code.
- *The zone of the broker's `snapshotTime`s*: taken for UTC, as `collector.py:76-78` does. The zone
  in which it reads a range is modelled (`CandleStore!InRange`). A price without a `snapshotTime`,
  which `collector.py:62-63` skips, is one the broker did not serve.
- *`lastTradedVolume`* counts the ticks of the broker's candle in the model, as the builder's
  volume does.
- *The price a new MERGE subscription sends at once* (`stream_service.js:109`), which may be one of
  before: no tick of the model.
- *A `dealId` in the answer to `create_order`*: `executor.py:82` would start from it, so that ten
  failed polls would still save the row. IG's endpoint answers with a `dealReference` only, and so
  does the model; the fake of `tests/test_e2e_flow.py:34-36` gives both.
- *Exceptions nobody names in the watchdog* (`watchdog.py:111-112`): the check is skipped, as if it
  had not been due. A heartbeat that cannot be parsed (`watchdog.py:87-90`) is stale; nothing writes
  one.

## 8. Plan

Done, in this order: `TradeLedger`, `TradeExecutor`, `TrailingStop`, `IGSession`, `RiskRules`,
`RiskManager`, `StrategyServer`, `StreamSupervisor`, `CandleStore`, `MarketHours`,
`StreamSession`, `Watchdog`, `PriceSensor`, and the proofs of section 5.

Next, models:

1. `ManualSync` (`run_sync_trade`): which transaction settles which row. It takes the latest of
   the market, whichever deal that closed.
2. The executor's calls on the session: an order that fails for lack of a login.
3. Fill prices: breakeven is computed from the trigger.

Every safety and action property has its proof; what these models add needs its own.

## 9. Working with the project

    tlc -workers 2 -config MCTradeExecutor.cfg MCTradeExecutor      # a run
    tlapm TradeExecutor_proofs.tla                                  # its proofs

Each `MC` module gives the constants of a specification their values; a `.cfg` with a suffix is
another question to the same specification. After a change of the code, look up in the map of
`PROJECT.json` which definitions stand for its lines.
