----------------------------- MODULE TradeExecutor -----------------------------
(***************************************************************************)
(* The life of one trade: TradeExecutor.execute_trade                      *)
(* (src/app/services/executor.py) as a task that awaits the stream, the    *)
(* broker and the database, with everything that can happen around it:     *)
(* the broker closing the position at its stop, the feed going silent or   *)
(* Redis dropping, calls that fail or whose answer is lost, the user       *)
(* deleting the signal, and the process dying.                             *)
(*                                                                         *)
(* Each value of pc is one await of the code.  Time is counted in units    *)
(* coarser than any burst of calls: it passes only while the task listens  *)
(* to the stream, and a live feed delivers at least one update per unit.   *)
(* How the stop is moved while the position is watched is TrailingStop's.  *)
(***************************************************************************)
EXTENDS Integers, FiniteSets

CONSTANTS
    Signals,          \* the signals handed to execute_trade
    Prices,           \* the values a bid or an offer takes; 0 is a missing one
    Target,           \* signal.entry
    SpreadLimit,      \* the market's max_spread
    TriggerTimeout,   \* signal.timeout_seconds
    CheckPeriod,      \* 60 s between two position checks
    CloseWindow,      \* 15 minutes before the market closes
    MonitorTimeout,   \* 8 h of monitoring
    CloseAt,          \* today's close
    Day,              \* the length of a day
    MaxTime,          \* bound: the clock stops here
    MaxConfirms,      \* 10 polls for the deal confirmation
    MaxSyncs,         \* 5 attempts to find the outcome
    MaxCloseFails     \* bound: failed forced closes

Signal == [dry : BOOLEAN, dir : {"BUY", "SELL"},
           entry : {"INSTANT", "BREAKOUT", "PULLBACK"}, trailing : BOOLEAN]

ASSUME SignalsAssumption == Signals \subseteq Signal
ASSUME PricesAssumption  == Prices \subseteq Nat /\ Target \in Nat /\ SpreadLimit \in Nat
ASSUME TimesAssumption   ==
    /\ TriggerTimeout \in Nat /\ CheckPeriod \in Nat /\ MonitorTimeout \in Nat
    /\ CloseWindow \in Nat \ {0}
    /\ CloseAt \in Nat /\ Day \in Nat /\ MaxTime \in Nat
ASSUME BoundsAssumption  ==
    /\ MaxConfirms \in Nat \ {0} /\ MaxSyncs \in Nat \ {0} /\ MaxCloseFails \in Nat

NoTime == -1
Time   == Nat \union {NoTime}

VARIABLES
    sig,            \* the signal
    now, heard,     \* the clock; an update has been handled in this unit
    feed,           \* "up", "silent" (no ticks published) or "down" (Redis gone)
    pc, why,        \* the await the task is at; why execute_trade returned
    waitStart,      \* start_time of _wait_for_trigger
    monStart, lastCheck, closeDt,   \* locals of _monitor_position
    confirms, syncs,                \* polls and attempts made
    orders,         \* POST /positions/otc requests made for this signal
    deal,           \* the broker's verdict: "none", "pending", "accepted", "rejected"
    position,       \* the broker's position
    pnl,            \* the sign of its profit; one whose text does not parse is read as 0
    booked,         \* its closing activity and transaction are in the history
    record,         \* the TradeExecution row
    signalRow,      \* the TradeSignal row exists
    closeFails,     \* history: forced closes that raised
    closeRefused,   \* history: an open position's forced close was answered but refused
    gap             \* history: the feed was not up at some time of the monitoring

task   == <<pc, why, waitStart, monStart, lastCheck, closeDt, confirms, syncs, orders>>
broker == <<deal, position, pnl, booked>>
rows   == <<record, signalRow>>
hist   == <<closeFails, closeRefused, gap>>
vars   == <<sig, now, heard, feed, task, broker, rows, hist>>

Reasons == {"running", "dryRun", "expired", "streamLost", "orderError", "rejected",
            "noDealId", "saveError", "unmonitored", "monitorTimeout", "settled",
            "noRecord", "unsynced", "crash"}
Steps == {"start", "wait", "order", "confirm", "save", "monitor", "check", "close",
          "sync", "ended"}
Results == {"gain", "flat", "loss"}

Init ==
    /\ sig \in Signals
    /\ now = 0 /\ heard = FALSE /\ feed = "up"
    /\ pc = "start" /\ why = "running"
    /\ waitStart = NoTime /\ monStart = NoTime /\ lastCheck = NoTime /\ closeDt = NoTime
    /\ confirms = 0 /\ syncs = 0 /\ orders = 0
    /\ deal = "none" /\ position = "none" /\ pnl = "none" /\ booked = FALSE
    /\ record = "none" /\ signalRow = TRUE
    /\ closeFails = 0 /\ closeRefused = FALSE /\ gap = FALSE

\* The task moves to another await, or execute_trade returns.
GoTo(step)     == pc' = step /\ why' = why
Return(reason) == pc' = "ended" /\ why' = reason

-----------------------------------------------------------------------------
(* The broker's endpoints.  A call is answered; or it raises, be it that the API refuses or *)
(* fails it or that the answer is lost, and then it may have been executed or not.          *)

\* create_order
Ordered(answered) == deal' = "pending" \/ (~answered /\ deal' = deal)

\* fetch_deal_confirmation: what a poll may see
Confirmations == {"failed", deal}

\* fetch_open_positions: whether the position is among them
PositionsSeen == {"failed", position}

\* fetch_activity_history and fetch_transaction_history: the profit, once both the closing
\* deal and its transaction are there
History == IF booked THEN {pnl} ELSE {}

\* close_open_position: filled; or not, though it may be answered
Closed == \/ position = "open" /\ position' = "closed" /\ pnl' \in Results
          \/ UNCHANGED <<position, pnl>>

-----------------------------------------------------------------------------
(* execute_trade up to the order *)

Start ==
    /\ pc = "start"
    /\ \/ sig.dry /\ Return("dryRun") /\ UNCHANGED <<waitStart, heard>>
       \/ ~sig.dry /\ sig.entry = "INSTANT" /\ GoTo("order") /\ UNCHANGED <<waitStart, heard>>
       \/ ~sig.dry /\ sig.entry # "INSTANT" /\ GoTo("wait") /\ waitStart' = now /\ heard' = FALSE
    /\ UNCHANGED <<sig, now, feed, monStart, lastCheck, closeDt, confirms, syncs, orders,
                   broker, rows, hist>>

TriggerNeverExpires == FALSE
TriggerExpired == now - waitStart > TriggerTimeout

\* The quote is complete, its spread is acceptable and it touches the entry.
Triggered(bid, offer) ==
    /\ bid # 0 /\ offer # 0
    /\ offer - bid <= SpreadLimit /\ bid - offer <= SpreadLimit
    /\ CASE sig.dir = "BUY"  /\ sig.entry = "BREAKOUT" -> offer >= Target
         [] sig.dir = "BUY"  /\ sig.entry = "PULLBACK" -> offer <= Target
         [] sig.dir = "SELL" /\ sig.entry = "BREAKOUT" -> bid <= Target
         [] sig.dir = "SELL" /\ sig.entry = "PULLBACK" -> bid >= Target
         [] OTHER -> FALSE

\* One update of the stream while waiting.  The timeout is looked at only here.
WaitForTrigger(bid, offer) ==
    /\ pc = "wait" /\ feed = "up"
    /\ heard' = TRUE
    /\ \/ TriggerExpired /\ Return("expired")
       \/ ~TriggerExpired /\ Triggered(bid, offer) /\ GoTo("order")
       \/ ~TriggerExpired /\ ~Triggered(bid, offer) /\ UNCHANGED <<pc, why>>
    /\ UNCHANGED <<sig, now, feed, waitStart, monStart, lastCheck, closeDt, confirms, syncs,
                   orders, broker, rows, hist>>

\* Redis drops: the ConnectionError leaves stream() and ends whoever iterates it.
StreamLost ==
    /\ pc \in {"wait", "monitor"} /\ feed = "down"
    /\ Return("streamLost")
    /\ UNCHANGED <<sig, now, heard, feed, waitStart, monStart, lastCheck, closeDt, confirms,
                   syncs, orders, broker, rows, hist>>

ResendAfterOrderError == GoTo("order")
AfterOrderError == Return("orderError")

CreateOrder ==
    /\ pc = "order"
    /\ orders' = orders + 1
    /\ \E answered \in BOOLEAN :
          Ordered(answered) /\ IF answered THEN GoTo("confirm") ELSE AfterOrderError
    /\ UNCHANGED <<sig, now, heard, feed, waitStart, monStart, lastCheck, closeDt, confirms,
                   syncs, position, pnl, booked, rows, hist>>

\* The market order is filled or refused by the broker some time after the answer.
BrokerDecides ==
    /\ deal = "pending"
    /\ \/ deal' = "accepted" /\ position' = "open"
       \/ deal' = "rejected" /\ position' = position
    /\ UNCHANGED <<sig, now, heard, feed, task, pnl, booked, rows, hist>>

Undecided(status) == status # "accepted"
Refused(status)   == status = "rejected"

\* One poll for the confirmation; errors are swallowed.
PollConfirmation ==
    /\ pc = "confirm"
    /\ \E status \in Confirmations :
          \/ status = "accepted" /\ GoTo("save") /\ UNCHANGED confirms
          \/ Refused(status) /\ Return("rejected") /\ UNCHANGED confirms
          \/ /\ status \notin {"accepted", "rejected"} /\ confirms' = confirms + 1
             /\ IF confirms' = MaxConfirms THEN Return("noDealId") ELSE GoTo("confirm")
    /\ UNCHANGED <<sig, now, heard, feed, waitStart, monStart, lastCheck, closeDt, syncs,
                   orders, broker, rows, hist>>

\* The next close: today's, or tomorrow's once today's has passed.
NextClose == IF now > CloseAt THEN CloseAt + Day ELSE CloseAt

StartMonitor ==
    /\ GoTo("monitor")
    /\ monStart' = now /\ lastCheck' = now
    /\ closeDt' \in {NextClose, NoTime}   \* NoTime: get_market_close_datetime raised
    /\ gap' = (feed # "up") /\ heard' = FALSE

\* _save_execution: committed, failed, or committed with the acknowledgement lost.
\* The row refers to the signal's, so it cannot be inserted once that is deleted.
SaveExecution ==
    /\ pc = "save"
    /\ \/ /\ signalRow /\ record' = "OPEN"
          /\ \/ sig.trailing /\ StartMonitor
             \/ /\ ~sig.trailing /\ Return("unmonitored")
                /\ UNCHANGED <<monStart, lastCheck, closeDt, gap, heard>>
       \/ /\ record' \in {record} \union (IF signalRow THEN {"OPEN"} ELSE {})
          /\ Return("saveError")
          /\ UNCHANGED <<monStart, lastCheck, closeDt, gap, heard>>
    /\ UNCHANGED <<sig, now, feed, waitStart, confirms, syncs, orders, broker, signalRow,
                   closeFails, closeRefused>>

-----------------------------------------------------------------------------
(* _monitor_position *)

MonitorNeverExpires == FALSE
MonitorExpired == now - monStart > MonitorTimeout
CheckDue       == now - lastCheck > CheckPeriod
PastClose      == closeDt # NoTime /\ now >= closeDt /\ now - closeDt < CloseWindow
NearClose      == closeDt # NoTime /\ 0 < closeDt - now /\ closeDt - now < CloseWindow

\* One update of the stream while monitoring, up to its first await.
HearUpdate ==
    /\ pc = "monitor" /\ feed = "up"
    /\ heard' = TRUE
    /\ \/ MonitorExpired /\ Return("monitorTimeout") /\ UNCHANGED lastCheck
       \/ ~MonitorExpired /\ CheckDue /\ lastCheck' = now /\ GoTo("check")
       \/ ~MonitorExpired /\ ~CheckDue /\ UNCHANGED <<pc, why, lastCheck>>
    /\ UNCHANGED <<sig, now, feed, waitStart, monStart, closeDt, confirms, syncs, orders,
                   broker, rows, hist>>

\* _is_position_open: a failed call counts as open.
SeenOpenIfAnswered(seen) == seen = "open"
SeenOpen(seen) == seen \in {"open", "failed"}

CheckPosition ==
    /\ pc = "check"
    /\ \E seen \in PositionsSeen :
          IF ~SeenOpen(seen) THEN GoTo("sync")
          ELSE IF NearClose THEN GoTo("close") ELSE GoTo("monitor")
    /\ UNCHANGED <<sig, now, heard, feed, waitStart, monStart, lastCheck, closeDt, confirms,
                   syncs, orders, broker, rows, hist>>

LeaveAfterCloseError == GoTo("sync")
AfterCloseError == GoTo("monitor")

\* The close near the market's close: an answer is taken for a success, whatever the broker
\* made of the deal.
ForceClose ==
    /\ pc = "close"
    /\ Closed
    /\ \E answered \in BOOLEAN :
          /\ IF answered THEN GoTo("sync") ELSE AfterCloseError
          /\ closeRefused' = (closeRefused \/ (answered /\ position' = "open"))
          /\ closeFails' = closeFails + IF answered \/ position' # position THEN 0 ELSE 1
    /\ closeFails' <= MaxCloseFails
    /\ UNCHANGED <<sig, now, heard, feed, waitStart, monStart, lastCheck, closeDt, confirms,
                   syncs, orders, deal, booked, rows, gap>>

FlatWinsOutcomeOf(profit) == IF profit # "loss" THEN "WIN" ELSE "LOSS"
OutcomeOf(profit) == IF profit = "gain" THEN "WIN" ELSE "LOSS"

\* The row is there, and the history has what it needs.
RowFound == record \notin {"none", "deleted"}
Settled  == {OutcomeOf(profit) : profit \in IF RowFound THEN History ELSE {}}

\* One attempt of _sync_outcome: settled; without a row; or failed, at the latest by a
\* commit whose acknowledgement is lost.
SyncOutcome ==
    /\ pc = "sync"
    /\ \/ record' \in Settled /\ Return("settled") /\ UNCHANGED syncs
       \/ ~RowFound /\ Return("noRecord") /\ UNCHANGED <<syncs, record>>
       \/ /\ record' \in Settled \union {record}
          /\ syncs' = syncs + 1
          /\ IF syncs' = MaxSyncs THEN Return("unsynced") ELSE GoTo("sync")
    /\ UNCHANGED <<sig, now, heard, feed, waitStart, monStart, lastCheck, closeDt, confirms,
                   orders, broker, signalRow, hist>>

-----------------------------------------------------------------------------
(* The surroundings *)

\* The stop or the limit is hit, or the user closes the position at the broker.
BrokerCloses ==
    /\ position = "open"
    /\ position' = "closed" /\ pnl' \in Results
    /\ UNCHANGED <<sig, now, heard, feed, task, deal, booked, rows, hist>>

HistoryAppears ==
    /\ position = "closed" /\ ~booked
    /\ booked' = TRUE
    /\ UNCHANGED <<sig, now, heard, feed, task, deal, position, pnl, rows, hist>>

\* delete_signal_record, from the dashboard.
DeleteSignal ==
    /\ signalRow /\ signalRow' = FALSE
    /\ record' = IF record = "none" THEN "none" ELSE "deleted"
    /\ UNCHANGED <<sig, now, heard, feed, task, broker, hist>>

\* The trader process dies.  Nothing resumes the trade when it is restarted.
Crash ==
    /\ pc # "ended" /\ Return("crash")
    /\ UNCHANGED <<sig, now, heard, feed, waitStart, monStart, lastCheck, closeDt, confirms,
                   syncs, orders, broker, rows, hist>>

FeedChanges ==
    /\ feed' \in {"up", "silent", "down"} \ {feed}
    /\ gap' = (gap \/ (monStart # NoTime /\ pc # "ended" /\ feed' # "up"))
    /\ UNCHANGED <<sig, now, heard, task, broker, rows, closeFails, closeRefused>>

\* Time passes while the task listens, once a live feed has been heard.
Tick ==
    /\ now < MaxTime
    /\ \/ pc = "ended"
       \/ pc \in {"wait", "monitor"} /\ (feed = "up" => heard) /\ feed # "down"
    /\ now' = now + 1 /\ heard' = FALSE
    /\ UNCHANGED <<sig, feed, task, broker, rows, hist>>

HearPrice == \E bid, offer \in Prices : WaitForTrigger(bid, offer)
Call      == CreateOrder \/ PollConfirmation \/ SaveExecution \/ CheckPosition
                \/ ForceClose \/ SyncOutcome
Outside   == BrokerDecides \/ BrokerCloses \/ HistoryAppears \/ DeleteSignal
                \/ Crash \/ FeedChanges

Next == Start \/ HearPrice \/ StreamLost \/ HearUpdate \/ Call \/ Tick \/ Outside

Spec == Init /\ [][Next]_vars

\* Every call returns (the client has timeouts); time passes; an update is handled, and a
\* dropped connection noticed, sooner or later if the feed is up, or down, again and again.
Fairness ==
    /\ WF_vars(Start) /\ WF_vars(Call) /\ SF_vars(Tick)
    /\ SF_vars(StreamLost) /\ SF_vars(HearPrice) /\ SF_vars(HearUpdate)

FairSpec == Spec /\ Fairness

-----------------------------------------------------------------------------
(* Properties *)

ValueTypes ==
    /\ sig \in Signals /\ now \in Nat /\ feed \in {"up", "silent", "down"}
    /\ pc \in Steps /\ why \in Reasons
    /\ waitStart \in Time /\ monStart \in Time /\ lastCheck \in Time /\ closeDt \in Time
    /\ confirms \in 0..MaxConfirms /\ syncs \in 0..MaxSyncs /\ orders \in Nat
    /\ deal \in {"none", "pending", "accepted", "rejected"}
    /\ position \in {"none", "open", "closed"} /\ pnl \in {"none"} \union Results
    /\ record \in {"none", "OPEN", "WIN", "LOSS", "deleted"}
    /\ closeFails \in 0..MaxCloseFails

FlagTypes ==
    /\ heard \in BOOLEAN /\ booked \in BOOLEAN /\ signalRow \in BOOLEAN
    /\ closeRefused \in BOOLEAN /\ gap \in BOOLEAN

TypeOK == ValueTypes /\ FlagTypes

\* At most one order request is made for a signal, however the request ends: an order
\* whose answer was lost may be live, so it is never sent again.
OneOrderPerSignal == orders <= 1

\* A position nobody recorded exists only after one of four failures: the order's answer
\* was lost, no poll returned the deal id, the row was not saved, or the process died.
OrphanOnlyAfterFailure ==
    (position = "open" /\ record = "none" /\ pc = "ended")
        => why \in {"orderError", "noDealId", "saveError", "crash"}

\* The monitor leaves a position through the outcome sync only when it is closed, unless
\* the broker refused a forced close that the API had answered.
SyncsOnlyClosedPositions ==
    (pc = "sync" \/ why \in {"settled", "noRecord", "unsynced"}) /\ ~closeRefused
        => position = "closed"

\* A watched, open position is given up only on the 8 h timeout, the loss of Redis, a
\* refused forced close, an unacknowledged save or the death of the process.
WatchedUntilClosed ==
    (pc = "ended" /\ position = "open" /\ record # "none" /\ sig.trailing)
        => \/ why \in {"monitorTimeout", "streamLost", "saveError", "crash"}
           \/ closeRefused

\* A position watched since before the closing window is closed by the time its market
\* closes, as long as fewer forced closes fail than the window has room to retry,
\* the feed stays up, no close is refused and the 8 h are not over before the close.
FlatAtClose ==
    (/\ monStart # NoTime /\ closeDt # NoTime
     /\ monStart + CloseWindow <= CloseAt
     /\ CloseAt - monStart <= MonitorTimeout
     /\ (closeFails + 1) * (CheckPeriod + 1) < CloseWindow
     /\ ~gap /\ ~closeRefused /\ why \notin {"crash", "streamLost"}
     /\ now >= CloseAt)
        => position # "open"

\* An order goes out only for a signal whose trigger window is still open when the update
\* that triggers it is handled, however long the feed was silent before.
NoLateOrder ==
    [][(pc = "order" /\ pc' # "order" /\ waitStart # NoTime /\ why' # "crash")
            => now - waitStart <= TriggerTimeout]_vars

\* The trade's run, its order, the position and the row only ever change as the trade table
\* promises, whatever fails; read from the state of the task and of the broker.
Decision(verdict) == IF verdict \in {"accepted", "rejected"} THEN "decided" ELSE verdict
Ledger == INSTANCE TradeLedger WITH running <- pc # "ended", order <- Decision(deal)
ImplementsLedger == Ledger!LedgerSpec

\* Every trade ends, unless from some time on the feed is silent for good: the timeouts
\* are looked at only when an update arrives.
EndsUnlessSilent == <>(pc = "ended") \/ <>[](feed = "silent")

\* TRADING.md: "Executor checks for force_close ... Any open intraday positions are closed
\* to avoid overnight gap risk" at the close.  Nothing has failed, and the trade has
\* been recorded and watched from before the close on.
IntradayClosedAtClose ==
    (/\ record = "OPEN" /\ monStart # NoTime /\ monStart + CloseWindow <= CloseAt
     /\ closeDt # NoTime /\ closeFails = 0 /\ ~closeRefused /\ ~gap
     /\ why \notin {"crash", "streamLost"}
     /\ now >= CloseAt)
        => position # "open"
=============================================================================
