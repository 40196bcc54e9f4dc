------------------------------ MODULE TrailingStop ------------------------------
(***************************************************************************)
(* How _monitor_position (src/app/services/executor.py) moves the stop of  *)
(* an open position: to the entry once the trade has earned                *)
(* BREAKEVEN_TRIGGER_R times its risk, and from then on at a fixed         *)
(* distance behind the price.  The stop lives in three places that are     *)
(* updated one await after the other: at the broker, on the row, and in    *)
(* the local variable current_stop that the next decision is taken from.   *)
(*                                                                         *)
(* Prices are integers; the broker takes a trailing stop on a grid (one    *)
(* decimal), and rounding goes to a nearest point of it.  An update within *)
(* 5 s of the last handled one is dropped, which is the same as not having *)
(* received it.                                                            *)
(***************************************************************************)
EXTENDS Integers

CONSTANTS
    Prices,         \* the prices at which the position could be closed
    Trades,         \* the trades: [dir, entry, stop]
    TrailDistance,  \* 3 ATR
    StepSize,       \* a tenth of the ATR
    TriggerNum, TriggerDen,     \* BREAKEVEN_TRIGGER_R as a fraction
    Grid            \* the distance of two stop levels

ASSUME NumbersAssumption ==
    /\ Prices \subseteq Int
    /\ Trades \subseteq [dir : {"BUY", "SELL"}, entry : Int, stop : Int]
    /\ TrailDistance \in Nat /\ StepSize \in Nat /\ Grid \in Nat \ {0}
    /\ TriggerNum \in Nat \ {0} /\ TriggerDen \in Nat \ {0}

\* Rounding moves a stop by less than the step that makes it worth moving: the ATR is
\* at least half a point, as it is for the index markets traded.
ASSUME GridAssumption == Grid <= 2 * StepSize

VARIABLES
    trade,          \* direction, entry_price and the initial stop
    price,          \* current_price of the update being handled, or handled last
    stop,           \* current_stop
    moved,          \* moved_to_breakeven
    wanted,         \* the level being sent to the broker
    brokerStop,     \* the stop the position has at the broker
    rowStop,        \* current_stop_loss of the row
    pc,             \* the await of the handler
    failed,         \* history: an update of the stop raised while this price was handled
    refused         \* history: the broker refused an update the API had answered

vars == <<trade, price, stop, moved, wanted, brokerStop, rowStop, pc, failed, refused>>

Steps == {"listen", "amendBE", "recordBE", "amendTrail", "recordTrail"}

\* How far x lies on the profitable side of y.
Gain(x, y) == IF trade.dir = "BUY" THEN x - y ELSE y - x

Init ==
    /\ trade \in Trades
    /\ price = trade.entry /\ stop = trade.stop /\ wanted = trade.stop
    /\ brokerStop = trade.stop /\ rowStop = trade.stop
    /\ moved = FALSE /\ pc = "listen" /\ failed = FALSE /\ refused = FALSE

RiskDistance == IF trade.entry >= trade.stop THEN trade.entry - trade.stop
                                             ELSE trade.stop - trade.entry

LateBreakevenDue(p) ==
    RiskDistance > 0 /\ TriggerDen * Gain(p, trade.entry) > TriggerNum * RiskDistance
BreakevenDue(p) ==
    /\ RiskDistance > 0
    /\ TriggerDen * Gain(p, trade.entry) >= TriggerNum * RiskDistance

\* The level that lies the trailing distance behind p.
Behind(p) == IF trade.dir = "BUY" THEN p - TrailDistance ELSE p + TrailDistance

\* The points of the grid nearest to x; of two, Python takes the even one.
GridBelow(x) == {x - (x % Grid) - Grid}
Rounded(x) == {c \in (x - Grid)..(x + Grid) :
                  c % Grid = 0 /\ 2 * (c - x) <= Grid /\ 2 * (x - c) <= Grid}

PriceBeyondStop(p, current) == Gain(p, current) > StepSize
TrailDue(p, current) == Gain(Behind(p), current) > StepSize

\* Rule 2, with no await before it: trail behind p, or wait for the next update.
Trail(p, current, active) ==
    \/ active /\ TrailDue(p, current) /\ wanted' \in Rounded(Behind(p)) /\ pc' = "amendTrail"
    \/ ~(active /\ TrailDue(p, current)) /\ pc' = "listen" /\ UNCHANGED wanted

Improves(level) == Gain(level, stop) > 0

\* A price update up to its first await.
HandlePrice(p) ==
    /\ pc = "listen"
    /\ price' = p /\ failed' = FALSE
    /\ IF ~moved /\ BreakevenDue(p) /\ Improves(trade.entry)
         THEN wanted' = trade.entry /\ pc' = "amendBE"
         ELSE Trail(p, stop, moved)
    /\ UNCHANGED <<trade, stop, moved, brokerStop, rowStop, refused>>

\* An update that raised leaves current_stop alone and ends the handling of the price.
AdoptAnyway == pc' = "listen" /\ failed' = TRUE /\ stop' = wanted /\ moved' = TRUE
                /\ UNCHANGED wanted
GiveUp == pc' = "listen" /\ failed' = TRUE /\ UNCHANGED <<wanted, stop, moved>>

\* update_open_position: applied; answered but refused by the broker; applied with the
\* answer lost; failed.
AmendPosition ==
    /\ pc \in {"amendBE", "amendTrail"}
    /\ \/ /\ brokerStop' = wanted \/ brokerStop' = brokerStop
          /\ refused' = (refused \/ brokerStop' # wanted)
          /\ pc' = IF pc = "amendBE" THEN "recordBE" ELSE "recordTrail"
          /\ UNCHANGED <<wanted, failed, stop, moved>>
       \/ /\ brokerStop' \in {wanted, brokerStop}
          /\ GiveUp /\ UNCHANGED refused
    /\ UNCHANGED <<trade, price, rowStop>>

\* current_stop and moved_to_breakeven after a successful update.
Adopt ==
    /\ stop' = wanted /\ failed' = failed
    /\ \/ pc = "recordBE" /\ moved' = TRUE /\ Trail(price, wanted, TRUE)
       \/ pc = "recordTrail" /\ moved' = moved /\ pc' = "listen" /\ UNCHANGED wanted

\* _update_execution_stop: committed, or no row to update; failed, before or after the
\* commit.
RecordStop ==
    /\ pc \in {"recordBE", "recordTrail"}
    /\ rowStop' \in {wanted, rowStop}
    /\ Adopt \/ GiveUp
    /\ UNCHANGED <<trade, price, brokerStop, refused>>

Next == (\E p \in Prices : HandlePrice(p)) \/ AmendPosition \/ RecordStop

Spec == Init /\ [][Next]_vars

-----------------------------------------------------------------------------
(* Properties *)

OnGrid == {x \in Int : x % Grid = 0}

\* A trailing stop is sent in the precision the broker takes.
TypeOK ==
    /\ trade \in Trades /\ price \in Int /\ stop \in Int /\ wanted \in Int
    /\ brokerStop \in Int /\ rowStop \in Int
    /\ pc \in Steps
    /\ pc \in {"amendTrail", "recordTrail"} => wanted \in OnGrid
    /\ moved \in BOOLEAN /\ failed \in BOOLEAN /\ refused \in BOOLEAN

\* Every level ever sent to the broker tightens the stop the executor knows of, rounding
\* included: the known stop never moves away from the price.
StopOnlyTightens == [][Gain(stop', stop) >= 0]_vars

\* The position's real stop is at least as tight as the one the executor works with,
\* unless the broker refused an update it had taken in: lost answers and failed rows
\* leave the broker ahead, never behind.
BrokerNoLooser == ~refused => Gain(brokerStop, stop) >= 0

\* The broker's stop is loosened only while it is not the one the executor knows, that is
\* after an update that raised although it was applied.
LoosenedOnlyUnknowing == [][Gain(brokerStop', brokerStop) < 0 => brokerStop # stop]_vars

\* After the move to breakeven the position cannot lose any more (slippage aside).
BreakevenLocked == moved /\ ~refused => Gain(brokerStop, trade.entry) >= 0

\* When a price at the breakeven trigger has been handled and no update failed, the stop
\* has been moved, provided the trade's initial stop was on the losing side.
BreakevenReached ==
    (/\ pc = "listen" /\ ~failed
     /\ RiskDistance > 0 /\ Gain(trade.entry, trade.stop) > 0
     /\ TriggerDen * Gain(price, trade.entry) >= TriggerNum * RiskDistance)
        => moved

\* A trade past breakeven gives back no more than the trailing distance and one step:
\* handling a price without a failure leaves the stop that close behind it.
TrailKeepsUp ==
    (pc = "listen" /\ ~failed /\ moved) => Gain(price, stop) <= TrailDistance + StepSize
=============================================================================
