------------------------------ MODULE CandleStore ------------------------------
(***************************************************************************)
(* The candles of one market.  The streamer builds them from the ticks it  *)
(* hears (src/app/streamer/candle_builder.py) and stores each when the     *)
(* next one begins; the trader, another process, reads the latest ones     *)
(* (src/app/services/market_data.py) and first downloads from the broker   *)
(* what it misses (src/app/services/collector.py).  Both insert into the   *)
(* table historical_candles, whose key is the candle's timeframe and time. *)
(*                                                                         *)
(* Time is in minutes.  ticks is what the broker quoted, and so what the   *)
(* candles it serves are made of.  A tick reaches on_tick some time later, *)
(* through the node process, its pipe, the publishing of the price and the *)
(* inserts the ticks before it wait for, and is dated only then.           *)
(***************************************************************************)
EXTENDS Integers, FiniteSets, Sequences, SequencesExt, FiniteSetsExt

CONSTANTS
    Timeframes, \* the lengths of candles in minutes, in the order on_tick goes through them
    Prices,
    Points,     \* num_points of a reader
    Offsets,    \* how many minutes the zone of the account may be ahead of UTC
    Absent,     \* bound: the sets of prices the broker may leave out of a candle
    Horizon,    \* bound: the last minute
    MaxTicks,   \* bound: ticks quoted
    MaxDelay,   \* bound: how many minutes a tick may be on its way, or a call may take
    Asked,      \* bound: the timeframes readers ask for, and the minutes they do
    MaxCalls,   \* bound: calls of get_latest_candles
    MaxFaults,  \* bound: losses of ticks, failed or cancelled inserts, deaths of the streamer,
                \* candles with prices left out (after the others)
    None

Intervals == Range(Timeframes)
Minutes == 0 .. Horizon

ASSUME TimeframesAssumption == Timeframes \in Seq(Nat \ {0}) /\ IsInjective(Timeframes)
ASSUME NumbersAssumption ==
    /\ Prices \subseteq Int /\ Offsets \subseteq Int
    /\ {} \in Absent
    /\ Points \in Nat \ {0}
    /\ Horizon \in Nat /\ MaxTicks \in Nat /\ MaxDelay \in Nat /\ MaxCalls \in Nat
    /\ MaxFaults \in Nat /\ Asked \subseteq Intervals \X Minutes

VARIABLES
    minute,     \* the clock
    ticks,      \* all the broker quoted: price and minute of each
    dated,      \* the minute on_tick gave each so far, or None if it did not get it
    forming,    \* the builder's state: the candle of each timeframe, or None
    work,       \* the timeframes on_tick has still to process for the last dated tick
    rows,       \* historical_candles: by timeframe and time, a candle or None
    lost,       \* candles of which the builder missed a tick
    unsaved,    \* candles whose insert failed
    early,      \* candles downloaded before their time was over
    pc,         \* of get_latest_candles: "idle", "fetch", "check", "insert" or "read"
    call,       \* what it works on
    calls,
    faults

builder == <<dated, forming, work, lost, unsaved, faults>>
reader == <<early, pc, call, calls>>
vars == <<minute, ticks, builder, rows, reader>>

\* The time of the candle of length i a minute belongs to.
Unfloored(i, t) == t
Bucket(i, t) == (t \div i) * i

-----------------------------------------------------------------------------
(* What the broker's candle of a time is: the reference for both writers. *)

InBucket(i, b) == {k \in DOMAIN ticks : Bucket(i, ticks[k].minute) = b}

Bar(i, b) ==
    LET ks == InBucket(i, b)
        prices == {ticks[k].price : k \in ks}
    IN  [bucket |-> b, open |-> ticks[Min(ks)].price, close |-> ticks[Max(ks)].price,
         high |-> Max(prices), low |-> Min(prices), volume |-> Cardinality(ks)]

Bars(i) == {Bar(i, b) : b \in {Bucket(i, ticks[k].minute) : k \in DOMAIN ticks}}

Stored(i) == {rows[i][b] : b \in {t \in Minutes : rows[i][t] # None}}

Latest(candles) == Max({c.bucket : c \in candles})

\* The last n of a set of candles.
Newest(candles, n) ==
    {c \in candles : Cardinality({d \in candles : d.bucket > c.bucket}) < n}

-----------------------------------------------------------------------------

\* A price of 0 is one that was left out.
Stated == Prices \union {0}
Candle == [bucket: Minutes, open: Stated, close: Stated, high: Stated, low: Stated,
           volume: 1 .. MaxTicks]
Keys == Intervals \X Minutes

\* None is no candle, no number and no kind of download.
ASSUME NoneAssumption ==
    None \notin Candle /\ None \notin Int /\ None \notin {"full", "delta", "cached"}

NoCall == [interval |-> None, kind |-> None, from |-> None, at |-> None, open |-> None,
           offset |-> None, candles |-> {}]

CandlesAreStoredAtTheirTime ==
    \A i \in Intervals : \A b \in Minutes :
        rows[i][b] # None => rows[i][b] \in Candle /\ rows[i][b].bucket = b /\ b % i = 0

TypeOK ==
    /\ minute \in Minutes /\ calls \in 0 .. MaxCalls /\ faults \in 0 .. MaxFaults
    /\ Len(ticks) <= MaxTicks
    /\ \A k \in DOMAIN ticks : ticks[k] \in [price: Prices, minute: Minutes]
    /\ Len(dated) <= Len(ticks) /\ Range(dated) \subseteq Minutes \union {None}
    /\ DOMAIN forming = Intervals
    /\ \A i \in Intervals : forming[i] # None => forming[i] \in Candle
    /\ IsSuffix(work, Timeframes)
    /\ DOMAIN rows = Intervals
    /\ CandlesAreStoredAtTheirTime
    /\ lost \subseteq Keys /\ unsaved \subseteq Keys /\ early \subseteq Keys
    /\ pc \in {"idle", "fetch", "check", "insert", "read"}
    /\ call.kind \in {"full", "delta", "cached", None} /\ (call = NoCall <=> pc = "idle")

Init ==
    /\ minute = 0 /\ ticks = <<>> /\ dated = <<>>
    /\ forming = [i \in Intervals |-> None]
    /\ work = <<>>
    /\ rows = [i \in Intervals |-> [b \in Minutes |-> None]]
    /\ lost = {} /\ unsaved = {} /\ early = {}
    /\ pc = "idle" /\ call = NoCall /\ calls = 0 /\ faults = 0

-----------------------------------------------------------------------------
(* The builder *)

\* The ticks on their way to on_tick, in the order they were quoted.
Waiting == Len(dated) + 1 .. Len(ticks)

\* The tick on_tick works on, with the minute it gave it.
LastTick == [price |-> ticks[Len(dated)].price, minute |-> dated[Len(dated)]]

Fault == faults < MaxFaults /\ faults' = faults + 1

Quote(p) ==
    /\ Len(ticks) < MaxTicks
    /\ ticks' = Append(ticks, [price |-> p, minute |-> minute])
    /\ UNCHANGED <<minute, builder, rows, reader>>

\* on_tick starts on the next tick, once it has done with the one before, and takes the time.
Take ==
    /\ work = <<>> /\ Waiting # {}
    /\ dated' = Append(dated, minute)
    /\ work' = Timeframes
    /\ UNCHANGED <<minute, ticks, forming, lost, unsaved, faults, rows, reader>>

\* The next n ticks do not come.
Dropped(n) == dated \o [k \in 1 .. n |-> None]
CandlesOf(n) ==
    {<<i, Bucket(i, ticks[Len(dated) + k].minute)>> : i \in Intervals, k \in 1 .. n}

\* They were never heard, not fit to use, or left in the pipe of a node process that ended.
Miss ==
    /\ work = <<>>
    /\ \E n \in 1 .. Cardinality(Waiting) :
          dated' = Dropped(n) /\ lost' = lost \union CandlesOf(n)
    /\ Fault
    /\ UNCHANGED <<minute, ticks, forming, work, unsaved, rows, reader>>

Begun(b, p) == [bucket |-> b, open |-> p, close |-> p, high |-> p, low |-> p, volume |-> 1]

UpdatedWithoutLow(c, p) ==
    [c EXCEPT !.high = IF p > @ THEN p ELSE @, !.close = p, !.volume = @ + 1]
Updated(c, p) ==
    [c EXCEPT !.high = IF p > @ THEN p ELSE @, !.low = IF p < @ THEN p ELSE @,
              !.close = p, !.volume = @ + 1]

NewBucket(i, b) == forming[i] # None => b > forming[i].bucket

\* The table with a candle inserted, unless there is one of its time already.
Overwritten(i, c) == [rows EXCEPT ![i][c.bucket] = c]
Inserted(i, c) == IF rows[i][c.bucket] = None THEN [rows EXCEPT ![i][c.bucket] = c] ELSE rows

\* The tick belongs to the candle that is forming.
Update ==
    /\ work # <<>>
    /\ LET i == Head(work) IN
       /\ ~NewBucket(i, Bucket(i, LastTick.minute))
       /\ forming' = [forming EXCEPT ![i] = Updated(@, LastTick.price)]
    /\ work' = Tail(work)
    /\ UNCHANGED <<minute, ticks, dated, lost, unsaved, faults, rows, reader>>

\* It begins the next one: the last one is stored, and a failure to store it is only logged.
Begin ==
    /\ work # <<>>
    /\ LET i == Head(work)
           b == Bucket(i, LastTick.minute)
       IN  /\ NewBucket(i, b)
           /\ forming' = [forming EXCEPT ![i] = Begun(b, LastTick.price)]
           /\ IF forming[i] = None
              THEN UNCHANGED <<rows, unsaved, faults>>
              ELSE \/ rows' = Inserted(i, forming[i]) /\ UNCHANGED <<unsaved, faults>>
                   \/ /\ unsaved' = unsaved \union {<<i, forming[i].bucket>>}
                      /\ Fault /\ UNCHANGED rows
    /\ work' = Tail(work)
    /\ UNCHANGED <<minute, ticks, dated, lost, reader>>

\* The new candle replaces the old one only after the insert.
FormingBegun(i) == [forming EXCEPT ![i] = Begun(Bucket(i, LastTick.minute), LastTick.price)]
FormingKept(i) == forming

\* The node process ends in the middle of the insert: the reader of its pipe is cancelled,
\* and the tick is lost to the timeframes that are left, as is all that waits in the pipe.
Cancel ==
    /\ work # <<>>
    /\ LET i == Head(work) IN
       /\ forming[i] # None /\ NewBucket(i, Bucket(i, LastTick.minute))
       /\ rows' \in {Inserted(i, forming[i]), rows}
       /\ forming' = FormingKept(i)
    /\ lost' = lost \union {<<j, Bucket(j, LastTick.minute)>> : j \in Range(work)}
                    \union CandlesOf(Cardinality(Waiting))
    /\ dated' = Dropped(Cardinality(Waiting))
    /\ work' = <<>>
    /\ Fault
    /\ UNCHANGED <<minute, ticks, unsaved, reader>>

\* The streamer dies and starts anew: the ticks of the candles that were forming are lost,
\* and those on their way.
Restart ==
    /\ lost' = lost \union {<<i, forming[i].bucket>> : i \in {j \in Intervals : forming[j] # None}}
                    \union {<<i, Bucket(i, LastTick.minute)>> : i \in Range(work)}
                    \union CandlesOf(Cardinality(Waiting))
    /\ dated' = Dropped(Cardinality(Waiting))
    /\ forming' = [i \in Intervals |-> None]
    /\ work' = <<>>
    /\ Fault
    /\ UNCHANGED <<minute, ticks, unsaved, rows, reader>>

-----------------------------------------------------------------------------
(* The reader *)

\* Half minutes since the latest stored candle began: e tells where in the minute we are.
Age(i, e) == 2 * (minute - Latest(Stored(i))) + e

\* max_age_seconds: two candles.
NeverTooOld(i, age) == FALSE
TooOld(i, age) == age > 2 * (2 * i)

\* The gap is more than one and a half times what was asked for.
WideGap(i, age) == age > 3 * Points * i

Kind(i, e) ==
    IF Stored(i) = {} THEN "full"
    ELSE IF TooOld(i, Age(i, e)) THEN IF WideGap(i, Age(i, e)) THEN "full" ELSE "delta"
    ELSE IF Cardinality(Stored(i)) < Points THEN "full" ELSE "cached"

\* A call looks at the table and decides what to download.
Ask(i, e) ==
    /\ pc = "idle" /\ calls < MaxCalls /\ <<i, minute>> \in Asked
    /\ calls' = calls + 1
    /\ call' = [interval |-> i, kind |-> Kind(i, e), at |-> minute, open |-> None,
                offset |-> 0, candles |-> {}, from |-> IF Stored(i) = {} THEN None ELSE Latest(Stored(i))]
    /\ pc' = IF Kind(i, e) = "cached" THEN "read" ELSE "fetch"
    /\ UNCHANGED <<minute, ticks, builder, rows, early>>

Raise == pc' = "idle" /\ call' = NoCall

\* A delta asks for the candles since the latest stored one, up to a minute from now, by
\* times in UTC that do not say so: the broker reads them in the zone of the account, o
\* minutes ahead.
InRange(b, o) == call.from - o <= b /\ b <= call.at + 1 - o

\* The candles the broker serves, the one that is still forming among them.
Served(o) == IF call.kind = "full" THEN Newest(Bars(call.interval), Points)
             ELSE {c \in Bars(call.interval) : InRange(c.bucket, o)}

\* A price that is not given is taken as 0.
Without(c, absent) ==
    [c EXCEPT !.open = IF "open" \in absent THEN 0 ELSE @,
              !.close = IF "close" \in absent THEN 0 ELSE @,
              !.high = IF "high" \in absent THEN 0 ELSE @,
              !.low = IF "low" \in absent THEN 0 ELSE @]

\* Which prices are missing of each candle: of as many candles as there may be faults.
Partial(candles) ==
    {absent \in [candles -> Absent] :
        Cardinality({c \in candles : absent[c] # {}}) <= MaxFaults - faults}

Fetch ==
    /\ pc = "fetch"
    /\ \E o \in IF call.kind = "full" THEN {0} ELSE Offsets :
          /\ \E absent \in Partial(Served(o)) :
                call' = [call EXCEPT !.candles = {Without(c, absent[c]) : c \in Served(o)},
                                     !.open = Bucket(call.interval, minute), !.offset = o]
          /\ pc' = IF Served(o) = {} THEN "read" ELSE "check"
    /\ UNCHANGED <<minute, ticks, builder, rows, early, calls>>

FetchFails ==
    /\ pc = "fetch"
    /\ Raise
    /\ UNCHANGED <<minute, ticks, builder, rows, early, calls>>

\* _process_and_save selects what is stored already.
Missing(i, candles) == {c \in candles : rows[i][c.bucket] = None}

Check ==
    /\ pc = "check"
    /\ call' = [call EXCEPT !.candles = Missing(call.interval, @)]
    /\ pc' = IF Missing(call.interval, call.candles) = {} THEN "read" ELSE "insert"
    /\ UNCHANGED <<minute, ticks, builder, rows, early, calls>>

\* All of the rest is inserted, or nothing when one of them is stored by now.
Insert ==
    /\ pc = "insert"
    /\ LET i == call.interval
           at == {c.bucket : c \in call.candles}
       IN  IF \A b \in at : rows[i][b] = None
           THEN /\ rows' = [rows EXCEPT ![i] = [b \in Minutes |->
                       IF b \in at THEN CHOOSE c \in call.candles : c.bucket = b ELSE @[b]]]
                /\ early' = early \union {<<i, b>> : b \in at \intersect {call.open}}
                /\ pc' = "read" /\ UNCHANGED call
           ELSE Raise /\ UNCHANGED <<rows, early>>
    /\ UNCHANGED <<minute, ticks, builder, calls>>

InsertFails ==
    /\ pc = "insert"
    /\ Raise
    /\ UNCHANGED <<minute, ticks, builder, rows, early, calls>>

Read ==
    /\ pc = "read"
    /\ Raise
    /\ UNCHANGED <<minute, ticks, builder, rows, early, calls>>

-----------------------------------------------------------------------------

Tick ==
    /\ minute < Horizon /\ minute' = minute + 1
    /\ \A k \in Waiting : minute - ticks[k].minute < MaxDelay
    /\ pc # "idle" => minute - call.at < MaxDelay
    /\ UNCHANGED <<ticks, builder, rows, reader>>

Build == (\E p \in Prices : Quote(p)) \/ Take \/ Miss \/ Update \/ Begin \/ Cancel \/ Restart
GetLatest == (\E i \in Intervals, e \in {0, 1} : Ask(i, e)) \/ Fetch \/ FetchFails \/ Check
             \/ Insert \/ InsertFails \/ Read
Next == Build \/ GetLatest \/ Tick

Spec == Init /\ [][Next]_vars

-----------------------------------------------------------------------------

\* Once stored, a candle is never changed or dropped, whichever process stored it and
\* whichever comes second.
RowsNeverChange ==
    [][\A i \in Intervals : \A b \in Minutes : rows[i][b] # None => rows'[i][b] = rows[i][b]]_vars

\* The candles at both ends of a tick that was taken in another candle than it was quoted
\* in: it crossed a boundary on its way.
Moved(i) ==
    UNION {{Bucket(i, ticks[k].minute), Bucket(i, dated[k])} :
              k \in {j \in DOMAIN dated :
                        dated[j] # None /\ Bucket(i, dated[j]) # Bucket(i, ticks[j].minute)}}

\* A stored candle is the broker's of its time, but for prices the broker left out of it,
\* unless the builder missed a tick of it, one crossed its boundary on the way, or it was
\* downloaded while it was forming: then it stays as it was.
RowsAreBars ==
    \A i \in Intervals : \A b \in Minutes :
        rows[i][b] # None /\ <<i, b>> \notin lost \union early /\ b \notin Moved(i)
        => \E absent \in Absent : rows[i][b] = Without(Bar(i, b), absent)

\* A candle whose ticks the builder heard, each in its time, is in the table once it works
\* on a later one, unless the insert failed: through cancelled readers, and whatever the
\* trader downloads meanwhile.
NoGaps ==
    \A i \in Intervals : \A c \in Bars(i) :
        /\ forming[i] # None /\ c.bucket < forming[i].bucket
        /\ <<i, c.bucket>> \notin lost \union unsaved
        /\ c.bucket \notin Moved(i) \union {Bucket(i, ticks[k].minute) : k \in Waiting}
        => rows[i][c.bucket] # None

\* What a call is about to return is no older than two candles when the call began, or all
\* the broker had by then; of an account whose zone is ahead of UTC, all it had that much
\* earlier.
AnswerIsFresh ==
    pc = "read" /\ call.offset >= 0 =>
        LET i == call.interval
            newest == Latest(Newest(Stored(i), Points))
        IN  \A k \in DOMAIN ticks :
                ticks[k].minute < call.at - call.offset =>
                    newest >= Bucket(i, ticks[k].minute) \/ newest >= call.at - 2 * i
=============================================================================
