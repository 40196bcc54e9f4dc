------------------------- MODULE TradeExecutor_proofs -------------------------
(***************************************************************************)
(* TradeExecutor for every set of signals, every clock and every bound:    *)
(* its types, the safety invariants of the trade's life, and that it       *)
(* implements TradeLedger.                                                 *)
(***************************************************************************)
EXTENDS TradeExecutor, TLAPS

Unordered == {"start", "wait", "order"}
Watching  == {"monitor", "check", "close", "sync"}

\* The order request and the broker's verdict on it, in step with the task.
OrderInv ==
    /\ orders <= 1
    /\ pc \in Unordered => orders = 0 /\ deal = "none"
    /\ why \in {"dryRun", "expired"} => deal = "none"
    /\ why = "streamLost" => deal = "none" \/ record # "none"
    /\ why = "rejected" => deal = "rejected"
    /\ pc \in {"save"} \union Watching => deal = "accepted"
    /\ deal = "accepted" <=> position # "none"

\* The row exists once it is saved, and is settled only on the way out.
RecordInv ==
    /\ pc = "ended" <=> why # "running"
    /\ pc \in Unordered \union {"confirm", "save"} => record = "none"
    /\ why \in {"dryRun", "expired", "orderError", "rejected", "noDealId"} => record = "none"
    /\ why \in {"unmonitored", "monitorTimeout", "settled", "noRecord", "unsynced"}
            => record # "none"
    /\ pc \in Watching => record # "none" /\ sig.trailing
    /\ record \in {"WIN", "LOSS"} => position = "closed" /\ record = OutcomeOf(pnl)
    /\ why = "unmonitored" => ~sig.trailing
    /\ record # "none" => position # "none"
    /\ booked => position = "closed"

\* Polls and attempts are left while the task still makes them.
CountInv ==
    /\ pc \in Unordered \union {"confirm"} => confirms < MaxConfirms
    /\ pc # "ended" => syncs < MaxSyncs

IInv == TypeOK /\ CountInv /\ OrderInv /\ RecordInv /\ SyncsOnlyClosedPositions

-----------------------------------------------------------------------------

LEMMA InitIInv == Init => IInv
  <1> SUFFICES ASSUME Init PROVE IInv
    OBVIOUS
  <1> USE DEF Init
  <1>1. ValueTypes
    BY SignalsAssumption, BoundsAssumption DEF ValueTypes, Time, NoTime, Steps, Reasons
  <1>2. FlagTypes
    BY DEF FlagTypes
  <1>3. OrderInv /\ RecordInv /\ SyncsOnlyClosedPositions
    BY DEF OrderInv, RecordInv, SyncsOnlyClosedPositions, Unordered, Watching
  <1>4. CountInv
    BY BoundsAssumption DEF CountInv, Unordered
  <1> QED BY <1>1, <1>2, <1>3, <1>4 DEF IInv, TypeOK

\* Every action keeps the variables in their types.
LEMMA ValueStep == TypeOK /\ CountInv /\ [Next]_vars => ValueTypes' /\ CountInv'
  <1> SUFFICES ASSUME TypeOK, CountInv, [Next]_vars PROVE ValueTypes' /\ CountInv'
    OBVIOUS
  <1> USE SignalsAssumption, PricesAssumption, TimesAssumption, BoundsAssumption
      DEF TypeOK, ValueTypes, FlagTypes, CountInv, Unordered, Time, NoTime, Steps, Reasons,
          Results, GoTo, Return, task, broker, rows, hist
  <1>1. CASE Start
    BY <1>1 DEF Start
  <1>2. CASE HearPrice
    BY <1>2 DEF HearPrice, WaitForTrigger
  <1>3. CASE StreamLost
    BY <1>3 DEF StreamLost
  <1>4. CASE HearUpdate
    BY <1>4 DEF HearUpdate
  <1>5. CASE Call
    <2>1. CASE CreateOrder
      BY <2>1 DEF CreateOrder, Ordered, AfterOrderError
    <2>2. CASE PollConfirmation
      BY <2>2 DEF PollConfirmation, Confirmations, Refused
    <2>3. CASE SaveExecution
      BY <2>3 DEF SaveExecution, StartMonitor, NextClose
    <2>4. CASE CheckPosition
      BY <2>4 DEF CheckPosition, PositionsSeen, SeenOpen
    <2>5. CASE ForceClose
      BY <2>5 DEF ForceClose, Closed, AfterCloseError
    <2>6. CASE SyncOutcome
      BY <2>6 DEF SyncOutcome, Settled, History, RowFound, OutcomeOf
    <2> QED BY <1>5, <2>1, <2>2, <2>3, <2>4, <2>5, <2>6 DEF Call
  <1>6. CASE Tick
    BY <1>6 DEF Tick
  <1>7. CASE Outside
    BY <1>7 DEF Outside, BrokerDecides, BrokerCloses, HistoryAppears, DeleteSignal, Crash,
                FeedChanges
  <1>8. CASE UNCHANGED vars
    BY <1>8 DEF vars
  <1> QED BY <1>1, <1>2, <1>3, <1>4, <1>5, <1>6, <1>7, <1>8 DEF Next

LEMMA FlagStep == FlagTypes /\ [Next]_vars => FlagTypes'
  BY DEF FlagTypes, Next, Start, HearPrice, WaitForTrigger, StreamLost, HearUpdate, Call,
         CreateOrder, PollConfirmation, SaveExecution, StartMonitor, CheckPosition, ForceClose,
         SyncOutcome, Tick, Outside, BrokerDecides, BrokerCloses, HistoryAppears,
         DeleteSignal, Crash, FeedChanges, vars, task, broker, rows, hist

\* The task, the broker and the row stay in step.
LEMMA LifeStep == IInv /\ [Next]_vars =>
                    OrderInv' /\ RecordInv' /\ SyncsOnlyClosedPositions'
  <1> SUFFICES ASSUME IInv, [Next]_vars
               PROVE OrderInv' /\ RecordInv' /\ SyncsOnlyClosedPositions'
    OBVIOUS
  <1> USE DEF IInv, TypeOK, ValueTypes, OrderInv, RecordInv, SyncsOnlyClosedPositions, Steps,
              Results, Unordered, Watching, GoTo, Return, task, broker, rows, hist
  <1>1. CASE Start
    BY <1>1 DEF Start
  <1>2. CASE HearPrice
    BY <1>2 DEF HearPrice, WaitForTrigger
  <1>3. CASE StreamLost
    BY <1>3 DEF StreamLost
  <1>4. CASE HearUpdate
    BY <1>4 DEF HearUpdate
  <1>5. CASE Call
    <2>1. CASE CreateOrder
      BY <2>1 DEF CreateOrder, Ordered, AfterOrderError
    <2>2. CASE PollConfirmation
      BY <2>2 DEF PollConfirmation, Confirmations, Refused
    <2>3. CASE SaveExecution
      BY <2>3 DEF SaveExecution, StartMonitor
    <2>4. CASE CheckPosition
      BY <2>4 DEF CheckPosition, PositionsSeen, SeenOpen
    <2>5. CASE ForceClose
      BY <2>5 DEF ForceClose, Closed, AfterCloseError
    <2>6. CASE SyncOutcome
      BY <2>6 DEF SyncOutcome, Settled, History, RowFound, OutcomeOf
    <2> QED BY <1>5, <2>1, <2>2, <2>3, <2>4, <2>5, <2>6 DEF Call
  <1>6. CASE Tick
    BY <1>6 DEF Tick
  <1>7. CASE Outside
    BY <1>7 DEF Outside, BrokerDecides, BrokerCloses, HistoryAppears, DeleteSignal, Crash,
                FeedChanges
  <1>8. CASE UNCHANGED vars
    BY <1>8 DEF vars
  <1> QED BY <1>1, <1>2, <1>3, <1>4, <1>5, <1>6, <1>7, <1>8 DEF Next

LEMMA Invariance == Spec => []IInv
  <1>1. IInv /\ [Next]_vars => IInv'
    BY ValueStep, FlagStep, LifeStep DEF IInv, TypeOK
  <1> QED BY <1>1, InitIInv, PTL DEF Spec

-----------------------------------------------------------------------------

\* The types of the trade's state.
THEOREM TypeCorrect == Spec => []TypeOK
  BY Invariance, PTL DEF IInv

\* execute_trade asks the broker for at most one position per signal.
THEOREM OneOrder == Spec => []OneOrderPerSignal
  <1>1. IInv => OneOrderPerSignal
    BY DEF IInv, OrderInv, OneOrderPerSignal
  <1> QED BY <1>1, Invariance, PTL

\* An open position without a row has one of four causes.
THEOREM Orphans == Spec => []OrphanOnlyAfterFailure
  <1>1. IInv => OrphanOnlyAfterFailure
    BY DEF IInv, TypeOK, ValueTypes, Reasons, OrderInv, RecordInv, OrphanOnlyAfterFailure
  <1> QED BY <1>1, Invariance, PTL

\* The outcome is looked for only once the position is closed, or its close was refused.
THEOREM SyncsClosed == Spec => []SyncsOnlyClosedPositions
  BY Invariance, PTL DEF IInv

\* A watched position that is still open when the task ends was given up for a known cause.
THEOREM WatchKept == Spec => []WatchedUntilClosed
  <1>1. IInv => WatchedUntilClosed
    BY DEF IInv, TypeOK, ValueTypes, Reasons, RecordInv, SyncsOnlyClosedPositions,
           WatchedUntilClosed
  <1> QED BY <1>1, Invariance, PTL

\* A step of the executor is a step of the trade table or leaves it alone.
LEMMA LedgerStep == IInv /\ [Next]_vars => [Ledger!LedgerNext]_(Ledger!ledgerVars)
  <1> SUFFICES ASSUME IInv, [Next]_vars
               PROVE Ledger!LedgerNext \/ UNCHANGED Ledger!ledgerVars
    OBVIOUS
  <1> USE DEF Ledger!ledgerVars, Ledger!Acts, Decision, GoTo, Return, task, broker, rows, hist,
              Results
  <1>1. CASE CreateOrder
    BY <1>1 DEF CreateOrder, Ordered, AfterOrderError, IInv, OrderInv, Unordered,
                Ledger!LedgerNext, Ledger!Send, Ledger!End
  <1>2. CASE BrokerDecides
    BY <1>2 DEF BrokerDecides, IInv, OrderInv, TypeOK, ValueTypes, Ledger!LedgerNext,
                Ledger!Fill, Ledger!Refuse
  <1>3. CASE BrokerCloses
    BY <1>3 DEF BrokerCloses, Ledger!LedgerNext, Ledger!Close
  <1>4. CASE ForceClose
    BY <1>4 DEF ForceClose, Closed, AfterCloseError, Ledger!LedgerNext, Ledger!Close
  <1>5. CASE SaveExecution
    BY <1>5 DEF SaveExecution, StartMonitor, IInv, OrderInv, RecordInv, Unordered,
                Ledger!LedgerNext, Ledger!Book, Ledger!End
  <1>6. CASE SyncOutcome
    BY <1>6 DEF SyncOutcome, Settled, History, RowFound, OutcomeOf, IInv, TypeOK, ValueTypes,
                RecordInv, Watching,
                Ledger!LedgerNext, Ledger!Settle, Ledger!Outcomes, Ledger!End
  <1>7. CASE DeleteSignal
    BY <1>7 DEF DeleteSignal, IInv, TypeOK, ValueTypes, Ledger!LedgerNext, Ledger!Erase,
                Ledger!Outcomes
  <1>8. CASE Start \/ HearPrice \/ StreamLost \/ HearUpdate \/ Crash
    BY <1>8 DEF Start, HearPrice, WaitForTrigger, StreamLost, HearUpdate, Crash,
                Ledger!LedgerNext, Ledger!End
  <1>9. CASE PollConfirmation \/ CheckPosition
    BY <1>9 DEF PollConfirmation, Confirmations, Refused, CheckPosition, Ledger!LedgerNext,
                Ledger!End
  <1>10. CASE Tick \/ HistoryAppears \/ FeedChanges \/ UNCHANGED vars
    BY <1>10 DEF Tick, HistoryAppears, FeedChanges, vars
  <1> QED BY <1>1, <1>2, <1>3, <1>4, <1>5, <1>6, <1>7, <1>8, <1>9, <1>10 DEF Next, Call, Outside

\* The executor implements the trade table: one order, nothing sent or written after its end,
\* no row without a position, no outcome before the position is closed, no WIN without a gain.
THEOREM Refinement == Spec => ImplementsLedger
  <1>1. Init => Ledger!LedgerInit
    BY DEF Init, Decision, Ledger!LedgerInit
  <1> QED BY <1>1, LedgerStep, Invariance, PTL DEF Spec, ImplementsLedger, Ledger!LedgerSpec

-----------------------------------------------------------------------------
(* Times *)

\* A trade whose order is about to go out was triggered in time.
TriggerInv ==
    /\ pc = "start" => waitStart = NoTime
    /\ pc = "order" /\ waitStart # NoTime => now - waitStart <= TriggerTimeout

LEMMA TriggerStep == IInv /\ TriggerInv /\ [Next]_vars => TriggerInv'
  <1> USE DEF TriggerInv, GoTo, Return, task, broker, rows, hist
  <1>1. SUFFICES ASSUME IInv, TriggerInv, [Next]_vars PROVE TriggerInv'
    OBVIOUS
  <1>2. CASE HearPrice
    BY <1>1, <1>2, TimesAssumption
    DEF HearPrice, WaitForTrigger, TriggerExpired, IInv, TypeOK, ValueTypes, Time, NoTime
  <1>3. CASE Start
    BY <1>1, <1>3 DEF Start, IInv, TypeOK, ValueTypes, Time, NoTime
  <1>4. CASE UNCHANGED <<pc, waitStart, now>>
    BY <1>1, <1>4
  <1>5. CASE pc' \notin {"start", "order"}
    BY <1>5
  <1> QED BY <1>1, <1>2, <1>3, <1>4, <1>5
        DEF Next, StreamLost, HearUpdate, Call, CreateOrder, AfterOrderError,
            PollConfirmation, SaveExecution, StartMonitor, CheckPosition, ForceClose,
            AfterCloseError, SyncOutcome, Tick, Outside, BrokerDecides, BrokerCloses,
            HistoryAppears, DeleteSignal, Crash, FeedChanges, vars

\* No order goes out after the time for its trigger is over.
THEOREM InTime == Spec => NoLateOrder
  <1>1. Init => TriggerInv
    BY DEF Init, TriggerInv
  <1>2. TriggerInv /\ [Next]_vars
          => [(pc = "order" /\ pc' # "order" /\ waitStart # NoTime /\ why' # "crash")
                  => now - waitStart <= TriggerTimeout]_vars
    BY DEF TriggerInv
  <1> QED BY <1>1, <1>2, TriggerStep, Invariance, PTL DEF Spec, NoLateOrder

\* The monitor's locals are set when it begins, with the next close, and as long as there was
\* no gap the feed is up.
MonitorInv ==
    /\ pc \in Unordered \union {"confirm", "save"} => monStart = NoTime
    /\ pc \in Watching => monStart # NoTime
    /\ why = "saveError" => monStart = NoTime
    /\ monStart # NoTime /\ pc # "ended" /\ ~gap => feed = "up"
    /\ monStart # NoTime => position # "none"
    /\ monStart # NoTime /\ closeDt # NoTime /\ monStart <= CloseAt => closeDt = CloseAt

LEMMA MonitorStep == IInv /\ MonitorInv /\ [Next]_vars => MonitorInv'
  <1> SUFFICES ASSUME IInv, MonitorInv, [Next]_vars PROVE MonitorInv'
    OBVIOUS
  <1> USE DEF MonitorInv, Unordered, Watching, GoTo, Return, task, broker, rows, hist
  <1>1. CASE SaveExecution
    <2>1. pc = "save" /\ monStart = NoTime /\ position # "none" /\ position' = position
          /\ feed' = feed
      BY <1>1 DEF SaveExecution, IInv, OrderInv
    <2>2. CASE StartMonitor
      <3>1. pc' = "monitor" /\ why' = why /\ monStart' = now /\ closeDt' \in {NextClose, NoTime}
        BY <2>2 DEF StartMonitor
      <3>2. ~gap' => feed = "up"
        BY <2>2, Zenon DEF StartMonitor
      <3>3. monStart' # NoTime /\ why # "saveError"
        BY <2>1, <3>1 DEF IInv, RecordInv, TypeOK, ValueTypes, NoTime
      <3>4. monStart' <= CloseAt /\ closeDt' # NoTime => closeDt' = CloseAt
        BY <3>1, TimesAssumption DEF NextClose, IInv, TypeOK, ValueTypes, TimesAssumption
      <3> QED BY <2>1, <3>1, <3>2, <3>3, <3>4
    <2>3. CASE pc' = "ended" /\ monStart' = monStart
      BY <2>1, <2>3
    <2> QED BY <1>1, <2>2, <2>3 DEF SaveExecution
  <1>2. CASE FeedChanges
    BY <1>2 DEF FeedChanges
  <1>3. CASE ForceClose
    BY <1>3 DEF ForceClose, Closed, AfterCloseError
  <1>4. CASE Tick \/ UNCHANGED vars
    BY <1>4 DEF Tick, vars
  <1>5. CASE Start \/ HearPrice \/ StreamLost \/ HearUpdate
    BY <1>5 DEF Start, HearPrice, WaitForTrigger, StreamLost, HearUpdate
  <1>6. CASE CreateOrder \/ PollConfirmation \/ CheckPosition \/ SyncOutcome
    BY <1>6 DEF CreateOrder, AfterOrderError, PollConfirmation, CheckPosition, SyncOutcome
  <1>7. CASE BrokerDecides \/ BrokerCloses \/ HistoryAppears \/ DeleteSignal \/ Crash
    BY <1>7 DEF BrokerDecides, BrokerCloses, HistoryAppears, DeleteSignal, Crash
  <1> QED BY <1>1, <1>2, <1>3, <1>4, <1>5, <1>6, <1>7 DEF Next, Call, Outside

\* The latest time of a check of an open position after n forced closes have failed: the last
\* one before the closing window, and then one every CheckPeriod + 1 at the most.
CheckBy(n) == CloseAt - CloseWindow + n * (CheckPeriod + 1)

LEMMA CheckByNext ==
    ASSUME NEW n \in Nat
    PROVE  /\ CheckBy(n) \in Int /\ CheckBy(n) >= CloseAt - CloseWindow
           /\ CheckBy(n + 1) = CheckBy(n) + CheckPeriod + 1
           /\ (n + 1) * (CheckPeriod + 1) < CloseWindow <=> CheckBy(n + 1) < CloseAt
  <1>1. n * (CheckPeriod + 1) \in Nat
    BY TimesAssumption DEF TimesAssumption
  <1>2. (n + 1) * (CheckPeriod + 1) = n * (CheckPeriod + 1) + CheckPeriod + 1
    BY TimesAssumption DEF TimesAssumption
  <1> QED BY <1>1, <1>2, TimesAssumption DEF TimesAssumption, CheckBy

\* The conditions of FlatAtClose on what happened so far.
Guarded ==
    /\ monStart # NoTime /\ closeDt # NoTime
    /\ monStart + CloseWindow <= CloseAt
    /\ CloseAt - monStart <= MonitorTimeout
    /\ (closeFails + 1) * (CheckPeriod + 1) < CloseWindow
    /\ ~gap /\ ~closeRefused /\ why \notin {"crash", "streamLost"}

\* Under them an open position is being watched; its last check was in time, so that the next
\* one is before the close; and the update that makes it is not missed.
CheckInv ==
    Guarded /\ position = "open" =>
        /\ pc \in {"monitor", "check", "close"}
        /\ pc = "monitor" =>
              /\ lastCheck # NoTime /\ lastCheck <= CheckBy(closeFails)
              /\ now <= lastCheck + CheckPeriod + (IF heard THEN 0 ELSE 1)
        /\ pc \in {"check", "close"} => lastCheck = now /\ now <= CheckBy(closeFails + 1)

LEMMA GuardedTimes ==
    ASSUME IInv, MonitorInv, Guarded
    PROVE  /\ closeDt = CloseAt /\ CheckBy(closeFails + 1) < CloseAt
           /\ CheckBy(closeFails) \in Int
           /\ CheckBy(closeFails + 1) = CheckBy(closeFails) + CheckPeriod + 1
  <1>1. closeFails \in Nat /\ monStart \in Nat
    BY BoundsAssumption DEF IInv, TypeOK, ValueTypes, Guarded, Time, NoTime, BoundsAssumption
  <1>2. closeDt = CloseAt
    BY <1>1, TimesAssumption DEF Guarded, MonitorInv, TimesAssumption
  <1> QED BY <1>1, <1>2, CheckByNext DEF Guarded

\* Before the close the position is checked again.
LEMMA CheckedBefore ==
    ASSUME IInv, MonitorInv, CheckInv, Guarded, position = "open"
    PROVE  now < CloseAt /\ (pc = "monitor" => now <= CheckBy(closeFails + 1))
  <1>1. now \in Nat /\ lastCheck \in Int
    BY DEF IInv, TypeOK, ValueTypes, Time, NoTime
  <1>2. CASE pc = "monitor"
    <2>1. lastCheck <= CheckBy(closeFails) /\ now <= lastCheck + CheckPeriod + 1
      BY <1>1, <1>2, TimesAssumption DEF CheckInv, TimesAssumption
    <2> QED BY <1>1, <2>1, GuardedTimes, TimesAssumption DEF TimesAssumption
  <1>3. CASE pc \in {"check", "close"}
    BY <1>1, <1>3, GuardedTimes, TimesAssumption DEF CheckInv, TimesAssumption
  <1> QED BY <1>2, <1>3 DEF CheckInv

LEMMA CheckStep == ASSUME IInv, MonitorInv, CheckInv, [Next]_vars PROVE CheckInv'
  <1> SUFFICES ASSUME Guarded', position' = "open"
               PROVE  /\ pc' \in {"monitor", "check", "close"}
                      /\ pc' = "monitor" =>
                            /\ lastCheck' # NoTime /\ lastCheck' <= CheckBy(closeFails')
                            /\ now' <= lastCheck' + CheckPeriod + (IF heard' THEN 0 ELSE 1)
                      /\ pc' \in {"check", "close"} =>
                            lastCheck' = now' /\ now' <= CheckBy(closeFails' + 1)
    BY DEF CheckInv, CheckBy
  <1>0. /\ now \in Nat /\ closeFails \in Nat /\ lastCheck \in Int
        /\ CheckPeriod \in Nat /\ CloseWindow \in Nat /\ CloseAt \in Nat
    BY TimesAssumption, BoundsAssumption
    DEF IInv, TypeOK, ValueTypes, Time, NoTime, TimesAssumption, BoundsAssumption
  <1>1. CASE SaveExecution
    <2>1. StartMonitor /\ UNCHANGED <<now, closeFails>>
      BY <1>1 DEF SaveExecution, Guarded, MonitorInv, Unordered
    <2>2. /\ pc' = "monitor" /\ lastCheck' = now /\ monStart' = now /\ heard' = FALSE
          /\ now <= CloseAt - CloseWindow
      BY <1>0, <2>1 DEF StartMonitor, GoTo, Guarded
    <2>3. CheckBy(closeFails) >= CloseAt - CloseWindow /\ CheckBy(closeFails) \in Int
      BY <1>0, CheckByNext
    <2> QED BY <1>0, <2>1, <2>2, <2>3 DEF NoTime
  <1>2. CASE HearUpdate
    <2>1. Guarded /\ position = "open" /\ pc = "monitor" /\ heard' = TRUE
          /\ UNCHANGED <<now, closeFails>>
      BY <1>2 DEF HearUpdate, Guarded, IInv, RecordInv, hist, broker
    <2>2. now < CloseAt /\ now <= CheckBy(closeFails + 1)
      BY <2>1, CheckedBefore
    <2>3. ~MonitorExpired
      BY <1>0, <2>1, <2>2, TimesAssumption
      DEF Guarded, MonitorExpired, IInv, TypeOK, ValueTypes, Time, NoTime, TimesAssumption
    <2>4. CASE CheckDue
      BY <1>2, <2>1, <2>2, <2>3, <2>4 DEF HearUpdate, GoTo
    <2>5. CASE ~CheckDue
      <3>1. pc' = "monitor" /\ lastCheck' = lastCheck
        BY <1>2, <2>1, <2>3, <2>5 DEF HearUpdate
      <3>2. now <= lastCheck + CheckPeriod
        BY <1>0, <2>5 DEF CheckDue
      <3> QED BY <1>0, <2>1, <3>1, <3>2 DEF CheckInv
    <2> QED BY <2>4, <2>5
  <1>3. CASE CheckPosition
    <2>1. Guarded /\ position = "open" /\ pc = "check"
          /\ UNCHANGED <<now, closeFails, lastCheck, heard>>
      BY <1>3 DEF CheckPosition, Guarded, IInv, RecordInv, hist, broker
    <2>2. lastCheck = now /\ now <= CheckBy(closeFails + 1) /\ now < CloseAt
      BY <2>1, CheckedBefore DEF CheckInv
    <2>3. IF NearClose THEN pc' = "close" ELSE pc' = "monitor"
      BY <1>3, <2>1 DEF CheckPosition, PositionsSeen, SeenOpen, GoTo
    <2>4. CASE NearClose
      BY <2>1, <2>2, <2>3, <2>4
    <2>5. CASE ~NearClose
      <3>1. now <= CloseAt - CloseWindow
        BY <1>0, <2>1, <2>2, <2>5, GuardedTimes DEF NearClose, Guarded
      <3>2. CheckBy(closeFails) >= CloseAt - CloseWindow /\ CheckBy(closeFails) \in Int
        BY <1>0, CheckByNext
      <3> QED BY <1>0, <2>1, <2>2, <2>3, <2>5, <3>1, <3>2 DEF NoTime
    <2> QED BY <2>4, <2>5
  <1>4. CASE ForceClose
    <2>1. pc = "close" /\ position = "open" /\ UNCHANGED <<now, lastCheck>>
          /\ why = "running" /\ pc' = "monitor" /\ closeFails' = closeFails + 1
      BY <1>4 DEF ForceClose, Closed, AfterCloseError, GoTo, Guarded, IInv, RecordInv
    <2>2. ~closeRefused /\ UNCHANGED <<monStart, closeDt, gap>>
      BY <1>4 DEF ForceClose, Guarded
    <2>3. (closeFails + 1) * (CheckPeriod + 1) < CloseWindow
      <3>1. CheckBy(closeFails + 2) < CloseAt
        <4>1. closeFails + 1 \in Nat /\ closeFails + 1 + 1 = closeFails + 2
          BY <1>0
        <4> QED BY <2>1, <4>1, CheckByNext DEF Guarded
      <3>2. CheckBy(closeFails + 1) < CheckBy(closeFails + 2)
        <4>1. closeFails + 1 \in Nat /\ closeFails + 1 + 1 = closeFails + 2
          BY <1>0
        <4> QED BY <1>0, <4>1, CheckByNext
      <3>3. CheckBy(closeFails + 1) \in Int /\ CheckBy(closeFails + 2) \in Int
        <4>1. closeFails + 1 \in Nat /\ closeFails + 2 \in Nat
          BY <1>0
        <4> QED BY <4>1, CheckByNext
      <3> QED BY <1>0, <3>1, <3>2, <3>3, CheckByNext
    <2>4. Guarded
      BY <2>1, <2>2, <2>3 DEF Guarded
    <2>5. lastCheck = now /\ now <= CheckBy(closeFails + 1)
      BY <2>1, <2>4 DEF CheckInv
    <2> QED BY <1>0, <2>1, <2>5 DEF NoTime
  <1>5. CASE Tick
    <2>1. Guarded /\ position = "open" /\ UNCHANGED <<pc, lastCheck, closeFails>>
          /\ now' = now + 1 /\ heard' = FALSE
      BY <1>5 DEF Tick, Guarded, task, broker, hist
    <2>2. pc = "monitor" /\ heard
      BY <1>5, <2>1 DEF Tick, CheckInv, MonitorInv, Guarded
    <2> QED BY <1>0, <2>1, <2>2 DEF CheckInv
  <1>6. CASE BrokerDecides
    <2>1. position # "open" => position = "none"
      BY <1>6 DEF BrokerDecides, IInv, OrderInv
    <2>2. Guarded /\ position = "open"
      BY <1>6, <2>1 DEF BrokerDecides, Guarded, MonitorInv, task, hist
    <2> QED BY <1>6, <2>2 DEF BrokerDecides, CheckInv, task, hist
  <1>7. CASE SyncOutcome
    BY <1>7 DEF SyncOutcome, Guarded, IInv, SyncsOnlyClosedPositions, broker, hist
  <1>8. CASE FeedChanges
    <2>1. Guarded
      BY <1>8 DEF FeedChanges, Guarded, task
    <2> QED BY <1>8, <2>1 DEF FeedChanges, CheckInv, task, broker
  <1>9. CASE Start \/ HearPrice \/ CreateOrder \/ PollConfirmation
    BY <1>9 DEF Start, HearPrice, WaitForTrigger, CreateOrder, PollConfirmation, MonitorInv,
                Unordered, Guarded
  <1>10. CASE StreamLost \/ Crash
    BY <1>10 DEF StreamLost, Crash, Return, Guarded
  <1>11. CASE BrokerCloses
    BY <1>11 DEF BrokerCloses
  <1>12. CASE HistoryAppears \/ DeleteSignal \/ UNCHANGED vars
    <2>1. UNCHANGED <<now, heard, pc, why, monStart, lastCheck, closeDt, position, hist>>
      BY <1>12 DEF HistoryAppears, DeleteSignal, vars, task, broker
    <2> QED BY <2>1 DEF CheckInv, Guarded, hist
  <1> QED BY <1>1, <1>2, <1>3, <1>4, <1>5, <1>6, <1>7, <1>8, <1>9, <1>10, <1>11, <1>12
        DEF Next, Call, Outside

\* A position that is watched from before the closing window on is closed when its market
\* closes, for every clock, closing window and number of failed closes it has room for.
THEOREM ClosedByClose == Spec => []FlatAtClose
  <1>1. Init => MonitorInv /\ CheckInv
    BY DEF Init, MonitorInv, CheckInv, Guarded, Watching
  <1>2. IInv /\ MonitorInv /\ CheckInv => FlatAtClose
    <2> SUFFICES ASSUME IInv, MonitorInv, CheckInv, Guarded, position = "open"
                 PROVE  ~(now >= CloseAt)
      BY DEF FlatAtClose, Guarded
    <2> QED BY CheckedBefore, TimesAssumption DEF IInv, TypeOK, ValueTypes, TimesAssumption
  <1> QED BY <1>1, <1>2, MonitorStep, CheckStep, Invariance, PTL DEF Spec
=============================================================================
