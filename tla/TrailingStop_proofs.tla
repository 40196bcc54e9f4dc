-------------------------- MODULE TrailingStop_proofs --------------------------
(***************************************************************************)
(* TrailingStop for all prices, trades and distances, as long as rounding  *)
(* moves a level by no more than the step.                                 *)
(***************************************************************************)
EXTENDS TrailingStop, TLAPS

\* What is being sent tightens the known stop, and the broker has it while the row waits.
SendingInv ==
    /\ pc \in {"amendBE", "recordBE"} => wanted = trade.entry
    /\ pc # "listen" => Gain(wanted, stop) > 0
    /\ pc \in {"recordBE", "recordTrail"} /\ ~refused => brokerStop = wanted
    /\ pc \in {"amendTrail", "recordTrail"} => moved
    /\ moved => Gain(stop, trade.entry) >= 0

\* A nearest level is within half the grid of what was asked.
LEMMA RoundedNear ==
    ASSUME NEW x \in Int, NEW c \in Rounded(x)
    PROVE  c \in Int /\ c - x <= StepSize /\ x - c <= StepSize
  <1>1. c \in Int /\ 2 * (c - x) <= Grid /\ 2 * (x - c) <= Grid
    BY NumbersAssumption DEF Rounded
  <1> QED BY <1>1, NumbersAssumption, GridAssumption

\* A level worth moving to tightens the stop after rounding too.
LEMMA TrailTightens ==
    ASSUME TypeOK, NEW p \in Int, NEW current \in Int, TrailDue(p, current),
           NEW c \in Rounded(Behind(p))
    PROVE  c \in OnGrid /\ c \in Int /\ Gain(c, current) > 0
  <1>0. c \in OnGrid
    BY DEF Rounded, OnGrid
  <1>1. Behind(p) \in Int
    BY NumbersAssumption DEF Behind
  <1>2. c \in Int /\ c - Behind(p) <= StepSize /\ Behind(p) - c <= StepSize
    BY <1>1, RoundedNear
  <1> QED BY <1>0, <1>1, <1>2, NumbersAssumption DEF TrailDue, Gain

IInv == TypeOK /\ SendingInv /\ BrokerNoLooser

LEMMA InitIInv == Init => IInv
  <1> SUFFICES ASSUME Init PROVE IInv
    OBVIOUS
  <1>1. trade.entry \in Int /\ trade.stop \in Int
    BY NumbersAssumption DEF Init
  <1>2. TypeOK
    BY <1>1 DEF Init, TypeOK, Steps
  <1>3. SendingInv /\ BrokerNoLooser
    BY <1>1 DEF Init, SendingInv, BrokerNoLooser, Gain
  <1> QED BY <1>2, <1>3 DEF IInv

\* What Trail leaves wanted, with the stop it was decided against.
LEMMA TrailStep ==
    ASSUME TypeOK, NEW p \in Int, NEW current \in Int, NEW active \in BOOLEAN,
           Trail(p, current, active)
    PROVE  /\ wanted' \in Int /\ pc' \in {"listen", "amendTrail"}
           /\ pc' = "amendTrail" =>
                active /\ Gain(wanted', current) > 0 /\ wanted' \in OnGrid
  BY TrailTightens DEF Trail, TypeOK

LEMMA HandleStep ==
    ASSUME IInv, NEW p \in Prices, HandlePrice(p)
    PROVE  IInv'
  <1>1. p \in Int /\ trade.entry \in Int
    BY NumbersAssumption DEF IInv, TypeOK
  <1>2. CASE ~moved /\ BreakevenDue(p) /\ Improves(trade.entry)
    BY <1>1, <1>2 DEF HandlePrice, IInv, TypeOK, SendingInv, BrokerNoLooser, Gain, Improves,
                      Steps
  <1>3. CASE ~(~moved /\ BreakevenDue(p) /\ Improves(trade.entry))
    <2>1. Trail(p, stop, moved) /\ TypeOK /\ stop \in Int /\ moved \in BOOLEAN
      BY <1>3 DEF HandlePrice, IInv, TypeOK
    <2>2. /\ wanted' \in Int /\ pc' \in {"listen", "amendTrail"}
          /\ pc' = "amendTrail" =>
                moved /\ Gain(wanted', stop) > 0 /\ wanted' \in OnGrid
      BY <1>1, <2>1, TrailStep
    <2>3. TypeOK'
      BY <1>1, <2>2 DEF HandlePrice, IInv, TypeOK, Steps
    <2>4. SendingInv' /\ BrokerNoLooser'
      BY <1>1, <2>2 DEF HandlePrice, IInv, TypeOK, SendingInv, BrokerNoLooser, Gain
    <2> QED BY <2>3, <2>4 DEF IInv
  <1> QED BY <1>2, <1>3

\* The broker's stop may become a level that tightens the known one.
LEMMA NewStopKeepsGain ==
    ASSUME TypeOK, UNCHANGED <<trade, stop>>, brokerStop' \in {wanted, brokerStop},
           ~refused' => ~refused, Gain(wanted, stop) > 0,
           ~refused => Gain(brokerStop, stop) >= 0
    PROVE  BrokerNoLooser'
  <1>1. Gain(wanted, stop) >= 0
    BY DEF TypeOK, Gain
  <1>2. ~refused => Gain(brokerStop', stop) >= 0
    BY <1>1
  <1>3. Gain(brokerStop, stop)' = Gain(brokerStop', stop)
    BY DEF Gain
  <1> QED BY <1>2, <1>3 DEF BrokerNoLooser

LEMMA AmendStep ==
    ASSUME IInv, AmendPosition
    PROVE  IInv'
  <1>1. trade.entry \in Int
    BY NumbersAssumption DEF IInv, TypeOK
  <1>2. TypeOK'
    BY DEF AmendPosition, GiveUp, IInv, TypeOK, Steps
  <1>3. CASE GiveUp
    <2>1. /\ UNCHANGED <<trade, wanted, stop, moved, refused>> /\ pc' = "listen"
          /\ brokerStop' \in {wanted, brokerStop} /\ pc # "listen"
      BY <1>3 DEF AmendPosition, GiveUp
    <2>2. SendingInv'
      BY <2>1 DEF IInv, SendingInv, Gain
    <2>3. /\ ~refused' => ~refused
          /\ Gain(wanted, stop) > 0
          /\ ~refused => Gain(brokerStop, stop) >= 0
      BY <2>1 DEF IInv, TypeOK, SendingInv, BrokerNoLooser
    <2>4. BrokerNoLooser'
      BY <2>1, <2>3, NewStopKeepsGain DEF IInv, TypeOK
    <2> QED BY <1>2, <2>2, <2>4 DEF IInv
  <1>4. CASE ~GiveUp
    <2>1. /\ UNCHANGED <<trade, wanted, stop, moved>>
          /\ refused' = (refused \/ brokerStop' # wanted)
          /\ brokerStop' \in {wanted, brokerStop}
          /\ pc = "amendBE" => pc' = "recordBE"
          /\ pc = "amendTrail" => pc' = "recordTrail"
          /\ pc \in {"amendBE", "amendTrail"}
      BY <1>4 DEF AmendPosition
    <2>2. SendingInv'
      BY <2>1 DEF IInv, TypeOK, SendingInv, Gain
    <2>3. /\ ~refused' => ~refused
          /\ Gain(wanted, stop) > 0
          /\ ~refused => Gain(brokerStop, stop) >= 0
      BY <2>1 DEF IInv, TypeOK, SendingInv, BrokerNoLooser
    <2>4. BrokerNoLooser'
      BY <2>1, <2>3, NewStopKeepsGain DEF IInv, TypeOK
    <2> QED BY <1>2, <2>2, <2>4 DEF IInv
  <1> QED BY <1>3, <1>4

LEMMA RecordStep ==
    ASSUME IInv, RecordStop
    PROVE  IInv'
  <1>1. trade.entry \in Int
    BY NumbersAssumption DEF IInv, TypeOK
  <1>2. CASE GiveUp
    BY <1>1, <1>2 DEF RecordStop, GiveUp, IInv, TypeOK, SendingInv, BrokerNoLooser, Gain, Steps
  <1>3. CASE pc = "recordBE" /\ Adopt
    <2>1. Trail(price, wanted, TRUE) /\ TypeOK /\ price \in Int /\ wanted \in Int
      BY <1>3 DEF Adopt, IInv, TypeOK
    <2>2. /\ wanted' \in Int /\ pc' \in {"listen", "amendTrail"}
          /\ pc' = "amendTrail" => Gain(wanted', wanted) > 0 /\ wanted' \in OnGrid
      BY <2>1, TrailStep
    <2>3. TypeOK'
      BY <1>3, <2>2 DEF RecordStop, Adopt, IInv, TypeOK, Steps
    <2>4. /\ UNCHANGED <<trade, brokerStop, refused>>
          /\ stop' = wanted /\ moved' = TRUE
          /\ wanted = trade.entry /\ (~refused => brokerStop = wanted)
      BY <1>3 DEF RecordStop, Adopt, IInv, SendingInv
    <2>5. SendingInv'
      BY <1>1, <2>2, <2>4 DEF SendingInv, Gain
    <2>6. BrokerNoLooser'
      BY <1>1, <2>4 DEF BrokerNoLooser, Gain
    <2> QED BY <2>3, <2>5, <2>6 DEF IInv
  <1>4. CASE pc = "recordTrail" /\ Adopt
    BY <1>1, <1>4 DEF RecordStop, Adopt, IInv, TypeOK, SendingInv, BrokerNoLooser, Gain, Steps
  <1> QED BY <1>2, <1>3, <1>4 DEF RecordStop

LEMMA Invariance == Spec => []IInv
  <1>1. IInv /\ UNCHANGED vars => IInv'
    BY DEF vars, IInv, TypeOK, SendingInv, BrokerNoLooser, Gain
  <1>2. IInv /\ [Next]_vars => IInv'
    BY <1>1, HandleStep, AmendStep, RecordStep DEF Next
  <1> QED BY <1>2, InitIInv, PTL DEF Spec

-----------------------------------------------------------------------------

\* The types of the stop's state.
THEOREM TypeCorrect == Spec => []TypeOK
  BY Invariance, PTL DEF IInv

\* Whatever updates are lost or fail, the broker's stop is never looser than the one the
\* executor works with, unless the broker refused what its API had taken in.
THEOREM BrokerFloor == Spec => []BrokerNoLooser
  BY Invariance, PTL DEF IInv

\* Past breakeven the position cannot lose any more.
THEOREM Breakeven == Spec => []BreakevenLocked
  <1>1. IInv => BreakevenLocked
    BY NumbersAssumption
       DEF IInv, TypeOK, SendingInv, BrokerNoLooser, BreakevenLocked, Gain
  <1> QED BY <1>1, Invariance, PTL

\* The known stop only tightens, rounding included.
THEOREM Ratchet == Spec => StopOnlyTightens
  <1>1. ASSUME IInv, [Next]_vars PROVE [Gain(stop', stop) >= 0]_vars
    <2>1. stop' = stop \/ (stop' = wanted /\ pc # "listen") \/ UNCHANGED vars
      BY <1>1 DEF Next, HandlePrice, AmendPosition, RecordStop, Adopt, GiveUp
    <2> QED BY <1>1, <2>1 DEF IInv, TypeOK, SendingInv, Gain
  <1> QED BY <1>1, Invariance, PTL DEF Spec, StopOnlyTightens

\* The broker's stop is loosened only when the executor does not know it.
THEOREM NoKnowingLoosening == Spec => LoosenedOnlyUnknowing
  <1>1. IInv /\ [Next]_vars => [Gain(brokerStop', brokerStop) < 0 => brokerStop # stop]_vars
    BY DEF Next, HandlePrice, AmendPosition, RecordStop, GiveUp, IInv, TypeOK,
           SendingInv, Gain, vars
  <1> QED BY <1>1, Invariance, PTL DEF Spec, LoosenedOnlyUnknowing

-----------------------------------------------------------------------------
(* Keeping up with the price *)

\* Until the move to breakeven the known stop is the trade's first one, so that a first
\* stop on the losing side is one the entry improves on.
FirstStopInv ==
    /\ ~moved => stop = trade.stop
    /\ pc \in {"amendBE", "recordBE"} => ~moved

\* A trailing stop on its way lies no further behind than the one that will be kept.
TrailInv ==
    /\ pc \in {"amendTrail", "recordTrail"} => Gain(price, wanted) <= TrailDistance + StepSize
    /\ TrailKeepsUp

KeepInv == FirstStopInv /\ BreakevenReached /\ TrailInv

\* What Trail decides about price p, handled or due, keeps to the distance.
LEMMA TrailWithin ==
    ASSUME TypeOK, NEW p \in Int, NEW current \in Int, NEW active \in BOOLEAN,
           Trail(p, current, active), active
    PROVE  /\ pc' = "listen" => Gain(p, current) <= TrailDistance + StepSize
           /\ pc' = "amendTrail" => Gain(p, wanted') <= TrailDistance + StepSize
  <1>1. Behind(p) \in Int
    BY NumbersAssumption DEF Behind
  <1>2. CASE TrailDue(p, current)
    <2>1. wanted' \in Rounded(Behind(p)) /\ pc' = "amendTrail"
      BY <1>2 DEF Trail
    <2>2. /\ wanted' \in Int
          /\ wanted' - Behind(p) <= StepSize /\ Behind(p) - wanted' <= StepSize
      BY <1>1, <2>1, RoundedNear
    <2>3. Gain(p, wanted') <= TrailDistance + StepSize
      <3> DEFINE level == wanted'
      <3>1. level \in Int /\ level - Behind(p) <= StepSize /\ Behind(p) - level <= StepSize
        BY <2>2
      <3> HIDE DEF level
      <3>2. Gain(p, level) <= TrailDistance + StepSize
        BY <3>1, NumbersAssumption DEF Behind, Gain
      <3> QED BY <3>2 DEF level
    <2> QED BY <2>1, <2>3
  <1>3. CASE ~TrailDue(p, current)
    <2>1. pc' = "listen" /\ Gain(Behind(p), current) <= StepSize
      BY <1>1, <1>3, NumbersAssumption DEF Trail, TrailDue, Gain
    <2> QED BY <2>1, NumbersAssumption DEF Behind, Gain
  <1> QED BY <1>2, <1>3

LEMMA InitKeeps == Init => KeepInv
  <1> SUFFICES ASSUME Init PROVE KeepInv
    OBVIOUS
  <1>1. trade.entry \in Int /\ trade.stop \in Int
    BY NumbersAssumption DEF Init
  <1>2. RiskDistance > 0 =>
          ~(TriggerDen * Gain(price, trade.entry) >= TriggerNum * RiskDistance)
    <2> DEFINE risk == RiskDistance
    <2>1. risk \in Int /\ Gain(price, trade.entry) = 0
      BY <1>1 DEF Init, Gain, RiskDistance
    <2> HIDE DEF risk
    <2>2. risk > 0 => TriggerNum * risk > 0
      BY <2>1, NumbersAssumption
    <2>3. TriggerDen * 0 = 0
      BY NumbersAssumption
    <2>4. TriggerNum * risk \in Int
      BY <2>1, NumbersAssumption
    <2> QED BY <2>1, <2>2, <2>3, <2>4 DEF risk
  <1> QED BY <1>2 DEF Init, KeepInv, FirstStopInv, BreakevenReached, TrailInv, TrailKeepsUp

LEMMA HandleKeeps ==
    ASSUME IInv, KeepInv, NEW p \in Prices, HandlePrice(p)
    PROVE  KeepInv'
  <1>1. p \in Int /\ stop \in Int /\ moved \in BOOLEAN /\ TypeOK
    BY NumbersAssumption DEF IInv, TypeOK
  <1>2. UNCHANGED <<trade, stop, moved>> /\ price' = p /\ pc = "listen"
    BY DEF HandlePrice
  <1>3. CASE ~moved /\ BreakevenDue(p) /\ Improves(trade.entry)
    <2>1. pc' = "amendBE"
      BY <1>3 DEF HandlePrice
    <2> QED BY <1>2, <1>3, <2>1
            DEF KeepInv, FirstStopInv, BreakevenReached, TrailInv, TrailKeepsUp
  <1>4. CASE ~(~moved /\ BreakevenDue(p) /\ Improves(trade.entry))
    <2>1. Trail(p, stop, moved)
      BY <1>4 DEF HandlePrice
    <2>2. pc' \in {"listen", "amendTrail"} /\ (pc' = "amendTrail" => moved)
      BY <2>1 DEF Trail
    <2>3. FirstStopInv'
      BY <1>2, <2>2 DEF KeepInv, FirstStopInv
    <2>4. BreakevenReached'
      BY <1>2, <1>4
         DEF KeepInv, FirstStopInv, BreakevenReached, BreakevenDue, RiskDistance, Gain, Improves
    <2>5. TrailInv'
      <3>1. moved => /\ pc' = "listen" => Gain(p, stop) <= TrailDistance + StepSize
                     /\ pc' = "amendTrail" => Gain(p, wanted') <= TrailDistance + StepSize
        BY <1>1, <2>1, TrailWithin
      <3> QED BY <1>2, <2>2, <3>1 DEF TrailInv, TrailKeepsUp, Gain
    <2> QED BY <2>3, <2>4, <2>5 DEF KeepInv
  <1> QED BY <1>3, <1>4

\* A failure leaves what the decisions are taken from alone.
LEMMA GiveUpKeeps ==
    ASSUME KeepInv, GiveUp, UNCHANGED trade
    PROVE  KeepInv'
  BY DEF GiveUp, KeepInv, FirstStopInv, BreakevenReached, TrailInv, TrailKeepsUp

LEMMA AmendKeeps ==
    ASSUME KeepInv, AmendPosition
    PROVE  KeepInv'
  <1>1. CASE GiveUp
    BY <1>1, GiveUpKeeps DEF AmendPosition
  <1>2. CASE ~GiveUp
    <2>1. /\ UNCHANGED <<trade, price, wanted, stop, moved>>
          /\ pc \in {"amendBE", "amendTrail"}
          /\ pc' = IF pc = "amendBE" THEN "recordBE" ELSE "recordTrail"
      BY <1>2 DEF AmendPosition
    <2> QED BY <2>1
            DEF KeepInv, FirstStopInv, BreakevenReached, TrailInv, TrailKeepsUp, Gain
  <1> QED BY <1>1, <1>2

LEMMA RecordKeeps ==
    ASSUME IInv, KeepInv, RecordStop
    PROVE  KeepInv'
  <1>1. UNCHANGED <<trade, price>>
    BY DEF RecordStop
  <1>2. CASE GiveUp
    BY <1>1, <1>2, GiveUpKeeps
  <1>3. CASE pc = "recordBE" /\ Adopt
    <2>1. /\ Trail(price, wanted, TRUE) /\ stop' = wanted /\ moved' = TRUE
          /\ TypeOK /\ price \in Int /\ wanted \in Int
      BY <1>3 DEF Adopt, IInv, TypeOK
    <2>2. /\ pc' = "listen" => Gain(price, wanted) <= TrailDistance + StepSize
          /\ pc' = "amendTrail" => Gain(price, wanted') <= TrailDistance + StepSize
          /\ pc' \in {"listen", "amendTrail"}
      BY <2>1, TrailWithin DEF Trail
    <2> QED BY <1>1, <2>1, <2>2
            DEF KeepInv, FirstStopInv, BreakevenReached, TrailInv, TrailKeepsUp, Gain
  <1>4. CASE pc = "recordTrail" /\ Adopt
    <2>1. stop' = wanted /\ moved' = moved /\ pc' = "listen" /\ UNCHANGED wanted /\ moved
      BY <1>4 DEF Adopt, IInv, SendingInv
    <2> QED BY <1>1, <1>4, <2>1
            DEF KeepInv, FirstStopInv, BreakevenReached, TrailInv, TrailKeepsUp, Gain
  <1> QED BY <1>2, <1>3, <1>4 DEF RecordStop

LEMMA KeepsInvariant == Spec => []KeepInv
  <1>1. KeepInv /\ UNCHANGED vars => KeepInv'
    BY DEF vars, KeepInv, FirstStopInv, BreakevenReached, TrailInv, TrailKeepsUp, Gain,
           RiskDistance
  <1>2. IInv /\ KeepInv /\ [Next]_vars => KeepInv'
    BY <1>1, HandleKeeps, AmendKeeps, RecordKeeps DEF Next
  <1> QED BY <1>2, InitKeeps, Invariance, PTL DEF Spec

\* A price at the breakeven trigger, handled without a failure, has moved the stop.
THEOREM BreakevenOnTime == Spec => []BreakevenReached
  BY KeepsInvariant, PTL DEF KeepInv

\* Past breakeven a price handled without a failure leaves the stop the trailing distance
\* and one step behind it, or closer.
THEOREM KeepsUp == Spec => []TrailKeepsUp
  BY KeepsInvariant, PTL DEF KeepInv, TrailInv
=============================================================================
