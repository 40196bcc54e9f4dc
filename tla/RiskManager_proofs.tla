--------------------------- MODULE RiskManager_proofs ---------------------------
(* Theorems about RiskManager, for any balances, signals, risks, floors and units of size. *)
EXTENDS RiskManager, TLAPS

USE RiskAssumption, InputsAssumption DEF RiskAssumption, InputsAssumption

-----------------------------------------------------------------------------
(* Arithmetic *)

\* A quotient rounded down is the largest factor that fits.
LEMMA LargestFactor ==
    ASSUME NEW x \in Int, NEW d \in Nat \ {0}
    PROVE  x \div d \in Int /\ d * (x \div d) <= x /\ x < d * (x \div d) + d
  OBVIOUS

\* One that fits exactly leaves nothing over.
LEMMA EvenFactor ==
    ASSUME NEW x \in Int, NEW d \in Nat \ {0}, x % d = 0
    PROVE  x = d * (x \div d)
  OBVIOUS

\* What a trade may lose is at most its share of the balance, and with a floor at most the
\* distance to it.
LEMMA RiskBounded ==
    ASSUME NEW b \in Int
    PROVE  MaxRisk(b) \in Int /\ (Floor > 0 => MaxRisk(b) <= (b - Floor) * RiskDen)
  BY DEF MaxRisk

\* A stop that is not at the entry is at a positive distance of it, and after the widening
\* at the distance the size is computed from.
LEMMA StopAtDistance ==
    ASSUME NEW s \in Signal, s.action # "WAIT", Gap(s.entry, s.stop) # 0
    PROVE  /\ Distance(s) \in Nat \ {0}
           /\ WidenedStop(s) \in Int
           /\ Gap(s.entry, WidenedStop(s)) = Distance(s)
<1>1. /\ s.entry \in Nat /\ s.stop \in Nat /\ s.atr \in Nat
      /\ s.action = "BUY" \/ s.action = "SELL"
  BY DEF Signal
<1>2. CASE TooTight(s)
  <2>1. Distance(s) = s.atr /\ s.atr > 0
    BY <1>2 DEF Distance, TooTight
  <2>2. CASE s.action = "BUY"
    <3>1. WidenedStop(s) = s.entry - s.atr
      BY <1>2, <2>2 DEF WidenedStop
    <3> QED BY <1>1, <2>1, <3>1 DEF Gap
  <2>3. CASE s.action = "SELL"
    <3>1. WidenedStop(s) = s.entry + s.atr
      BY <1>2, <2>3 DEF WidenedStop
    <3> QED BY <1>1, <2>1, <3>1 DEF Gap
  <2> QED BY <1>1, <2>2, <2>3
<1>3. CASE ~TooTight(s)
  <2>1. Distance(s) = Gap(s.entry, s.stop) /\ WidenedStop(s) = s.stop
    BY <1>3 DEF Distance, WidenedStop
  <2> QED BY <1>1, <2>1 DEF Gap
<1> QED BY <1>2, <1>3

\* Money that is at most a multiple of the unit of size away from the floor leaves the
\* balance there.
LEMMA LossAboveFloor ==
    ASSUME NEW b \in Int, NEW loss \in Int, Floor > 0,
           RiskDen * loss <= MaxRisk(b) * SizeUnit
    PROVE  b * SizeUnit - loss >= Floor * SizeUnit
<1> DEFINE room == (b - Floor) * SizeUnit
<1>1. MaxRisk(b) \in Int /\ MaxRisk(b) <= (b - Floor) * RiskDen
  BY RiskBounded
<1>2. MaxRisk(b) * SizeUnit <= ((b - Floor) * RiskDen) * SizeUnit
  <2> DEFINE risk == MaxRisk(b)
             most == (b - Floor) * RiskDen
  <2>1. risk \in Int /\ most \in Int /\ risk <= most
    BY <1>1
  <2> HIDE DEF risk, most
  <2>2. risk * SizeUnit <= most * SizeUnit
    BY <2>1
  <2> QED BY <2>2 DEF risk, most
<1>3. ((b - Floor) * RiskDen) * SizeUnit = RiskDen * room
  OBVIOUS
<1>4. room \in Int /\ room = b * SizeUnit - Floor * SizeUnit
  OBVIOUS
<1>5. RiskDen * loss <= RiskDen * room
  BY <1>1, <1>2, <1>3
<1>6. loss <= room
  <2> HIDE DEF room
  <2>1. SUFFICES ASSUME loss >= room + 1 PROVE FALSE
    BY <1>4
  <2>2. RiskDen * loss >= RiskDen * (room + 1)
    BY <1>4, <2>1
  <2>3. RiskDen * (room + 1) = RiskDen * room + RiskDen
    BY <1>4
  <2>4. RiskDen * room \in Int /\ RiskDen * loss \in Int
    BY <1>4
  <2> QED BY <1>5, <2>2, <2>3, <2>4
<1> QED BY <1>4, <1>6

-----------------------------------------------------------------------------
(* The signal that is handed on *)

LEMMA AskedTypes ==
    ASSUME NEW s \in Signal
    PROVE  s.stop \in Nat /\ s.size = 0
<1>1. s.stop \in Nat
  BY DEF Signal
<1>2. s.size = 0
  BY DEF Signal
<1> QED BY <1>1, <1>2

\* What becomes of the signal: it is as it was asked until there is an answer; then its stop
\* may be the widened one, and its size is set only with an acceptance.
Validated ==
    /\ asked \in Signal /\ balance \in Balances
    /\ answer \in {"none", "TRUE", "FALSE"}
    /\ answer = "none" => signal = asked
    /\ ~Sized => \/ signal = asked
                 \/ /\ asked.action # "WAIT" /\ Gap(asked.entry, asked.stop) # 0
                    /\ signal = [asked EXCEPT !.stop = WidenedStop(asked)]
    /\ Sized => /\ asked.action # "WAIT"
                /\ \E size \in TargetSizes(balance, asked) :
                      /\ Accepted(balance, asked, size)
                      /\ signal = [asked EXCEPT !.stop = WidenedStop(asked), !.size = size]

LEMMA ValidatedStep == ASSUME Validated, [Next]_vars PROVE Validated'
<1>1. CASE Validate
  <2>1. answer = "none" /\ signal = asked /\ asked' = asked /\ balance' = balance
    BY <1>1 DEF Validated, Validate
  <2>2. asked.action \in {"BUY", "SELL", "WAIT"}
    BY DEF Validated, Signal
  <2>3. CASE asked.action = "WAIT"
    BY <1>1, <2>1, <2>3 DEF Validated, Validate, Sized
  <2>4. CASE /\ asked.action # "WAIT" /\ Gap(asked.entry, asked.stop) # 0
             /\ answer' = "FALSE" /\ signal' = [asked EXCEPT !.stop = WidenedStop(asked)]
    BY <2>1, <2>4 DEF Validated, Sized
  <2>5. ASSUME asked.action # "WAIT", answer' = "TRUE",
               NEW size \in TargetSizes(balance, asked), Accepted(balance, asked, size),
               signal' = [asked EXCEPT !.stop = WidenedStop(asked), !.size = size]
        PROVE  Validated'
    <3>1. signal'.action = asked.action
      BY <2>5 DEF Validated, Signal
    <3>2. /\ asked' = asked /\ balance' = balance /\ TargetSizes(balance, asked)' = TargetSizes(balance, asked)
          /\ WidenedStop(asked)' = WidenedStop(asked)
          /\ Accepted(balance, asked, size)' = Accepted(balance, asked, size)
      BY <2>1 DEF TargetSizes, Steps, Even, MaxRisk, Distance, WidenedStop, TooTight, Gap,
                  Accepted, BelowFloor
    <3> QED BY <2>1, <2>5, <3>1, <3>2 DEF Validated, Sized
  <2>6. CASE answer' = "FALSE" /\ signal' = asked
    BY <2>1, <2>6 DEF Validated, Sized
  <2>7. CASE asked.action # "WAIT" /\ ~(answer' = "FALSE" /\ signal' = asked)
    <3>1. /\ Gap(asked.entry, asked.stop) # 0
          /\ \E size \in TargetSizes(balance, asked) :
                IF Accepted(balance, asked, size)
                  THEN /\ answer' = "TRUE"
                       /\ signal' = [asked EXCEPT !.stop = WidenedStop(asked), !.size = size]
                  ELSE /\ answer' = "FALSE"
                       /\ signal' = [asked EXCEPT !.stop = WidenedStop(asked)]
      BY <1>1, <2>1, <2>7 DEF Validate
    <3> QED BY <2>4, <2>5, <2>7, <3>1
  <2> QED BY <2>3, <2>6, <2>7
<1>2. CASE UNCHANGED vars
  BY <1>2 DEF vars, Validated, Sized
<1> QED BY <1>1, <1>2 DEF Next

LEMMA Validates == Spec => []Validated
<1>1. Init => Validated
  BY DEF Init, Validated, Sized
<1> QED BY <1>1, ValidatedStep, PTL DEF Spec

\* An accepted signal keeps its entry, and is as far from its stop as its size was computed
\* for.
LEMMA Handed ==
    ASSUME Validated, Sized
    PROVE  /\ Distance(asked) \in Nat \ {0}
           /\ Gap(signal.entry, signal.stop) = Distance(asked)
           /\ signal.stop \in Int
           /\ signal.size \in TargetSizes(balance, asked) /\ signal.size \in Nat \ {0}
           /\ balance \in Int
<1>1. PICK size \in TargetSizes(balance, asked) :
        /\ Accepted(balance, asked, size)
        /\ signal = [asked EXCEPT !.stop = WidenedStop(asked), !.size = size]
  BY DEF Validated
<1>2. /\ asked \in Signal /\ asked.action # "WAIT" /\ Gap(asked.entry, asked.stop) # 0
      /\ size >= 1 /\ balance \in Int
  BY <1>1 DEF Validated, Accepted
<1>3. /\ Distance(asked) \in Nat \ {0} /\ WidenedStop(asked) \in Int
      /\ Gap(asked.entry, WidenedStop(asked)) = Distance(asked)
  BY <1>2, StopAtDistance
<1>4. signal.entry = asked.entry /\ signal.stop = WidenedStop(asked) /\ signal.size = size
  BY <1>1, <1>2 DEF Signal
<1>5. size \in Int
  <2> DEFINE d == RiskDen * Distance(asked)
             steps == Steps(balance, asked)
  <2>1. d \in Nat \ {0} /\ MaxRisk(balance) * SizeUnit \in Int
    BY <1>2, <1>3, RiskBounded
  <2>2. steps = (MaxRisk(balance) * SizeUnit) \div d
    BY DEF Steps
  <2>3. size = steps \/ size = steps - 1
    BY <1>1 DEF TargetSizes
  <2> HIDE DEF d, steps
  <2>4. steps \in Int
    BY <2>1, <2>2, LargestFactor
  <2> QED BY <2>3, <2>4
<1> QED BY <1>2, <1>3, <1>4, <1>5

\* The types of what is asked and answered; an accepted signal has at least the smallest size.
THEOREM TypeCorrect == Spec => []TypeOK
<1>1. Validated => TypeOK
  <2> SUFFICES ASSUME Validated PROVE TypeOK
    OBVIOUS
  <2>1. CASE Sized
    BY <2>1, Handed DEF Validated, TypeOK
  <2>2. CASE ~Sized
    <3>1. signal.size = 0
      <4>1. asked.size = 0
        BY DEF Validated, Signal
      <4>2. CASE signal = asked
        BY <4>1, <4>2
      <4>3. CASE signal # asked
        <5> DEFINE stop == WidenedStop(asked)
        <5>1. signal = [asked EXCEPT !.stop = stop] /\ asked \in Signal
          BY <2>2, <4>3 DEF Validated
        <5> HIDE DEF stop
        <5> QED BY <4>1, <5>1 DEF Signal
      <4> QED BY <4>2, <4>3
    <3>2. signal.stop \in Int
      <4>1. asked \in Signal /\ asked.stop \in Int
        <5>1. asked \in Signal
          BY DEF Validated
        <5> QED BY <5>1, AskedTypes
      <4>2. CASE signal = asked
        BY <4>1, <4>2
      <4>3. CASE signal # asked
        <5> DEFINE stop == WidenedStop(asked)
        <5>1. stop \in Int /\ signal = [asked EXCEPT !.stop = stop]
          BY <2>2, <4>3, StopAtDistance DEF Validated
        <5> HIDE DEF stop
        <5> QED BY <4>1, <5>1 DEF Signal
      <4> QED BY <4>2, <4>3
    <3> QED BY <2>2, <3>1, <3>2 DEF Validated, TypeOK
  <2> QED BY <2>1, <2>2
<1> QED BY <1>1, Validates, PTL

\* Of an accepted trade: it fits the risk at the stop it goes out with, and with one step more
\* of size it would use all of the risk, or more.
THEOREM LargestSize == Spec => []SizeIsLargestInRisk
<1>1. Validated => SizeIsLargestInRisk
  <2> SUFFICES ASSUME Validated, Sized
               PROVE  /\ RiskDen * Loss <= MaxRisk(balance) * SizeUnit
                      /\ RiskDen * (Loss + Gap(signal.entry, signal.stop))
                           >= MaxRisk(balance) * SizeUnit
    BY DEF SizeIsLargestInRisk
  <2> DEFINE allowed == MaxRisk(balance) * SizeUnit
             dist == Distance(asked)
             size == signal.size
             unit == RiskDen * dist
             steps == Steps(balance, asked)
  <2>1. /\ dist \in Nat \ {0} /\ size \in Nat \ {0} /\ allowed \in Int
        /\ Gap(signal.entry, signal.stop) = dist
        /\ size = steps \/ (size = steps - 1 /\ Even(balance, asked))
    <3>1. size \in TargetSizes(balance, asked)
      BY Handed
    <3>2. size = steps \/ (size = steps - 1 /\ Even(balance, asked))
      BY <3>1 DEF TargetSizes
    <3>3. allowed \in Int
      BY Handed, RiskBounded
    <3> QED BY <3>2, <3>3, Handed
  <2>2. steps = allowed \div unit /\ (Even(balance, asked) <=> allowed % unit = 0)
    BY DEF Steps, Even
  <2>3. Loss = size * dist
    BY <2>1 DEF Loss
  <2> HIDE DEF allowed, dist, size, steps
  <2>4. unit \in Nat \ {0}
    BY <2>1
  <2>5. RiskDen * (size * dist) = unit * size /\ RiskDen * (size * dist + dist) = unit * size + unit
    BY <2>1
  <2> HIDE DEF unit
  <2>6. steps \in Int /\ unit * steps <= allowed /\ allowed < unit * steps + unit
    BY <2>1, <2>2, <2>4, LargestFactor
  <2>7. unit * size <= allowed /\ unit * size + unit >= allowed
    <3>1. CASE size = steps
      BY <2>1, <2>4, <2>6, <3>1
    <3>2. CASE size = steps - 1 /\ Even(balance, asked)
      <4>1. allowed = unit * steps
        BY <2>1, <2>2, <2>4, <3>2, EvenFactor
      <4>2. unit * size = unit * steps - unit
        BY <2>4, <2>6, <3>2
      <4> QED BY <2>1, <2>4, <2>6, <4>1, <4>2
    <3> QED BY <2>1, <3>1, <3>2
  <2>8. RiskDen * Loss <= allowed /\ RiskDen * (Loss + dist) >= allowed
    BY <2>3, <2>5, <2>7
  <2> QED BY <2>1, <2>8 DEF allowed
<1> QED BY <1>1, Validates, PTL

\* A trade that was accepted and is stopped out leaves the balance at the floor or above.
THEOREM FloorSurvives == Spec => []StopKeepsFloor
<1>1. Validated /\ SizeIsLargestInRisk => StopKeepsFloor
  <2> SUFFICES ASSUME Validated, SizeIsLargestInRisk, Sized, Floor > 0
               PROVE  balance * SizeUnit - Loss >= Floor * SizeUnit
    BY DEF StopKeepsFloor
  <2>1. Loss \in Int /\ balance \in Int
    BY Handed DEF Loss
  <2>2. RiskDen * Loss <= MaxRisk(balance) * SizeUnit
    BY DEF SizeIsLargestInRisk
  <2> QED BY <2>1, <2>2, LossAboveFloor
<1> QED BY <1>1, Validates, LargestSize, PTL
=============================================================================
