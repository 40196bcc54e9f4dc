------------------------- MODULE StrategyServer_proofs -------------------------
(* Theorems about StrategyServer, for any markets, balances and bounds. *)
EXTENDS StrategyServer, TLAPS

USE RiskAssumption, ServerAssumption DEF RiskAssumption, ServerAssumption

-----------------------------------------------------------------------------
(* Budgets *)

LEMMA Quotient ==
    ASSUME NEW x \in Int, NEW y \in Int, NEW d \in Nat \ {0}, x <= y * d
    PROVE  x \div d \in Int /\ x \div d <= y
<1>1. x \div d \in Int
  OBVIOUS
<1>2. x = d * (x \div d) + (x % d) /\ 0 <= x % d /\ x % d < d /\ x % d \in Int
  OBVIOUS
<1>3. ASSUME x \div d > y PROVE FALSE
  <2> DEFINE q == x \div d
  <2>1. q \in Int /\ q >= y + 1
    BY <1>1, <1>3
  <2> HIDE DEF q
  <2>2. d * q >= d * (y + 1)
    BY <2>1
  <2>3. d * (y + 1) = y * d + d
    OBVIOUS
  <2>4. d * q <= x
    BY <1>2 DEF q
  <2> QED BY <2>1, <2>2, <2>3, <2>4
<1> QED BY <1>1, <1>3

\* A budget is a number, and losing it leaves a balance above the floor at the floor or
\* above.
LEMMA BudgetKeepsFloor ==
    ASSUME NEW b \in Int, ~BelowFloor(b)
    PROVE  Budget(b) \in Int /\ (Floor > 0 => b - Budget(b) >= Floor)
<1>1. MaxRisk(b) \in Int
  BY DEF MaxRisk
<1>2. Budget(b) \in Int
  BY <1>1 DEF Budget
<1>3. ASSUME Floor > 0 PROVE b - Budget(b) >= Floor
  <2> DEFINE risk == MaxRisk(b)
  <2>1. risk \in Int /\ risk <= (b - Floor) * RiskDen
    BY <1>1, <1>3 DEF MaxRisk
  <2> HIDE DEF risk
  <2>2. risk \div RiskDen <= b - Floor
    BY <2>1, Quotient
  <2> QED BY <1>2, <2>2 DEF Budget, risk
<1> QED BY <1>2, <1>3

-----------------------------------------------------------------------------
(* Types *)

LEMMA ValuesStep ==
    ASSUME ValueTypes, FlagTypes, [Next]_vars PROVE ValueTypes'
<1> USE DEF ValueTypes, Runners, Stages, Position, vars, runs, account, counts, hist
<1>1. CASE \E m \in Markets : Fire(m)
  BY <1>1 DEF Fire
<1>2. CASE \E m \in Markets : Publish(m)
  BY <1>2 DEF Publish
<1>3. CASE Receive
  BY <1>3 DEF Receive
<1>4. CASE \E r \in Runners : Analyze(r)
  <2>1. PICK r \in Runners : Analyze(r)
    BY <1>4
  <2>2. active' \subseteq Markets /\ elapsed' \in [Runners -> Nat] /\ sized' \in [Runners -> Nat]
    <3>1. CASE UNCHANGED <<active, elapsed, sized>>
      BY <3>1
    <3>2. CASE Finish(r)
      BY <3>2 DEF Finish, ReleaseActive
    <3> QED BY <2>1, <3>1, <3>2 DEF Analyze
  <2>3. stage' \in [Runners -> Stages]
    BY <2>1 DEF Analyze, Finish
  <2> QED BY <2>1, <2>2, <2>3 DEF Analyze
<1>5. CASE \E r \in Runners : Wake(r)
  BY <1>5 DEF Wake, Slept
<1>6. CASE \E r \in Runners : Validate(r)
  <2>1. PICK r \in Runners : Validate(r)
    BY <1>6
  <2>2. ASSUME NEW seen \in AccountBalances, ~BelowFloor(seen), Budget(seen) > 0,
               sized' = [sized EXCEPT ![r] = Budget(seen)],
               stage' = [stage EXCEPT ![r] = "trigger"], UNCHANGED <<active, elapsed>>
        PROVE  ValueTypes'
    <3>1. seen \in Int
      BY DEF AccountBalances
    <3>2. Budget(seen) \in Nat
      BY <2>2, <3>1, BudgetKeepsFloor
    <3> QED BY <2>1, <2>2, <3>2 DEF Validate
  <2>3. CASE Finish(r) /\ UNCHANGED hist
    BY <2>1, <2>3 DEF Validate, Finish, ReleaseActive
  <2> QED BY <2>1, <2>2, <2>3 DEF Validate
<1>7. CASE \E r \in Runners : EndTrade(r)
  BY <1>7 DEF EndTrade, Finish, ReleaseActive
<1>8. CASE \E r \in Runners : SendOrder(r)
  <2>1. PICK r \in Runners : SendOrder(r)
    BY <1>8
  <2>2. (CHOOSE d \in FreeDeals : TRUE) \in Deals
    BY <2>1 DEF SendOrder, FreeDeals
  <2>3. [deal |-> CHOOSE d \in FreeDeals : TRUE, risk |-> sized[r]] \in Position
    BY <2>2
  <2>4. pending' \subseteq Position
    BY <2>1, <2>3 DEF SendOrder
  <2>5. stage' \in [Runners -> Stages] /\ sized' \in [Runners -> Nat]
    BY <2>1 DEF SendOrder
  <2> QED BY <2>1, <2>4, <2>5 DEF SendOrder
<1>9. CASE \E p \in pending : FillOrder(p) \/ DropOrder(p)
  BY <1>9 DEF FillOrder, DropOrder
<1>10. CASE \E p \in positions : ClosePosition(p)
  BY <1>10 DEF ClosePosition
<1>11. CASE ServerDies \/ Restart
  <2>1. CASE ServerDies
    BY <2>1 DEF ServerDies
  <2>2. CASE Restart
    BY <2>2 DEF Restart
  <2> QED BY <1>11, <2>1, <2>2
<1>12. CASE UNCHANGED vars
  BY <1>12
<1> QED BY <1>1, <1>2, <1>3, <1>4, <1>5, <1>6, <1>7, <1>8, <1>9, <1>10, <1>11, <1>12
        DEF Next, Run

LEMMA FlagsStep ==
    ASSUME FlagTypes, [Next]_vars PROVE FlagTypes'
<1> USE DEF FlagTypes, vars, runs, account, counts, hist
<1>1. CASE \E m \in Markets : Fire(m) \/ Publish(m)
  BY <1>1 DEF Fire, Publish
<1>2. CASE Receive \/ ServerDies \/ Restart
  BY <1>2 DEF Receive, ServerDies, Restart
<1>3. CASE \E r \in Runners : Analyze(r) \/ Wake(r) \/ EndTrade(r) \/ SendOrder(r)
  BY <1>3 DEF Analyze, Wake, EndTrade, SendOrder
<1>4. CASE \E r \in Runners : Validate(r)
  BY <1>4 DEF Validate
<1>5. CASE \/ \E p \in pending : FillOrder(p) \/ DropOrder(p)
           \/ \E p \in positions : ClosePosition(p)
  BY <1>5 DEF FillOrder, DropOrder, ClosePosition
<1>6. CASE UNCHANGED vars
  BY <1>6
<1> QED BY <1>1, <1>2, <1>3, <1>4, <1>5, <1>6 DEF Next, Run

LEMMA InitTypes == Init => TypeOK
<1>1. Init => queue \in Seq(Markets) /\ active \subseteq Markets /\ serving \in Markets
                /\ pending \subseteq Position /\ positions \subseteq Position
  BY DEF Init
<1>2. Init => stage \in [Runners -> Stages] /\ elapsed \in [Runners -> Nat]
                /\ sized \in [Runners -> Nat]
  BY DEF Init, Stages
<1>3. Init => balance \in Int /\ fires \in Nat /\ commands \in Nat /\ deaths \in Nat
  BY DEF Init
<1>4. Init => FlagTypes
  BY DEF Init, FlagTypes
<1> QED BY <1>1, <1>2, <1>3, <1>4 DEF TypeOK, ValueTypes

\* Every variable keeps to its values.
THEOREM TypeCorrect == Spec => []TypeOK
<1>1. Init => TypeOK
  BY InitTypes
<1>2. TypeOK /\ [Next]_vars => TypeOK'
  BY ValuesStep, FlagsStep DEF TypeOK
<1> QED BY <1>1, <1>2, PTL DEF Spec
-----------------------------------------------------------------------------
(* The floor *)

\* The orders and the positions that may lose money.
Trades == pending \union positions

\* What strengthens FloorHoldsOneByOne: while no trade has overlapped another, and none was
\* sized on another account, there is at most one: about to be ordered, ordered or a
\* position.  The balance can bear its loss.
SoleTrade ==
    /\ balance >= Floor
    /\ pending = {} \/ positions = {}
    /\ \A p \in Trades : balance - p.risk >= Floor
    /\ \A p, q \in Trades : p = q
    /\ \A r \in Runners : stage[r] = "trigger" => Trades = {} /\ balance - sized[r] >= Floor
    /\ \A r, q \in Runners : stage[r] = "trigger" /\ stage[q] = "trigger" => r = q

SoleTradeInv == (Floor > 0 /\ ~overlap /\ ~misread) => SoleTrade

\* A run that ends, starts or sleeps leaves no new trade outstanding.
LEMMA FewerTriggers ==
    ASSUME SoleTrade, UNCHANGED account,
           \A r \in Runners : stage'[r] = "trigger" => stage[r] = "trigger" /\ sized'[r] = sized[r]
    PROVE  SoleTrade'
BY DEF SoleTrade, Trades, account

LEMMA SoleTradeStep ==
    ASSUME TypeOK, SoleTradeInv, [Next]_vars, Floor > 0, ~overlap', ~misread'
    PROVE  SoleTrade'
<1> USE DEF counts, runs, vars, hist
<1>0. (overlap => overlap') /\ (misread => misread')
  <2>1. overlap \in BOOLEAN /\ misread \in BOOLEAN
    BY DEF TypeOK, FlagTypes
  <2>2. UNCHANGED hist \/ \E r \in Runners : Validate(r)
    BY DEF Next, Run, Fire, Publish, Receive, Analyze, Wake, EndTrade, SendOrder, FillOrder,
           DropOrder, ClosePosition, ServerDies, Restart
  <2> QED BY <2>1, <2>2 DEF Validate
<1>1. SoleTrade
  BY <1>0 DEF SoleTradeInv
<1>2. stage \in [Runners -> Stages] /\ sized \in [Runners -> Nat] /\ balance \in Int
        /\ pending \subseteq Position /\ positions \subseteq Position
  BY DEF TypeOK, ValueTypes
<1>3. CASE \E m \in Markets : Fire(m) \/ Publish(m)
  BY <1>1, <1>2, <1>3, FewerTriggers DEF Fire, Publish
<1>4. CASE Receive \/ ServerDies \/ Restart
  BY <1>1, <1>2, <1>4, FewerTriggers DEF Receive, ServerDies, Restart
<1>5. CASE \E r \in Runners : Analyze(r) \/ Wake(r) \/ EndTrade(r)
  BY <1>1, <1>2, <1>5, FewerTriggers DEF Analyze, Wake, EndTrade, Finish
<1>6. ASSUME NEW r \in Runners, Validate(r) PROVE SoleTrade'
  <2>1. CASE Finish(r)
    BY <1>1, <1>2, <1>6, <2>1, FewerTriggers DEF Validate, Finish
  <2>2. ASSUME NEW seen \in AccountBalances, ~BelowFloor(seen),
               stage' = [stage EXCEPT ![r] = "trigger"],
               sized' = [sized EXCEPT ![r] = Budget(seen)],
               overlap' = (overlap \/ Outstanding(r)),
               misread' = (misread \/ seen \notin {balance, 0})
        PROVE  SoleTrade'
    <3>0. seen \in {balance, 0}
      BY <2>2, Zenon
    <3>1. seen = balance
      BY <1>2, <2>2, <3>0 DEF BelowFloor
    <3>2. Trades = {} /\ \A q \in Runners \ {r} : stage[q] # "trigger"
      BY <2>2 DEF Outstanding, Trades
    <3>3. UNCHANGED <<pending, positions, balance>>
      BY <1>6 DEF Validate, account
    <3>4. balance' - sized'[r] >= Floor
      BY <1>2, <2>2, <3>1, <3>3, BudgetKeepsFloor
    <3>5. \A q \in Runners : stage'[q] = "trigger" => q = r
      BY <1>2, <2>2, <3>2
    <3> QED BY <1>1, <3>2, <3>3, <3>4, <3>5 DEF SoleTrade, Trades
  <2> QED BY <1>6, <2>1, <2>2 DEF Validate
<1>7. ASSUME NEW r \in Runners, SendOrder(r) PROVE SoleTrade'
  <2>0. Trades = {} /\ balance - sized[r] >= Floor
    BY <1>1, <1>7 DEF SendOrder, SoleTrade
  <2>1. PICK p : pending' = {p} /\ p.risk = sized[r]
    <3> DEFINE new == [deal |-> CHOOSE d \in FreeDeals : TRUE, risk |-> sized[r]]
    <3>1. pending' = {new}
      BY <2>0, <1>7 DEF SendOrder, Trades
    <3>2. new.risk = sized[r]
      OBVIOUS
    <3> HIDE DEF new
    <3> QED BY <3>1, <3>2
  <2>2. balance' = balance /\ positions' = {}
    BY <1>7, <2>0 DEF SendOrder, Trades
  <2>3. \A q \in Runners : stage'[q] # "trigger"
    BY <1>1, <1>2, <1>7 DEF SendOrder, SoleTrade
  <2> QED BY <1>1, <2>0, <2>1, <2>2, <2>3 DEF SoleTrade, Trades
<1>8. ASSUME NEW p \in pending, FillOrder(p) \/ DropOrder(p) PROVE SoleTrade'
  <2>1. pending = {p} /\ positions = {}
    BY <1>1 DEF SoleTrade, Trades
  <2>2. pending' = {} /\ positions' \subseteq {p}
    BY <1>8, <2>1 DEF FillOrder, DropOrder
  <2>3. UNCHANGED <<stage, sized, balance>>
    BY <1>8 DEF FillOrder, DropOrder
  <2> QED BY <1>1, <2>1, <2>2, <2>3 DEF SoleTrade, Trades
<1>9. ASSUME NEW p \in positions, ClosePosition(p) PROVE SoleTrade'
  <2>1. pending' = {} /\ positions' = {}
    BY <1>1, <1>9 DEF ClosePosition, SoleTrade, Trades
  <2>2. p.risk \in Nat
    BY <1>2 DEF Position
  <2>3. balance' >= Floor
    BY <1>1, <1>2, <1>9, <2>2 DEF ClosePosition, SoleTrade, Trades
  <2>4. \A q \in Runners : stage'[q] # "trigger"
    BY <1>1, <1>9 DEF ClosePosition, SoleTrade, Trades
  <2> QED BY <2>1, <2>3, <2>4 DEF SoleTrade, Trades
<1>10. CASE UNCHANGED vars
  BY <1>1, <1>10, FewerTriggers DEF account
<1> QED BY <1>3, <1>4, <1>5, <1>6, <1>7, <1>8, <1>9, <1>10 DEF Next, Run

\* Trades that never overlap, and are sized on the account they trade, keep the balance at
\* the floor or above.
THEOREM FloorOneByOne == Spec => []FloorHoldsOneByOne
<1>1. Init => SoleTradeInv
  BY DEF Init, SoleTradeInv, SoleTrade, Trades
<1>2. TypeOK /\ SoleTradeInv /\ [Next]_vars => SoleTradeInv'
  BY SoleTradeStep DEF SoleTradeInv
<1>3. SoleTradeInv => FloorHoldsOneByOne
  BY DEF SoleTradeInv, SoleTrade, FloorHoldsOneByOne
<1> QED BY TypeCorrect, <1>1, <1>2, <1>3, PTL DEF Spec

-----------------------------------------------------------------------------
(* Stalking *)

\* A job that sleeps is one whose stalking time was not over.
StalkInv == /\ StalkingEnds
            /\ \A m \in Markets : stage[m] = "sleep" => elapsed[m] < Duration

\* No job stalks longer than its time and one sleep.
THEOREM StalkingBounded == Spec => []StalkingEnds
<1> USE DEF account, counts, runs, vars, hist
<1>1. Init => StalkInv
  BY DEF Init, StalkInv, StalkingEnds, Runners
<1>2. ASSUME TypeOK, StalkInv, [Next]_vars PROVE StalkInv'
  <2>1. stage \in [Runners -> Stages] /\ elapsed \in [Runners -> Nat] /\ Markets \subseteq Runners
    BY <1>2 DEF TypeOK, ValueTypes, Runners
  <2> USE <1>2, <2>1 DEF StalkInv, StalkingEnds
  <2>2. CASE \E m \in Markets : Fire(m)
    BY <2>2 DEF Fire
  <2>3. CASE \E r \in Runners : Analyze(r)
    BY <2>3 DEF Analyze, StalkOn, Finish
  <2>4. CASE \E r \in Runners : Wake(r)
    BY <2>4 DEF Wake, Slept, Runners
  <2>5. CASE \E r \in Runners : Validate(r) \/ EndTrade(r)
    BY <2>5 DEF Validate, EndTrade, Finish
  <2>6. CASE Receive \/ ServerDies
    BY <2>6 DEF Receive, ServerDies
  <2>7. CASE UNCHANGED <<stage, elapsed>>
    BY <2>7
  <2>8. CASE \E r \in Runners : SendOrder(r)
    BY <2>8 DEF SendOrder
  <2> QED BY <2>2, <2>3, <2>4, <2>5, <2>6, <2>7, <2>8
          DEF Next, Run, Publish, FillOrder, DropOrder, ClosePosition, Restart
<1>3. StalkInv => StalkingEnds
  BY DEF StalkInv
<1> QED BY TypeCorrect, <1>1, <1>2, <1>3, PTL DEF Spec

-----------------------------------------------------------------------------
(* Commands *)

\* The lock on a market is held only by the run it was taken for: no run that has ended, and
\* no process that has died, has left one behind.
ActiveInv == active \subseteq IF stage[Listener] = "idle" THEN {} ELSE {serving}

LEMMA ActiveStep ==
    ASSUME TypeOK, ActiveInv, [Next]_vars PROVE ActiveInv'
<1> USE DEF account, counts, runs, vars, hist
<1>1. stage \in [Runners -> Stages] /\ Listener \in Runners /\ Listener \notin Markets
  BY DEF TypeOK, ValueTypes, Runners
<1> USE <1>1 DEF ActiveInv
<1>2. CASE \E m \in Markets : Fire(m) \/ Publish(m)
  BY <1>2 DEF Fire, Publish
<1>3. CASE Receive
  BY <1>3 DEF Receive, Stages
<1>4. ASSUME NEW r \in Runners, Finish(r), UNCHANGED serving PROVE ActiveInv'
  <2>1. CASE r = Listener
    BY <1>4, <2>1 DEF Finish, ReleaseActive
  <2>2. CASE r # Listener
    BY <1>4, <2>2 DEF Finish
  <2> QED BY <2>1, <2>2
<1>5. ASSUME NEW r \in Runners, UNCHANGED <<active, serving>>,
             stage[r] # "idle", NEW s \in Stages \ {"idle"}, stage' = [stage EXCEPT ![r] = s]
      PROVE  ActiveInv'
  BY <1>5
<1>6. CASE \E r \in Runners : Analyze(r)
  BY <1>4, <1>5, <1>6 DEF Analyze, Stages
<1>7. CASE \E r \in Runners : Wake(r) \/ SendOrder(r)
  BY <1>5, <1>7 DEF Wake, SendOrder, Stages
<1>8. CASE \E r \in Runners : Validate(r)
  BY <1>4, <1>5, <1>8 DEF Validate, Stages
<1>9. CASE \E r \in Runners : EndTrade(r)
  BY <1>4, <1>9 DEF EndTrade
<1>10. CASE ServerDies
  BY <1>10 DEF ServerDies
<1>11. CASE UNCHANGED <<stage, active, serving>>
  BY <1>11
<1> QED BY <1>2, <1>3, <1>6, <1>7, <1>8, <1>9, <1>10, <1>11
        DEF Next, Run, FillOrder, DropOrder, ClosePosition, Restart

\* Every command the listener takes from the subscription is run.
THEOREM CommandsRun == Spec => EveryCommandRuns
<1> USE DEF account, counts, runs, vars, hist
<1>1. Init => ActiveInv
  BY DEF Init, ActiveInv, Runners
<1>2. TypeOK /\ ActiveInv /\ [Next]_vars => ActiveInv'
  BY ActiveStep
<1>3. ASSUME TypeOK, ActiveInv, [Next]_vars, Len(queue') < Len(queue), alive'
      PROVE  stage'[Listener] = "analyze"
  <2>1. queue \in Seq(Markets) /\ stage \in [Runners -> Stages] /\ Listener \in Runners
    BY <1>3 DEF TypeOK, ValueTypes, Runners
  <2>2. ~(queue' = queue) /\ ~(\E m \in Markets : queue' = Append(queue, m))
    BY <1>3, <2>1
  <2>3. Receive \/ ServerDies
    BY <1>3, <2>2
       DEF Next, Run, Fire, Publish, Analyze, Wake, Validate, SendOrder, EndTrade, FillOrder,
           DropOrder, ClosePosition, Restart
  <2>4. Receive
    BY <1>3, <2>3 DEF ServerDies
  <2>5. active = {}
    BY <1>3, <2>4 DEF Receive, ActiveInv
  <2> QED BY <2>1, <2>4, <2>5 DEF Receive
<1>4. TypeOK /\ ActiveInv /\ [Next]_vars
        => [Len(queue') < Len(queue) /\ alive' => stage'[Listener] = "analyze"]_vars
  BY <1>3
<1> QED BY TypeCorrect, <1>1, <1>2, <1>4, PTL DEF Spec, EveryCommandRuns
=============================================================================
