----------------------------- MODULE StrategyServer -----------------------------
(***************************************************************************)
(* The execution server (src/app/cli/server.py): the CommandListener, the  *)
(* scheduler's jobs and the account they all trade on.  Each market has a  *)
(* scheduled job that runs run_market_strategy (src/app/cli/trade.py), and *)
(* the listener runs the strategy of one command after the other.  Every   *)
(* run analyses, validates the signal against the balance and trades.      *)
(*                                                                         *)
(* A trade is the time from the validated signal to the return of          *)
(* execute_trade, and keeps to what TradeLedger promises of it: it sends    *)
(* one order at most, which the broker may fill after the run is over, and *)
(* the position loses at most its risk.  What it may risk is RiskRules'.   *)
(***************************************************************************)
EXTENDS RiskRules, Sequences

CONSTANTS
    Markets,        \* MARKET_CONFIGS; each is also the name of its job
    Listener,       \* the command listener
    Deals,          \* bound: the names of the deals that may exist at one time
    Interval, Duration,     \* stalking: sleep, and how long to go on
    Balances,       \* the balances the account may start with
    OtherAccounts,  \* what the login's other accounts hold; see AccountBalances
    MaxBalance,     \* bound: profits stop here
    MaxFires, MaxCommands, MaxDeaths    \* bounds: jobs fired, commands, restarts

ASSUME ServerAssumption ==
    /\ Listener \notin Markets
    /\ Interval \in Nat \ {0} /\ Duration \in Nat
    /\ Balances \subseteq Int /\ OtherAccounts \subseteq Int /\ MaxBalance \in Int
    /\ \A b \in Balances : b >= Floor     \* an account that starts above its floor
    /\ MaxFires \in Nat /\ MaxCommands \in Nat /\ MaxDeaths \in Nat

VARIABLES
    alive,          \* the server process runs
    queue,          \* commands published and not yet received, oldest first
    active,         \* active_markets of the listener
    serving,        \* the market of the command the listener received last
    stage,          \* what each run is awaiting
    elapsed,        \* how long each job has been stalking
    sized,          \* what the order each run is about to send may lose
    pending,        \* orders the broker has not decided: [deal, risk]
    positions,      \* the open positions, each the order it was
    balance,        \* the account
    fires, commands, deaths,    \* counters behind the bounds
    overlap,        \* history: a signal was accepted while another trade was outstanding
    misread         \* history: one was accepted on another account's balance

runs == <<stage, elapsed, sized>>
account == <<pending, positions, balance>>
counts == <<fires, commands, deaths>>
hist == <<overlap, misread>>
vars == <<alive, queue, active, serving, runs, account, counts, hist>>

Runners == Markets \union {Listener}
Stages  == {"idle", "analyze", "sleep", "validate", "trigger", "trade"}

Init ==
    /\ alive = TRUE /\ queue = <<>> /\ active = {} /\ serving \in Markets
    /\ stage = [r \in Runners |-> "idle"] /\ elapsed = [r \in Runners |-> 0]
    /\ sized = [r \in Runners |-> 0]
    /\ pending = {} /\ positions = {} /\ balance \in Balances
    /\ fires = 0 /\ commands = 0 /\ deaths = 0 /\ overlap = FALSE /\ misread = FALSE

\* Other trades that may lose money: orders to be sent, orders sent, and positions.
Outstanding(r) ==
    pending # {} \/ positions # {} \/ \E q \in Runners \ {r} : stage[q] = "trigger"

\* The lock on the market is given back however the run of a command ends.
KeepActive    == active
ReleaseActive == active \ {serving}

\* A run ends: a job leaves run_market_strategy, the listener its handler.
Finish(r) ==
    /\ stage' = [stage EXCEPT ![r] = "idle"]
    /\ elapsed' = [elapsed EXCEPT ![r] = 0] /\ sized' = [sized EXCEPT ![r] = 0]
    /\ active' = IF r = Listener THEN ReleaseActive ELSE active

-----------------------------------------------------------------------------
(* Starting a run *)

\* The scheduler fires the job of m.  A job that still runs is not started again
\* (max_instances = 1), whatever the listener is doing.
Fire(m) ==
    /\ alive /\ stage[m] = "idle" /\ fires < MaxFires
    /\ fires' = fires + 1
    /\ stage' = [stage EXCEPT ![m] = "analyze"]
    /\ UNCHANGED <<alive, queue, active, serving, elapsed, sized, account, commands, deaths, hist>>

\* A command reaches the subscription, and waits there while the listener is busy.  Nobody
\* hears it while the process is down.
Publish(m) ==
    /\ commands < MaxCommands /\ commands' = commands + 1
    /\ queue' = IF alive THEN Append(queue, m) ELSE queue
    /\ UNCHANGED <<alive, active, serving, runs, account, fires, deaths, hist>>

\* The listener takes the next command, and skips it if its market is active.
Receive ==
    /\ alive /\ stage[Listener] = "idle" /\ queue # <<>>
    /\ queue' = Tail(queue)
    /\ IF Head(queue) \in active
         THEN UNCHANGED <<active, serving, stage>>
         ELSE /\ active' = active \union {Head(queue)} /\ serving' = Head(queue)
              /\ stage' = [stage EXCEPT ![Listener] = "analyze"]
    /\ UNCHANGED <<alive, elapsed, sized, account, counts, hist>>

-----------------------------------------------------------------------------
(* StrategyEngine.run_strategy *)

\* The stalking time is not over.
StalkOn(r) == elapsed[r] < Duration

\* The signal is one to act on; the market is on holiday, the analysis failed or the
\* signal is skipped; or the answer is WAIT, on which a job goes on stalking.
Analyze(r) ==
    /\ stage[r] = "analyze"
    /\ \/ stage' = [stage EXCEPT ![r] = "validate"] /\ UNCHANGED <<active, elapsed, sized>>
       \/ /\ r # Listener /\ StalkOn(r)
          /\ stage' = [stage EXCEPT ![r] = "sleep"] /\ UNCHANGED <<active, elapsed, sized>>
       \/ Finish(r)
    /\ UNCHANGED <<alive, queue, serving, account, counts, hist>>

StalksOn(r) == elapsed[r]
Slept(r)    == elapsed[r] + Interval

Wake(r) ==
    /\ stage[r] = "sleep"
    /\ stage' = [stage EXCEPT ![r] = "analyze"] /\ elapsed' = [elapsed EXCEPT ![r] = Slept(r)]
    /\ UNCHANGED <<alive, queue, active, serving, sized, account, counts, hist>>

\* get_account_balance: the account's; 0 if the answer has no account; or, when the account
\* of another login is the client's current one, the balance of the first account listed.
AccountBalances == {balance, 0} \union OtherAccounts

\* What a signal accepted on balance b may lose, in whole units.
UncappedBudget(b) == (b * RiskNum) \div RiskDen
Budget(b)         == MaxRisk(b) \div RiskDen

\* The balance knows nothing of the trades that have not ended.
Validate(r) ==
    /\ stage[r] = "validate"
    /\ \/ \E seen \in AccountBalances :
            /\ ~BelowFloor(seen) /\ Budget(seen) > 0
            /\ stage' = [stage EXCEPT ![r] = "trigger"]
            /\ sized' = [sized EXCEPT ![r] = Budget(seen)]
            /\ overlap' = (overlap \/ Outstanding(r))
            /\ misread' = (misread \/ seen \notin {balance, 0})
            /\ UNCHANGED <<active, elapsed>>
       \/ Finish(r) /\ UNCHANGED hist
    /\ UNCHANGED <<alive, queue, serving, account, counts>>

\* No two deals have one name at a time.
FreeDeals == {d \in Deals : \A p \in pending \union positions : p.deal # d}

\* The trade sends its order: at once, or when the price triggers it.
SendOrder(r) ==
    /\ stage[r] = "trigger" /\ FreeDeals # {}
    /\ stage' = [stage EXCEPT ![r] = "trade"] /\ sized' = [sized EXCEPT ![r] = 0]
    /\ pending' = pending \union {[deal |-> CHOOSE d \in FreeDeals : TRUE, risk |-> sized[r]]}
    /\ UNCHANGED <<alive, queue, active, serving, elapsed, positions, balance, counts, hist>>

\* execute_trade returns: without an order, without an answer to it, or after the position
\* was closed or given up.
EndTrade(r) ==
    /\ stage[r] \in {"trigger", "trade"} /\ Finish(r)
    /\ UNCHANGED <<alive, queue, serving, account, counts, hist>>

-----------------------------------------------------------------------------
(* The surroundings *)

\* The broker fills an order, or it was refused or never arrived.  The run need not wait for it.
FillOrder(p) ==
    /\ pending' = pending \ {p} /\ positions' = positions \union {p}
    /\ UNCHANGED <<alive, queue, active, serving, runs, balance, counts, hist>>

DropOrder(p) ==
    /\ pending' = pending \ {p}
    /\ UNCHANGED <<alive, queue, active, serving, runs, positions, balance, counts, hist>>

\* A position closes, at its stop, at no profit or with one.
ClosePosition(p) ==
    /\ positions' = positions \ {p}
    /\ balance' \in {balance - p.risk, balance}
                      \union (IF balance < MaxBalance THEN {balance + 1} ELSE {})
    /\ UNCHANGED <<alive, queue, active, serving, runs, pending, counts, hist>>

\* Redis drops: the listener's ConnectionError leaves start() and gather(), and the process
\* ends with every job.
ServerDies ==
    /\ alive /\ deaths < MaxDeaths
    /\ deaths' = deaths + 1 /\ alive' = FALSE
    /\ queue' = <<>> /\ active' = {}
    /\ stage' = [r \in Runners |-> "idle"]
    /\ elapsed' = [r \in Runners |-> 0] /\ sized' = [r \in Runners |-> 0]
    /\ UNCHANGED <<serving, account, fires, commands, hist>>

\* The container is restarted, with a new listener and new jobs.
Restart ==
    /\ ~alive /\ alive' = TRUE
    /\ UNCHANGED <<queue, active, serving, runs, account, counts, hist>>

Run(r) == Analyze(r) \/ Wake(r) \/ Validate(r) \/ SendOrder(r) \/ EndTrade(r)

Next ==
    \/ \E m \in Markets : Fire(m) \/ Publish(m)
    \/ Receive
    \/ \E r \in Runners : Run(r)
    \/ \E p \in pending : FillOrder(p) \/ DropOrder(p)
    \/ \E p \in positions : ClosePosition(p)
    \/ ServerDies \/ Restart

Spec == Init /\ [][Next]_vars

\* Calls return, sleeps end, trades end (TradeExecutor's EndsUnlessSilent, for a feed that
\* is not silent for good), the listener goes on and the container is restarted.
FairSpec == /\ Spec /\ WF_vars(Receive) /\ WF_vars(Restart)
            /\ \A r \in Runners : WF_vars(Run(r))

-----------------------------------------------------------------------------
(* Properties *)

Position == [deal : Deals, risk : Nat]

ValueTypes ==
    /\ queue \in Seq(Markets) /\ active \subseteq Markets /\ serving \in Markets
    /\ stage \in [Runners -> Stages] /\ elapsed \in [Runners -> Nat]
    /\ sized \in [Runners -> Nat]
    /\ pending \subseteq Position /\ positions \subseteq Position
    /\ balance \in Int
    /\ fires \in Nat /\ commands \in Nat /\ deaths \in Nat

FlagTypes == alive \in BOOLEAN /\ overlap \in BOOLEAN /\ misread \in BOOLEAN

TypeOK == ValueTypes /\ FlagTypes

\* Every command the listener receives is run: no end of an earlier run, be it an error or
\* the death of the process, leaves its market locked.
EveryCommandRuns == [][Len(queue') < Len(queue) /\ alive' => stage'[Listener] = "analyze"]_vars

\* A job begins its last analysis less than a sleep after its stalking time is over, so no
\* trade is entered on a schedule that is long past.
StalkingEnds == \A m \in Markets : elapsed[m] < Duration + Interval

\* As long as no signal is accepted while an earlier trade is outstanding, across markets,
\* runs and restarts, nor on the balance of another account, the losses at the stops never
\* take the balance below the floor, be the orders filled during their runs or after them.
FloorHoldsOneByOne == (Floor > 0 /\ ~overlap /\ ~misread) => balance >= Floor

\* Every job that is started and every command that is received comes to its end, unless
\* the process dies again and again.
Quiesces == <>[](queue = <<>> /\ \A r \in Runners : stage[r] = "idle")
=============================================================================
