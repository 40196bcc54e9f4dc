-------------------------------- MODULE RiskRules --------------------------------
(***************************************************************************)
(* The arithmetic of RiskManager.validate_signal (src/app/services/        *)
(* risk.py): what a trade may lose, how wide its stop has to be and how    *)
(* large it may be.  Money and prices are integers.  A risk is kept as     *)
(* RiskDen times the amount, so that a percentage of a balance stays       *)
(* exact, and a size is counted in steps of 1/SizeUnit.                    *)
(***************************************************************************)
EXTENDS Integers

CONSTANTS
    RiskNum, RiskDen,   \* RISK_PER_TRADE_PERCENT as a fraction
    Floor,              \* MIN_ACCOUNT_BALANCE; 0 switches the floor off
    SizeUnit            \* 100: sizes have two decimals

ASSUME RiskAssumption ==
    /\ RiskNum \in Nat /\ RiskDen \in Nat \ {0}
    /\ Floor \in Nat /\ SizeUnit \in Nat \ {0}

BelowFloor(balance) == Floor > 0 /\ balance - Floor <= 0

\* RiskDen times the most the trade may lose: a share of the balance, capped by the
\* distance to the floor.
UncappedRisk(balance) == balance * RiskNum
MaxRisk(balance) ==
    IF Floor > 0 /\ balance * RiskNum > (balance - Floor) * RiskDen
      THEN (balance - Floor) * RiskDen
      ELSE balance * RiskNum

Gap(x, y) == IF x >= y THEN x - y ELSE y - x

\* A stop closer than one ATR is moved to one ATR, on the losing side.
TooTight(s) == s.atr > 0 /\ Gap(s.entry, s.stop) < s.atr
WidenedStop(s) ==
    CASE TooTight(s) /\ s.action = "BUY"  -> s.entry - s.atr
      [] TooTight(s) /\ s.action = "SELL" -> s.entry + s.atr
      [] OTHER -> s.stop

\* The stop distance the size is computed from.
OldDistance(s) == Gap(s.entry, s.stop)
Distance(s) == IF TooTight(s) THEN s.atr ELSE Gap(s.entry, s.stop)

\* The sizes target_size may come out as: rounded down to a step.  It is computed in binary
\* floats, so where the risk is a whole number of steps the quotient may fall short of it and
\* lose one: 1% of 2900 at a distance of 100 gives 0.28 and not 0.29.  Elsewhere the steps are
\* too far apart for the error to matter.
Steps(balance, s) == (MaxRisk(balance) * SizeUnit) \div (RiskDen * Distance(s))
Even(balance, s) == (MaxRisk(balance) * SizeUnit) % (RiskDen * Distance(s)) = 0

RoundedUpSizes(balance, s) == {Steps(balance, s) + 1}
TargetSizes(balance, s) ==
    {Steps(balance, s)} \union IF Even(balance, s) THEN {Steps(balance, s) - 1} ELSE {}

AcceptedAtAnySize(balance, s, size) == ~BelowFloor(balance) /\ Gap(s.entry, s.stop) # 0

\* A signal to act on is accepted if the account is above the floor, the stop is not at
\* the entry and its size is at least one step.
Accepted(balance, s, size) ==
    /\ ~BelowFloor(balance)
    /\ Gap(s.entry, s.stop) # 0
    /\ size >= 1
=============================================================================
