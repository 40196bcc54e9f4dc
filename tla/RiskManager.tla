------------------------------- MODULE RiskManager -------------------------------
(***************************************************************************)
(* RiskManager.validate_signal: one signal is validated against the        *)
(* balance the broker reports.  The signal is changed in place: its stop   *)
(* may be widened and its size is replaced.                                *)
(***************************************************************************)
EXTENDS RiskRules, FiniteSets

CONSTANTS
    Balances,   \* the balances the broker may report
    Levels,     \* the prices of entries and stops
    ATRs        \* the values of atr; 0 is a missing one

ASSUME InputsAssumption ==
    Balances \subseteq Int /\ Levels \subseteq Nat /\ ATRs \subseteq Nat

VARIABLES
    asked,      \* the signal as it was handed over
    signal,     \* the signal now
    balance,    \* the account
    answer      \* "none" until validate_signal returns TRUE or FALSE

vars == <<asked, signal, balance, answer>>

Signal == [action : {"BUY", "SELL", "WAIT"}, entry : Levels, stop : Levels, atr : ATRs,
           size : {0}]

Init ==
    /\ asked \in Signal /\ signal = asked
    /\ balance \in Balances
    /\ answer = "none"

\* WAIT passes; a balance that cannot be fetched fails safe; a stop may have been widened
\* by the time the size turns out too small.
Validate ==
    /\ answer = "none"
    /\ \/ signal.action = "WAIT" /\ answer' = "TRUE" /\ UNCHANGED signal
       \/ signal.action # "WAIT" /\ answer' = "FALSE" /\ UNCHANGED signal  \* no balance
       \/ /\ signal.action # "WAIT"
          /\ IF BelowFloor(balance) \/ Gap(signal.entry, signal.stop) = 0
               THEN answer' = "FALSE" /\ UNCHANGED signal
               ELSE \E size \in TargetSizes(balance, signal) :
                      IF Accepted(balance, signal, size)
                        THEN /\ answer' = "TRUE"
                             /\ signal' = [signal EXCEPT !.stop = WidenedStop(signal), !.size = size]
                        ELSE /\ answer' = "FALSE"
                             /\ signal' = [signal EXCEPT !.stop = WidenedStop(signal)]
    /\ UNCHANGED <<asked, balance>>

Next == Validate

Spec == Init /\ [][Next]_vars

-----------------------------------------------------------------------------
(* Properties *)

Sized == answer = "TRUE" /\ signal.action # "WAIT"

\* An accepted signal has at least one step of size, the broker's minimum.
TypeOK ==
    /\ asked \in Signal /\ balance \in Balances /\ answer \in {"none", "TRUE", "FALSE"}
    /\ signal.stop \in Int /\ signal.size \in IF Sized THEN Nat \ {0} ELSE {0}

\* What an accepted trade loses at its stop, SizeUnit times.
Loss == signal.size * Gap(signal.entry, signal.stop)

\* An accepted trade risks no more than its share of the balance, at the stop it goes out
\* with, and nearly all of it: with one step more of size it would risk it all, which the
\* rounding of floats may have kept it from, or too much.
SizeIsLargestInRisk ==
    Sized => LET allowed == MaxRisk(balance) * SizeUnit IN
                /\ RiskDen * Loss <= allowed
                /\ RiskDen * (Loss + Gap(signal.entry, signal.stop)) >= allowed

\* risk.py:33: an accepted trade that is stopped out leaves the balance at the floor or
\* above, as long as nothing else has changed the balance.
StopKeepsFloor == Sized /\ Floor > 0 => balance * SizeUnit - Loss >= Floor * SizeUnit
=============================================================================
