------------------------------ MODULE TradeLedger ------------------------------
(***************************************************************************)
(* What the trade of one signal promises to the rest of the system, told   *)
(* without awaits, clocks or failures: one order at most, sent while the    *)
(* trade runs, which the broker may still decide when it has ended; one     *)
(* position at most; a row booked only for a position the broker did open,  *)
(* which leaves OPEN only after that position has closed, with an outcome   *)
(* its profit allows; and nothing sent or written once the trade is over.   *)
(* TradeExecutor implements this module.                                   *)
(***************************************************************************)

VARIABLES
    running,    \* execute_trade has not returned
    order,      \* "none", "pending" at the broker, or "decided"
    position,   \* the broker's position: "none", "open" or "closed"
    pnl,        \* the sign of its realised profit, once it is closed
    record      \* the row: "none", an outcome_status, or "deleted"

ledgerVars == <<running, order, position, pnl, record>>

Outcomes == {"WIN", "LOSS"}

LedgerInit == running = TRUE /\ order = "none" /\ position = "none" /\ pnl = "none" /\ record = "none"

\* A step of the trade, which may be its last.
Acts == running /\ running' \in BOOLEAN

Send == /\ Acts
        /\ order = "none" /\ order' = "pending"
        /\ UNCHANGED <<position, pnl, record>>

Fill == /\ order = "pending" /\ order' = "decided"
        /\ position = "none" /\ position' = "open"
        /\ UNCHANGED <<running, pnl, record>>

Refuse == /\ order = "pending" /\ order' = "decided"
          /\ UNCHANGED <<running, position, pnl, record>>

Close == /\ position = "open" /\ position' = "closed"
         /\ pnl' \in {"gain", "flat", "loss"}
         /\ UNCHANGED <<running, order, record>>

Book == /\ Acts
        /\ record = "none" /\ record' = "OPEN"
        /\ position # "none"
        /\ UNCHANGED <<order, position, pnl>>

Settle == /\ Acts
          /\ record = "OPEN" /\ record' \in Outcomes
          /\ position = "closed"
          /\ record' = "WIN" => pnl = "gain"
          /\ UNCHANGED <<order, position, pnl>>

Erase == /\ record \in {"OPEN"} \union Outcomes
         /\ record' = "deleted"
         /\ UNCHANGED <<running, order, position, pnl>>

End == /\ running /\ ~running'
       /\ UNCHANGED <<order, position, pnl, record>>

LedgerNext == Send \/ Fill \/ Refuse \/ Close \/ Book \/ Settle \/ Erase \/ End

LedgerSpec == LedgerInit /\ [][LedgerNext]_ledgerVars
=============================================================================
