----------------------------- MODULE MarketConfigs -----------------------------
(***************************************************************************)
(* What the modules of the streamer share: the markets it streams, which   *)
(* are MARKET_CONFIGS in src/app/core/markets.py.                          *)
(***************************************************************************)
CONSTANTS
    Markets,    \* the keys of MARKET_CONFIGS
    None        \* no tokens, no start
=============================================================================
