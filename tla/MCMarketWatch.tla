--------------------------- MODULE MCMarketWatch ---------------------------
(***************************************************************************)
(* Instances of MarketWatch for TLC.                                       *)
(***************************************************************************)
EXTENDS MarketWatch

CONSTANTS t1, t2, wall
=============================================================================
