----------------------------- MODULE MCLimiter -----------------------------
(***************************************************************************)
(* Small instances of Limiter for TLC.  With cancel price 2, ticker 1 is   *)
(* on the BUY-ready side and ticker 3 on the SELL-ready side; a point with *)
(* price 3 is a SELL, one with price 1 a BUY.                              *)
(***************************************************************************)
EXTENDS Limiter

MCTickers == {1, 3}
=============================================================================
