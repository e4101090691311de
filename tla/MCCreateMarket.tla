---------------------------- MODULE MCCreateMarket ----------------------------
(* Small instance of CreateMarket: one call of the user and the calls its    *)
(* timers make.                                                              *)
EXTENDS CreateMarket
===============================================================================
