-------------------------------- MODULE Pricing --------------------------------
(***************************************************************************)
(* The limit prices of execution: an order is passive, at best a given     *)
(* number of ticks better than the quote.  A price is an integer (the      *)
(* decimals of the code in units of their last place).                     *)
(***************************************************************************)
EXTENDS Integers

(* RoundToTick with RoundFloor and with RoundCeil. *)
RoundFloor(price, tick) == tick * (price \div tick)

RoundCeil(price, tick) == -RoundFloor(-price, tick)

Ticks(improveTicks) == IF improveTicks < 0 THEN 0 ELSE improveTicks

LimitBuyPrice(bestBid, bestAsk, tick, improveTicks) ==
    LET candidate == bestBid + tick * Ticks(improveTicks)
    IN  RoundFloor(IF candidate <= bestAsk - tick THEN candidate ELSE bestBid, tick)

LimitSellPrice(bestBid, bestAsk, tick, improveTicks) ==
    LET candidate == bestAsk - tick * Ticks(improveTicks)
    IN  RoundCeil(IF candidate >= bestBid + tick THEN candidate ELSE bestAsk, tick)
=============================================================================
