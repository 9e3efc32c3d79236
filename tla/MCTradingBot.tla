---------------------------- MODULE MCTradingBot ----------------------------
(***************************************************************************)
(* A TLC instance of TradingBot: a market at 2 / 4 of 5 whose bids and     *)
(* asks move so that the bot first sells high or buys low.  The numbering  *)
(* wraps at 4: a message may be missed before or after the wrap.           *)
(***************************************************************************)
EXTENDS TradingBot, FiniteSetsExt

SumOf(f) == MapThenSumSet(LAMBDA id : f[id], 1 .. MaxOrders)

MCInitialBook ==
    [levels |-> [yes |-> [p \in 0 .. MaxPrice |-> IF p \in {1, 2} THEN 1 ELSE 0],
                 no  |-> [p \in 0 .. MaxPrice |-> IF p = 1 THEN 1 ELSE 0]],
     best   |-> [yes |-> 2, no |-> 1]]

MCPrices == 1 .. MaxPrice - 1
MCExposures == {}

D(s, p, q) == [side |-> s, price |-> p, qty |-> q]
MCDeltas == {D("yes", 2, -1), D("yes", 3, 1), D("no", 3, 1), D("no", 3, -1)}
MCBadDelta == D("yes", Unparsable, 1)
=============================================================================
