------------------------------ MODULE Strategy ------------------------------
(***************************************************************************)
(* MeanReversionStrategy (src/trading/strategy.cpp): fair value as a       *)
(* time-decayed average of the mid price, and orders when the touch is     *)
(* away from it.                                                           *)
(*                                                                         *)
(* Prices are in ticks, fair value and mid in quarters of a tick.  The     *)
(* weight 1 - exp(-dt/tau) is a number between 0 and 1 that is 0 for       *)
(* dt = 0; the new average is any value between the old one and the mid.   *)
(***************************************************************************)
EXTENDS Integers

CONSTANTS entry_edge, max_spread, order_size, max_position,
          warmup, cooldown,  \* StrategyConfig
          Prices, NoPrice,   \* what best_yes_bid and best_yes_ask return
          Exposures,
          NoValue,           \* an empty optional
          MaxTime            \* bound: the clock

ASSUME StrategyAssumption ==
    /\ {entry_edge, max_spread, order_size, max_position, warmup, cooldown, MaxTime} \subseteq Nat
    /\ Prices \subseteq Nat /\ NoPrice \notin Nat
    /\ Exposures \subseteq Int
    /\ NoValue \notin Int

VARIABLES
    now,                                      \* the steady clock
    ema, first_update, last_update, last_order,
    placed, orders,                           \* history: the signals, numbered, with their time
    low, high                                 \* history: the extremes of the mid

vars == <<now, ema, first_update, last_update, last_order, placed, orders, low, high>>

Init ==
    /\ now = 0
    /\ ema = NoValue
    /\ first_update = 0 /\ last_update = 0
    /\ last_order = NoValue
    /\ placed = 0 /\ orders = {}
    /\ low = NoValue /\ high = NoValue

Tick ==
    /\ now < MaxTime
    /\ now' = now + 1
    /\ UNCHANGED <<ema, first_update, last_update, last_order, placed, orders, low, high>>

-----------------------------------------------------------------------------
Mid(bid, ask) == 2 * (bid + ask)

Between(x, y) == IF x <= y THEN x .. y ELSE y .. x

\* The values the average may take.
NextEma(mid) ==
    IF ema = NoValue THEN {mid}
    ELSE IF now = last_update THEN {ema}
    ELSE Between(ema, mid)

\* Faulty variant: no cooldown.
QuietNoCooldown(bid, ask, started) ==
    now - started < warmup \/ ask - bid > max_spread

\* The early returns after the average is updated.
Quiet(bid, ask, started) ==
    \/ now - started < warmup
    \/ ask - bid > max_spread
    \/ last_order # NoValue /\ now - last_order < cooldown

\* Faulty variant: no position check.
BuysUnlimited(ask, fair, exposure) == 4 * ask <= fair - 4 * entry_edge

Buys(ask, fair, exposure) ==
    4 * ask <= fair - 4 * entry_edge /\ exposure + order_size <= max_position

Sells(bid, fair, exposure) ==
    4 * bid >= fair + 4 * entry_edge /\ exposure - order_size >= -max_position

Signal(side, price) == [number |-> placed + 1, side |-> side, price |-> price, time |-> now]

Signals(bid, ask, fair, exposure, started) ==
    IF Quiet(bid, ask, started) THEN {}
    ELSE IF Buys(ask, fair, exposure) THEN {Signal("Bid", ask)}
    ELSE IF Sells(bid, fair, exposure) THEN {Signal("Ask", bid)}
    ELSE {}

TwoSided(bid, ask) == bid # NoPrice /\ ask # NoPrice /\ ask > bid

\* on_book_update for a two-sided book.
UpdateEma(bid, ask, exposure) ==
    LET mid == Mid(bid, ask)
        started == IF ema = NoValue THEN now ELSE first_update
    IN  /\ TwoSided(bid, ask)
        /\ ema' \in NextEma(mid)
        /\ first_update' = started
        /\ last_update' = now
        /\ low' = IF low = NoValue \/ mid < low THEN mid ELSE low
        /\ high' = IF high = NoValue \/ mid > high THEN mid ELSE high
        /\ \/ \E signal \in Signals(bid, ask, ema', exposure, started) :
                 /\ last_order' = now
                 /\ placed' = placed + 1 /\ orders' = orders \union {signal}
           \/ /\ Signals(bid, ask, ema', exposure, started) = {}
              /\ UNCHANGED <<last_order, placed, orders>>
        /\ UNCHANGED now

\* A one-sided or crossed book gives no price, and no signal.
NoReliablePrice(bid, ask) ==
    /\ ~TwoSided(bid, ask)
    /\ UNCHANGED vars

on_book_update(bid, ask, exposure) ==
    UpdateEma(bid, ask, exposure) \/ NoReliablePrice(bid, ask)

Next ==
    \/ Tick
    \/ \E bid, ask \in Prices \union {NoPrice}, exposure \in Exposures :
          on_book_update(bid, ask, exposure)

Spec == Init /\ [][Next]_vars

-----------------------------------------------------------------------------
(* Properties *)

\* Types of the variables; the strategy's times are not in the future.
TypeOK ==
    /\ now \in Nat
    /\ ema \in Int \union {NoValue} /\ low \in Int \union {NoValue} /\ high \in Int \union {NoValue}
    /\ (ema = NoValue <=> low = NoValue) /\ (ema = NoValue <=> high = NoValue)
    /\ first_update \in 0 .. now /\ last_update \in 0 .. now
    /\ last_order \in 0 .. now \union {NoValue}
    /\ placed \in Nat
    /\ orders \subseteq [number : 1 .. placed, side : {"Bid", "Ask"}, price : Nat, time : 0 .. now]

\* Fair value never leaves the range of the mids observed, however updates are
\* spaced in time (strategy.cpp:17-26).
FairWithinRange == ema # NoValue => low <= ema /\ ema <= high

\* The bot only ever trades against a move: an order to buy is at least the edge
\* below some mid observed before, an order to sell at least the edge above one
\* (strategy.cpp:36-41).
OnlyAgainstMoves ==
    \A o \in orders :
        IF o.side = "Bid" THEN 4 * o.price <= high - 4 * entry_edge
        ELSE 4 * o.price >= low + 4 * entry_edge

\* Orders are a cooldown apart and none comes before the end of the warm-up,
\* whatever the books in between were (strategy.cpp:28-33, 43-44).
OrdersSpaced ==
    /\ \A o, p \in orders : o.number < p.number => p.time - o.time >= cooldown
    /\ \A o \in orders : o.time - first_update >= warmup
=============================================================================
