----------------------------- MODULE OrderBook -----------------------------
(***************************************************************************)
(* The data of the order book of one market and the functions on it        *)
(* (include/market_state.hpp, src/trading/market_state.cpp): two flat      *)
(* arrays of bid quantities, one per side, and for each side the best bid, *)
(* maintained incrementally.                                               *)
(*                                                                         *)
(* A decimal string of the wire is represented by the number that          *)
(* parse_fixed makes of it, or by Unparsable when parse_fixed returns      *)
(* nullopt.  Quantities are int64: MaxQty stands for INT64_MAX and sums    *)
(* wrap around, which is what the shipped builds do on overflow.           *)
(***************************************************************************)
EXTENDS Integers, Sequences

CONSTANTS MaxPrice,    \* kMaxPrice, $1.00 in ticks
          MaxQty,      \* the largest Quantity
          Unparsable   \* a string parse_fixed rejects

Sides == {"yes", "no"}
Quantities == -(MaxQty + 1) .. MaxQty

\* What parse_fixed can make of a price or a quantity string: it never
\* returns INT64_MIN, for it negates a non-negative value.
ParsedQty == -MaxQty .. MaxQty \union {Unparsable}
ParsedPrice == Int \union {Unparsable}
Entries == Seq([price : ParsedPrice, qty : ParsedQty])

ASSUME OrderBookAssumption ==
    /\ MaxPrice \in Nat \ {0}
    /\ MaxQty \in Nat \ {0}
    /\ Unparsable \notin Int

Levels == [0 .. MaxPrice -> Quantities]
Books == [levels : [Sides -> Levels], best : [Sides -> 0 .. MaxPrice]]

EmptyBook == [levels |-> [s \in Sides |-> [p \in 0 .. MaxPrice |-> 0]],
              best   |-> [s \in Sides |-> 0]]

\* parse_price and parse_quantity accept p.
PriceOK(p) == p # Unparsable /\ p >= 1 /\ p < MaxPrice
QtyOK(q) == q # Unparsable

\* 64-bit two's complement result of a sum of two quantities.
Wrap(n) == IF n > MaxQty THEN n - 2 * (MaxQty + 1)
           ELSE IF n < -(MaxQty + 1) THEN n + 2 * (MaxQty + 1) ELSE n

\* scan_best stopping at p: p holds bids and nothing between p and from does.
IsScan(levels, from, p) ==
    /\ p > 0 => levels[p] > 0
    /\ \A q \in p + 1 .. from : levels[q] <= 0

\* The highest price at or below "from" with bids, 0 when there is none.
scan_best(levels, from) == CHOOSE p \in 0 .. from : IsScan(levels, from, p)

\* best is the top of one side: no held price is above it, and it is held or 0.
IsTop(levels, best) ==
    LET held == {p \in 1 .. MaxPrice - 1 : levels[p] > 0}
    IN  /\ \A p \in held : p <= best
        /\ best # 0 => best \in held

-----------------------------------------------------------------------------
(* apply_snapshot *)

WellFormed(entries) ==
    \A i \in DOMAIN entries : PriceOK(entries[i].price) /\ QtyOK(entries[i].qty)

\* The last entry for price p; earlier ones are overwritten.
LastFor(entries, p) ==
    {i \in DOMAIN entries : /\ entries[i].price = p
                            /\ \A j \in DOMAIN entries : j > i => entries[j].price # p}

LevelsOf(entries) ==
    [p \in 0 .. MaxPrice |->
        IF LastFor(entries, p) = {} THEN 0
        ELSE entries[CHOOSE i \in LastFor(entries, p) : TRUE].qty]

SnapshotOK(snap) == \A s \in Sides : WellFormed(snap[s])

BookOf(snap) ==
    LET levels == [s \in Sides |-> LevelsOf(snap[s])]
    IN  [levels |-> levels,
         best   |-> [s \in Sides |-> scan_best(levels[s], MaxPrice - 1)]]

-----------------------------------------------------------------------------
(* apply_delta *)

DeltaOK(d) == d.side \in Sides /\ PriceOK(d.price) /\ QtyOK(d.qty)

\* The level a delta touches, after the addition and before the clamp.
RawLevel(b, d) == Wrap(b.levels[d.side][d.price] + d.qty)

\* Faulty variant: a negative level is kept.
ClampMissing(n) == n

Clamp(n) == IF n < 0 THEN 0 ELSE n

\* Faulty variant: an emptied best price is not replaced.
NewBestNoRescan(levels, best, p, n) == IF n > 0 /\ p > best THEN p ELSE best

\* The new best price of a side whose level at price p has become n.
NewBest(levels, best, p, n) ==
    IF n > 0 /\ p > best THEN p
    ELSE IF n = 0 /\ p = best THEN scan_best(levels, p - 1)
    ELSE best

AfterDelta(b, d) ==
    LET n == Clamp(RawLevel(b, d))
        levels == [b.levels[d.side] EXCEPT ![d.price] = n]
    IN  [levels |-> [b.levels EXCEPT ![d.side] = levels],
         best   |-> [b.best EXCEPT ![d.side] = NewBest(levels, @, d.price, n)]]

\* Faulty variant: the clamp is not reported.
DeltaResultAlwaysOk(b, d) == "ok"

DeltaResult(b, d) == IF RawLevel(b, d) < 0 THEN "OutOfSync" ELSE "ok"
=============================================================================
