----------------------------- MODULE OrderFlow -----------------------------
(***************************************************************************)
(* Orders and the position they build: TradingBot::submit, on_fill and     *)
(* exposure (src/trading/trading_bot.cpp) with the OrderTracker and the    *)
(* PositionTracker, against an exchange that executes an order, answers    *)
(* the POST, and reports each trade once more on the WebSocket.            *)
(*                                                                         *)
(* The bot is one thread: while it waits for the answer to an order it     *)
(* handles no fill.  What prices make the strategy trade is abstracted     *)
(* away (see Strategy): any order its position check admits may be placed, *)
(* and any amount of time may pass between two of them.                    *)
(*                                                                         *)
(* Counts of the wire ("1.00") are in hundredths of a contract.            *)
(***************************************************************************)
EXTENDS Integers

CONSTANTS MaxPosition,  \* StrategyConfig::max_position
          OrderSize,    \* StrategyConfig::order_size
          FillCounts,   \* how much of an order the exchange may fill
          TradeCounts,  \* the sizes of single trades
          Total(_),     \* the sum of the values of a function on Ids
          MaxOrders,    \* bound: orders placed
          MaxFailures,  \* bound: orders whose outcome the bot does not learn
          MaxRestarts   \* bound: restarts of the bot

Ids == 1 .. MaxOrders
OrderSides == {"Bid", "Ask"}
Holding == -OrderSize .. OrderSize

\* std::ranges::fold_left(..., std::plus{}) is a sum: it is 0 over nothing, and
\* changing one value changes it by as much.
ASSUME OrderFlowAssumption ==
    /\ MaxPosition \in Nat
    /\ OrderSize \in Nat \ {0}
    /\ FillCounts \subseteq 0 .. 100 * OrderSize
    /\ TradeCounts \subseteq 1 .. 100 * OrderSize
    /\ MaxOrders \in Nat
    /\ MaxFailures \in Nat
    /\ MaxRestarts \in Nat
    /\ Total([id \in Ids |-> 0]) = 0
    /\ \A f \in [Ids -> Holding] : Total(f) \in Int
    /\ \A f \in [Ids -> Holding], id \in Ids, v \in Holding :
          Total([f EXCEPT ![id] = v]) = Total(f) - f[id] + v

VARIABLES
    \* the exchange
    truth,        \* the account's real position, in hundredths
    pending,      \* orders received and not yet matched
    executed,     \* how much of each order was filled, in hundredths
    undelivered,  \* how much of it the fill channel has still to report
    answer,       \* the response on its way to the bot
    failures,     \* orders sent whose outcome the bot did not learn
    restarts,     \* how often the bot was started again
    carried,      \* the account's position when it last was
    \* the bot
    waiting,      \* the order whose response submit is waiting for, or 0
    order_seq, side,
    positions,    \* _positions, for the bot's market, in contracts
    unconfirmed,  \* _unconfirmed_fills, 0 for an order that is not in the map
    orders        \* _orders: "None", "Filled" or "Cancelled"

exchange == <<truth, pending, executed, undelivered>>
books == <<positions, unconfirmed, orders>>
runs == <<restarts, carried>>
vars == <<exchange, answer, failures, runs, waiting, order_seq, side, books>>

NoAnswer == [kind |-> "none", filled |-> 0]

Signed(s, n) == IF s = "Bid" THEN n ELSE -n

\* parse_fixed<0> accepts whole contracts only.
IsWhole(count) == count % 100 = 0
parse_contracts(count) == count \div 100

exposure == positions + Total(unconfirmed)

-----------------------------------------------------------------------------
(* The exchange *)

\* An immediate-or-cancel order fills at once, in part or not at all.
Execute(id, count) ==
    /\ id \in pending
    /\ pending' = pending \ {id}
    /\ truth' = truth + Signed(side[id], count)
    /\ executed' = [executed EXCEPT ![id] = count]
    /\ undelivered' = [undelivered EXCEPT ![id] = count]
    /\ answer' = IF waiting = id THEN [kind |-> "order", filled |-> count] ELSE answer
    /\ UNCHANGED <<failures, runs, waiting, order_seq, side, books>>

\* An error body, such as insufficient_shard_balance.
Reject(id) ==
    /\ id \in pending
    /\ pending' = pending \ {id}
    /\ answer' = IF waiting = id THEN [kind |-> "error", filled |-> 0] ELSE answer
    /\ UNCHANGED <<truth, executed, undelivered, failures, runs, waiting, order_seq, side, books>>

\* The WebSocket session ends; the next one does not repeat old fills.
LoseFills ==
    /\ undelivered' = [id \in Ids |-> 0]
    /\ UNCHANGED <<truth, pending, executed, answer, failures, runs, waiting, order_seq, side, books>>

-----------------------------------------------------------------------------
(* The bot *)

\* Faulty variant: the size of the order is not counted.
WithinLimitBefore(s) ==
    IF s = "Bid" THEN exposure < MaxPosition ELSE exposure > -MaxPosition

\* The position check of on_book_update.
WithinLimit(s) ==
    IF s = "Bid" THEN exposure + OrderSize <= MaxPosition
    ELSE exposure - OrderSize >= -MaxPosition

\* submit, up to the POST.
Post(s) ==
    /\ waiting = 0 /\ order_seq < MaxOrders
    /\ order_seq' = order_seq + 1
    /\ waiting' = order_seq + 1
    /\ side' = [side EXCEPT ![order_seq + 1] = s]
    /\ pending' = pending \union {order_seq + 1}
    /\ UNCHANGED <<truth, executed, undelivered, answer, failures, runs, books>>

\* The strategy signals, and the bot sends the order.
Submit(s) == WithinLimit(s) /\ Post(s)

\* Faulty variant: every accepted order counts as filled.
StatusAlwaysFilled(filled) == "Filled"

\* What did not fill at once is cancelled by the exchange.
Status(filled) == IF filled > 0 THEN "Filled" ELSE "Cancelled"

\* submit, from the response on.  An error says that nothing was executed; a count
\* that is not whole leaves the bot without knowledge of what was.
OnResponse ==
    LET filled == parse_contracts(answer.filled)
    IN  /\ waiting # 0 /\ answer # NoAnswer
        /\ waiting' = 0
        /\ answer' = NoAnswer
        /\ IF answer.kind = "order" /\ IsWhole(answer.filled)
           THEN /\ UNCHANGED failures
                /\ orders' = [orders EXCEPT ![waiting] = Status(filled)]
                /\ unconfirmed' = [unconfirmed EXCEPT ![waiting] = @ + Signed(side[waiting], filled)]
           ELSE /\ failures' = IF answer.kind = "error" THEN failures ELSE failures + 1
                /\ failures' <= MaxFailures
                /\ UNCHANGED <<orders, unconfirmed>>
        /\ UNCHANGED <<exchange, runs, order_seq, side, positions>>

\* The request fails before anything was sent: no connection, or the write failed.
OnSendFails ==
    /\ waiting # 0 /\ waiting \in pending
    /\ pending' = pending \ {waiting}
    /\ waiting' = 0
    /\ UNCHANGED <<truth, executed, undelivered, answer, failures, runs, order_seq, side, books>>

\* The request fails later: receive timeout, reset connection, interrupted read,
\* unusable response.  The order may have been executed or may still be.
OnRequestFails ==
    /\ waiting # 0 /\ failures < MaxFailures
    /\ failures' = failures + 1
    /\ waiting' = 0
    /\ answer' = NoAnswer
    /\ UNCHANGED <<exchange, runs, order_seq, side, books>>

\* Faulty variants: the unconfirmed fill is kept, or erased by a partial fill.
RemainingKept(u, n) == u
RemainingErased(u, n) == 0

\* What on_fill leaves of an unconfirmed fill u after n more contracts: the entry
\* is erased at 0 and when its sign flips.
Remaining(u, n) ==
    IF u = 0 \/ (u > 0) # (u - n > 0) THEN 0 ELSE u - n

\* on_fill, for a trade of order id.
OnFill(id, count) ==
    LET qty == Signed(side[id], parse_contracts(count))
    IN  /\ waiting = 0 /\ undelivered[id] >= count
        /\ undelivered' = [undelivered EXCEPT ![id] = @ - count]
        /\ IF IsWhole(count)
           THEN /\ orders' = [orders EXCEPT ![id] = IF @ = "None" THEN @ ELSE "Filled"]
                /\ positions' = positions + qty
                /\ unconfirmed' = [unconfirmed EXCEPT ![id] = Remaining(@, qty)]
           ELSE UNCHANGED books
        /\ UNCHANGED <<truth, pending, executed, answer, failures, runs, waiting, order_seq, side>>

\* What the bot knows is in memory only, and fills are not repeated.
Forget ==
    /\ positions' = 0
    /\ unconfirmed' = [id \in Ids |-> 0]
    /\ orders' = [id \in Ids |-> "None"]
    /\ undelivered' = [id \in Ids |-> 0]

\* The process ends, wherever it is, and is started again.  An order under way is
\* one more whose outcome it does not learn; order ids are the exchange's and go on.
Restart ==
    /\ restarts < MaxRestarts
    /\ restarts' = restarts + 1
    /\ carried' = truth
    /\ failures' = IF waiting = 0 THEN failures ELSE failures + 1
    /\ failures' <= MaxFailures
    /\ waiting' = 0 /\ answer' = NoAnswer
    /\ Forget
    /\ UNCHANGED <<truth, pending, executed, order_seq, side>>

-----------------------------------------------------------------------------
Init ==
    /\ truth = 0
    /\ pending = {}
    /\ executed = [id \in Ids |-> 0]
    /\ undelivered = [id \in Ids |-> 0]
    /\ answer = NoAnswer
    /\ failures = 0
    /\ restarts = 0 /\ carried = 0
    /\ waiting = 0
    /\ order_seq = 0
    /\ side = [id \in Ids |-> "Bid"]
    /\ positions = 0
    /\ unconfirmed = [id \in Ids |-> 0]
    /\ orders = [id \in Ids |-> "None"]

Next ==
    \/ \E id \in Ids, count \in FillCounts : Execute(id, count)
    \/ \E id \in Ids : Reject(id)
    \/ LoseFills
    \/ \E s \in OrderSides : Submit(s)
    \/ OnResponse
    \/ OnSendFails
    \/ OnRequestFails
    \/ \E id \in Ids, count \in TradeCounts : OnFill(id, count)
    \/ Restart

Spec == Init /\ [][Next]_vars

-----------------------------------------------------------------------------
(* Properties *)

\* Types of the variables; a single order's unconfirmed fill never exceeds the
\* size of the order.
TypeOK ==
    /\ truth \in Int
    /\ pending \subseteq Ids
    /\ executed \in [Ids -> Nat] /\ undelivered \in [Ids -> Nat]
    /\ answer \in [kind : {"none", "order", "error"}, filled : 0 .. 100 * OrderSize]
    /\ failures \in 0 .. MaxFailures
    /\ restarts \in 0 .. MaxRestarts /\ carried \in Int
    /\ waiting \in Ids \union {0} /\ order_seq \in 0 .. MaxOrders
    /\ side \in [Ids -> OrderSides]
    /\ positions \in Int
    /\ unconfirmed \in [Ids -> Holding]
    /\ orders \in [Ids -> {"None", "Filled", "Cancelled"}]

\* The real position never leaves the cap, while an order is under way as well
\* as between orders (strategy.cpp:36-39, trading_bot.cpp:42-44): counting fills
\* known only from responses closes the window in which a second order could
\* breach the limit.
PositionCap == truth \in -100 * MaxPosition .. 100 * MaxPosition

\* An answer that is lost or dropped costs at most one order, and a restart at most
\* one cap: however late the exchange executes orders, whatever becomes of their
\* fills and wherever the process was when it ended, the real position stays within
\* that many caps and orders (trading_bot.cpp:58-72, trading_bot.hpp:24-27).
OvershootBound ==
    LET bound == 100 * (MaxPosition * (restarts + 1) + OrderSize * failures)
    IN  truth \in -bound .. bound

\* Between orders the exposure the strategy is given is the account's position less
\* what a restart made the bot forget, whichever fills have been reported on the
\* WebSocket, in whole contracts or not, are still under way, or were lost with a
\* session, as long as no answer was lost or dropped (trading_bot.cpp:79-80, 86-100).
ExposureIsTruth == failures = 0 /\ waiting = 0 => 100 * exposure = truth - carried

\* Order by order: what the fill channel still has to report of an order is
\* covered by its unconfirmed fill, which has the order's sign.
Covered(id) ==
    /\ Signed(side[id], unconfirmed[id]) >= 0
    /\ undelivered[id] <= 100 * Signed(side[id], unconfirmed[id])

\* What the exposure lacks while an order is under way is what its answer says,
\* and even a full fill stays within the limit.
UnderWay ==
    /\ waiting = order_seq /\ unconfirmed[waiting] = 0
    /\ exposure + Signed(side[waiting], OrderSize) \in -MaxPosition .. MaxPosition
    /\ \/ answer = NoAnswer /\ pending = {waiting} /\ undelivered[waiting] = 0
       \/ answer.kind # "none" /\ pending = {} /\ undelivered[waiting] <= answer.filled
    /\ answer.kind # "order" => answer.filled = 0
    /\ truth - carried = 100 * exposure + Signed(side[waiting], answer.filled)

\* The accounts of bot and exchange agree, order by order.
Accounts ==
    /\ exposure \in -MaxPosition .. MaxPosition
    /\ waiting = 0 => answer = NoAnswer /\ pending = {} /\ truth - carried = 100 * exposure
    /\ waiting # 0 => UnderWay
    /\ \A id \in Ids : id # waiting => Covered(id)
    /\ \A id \in Ids : id > order_seq => unconfirmed[id] = 0 /\ undelivered[id] = 0

\* submit and on_fill keep the accounts balanced between them as long as no answer
\* is lost or dropped (trading_bot.cpp:73-100): the invariant behind ExposureIsTruth
\* and the position cap.
Accounting == failures = 0 => Accounts

\* An order is recorded as Filled exactly when the exchange filled some of it
\* (trading_bot.cpp:73-76, 92), in whatever order response and fills came, and though
\* a restart forgets the orders but not their fills.
StatusIsTruth ==
    \A id \in Ids : /\ orders[id] = "Filled" => executed[id] > 0
                    /\ orders[id] = "Cancelled" => executed[id] = 0
=============================================================================
