----------------------------- MODULE TradingBot -----------------------------
(***************************************************************************)
(* The whole of run_session (src/trading/trading_bot.cpp:136-228): the     *)
(* market data of BookFeed, the decisions of Strategy and the orders of    *)
(* OrderFlow, in the one thread that drives them.                          *)
(*                                                                         *)
(* A book message that is applied is followed at once by the strategy, on  *)
(* the new book and the current exposure, and by the POST of the order it  *)
(* signals.  While submit waits for the answer no frame is handled, but    *)
(* the exchange goes on: it changes its book and reports the fill on the   *)
(* same connection, where it takes part in the numbering of the messages.  *)
(***************************************************************************)
EXTENDS Strategy, Sequences

CONSTANTS
    MaxPrice, MaxQty, Unparsable, InitialBook, Deltas, BadDelta, Sids, FillSid,
    FillSharesSid, SeqModulus, NoSid, NoView, MaxChanges, MaxSeq, MaxMissed, MaxStream,
    MaxFaults,                          \* of BookFeed
    FillCounts, TradeCounts, Total(_), MaxOrders, MaxFailures   \* of OrderFlow

VARIABLES
    history, xsid, xseq, stream, missed, faults, session, book, book_sid, book_seq,
    received_data, g_running, at,       \* of BookFeed
    truth, pending, executed, undelivered, answer, failures, waiting, order_seq, side,
    positions, unconfirmed, statuses,   \* of OrderFlow
    basis                               \* history: which book each order was decided on,
                                        \* 0 when a missed message may be hidden from the bot

feed_vars == <<history, xsid, xseq, stream, missed, faults, session, book, book_sid, book_seq,
               received_data, g_running, at>>
flow_vars == <<truth, pending, executed, undelivered, answer, failures, waiting, order_seq, side,
               positions, unconfirmed, statuses>>
bot_vars == <<feed_vars, flow_vars, vars, basis>>

Feed == INSTANCE BookFeed
\* One run of the process: it is not started again.
Flow == INSTANCE OrderFlow WITH MaxPosition <- max_position, OrderSize <- order_size,
                                orders <- statuses,
                                MaxRestarts <- 0, restarts <- 0, carried <- 0

\* What the parts assume of their constants.
ASSUME BotAssumption ==
    /\ Feed!OrderBookAssumption /\ Feed!BookFeedAssumption
    /\ Flow!OrderFlowAssumption

best_yes_bid(b) == IF b.best["yes"] = 0 THEN NoPrice ELSE b.best["yes"]
best_yes_ask(b) == IF b.best["no"] = 0 THEN NoPrice ELSE MaxPrice - b.best["no"]

\* When run_session cannot notice a gap: a message was missed, and the numbers of the
\* session have come to 0, which stands for none, or fills move them on.
GapMayHide ==
    /\ missed > 0
    /\ xseq >= SeqModulus \/ (FillSharesSid /\ \E id \in 1 .. MaxOrders : executed[id] > 0)

BotInit == Feed!Init /\ Flow!Init /\ Init /\ basis = <<>>

-----------------------------------------------------------------------------
(* The exchange *)

\* The book changes, or an unrelated frame is sent, at any time.
ExchangeMoves ==
    /\ Feed!ExchangeOther \/ \E d \in Deltas : Feed!ExchangeChange(d)
    /\ UNCHANGED <<flow_vars, vars, basis>>

\* An order is matched; what it fills is reported to the session there is.
ExchangeExecutes(id, count) ==
    /\ Flow!Execute(id, count)
    /\ IF count > 0 /\ session = "up" THEN Feed!ExchangeFill(id) ELSE UNCHANGED feed_vars
    /\ UNCHANGED <<vars, basis>>

ExchangeRejects(id) == Flow!Reject(id) /\ UNCHANGED <<feed_vars, vars, basis>>

-----------------------------------------------------------------------------
(* The bot *)

TimePasses == Tick /\ UNCHANGED <<feed_vars, flow_vars, basis>>

\* Whatever fills the old session had not delivered are not repeated by the new.
StartSession ==
    /\ waiting = 0
    /\ Feed!StartSession
    /\ Flow!LoseFills
    /\ UNCHANGED <<vars, basis>>

ReceiveFails ==
    /\ waiting = 0
    /\ Feed!ReceiveFails
    /\ Flow!LoseFills
    /\ UNCHANGED <<vars, basis>>

\* Faulty variant: the strategy sees the book as it was before the message.
BookChangedStale ==
    /\ on_book_update(best_yes_bid(book), best_yes_ask(book), Flow!exposure)
    /\ IF placed' = placed THEN UNCHANGED <<flow_vars, basis>>
       ELSE /\ \E signal \in orders' \ orders : Flow!Post(signal.side)
            /\ basis' = Append(basis, IF GapMayHide THEN 0 ELSE at')

\* book_changed: the strategy decides, and its order is sent.
BookChanged ==
    /\ on_book_update(best_yes_bid(book'), best_yes_ask(book'), Flow!exposure)
    /\ IF placed' = placed THEN UNCHANGED <<flow_vars, basis>>
       ELSE /\ \E signal \in orders' \ orders : Flow!Post(signal.side)
            /\ basis' = Append(basis, IF GapMayHide THEN 0 ELSE at')

\* What the loop does with a frame beyond the book.
Dispatch(m) ==
    \/ /\ session' = "down"
       /\ Flow!LoseFills /\ UNCHANGED <<vars, basis>>
    \/ /\ session' = "up" /\ m.type \in {"snapshot", "delta"}
       /\ BookChanged
    \/ /\ session' = "up" /\ m.type = "fill"
       /\ \E count \in TradeCounts : Flow!OnFill(m.ver, count)
       /\ UNCHANGED <<vars, basis>>
    \/ /\ session' = "up" /\ m.type \notin {"snapshot", "delta", "fill"}
       /\ UNCHANGED <<flow_vars, vars, basis>>

\* One iteration of the loop, up to the POST if there is one.
HandleFrame ==
    /\ waiting = 0
    /\ Feed!HandleFrame
    /\ Dispatch(Head(stream))

\* The rest of submit: the answer, or the failure of the request.
SubmitReturns ==
    /\ Flow!OnResponse \/ Flow!OnSendFails \/ Flow!OnRequestFails
    /\ UNCHANGED <<feed_vars, vars, basis>>

-----------------------------------------------------------------------------
BotNext ==
    \/ ExchangeMoves
    \/ \E id \in 1 .. MaxOrders, count \in FillCounts : ExchangeExecutes(id, count)
    \/ \E id \in 1 .. MaxOrders : ExchangeRejects(id)
    \/ TimePasses
    \/ StartSession
    \/ ReceiveFails
    \/ HandleFrame
    \/ SubmitReturns

\* As in BookFeed; and a request returns, by its timeouts.
BotFairness ==
    WF_bot_vars(StartSession) /\ WF_bot_vars(HandleFrame) /\ WF_bot_vars(SubmitReturns)

BotSpec == BotInit /\ [][BotNext]_bot_vars /\ BotFairness

-----------------------------------------------------------------------------
(* Properties *)

\* The types of the parts.
BotTypeOK == Feed!TypeOK /\ Flow!TypeOK /\ TypeOK /\ basis \in Seq({0} \union DOMAIN history)

\* The price that takes liquidity on the other side of a book.
Touch(b, s) == IF s = "Bid" THEN best_yes_ask(b) ELSE best_yes_bid(b)

\* Every order is priced at the touch of a book the exchange really had, the one the
\* last applied message made, and never of an older one than the order before it: not
\* across gaps and reconnections, nor when frames waited for a POST to return
\* (trading_bot.cpp:182-217).  Orders decided when a missed message could not be
\* noticed are left out.
OrdersAtTouch ==
    /\ \A o \in orders :
          basis[o.number] # 0 => o.price = Touch(history[basis[o.number]], o.side)
    /\ \A i, j \in DOMAIN basis : i < j /\ basis[j] # 0 => basis[i] <= basis[j]

\* The bot is a correct user of its order path: the checks the strategy makes, on
\* the exposure it is handed, are the ones OrderFlow's Submit asks for, and fills are
\* handled only between orders.  What is shown of OrderFlow holds of the bot.
FlowSpec == Flow!Spec

\* The book the bot trades on is the exchange's as of the last message applied: a
\* missed message is noticed at the next delta (trading_bot.cpp:179-190), and the wrap
\* of seq through 0 does no harm by itself.  A gap goes unnoticed only where 0 stands
\* for an absent number, or where fills move _book_seq on: then the book may be wrong.
BotInSync == Feed!InSync \/ GapMayHide

\* The bot always gets a book again, for all its orders and waiting
\* (trading_bot.cpp:156-228, 240-250).
BotResyncs == Feed!Resyncs
=============================================================================
