-------------------------- MODULE TradingBotProofs --------------------------
(***************************************************************************)
(* Proofs about Strategy, for every configuration, every set of prices and *)
(* every timing of the updates, and about TradingBot: what is proved of    *)
(* the parts, Strategy, BookFeed and OrderFlow, holds of the whole         *)
(* run_session, for every market, configuration and number of orders.      *)
(***************************************************************************)
EXTENDS TradingBot, TLAPS

\* The instances bring many definitions in scope, which costs the provers time.
USE SMTT(60), Z3T(60), ZenonT(60)

-----------------------------------------------------------------------------
(* The strategy *)

\* What the strategy remembers of its orders: the time of the last one.
Remembers ==
    /\ orders # {} => last_order # NoValue /\ ema # NoValue
    /\ \A o \in orders : o.time <= last_order

Inv == TypeOK /\ FairWithinRange /\ OnlyAgainstMoves /\ OrdersSpaced /\ Remembers

\* The strategy starts without fair value and without orders.
LEMMA InitInv ==
    Init => Inv
  BY StrategyAssumption
     DEF Init, Inv, TypeOK, FairWithinRange, OnlyAgainstMoves, OrdersSpaced, Remembers

\* Time passes: nothing the strategy remembers changes.
LEMMA TickInv ==
    ASSUME Inv, Tick
    PROVE  Inv'
  <1> USE StrategyAssumption
  <1>1. TypeOK'
    BY DEF Inv, TypeOK, Tick
  <1>2. QED
    BY <1>1 DEF Inv, Tick, FairWithinRange, OnlyAgainstMoves, OrdersSpaced, Remembers

\* on_book_update moves fair value towards the mid, and records an order only
\* when the edge, the warm-up and the cooldown allow it.
LEMMA UpdateInv ==
    ASSUME Inv, NEW bid \in Nat \union {NoPrice}, NEW ask \in Nat \union {NoPrice},
           NEW exposure, UpdateEma(bid, ask, exposure)
    PROVE  Inv'
  <1> USE StrategyAssumption
  <1> DEFINE mid == Mid(bid, ask)
             started == IF ema = NoValue THEN now ELSE first_update
  <1>a. /\ bid \in Nat /\ ask \in Nat /\ mid \in Int /\ now' = now /\ now \in Nat
        /\ first_update' = started /\ last_update' = now /\ ema' \in NextEma(mid)
        /\ low' = IF low = NoValue \/ mid < low THEN mid ELSE low
        /\ high' = IF high = NoValue \/ mid > high THEN mid ELSE high
    <2>1. bid \in Nat /\ ask \in Nat
      BY DEF UpdateEma, TwoSided
    <2>2. mid \in Int /\ now \in Nat
      BY <2>1 DEF Mid, Inv, TypeOK
    <2>3. QED
      BY <2>1, <2>2 DEF UpdateEma
  <1> HIDE DEF mid
  <1>b. /\ low' \in Int /\ high' \in Int /\ ema' \in Int
        /\ low' <= ema' /\ ema' <= high'
        /\ low # NoValue => low \in Int /\ low' <= low
        /\ high # NoValue => high \in Int /\ high <= high'
    <2>1. CASE ema = NoValue
      BY <1>a, <2>1 DEF NextEma, Inv, TypeOK
    <2>2. CASE ema # NoValue
      <3>1. low \in Int /\ high \in Int /\ ema \in Int /\ low <= ema /\ ema <= high
        BY <2>2 DEF Inv, TypeOK, FairWithinRange
      <3>2. ema' \in Int /\ (ema' = ema \/ (ema <= ema' /\ ema' <= mid) \/ (mid <= ema' /\ ema' <= ema))
        BY <1>a, <2>2, <3>1 DEF NextEma, Between
      <3>3. QED
        BY <1>a, <3>1, <3>2
    <2>3. QED
      BY <2>1, <2>2
  <1>c. /\ started \in 0 .. now
        /\ orders # {} => /\ started = first_update
                          /\ low # NoValue /\ high # NoValue /\ last_order \in 0 .. now
    BY <1>a DEF Inv, TypeOK, Remembers
  <1>d. \A o \in orders : /\ o.number \in 1 .. placed /\ o.side \in {"Bid", "Ask"}
                          /\ o.price \in Nat /\ o.time \in 0 .. now
    BY DEF Inv, TypeOK
  <1>e. \A o \in orders : IF o.side = "Bid" THEN 4 * o.price <= high' - 4 * entry_edge
                          ELSE 4 * o.price >= low' + 4 * entry_edge
    <2> SUFFICES ASSUME NEW o \in orders
                 PROVE  IF o.side = "Bid" THEN 4 * o.price <= high' - 4 * entry_edge
                        ELSE 4 * o.price >= low' + 4 * entry_edge
      OBVIOUS
    <2>1. IF o.side = "Bid" THEN 4 * o.price <= high - 4 * entry_edge
          ELSE 4 * o.price >= low + 4 * entry_edge
      BY DEF Inv, OnlyAgainstMoves
    <2>2. low \in Int /\ high \in Int /\ low' <= low /\ high <= high' /\ o.price \in Nat
      BY <1>b, <1>c, <1>d
    <2>3. QED
      BY <2>1, <2>2, <1>b
  <1> DEFINE S == Signals(bid, ask, ema', exposure, started)
  <1> HIDE DEF started
  <1>1. CASE UNCHANGED <<last_order, placed, orders>>
    <2>1. TypeOK'
      BY <1>1, <1>a, <1>b, <1>c DEF Inv, TypeOK
    <2>2. OnlyAgainstMoves'
      BY <1>1, <1>e DEF OnlyAgainstMoves
    <2>3. OrdersSpaced' /\ Remembers'
      BY <1>1, <1>a, <1>b, <1>c DEF Inv, OrdersSpaced, Remembers
    <2>4. QED
      BY <2>1, <2>2, <2>3, <1>b DEF Inv, FairWithinRange
  <1>2. ASSUME NEW signal \in S, last_order' = now, placed' = placed + 1,
               orders' = orders \union {signal}
        PROVE  Inv'
    <2>1. /\ \/ signal = Signal("Bid", ask) /\ Buys(ask, ema', exposure)
             \/ signal = Signal("Ask", bid) /\ Sells(bid, ema', exposure)
          /\ ~Quiet(bid, ask, started)
      BY <1>2 DEF S, Signals
    <2>2. placed \in Nat /\ last_order \in 0 .. now \union {NoValue}
      BY DEF Inv, TypeOK
    <2>3. /\ signal \in [number : 1 .. placed + 1, side : {"Bid", "Ask"}, price : Nat, time : 0 .. now]
          /\ signal.number = placed + 1 /\ signal.time = now
      BY <2>1, <2>2, <1>a DEF Signal
    <2>4. IF signal.side = "Bid" THEN 4 * signal.price <= ema' - 4 * entry_edge
          ELSE 4 * signal.price >= ema' + 4 * entry_edge
      BY <2>1 DEF Signal, Buys, Sells
    <2>5. now - started >= warmup
      BY <2>1, <1>a, <1>c DEF Quiet
    <2>6. last_order # NoValue => now - last_order >= cooldown
      BY <2>1, <2>2, <1>a DEF Quiet
    <2>7. TypeOK'
      <3>1. orders' \subseteq [number : 1 .. placed + 1, side : {"Bid", "Ask"}, price : Nat, time : 0 .. now]
        BY <1>2, <2>2, <2>3 DEF Inv, TypeOK
      <3>2. QED
        BY <3>1, <2>2, <1>2, <1>a, <1>b, <1>c DEF TypeOK
    <2>8. OnlyAgainstMoves'
      <3>1. IF signal.side = "Bid" THEN 4 * signal.price <= high' - 4 * entry_edge
            ELSE 4 * signal.price >= low' + 4 * entry_edge
        BY <2>3, <2>4, <1>b
      <3>2. QED
        BY <3>1, <1>2, <1>e DEF OnlyAgainstMoves
    <2>9. OrdersSpaced'
      <3>1. \A o \in orders : now - o.time >= cooldown
        BY <2>6, <1>a, <1>c, <1>d DEF Inv, Remembers
      <3>2. \A o \in orders' : o.time - started >= warmup
        BY <1>2, <2>3, <2>5, <1>c DEF Inv, OrdersSpaced
      <3>3. \A o, p \in orders' : o.number < p.number => p.time - o.time >= cooldown
        <4> SUFFICES ASSUME NEW o \in orders', NEW p \in orders', o.number < p.number
                     PROVE  p.time - o.time >= cooldown
          OBVIOUS
        <4>1. o \in orders
          BY <1>2, <1>d, <2>2, <2>3
        <4>2. CASE p \in orders
          BY <4>1, <4>2 DEF Inv, OrdersSpaced
        <4>3. CASE p = signal
          BY <4>1, <4>3, <3>1, <2>3
        <4>4. QED
          BY <4>2, <4>3, <1>2
      <3>4. QED
        BY <3>2, <3>3, <1>a DEF OrdersSpaced
    <2>10. Remembers'
      BY <1>2, <2>3, <1>a, <1>b, <1>d DEF Remembers
    <2>11. QED
      BY <2>7, <2>8, <2>9, <2>10, <1>b DEF Inv, FairWithinRange
  <1>3. QED
    BY <1>1, <1>2 DEF UpdateEma, S, mid, started

\* Whatever the book and the exposure are, on_book_update keeps all of that.
LEMMA BookUpdateInv ==
    ASSUME Inv, NEW bid \in Nat \union {NoPrice}, NEW ask \in Nat \union {NoPrice},
           NEW exposure, on_book_update(bid, ask, exposure)
    PROVE  Inv'
  <1>1. CASE UpdateEma(bid, ask, exposure)
    BY <1>1, UpdateInv
  <1>2. CASE NoReliablePrice(bid, ask)
    BY <1>2 DEF NoReliablePrice, vars, Inv, TypeOK, FairWithinRange, OnlyAgainstMoves,
                OrdersSpaced, Remembers
  <1>3. QED
    BY <1>1, <1>2 DEF on_book_update

\* The strategy's promises, for every configuration and timing: fair value stays
\* within the mids observed, orders go against a move of at least the edge, and
\* orders keep the cooldown and the warm-up.
THEOREM StrategyKeepsItsPromises ==
    Spec => [](FairWithinRange /\ OnlyAgainstMoves /\ OrdersSpaced)
  <1>1. Init => Inv
    BY InitInv
  <1>2. Inv /\ [Next]_vars => Inv'
    <2> SUFFICES ASSUME Inv, [Next]_vars PROVE Inv'
      OBVIOUS
    <2>1. CASE Tick
      BY <2>1, TickInv
    <2>2. ASSUME NEW bid \in Prices \union {NoPrice}, NEW ask \in Prices \union {NoPrice},
                 NEW exposure \in Exposures, on_book_update(bid, ask, exposure)
          PROVE  Inv'
      <3>1. bid \in Nat \union {NoPrice} /\ ask \in Nat \union {NoPrice}
        BY StrategyAssumption
      <3>2. QED
        BY <2>2, <3>1, BookUpdateInv
    <2>3. CASE UNCHANGED vars
      BY <2>3 DEF vars, Inv, TypeOK, FairWithinRange, OnlyAgainstMoves, OrdersSpaced, Remembers
    <2>4. QED
      BY <2>1, <2>2, <2>3 DEF Next
  <1>3. Inv => FairWithinRange /\ OnlyAgainstMoves /\ OrdersSpaced
    BY DEF Inv
  <1>4. QED
    BY <1>1, <1>2, <1>3, PTL DEF Spec

-----------------------------------------------------------------------------
(* The bot is a correct user of its order path *)

\* The fills under way are of orders.
Named ==
    \E S : stream \in Seq(S) /\ \A m \in S : m.type = "fill" => m.ver \in 1 .. MaxOrders

LEMMA NamedAdded ==
    ASSUME Named, NEW m, m.type = "fill" => m.ver \in 1 .. MaxOrders,
           stream' = stream \/ stream' = Append(stream, m)
    PROVE  Named'
  <1>1. PICK S : stream \in Seq(S) /\ \A n \in S : n.type = "fill" => n.ver \in 1 .. MaxOrders
    BY DEF Named
  <1> DEFINE T == S \union {m}
  <1>2. stream \in Seq(T)
    BY <1>1
  <1>3. Append(stream, m) \in Seq(T)
    BY <1>2
  <1>4. \A n \in T : n.type = "fill" => n.ver \in 1 .. MaxOrders
    BY <1>1
  <1> HIDE DEF T
  <1>5. QED
    BY <1>2, <1>3, <1>4 DEF Named

LEMMA NamedEmitted ==
    ASSUME Named, NEW m, DOMAIN m = {"type", "sid", "seq", "ver", "delta"},
           m.type = "fill" => m.ver \in 1 .. MaxOrders, Feed!Emit(m)
    PROVE  Named'
  <1> DEFINE g == [m EXCEPT !.type = "garbled"]
  <1>1. g.type = "garbled"
    OBVIOUS
  <1>2. stream' = stream \/ stream' = Append(stream, m) \/ stream' = Append(stream, g)
    BY DEF Feed!Emit
  <1> HIDE DEF g
  <1>3. CASE stream' = stream \/ stream' = Append(stream, m)
    BY <1>3, NamedAdded
  <1>4. CASE stream' = Append(stream, g)
    BY <1>1, <1>4, NamedAdded
  <1>5. QED
    BY <1>2, <1>3, <1>4

LEMMA NamedDropped ==
    ASSUME Named, stream' = <<>> \/ (stream # <<>> /\ stream' = Tail(stream))
    PROVE  Named'
  <1>1. PICK S : stream \in Seq(S) /\ \A n \in S : n.type = "fill" => n.ver \in 1 .. MaxOrders
    BY DEF Named
  <1>2. <<>> \in Seq(S)
    OBVIOUS
  <1>3. stream # <<>> => Tail(stream) \in Seq(S)
    BY <1>1
  <1>4. stream' \in Seq(S)
    BY <1>2, <1>3, Zenon
  <1>5. QED
    BY <1>1, <1>4 DEF Named

LEMMA NamedStarted ==
    ASSUME Feed!StartSession
    PROVE  Named'
  <1>1. PICK sid \in Sids :
          LET frame(type, seq, ver) == [Feed!Frame(type, seq, ver, Feed!NoDelta) EXCEPT !.sid = sid]
          IN  \/ stream' = <<frame("subscribed", 0, 0), frame("snapshot", 1, Len(history))>>
              \/ stream' = <<frame("subscribed", 0, 0), frame("garbled", 1, 0)>>
    BY DEF Feed!StartSession
  <1>0. \A type, seq, ver : [Feed!Frame(type, seq, ver, Feed!NoDelta) EXCEPT !.sid = sid].type = type
    BY DEF Feed!Frame
  <1> DEFINE first == [Feed!Frame("subscribed", 0, 0, Feed!NoDelta) EXCEPT !.sid = sid]
             good == [Feed!Frame("snapshot", 1, Len(history), Feed!NoDelta) EXCEPT !.sid = sid]
             bad == [Feed!Frame("garbled", 1, 0, Feed!NoDelta) EXCEPT !.sid = sid]
             S == {first, good, bad}
  <1>2. stream' = <<first, good>> \/ stream' = <<first, bad>>
    BY <1>1
  <1>3. first.type = "subscribed" /\ good.type = "snapshot" /\ bad.type = "garbled"
    BY <1>0, Zenon
  <1> HIDE DEF first, good, bad
  <1>4. first \in S /\ good \in S /\ bad \in S /\ \A n \in S : n.type # "fill"
    BY <1>3
  <1> HIDE DEF S
  <1>5. <<first, good>> \in Seq(S) /\ <<first, bad>> \in Seq(S)
    BY <1>4
  <1>6. QED
    BY <1>2, <1>4, <1>5, Zenon DEF Named

LEMMA NamedChange ==
    ASSUME Named, NEW d, Feed!ExchangeChange(d)
    PROVE  Named'
  <1> DEFINE m == Feed!Frame("delta", xseq + 1, Len(history) + 1, d)
  <1>1. m.type = "delta" /\ DOMAIN m = {"type", "sid", "seq", "ver", "delta"}
    BY DEF Feed!Frame
  <1>2. Feed!Emit(m) \/ stream' = stream
    BY DEF Feed!ExchangeChange
  <1> HIDE DEF m
  <1>3. QED
    BY <1>1, <1>2, NamedEmitted, NamedAdded

LEMMA NamedFill ==
    ASSUME Named, NEW id \in 1 .. MaxOrders, Feed!ExchangeFill(id)
    PROVE  Named'
  <1> DEFINE m == Feed!FillFrame(id)
  <1>1. m.ver = id /\ DOMAIN m = {"type", "sid", "seq", "ver", "delta"}
    BY DEF Feed!FillFrame, Feed!Frame
  <1>2. Feed!Emit(m)
    BY DEF Feed!ExchangeFill
  <1> HIDE DEF m
  <1>3. QED
    BY <1>1, <1>2, NamedEmitted

LEMMA NamedOther ==
    ASSUME Named, Feed!ExchangeOther
    PROVE  Named'
  <1>1. PICK m : stream' = Append(stream, m) /\ m.type # "fill"
    <2> DEFINE pong(type) == Feed!Frame(type, 0, 0, Feed!NoDelta)
               delta == Feed!Frame("delta", xseq + 1, 0, BadDelta)
               snap == Feed!Frame("bad_snapshot", xseq + 1, 0, Feed!NoDelta)
    <2>1. \/ \E type \in {"ping", "close"} : stream' = Append(stream, pong(type))
          \/ stream' = Append(stream, delta)
          \/ stream' = Append(stream, snap)
      BY DEF Feed!ExchangeOther
    <2>2. /\ \A type \in {"ping", "close"} : pong(type).type # "fill"
          /\ delta.type # "fill" /\ snap.type # "fill"
      BY DEF Feed!Frame
    <2> HIDE DEF pong, delta, snap
    <2>3. QED
      BY <2>1, <2>2
  <1>2. QED
    BY <1>1, NamedAdded

\* HandleFrame takes the first frame, or drops them all with the session.
LEMMA NamedHandled ==
    ASSUME Named, Feed!HandleFrame
    PROVE  Named'
  <1> DEFINE m == Head(stream)
  <1>1. stream # <<>>
    BY DEF Feed!HandleFrame
  <1>2. stream' = <<>> \/ stream' = Tail(stream)
    <2>1. CASE m.type \in {"ping", "garbled", "close"}
      BY <2>1 DEF Feed!HandleFrame, Feed!EndSession
    <2>2. CASE m.type \notin {"ping", "garbled", "close"}
      <3>1. Feed!OnMessage(m)
        BY <2>2 DEF Feed!HandleFrame
      <3> HIDE DEF m
      <3>2. \A b : Feed!Applied(m, b) => stream' = Tail(stream)
        BY DEF Feed!Applied
      <3>3. \A b, kind : Feed!BookError(m, b, kind) => stream' = <<>>
        BY DEF Feed!BookError, Feed!EndSession
      <3>4. Feed!OnSnapshot(m) \/ Feed!OnDelta(m) => stream' = <<>> \/ stream' = Tail(stream)
        BY <3>2, <3>3, Zenon DEF Feed!OnSnapshot, Feed!OnDelta
      <3>5. QED
        BY <3>1, <3>4 DEF Feed!OnMessage, Feed!EndSession
    <2>3. QED
      BY <2>1, <2>2
  <1>3. QED
    BY <1>1, <1>2, NamedDropped

\* The strategy's order is one that Submit admits: it was decided on this exposure.
LEMMA SignalWithinLimit ==
    ASSUME BookChanged
    PROVE  UNCHANGED flow_vars \/ \E s \in Flow!OrderSides : Flow!Submit(s)
  <1> DEFINE bid == best_yes_bid(book')
             ask == best_yes_ask(book')
             e == Flow!exposure
  <1>1. CASE placed' = placed
    BY <1>1 DEF BookChanged
  <1>2. CASE placed' # placed
    <2>1. PICK signal \in orders' \ orders : Flow!Post(signal.side)
      BY <1>2 DEF BookChanged
    <2>2. UpdateEma(bid, ask, e)
      BY <1>2 DEF BookChanged, on_book_update, NoReliablePrice, vars
    <2> HIDE DEF bid, ask, e
    <2>3. PICK started : signal \in Signals(bid, ask, ema', e, started)
      BY <1>2, <2>1, <2>2 DEF UpdateEma
    <2>4. \/ signal.side = "Bid" /\ e + order_size <= max_position
          \/ signal.side = "Ask" /\ e - order_size >= -max_position
      BY <2>3 DEF Signals, Signal, Buys, Sells
    <2>5. signal.side \in Flow!OrderSides /\ Flow!WithinLimit(signal.side)
      BY <2>4 DEF Flow!OrderSides, Flow!WithinLimit, e
    <2>6. QED
      BY <2>1, <2>5 DEF Flow!Submit
  <1>3. QED
    BY <1>1, <1>2

LEMMA FlowStep ==
    ASSUME Named, BotNext
    PROVE  [Flow!Next]_Flow!vars
  <1>1. ASSUME UNCHANGED flow_vars
        PROVE  UNCHANGED Flow!vars
    BY <1>1 DEF flow_vars, Flow!vars, Flow!exchange, Flow!runs, Flow!books
  <1>2. CASE ExchangeMoves
    BY <1>1, <1>2 DEF ExchangeMoves
  <1>3. CASE \E id \in 1 .. MaxOrders, count \in FillCounts : ExchangeExecutes(id, count)
    BY <1>3 DEF ExchangeExecutes, Flow!Next, Flow!Ids
  <1>4. CASE \E id \in 1 .. MaxOrders : ExchangeRejects(id)
    BY <1>4 DEF ExchangeRejects, Flow!Next, Flow!Ids
  <1>5. CASE TimePasses
    BY <1>1, <1>5 DEF TimePasses
  <1>6. CASE StartSession \/ ReceiveFails
    BY <1>6 DEF StartSession, ReceiveFails, Flow!Next
  <1>7. CASE HandleFrame
    <2> DEFINE m == Head(stream)
    <2>1. Dispatch(m) /\ stream # <<>>
      BY <1>7 DEF HandleFrame, Feed!HandleFrame
    <2>2. m.type = "fill" => m.ver \in 1 .. MaxOrders
      <3>1. PICK S : stream \in Seq(S) /\ \A n \in S : n.type = "fill" => n.ver \in 1 .. MaxOrders
        BY DEF Named
      <3>2. m \in S
        BY <2>1, <3>1
      <3>3. QED
        BY <3>1, <3>2
    <2> HIDE DEF m
    <2>3. \/ Flow!LoseFills
          \/ BookChanged
          \/ m.type = "fill" /\ \E count \in TradeCounts : Flow!OnFill(m.ver, count)
          \/ UNCHANGED flow_vars
      BY <2>1 DEF Dispatch
    <2>4. CASE Flow!LoseFills
      BY <2>4 DEF Flow!Next
    <2>5. CASE BookChanged
      BY <1>1, <2>5, SignalWithinLimit DEF Flow!Next
    <2>6. CASE m.type = "fill" /\ \E count \in TradeCounts : Flow!OnFill(m.ver, count)
      BY <2>2, <2>6 DEF Flow!Next, Flow!Ids
    <2>7. QED
      BY <1>1, <2>3, <2>4, <2>5, <2>6
  <1>8. CASE SubmitReturns
    BY <1>8 DEF SubmitReturns, Flow!Next
  <1>9. QED
    BY <1>2, <1>3, <1>4, <1>5, <1>6, <1>7, <1>8 DEF BotNext

LEMMA NamedStep ==
    ASSUME Named, [BotNext]_bot_vars
    PROVE  Named'
  <1>1. ASSUME UNCHANGED feed_vars
        PROVE  Named'
    BY <1>1 DEF feed_vars, Named
  <1>2. CASE ExchangeMoves
    BY <1>2, NamedOther, NamedChange DEF ExchangeMoves
  <1>3. CASE \E id \in 1 .. MaxOrders, count \in FillCounts : ExchangeExecutes(id, count)
    BY <1>1, <1>3, NamedFill DEF ExchangeExecutes
  <1>4. CASE (\E id \in 1 .. MaxOrders : ExchangeRejects(id)) \/ TimePasses \/ SubmitReturns
    BY <1>1, <1>4 DEF ExchangeRejects, TimePasses, SubmitReturns
  <1>5. CASE StartSession
    BY <1>5, NamedStarted DEF StartSession
  <1>6. CASE ReceiveFails
    BY <1>6, NamedDropped DEF ReceiveFails, Feed!ReceiveFails, Feed!EndSession
  <1>7. CASE HandleFrame
    BY <1>7, NamedHandled DEF HandleFrame
  <1>8. CASE UNCHANGED bot_vars
    BY <1>1, <1>8 DEF bot_vars
  <1>9. QED
    BY <1>2, <1>3, <1>4, <1>5, <1>6, <1>7, <1>8 DEF BotNext

\* Every step of the bot and of the exchange is one of OrderFlow, or leaves orders
\* and positions alone: the strategy's check on the exposure it is handed is the
\* check of Submit, and fills are handled only between orders.
THEOREM BotRefinesOrderFlow ==
    BotSpec => FlowSpec
  <1>1. BotInit => Flow!Init /\ Named
    <2>1. <<>> \in Seq({})
      OBVIOUS
    <2>2. BotInit => stream = <<>> /\ Flow!Init
      BY DEF BotInit, Feed!Init
    <2>3. QED
      BY <2>1, <2>2 DEF Named
  <1>2. Named /\ [BotNext]_bot_vars => Named'
    BY NamedStep
  <1>3. Named /\ [BotNext]_bot_vars => [Flow!Next]_Flow!vars
    <2>1. UNCHANGED bot_vars => UNCHANGED Flow!vars
      BY DEF bot_vars, flow_vars, Flow!vars, Flow!exchange, Flow!runs, Flow!books
    <2>2. QED
      BY <2>1, FlowStep
  <1>4. QED
    BY <1>1, <1>2, <1>3, PTL DEF BotSpec, FlowSpec, Flow!Spec

-----------------------------------------------------------------------------
(* What OrderFlow's theorems are about *)

\* OrdersAtTouch, of all orders: if gaps show there is no other.
AllAtTouch ==
    /\ \A o \in orders : o.price = Touch(history[basis[o.number]], o.side)
    /\ \A i, j \in DOMAIN basis : i < j => basis[i] <= basis[j]

\* Each order was decided on a book shown before, or on the one shown now.
Decided ==
    /\ basis \in Seq(Nat) /\ Len(basis) = placed
    /\ \A i \in 1 .. Len(basis) : basis[i] \in 1 .. at
    /\ AllAtTouch

LEMMA DecidedKept ==
    ASSUME Inv, Decided, at \in Nat, at' \in Nat, at <= at', \A v \in 1 .. at : history'[v] = history[v],
           basis' = basis, placed' = placed, orders' = orders
    PROVE  Decided'
  <1>1. /\ basis \in Seq(Nat) /\ Len(basis) = placed
        /\ \A i \in 1 .. Len(basis) : basis[i] \in 1 .. at
        /\ AllAtTouch
    BY DEF Decided
  <1>2. ASSUME NEW o \in orders
        PROVE  history'[basis[o.number]] = history[basis[o.number]]
    <2>1. o.number \in 1 .. placed
      BY DEF Inv, TypeOK
    <2>2. QED
      BY <1>1, <2>1
  <1>3. AllAtTouch'
    BY <1>1, <1>2, ZenonT(60) DEF AllAtTouch, Touch, best_yes_bid, best_yes_ask
  <1>4. QED
    BY <1>1, <1>3 DEF Decided

\* The strategy's step on the book just shown: its order, if any, is at that book's
\* touch.
LEMMA DecidedNow ==
    ASSUME Inv, Decided, BookChanged, ~GapMayHide, at \in Nat, at' \in Nat, at <= at', at' >= 1,
           history' = history, book' = history[at']
    PROVE  Decided'
  <1> DEFINE bid == best_yes_bid(book')
             ask == best_yes_ask(book')
             e == Flow!exposure
  <1>1. /\ basis \in Seq(Nat) /\ Len(basis) = placed
        /\ \A i \in 1 .. Len(basis) : basis[i] \in 1 .. at
        /\ AllAtTouch
    BY DEF Decided
  <1>b. \A i, j \in 1 .. placed : i < j => basis[i] <= basis[j]
    <2>1. DOMAIN basis = 1 .. placed
      BY <1>1
    <2>2. QED
      BY <1>1, <2>1, Zenon DEF AllAtTouch
  <1>2. placed \in Nat /\ \A o \in orders : o.number \in 1 .. placed
    BY DEF Inv, TypeOK
  <1>3. CASE placed' = placed
    <2>1. basis' = basis
      BY <1>3 DEF BookChanged
    <2>2. orders' = orders
      <3>1. UpdateEma(bid, ask, e) \/ NoReliablePrice(bid, ask)
        BY DEF BookChanged, on_book_update
      <3> HIDE DEF bid, ask, e
      <3>2. QED
        BY <1>2, <1>3, <3>1 DEF UpdateEma, NoReliablePrice, vars
    <2>3. QED
      BY <1>3, <2>1, <2>2, DecidedKept
  <1>4. CASE placed' # placed
    <2>1. basis' = Append(basis, at')
      BY <1>4 DEF BookChanged
    <2>2. UpdateEma(bid, ask, e)
      BY <1>4 DEF BookChanged, on_book_update, NoReliablePrice, vars
    <2> HIDE DEF bid, ask, e
    <2>a. PICK started :
             \E signal \in Signals(bid, ask, ema', e, started) :
                placed' = placed + 1 /\ orders' = orders \union {signal}
      BY <1>4, <2>2 DEF UpdateEma
    <2>3. PICK signal \in Signals(bid, ask, ema', e, started) :
             placed' = placed + 1 /\ orders' = orders \union {signal}
      BY <2>a
    <2>4. /\ signal.number = placed + 1
          /\ \/ signal.side = "Bid" /\ signal.price = ask
             \/ signal.side = "Ask" /\ signal.price = bid
      BY <2>3 DEF Signals, Signal
    <2>5. signal.price = Touch(history[at'], signal.side)
      BY <2>4 DEF Touch, bid, ask
    <2>6. /\ basis' \in Seq(Nat) /\ Len(basis') = placed + 1 /\ basis'[placed + 1] = at'
          /\ \A i \in 1 .. placed : basis'[i] = basis[i]
      BY <1>1, <1>2, <2>1
    <2>7. \A i \in 1 .. Len(basis') : basis'[i] \in 1 .. at'
      <3> SUFFICES ASSUME NEW i \in 1 .. placed + 1
                   PROVE  basis'[i] \in 1 .. at'
        BY <2>6
      <3>1. CASE i \in 1 .. placed
        BY <1>1, <2>6, <3>1
      <3>2. CASE i = placed + 1
        BY <2>6, <3>2
      <3>3. QED
        BY <1>2, <3>1, <3>2
    <2>8. \A o \in orders' : o.price = Touch(history'[basis'[o.number]], o.side)
      <3> SUFFICES ASSUME NEW o \in orders'
                   PROVE  o.price = Touch(history[basis'[o.number]], o.side)
        OBVIOUS
      <3>1. CASE o \in orders
        BY <1>1, <1>2, <2>6, <3>1 DEF AllAtTouch
      <3>2. CASE o = signal
        BY <2>4, <2>5, <2>6, <3>2
      <3>3. QED
        BY <2>3, <3>1, <3>2, ZenonT(60)
    <2>9. ASSUME NEW i \in 1 .. placed + 1, NEW j \in 1 .. placed + 1, i < j
          PROVE  basis'[i] <= basis'[j]
      <3>1. i \in 1 .. placed /\ basis'[i] = basis[i] /\ basis[i] \in 1 .. at
        BY <1>1, <1>2, <2>6, <2>9
      <3>2. CASE j \in 1 .. placed
        BY <1>b, <2>6, <2>9, <3>1, <3>2
      <3>3. CASE j = placed + 1
        BY <2>6, <3>1, <3>3
      <3>4. QED
        BY <1>2, <3>2, <3>3
    <2>10. DOMAIN basis' = 1 .. placed + 1
      BY <2>6
    <2>11. AllAtTouch'
      BY <2>8, <2>9, <2>10, ZenonT(60) DEF AllAtTouch, Touch, best_yes_bid, best_yes_ask
    <2>12. QED
      BY <2>3, <2>6, <2>7, <2>11 DEF Decided
  <1>5. QED
    BY <1>3, <1>4

-----------------------------------------------------------------------------
(* What BookFeed's theorems are about *)

FeedT == INSTANCE BookFeedProofs

LEMMA FeedAssumptions ==
    FeedT!OrderBookAssumption /\ FeedT!BookFeedAssumption
  BY BotAssumption, ZenonT(60)
     DEF Feed!OrderBookAssumption, FeedT!OrderBookAssumption,
         Feed!BookFeedAssumption, FeedT!BookFeedAssumption,
         Feed!ExchangeBook, FeedT!ExchangeBook, Feed!Books, FeedT!Books, Feed!Levels, FeedT!Levels,
         Feed!Quantities, FeedT!Quantities, Feed!Sides, FeedT!Sides, Feed!IsTop, FeedT!IsTop,
         Feed!PriceOK, FeedT!PriceOK

LEMMA FeedActions ==
    /\ Feed!Init <=> FeedT!Init
    /\ \A d : Feed!ExchangeChange(d) <=> FeedT!ExchangeChange(d)
    /\ \A order : Feed!ExchangeFill(order) <=> FeedT!ExchangeFill(order)
    /\ Feed!ExchangeOther <=> FeedT!ExchangeOther
    /\ Feed!StartSession <=> FeedT!StartSession
    /\ Feed!ReceiveFails <=> FeedT!ReceiveFails
    /\ Feed!HandleFrame <=> FeedT!HandleFrame
  <1> USE DEF
        Feed!Sides, FeedT!Sides, Feed!EmptyBook, FeedT!EmptyBook, Feed!PriceOK, FeedT!PriceOK,
        Feed!QtyOK, FeedT!QtyOK, Feed!Wrap, FeedT!Wrap, Feed!IsScan, FeedT!IsScan,
        Feed!scan_best, FeedT!scan_best, Feed!WellFormed, FeedT!WellFormed,
        Feed!LastFor, FeedT!LastFor, Feed!LevelsOf, FeedT!LevelsOf,
        Feed!SnapshotOK, FeedT!SnapshotOK, Feed!BookOf, FeedT!BookOf, Feed!DeltaOK, FeedT!DeltaOK,
        Feed!RawLevel, FeedT!RawLevel, Feed!Clamp, FeedT!Clamp, Feed!NewBest, FeedT!NewBest,
        Feed!AfterDelta, FeedT!AfterDelta, Feed!DeltaResult, FeedT!DeltaResult,
        Feed!exchange, FeedT!exchange, Feed!bot, FeedT!bot, Feed!NoDelta, FeedT!NoDelta,
        Feed!Frame, FeedT!Frame, Feed!Emit, FeedT!Emit, Feed!EndSession, FeedT!EndSession
  <1>1. Feed!Init <=> FeedT!Init
    BY DEF Feed!Init, FeedT!Init
  <1>2. ASSUME NEW d
        PROVE  Feed!ExchangeChange(d) <=> FeedT!ExchangeChange(d)
    BY ZenonT(60) DEF Feed!ExchangeChange, FeedT!ExchangeChange
  <1>3. ASSUME NEW order
        PROVE  Feed!ExchangeFill(order) <=> FeedT!ExchangeFill(order)
    BY DEF Feed!ExchangeFill, FeedT!ExchangeFill, Feed!FillFrame, FeedT!FillFrame
  <1>4. Feed!ExchangeOther <=> FeedT!ExchangeOther
    BY DEF Feed!ExchangeOther, FeedT!ExchangeOther
  <1>5. Feed!StartSession <=> FeedT!StartSession
    BY DEF Feed!StartSession, FeedT!StartSession, Feed!ResetBook, FeedT!ResetBook
  <1>6. Feed!ReceiveFails <=> FeedT!ReceiveFails
    BY DEF Feed!ReceiveFails, FeedT!ReceiveFails
  <1>7. Feed!HandleFrame <=> FeedT!HandleFrame
    BY ZenonT(60) DEF Feed!HandleFrame, FeedT!HandleFrame, Feed!OnMessage, FeedT!OnMessage,
           Feed!OnSnapshot, FeedT!OnSnapshot, Feed!OnDelta, FeedT!OnDelta,
           Feed!Applied, FeedT!Applied, Feed!BookError, FeedT!BookError,
           Feed!TrackSeq, FeedT!TrackSeq, Feed!IsGap, FeedT!IsGap,
           Feed!IsBookMessage, FeedT!IsBookMessage,
           Feed!SnapshotOf, FeedT!SnapshotOf, Feed!BadSnapshot, FeedT!BadSnapshot
  <1> QED
    BY <1>1, <1>2, <1>3, <1>4, <1>5, <1>6, <1>7, ZenonT(60)

\* The market data, the strategy, and what orders were decided on.
BotInv == FeedT!FeedInv /\ Inv /\ Decided

LEMMA FeedFacts ==
    ASSUME FeedT!FeedInv
    PROVE  /\ history \in Seq(FeedT!Books) /\ Len(history) \in Nat
           /\ at \in 1 .. Len(history) /\ at \in Nat /\ book \in FeedT!Books
  <1>1. FeedT!Ordered /\ FeedT!Shown
    BY DEF FeedT!FeedInv
  <1>2. history \in Seq(FeedT!Books) /\ at \in 1 .. Len(history) /\ book \in FeedT!Books
    BY <1>1, ZenonT(60) DEF FeedT!Ordered, FeedT!Shown
  <1>3. QED
    BY <1>2

\* Every step is one of the market data, or leaves it alone.
LEMMA BotFeedStep ==
    ASSUME BotNext
    PROVE  FeedT!FeedStep \/ UNCHANGED feed_vars
  <1>1. CASE ExchangeMoves
    BY <1>1, FeedActions DEF ExchangeMoves, FeedT!FeedStep
  <1>2. CASE \E id \in 1 .. MaxOrders, count \in FillCounts : ExchangeExecutes(id, count)
    <2>1. PICK id \in 1 .. MaxOrders : Feed!ExchangeFill(id) \/ UNCHANGED feed_vars
      BY <1>2 DEF ExchangeExecutes
    <2>2. id \in Nat
      OBVIOUS
    <2>3. QED
      BY <2>1, <2>2, FeedActions DEF FeedT!FeedStep
  <1>3. CASE (\E id \in 1 .. MaxOrders : ExchangeRejects(id)) \/ TimePasses \/ SubmitReturns
    BY <1>3 DEF ExchangeRejects, TimePasses, SubmitReturns
  <1>4. CASE StartSession \/ ReceiveFails \/ HandleFrame
    BY <1>4, FeedActions DEF StartSession, ReceiveFails, HandleFrame, FeedT!FeedStep
  <1>5. QED
    BY <1>1, <1>2, <1>3, <1>4 DEF BotNext

LEMMA BotFeedInv ==
    ASSUME FeedT!NoSilentLoss, FeedT!FeedInv, [BotNext]_bot_vars
    PROVE  FeedT!FeedInv'
  <1>1. CASE FeedT!FeedStep
    BY <1>1, FeedT!FeedInvStep, FeedAssumptions
  <1>2. CASE UNCHANGED feed_vars
    <2>1. UNCHANGED FeedT!vars
      BY <1>2 DEF feed_vars, FeedT!vars, FeedT!exchange, FeedT!bot
    <2>2. QED
      BY <2>1, FeedT!FeedInvStutter, FeedAssumptions
  <1>3. QED
    BY <1>1, <1>2, BotFeedStep DEF bot_vars

\* Only a frame that is handled moves what is shown; the exchange's past stays.
LEMMA PastKept ==
    ASSUME FeedT!FeedInv, [BotNext]_bot_vars
    PROVE  /\ ~HandleFrame => at' = at
           /\ \A v \in 1 .. at : history'[v] = history[v]
  <1>1. history \in Seq(FeedT!Books) /\ at \in 1 .. Len(history)
    BY FeedFacts
  <1>2. history' = history \/ \E new : history' = Append(history, new)
    <2>1. FeedT!FeedStep => history' = history \/ \E new : history' = Append(history, new)
      BY ZenonT(60) DEF FeedT!FeedStep, FeedT!ExchangeChange, FeedT!ExchangeFill, FeedT!ExchangeOther,
             FeedT!StartSession, FeedT!ReceiveFails, FeedT!HandleFrame, FeedT!exchange
    <2>2. QED
      BY <2>1, BotFeedStep DEF bot_vars, feed_vars
  <1>3. \A v \in 1 .. at : history'[v] = history[v]
    BY <1>1, <1>2
  <1>4. ~HandleFrame => at' = at
    <2>1. /\ \A d : Feed!ExchangeChange(d) => at' = at
          /\ \A order : Feed!ExchangeFill(order) => at' = at
          /\ Feed!ExchangeOther => at' = at
          /\ Feed!StartSession \/ Feed!ReceiveFails => at' = at
      BY DEF Feed!ExchangeChange, Feed!ExchangeFill, Feed!ExchangeOther, Feed!StartSession,
             Feed!ReceiveFails, Feed!bot
    <2>2. QED
      BY <2>1 DEF BotNext, ExchangeMoves, ExchangeExecutes, ExchangeRejects, TimePasses, StartSession,
                  ReceiveFails, SubmitReturns, bot_vars, feed_vars
  <1>5. QED
    BY <1>3, <1>4

LEMMA PricesOfBook ==
    ASSUME NEW b \in FeedT!Books
    PROVE  best_yes_bid(b) \in Nat \union {NoPrice} /\ best_yes_ask(b) \in Nat \union {NoPrice}
  <1>1. b.best["yes"] \in 0 .. MaxPrice /\ b.best["no"] \in 0 .. MaxPrice
    BY DEF FeedT!Books, FeedT!Sides
  <1>2. MaxPrice \in Nat
    BY FeedAssumptions DEF FeedT!OrderBookAssumption
  <1>3. QED
    BY <1>1, <1>2 DEF best_yes_bid, best_yes_ask

\* What handling a frame does to the book shown.
LEMMA FrameHandled ==
    ASSUME FeedT!NoSilentLoss, FeedT!FeedInv, HandleFrame
    PROVE  /\ history' = history
           /\ \/ at' = at /\ (session' = "down" \/ Head(stream).type \notin {"snapshot", "delta"})
              \/ at' \in 1 .. Len(history) /\ at <= at' /\ book' = history[at']
  <1> DEFINE m == Head(stream)
  <1>1. FeedT!HandleFrame /\ FeedT!Ordered /\ FeedT!Shown
    BY FeedActions DEF HandleFrame, FeedT!FeedInv
  <1>2. FeedT!Ready
    BY <1>1, FeedT!ReadyStep, FeedAssumptions
  <1>3. FeedT!PassedBy(m) \/ FeedT!Ended(m) \/ FeedT!Followed(m)
    BY <1>1, <1>2, FeedT!Handled, FeedAssumptions
  <1>4. history' = history
    BY <1>1 DEF FeedT!HandleFrame, FeedT!exchange
  <1>5. FeedT!Truthful(m, history, at)
    <2>1. stream # <<>> /\ stream \in Seq(FeedT!Frames)
      BY <1>1 DEF FeedT!HandleFrame, FeedT!Ordered
    <2>2. m = stream[1] /\ 1 \in 1 .. Len(stream)
      BY <2>1
    <2>3. QED
      BY <1>1, <2>2 DEF FeedT!Ordered
  <1> HIDE DEF m
  <1>6. CASE FeedT!PassedBy(m) \/ FeedT!Ended(m)
    BY <1>4, <1>6 DEF FeedT!PassedBy, FeedT!IsBookMessage, FeedT!Ended, FeedT!EndSession, m
  <1>7. CASE FeedT!Followed(m)
    <2>1. at' = m.ver /\ book' = history[m.ver] /\ FeedT!Makes(m)
      BY <1>7 DEF FeedT!Followed
    <2>2. m.ver \in 1 .. Len(history) /\ at <= m.ver
      <3>1. Len(history) \in Nat
        BY FeedFacts
      <3>2. QED
        BY <1>5, <2>1, <3>1 DEF FeedT!Truthful, FeedT!Makes
    <2>3. QED
      BY <1>4, <2>1, <2>2
  <1>8. QED
    BY <1>3, <1>6, <1>7

LEMMA ShownGrows ==
    ASSUME FeedT!NoSilentLoss, FeedT!FeedInv, HandleFrame
    PROVE  at' \in Nat /\ at <= at'
  <1>1. at \in Nat /\ Len(history) \in Nat
    BY FeedFacts
  <1>2. QED
    BY <1>1, FrameHandled

\* The bot can tell of every gap there is.
LEMMA NoGapHides ==
    ASSUME FeedT!NoSilentLoss, FeedT!FeedInv
    PROVE  ~GapMayHide
  <1>1. missed \in 0 .. MaxMissed /\ xseq \in Nat
    BY DEF FeedT!FeedInv, FeedT!Ordered
  <1>2. MaxSeq \in Nat /\ SeqModulus \in Nat /\ MaxMissed \in Nat
    BY FeedAssumptions DEF FeedT!BookFeedAssumption
  <1>3. CASE FeedT!GapsShow
    <2>1. xseq <= MaxSeq
      BY <1>3 DEF FeedT!FeedInv, FeedT!Numbered
    <2>2. QED
      BY <1>1, <1>2, <1>3, <2>1 DEF FeedT!GapsShow, GapMayHide
  <1>4. CASE MaxMissed = 0
    BY <1>1, <1>4 DEF GapMayHide
  <1>5. QED
    BY <1>3, <1>4 DEF FeedT!NoSilentLoss

\* A book message that is applied shows the book it makes, which is not an older one.
LEMMA BookFollowed ==
    ASSUME FeedT!NoSilentLoss, FeedT!FeedInv, HandleFrame, session' = "up",
           Head(stream).type \in {"snapshot", "delta"}
    PROVE  /\ at' \in 1 .. Len(history) /\ at <= at' /\ history' = history
           /\ book' = history[at'] /\ book' \in FeedT!Books
  <1>1. at' \in 1 .. Len(history) /\ at <= at' /\ history' = history /\ book' = history[at']
    BY FrameHandled
  <1>2. history[at'] \in FeedT!Books
    BY <1>1, FeedFacts
  <1>3. QED
    BY <1>1, <1>2

\* Every step of the bot and the exchange preserves the invariant.
LEMMA BotInvStep ==
    ASSUME FeedT!NoSilentLoss, BotInv, [BotNext]_bot_vars
    PROVE  BotInv'
  <1>1. FeedT!FeedInv /\ Inv /\ Decided
    BY DEF BotInv
  <1>2. FeedT!FeedInv'
    BY <1>1, BotFeedInv
  <1>3. at \in Nat /\ at' \in Nat /\ at <= at' /\ \A v \in 1 .. at : history'[v] = history[v]
    <2>1. at \in Nat
      BY <1>1, FeedFacts
    <2>2. QED
      BY <1>1, <2>1, PastKept, ShownGrows
  <1>4. ASSUME UNCHANGED vars
        PROVE  Inv'
    BY <1>1, <1>4 DEF vars, Inv, TypeOK, FairWithinRange, OnlyAgainstMoves, OrdersSpaced, Remembers
  <1>5. CASE ~HandleFrame
    <2>1. Tick \/ UNCHANGED vars
      BY <1>5 DEF BotNext, ExchangeMoves, ExchangeExecutes, ExchangeRejects, TimePasses, StartSession,
                  ReceiveFails, SubmitReturns, bot_vars
    <2>2. basis' = basis
      BY <1>5 DEF BotNext, ExchangeMoves, ExchangeExecutes, ExchangeRejects, TimePasses, StartSession,
                  ReceiveFails, SubmitReturns, bot_vars
    <2>3. placed' = placed /\ orders' = orders
      BY <2>1 DEF Tick, vars
    <2>4. Decided'
      BY <1>1, <1>3, <2>2, <2>3, DecidedKept
    <2>5. Inv'
      BY <1>1, <1>4, <2>1, TickInv
    <2>6. QED
      BY <1>2, <2>4, <2>5 DEF BotInv
  <1>6. CASE HandleFrame
    <2> DEFINE m == Head(stream)
    <2>1. Dispatch(m)
      BY <1>6 DEF HandleFrame
    <2>2. CASE session' = "up" /\ m.type \in {"snapshot", "delta"} /\ BookChanged
      <3>1. /\ at' \in 1 .. Len(history) /\ at <= at' /\ history' = history
            /\ book' = history[at'] /\ book' \in FeedT!Books
        BY <1>1, <1>6, <2>2, BookFollowed
      <3>2. Decided'
        BY <1>1, <1>3, <2>2, <3>1, NoGapHides, DecidedNow
      <3>3. Inv'
        <4>1. /\ best_yes_bid(book') \in Nat \union {NoPrice}
              /\ best_yes_ask(book') \in Nat \union {NoPrice}
          BY <3>1, PricesOfBook
        <4>2. on_book_update(best_yes_bid(book'), best_yes_ask(book'), Flow!exposure)
          BY <2>2 DEF BookChanged
        <4>3. QED
          BY <1>1, <4>1, <4>2, BookUpdateInv, ZenonT(60)
      <3>4. QED
        BY <1>2, <3>2, <3>3 DEF BotInv
    <2>3. CASE UNCHANGED <<vars, basis>>
      <3>1. placed' = placed /\ orders' = orders /\ basis' = basis
        BY <2>3 DEF vars
      <3>2. Decided'
        BY <1>1, <1>3, <3>1, DecidedKept
      <3>3. QED
        BY <1>2, <1>4, <2>3, <3>2 DEF BotInv
    <2>4. QED
      BY <2>1, <2>2, <2>3 DEF Dispatch
  <1>7. QED
    BY <1>5, <1>6

LEMMA BotInvariant ==
    ASSUME FeedT!NoSilentLoss
    PROVE  BotSpec => []BotInv
  <1>1. BotInit => BotInv
    <2> SUFFICES ASSUME BotInit
                 PROVE  BotInv
      OBVIOUS
    <2>1. FeedT!FeedInv
      BY FeedActions, FeedT!InitFeed, FeedAssumptions DEF BotInit
    <2>2. Inv
      BY InitInv DEF BotInit
    <2>3. basis = <<>> /\ placed = 0 /\ orders = {}
      BY DEF BotInit, Init
    <2>4. basis \in Seq(Nat) /\ Len(basis) = 0 /\ 1 .. Len(basis) = {} /\ DOMAIN basis = {}
      BY <2>3
    <2>5. Decided
      BY <2>3, <2>4, ZenonT(60) DEF Decided, AllAtTouch
    <2>6. QED
      BY <2>1, <2>2, <2>5 DEF BotInv
  <1>2. BotInv /\ [BotNext]_bot_vars => BotInv'
    BY BotInvStep
  <1>3. QED
    BY <1>1, <1>2, PTL DEF BotSpec

-----------------------------------------------------------------------------
(* Theorems *)

\* As long as the bot can tell that a market data message was missed, or none is
\* missed, the book it trades on is the exchange's as of the last message applied,
\* however long frames wait for a POST to return and whatever fills come between:
\* BotInSync without its exception (trading_bot.cpp:179-193).
THEOREM BotStaysInSync ==
    ASSUME FeedT!NoSilentLoss
    PROVE  BotSpec => [](BotInSync /\ ~GapMayHide)
  <1>1. BotInv => BotInSync /\ ~GapMayHide
    <2>1. FeedT!InSync => Feed!InSync
      BY DEF FeedT!InSync, Feed!InSync, FeedT!HasView, Feed!HasView
    <2>2. BotInv => FeedT!InSync
      BY DEF BotInv, FeedT!FeedInv, FeedT!Shown
    <2>3. BotInv => ~GapMayHide
      BY NoGapHides DEF BotInv
    <2>4. QED
      BY <2>1, <2>2, <2>3 DEF BotInSync
  <1>2. QED
    BY <1>1, BotInvariant, PTL

\* Under the same condition every order is priced at the touch of a book the exchange
\* really had when it is decided on, never an older one than the order before:
\* OrdersAtTouch with no order left out (trading_bot.cpp:212-217).
THEOREM OrdersAreAtTouch ==
    ASSUME FeedT!NoSilentLoss
    PROVE  BotSpec => [](OrdersAtTouch /\ \A i \in DOMAIN basis : basis[i] # 0)
  <1>1. BotInv => OrdersAtTouch /\ \A i \in DOMAIN basis : basis[i] # 0
    <2> SUFFICES ASSUME BotInv
                 PROVE  OrdersAtTouch /\ \A i \in DOMAIN basis : basis[i] # 0
      OBVIOUS
    <2>1. /\ basis \in Seq(Nat) /\ \A i \in 1 .. Len(basis) : basis[i] \in 1 .. at
          /\ AllAtTouch
      BY DEF BotInv, Decided
    <2>2. at \in Nat
      BY FeedFacts DEF BotInv
    <2>3. OrdersAtTouch
      BY <2>1 DEF AllAtTouch, OrdersAtTouch
    <2>4. QED
      BY <2>1, <2>2, <2>3
  <1>2. QED
    BY <1>1, BotInvariant, PTL

\* And the strategy's promises hold of the bot, on the books it really sees: orders
\* keep the cooldown and the warm-up, and go against a move of at least the edge.
THEOREM BotOrdersSpaced ==
    ASSUME FeedT!NoSilentLoss
    PROVE  BotSpec => [](OrdersSpaced /\ OnlyAgainstMoves /\ FairWithinRange)
  <1>1. BotInv => OrdersSpaced /\ OnlyAgainstMoves /\ FairWithinRange
    BY DEF BotInv, Inv
  <1>2. QED
    BY <1>1, BotInvariant, PTL

FlowT == INSTANCE OrderFlowProofs WITH MaxPosition <- max_position, OrderSize <- order_size,
                                       orders <- statuses,
                                       MaxRestarts <- 0, restarts <- 0, carried <- 0

LEMMA FlowAssumption ==
    FlowT!OrderFlowAssumption
  BY BotAssumption
     DEF Flow!OrderFlowAssumption, FlowT!OrderFlowAssumption, Flow!Ids, FlowT!Ids,
         Flow!Holding, FlowT!Holding

LEMMA FlowSteps ==
    (Flow!Init <=> FlowT!Init) /\ ([Flow!Next]_Flow!vars <=> [FlowT!Next]_FlowT!vars)
  <1> USE DEF Flow!Ids, FlowT!Ids, Flow!NoAnswer, FlowT!NoAnswer
  <1>1. Flow!Init <=> FlowT!Init
    BY DEF Flow!Init, FlowT!Init
  <1>2. [Flow!Next]_Flow!vars <=> [FlowT!Next]_FlowT!vars
    BY ZenonT(60) DEF Flow!Next, FlowT!Next, Flow!Execute, FlowT!Execute, Flow!Reject, FlowT!Reject,
           Flow!LoseFills, FlowT!LoseFills, Flow!Submit, FlowT!Submit, Flow!Post, FlowT!Post,
           Flow!WithinLimit, FlowT!WithinLimit, Flow!exposure, FlowT!exposure,
           Flow!OrderSides, FlowT!OrderSides, Flow!Status, FlowT!Status,
           Flow!OnResponse, FlowT!OnResponse, Flow!OnSendFails, FlowT!OnSendFails,
           Flow!OnRequestFails, FlowT!OnRequestFails, Flow!Remaining, FlowT!Remaining,
           Flow!OnFill, FlowT!OnFill, Flow!Forget, FlowT!Forget, Flow!Restart, FlowT!Restart,
           Flow!Signed, FlowT!Signed, Flow!IsWhole, FlowT!IsWhole,
           Flow!parse_contracts, FlowT!parse_contracts, Flow!exchange, FlowT!exchange,
           Flow!books, FlowT!books, Flow!runs, FlowT!runs, Flow!vars, FlowT!vars
  <1>3. QED
    BY <1>1, <1>2

LEMMA BotHasFlow ==
    BotSpec => FlowT!Spec
  <1>1. (Flow!Init => FlowT!Init) /\ ([Flow!Next]_Flow!vars => [FlowT!Next]_FlowT!vars)
    BY FlowSteps
  <1>2. QED
    BY <1>1, BotRefinesOrderFlow, PTL DEF FlowSpec, Flow!Spec, FlowT!Spec

\* The position cap, for the whole bot: as long as no answer to an order was lost or
\* dropped the account's position is within the cap, and between orders the exposure
\* the strategy trades on is that position, whatever the market data did meanwhile.
THEOREM BotPositionCap ==
    BotSpec => []((failures = 0 => Flow!PositionCap) /\ Flow!ExposureIsTruth)
  <1>1. BotSpec => []((failures = 0 /\ 0 = 0 => FlowT!PositionCap) /\ FlowT!ExposureIsTruth)
    BY BotHasFlow, FlowT!CapHolds, FlowAssumption, PTL
  <1>2. (failures = 0 /\ 0 = 0 => FlowT!PositionCap) /\ FlowT!ExposureIsTruth
           => (failures = 0 => Flow!PositionCap) /\ Flow!ExposureIsTruth
    BY DEF Flow!PositionCap, FlowT!PositionCap, Flow!ExposureIsTruth, FlowT!ExposureIsTruth,
           Flow!exposure, FlowT!exposure
  <1>3. QED
    BY <1>1, <1>2, PTL

\* And when answers are lost or dropped, each costs the whole bot at most one order
\* beyond the cap, however late the exchange executes them and whatever the market
\* data did meanwhile (trading_bot.cpp:58-72).
THEOREM BotOvershootBound ==
    BotSpec => []Flow!OvershootBound
  <1>1. BotSpec => []FlowT!OvershootBound
    BY BotHasFlow, FlowT!OvershootIsBounded, FlowAssumption, PTL
  <1>2. FlowT!OvershootBound => Flow!OvershootBound
    BY DEF Flow!OvershootBound, FlowT!OvershootBound
  <1>3. QED
    BY <1>1, <1>2, PTL

-----------------------------------------------------------------------------
(* What the orders are decided on *)

\* The types of the bot's state.
THEOREM BotTypeCorrect ==
    ASSUME FeedT!NoSilentLoss
    PROVE  BotSpec => []BotTypeOK
  <1>1. BotSpec => []FlowT!TypeOK
    BY BotHasFlow, FlowT!OrderFlowTypes, FlowAssumption, PTL
  <1>2. FlowT!TypeOK => Flow!TypeOK
    BY DEF Flow!TypeOK, FlowT!TypeOK, Flow!Ids, FlowT!Ids, Flow!OrderSides, FlowT!OrderSides,
           Flow!Holding, FlowT!Holding
  <1>3. BotInv => Feed!TypeOK /\ TypeOK /\ basis \in Seq({0} \union DOMAIN history)
    <2> SUFFICES ASSUME BotInv
                 PROVE  Feed!TypeOK /\ TypeOK /\ basis \in Seq({0} \union DOMAIN history)
      OBVIOUS
    <2>1. FeedT!TypeOK
      BY FeedT!FeedInvTypes, FeedAssumptions DEF BotInv
    <2>2. FeedT!TypeOK => Feed!TypeOK
      BY ZenonT(60) DEF Feed!TypeOK, FeedT!TypeOK, Feed!Books, FeedT!Books, Feed!Levels, FeedT!Levels,
             Feed!Quantities, FeedT!Quantities, Feed!Sides, FeedT!Sides,
             Feed!Frames, FeedT!Frames, Feed!NoDelta, FeedT!NoDelta
    <2>3. TypeOK
      BY DEF BotInv, Inv
    <2>4. basis \in Seq(Nat) /\ \A i \in 1 .. Len(basis) : basis[i] \in 1 .. at
      BY DEF BotInv, Decided
    <2>5. DOMAIN history = 1 .. Len(history) /\ at \in 1 .. Len(history) /\ Len(history) \in Nat
      <3>1. /\ history \in Seq(FeedT!Books) /\ Len(history) \in Nat /\ at \in 1 .. Len(history)
        BY FeedFacts DEF BotInv
      <3>2. QED
        BY <3>1
    <2>6. basis \in Seq({0} \union DOMAIN history)
      BY <2>4, <2>5
    <2>7. QED
      BY <2>1, <2>2, <2>3, <2>6
  <1>4. QED
    BY <1>1, <1>2, <1>3, BotInvariant, PTL DEF BotTypeOK
=============================================================================
