# A TLA+ model of kalshi-client

This directory models the parts of kalshi-client whose correctness depends on
the order in which things happen, or on every case of a format being handled: the
order book and the messages that maintain it, orders and the position they build,
the HTTP and WebSocket connections, the strategy, the loop that ties them together,
and the decoding of what arrives. TLC checks each model on small instances. TLAPS
proves the central properties for all values of the constants. `PROJECT.json` lists
the runs, the properties, the source lines behind every definition, the known
hazards and the disagreements found.

## The system

The bot is one thread, a signal handler, and two connections.

| Part | Source | Role | Module |
|---|---|---|---|
| Order book | `market_state` | two arrays of bids, best price maintained incrementally | `OrderBook`, `MarketState` |
| Book feed | `trading_bot` (`run_session`) | subscribe, check `sid`/`seq`, apply, resubscribe | `BookFeed`, abstract `BookReplica` |
| Orders | `trading_bot` (`submit`, `on_fill`, `exposure`), `order_tracker`, `position_tracker` | send orders, reconcile responses with fills | `OrderFlow` |
| Strategy | `strategy` | fair value and signals | `Strategy` |
| Bot | `trading_bot` (`run_session`, `submit`) | the three parts above in one thread | `TradingBot` |
| Main program | `main`, `trading_bot` (`run`, `run_session`) | startup, shard funding, sessions, backoff, stop signal | `RunLoop` |
| HTTP client | `http_client` | one request at a time on a kept-alive connection | `HttpClient`, abstract `Rpc` |
| HTTP responses | `http_response` | head, framing and body of what has arrived so far | `HttpResponse` |
| WebSocket | `web_socket`, `frame_parser`, `frame_builder` | upgrade, bytes to frames and back | `FrameParser`, `WebSocket` |
| JSON | `json_lexer`, `json_parser` | tokens, strings, values | `JsonText`, `JsonParser` |
| Messages | `kalshi_messages`, `kalshi_decoder` | two decoders for the same messages | `KalshiMessages`, `KalshiDecoder` |
| Decimals | `fixed_point`, `market_state.hpp` | exact decimal strings | `FixedPoint` |
| Sockets, signing | `tls_socket`, `tcp_socket`, `kalshi_auth` | outcomes only: data, close, timeout, interruption, error | in the modules above |
| Latency statistics | `latency_stats` | not modelled | |

A frame from `WebSocket` is handled in one iteration of `RunLoop`. It is decoded
(`KalshiDecoder`), changes the book (`BookFeed`, which uses the functions of
`OrderBook`), asks the strategy (`Strategy`) with the current exposure (`OrderFlow`),
and may lead to a POST (`HttpClient`, which reads the answer with `HttpResponse`).
The modules meet at these interfaces:

- `BookFeed` EXTENDS `OrderBook`, so its book is updated by the same operators
  that `MarketState` checks on their own.
- `TradingBot` EXTENDS `Strategy` and instantiates `BookFeed` and `OrderFlow`. Each of
  its steps is a step of the parts it concerns, and it is shown to implement
  `OrderFlow` (`FlowSpec`), so what is proved of `OrderFlow` holds of the bot.
- `OrderFlow` on its own allows any order that passes the strategy's position check,
  at any time; it uses of the HTTP client what `Rpc` promises: at most one
  execution, an answer only after it, and no knowledge after an error.
- `HttpClient` EXTENDS `HttpResponse` and applies it to its buffer after every read.
- `RunLoop` reduces a frame to its effect on the control flow.
- `BookFeed` receives decoded messages, or "garbled" ones; `Decoding` checks the
  decoders on their own.

## State and actions

**OrderBook, MarketState.** `book` holds the four members of the class. A decimal
string is the number `parse_fixed` makes of it, or `Unparsable`. Quantities have
`MaxQty` in the place of `INT64_MAX`, and sums wrap. `apply_delta` is one action.
`apply_snapshot` takes several: it begins, reads one entry after another into the
scratch arrays (`ReadEntry`), and either meets a bad one and returns (`Rejects`) or
assigns the arrays to the book (`Assign`). `result` is what a call returned; `told` is
what the accepted messages add up to, computed from them alone.

**BookFeed.** The exchange has a `history` of books, and numbers the messages of a
subscription. A message may be *missed*: skipped, or sent undecodable.
`FillSharesSid` says whether fills are numbered with the book; the code allows
for both. `HandleFrame` is one iteration of the loop: the gap test, the update of
`_book_sid` and `_book_seq`, applying the message, and `on_book_error`. `at`
records which book of the history the last applied message made.

**OrderFlow.** `truth` is the account's position, counted from the flat start the
repository's README documents. `Submit` is the strategy's check and the POST
(`Post`); `OnResponse`, `OnSendFails` and `OnRequestFails` are the ways `submit`
ends. The exchange executes or rejects an order, also after the bot has given up on
it. `failures` counts the orders whose outcome `submit` did not learn: the request
failed after it was sent, the answer reported a fraction of a contract and was
dropped, or the process ended. `OnFill` handles one trade of an order; `LoseFills`
is the end of a session. `Restart` ends the process at any point and starts it
again with empty trackers; `carried` is the position it then does not know of.
Counts on the wire are in hundredths of a contract.

**Strategy.** Prices are in ticks, averages in quarters of a tick. The weight
`1 - exp(-dt/tau)` is abstracted: the new average is any value between the old one
and the mid, and the old one when no time has passed. History variables record
the orders and the extremes of the mid.

**TradingBot.** `HandleFrame` is a whole iteration: the step of `BookFeed`, and with it
either the strategy and its `Post`, or `on_fill`, or the end of the session. While
`waiting` is not 0 the thread is inside `submit` and handles no frame; the exchange
goes on, and what it fills is reported on the same stream, where it takes part in
the numbering. `basis` records the book each order was decided on. Messages are missed
here too. The code does not notice a gap when the message after it has the number 0,
which stands for "absent" (`trading_bot.cpp:182`), or is a fill that shares the book's
numbers; `GapMayHide` says when that can have happened, `BotInSync` and `OrdersAtTouch`
except it, and every other gap has to be noticed.

**RunLoop.** `pc` names the places between which a signal can arrive. The place
"read", after the test of `g_running` and before the blocking read, is separate
from "blocked", since a signal interrupts only the latter. `task` is what the command
line asks for; `fund_shard` is a sequence of places that ends the program.

**HttpResponse, HttpClient.** A response is a sequence of units. The text of a line (a
status line, a field, a chunk size) is one unit, what the code makes of it; a carriage
return, a line feed, a byte of a chunk extension and a byte of the body are units of
their own. The units arrive in any parts, so that data ends before, within and after
every line end and at every limit. `parsed` is what `parse_http_response` says of the
buffer. It refuses a head or a chunk size line that is over its limit while its end is
missing (`Overlong`), although the same bytes may be accepted once the end is there:
`DeliveryIndependent` excepts that answer and no other. The server executes what it has
received at any time, even on an abandoned connection, may send an interim response
first, and closes or resets the connection at any time. A write that fails has not
reached the server; `RpcSpec` rests on that, as the resend in `request` does.

**FrameParser, WebSocket.** Bytes are numbers. `frame_parser` and `frame_builder`
are translated byte by byte. `Connect` reads the first part of the upgrade answer,
however long, and leaves the rest in the stream (`cut`). The stream reaches the
client in chunks of any of the sizes in `Chunks`. The server sends frames only after
the upgrade has been read.

**JsonText, FixedPoint, JsonParser, KalshiMessages, KalshiDecoder, Decoding.** These
are functions, and `Decoding` is the state machine that enumerates their inputs:
texts that grow by a unit of an alphabet, messages as sequences of tokens of which
slices are replaced by others, and all prices. Lexing and numbers work on bytes;
parsing and decoding on tokens, where a text stands for itself, `Decoded` says what
an escaped text decodes to and `Uint64` which texts are numbers. In `KalshiDecoder` the
callbacks of the walk say what to record of a value and which callback goes on inside
it; `for_each` is the one loop.

Operators with a comment "Faulty variant" belong to no specification. Each is a
plausible mistake in the definition that follows it, and `PROJECT.json` names
the property that notices it.

## Runs

| Run | Instance | Shows |
|---|---|---|
| `MarketState` | 3 usable prices, 3-bit quantities, snapshots of up to 2 entries per side with duplicates and bad entries | `BestIsTop`, `LevelsNonNegative`, `NoSilentWrap`, `BookIsReplay` |
| `FeedMissed` | 4 changes, 2 missed messages, 1 fault, fills numbered apart, the same sid for every session | `InSync`, `NoBookWithoutSnapshot`, `Resyncs`, refinement of `BookReplica` |
| `FeedGapHidden` | as `FeedMissed`, fills sharing the numbers | **violates** `InSync` |
| `OrderFlow` | 4 orders of 2 contracts, cap 2, partial and fractional fills, 2 answers lost or dropped, 1 restart | `ExposureIsTruth`, `Accounting`, `OvershootBound`, `StatusIsTruth` |
| `OrderResponseLost` | 2 orders, 1 answer lost or dropped, no restart | **violates** `PositionCap` |
| `TradingBot` | 3 changes of a market at 2/4 of 5, numbers modulo 4 shared with fills, 1 missed message, 2 orders, 1 fault, 1 failed request | `OrdersAtTouch`, `BotInSync`, `OrdersSpaced`, `BotResyncs`, types, refinement of `OrderFlow` |
| `RunLoop` | 9 sessions, the real limit of 60 s | `FullBackoff`, `OneFrameAfterStop`, `RunsUntilStopped`, `StopExits`, `Reconnects` |
| `RunLoopSignal` | 1 session | **violates** `PromptExit` |
| `HttpClient` | 2 requests, 8 well-formed and 10 malformed responses, 1 interim response, 1 close, 1 error | `OwnBytes`, `ResponseMatches`, `DeliveryIndependent`, `Returns`, refinement of `Rpc` |
| `HttpTruncated` | 1 request, 1 error | **violates** `WholeBody` |
| `WebSocket` | an upgrade cut anywhere, 2 frames of 0 to 129 bytes or garbage, limit 128, chunks of 1 and 64 | `FramesInOrder`, `BufferBound`, `UpgradeNeverFramed`, `PongsMatchPings`, `AllReceived` |
| `Decoding` | texts of up to 6 number characters and 4 string units, 5 messages with 1 or 2 edits, all prices, depth limit 4 | `DecodersAgree`, `FixedExact`, `NumberGrammar`, `EscapesAreUtf8`, `PriceRoundTrip`, `NestingBounded`, `AnswerIsFirst` |

Why the bounds are enough: `apply_delta` looks at one level and the best price,
and three prices allow a best level, one below and one above. A hidden or
revealed gap takes a snapshot, a missed message and two more. One order reaches the
cap of two contracts; `OvershootBound` allows one more order for each answer lost or
dropped and one more cap after a restart, and its bound is reached with two lost
answers, with a restart, and with a restart and a lost answer, so four orders
suffice. In `TradingBot` a message is missed before or after the numbers wrap, an order
opens and another closes the position, and three deltas can queue behind a POST. Seven
fruitless sessions reach the limit of the backoff. Two requests allow a late answer,
or the rest of one, to meet the next request; every branch of `parse_http_response` is
taken by one of the responses, and every way to cut them is tried. The length
encodings of frames change at 126, from where on the order of the length bytes
matters; the 64-bit encoding is exercised by its header alone. A second frame shows
what the first one left in the buffer. A surrogate pair is four string units, and six
characters exceed the scaled-down `INT64_MAX` of 1011. One edit duplicates, removes or
misplaces any token or member of a message. Bounds only stop the environment or the
counters; every bound is a named constant.

### What the violations say

Each of the four checks a sentence of the repository that the code does not keep
in some behaviour. `PROJECT.json` quotes them.

- A fill that shares the book's numbering moves `_book_seq` over a missed delta.
  This needs a server that numbers both channels together.
- An order whose answer is lost, or dropped because it reports a fraction of a
  contract, is not counted, so the "hard cap" can be exceeded, by at most one order
  for each such answer (`OvershootBound`).
- A signal just before the blocking read interrupts nothing. The program still
  ends (`StopExits`), after the next frame or the timeout.
- A read error of any kind passes for the end of a close-delimited body.

## Fairness

- `BookFeed`: `StartSession` and `HandleFrame`. `run` reconnects for as long as it is
  not stopped, and the thread handles frames as they come. The exchange owes
  nothing. That `StartSession` is fair means that connecting and subscribing succeed
  eventually; that they are retried for ever is `Reconnects` of `RunLoop`. `Resyncs` allows for a session whose snapshot could not be
  decoded and to which nothing more is sent.
- `TradingBot`: the same, and `SubmitReturns`, by the timeouts of the HTTP client.
- `RunLoop`: the steps of the thread. Connecting has a deadline of 5 s, reads one of
  30 s (`net_constants.hpp`), and requests consist of these. Frames and signals
  need never come. A peer that sends single bytes faster than the timeout can hold
  a read open; the assumption excludes that.
- `HttpClient`: the steps of a request, by the same timeouts. The server owes nothing.
- `WebSocket`: the thread's calls, and delivery of bytes already sent while the
  connection lives. `ReceiveFails` is not fair: connections need not fail.

## Proofs

All proofs hold for every value of the constants that the named assumptions admit.
A theorem that needs more says so in a hypothesis, which the instance of its run
meets; the hypotheses are named below.

**Order book** (`OrderBookProofs`, `MarketStateProofs`). The first module holds the
lemmas: what `scan_best` returns, that snapshots and deltas make well-formed books, and
when a sum is exact. `BookCorrect` holds also with negative quantities in snapshots; the
step for a delta splits on whether the level is above, at or below the best price.
`NonNegative`, `AcceptedDeltaIsExact` and `BookReplaysMessages` assume that snapshots
carry no negative quantity: from a non-negative level a sum can only wrap to a negative
number, which is reported. While a snapshot is read the invariant adds that the scratch
arrays are what its entries read so far say, the last one for each price.

**Book feed** (`BookFeedProofs`). `BookInSync`, `NoBookBeforeSnapshot`, `FeedTypeCorrect`
and the refinement `FeedIsReplica` rest on the hypothesis `NoSilentLoss`: either the
book's messages have the numbers of a subscription to themselves and are fewer than the
numbers there are, or none is missed. The run `FeedGapHidden` shows that something of
the kind is needed. `InSync` says nothing of the frames under way. The invariant adds
that they speak the truth about the exchange's books, in order (`Ordered`), and what
makes the next delta fit: in the first case that whatever has the next number makes the
next book (`Numbered`), in the second that the book a delta applies to is shown or made by a
frame ahead of it (`Chained`).

**Orders** (`OrderFlowProofs`). `PositionCap` is not inductive: it says nothing of what
the bot believes. `Accounts` adds, order by order, that what the fill channel still
owes is covered by the unconfirmed fill, and, for the order under way, that the
exposure lacks exactly what its answer will say. The inductive invariant is that the
accounts balance while `failures = 0`, and that `failures` only grows; a restart
makes them balance again against `carried`. `AccountsBalance` and `CapHolds` derive
`Accounting`, `ExposureIsTruth`, and, without a restart, `PositionCap` under that
condition, which the run `OrderResponseLost` shows to be necessary. A second
invariant, `OrderKnown`, holds in all behaviours: what is recorded, under way or
undelivered of an order agrees with what was executed of it, and nothing is known of
orders not sent yet. It gives `StatusesAreTrue` and `OrderFlowTypes`.

`OvershootIsBounded` has no condition: with any number of lost answers and restarts
the position stays within one cap for each run of the bot and one order for each
outcome it did not learn. The invariant `Explainable` says that there is a set of lost
orders, and for each of them a number of contracts it holds unknown to the bot, may
still be given by the exchange, and may still have reported by the fill channel, with which the
position can be explained from either side (`Within`). Sums of such numbers are not
negative, by the least number of orders for which one is. That `Total` is a sum is an
assumption on a constant operator, which TLC evaluates.

**Strategy and bot** (`TradingBotProofs`). `StrategyKeepsItsPromises` is about any
sequence of books: the invariant adds that the last order is the latest of the recorded
ones and that the extremes only widen. `BotRefinesOrderFlow`: every step of the bot is a
step of `OrderFlow`, so `BotPositionCap` and `BotOvershootBound` follow from the theorems
about that module. Under `NoSilentLoss` the steps are also steps of `BookFeed` and of
`Strategy`, which gives `BotStaysInSync`, `OrdersAreAtTouch` (every order was decided on a
book the exchange had), `BotOrdersSpaced` and `BotTypeCorrect`. Under it no gap hides
(`NoGapHides`), so that the exception of `BotInSync` and `OrdersAtTouch` does not apply.

**Main program** (`RunLoopProofs`). `StopIsPrompt`, `OnlyStopEnds` and
`BackoffIsLimited`: the invariant adds that a thread that is reading found the bot
running, so that no frame was handled since the stop request, and that the seconds slept
are the seconds waited. `BackoffIsFull`: the delay is the power of two of the number of
fruitless sessions, up to the limit, and a running bot left its sleep only when the
delay was over (`Due`). That the recursive definition of the power doubles is shown by
the least number for which it would not.

**HTTP** (`HttpClientProofs`). `ParsingIsDeliveryIndependent` has no hypothesis. Its core
is a lemma on `parse_http_response`, `ParsedArrived`: what it makes of a sequence of
units, unless it asks for more or finds an unfinished part too long, it makes of every
longer one. The recursion of
`decode_chunked` is first shown to be well-founded (`LoopIs`), and then the claim follows
from the end of the data backwards (`LoopArrived`), turn by turn (`TurnArrived`). The
invariant `DeliveryInv` adds that the client has looked at all it has received.
`RequestsReadOwnBytes`, `ResultsAreOwn` and the refinement `ClientImplementsRpc` assume
`ResponsesFramed`: a response of the server that keeps the connection is as long as its
framing says; otherwise what follows it would be read by the next request. That no part of
it passes for a response follows (`NoPartIsFramed`). The invariant says where each
request is, in the inbox at most once and never again after it was executed
(`CallsInv`), that the buffer and the connection hold nothing but the current response,
the part read and the part under way (`BytesInv`), and that a response made by the end of a
connection does not keep it.

**WebSocket** (`WebSocketProofs`). `BufferIsBounded`, for any bytes: they are appended
only to a buffer that `frame_parser` finds incomplete, and such a buffer is shorter than a
header and a payload within the limit. `FramesArriveInOrder`, `UpgradeIsNeverFramed` and
`EveryPingIsAnswered` assume `GarbageIsNoFrame`, that `frame_parser` rejects what the
environment sends as garbage; that an answer to the upgrade request is text is an assumption of the
module. They rest on two facts about the functions: `frame_parser` says of
some bytes what it says of more, unless it asks for more, and it makes of what
`frame_builder` or the server wrote the frame that was meant, since masking twice is the
identity. The invariant `StreamInv` is that the buffer and the bytes under way are what was sent
and not received, piece by piece; `PongInv` that every ping but the last has its pong.

Checked by TLC only:

- Liveness (`Resyncs`, `BotResyncs`, `StopExits`, `Reconnects`, `Returns`, `AllReceived`):
  fairness and `ENABLED` are beyond the installed provers.
- That the body of a response is exact, the second half of `ResponseMatches`, which is
  stated with the recursive `SelectSeq`.
- All of `Decoding`: its functions are recursive operators, over which the provers
  cannot reason. Where a recursive function is proved about above, it is by the least
  counterexample, not by induction.

## Not modelled

- Cryptography: TLS, signing, certificate checks, the text and key of the upgrade
  request. Nothing in them can be told apart by a finite model.
- Descriptors and the calls behind `connect`, `send_data` and `receive_data`: their
  callers see the outcomes, which are modelled, and the ownership of a descriptor is
  the destructor's.
- Latency statistics, status lines and all other printing, `to_json_string` and
  `json_quote` included: no decision reads them.
  `serialize_order_request` is a format string; its price is modelled.
- The benchmarks and tests.
- Frames that follow the upgrade answer in the same read, which `connect` would
  discard: the server has nothing to send before the subscription. Readable idle
  connections for reasons of TLS itself. Reassembly of fragmented messages (a
  documented limitation). The time `keep_http_warm` blocks the loop.
- Interim (1xx) responses are modelled, but the properties of `HttpClient` are stated
  for connections that carried none: the client returns one as the answer, and no
  request of it asks for one.

## Plan

1. `LatencyStats` (the ring buffer) and the ownership of descriptors in the sockets.
2. The text of a line of a response in bytes, as in `JsonText`.
3. `TradingBot` with two missed messages, on a larger instance.
