------------------------------ MODULE BookFeed ------------------------------
(***************************************************************************)
(* How the bot follows the exchange's book over WebSocket sessions: the    *)
(* part of TradingBot::run_session that subscribes, receives frames,       *)
(* checks sid and seq, and updates the book (src/trading/trading_bot.cpp). *)
(*                                                                         *)
(* A session is a TLS connection, so frames arrive in order; but the       *)
(* exchange may skip a message it numbered, and a text frame may fail to   *)
(* decode.  Such messages are called missed.  Orders, fills' accounting    *)
(* and housekeeping do not touch this state: see OrderFlow and RunLoop.    *)
(***************************************************************************)
EXTENDS OrderBook

CONSTANTS InitialBook,   \* the exchange's book at the start
          Deltas,        \* the changes the exchange's book may undergo
          BadDelta,      \* a delta finer than the book can represent
          Sids,          \* subscription ids the exchange may assign
          FillSid,       \* the id of a fill subscription of its own
          FillSharesSid, \* whether fills are numbered with the book messages
          SeqModulus,    \* 2^32: _book_seq and Message::seq are uint32_t
          NoSid,         \* _book_sid without a value
          NoView,        \* see BookReplica
          MaxChanges,    \* bound: changes of the exchange's book
          MaxSeq,        \* bound: messages numbered in one subscription
          MaxMissed,     \* bound: missed messages
          MaxStream,     \* bound: frames in flight
          MaxFaults      \* bound: lost or closed connections, unusable data

\* A book the exchange may have: no negative quantity, none at 0 or at $1.00, and
\* its best prices.
ExchangeBook(b) ==
    /\ b \in Books
    /\ \A s \in Sides : /\ \A p \in 0 .. MaxPrice : b.levels[s][p] >= 0
                        /\ b.levels[s][0] = 0 /\ b.levels[s][MaxPrice] = 0
                        /\ b.best[s] < MaxPrice /\ IsTop(b.levels[s], b.best[s])

ASSUME BookFeedAssumption ==
    /\ ExchangeBook(InitialBook)
    /\ Deltas \subseteq [side : Sides, price : 1 .. MaxPrice - 1, qty : -MaxQty .. MaxQty]
    /\ ~PriceOK(BadDelta.price)
    /\ NoSid \notin Sids \union {FillSid}
    /\ FillSid \notin Sids
    /\ FillSharesSid \in BOOLEAN
    /\ SeqModulus \in Nat \ {0, 1}
    /\ MaxChanges \in Nat /\ MaxSeq \in Nat \ {0} /\ MaxMissed \in Nat
    /\ MaxStream \in Nat /\ MaxFaults \in Nat

VARIABLES
    \* the exchange and the network
    history,        \* the books the exchange has had
    xsid, xseq,     \* id of the current subscription, number of its last message
    stream,         \* frames sent and not yet received
    missed, faults,  \* how often the environment has failed so far
    \* the bot
    session,        \* "down" or "up": inside the loop of run_session
    book, book_sid, book_seq, received_data, g_running,
    at              \* history variable: which book the last applied message made

exchange == <<history, xsid, xseq, missed, faults>>
bot == <<session, book, book_sid, book_seq, received_data, g_running, at>>
vars == <<exchange, stream, bot>>

NoDelta == [side |-> "", price |-> 0, qty |-> 0]

\* Faulty variant: numbers are not reduced to 32 bits.
FrameWide(type, seq, ver, delta) ==
    [type |-> type, sid |-> xsid, seq |-> seq, ver |-> ver, delta |-> delta]

\* A frame, after decode_kalshi_message.  Its type is "garbled" when decoding
\* failed, and "ping" for every frame that is neither text nor close; ver is which
\* book of the history it makes, or which order it fills.
Frame(type, seq, ver, delta) ==
    [type |-> type, sid |-> xsid, seq |-> seq % SeqModulus, ver |-> ver, delta |-> delta]

\* A fill of a separate channel has a sid and numbers of its own.
FillFrame(order) ==
    IF FillSharesSid THEN Frame("fill", xseq + 1, order, NoDelta)
    ELSE [Frame("fill", 1, order, NoDelta) EXCEPT !.sid = FillSid]

\* The levels of a book as a snapshot lists them.
SnapshotOf(b) ==
    LET listed(s) == [p \in 1 .. MaxPrice - 1 |-> [price |-> p, qty |-> b.levels[s][p]]]
    IN  [yes |-> listed("yes"), no |-> listed("no")]

BadSnapshot == [yes |-> <<[price |-> BadDelta.price, qty |-> 1]>>, no |-> <<>>]

-----------------------------------------------------------------------------
(* The exchange and the network *)

\* A numbered message is delivered, or missed: skipped, or sent undecodable.
Emit(frame) ==
    /\ Len(stream) < MaxStream
    /\ \/ stream' = Append(stream, frame) /\ UNCHANGED missed
       \/ /\ missed < MaxMissed
          /\ missed' = missed + 1
          /\ stream' \in {stream, Append(stream, [frame EXCEPT !.type = "garbled"])}

\* The exchange's book changes and its subscriber, if any, is sent the delta.
ExchangeChange(d) ==
    LET now == history[Len(history)]
        new == AfterDelta(now, d)
    IN  /\ Len(history) <= MaxChanges
        /\ now.levels[d.side][d.price] + d.qty \in 0 .. MaxQty
        /\ history' = Append(history, new)
        /\ IF session = "up"
           THEN /\ xseq < MaxSeq
                /\ xseq' = xseq + 1
                /\ Emit(Frame("delta", xseq + 1, Len(history) + 1, d))
           ELSE UNCHANGED <<xseq, stream, missed>>
        /\ UNCHANGED <<xsid, faults, bot>>

\* An order of the bot fills, on a channel that may share the book's numbering.
ExchangeFill(order) ==
    /\ session = "up" /\ xseq < MaxSeq
    /\ xseq' = IF FillSharesSid THEN xseq + 1 ELSE xseq
    /\ Emit(FillFrame(order))
    /\ UNCHANGED <<history, xsid, faults, bot>>

\* A ping or a close, or data the book cannot represent.
ExchangeOther ==
    /\ session = "up" /\ Len(stream) < MaxStream /\ faults < MaxFaults
    /\ faults' = faults + 1
    /\ \/ \E type \in {"ping", "close"} : stream' = Append(stream, Frame(type, 0, 0, NoDelta))
          /\ UNCHANGED xseq
       \/ /\ xseq < MaxSeq
          /\ stream' \in {Append(stream, Frame("delta", xseq + 1, 0, BadDelta)),
                           Append(stream, Frame("bad_snapshot", xseq + 1, 0, NoDelta))}
          /\ xseq' = xseq + 1
    /\ UNCHANGED <<history, xsid, missed, bot>>

-----------------------------------------------------------------------------
(* The bot *)

\* Faulty variant: the id of the previous session is kept.
ResetBookKeepsSid ==
    book' = EmptyBook /\ received_data' = FALSE /\ UNCHANGED book_sid

\* A session starts without book and without subscription.
ResetBook ==
    book' = EmptyBook /\ book_sid' = NoSid /\ received_data' = FALSE

\* Connect, subscribe, and forget the previous session's book.  The exchange
\* answers with "subscribed" and a snapshot, numbered 1, which may be missed.
StartSession ==
    /\ session = "down" /\ g_running
    /\ session' = "up"
    /\ ResetBook
    /\ \E sid \in Sids :
          LET frame(type, seq, ver) == [Frame(type, seq, ver, NoDelta) EXCEPT !.sid = sid]
          IN  /\ xsid' = sid
              /\ \/ /\ stream' = <<frame("subscribed", 0, 0), frame("snapshot", 1, Len(history))>>
                    /\ UNCHANGED missed
                 \/ /\ missed < MaxMissed
                    /\ stream' = <<frame("subscribed", 0, 0), frame("garbled", 1, 0)>>
                    /\ missed' = missed + 1
    /\ xseq' = 1
    /\ UNCHANGED <<history, faults, book_seq, g_running, at>>

\* run_session returns and its WebSocket is destroyed.
EndSession == session' = "down" /\ stream' = <<>>

\* receive_frame fails: connection lost, receive timeout or malformed frame.
ReceiveFails ==
    /\ session = "up" /\ faults < MaxFaults
    /\ faults' = faults + 1
    /\ EndSession
    /\ UNCHANGED <<history, xsid, xseq, missed,
                   book, book_sid, book_seq, received_data, g_running, at>>

IsBookMessage(m) == m.type \in {"snapshot", "bad_snapshot", "delta"}

\* Faulty variants: only the id is compared; snapshots are checked as well.
IsGapBySid(m) ==
    m.type = "delta" /\ m.seq # 0 /\ (book_sid = NoSid \/ m.sid # book_sid)
IsGapForSnapshots(m) ==
    /\ IsBookMessage(m) /\ m.seq # 0
    /\ book_sid = NoSid \/ m.sid # book_sid \/ m.seq # (book_seq + 1) % SeqModulus

\* A delta that does not directly follow the last message of its subscription.
IsGap(m) ==
    /\ m.type = "delta" /\ m.seq # 0
    /\ book_sid = NoSid \/ m.sid # book_sid \/ m.seq # (book_seq + 1) % SeqModulus

\* What _book_sid and _book_seq become when m is not a gap.
TrackSeq(m) ==
    IF IsBookMessage(m) /\ m.seq # 0
    THEN book_sid' = m.sid /\ book_seq' = m.seq
    ELSE /\ book_seq' = IF book_sid # NoSid /\ m.sid = book_sid /\ m.seq # 0 THEN m.seq ELSE book_seq
         /\ UNCHANGED book_sid

\* apply_snapshot or apply_delta succeeded: the new book and what it reflects.
Applied(m, b) ==
    /\ book' = b
    /\ at' = m.ver
    /\ received_data' = (received_data \/ m.type = "snapshot")
    /\ stream' = Tail(stream)
    /\ UNCHANGED <<session, g_running>>

\* ... or failed: on_book_error stops the bot unless the book is out of sync.
BookError(m, b, kind) ==
    /\ book' = b
    /\ g_running' = (g_running /\ kind = "OutOfSync")
    /\ EndSession
    /\ UNCHANGED <<received_data, at>>

OnSnapshot(m) ==
    LET snap == IF m.type = "snapshot" THEN SnapshotOf(history[m.ver]) ELSE BadSnapshot
    IN  IF SnapshotOK(snap) THEN Applied(m, BookOf(snap))
        ELSE BookError(m, book, "Malformed")

OnDelta(m) ==
    IF ~DeltaOK(m.delta) THEN BookError(m, book, "Malformed")
    ELSE IF DeltaResult(book, m.delta) = "ok" THEN Applied(m, AfterDelta(book, m.delta))
    ELSE BookError(m, AfterDelta(book, m.delta), "OutOfSync")

\* The body of the loop for a decoded text frame.
OnMessage(m) ==
    IF IsGap(m)
    THEN EndSession /\ UNCHANGED <<book, book_sid, book_seq, received_data, g_running, at>>
    ELSE /\ TrackSeq(m)
         /\ CASE m.type \in {"snapshot", "bad_snapshot"} -> OnSnapshot(m)
              [] m.type = "delta" -> OnDelta(m)
              [] OTHER -> /\ stream' = Tail(stream)
                          /\ UNCHANGED <<session, book, received_data, g_running, at>>

\* One iteration of the loop.  Pings are answered and undecodable text is
\* skipped, which leaves this state alone.
HandleFrame ==
    /\ session = "up" /\ stream # <<>>
    /\ LET m == Head(stream)
       IN  CASE m.type \in {"ping", "garbled"} -> stream' = Tail(stream) /\ UNCHANGED bot
             [] m.type = "close" ->
                    EndSession /\ UNCHANGED <<book, book_sid, book_seq, received_data, g_running, at>>
             [] OTHER -> OnMessage(m)
    /\ UNCHANGED exchange

-----------------------------------------------------------------------------
Init ==
    /\ history = <<InitialBook>>
    /\ xsid = NoSid /\ xseq = 0
    /\ stream = <<>>
    /\ missed = 0 /\ faults = 0
    /\ session = "down"
    /\ book = EmptyBook
    /\ book_sid = NoSid /\ book_seq = 0
    /\ received_data = FALSE
    /\ g_running = TRUE
    /\ at = 1

Next ==
    \/ \E d \in Deltas : ExchangeChange(d)
    \/ ExchangeFill(0)
    \/ ExchangeOther
    \/ StartSession
    \/ ReceiveFails
    \/ HandleFrame

\* run() reconnects for as long as it is not stopped, and frames sent on a live
\* connection are received and handled.
Fairness == WF_vars(StartSession) /\ WF_vars(HandleFrame)

Spec == Init /\ [][Next]_vars /\ Fairness
-----------------------------------------------------------------------------
(* Properties *)

Frames == [type : {"subscribed", "snapshot", "bad_snapshot", "delta", "fill",
                   "garbled", "ping", "close"},
           sid : Sids \union {FillSid}, seq : 0 .. SeqModulus - 1, ver : Nat,
           delta : Deltas \union {BadDelta, NoDelta}]

\* Types of the variables; every number is a 32-bit number, and the history
\* variable points into the history.
TypeOK ==
    /\ history \in Seq(Books)
    /\ xsid \in Sids \union {NoSid} /\ xseq \in Nat
    /\ stream \in Seq(Frames)
    /\ missed \in 0 .. MaxMissed /\ faults \in 0 .. MaxFaults
    /\ session \in {"down", "up"}
    /\ book \in Books
    /\ book_sid \in Sids \union {NoSid} /\ book_seq \in 0 .. SeqModulus - 1
    /\ received_data \in BOOLEAN /\ g_running \in BOOLEAN
    /\ at \in DOMAIN history

HasView == session = "up" /\ received_data

\* The book the bot trades on is exactly the exchange's book as of the last book
\* message it applied: messages missed on the way were noticed as a gap in seq
\* before anything was applied on top of them (trading_bot.cpp:179-193).
InSync == HasView => book = history[at]

\* Until its snapshot has arrived a session has no book, even when deltas of the
\* new subscription arrive first: run_session resets _book and _book_sid
\* (trading_bot.cpp:151-152), so a number that happens to continue the previous
\* session's is still a gap.
NoBookWithoutSnapshot == session = "up" /\ ~received_data => book = EmptyBook

\* Sessions, numbering and resubscription implement the abstract replica: only
\* books the exchange had are shown, and never an older one than before.
Replica == INSTANCE BookReplica WITH view <- IF HasView THEN book ELSE NoView
ReplicaSpec == Replica!Spec

\* A session whose snapshot could not be decoded and whose book does not change.
Silent == session = "up" /\ ~received_data /\ \A i \in DOMAIN stream : ~IsBookMessage(stream[i])

\* After every gap, wrap of seq, undecodable message or lost connection the bot
\* resubscribes and shows a book again, unless malformed data stopped it
\* (trading_bot.cpp:105-114, 240-250).  An undecodable snapshot is skipped like any
\* other message (trading_bot.cpp:174), so the bot may also be left waiting in a
\* session without a book; the next delta ends that session.
Resyncs == g_running ~> (HasView \/ ~g_running \/ Silent)
=============================================================================
