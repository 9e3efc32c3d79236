--------------------------- MODULE BookFeedProofs ---------------------------
(***************************************************************************)
(* Proofs about BookFeed, for every book, set of deltas, number of frames  *)
(* in flight, failures and sessions: the book the bot shows is one the     *)
(* exchange had, and never an older one than before.                       *)
(*                                                                         *)
(* There are two reasons for that, and a proof for each.  If the book's    *)
(* messages have the numbers of a subscription to themselves, and are      *)
(* fewer than the numbers there are, a missed one leaves a gap.  If none   *)
(* is missed, numbers may be shared and may wrap.                          *)
(***************************************************************************)
EXTENDS BookFeed, OrderBookProofs

\* The module is long, and what is in scope costs the provers time.
USE SMTT(60), Z3T(60), ZenonT(60)

\* The bot can tell that a message was missed.
GapsShow == ~FillSharesSid /\ MaxSeq < SeqModulus

\* m makes a book of the exchange's; other frames have no such version.
Makes(m) == m.type \in {"snapshot", "delta"} /\ m.ver # 0

\* What m says of the exchange's books h is so, and is not older than book v.
Truthful(m, h, v) ==
    /\ m \in Frames /\ (IsBookMessage(m) => m.sid \in Sids)
    /\ m.type = "snapshot" => m.ver \in 1 .. Len(h)
    /\ m.type = "delta" =>
          \/ m.ver = 0 /\ m.delta = BadDelta
          \/ /\ m.ver \in 2 .. Len(h) /\ m.delta \in Deltas
             /\ h[m.ver] = AfterDelta(h[m.ver - 1], m.delta)
    /\ Makes(m) => v <= m.ver

\* The books of the exchange and the frames under way, in order.
Ordered ==
    /\ history \in Seq(Books) /\ \A v \in 1 .. Len(history) : ExchangeBook(history[v])
    /\ stream \in Seq(Frames) /\ \A i \in 1 .. Len(stream) : Truthful(stream[i], history, at)
    /\ \A i, j \in 1 .. Len(stream) :
          i < j /\ Makes(stream[i]) /\ Makes(stream[j]) => stream[i].ver < stream[j].ver
    /\ session \in {"down", "up"} /\ (session = "up" => xsid \in Sids)
    /\ session = "down" => stream = <<>>
    /\ xsid \in Sids \union {NoSid} /\ xseq \in Nat
    /\ missed \in 0 .. MaxMissed /\ faults \in 0 .. MaxFaults

\* The book of the bot.
Shown ==
    /\ book \in Books
    /\ book_sid \in Sids \union {NoSid} /\ book_seq \in 0 .. SeqModulus - 1
    /\ at \in 1 .. Len(history)
    /\ InSync /\ NoBookWithoutSnapshot

Flags == received_data \in BOOLEAN /\ g_running \in BOOLEAN

\* The message at hand is the one that follows what is shown, or is refused.
Ready ==
    LET m == Head(stream)
    IN  m.type = "delta" /\ m.ver # 0 /\ ~IsGap(m) => HasView /\ m.ver = at + 1

\* If gaps show: only the book's messages have its numbers, up to x, ...
NumberedFrame(m, x, h) ==
    /\ m.type = "fill" => m.sid = FillSid
    /\ m.type = "subscribed" => m.seq = 0
    /\ IsBookMessage(m) => m.seq \in 1 .. x
    /\ Makes(m) /\ m.seq = x => m.ver = Len(h)

\* ... and whatever has the number after seq makes the book after book v.
Continues(m, seq, v) == Makes(m) /\ m.seq = seq + 1 => m.ver = v + 1

Numbered ==
    /\ xseq <= MaxSeq
    /\ \A i \in 1 .. Len(stream) : NumberedFrame(stream[i], xseq, history)
    /\ \A i, j \in 1 .. Len(stream) :
          i < j /\ Makes(stream[i]) => Continues(stream[j], stream[i].seq, stream[i].ver)
    /\ session = "up" /\ ~received_data => book_sid = NoSid
    /\ HasView =>
          /\ book_seq <= xseq /\ (book_seq = xseq => at = Len(history))
          /\ \A i \in 1 .. Len(stream) : Continues(stream[i], book_seq, at)

\* Book v is made by one of the first n frames of s, or one of them will stop the bot.
Reached(s, v, n) ==
    \E i \in 1 .. n : \/ Makes(s[i]) /\ s[i].ver = v
                      \/ IsBookMessage(s[i]) /\ ~Makes(s[i])

\* If nothing is missed: the book a delta applies to is the one shown, or is made by
\* the frames ahead of it.
Chained ==
    /\ session = "up" =>
          (HasView /\ at = Len(history)) \/ Reached(stream, Len(history), Len(stream))
    /\ \A j \in 1 .. Len(stream) :
          stream[j].type = "delta" /\ stream[j].ver # 0 =>
             \/ HasView /\ at = stream[j].ver - 1
             \/ Reached(stream, stream[j].ver - 1, j - 1)

-----------------------------------------------------------------------------
(* Books *)

USE DEF Sides

\* A side has one top.
LEMMA TopUnique ==
    ASSUME NEW levels, NEW a \in 0 .. MaxPrice, NEW b \in 0 .. MaxPrice,
           IsTop(levels, a), IsTop(levels, b)
    PROVE  a = b
  <1>1. a # 0 => a <= b
    BY DEF IsTop
  <1>2. b # 0 => b <= a
    BY DEF IsTop
  <1>3. QED
    BY <1>1, <1>2, OrderBookAssumption

\* The levels a snapshot lists are the levels apply_snapshot makes of it.
LEMMA ListedLevels ==
    ASSUME NEW levels \in Levels, levels[0] = 0, levels[MaxPrice] = 0,
           NEW listed, listed = [p \in 1 .. MaxPrice - 1 |-> [price |-> p, qty |-> levels[p]]]
    PROVE  WellFormed(listed) /\ LevelsOf(listed) = levels
  <1> USE OrderBookAssumption
  <1>1. /\ DOMAIN listed = 1 .. MaxPrice - 1
        /\ \A i \in 1 .. MaxPrice - 1 : listed[i].price = i /\ listed[i].qty = levels[i]
    OBVIOUS
  <1>2. \A i \in 1 .. MaxPrice - 1 : levels[i] \in Int
    BY DEF Levels, Quantities
  <1>3. WellFormed(listed)
    BY <1>1, <1>2 DEF WellFormed, PriceOK, QtyOK
  <1>4. ASSUME NEW p \in 1 .. MaxPrice - 1
        PROVE  LastFor(listed, p) = {p}
    <2>1. p \in LastFor(listed, p)
      BY <1>1 DEF LastFor
    <2>2. \A i \in LastFor(listed, p) : i = p
      BY <1>1 DEF LastFor
    <2>3. QED
      BY <2>1, <2>2, Zenon
  <1>5. ASSUME NEW p \in {0, MaxPrice}
        PROVE  LastFor(listed, p) = {}
    <2>1. \A i \in 1 .. MaxPrice - 1 : listed[i].price # p
      BY <1>1
    <2>2. QED
      BY <1>1, <2>1, Zenon DEF LastFor
  <1>6. ASSUME NEW p \in 0 .. MaxPrice
        PROVE  LevelsOf(listed)[p] = levels[p]
    <2>1. CASE p \in 1 .. MaxPrice - 1
      <3>1. LastFor(listed, p) = {p} /\ (CHOOSE i \in {p} : TRUE) = p
        BY <1>4, <2>1, Zenon
      <3>2. LevelsOf(listed)[p] = listed[CHOOSE i \in {p} : TRUE].qty
        BY <3>1, Zenon DEF LevelsOf
      <3>3. QED
        BY <1>1, <2>1, <3>1, <3>2, Zenon
    <2>2. CASE p \in {0, MaxPrice}
      BY <1>5, <2>2, Zenon DEF LevelsOf
    <2>3. QED
      BY <2>1, <2>2
  <1>7. DOMAIN LevelsOf(listed) = 0 .. MaxPrice /\ LevelsOf(listed) = [p \in 0 .. MaxPrice |-> LevelsOf(listed)[p]]
    BY DEF LevelsOf
  <1>8. DOMAIN levels = 0 .. MaxPrice /\ levels = [p \in 0 .. MaxPrice |-> levels[p]]
    BY DEF Levels
  <1>9. LevelsOf(listed) = levels
    BY <1>6, <1>7, <1>8, ZenonT(60)
  <1>10. QED
    BY <1>3, <1>9

\* What apply_snapshot makes of a snapshot of a book is that book.
LEMMA SnapshotRoundTrip ==
    ASSUME NEW b, ExchangeBook(b)
    PROVE  SnapshotOK(SnapshotOf(b)) /\ BookOf(SnapshotOf(b)) = b
  <1>1. /\ b \in Books /\ b.levels \in [Sides -> Levels] /\ b.best \in [Sides -> 0 .. MaxPrice]
        /\ b = [levels |-> b.levels, best |-> b.best]
    BY DEF ExchangeBook, Books
  <1>2. ASSUME NEW s \in Sides
        PROVE  WellFormed(SnapshotOf(b)[s]) /\ LevelsOf(SnapshotOf(b)[s]) = b.levels[s]
    <2>1. SnapshotOf(b)[s] = [p \in 1 .. MaxPrice - 1 |-> [price |-> p, qty |-> b.levels[s][p]]]
      <3>1. CASE s = "yes"
        BY <3>1 DEF SnapshotOf
      <3>2. CASE s = "no"
        BY <3>2 DEF SnapshotOf
      <3>3. QED
        BY <3>1, <3>2
    <2>2. b.levels[s] \in Levels /\ b.levels[s][0] = 0 /\ b.levels[s][MaxPrice] = 0
      BY <1>1 DEF ExchangeBook
    <2>3. QED
      BY <2>1, <2>2, ListedLevels
  <1>3. ASSUME NEW s \in Sides
        PROVE  scan_best(b.levels[s], MaxPrice - 1) = b.best[s]
    <2>1. b.levels[s] \in Levels /\ b.best[s] \in 0 .. MaxPrice /\ IsTop(b.levels[s], b.best[s])
      BY <1>1 DEF ExchangeBook
    <2>2. QED
      BY <2>1, ScanIsTop, TopUnique
  <1>4. [s \in Sides |-> LevelsOf(SnapshotOf(b)[s])] = b.levels
    BY <1>1, <1>2
  <1>5. [s \in Sides |-> scan_best(b.levels[s], MaxPrice - 1)] = b.best
    BY <1>1, <1>3
  <1>6. BookOf(SnapshotOf(b)) = [levels |-> b.levels, best |-> b.best]
    BY <1>4, <1>5 DEF BookOf
  <1>7. QED
    BY <1>1, <1>2, <1>6 DEF SnapshotOK

\* The exchange's deltas can be represented.
LEMMA DeltasOK ==
    ASSUME NEW d \in Deltas
    PROVE  /\ d.price \in ParsedPrice /\ d.qty \in ParsedQty /\ DeltaOK(d)
           /\ d.side \in Sides /\ d.price \in 1 .. MaxPrice - 1
  <1>1. d \in [side : Sides, price : 1 .. MaxPrice - 1, qty : -MaxQty .. MaxQty]
    BY BookFeedAssumption
  <1>2. d.side \in Sides /\ d.price \in 1 .. MaxPrice - 1 /\ d.qty \in -MaxQty .. MaxQty
    BY <1>1
  <1>3. d.price # Unparsable /\ d.qty # Unparsable
    BY <1>2, OrderBookAssumption
  <1>4. DeltaOK(d)
    BY <1>2, <1>3, OrderBookAssumption DEF DeltaOK, PriceOK, QtyOK
  <1>5. d.price \in ParsedPrice /\ d.qty \in ParsedQty
    BY <1>2, OrderBookAssumption DEF ParsedPrice, ParsedQty
  <1>6. QED
    BY <1>2, <1>4, <1>5

\* A change of the exchange's book makes a book the exchange may have.
LEMMA ExchangeDelta ==
    ASSUME NEW b, ExchangeBook(b), NEW d \in Deltas,
           b.levels[d.side][d.price] + d.qty \in 0 .. MaxQty
    PROVE  ExchangeBook(AfterDelta(b, d))
  <1> USE OrderBookAssumption
  <1>1. /\ d.price \in ParsedPrice /\ d.qty \in ParsedQty /\ DeltaOK(d)
        /\ d.side \in Sides /\ d.price \in 1 .. MaxPrice - 1
    BY DeltasOK
  <1>2. b \in Books /\ \A s \in Sides : IsTop(b.levels[s], b.best[s])
    BY DEF ExchangeBook
  <1>3. /\ AfterDelta(b, d) \in Books
        /\ \A s \in Sides : IsTop(AfterDelta(b, d).levels[s], AfterDelta(b, d).best[s])
    BY <1>1, <1>2, DeltaBook
  <1>4. AfterDelta(b, d).best \in [Sides -> 0 .. MaxPrice] /\ b.levels \in [Sides -> Levels]
    BY <1>2, <1>3 DEF Books
  <1> DEFINE n == Clamp(RawLevel(b, d))
  <1>5. n \in Int /\ n >= 0
    BY <1>1, <1>2, DeltaLevel DEF Quantities
  <1>6. AfterDelta(b, d).levels = [b.levels EXCEPT ![d.side] = [b.levels[d.side] EXCEPT ![d.price] = n]]
    BY DEF AfterDelta
  <1> HIDE DEF n
  <1>7. ASSUME NEW s \in Sides, NEW p \in 0 .. MaxPrice
        PROVE  AfterDelta(b, d).levels[s][p] = IF s = d.side /\ p = d.price THEN n ELSE b.levels[s][p]
    BY <1>1, <1>4, <1>6 DEF Levels
  <1>8. ASSUME NEW s \in Sides
        PROVE  /\ \A p \in 0 .. MaxPrice : AfterDelta(b, d).levels[s][p] >= 0
               /\ AfterDelta(b, d).levels[s][0] = 0 /\ AfterDelta(b, d).levels[s][MaxPrice] = 0
    BY <1>1, <1>5, <1>7 DEF ExchangeBook
  <1>9. ASSUME NEW s \in Sides
        PROVE  AfterDelta(b, d).best[s] < MaxPrice
    BY <1>3, <1>4 DEF IsTop
  <1>10. QED
    BY <1>3, <1>8, <1>9 DEF ExchangeBook

-----------------------------------------------------------------------------
(* Frames *)

\* The frames in flight when one more is sent.
LEMMA AppendFrame ==
    ASSUME NEW S, NEW s \in Seq(S), NEW m \in S
    PROVE  /\ Append(s, m) \in Seq(S) /\ Len(Append(s, m)) = Len(s) + 1 /\ Len(s) \in Nat
           /\ \A i \in 1 .. Len(s) : Append(s, m)[i] = s[i]
           /\ Append(s, m)[Len(s) + 1] = m
  OBVIOUS

\* The types among Ordered.
LEMMA OrderedTypes ==
    ASSUME Ordered
    PROVE  /\ history \in Seq(Books) /\ Len(history) \in Nat /\ stream \in Seq(Frames)
           /\ session \in {"down", "up"} /\ (session = "up" => xsid \in Sids)
           /\ (session = "down" => stream = <<>>)
           /\ xsid \in Sids \union {NoSid} /\ xseq \in Nat
           /\ missed \in 0 .. MaxMissed /\ faults \in 0 .. MaxFaults
  <1>1. /\ history \in Seq(Books) /\ stream \in Seq(Frames)
        /\ session \in {"down", "up"} /\ (session = "up" => xsid \in Sids)
        /\ (session = "down" => stream = <<>>)
        /\ xsid \in Sids \union {NoSid} /\ xseq \in Nat
        /\ missed \in 0 .. MaxMissed /\ faults \in 0 .. MaxFaults
    BY Zenon DEF Ordered
  <1>2. QED
    BY <1>1

\* The frames in flight when one has been received.
LEMMA TailFrames ==
    ASSUME NEW S, NEW s \in Seq(S), s # <<>>
    PROVE  /\ Tail(s) \in Seq(S) /\ Len(s) \in Nat /\ Len(s) >= 1 /\ Len(Tail(s)) = Len(s) - 1
           /\ Head(s) = s[1] /\ s[1] \in S
           /\ \A i \in 1 .. Len(s) - 1 : Tail(s)[i] = s[i + 1]
  OBVIOUS

\* The fields of a frame of the current subscription.
LEMMA FrameType ==
    ASSUME xsid \in Sids, NEW seq \in Nat, NEW ver \in Nat,
           NEW type \in {"subscribed", "snapshot", "bad_snapshot", "delta", "fill", "garbled", "ping", "close"},
           NEW delta \in Deltas \union {BadDelta, NoDelta}
    PROVE  /\ Frame(type, seq, ver, delta) \in Frames
           /\ Frame(type, seq, ver, delta).type = type /\ Frame(type, seq, ver, delta).sid = xsid
           /\ Frame(type, seq, ver, delta).seq = seq % SeqModulus
           /\ Frame(type, seq, ver, delta).ver = ver /\ Frame(type, seq, ver, delta).delta = delta
  <1>1. seq % SeqModulus \in 0 .. SeqModulus - 1
    BY BookFeedAssumption
  <1>2. QED
    BY <1>1 DEF Frame, Frames

\* Garbling a frame leaves its other fields alone.
LEMMA GarbledFrame ==
    ASSUME NEW m \in Frames
    PROVE  LET g == [m EXCEPT !.type = "garbled"]
           IN  g \in Frames /\ g.type = "garbled" /\ g.sid = m.sid /\ g.seq = m.seq
  BY DEF Frames

\* A numbered message is sent as it is, sent garbled, or not sent.
LEMMA EmitEffect ==
    ASSUME missed \in 0 .. MaxMissed, NEW m \in Frames, Emit(m)
    PROVE  /\ missed' \in 0 .. MaxMissed
           /\ \/ stream' = Append(stream, m) /\ missed' = missed
              \/ missed < MaxMissed /\ stream' = stream
              \/ missed < MaxMissed /\ stream' = Append(stream, [m EXCEPT !.type = "garbled"])
  BY BookFeedAssumption DEF Emit

-----------------------------------------------------------------------------
(* Steps of the exchange *)

\* A frame is added to those in flight, or not.
LEMMA FrameAdded ==
    ASSUME Ordered, session = "up", session' = session, xsid' = xsid, xseq' \in Nat,
           missed' \in 0 .. MaxMissed, faults' \in 0 .. MaxFaults,
           history' \in Seq(Books), \A v \in 1 .. Len(history') : ExchangeBook(history'[v]),
           \A i \in 1 .. Len(stream) : Truthful(stream[i], history', at'),
           NEW m \in Frames, Truthful(m, history', at'),
           Makes(m) => \A i \in 1 .. Len(stream) : Makes(stream[i]) => stream[i].ver < m.ver,
           stream' = stream \/ stream' = Append(stream, m)
    PROVE  Ordered'
  <1>1. stream \in Seq(Frames)
    BY OrderedTypes
  <1>2. CASE stream' = stream
    BY <1>2 DEF Ordered
  <1>3. CASE stream' = Append(stream, m)
    <2>1. /\ stream' \in Seq(Frames) /\ Len(stream') = Len(stream) + 1 /\ Len(stream) \in Nat
          /\ \A i \in 1 .. Len(stream) : stream'[i] = stream[i]
          /\ stream'[Len(stream) + 1] = m
      BY <1>1, <1>3, AppendFrame
    <2>2. \A i \in 1 .. Len(stream') : Truthful(stream'[i], history', at')
      BY <2>1
    <2>3. ASSUME NEW i \in 1 .. Len(stream'), NEW j \in 1 .. Len(stream'),
                 i < j, Makes(stream'[i]), Makes(stream'[j])
          PROVE  stream'[i].ver < stream'[j].ver
      <3>1. i \in 1 .. Len(stream) /\ stream'[i] = stream[i]
        BY <2>1, <2>3
      <3>2. CASE j \in 1 .. Len(stream)
        BY <2>1, <2>3, <3>1, <3>2 DEF Ordered
      <3>3. CASE j = Len(stream) + 1
        BY <2>1, <2>3, <3>1, <3>3
      <3>4. QED
        BY <2>1, <3>2, <3>3
    <2>4. QED
      BY <2>1, <2>2, <2>3 DEF Ordered
  <1>4. QED
    BY <1>2, <1>3

\* The past does not change.
LEMMA HistoryGrows ==
    ASSUME NEW b \in Books, history \in Seq(Books), history' = Append(history, b)
    PROVE  /\ history' \in Seq(Books) /\ Len(history) \in Nat /\ Len(history') = Len(history) + 1
           /\ \A v \in 1 .. Len(history) : history'[v] = history[v]
           /\ history'[Len(history) + 1] = b
  BY AppendFrame

LEMMA TruthRemains ==
    ASSUME NEW m, Truthful(m, history, at), at' = at, history \in Seq(Books), Len(history') >= Len(history),
           Len(history) \in Nat, Len(history') \in Nat,
           \A v \in 1 .. Len(history) : history'[v] = history[v]
    PROVE  Truthful(m, history', at')
  <1>1. m \in Frames /\ (IsBookMessage(m) => m.sid \in Sids) /\ (Makes(m) => at <= m.ver)
    BY DEF Truthful
  <1>2. m.type = "snapshot" => m.ver \in 1 .. Len(history')
    BY DEF Truthful
  <1>3. ASSUME m.type = "delta", m.ver # 0
        PROVE  /\ m.ver \in 2 .. Len(history') /\ m.delta \in Deltas
               /\ history'[m.ver] = AfterDelta(history'[m.ver - 1], m.delta)
    <2>1. m.ver \in 2 .. Len(history) /\ m.delta \in Deltas
          /\ history[m.ver] = AfterDelta(history[m.ver - 1], m.delta)
      BY <1>3 DEF Truthful
    <2>2. history'[m.ver] = history[m.ver] /\ history'[m.ver - 1] = history[m.ver - 1]
      BY <2>1
    <2>3. QED
      BY <2>1, <2>2
  <1>4. m.type = "delta" /\ m.ver = 0 => m.delta = BadDelta
    BY DEF Truthful
  <1>5. QED
    BY <1>1, <1>2, <1>3, <1>4 DEF Truthful, Makes

\* What is shown stays, when only the exchange moves.
LEMMA ShownRemains ==
    ASSUME Shown, UNCHANGED bot, history \in Seq(Books), Len(history') >= Len(history),
           Len(history) \in Nat, Len(history') \in Nat,
           \A v \in 1 .. Len(history) : history'[v] = history[v]
    PROVE  Shown'
  <1>1. /\ book' = book /\ book_sid' = book_sid /\ book_seq' = book_seq /\ at' = at
        /\ session' = session /\ received_data' = received_data
    BY DEF bot
  <1>2. HasView' <=> HasView
    BY <1>1, Zenon DEF HasView
  <1>3. NoBookWithoutSnapshot'
    BY <1>1, Zenon DEF Shown, NoBookWithoutSnapshot
  <1>4. at \in 1 .. Len(history) /\ (HasView => book = history[at])
    BY DEF Shown, InSync
  <1>5. InSync'
    BY <1>1, <1>2, <1>4 DEF InSync
  <1>6. QED
    BY <1>1, <1>3, <1>4, <1>5 DEF Shown

\* What a change of the exchange's book does.
LEMMA ChangeEffect ==
    ASSUME NEW d, ExchangeChange(d)
    PROVE  /\ history[Len(history)].levels[d.side][d.price] + d.qty \in 0 .. MaxQty
           /\ history' = Append(history, AfterDelta(history[Len(history)], d))
           /\ xsid' = xsid /\ faults' = faults /\ UNCHANGED bot
           /\ session = "up" => /\ xseq < MaxSeq /\ xseq' = xseq + 1
                                /\ Emit(Frame("delta", xseq + 1, Len(history) + 1, d))
           /\ session # "up" => xseq' = xseq /\ stream' = stream /\ missed' = missed
  <1>1. /\ history[Len(history)].levels[d.side][d.price] + d.qty \in 0 .. MaxQty
        /\ history' = Append(history, AfterDelta(history[Len(history)], d))
        /\ UNCHANGED <<xsid, faults, bot>>
        /\ session = "up" => /\ xseq < MaxSeq /\ xseq' = xseq + 1
                             /\ Emit(Frame("delta", xseq + 1, Len(history) + 1, d))
        /\ session # "up" => UNCHANGED <<xseq, stream, missed>>
    BY Zenon DEF ExchangeChange
  <1>2. QED
    BY <1>1

LEMMA HistoryLonger ==
    ASSUME Ordered, NEW d, ExchangeChange(d)
    PROVE  Len(history') = Len(history) + 1 /\ Len(history) \in Nat
  <1> DEFINE new == AfterDelta(history[Len(history)], d)
  <1>1. history \in Seq(Books) /\ history' = Append(history, new)
    BY OrderedTypes, ChangeEffect
  <1> HIDE DEF new
  <1>2. QED
    BY <1>1

\* The exchange's book changes.
LEMMA ChangeStep ==
    ASSUME Ordered, Shown, NEW d \in Deltas, ExchangeChange(d)
    PROVE  Ordered' /\ Shown'
  <1> DEFINE now == history[Len(history)]
             new == AfterDelta(now, d)
             m == Frame("delta", xseq + 1, Len(history) + 1, d)
  <1>1. /\ history \in Seq(Books) /\ at \in 1 .. Len(history) /\ Len(history) \in Nat
        /\ ExchangeBook(now) /\ missed \in 0 .. MaxMissed /\ xseq \in Nat
    <2>1. history \in Seq(Books) /\ Len(history) \in Nat /\ at \in 1 .. Len(history)
      BY OrderedTypes DEF Shown
    <2>2. Len(history) \in 1 .. Len(history)
      BY <2>1
    <2>3. QED
      BY <2>1, <2>2 DEF Ordered
  <1>2. /\ now.levels[d.side][d.price] + d.qty \in 0 .. MaxQty
        /\ history' = Append(history, new)
        /\ xsid' = xsid /\ faults' = faults /\ UNCHANGED bot
    BY ChangeEffect
  <1>3. ExchangeBook(new) /\ new \in Books
    BY <1>1, <1>2, ExchangeDelta, ZenonT(60) DEF ExchangeBook
  <1> HIDE DEF new
  <1>4. /\ history' \in Seq(Books) /\ Len(history') = Len(history) + 1
        /\ \A v \in 1 .. Len(history) : history'[v] = history[v]
        /\ history'[Len(history) + 1] = new
    BY <1>1, <1>2, <1>3, HistoryGrows
  <1>5. session' = session /\ at' = at
    BY <1>2 DEF bot
  <1>6. Shown'
    BY <1>1, <1>2, <1>4, ShownRemains
  <1>7. \A v \in 1 .. Len(history') : ExchangeBook(history'[v])
    <2>1. ASSUME NEW v \in 1 .. Len(history')
          PROVE  ExchangeBook(history'[v])
      <3>1. CASE v \in 1 .. Len(history)
        BY <1>4, <3>1 DEF Ordered
      <3>2. CASE v = Len(history) + 1
        BY <1>3, <1>4, <3>2
      <3>3. QED
        BY <1>1, <1>4, <3>1, <3>2
    <2>2. QED
      BY <2>1
  <1>8. \A i \in 1 .. Len(stream) : Truthful(stream[i], history', at')
    BY <1>1, <1>4, <1>5, TruthRemains DEF Ordered
  <1>9. CASE session = "up"
    <2>1. xseq' = xseq + 1 /\ Emit(m) /\ xsid \in Sids
      BY <1>9, OrderedTypes, ChangeEffect
    <2>2. /\ m \in Frames /\ m.type = "delta" /\ m.ver = Len(history) + 1 /\ m.delta = d
          /\ m.sid \in Sids
      <3>1. xseq + 1 \in Nat /\ Len(history) + 1 \in Nat
        BY <1>1
      <3>2. QED
        BY <2>1, <3>1, FrameType
    <2> HIDE DEF m
    <2>3. Truthful(m, history', at')
      <3>1. history'[m.ver] = new /\ history'[m.ver - 1] = now
        BY <1>1, <1>4, <2>2
      <3>2. history'[m.ver] = AfterDelta(history'[m.ver - 1], m.delta)
        BY <2>2, <3>1 DEF new
      <3>3. m.ver \in 2 .. Len(history') /\ at' <= m.ver
        BY <1>1, <1>4, <1>5, <2>2
      <3>4. QED
        BY <2>2, <3>2, <3>3 DEF Truthful, Makes
    <2>4. ASSUME NEW i \in 1 .. Len(stream), Makes(stream[i])
          PROVE  stream[i].ver < m.ver
      <3>1. Truthful(stream[i], history, at)
        BY DEF Ordered
      <3>2. stream[i].ver \in 1 .. Len(history)
        BY <1>1, <2>4, <3>1 DEF Truthful, Makes
      <3>3. QED
        BY <1>1, <2>2, <3>2
    <2> DEFINE g == [m EXCEPT !.type = "garbled"]
    <2>5. g \in Frames /\ g.type = "garbled"
      BY <2>2, GarbledFrame
    <2> HIDE DEF g
    <2>6. Truthful(g, history', at') /\ ~Makes(g)
      BY <2>5 DEF Truthful, Makes, IsBookMessage
    <2>7. missed' \in 0 .. MaxMissed /\ (stream' = stream \/ stream' = Append(stream, m) \/ stream' = Append(stream, g))
      BY <1>1, <2>1, <2>2, EmitEffect DEF g
    <2>8. faults' \in 0 .. MaxFaults /\ xseq' \in Nat
      BY <1>1, <1>2, <2>1, OrderedTypes
    <2>9. Ordered'
      <3>1. CASE stream' = stream \/ stream' = Append(stream, m)
        BY <1>2, <1>4, <1>5, <1>7, <1>8, <1>9, <2>2, <2>3, <2>4, <2>7, <2>8, <3>1, FrameAdded, ZenonT(60)
      <3>2. CASE stream' = Append(stream, g)
        BY <1>2, <1>4, <1>5, <1>7, <1>8, <1>9, <2>5, <2>6, <2>7, <2>8, <3>2, FrameAdded, ZenonT(60)
      <3>3. QED
        BY <2>7, <3>1, <3>2
    <2>10. QED
      BY <1>6, <2>9
  <1>10. CASE session # "up"
    <2>1. stream' = stream /\ xseq' = xseq /\ missed' = missed
      BY <1>10, ChangeEffect
    <2>2. Ordered'
      BY <1>1, <1>2, <1>4, <1>5, <1>7, <1>8, <2>1 DEF Ordered
    <2>3. QED
      BY <1>6, <2>2
  <1>11. QED
    BY <1>9, <1>10

\* The frame of a fill.
LEMMA FillFields ==
    ASSUME xsid \in Sids, NEW seq \in Nat, NEW order \in Nat
    PROVE  /\ Frame("fill", seq, order, NoDelta) \in Frames
           /\ Frame("fill", seq, order, NoDelta).type = "fill"
           /\ Frame("fill", seq, order, NoDelta).ver = order
  <1>1. seq % SeqModulus \in 0 .. SeqModulus - 1
    BY BookFeedAssumption
  <1>2. Frame("fill", seq, order, NoDelta) =
            [type |-> "fill", sid |-> xsid, seq |-> seq % SeqModulus, ver |-> order, delta |-> NoDelta]
    BY Zenon DEF Frame
  <1>3. QED
    BY <1>1, <1>2 DEF Frames

LEMMA FillType ==
    ASSUME xsid \in Sids, xseq \in Nat, NEW order \in Nat
    PROVE  /\ FillFrame(order) \in Frames /\ FillFrame(order).type = "fill" /\ FillFrame(order).ver = order
           /\ ~FillSharesSid => FillFrame(order).sid = FillSid
  <1>1. xseq + 1 \in Nat /\ 1 \in Nat
    OBVIOUS
  <1>2. CASE FillSharesSid
    <2> DEFINE f == Frame("fill", xseq + 1, order, NoDelta)
    <2>1. f \in Frames /\ f.type = "fill" /\ f.ver = order
      BY <1>1, FillFields, Zenon
    <2>2. FillFrame(order) = f
      BY <1>2, Zenon DEF FillFrame
    <2> HIDE DEF f
    <2>3. QED
      BY <1>2, <2>1, <2>2, Zenon
  <1>3. CASE ~FillSharesSid
    <2> DEFINE f == Frame("fill", 1, order, NoDelta)
    <2>1. f \in Frames /\ f.type = "fill" /\ f.ver = order
      BY <1>1, FillFields, Zenon
    <2>2. FillFrame(order) = [f EXCEPT !.sid = FillSid]
      BY <1>3, Zenon DEF FillFrame
    <2> HIDE DEF f
    <2>3. QED
      BY <2>1, <2>2 DEF Frames
  <1>4. QED
    BY <1>2, <1>3

\* A frame that says nothing of the book is added.
LEMMA QuietFrameAdded ==
    ASSUME Ordered, Shown, session = "up", UNCHANGED bot, history' = history, xsid' = xsid, xseq' \in Nat,
           missed' \in 0 .. MaxMissed, faults' \in 0 .. MaxFaults,
           NEW m \in Frames, IsBookMessage(m) => m.sid \in Sids,
           m.type # "snapshot", m.type = "delta" => m.ver = 0 /\ m.delta = BadDelta,
           stream' = stream \/ stream' = Append(stream, m)
    PROVE  Ordered' /\ Shown'
  <1>1. history \in Seq(Books) /\ Len(history) \in Nat
    BY OrderedTypes
  <1>2. Shown'
    BY <1>1, ShownRemains
  <1>3. at' = at /\ session' = session
    BY DEF bot
  <1>4. Truthful(m, history', at') /\ ~Makes(m)
    BY DEF Truthful, Makes, IsBookMessage
  <1>5. \A i \in 1 .. Len(stream) : Truthful(stream[i], history', at')
    BY <1>3 DEF Ordered
  <1>6. history' \in Seq(Books) /\ \A v \in 1 .. Len(history') : ExchangeBook(history'[v])
    BY DEF Ordered
  <1>7. Ordered'
    BY <1>3, <1>4, <1>5, <1>6, FrameAdded
  <1>8. QED
    BY <1>2, <1>7

\* An order fills.
LEMMA FillStep ==
    ASSUME Ordered, Shown, NEW order \in Nat, ExchangeFill(order)
    PROVE  Ordered' /\ Shown'
  <1> DEFINE m == FillFrame(order)
             g == [m EXCEPT !.type = "garbled"]
  <1>1. /\ session = "up" /\ xsid \in Sids /\ xseq \in Nat
        /\ missed \in 0 .. MaxMissed /\ faults \in 0 .. MaxFaults
    BY OrderedTypes DEF ExchangeFill
  <1>2. /\ Emit(m) /\ history' = history /\ xsid' = xsid /\ faults' = faults /\ UNCHANGED bot
    BY DEF ExchangeFill
  <1>3. xseq' \in Nat
    BY <1>1 DEF ExchangeFill
  <1>4. m \in Frames /\ m.type = "fill"
    BY <1>1, FillType
  <1> HIDE DEF m
  <1>5. g \in Frames /\ g.type = "garbled"
    BY <1>4, GarbledFrame
  <1>6. missed' \in 0 .. MaxMissed /\ (stream' = stream \/ stream' = Append(stream, m) \/ stream' = Append(stream, g))
    BY <1>1, <1>2, <1>4, EmitEffect
  <1> HIDE DEF g
  <1>7. CASE stream' = stream \/ stream' = Append(stream, m)
    BY <1>1, <1>2, <1>3, <1>4, <1>6, <1>7, QuietFrameAdded DEF IsBookMessage
  <1>8. CASE stream' = Append(stream, g)
    BY <1>1, <1>2, <1>3, <1>5, <1>6, <1>8, QuietFrameAdded DEF IsBookMessage
  <1>9. QED
    BY <1>6, <1>7, <1>8

\* The frames of ExchangeOther.
LEMMA OtherFrame ==
    ASSUME Ordered, ExchangeOther
    PROVE  /\ session = "up" /\ xsid \in Sids /\ history' = history /\ xsid' = xsid /\ missed' = missed
           /\ UNCHANGED bot /\ xseq' \in Nat /\ faults' \in 0 .. MaxFaults
           /\ \E m \in Frames :
                 /\ stream' = Append(stream, m) /\ m.sid \in Sids
                 /\ \/ m.type \in {"ping", "close"} /\ xseq' = xseq
                    \/ /\ m.type \in {"delta", "bad_snapshot"} /\ m.ver = 0
                       /\ m.type = "delta" => m.delta = BadDelta
                       /\ m.seq = (xseq + 1) % SeqModulus
                       /\ xseq' = xseq + 1 /\ xseq < MaxSeq
  <1>1. /\ session = "up" /\ xsid \in Sids /\ history' = history /\ xsid' = xsid /\ missed' = missed
        /\ UNCHANGED bot /\ faults' \in 0 .. MaxFaults /\ xseq \in Nat
    BY BookFeedAssumption, OrderedTypes DEF ExchangeOther
  <1>2. xseq + 1 \in Nat /\ 0 \in Nat /\ {BadDelta, NoDelta} \subseteq Deltas \union {BadDelta, NoDelta}
    BY <1>1
  <1>3. CASE \E type \in {"ping", "close"} : stream' = Append(stream, Frame(type, 0, 0, NoDelta)) /\ UNCHANGED xseq
    <2>1. PICK type \in {"ping", "close"} : stream' = Append(stream, Frame(type, 0, 0, NoDelta)) /\ UNCHANGED xseq
      BY <1>3
    <2>2. Frame(type, 0, 0, NoDelta) \in Frames /\ Frame(type, 0, 0, NoDelta).type = type
          /\ Frame(type, 0, 0, NoDelta).sid \in Sids
      BY <1>1, <1>2, FrameType
    <2>3. QED
      BY <1>1, <2>1, <2>2
  <1>4. CASE stream' = Append(stream, Frame("delta", xseq + 1, 0, BadDelta)) /\ xseq' = xseq + 1 /\ xseq < MaxSeq
    <2> DEFINE m == Frame("delta", xseq + 1, 0, BadDelta)
    <2>1. m \in Frames /\ m.type = "delta" /\ m.ver = 0 /\ m.delta = BadDelta /\ m.seq = (xseq + 1) % SeqModulus
          /\ m.sid \in Sids
      BY <1>1, <1>2, FrameType
    <2> HIDE DEF m
    <2>2. QED
      BY <1>1, <1>4, <2>1 DEF m
  <1>5. CASE stream' = Append(stream, Frame("bad_snapshot", xseq + 1, 0, NoDelta)) /\ xseq' = xseq + 1 /\ xseq < MaxSeq
    <2> DEFINE m == Frame("bad_snapshot", xseq + 1, 0, NoDelta)
    <2>1. m \in Frames /\ m.type = "bad_snapshot" /\ m.ver = 0 /\ m.seq = (xseq + 1) % SeqModulus
          /\ m.sid \in Sids
      BY <1>1, <1>2, FrameType
    <2> HIDE DEF m
    <2>2. QED
      BY <1>1, <1>5, <2>1 DEF m
  <1>6. QED
    BY <1>3, <1>4, <1>5 DEF ExchangeOther

\* A ping, a close or unusable data.
LEMMA OtherStep ==
    ASSUME Ordered, Shown, ExchangeOther
    PROVE  Ordered' /\ Shown'
  <1>1. PICK m \in Frames :
            /\ stream' = Append(stream, m) /\ m.type \in {"ping", "close", "delta", "bad_snapshot"}
            /\ m.sid \in Sids
            /\ m.type = "delta" => m.ver = 0 /\ m.delta = BadDelta
    BY OtherFrame
  <1>2. missed' \in 0 .. MaxMissed
    BY OtherFrame, OrderedTypes
  <1>3. QED
    BY <1>1, <1>2, OtherFrame, QuietFrameAdded

-----------------------------------------------------------------------------
(* Steps of the bot *)

\* The frames of a new session: "subscribed" and the snapshot, or what is left of it.
LEMMA FirstFrames ==
    ASSUME Ordered, StartSession
    PROVE  /\ session = "down" /\ session' = "up" /\ ResetBook /\ xsid' \in Sids /\ xseq' = 1
           /\ history' = history /\ faults' = faults /\ book_seq' = book_seq /\ at' = at
           /\ g_running' = g_running /\ missed' \in 0 .. MaxMissed
           /\ \E m, n \in Frames :
                 /\ stream' = <<m, n>>
                 /\ m.type = "subscribed" /\ m.seq = 0
                 /\ \/ n.type = "snapshot" /\ n.sid \in Sids /\ n.seq = 1 /\ n.ver = Len(history)
                    \/ n.type = "garbled" /\ missed < MaxMissed
  <1>1. /\ session = "down" /\ session' = "up" /\ ResetBook /\ xseq' = 1
        /\ history' = history /\ faults' = faults /\ book_seq' = book_seq /\ at' = at
        /\ g_running' = g_running
    BY DEF StartSession
  <1>2. PICK sid \in Sids :
          LET frame(type, seq, ver) == [Frame(type, seq, ver, NoDelta) EXCEPT !.sid = sid]
          IN  /\ xsid' = sid
              /\ \/ /\ stream' = <<frame("subscribed", 0, 0), frame("snapshot", 1, Len(history))>>
                    /\ UNCHANGED missed
                 \/ /\ missed < MaxMissed
                    /\ stream' = <<frame("subscribed", 0, 0), frame("garbled", 1, 0)>>
                    /\ missed' = missed + 1
    BY DEF StartSession
  <1> DEFINE first == [Frame("subscribed", 0, 0, NoDelta) EXCEPT !.sid = sid]
             good == [Frame("snapshot", 1, Len(history), NoDelta) EXCEPT !.sid = sid]
             bad == [Frame("garbled", 1, 0, NoDelta) EXCEPT !.sid = sid]
  <1>3. /\ xsid' = sid
        /\ \/ stream' = <<first, good>> /\ missed' = missed
           \/ missed < MaxMissed /\ stream' = <<first, bad>> /\ missed' = missed + 1
    BY <1>2
  <1>4. missed' \in 0 .. MaxMissed
    BY <1>3, BookFeedAssumption, OrderedTypes
  <1>5. 0 % SeqModulus = 0 /\ 1 % SeqModulus = 1
    BY BookFeedAssumption
  <1>6. Len(history) \in Nat /\ SeqModulus \in Nat /\ SeqModulus > 1
    BY BookFeedAssumption, OrderedTypes
  <1>7. first \in Frames /\ first.type = "subscribed" /\ first.seq = 0
    BY <1>5, <1>6 DEF Frame, Frames
  <1>8. good \in Frames /\ good.type = "snapshot" /\ good.sid \in Sids /\ good.seq = 1 /\ good.ver = Len(history)
    BY <1>5, <1>6 DEF Frame, Frames
  <1>9. bad \in Frames /\ bad.type = "garbled"
    BY <1>5, <1>6 DEF Frame, Frames
  <1> HIDE DEF first, good, bad
  <1>10. CASE stream' = <<first, good>>
    BY <1>1, <1>3, <1>4, <1>7, <1>8, <1>10
  <1>11. CASE missed < MaxMissed /\ stream' = <<first, bad>>
    BY <1>1, <1>3, <1>4, <1>7, <1>9, <1>11
  <1>12. QED
    BY <1>3, <1>10, <1>11

\* A session begins.
LEMMA StartStep ==
    ASSUME Ordered, Shown, StartSession
    PROVE  Ordered' /\ Shown'
  <1>1. PICK m, n \in Frames :
            /\ stream' = <<m, n>>
            /\ m.type = "subscribed"
            /\ n.type = "garbled" \/ (n.type = "snapshot" /\ n.sid \in Sids /\ n.ver = Len(history))
    BY FirstFrames
  <1>2. /\ session' = "up" /\ xsid' \in Sids /\ xseq' = 1 /\ history' = history /\ faults' = faults
        /\ missed' \in 0 .. MaxMissed /\ at' = at /\ book_seq' = book_seq /\ ResetBook
    BY FirstFrames
  <1>3. /\ history \in Seq(Books) /\ at \in 1 .. Len(history) /\ Len(history) \in Nat
        /\ faults \in 0 .. MaxFaults /\ \A v \in 1 .. Len(history) : ExchangeBook(history[v])
        /\ book_seq \in 0 .. SeqModulus - 1
    BY DEF Ordered, Shown
  <1>4. stream' \in Seq(Frames) /\ Len(stream') = 2 /\ stream'[1] = m /\ stream'[2] = n
    BY <1>1
  <1>5. Truthful(m, history', at') /\ Truthful(n, history', at') /\ ~Makes(m)
    BY <1>1, <1>2, <1>3 DEF Truthful, Makes, IsBookMessage
  <1>6. \A i \in 1 .. Len(stream') : Truthful(stream'[i], history', at')
    BY <1>4, <1>5
  <1>7. \A i, j \in 1 .. Len(stream') : i < j => ~Makes(stream'[i])
    BY <1>4, <1>5
  <1>8. Ordered'
    BY <1>2, <1>3, <1>4, <1>6, <1>7 DEF Ordered
  <1>9. book' = EmptyBook /\ book_sid' = NoSid
    BY <1>2 DEF ResetBook
  <1>10. ~HasView'
    BY <1>2, Zenon DEF ResetBook, HasView
  <1>11. InSync' /\ NoBookWithoutSnapshot'
    BY <1>9, <1>10, Zenon DEF InSync, NoBookWithoutSnapshot
  <1>12. book' \in Books
    BY <1>9, EmptyBookOK
  <1>13. Shown'
    BY <1>2, <1>3, <1>9, <1>11, <1>12 DEF Shown
  <1>14. QED
    BY <1>8, <1>13

\* A session ends.
LEMMA EndStep ==
    ASSUME Ordered, Shown, EndSession, history' = history, xsid' = xsid, xseq' = xseq, missed' = missed,
           faults' \in 0 .. MaxFaults, at' = at, book' \in Books,
           book_sid' \in Sids \union {NoSid}, book_seq' \in 0 .. SeqModulus - 1
    PROVE  Ordered' /\ Shown'
  <1>1. session' = "down" /\ stream' = <<>>
    BY DEF EndSession
  <1>2. Ordered'
    BY <1>1 DEF Ordered
  <1>3. InSync' /\ NoBookWithoutSnapshot'
    BY <1>1 DEF InSync, HasView, NoBookWithoutSnapshot
  <1>4. Shown'
    BY <1>3 DEF Shown
  <1>5. QED
    BY <1>2, <1>4

LEMMA ReceiveFailsStep ==
    ASSUME Ordered, Shown, ReceiveFails
    PROVE  Ordered' /\ Shown'
  <1>1. faults' \in 0 .. MaxFaults
    BY BookFeedAssumption, OrderedTypes DEF ReceiveFails
  <1>2. /\ EndSession /\ history' = history /\ xsid' = xsid /\ xseq' = xseq /\ missed' = missed
        /\ at' = at /\ book' = book /\ book_sid' = book_sid /\ book_seq' = book_seq
    BY DEF ReceiveFails
  <1>3. QED
    BY <1>1, <1>2, EndStep DEF Shown

\* What handling a frame can do: pass it by ...
PassedBy(m) ==
    /\ ~IsBookMessage(m)
    /\ stream' = Tail(stream)
    /\ session' = session /\ book' = book /\ book_sid' = book_sid /\ received_data' = received_data
    /\ g_running' = g_running /\ at' = at
    /\ book_seq' \in {book_seq, m.seq}
    /\ book_seq' = book_seq \/ (m.type \in {"subscribed", "fill"} /\ m.sid = book_sid /\ m.seq # 0)

\* ... end the session ...
Ended(m) ==
    /\ EndSession /\ UNCHANGED at
    /\ book' \in Books /\ book_sid' \in Sids \union {NoSid} /\ book_seq' \in 0 .. SeqModulus - 1

\* ... or show the book it makes.
Followed(m) ==
    /\ Makes(m) /\ (m.type = "snapshot" \/ HasView) /\ ~IsGap(m)
    /\ stream' = Tail(stream)
    /\ session' = session /\ g_running' = g_running
    /\ book' = history[m.ver] /\ at' = m.ver /\ received_data' = TRUE
    /\ \/ m.seq # 0 /\ book_sid' = m.sid /\ book_seq' = m.seq
       \/ m.seq = 0 /\ book_sid' = book_sid /\ book_seq' = book_seq

\* A snapshot, if it can be represented, is shown.
LEMMA SnapshotHandled ==
    ASSUME NEW m \in Frames, Truthful(m, history, at), Ordered, Shown, OnMessage(m),
           m.type \in {"snapshot", "bad_snapshot"}
    PROVE  Ended(m) \/ Followed(m)
  <1>0. m.sid \in Sids /\ m.seq \in 0 .. SeqModulus - 1
    BY DEF Frames, Truthful, IsBookMessage
  <1>1. ~IsGap(m) /\ TrackSeq(m) /\ OnSnapshot(m)
    BY DEF OnMessage, IsGap
  <1>2. \/ m.seq # 0 /\ book_sid' = m.sid /\ book_seq' = m.seq
        \/ m.seq = 0 /\ book_sid' = book_sid /\ book_seq' = book_seq
    BY <1>1 DEF TrackSeq, IsBookMessage
  <1>3. book_sid' \in Sids \union {NoSid} /\ book_seq' \in 0 .. SeqModulus - 1
    BY <1>0, <1>2 DEF Shown
  <1>4. CASE m.type = "snapshot"
    <2>1. m.ver \in 1 .. Len(history) /\ ExchangeBook(history[m.ver])
      BY <1>4 DEF Truthful, Ordered
    <2>2. SnapshotOK(SnapshotOf(history[m.ver])) /\ BookOf(SnapshotOf(history[m.ver])) = history[m.ver]
      BY <2>1, SnapshotRoundTrip
    <2>3. Applied(m, history[m.ver])
      BY <1>1, <1>4, <2>2 DEF OnSnapshot
    <2>4. /\ book' = history[m.ver] /\ at' = m.ver /\ stream' = Tail(stream)
          /\ session' = session /\ g_running' = g_running
      BY <2>3, Zenon DEF Applied
    <2>5. received_data' = TRUE
      BY <1>4, <2>3, Zenon DEF Applied
    <2>6. Makes(m)
      BY <1>4, <2>1, OrderedTypes DEF Makes
    <2>7. QED
      BY <1>1, <1>2, <1>4, <2>4, <2>5, <2>6, ZenonT(60) DEF Followed
  <1>5. CASE m.type = "bad_snapshot"
    <2>1. ~SnapshotOK(BadSnapshot)
      <3>1. BadSnapshot["yes"] = <<[price |-> BadDelta.price, qty |-> 1]>>
        BY DEF BadSnapshot
      <3>2. 1 \in DOMAIN BadSnapshot["yes"] /\ BadSnapshot["yes"][1].price = BadDelta.price
        BY <3>1
      <3>3. ~WellFormed(BadSnapshot["yes"])
        BY <3>2, BookFeedAssumption DEF WellFormed
      <3>4. QED
        BY <3>3 DEF SnapshotOK
    <2>2. BookError(m, book, "Malformed")
      BY <1>1, <1>5, <2>1 DEF OnSnapshot
    <2>3. EndSession /\ at' = at /\ book' = book
      BY <2>2, Zenon DEF BookError
    <2>4. QED
      BY <1>3, <2>3 DEF Ended, Shown
  <1>6. QED
    BY <1>4, <1>5

\* A delta that is not refused makes the book it says it makes.
LEMMA DeltaHandled ==
    ASSUME NEW m \in Frames, Truthful(m, history, at), Ordered, Shown, OnMessage(m),
           m.type = "delta", m.ver # 0 /\ ~IsGap(m) => HasView /\ m.ver = at + 1
    PROVE  Ended(m) \/ Followed(m)
  <1>0. m.sid \in Sids /\ m.seq \in 0 .. SeqModulus - 1
    BY DEF Frames, Truthful, IsBookMessage
  <1>1. CASE IsGap(m)
    <2>1. EndSession /\ at' = at /\ book' = book /\ book_sid' = book_sid /\ book_seq' = book_seq
      BY <1>1 DEF OnMessage
    <2>2. QED
      BY <2>1 DEF Ended, Shown
  <1>2. CASE ~IsGap(m)
    <2>1. TrackSeq(m) /\ OnDelta(m)
      BY <1>2 DEF OnMessage
    <2>2. \/ m.seq # 0 /\ book_sid' = m.sid /\ book_seq' = m.seq
          \/ m.seq = 0 /\ book_sid' = book_sid /\ book_seq' = book_seq
      BY <2>1 DEF TrackSeq, IsBookMessage
    <2>3. book_sid' \in Sids \union {NoSid} /\ book_seq' \in 0 .. SeqModulus - 1
      BY <1>0, <2>2 DEF Shown
    <2>4. CASE m.ver = 0
      <3>1. ~DeltaOK(m.delta)
        BY <2>4, BookFeedAssumption DEF Truthful, DeltaOK
      <3>2. BookError(m, book, "Malformed")
        BY <2>1, <3>1 DEF OnDelta
      <3>3. EndSession /\ at' = at /\ book' = book
        BY <3>2, ZenonT(60) DEF BookError
      <3>4. QED
        BY <2>3, <3>3, ZenonT(60) DEF Ended, Shown
    <2>5. CASE m.ver # 0
      <3>1. HasView /\ m.ver = at + 1
        BY <1>2, <2>5
      <3>2. /\ m.delta \in Deltas /\ m.ver \in 2 .. Len(history)
            /\ history[m.ver] = AfterDelta(history[m.ver - 1], m.delta)
        BY <2>5 DEF Truthful
      <3>3. book = history[at] /\ at \in 1 .. Len(history) /\ ExchangeBook(book)
        BY <3>1 DEF Shown, InSync, Ordered
      <3>4. AfterDelta(book, m.delta) = history[m.ver]
        <4>1. m.ver - 1 = at
          BY <3>1, <3>3
        <4>2. QED
          BY <3>2, <3>3, <4>1
      <3>5. history[m.ver] \in Books
        BY <3>2, OrderedTypes DEF ExchangeBook
      <3>6. DeltaOK(m.delta)
        BY <3>2, DeltasOK
      <3>7. CASE DeltaResult(book, m.delta) = "ok"
        <4>1. Applied(m, history[m.ver])
          BY <2>1, <3>4, <3>6, <3>7 DEF OnDelta
        <4>2. /\ book' = history[m.ver] /\ at' = m.ver /\ stream' = Tail(stream)
              /\ session' = session /\ g_running' = g_running
          BY <4>1, Zenon DEF Applied
        <4>3. received_data' = TRUE
          BY <3>1, <4>1, Zenon DEF Applied, HasView
        <4>4. Makes(m)
          BY <2>5 DEF Makes
        <4>5. QED
          BY <1>2, <2>2, <3>1, <4>2, <4>3, <4>4, ZenonT(60) DEF Followed
      <3>8. CASE DeltaResult(book, m.delta) # "ok"
        <4>1. BookError(m, history[m.ver], "OutOfSync")
          BY <2>1, <3>4, <3>6, <3>8 DEF OnDelta
        <4>2. EndSession /\ at' = at /\ book' = history[m.ver]
          BY <4>1, Zenon DEF BookError
        <4>3. QED
          BY <2>3, <3>5, <4>2 DEF Ended
      <3>9. QED
        BY <3>7, <3>8
    <2>6. QED
      BY <2>4, <2>5
  <1>3. QED
    BY <1>1, <1>2

\* One iteration of the loop.
LEMMA Handled ==
    ASSUME Ordered, Shown, HandleFrame, Ready
    PROVE  LET m == Head(stream)
           IN  PassedBy(m) \/ Ended(m) \/ Followed(m)
  <1> DEFINE m == Head(stream)
  <1> SUFFICES PassedBy(m) \/ Ended(m) \/ Followed(m)
    OBVIOUS
  <1>1. stream # <<>> /\ stream \in Seq(Frames)
    BY OrderedTypes DEF HandleFrame
  <1>2. m = stream[1] /\ m \in Frames /\ 1 \in 1 .. Len(stream)
    BY <1>1, TailFrames
  <1>3. Truthful(m, history, at)
    BY <1>2 DEF Ordered
  <1>4. m.type = "delta" /\ m.ver # 0 /\ ~IsGap(m) => HasView /\ m.ver = at + 1
    BY DEF Ready
  <1>5. /\ m.type \in {"ping", "garbled"} => stream' = Tail(stream) /\ UNCHANGED bot
        /\ m.type = "close" =>
              EndSession /\ UNCHANGED <<book, book_sid, book_seq, received_data, g_running, at>>
        /\ m.type \notin {"ping", "garbled", "close"} => OnMessage(m)
    BY DEF HandleFrame
  <1> HIDE DEF m
  <1>6. CASE m.type \in {"ping", "garbled"}
    <2>1. ~IsBookMessage(m)
      BY <1>6 DEF IsBookMessage
    <2>2. /\ stream' = Tail(stream) /\ session' = session /\ book' = book /\ book_sid' = book_sid
          /\ received_data' = received_data /\ g_running' = g_running /\ at' = at /\ book_seq' = book_seq
      BY <1>5, <1>6 DEF bot
    <2>3. QED
      BY <2>1, <2>2, Zenon DEF PassedBy
  <1>7. CASE m.type = "close"
    BY <1>5, <1>7 DEF Ended, Shown
  <1>8. CASE m.type \in {"snapshot", "bad_snapshot"}
    BY <1>2, <1>3, <1>5, <1>8, SnapshotHandled, ZenonT(60)
  <1>9. CASE m.type = "delta"
    BY <1>2, <1>3, <1>4, <1>5, <1>9, DeltaHandled
  <1>10. CASE m.type \in {"subscribed", "fill"}
    <2>1. OnMessage(m) /\ ~IsGap(m) /\ ~IsBookMessage(m)
      BY <1>5, <1>10 DEF IsGap, IsBookMessage
    <2>2. /\ TrackSeq(m) /\ stream' = Tail(stream) /\ session' = session /\ book' = book
          /\ received_data' = received_data /\ g_running' = g_running /\ at' = at
      BY <1>10, <2>1 DEF OnMessage
    <2>3. /\ book_sid' = book_sid /\ book_seq' \in {book_seq, m.seq}
          /\ book_seq' = book_seq \/ (m.sid = book_sid /\ m.seq # 0)
      BY <2>1, <2>2 DEF TrackSeq
    <2>4. QED
      BY <1>10, <2>1, <2>2, <2>3, Zenon DEF PassedBy
  <1>11. QED
    BY <1>2, <1>6, <1>7, <1>8, <1>9, <1>10 DEF Frames, m

LEMMA HandleStep ==
    ASSUME Ordered, Shown, HandleFrame, Ready
    PROVE  Ordered' /\ Shown'
  <1> DEFINE m == Head(stream)
  <1>1. PassedBy(m) \/ Ended(m) \/ Followed(m)
    BY Handled
  <1>2. stream # <<>> /\ stream \in Seq(Frames) /\ session = "up"
    BY OrderedTypes DEF HandleFrame
  <1>3. /\ Len(stream) \in Nat /\ Len(stream) >= 1 /\ m = stream[1] /\ m \in Frames
        /\ Tail(stream) \in Seq(Frames) /\ Len(Tail(stream)) = Len(stream) - 1
        /\ \A i \in 1 .. Len(stream) - 1 : Tail(stream)[i] = stream[i + 1]
    BY <1>2, TailFrames
  <1> HIDE DEF m
  <1>4. /\ history' = history /\ xsid' = xsid /\ xseq' = xseq /\ missed' = missed /\ faults' = faults
    BY DEF HandleFrame, exchange
  <1>5. ASSUME stream' = Tail(stream), session' = session,
               at' = at \/ (Makes(m) /\ at' = m.ver)
        PROVE  Ordered'
    <2>1. ASSUME NEW i \in 1 .. Len(stream')
          PROVE  Truthful(stream'[i], history', at')
      <3>1. i + 1 \in 1 .. Len(stream) /\ stream'[i] = stream[i + 1] /\ 1 \in 1 .. Len(stream) /\ 1 < i + 1
        BY <1>3, <1>5
      <3>2. Truthful(stream[i + 1], history, at)
        BY <3>1 DEF Ordered
      <3>3. Makes(m) /\ Makes(stream[i + 1]) => m.ver < stream[i + 1].ver
        BY <1>3, <3>1, ZenonT(60) DEF Ordered
      <3>4. m.ver \in Nat /\ stream[i + 1].ver \in Nat
        BY <1>3, <3>2 DEF Frames, Truthful
      <3>5. QED
        BY <1>4, <1>5, <3>1, <3>2, <3>3, <3>4 DEF Truthful
    <2>2. ASSUME NEW i \in 1 .. Len(stream'), NEW j \in 1 .. Len(stream'),
                 i < j, Makes(stream'[i]), Makes(stream'[j])
          PROVE  stream'[i].ver < stream'[j].ver
      <3>1. /\ i + 1 \in 1 .. Len(stream) /\ j + 1 \in 1 .. Len(stream) /\ i + 1 < j + 1
            /\ stream'[i] = stream[i + 1] /\ stream'[j] = stream[j + 1]
        BY <1>3, <1>5, <2>2
      <3>2. QED
        BY <2>2, <3>1 DEF Ordered
    <2>3. QED
      BY <1>2, <1>3, <1>4, <1>5, <2>1, <2>2, ZenonT(60) DEF Ordered
  <1>6. CASE PassedBy(m)
    <2>1. /\ stream' = Tail(stream) /\ session' = session /\ at' = at /\ book' = book
          /\ book_sid' = book_sid /\ book_seq' \in {book_seq, m.seq}
      BY <1>6 DEF PassedBy
    <2>2. Ordered'
      BY <1>5, <2>1
    <2>3. InSync' /\ NoBookWithoutSnapshot'
      BY <1>4, <1>6, Zenon DEF PassedBy, Shown, InSync, NoBookWithoutSnapshot, HasView
    <2>4. m.seq \in 0 .. SeqModulus - 1
      BY <1>3 DEF Frames
    <2>5. Shown'
      BY <1>4, <2>1, <2>3, <2>4 DEF Shown
    <2>6. QED
      BY <2>2, <2>5
  <1>7. CASE Ended(m)
    <2>1. faults' \in 0 .. MaxFaults
      BY <1>4, OrderedTypes, ZenonT(60)
    <2>2. QED
      BY <1>4, <1>7, <2>1, EndStep DEF Ended
  <1>8. CASE Followed(m)
    <2>1. /\ Makes(m) /\ stream' = Tail(stream) /\ session' = session /\ at' = m.ver
          /\ book' = history[m.ver]
          /\ \/ book_sid' = m.sid /\ book_seq' = m.seq
             \/ book_sid' = book_sid /\ book_seq' = book_seq
      BY <1>8 DEF Followed
    <2>2. Ordered'
      BY <1>5, <2>1
    <2>3. HasView'
      BY <1>2, <1>8, ZenonT(60) DEF Followed, HasView
    <2>4. InSync'
      BY <1>4, <2>1 DEF InSync
    <2>5. NoBookWithoutSnapshot'
      BY <2>3, ZenonT(60) DEF NoBookWithoutSnapshot, HasView
    <2>6. Truthful(m, history, at)
      BY <1>3 DEF Ordered
    <2>7. m.ver \in 1 .. Len(history)
      BY <2>1, <2>6, OrderedTypes DEF Truthful, Makes
    <2>8. m.sid \in Sids /\ m.seq \in 0 .. SeqModulus - 1
      BY <1>3, <2>1, <2>6 DEF Truthful, Makes, IsBookMessage, Frames
    <2>9. book' \in Books
      BY <2>1, <2>7, OrderedTypes DEF ExchangeBook
    <2>10. Shown'
      BY <1>4, <2>1, <2>4, <2>5, <2>7, <2>8, <2>9 DEF Shown
    <2>11. QED
      BY <2>2, <2>10
  <1>9. QED
    BY <1>1, <1>6, <1>7, <1>8

\* The initial state.
LEMMA InitBoth ==
    ASSUME Init
    PROVE  Ordered /\ Shown
  <1> USE BookFeedAssumption DEF Init
  <1>1. InitialBook \in Books
    BY DEF ExchangeBook
  <1>2. history \in Seq(Books) /\ Len(history) = 1 /\ history[1] = InitialBook
    BY <1>1
  <1>3. Ordered
    BY <1>2 DEF Ordered
  <1>4. EmptyBook \in Books
    BY EmptyBookOK
  <1>5. Shown
    BY <1>2, <1>4 DEF Shown, InSync, NoBookWithoutSnapshot, HasView
  <1>6. QED
    BY <1>3, <1>5

-----------------------------------------------------------------------------
(* If gaps show *)

\* Remainders of numbers up to the modulus.
LEMMA Remainder ==
    ASSUME NEW k \in Nat \ {0}
    PROVE  k % k = 0 /\ \A n \in 0 .. k - 1 : n % k = n
  OBVIOUS

\* A delta that is not refused has the number after the one shown.
LEMMA NumberedReady ==
    ASSUME GapsShow, Ordered, Shown, Flags, Numbered, HandleFrame
    PROVE  Ready
  <1> DEFINE m == Head(stream)
  <1> SUFFICES ASSUME m.type = "delta", m.ver # 0, ~IsGap(m)
               PROVE  HasView /\ m.ver = at + 1
    BY DEF Ready
  <1>1. session = "up" /\ stream # <<>> /\ stream \in Seq(Frames)
    BY OrderedTypes DEF HandleFrame
  <1>2. m = stream[1] /\ 1 \in 1 .. Len(stream) /\ m \in Frames
    BY <1>1, TailFrames
  <1> HIDE DEF m
  <1>3. Makes(m) /\ IsBookMessage(m)
    BY ZenonT(60) DEF Makes, IsBookMessage
  <1>4. m.seq \in 1 .. xseq /\ xseq \in Nat /\ xseq < SeqModulus
    BY <1>2, <1>3, BookFeedAssumption, OrderedTypes DEF Numbered, NumberedFrame, GapsShow
  <1>5. book_sid # NoSid /\ m.seq = (book_seq + 1) % SeqModulus
    BY <1>4 DEF IsGap
  <1>6. HasView
    <2>1. ~(session = "up" /\ ~received_data)
      BY <1>5, Zenon DEF Numbered
    <2>2. QED
      BY <1>1, <2>1, Zenon DEF HasView
  <1>7. book_seq \in 0 .. SeqModulus - 1 /\ book_seq <= xseq /\ SeqModulus \in Nat
    BY <1>6, BookFeedAssumption, Zenon DEF Numbered, Shown
  <1>8. (book_seq + 1) % SeqModulus = book_seq + 1
    <2>1. book_seq + 1 # SeqModulus
      BY <1>4, <1>5, <1>7, Remainder
    <2>2. book_seq + 1 \in 0 .. SeqModulus - 1
      BY <1>7, <2>1
    <2>3. QED
      BY <1>7, <2>2, Remainder
  <1>9. QED
    BY <1>2, <1>3, <1>5, <1>6, <1>8 DEF Numbered, Continues

\* Nothing is under way, and nothing is shown.
LEMMA NumberedDown ==
    ASSUME stream' = <<>>, session' # "up", xseq' <= MaxSeq
    PROVE  Numbered'
  <1>1. ~HasView'
    BY Zenon DEF HasView
  <1>2. ~(session' = "up" /\ ~received_data')
    BY Zenon
  <1>3. 1 .. Len(stream') = {}
    OBVIOUS
  <1>4. QED
    BY <1>1, <1>2, <1>3, Zenon DEF Numbered

\* A frame without a number of the book's is added.
LEMMA NumberedQuiet ==
    ASSUME Ordered, Numbered, UNCHANGED bot, history' = history, xseq' = xseq,
           NEW m \in Frames, ~IsBookMessage(m), m.type # "subscribed", m.type = "fill" => m.sid = FillSid,
           stream' = stream \/ stream' = Append(stream, m)
    PROVE  Numbered'
  <1>1. /\ session' = session /\ received_data' = received_data /\ book_sid' = book_sid
        /\ book_seq' = book_seq /\ at' = at
    BY DEF bot
  <1>2. /\ HasView' <=> HasView
        /\ session' = "up" /\ ~received_data' => book_sid' = NoSid
    BY <1>1, Zenon DEF HasView, Numbered
  <1>3. ~Makes(m) /\ NumberedFrame(m, xseq, history)
    BY DEF NumberedFrame, Makes, IsBookMessage
  <1>4. CASE stream' = stream
    BY <1>1, <1>2, <1>4, ZenonT(60) DEF Numbered
  <1>5. CASE stream' = Append(stream, m)
    <2>1. /\ Len(stream') = Len(stream) + 1 /\ Len(stream) \in Nat
          /\ \A i \in 1 .. Len(stream) : stream'[i] = stream[i]
          /\ stream'[Len(stream) + 1] = m
      BY <1>5, AppendFrame, OrderedTypes
    <2>2. ASSUME NEW i \in 1 .. Len(stream')
          PROVE  /\ NumberedFrame(stream'[i], xseq', history')
                 /\ (i \in 1 .. Len(stream) /\ stream'[i] = stream[i]) \/ ~Makes(stream'[i])
      <3>1. CASE i \in 1 .. Len(stream)
        BY <2>1, <3>1 DEF Numbered
      <3>2. CASE i = Len(stream) + 1
        BY <1>3, <2>1, <3>2, ZenonT(60)
      <3>3. QED
        BY <2>1, <3>1, <3>2
    <2>3. ASSUME NEW i \in 1 .. Len(stream'), NEW j \in 1 .. Len(stream'), i < j, Makes(stream'[i])
          PROVE  Continues(stream'[j], stream'[i].seq, stream'[i].ver)
      BY <2>2, <2>3 DEF Numbered, Continues
    <2>4. ASSUME HasView, NEW i \in 1 .. Len(stream')
          PROVE  Continues(stream'[i], book_seq, at)
      BY <2>2, <2>4 DEF Numbered, Continues
    <2>5. QED
      BY <1>1, <1>2, <2>2, <2>3, <2>4 DEF Numbered
  <1>6. QED
    BY <1>4, <1>5

\* The next number is used, for a frame that is sent or missed.
LEMMA NumberedNext ==
    ASSUME Ordered, Shown, Numbered, UNCHANGED bot, xseq < MaxSeq, xseq' = xseq + 1,
           Len(history') \in {Len(history), Len(history) + 1},
           NEW m \in Frames, m.type \in {"delta", "bad_snapshot", "garbled"},
           IsBookMessage(m) => m.seq = xseq + 1,
           Makes(m) => m.ver = Len(history) + 1 /\ Len(history') = Len(history) + 1,
           stream' = stream \/ stream' = Append(stream, m)
    PROVE  Numbered'
  <1>0. xseq \in Nat /\ MaxSeq \in Nat /\ xseq' \in Nat /\ xseq' <= MaxSeq /\ Len(history) \in Nat
    BY BookFeedAssumption, OrderedTypes
  <1>1. /\ session' = session /\ received_data' = received_data /\ book_sid' = book_sid
        /\ book_seq' = book_seq /\ at' = at
    BY DEF bot
  <1>2. /\ HasView' <=> HasView
        /\ session' = "up" /\ ~received_data' => book_sid' = NoSid
    BY <1>1, Zenon DEF HasView, Numbered
  <1>3. NumberedFrame(m, xseq', history')
    BY <1>0 DEF NumberedFrame, Makes, IsBookMessage
  <1>4. ASSUME NEW i \in 1 .. Len(stream)
        PROVE  NumberedFrame(stream[i], xseq', history')
    <2>1. NumberedFrame(stream[i], xseq, history)
      BY DEF Numbered
    <2>2. Makes(stream[i]) => IsBookMessage(stream[i])
      BY DEF Makes, IsBookMessage
    <2>3. QED
      BY <1>0, <2>1, <2>2 DEF NumberedFrame
  <1>5. ASSUME NEW i \in 1 .. Len(stream), Makes(stream[i])
        PROVE  Continues(m, stream[i].seq, stream[i].ver)
    <2>1. NumberedFrame(stream[i], xseq, history) /\ IsBookMessage(stream[i])
      BY <1>5, Zenon DEF Numbered, Makes, IsBookMessage
    <2>2. stream[i].seq \in 1 .. xseq
      BY <2>1 DEF NumberedFrame
    <2>3. Makes(m) => m.seq = xseq + 1
      BY DEF Makes, IsBookMessage
    <2>4. QED
      BY <1>0, <1>5, <2>1, <2>2, <2>3 DEF NumberedFrame, Continues
  <1>6. ASSUME HasView
        PROVE  /\ book_seq' <= xseq' /\ book_seq' # xseq'
               /\ Continues(m, book_seq, at)
    <2>1. book_seq <= xseq /\ (book_seq = xseq => at = Len(history)) /\ book_seq \in Int
      BY <1>6, BookFeedAssumption DEF Numbered, Shown
    <2>2. Makes(m) => m.seq = xseq + 1
      BY Zenon DEF Makes, IsBookMessage
    <2>3. book_seq' <= xseq' /\ book_seq' # xseq'
      BY <1>0, <1>1, <2>1
    <2>4. Continues(m, book_seq, at)
      BY <1>0, <2>1, <2>2 DEF Continues
    <2>5. QED
      BY <2>3, <2>4, ZenonT(60)
  <1>7. CASE stream' = stream
    BY <1>0, <1>1, <1>2, <1>4, <1>6, <1>7, ZenonT(60) DEF Numbered
  <1>8. CASE stream' = Append(stream, m)
    <2>1. /\ Len(stream') = Len(stream) + 1 /\ Len(stream) \in Nat
          /\ \A i \in 1 .. Len(stream) : stream'[i] = stream[i]
          /\ stream'[Len(stream) + 1] = m
      BY <1>8, AppendFrame, OrderedTypes
    <2>2. ASSUME NEW i \in 1 .. Len(stream')
          PROVE  NumberedFrame(stream'[i], xseq', history')
      BY <1>3, <1>4, <2>1
    <2>3. ASSUME NEW i \in 1 .. Len(stream'), NEW j \in 1 .. Len(stream'), i < j, Makes(stream'[i])
          PROVE  Continues(stream'[j], stream'[i].seq, stream'[i].ver)
      <3>1. i \in 1 .. Len(stream) /\ stream'[i] = stream[i]
        BY <2>1, <2>3
      <3>2. CASE j \in 1 .. Len(stream)
        BY <2>1, <2>3, <3>1, <3>2, Zenon DEF Numbered
      <3>3. CASE j = Len(stream) + 1
        BY <1>5, <2>1, <2>3, <3>1, <3>3, ZenonT(60)
      <3>4. QED
        BY <2>1, <3>2, <3>3
    <2>4. ASSUME HasView, NEW i \in 1 .. Len(stream')
          PROVE  Continues(stream'[i], book_seq, at)
      <3>1. CASE i \in 1 .. Len(stream)
        BY <2>1, <2>4, <3>1, ZenonT(60) DEF Numbered
      <3>2. CASE i = Len(stream) + 1
        BY <1>6, <2>1, <2>4, <3>2
      <3>3. QED
        BY <2>1, <3>1, <3>2
    <2>5. QED
      BY <1>0, <1>1, <1>2, <1>6, <2>2, <2>3, <2>4, ZenonT(60) DEF Numbered
  <1>9. QED
    BY <1>7, <1>8

LEMMA NumberedChange ==
    ASSUME GapsShow, Ordered, Shown, Numbered, NEW d \in Deltas, ExchangeChange(d)
    PROVE  Numbered'
  <1> DEFINE m == Frame("delta", xseq + 1, Len(history) + 1, d)
             g == [m EXCEPT !.type = "garbled"]
  <1>1. /\ UNCHANGED bot /\ Len(history') = Len(history) + 1 /\ xseq \in Nat /\ Len(history) \in Nat
        /\ missed \in 0 .. MaxMissed /\ session \in {"down", "up"}
    BY HistoryLonger, OrderedTypes, ChangeEffect
  <1>2. CASE session = "up"
    <2>1. xsid \in Sids /\ xseq < MaxSeq /\ xseq' = xseq + 1 /\ Emit(m)
      BY <1>2, OrderedTypes, ChangeEffect
    <2>2. /\ m \in Frames /\ m.type = "delta" /\ m.ver = Len(history) + 1
          /\ m.seq = (xseq + 1) % SeqModulus
      <3>1. xseq + 1 \in Nat /\ Len(history) + 1 \in Nat
        BY <1>1
      <3>2. QED
        BY <2>1, <3>1, FrameType
    <2>3. m.seq = xseq + 1
      BY <1>1, <2>1, <2>2, BookFeedAssumption DEF GapsShow
    <2> HIDE DEF m
    <2>4. g \in Frames /\ g.type = "garbled"
      BY <2>2, GarbledFrame
    <2>5. stream' = stream \/ stream' = Append(stream, m) \/ stream' = Append(stream, g)
      BY <1>1, <2>1, <2>2, EmitEffect
    <2> HIDE DEF g
    <2>6. ~IsBookMessage(g) /\ ~Makes(g)
      BY <2>4 DEF IsBookMessage, Makes
    <2>7. CASE stream' = stream \/ stream' = Append(stream, m)
      BY <1>1, <2>1, <2>2, <2>3, <2>7, NumberedNext
    <2>8. CASE stream' = Append(stream, g)
      BY <1>1, <2>1, <2>4, <2>6, <2>8, NumberedNext
    <2>9. QED
      BY <2>5, <2>7, <2>8
  <1>3. CASE session = "down"
    <2>1. stream' = <<>> /\ xseq' = xseq /\ session' = "down"
      BY <1>1, <1>3, OrderedTypes, ChangeEffect, ZenonT(60) DEF bot
    <2>2. xseq' <= MaxSeq
      BY <2>1 DEF Numbered
    <2>3. QED
      BY <2>1, <2>2, NumberedDown, Zenon
  <1>4. QED
    BY <1>1, <1>2, <1>3, ZenonT(60)

LEMMA NumberedFill ==
    ASSUME GapsShow, Ordered, Shown, Numbered, NEW order \in Nat, ExchangeFill(order)
    PROVE  Numbered'
  <1> DEFINE m == FillFrame(order)
             g == [m EXCEPT !.type = "garbled"]
  <1>1. /\ UNCHANGED bot /\ history' = history /\ xseq' = xseq /\ missed \in 0 .. MaxMissed
        /\ xsid \in Sids /\ xseq \in Nat /\ Emit(m)
    BY OrderedTypes DEF ExchangeFill, GapsShow
  <1>2. m \in Frames /\ m.type = "fill" /\ m.sid = FillSid
    BY <1>1, FillType DEF GapsShow
  <1> HIDE DEF m
  <1>3. g \in Frames /\ g.type = "garbled"
    BY <1>2, GarbledFrame
  <1>4. stream' = stream \/ stream' = Append(stream, m) \/ stream' = Append(stream, g)
    BY <1>1, <1>2, EmitEffect
  <1> HIDE DEF g
  <1>5. ~IsBookMessage(g) /\ ~IsBookMessage(m)
    BY <1>2, <1>3 DEF IsBookMessage
  <1>6. CASE stream' = stream \/ stream' = Append(stream, m)
    BY <1>1, <1>2, <1>5, <1>6, NumberedQuiet
  <1>7. CASE stream' = Append(stream, g)
    BY <1>1, <1>3, <1>5, <1>7, NumberedQuiet
  <1>8. QED
    BY <1>4, <1>6, <1>7

LEMMA NumberedOther ==
    ASSUME GapsShow, Ordered, Shown, Numbered, ExchangeOther
    PROVE  Numbered'
  <1>1. PICK m \in Frames :
            /\ stream' = Append(stream, m)
            /\ \/ m.type \in {"ping", "close"} /\ xseq' = xseq
               \/ /\ m.type \in {"delta", "bad_snapshot"} /\ m.ver = 0
                  /\ m.seq = (xseq + 1) % SeqModulus
                  /\ xseq' = xseq + 1 /\ xseq < MaxSeq
    BY OtherFrame
  <1>2. UNCHANGED bot /\ history' = history
    BY OtherFrame
  <1>3. CASE m.type \in {"ping", "close"} /\ xseq' = xseq
    <2>1. ~IsBookMessage(m)
      BY <1>3 DEF IsBookMessage
    <2>2. QED
      BY <1>1, <1>2, <1>3, <2>1, NumberedQuiet
  <1>4. CASE /\ m.type \in {"delta", "bad_snapshot"} /\ m.ver = 0
             /\ m.seq = (xseq + 1) % SeqModulus
             /\ xseq' = xseq + 1 /\ xseq < MaxSeq
    <2>1. ~Makes(m)
      BY <1>4 DEF Makes
    <2>2. m.seq = xseq + 1
      <3>1. SeqModulus \in Nat \ {0} /\ xseq + 1 \in 0 .. SeqModulus - 1
        BY <1>4, BookFeedAssumption, OrderedTypes DEF GapsShow
      <3>2. QED
        BY <1>4, <3>1, Remainder
    <2>3. QED
      BY <1>1, <1>2, <1>4, <2>1, <2>2, NumberedNext
  <1>5. QED
    BY <1>1, <1>3, <1>4

LEMMA NumberedStart ==
    ASSUME Ordered, StartSession
    PROVE  Numbered'
  <1>1. PICK m, n \in Frames :
            /\ stream' = <<m, n>>
            /\ m.type = "subscribed" /\ m.seq = 0
            /\ \/ n.type = "snapshot" /\ n.seq = 1 /\ n.ver = Len(history)
               \/ n.type = "garbled"
    BY FirstFrames
  <1>2. xseq' = 1 /\ history' = history /\ ResetBook /\ MaxSeq \in Nat \ {0} /\ Len(history) \in Nat
    BY FirstFrames, BookFeedAssumption, OrderedTypes
  <1>3. ~HasView' /\ book_sid' = NoSid
    BY <1>2, Zenon DEF ResetBook, HasView
  <1>4. Len(stream') = 2 /\ stream'[1] = m /\ stream'[2] = n
    BY <1>1
  <1>5. NumberedFrame(m, xseq', history') /\ NumberedFrame(n, xseq', history') /\ ~Makes(m)
    BY <1>1, <1>2 DEF NumberedFrame, Makes, IsBookMessage
  <1>6. \A i, j \in 1 .. Len(stream') : i < j => ~Makes(stream'[i])
    BY <1>4, <1>5
  <1>7. \A i \in 1 .. Len(stream') : NumberedFrame(stream'[i], xseq', history')
    BY <1>4, <1>5
  <1>8. xseq' <= MaxSeq
    BY <1>2
  <1>9. QED
    BY <1>3, <1>6, <1>7, <1>8, Zenon DEF Numbered

LEMMA NumberedHandle ==
    ASSUME GapsShow, Ordered, Shown, Flags, Numbered, HandleFrame
    PROVE  Numbered'
  <1> DEFINE m == Head(stream)
  <1>1. PassedBy(m) \/ Ended(m) \/ Followed(m)
    BY Handled, NumberedReady
  <1>2. stream # <<>> /\ stream \in Seq(Frames) /\ session = "up"
    BY OrderedTypes DEF HandleFrame
  <1>3. /\ Len(stream) \in Nat /\ Len(stream) >= 1 /\ m = stream[1] /\ m \in Frames
        /\ Len(Tail(stream)) = Len(stream) - 1
        /\ \A i \in 1 .. Len(stream) - 1 : Tail(stream)[i] = stream[i + 1]
    BY <1>2, TailFrames
  <1> HIDE DEF m
  <1>4. history' = history /\ xseq' = xseq /\ NumberedFrame(m, xseq, history)
    BY <1>3 DEF HandleFrame, exchange, Numbered
  <1>5. ASSUME stream' = Tail(stream)
        PROVE  /\ \A i \in 1 .. Len(stream') : NumberedFrame(stream'[i], xseq', history')
               /\ \A i, j \in 1 .. Len(stream') :
                     i < j /\ Makes(stream'[i]) => Continues(stream'[j], stream'[i].seq, stream'[i].ver)
               /\ \A i \in 1 .. Len(stream') : i + 1 \in 1 .. Len(stream) /\ stream'[i] = stream[i + 1]
    <2>1. \A i \in 1 .. Len(stream') : i + 1 \in 1 .. Len(stream) /\ stream'[i] = stream[i + 1]
      BY <1>3, <1>5
    <2>2. \A i \in 1 .. Len(stream') : NumberedFrame(stream'[i], xseq', history')
      BY <1>4, <2>1 DEF Numbered
    <2>3. ASSUME NEW i \in 1 .. Len(stream'), NEW j \in 1 .. Len(stream'), i < j, Makes(stream'[i])
          PROVE  Continues(stream'[j], stream'[i].seq, stream'[i].ver)
      <3>1. i + 1 < j + 1
        BY <2>3, <1>3, <1>5
      <3>2. QED
        BY <2>1, <2>3, <3>1 DEF Numbered
    <2>4. QED
      BY <2>1, <2>2, <2>3
  <1>6. CASE PassedBy(m)
    <2>1. /\ stream' = Tail(stream) /\ at' = at /\ session' = session /\ received_data' = received_data
          /\ book_sid' = book_sid
      BY <1>6 DEF PassedBy
    <2>2. book_seq' = book_seq
      <3>1. m.type = "fill" => m.sid # book_sid
        BY <1>4, BookFeedAssumption, Zenon DEF NumberedFrame, Shown
      <3>2. m.type = "subscribed" => m.seq = 0
        BY <1>4 DEF NumberedFrame
      <3>3. QED
        BY <1>6, <3>1, <3>2 DEF PassedBy
    <2>3. /\ HasView' <=> HasView
          /\ session' = "up" /\ ~received_data' => book_sid' = NoSid
      BY <2>1, Zenon DEF HasView, Numbered
    <2>4. ASSUME HasView, NEW i \in 1 .. Len(stream')
          PROVE  Continues(stream'[i], book_seq', at')
      BY <1>5, <2>1, <2>2, <2>4, ZenonT(60) DEF Numbered
    <2>5. QED
      BY <1>4, <1>5, <2>1, <2>2, <2>3, <2>4 DEF Numbered
  <1>7. CASE Ended(m)
    <2>1. stream' = <<>> /\ session' = "down" /\ xseq' <= MaxSeq
      BY <1>4, <1>7 DEF Ended, EndSession, Numbered
    <2>2. QED
      BY <2>1, NumberedDown
  <1>8. CASE Followed(m)
    <2>1. Makes(m) /\ IsBookMessage(m) /\ stream' = Tail(stream) /\ at' = m.ver
      BY <1>8 DEF Followed, Makes, IsBookMessage
    <2>2. m.seq \in 1 .. xseq /\ (m.seq = xseq => m.ver = Len(history)) /\ xseq \in Nat
      BY <1>4, <2>1, OrderedTypes DEF NumberedFrame
    <2>3. book_seq' = m.seq
      BY <1>8, <2>2 DEF Followed
    <2>4. ~(session' = "up" /\ ~received_data')
      BY <1>8, ZenonT(60) DEF Followed
    <2>5. ASSUME NEW i \in 1 .. Len(stream')
          PROVE  Continues(stream'[i], book_seq', at')
      <3>1. i + 1 \in 1 .. Len(stream) /\ stream'[i] = stream[i + 1] /\ 1 < i + 1 /\ 1 \in 1 .. Len(stream)
        BY <1>3, <1>5, <2>1
      <3>2. QED
        BY <1>3, <2>1, <2>3, <3>1 DEF Numbered
    <2>6. book_seq' <= xseq' /\ (book_seq' = xseq' => at' = Len(history')) /\ xseq' <= MaxSeq
      BY <1>4, <2>1, <2>2, <2>3 DEF Numbered
    <2>7. QED
      BY <1>5, <2>1, <2>4, <2>5, <2>6, ZenonT(60) DEF Numbered
  <1>9. QED
    BY <1>1, <1>6, <1>7, <1>8

-----------------------------------------------------------------------------
(* If nothing is missed *)

\* The first delta applies to the book shown.
LEMMA ChainedReady ==
    ASSUME Ordered, Chained, HandleFrame
    PROVE  Ready
  <1> DEFINE m == Head(stream)
  <1> SUFFICES ASSUME m.type = "delta", m.ver # 0
               PROVE  HasView /\ m.ver = at + 1
    BY DEF Ready
  <1>1. session = "up" /\ stream # <<>> /\ stream \in Seq(Frames)
    BY OrderedTypes DEF HandleFrame
  <1>2. m = stream[1] /\ 1 \in 1 .. Len(stream) /\ m \in Frames
    BY <1>1, TailFrames
  <1> HIDE DEF m
  <1>2a. m.ver \in Nat
    BY <1>2 DEF Frames
  <1>3. ~Reached(stream, m.ver - 1, 1 - 1)
    <2>1. 1 .. 1 - 1 = {}
      OBVIOUS
    <2>2. QED
      BY <2>1, Zenon DEF Reached
  <1>4. HasView /\ at = m.ver - 1
    BY <1>2, <1>3 DEF Chained
  <1>5. QED
    BY <1>2a, <1>4

\* Without a session nothing is under way.
LEMMA ChainedDown ==
    ASSUME stream' = <<>>, session' # "up"
    PROVE  Chained'
  <1>1. 1 .. Len(stream') = {}
    OBVIOUS
  <1>2. QED
    BY <1>1, Zenon DEF Chained

\* A frame is added, which makes the exchange's last book if that has changed.
LEMMA ChainedAdded ==
    ASSUME Ordered, Chained, session = "up", UNCHANGED bot,
           NEW m \in Frames, stream' = Append(stream, m),
           \/ Len(history') = Len(history) /\ (m.type = "delta" => m.ver = 0)
           \/ Len(history') = Len(history) + 1 /\ m.type = "delta" /\ m.ver = Len(history')
    PROVE  Chained'
  <1>1. session' = session /\ received_data' = received_data /\ at' = at
    BY DEF bot
  <1>2. HasView' <=> HasView
    BY <1>1, ZenonT(60) DEF HasView
  <1>3. /\ Len(stream') = Len(stream) + 1 /\ Len(stream) \in Nat /\ Len(history) \in Nat
        /\ \A i \in 1 .. Len(stream) : stream'[i] = stream[i]
        /\ stream'[Len(stream) + 1] = m
    BY AppendFrame, OrderedTypes
  <1>4. ASSUME NEW v, NEW n \in 0 .. Len(stream), Reached(stream, v, n)
        PROVE  Reached(stream', v, n)
    <2>1. PICK i \in 1 .. n : (Makes(stream[i]) /\ stream[i].ver = v)
                              \/ (IsBookMessage(stream[i]) /\ ~Makes(stream[i]))
      BY <1>4 DEF Reached
    <2>2. stream'[i] = stream[i]
      BY <1>3
    <2>3. QED
      BY <2>1, <2>2 DEF Reached
  <1>5. (HasView' /\ at' = Len(history')) \/ Reached(stream', Len(history'), Len(stream'))
    <2>1. CASE Len(history') = Len(history)
      <3>1. CASE HasView /\ at = Len(history)
        BY <1>1, <1>2, <2>1, <3>1, ZenonT(60)
      <3>2. CASE Reached(stream, Len(history), Len(stream))
        <4>1. Reached(stream', Len(history), Len(stream))
          BY <1>3, <1>4, <3>2
        <4>2. QED
          BY <1>3, <2>1, <4>1 DEF Reached
      <3>3. QED
        BY <3>1, <3>2 DEF Chained
    <2>2. CASE Len(history') = Len(history) + 1 /\ m.type = "delta" /\ m.ver = Len(history')
      <3>1. Makes(m) /\ Len(stream') \in 1 .. Len(stream') /\ stream'[Len(stream')] = m
        BY <1>3, <2>2 DEF Makes
      <3>2. QED
        BY <2>2, <3>1 DEF Reached
    <2>3. QED
      BY <2>1, <2>2
  <1>6. ASSUME NEW j \in 1 .. Len(stream'), stream'[j].type = "delta", stream'[j].ver # 0
        PROVE  \/ HasView' /\ at' = stream'[j].ver - 1
               \/ Reached(stream', stream'[j].ver - 1, j - 1)
    <2>1. CASE j \in 1 .. Len(stream)
      <3>1. stream'[j] = stream[j] /\ j - 1 \in 0 .. Len(stream)
        BY <1>3, <2>1
      <3>2. (HasView /\ at = stream[j].ver - 1) \/ Reached(stream, stream[j].ver - 1, j - 1)
        BY <1>6, <2>1, <3>1 DEF Chained
      <3>3. QED
        BY <1>1, <1>2, <1>4, <3>1, <3>2, ZenonT(60)
    <2>2. CASE j = Len(stream) + 1
      <3>1. stream'[j] = m /\ m.ver - 1 = Len(history) /\ j - 1 = Len(stream)
        BY <1>3, <1>6, <2>2
      <3>2. (HasView /\ at = Len(history)) \/ Reached(stream, Len(history), Len(stream))
        BY DEF Chained
      <3>3. QED
        BY <1>1, <1>2, <1>3, <1>4, <3>1, <3>2
    <2>3. QED
      BY <1>3, <2>1, <2>2
  <1>7. QED
    BY <1>5, <1>6 DEF Chained

LEMMA ChainedExchange ==
    ASSUME MaxMissed = 0, Ordered, Chained,
           \/ \E d \in Deltas : ExchangeChange(d)
           \/ \E order \in Nat : ExchangeFill(order)
           \/ ExchangeOther
    PROVE  Chained'
  <1>1. /\ xseq \in Nat /\ Len(history) \in Nat /\ missed \in 0 .. MaxMissed /\ ~(missed < MaxMissed)
        /\ session \in {"up", "down"} /\ (session = "up" => xsid \in Sids)
        /\ (session = "down" => stream = <<>>)
    BY OrderedTypes
  <1>2. ASSUME NEW d \in Deltas, ExchangeChange(d)
        PROVE  Chained'
    <2> DEFINE m == Frame("delta", xseq + 1, Len(history) + 1, d)
    <2>1. UNCHANGED bot /\ Len(history') = Len(history) + 1
      BY <1>2, HistoryLonger, ChangeEffect
    <2>2. CASE session = "up"
      <3>1. Emit(m) /\ xseq + 1 \in Nat /\ Len(history) + 1 \in Nat
        BY <1>1, <1>2, <2>2, ChangeEffect
      <3>2. m \in Frames /\ m.type = "delta" /\ m.ver = Len(history) + 1
        BY <1>1, <2>2, <3>1, FrameType
      <3> HIDE DEF m
      <3>3. stream' = Append(stream, m)
        BY <1>1, <3>1, <3>2, EmitEffect
      <3>4. QED
        BY <2>1, <2>2, <3>2, <3>3, ChainedAdded, ZenonT(60)
    <2>3. CASE session = "down"
      <3>1. stream' = <<>> /\ session' = "down"
        BY <1>1, <1>2, <2>1, <2>3, ChangeEffect DEF bot
      <3>2. QED
        BY <3>1, ChainedDown, ZenonT(60)
    <2>4. QED
      BY <1>1, <2>2, <2>3, ZenonT(60)
  <1>3. ASSUME NEW order \in Nat, ExchangeFill(order)
        PROVE  Chained'
    <2> DEFINE m == FillFrame(order)
    <2>1. UNCHANGED bot /\ history' = history /\ session = "up" /\ Emit(m)
      BY <1>3 DEF ExchangeFill
    <2>2. m \in Frames /\ m.type = "fill"
      BY <1>1, <2>1, FillType
    <2> HIDE DEF m
    <2>3. stream' = Append(stream, m)
      BY <1>1, <2>1, <2>2, EmitEffect
    <2>4. QED
      BY <2>1, <2>2, <2>3, ChainedAdded
  <1>4. ASSUME ExchangeOther
        PROVE  Chained'
    <2>1. PICK m \in Frames : stream' = Append(stream, m) /\ (m.type = "delta" => m.ver = 0)
      BY <1>4, OtherFrame
    <2>2. UNCHANGED bot /\ history' = history /\ session = "up"
      BY <1>4, OtherFrame
    <2>3. QED
      BY <2>1, <2>2, ChainedAdded
  <1>5. QED
    BY <1>2, <1>3, <1>4

LEMMA ChainedStart ==
    ASSUME MaxMissed = 0, Ordered, StartSession
    PROVE  Chained'
  <1>1. PICK m, n \in Frames :
            /\ stream' = <<m, n>> /\ m.type = "subscribed"
            /\ n.type = "snapshot" /\ n.ver = Len(history)
    BY FirstFrames, OrderedTypes
  <1>2. history' = history /\ Len(history) \in Nat
    BY FirstFrames, OrderedTypes
  <1>3. Len(stream') = 2 /\ stream'[1] = m /\ stream'[2] = n
    BY <1>1
  <1>4. Reached(stream', Len(history'), Len(stream'))
    BY <1>1, <1>2, <1>3 DEF Reached, Makes, IsBookMessage
  <1>5. \A j \in 1 .. Len(stream') : stream'[j].type # "delta"
    BY <1>1, <1>3
  <1>6. QED
    BY <1>4, <1>5 DEF Chained

LEMMA ChainedHandle ==
    ASSUME Ordered, Shown, Chained, HandleFrame
    PROVE  Chained'
  <1> DEFINE m == Head(stream)
  <1>1. PassedBy(m) \/ Ended(m) \/ Followed(m)
    BY Handled, ChainedReady
  <1>2. stream # <<>> /\ stream \in Seq(Frames) /\ session = "up"
    BY OrderedTypes DEF HandleFrame
  <1>3. /\ Len(stream) \in Nat /\ Len(stream) >= 1 /\ m = stream[1] /\ m \in Frames
        /\ Len(Tail(stream)) = Len(stream) - 1
        /\ \A i \in 1 .. Len(stream) - 1 : Tail(stream)[i] = stream[i + 1]
    BY <1>2, TailFrames
  <1> HIDE DEF m
  <1>4. history' = history /\ at \in Nat /\ Len(history) \in Nat
    BY DEF HandleFrame, exchange, Shown, Ordered
  \* What the frames make, the rest of them does, unless the first one does.
  <1>5. ASSUME stream' = Tail(stream), ~IsBookMessage(m) \/ Makes(m),
               NEW v, NEW n \in 1 .. Len(stream), Reached(stream, v, n)
        PROVE  (Makes(m) /\ m.ver = v) \/ Reached(stream', v, n - 1)
    <2>1. PICK i \in 1 .. n : (Makes(stream[i]) /\ stream[i].ver = v)
                              \/ (IsBookMessage(stream[i]) /\ ~Makes(stream[i]))
      BY <1>5 DEF Reached
    <2>2. CASE i = 1
      BY <1>3, <1>5, <2>1, <2>2
    <2>3. CASE i # 1
      <3>1. i - 1 \in 1 .. n - 1 /\ i - 1 \in 1 .. Len(stream) - 1 /\ (i - 1) + 1 = i
        BY <2>3
      <3>2. stream'[i - 1] = stream[i]
        BY <1>3, <1>5, <3>1
      <3>3. QED
        BY <2>1, <3>1, <3>2 DEF Reached
    <2>4. QED
      BY <2>2, <2>3
  <1>6. ASSUME stream' = Tail(stream), NEW j \in 1 .. Len(stream')
        PROVE  /\ j + 1 \in 1 .. Len(stream) /\ stream'[j] = stream[j + 1] /\ (j + 1) - 1 = j
               /\ j \in 1 .. Len(stream) /\ 1 < j + 1
    BY <1>3, <1>6
  <1>7. CASE PassedBy(m)
    <2>1. /\ stream' = Tail(stream) /\ at' = at /\ session' = session /\ received_data' = received_data
          /\ ~IsBookMessage(m) /\ ~Makes(m)
      BY <1>7 DEF PassedBy, Makes, IsBookMessage
    <2>2. HasView' <=> HasView
      BY <2>1, Zenon DEF HasView
    <2>3. (HasView' /\ at' = Len(history')) \/ Reached(stream', Len(history'), Len(stream'))
      <3>1. Len(stream) \in 1 .. Len(stream) /\ Len(stream') = Len(stream) - 1
        BY <1>3, <2>1
      <3>2. (HasView /\ at = Len(history)) \/ Reached(stream, Len(history), Len(stream))
        BY <1>2 DEF Chained
      <3>3. QED
        BY <1>4, <1>5, <2>1, <2>2, <3>1, <3>2
    <2>4. ASSUME NEW j \in 1 .. Len(stream'), stream'[j].type = "delta", stream'[j].ver # 0
          PROVE  \/ HasView' /\ at' = stream'[j].ver - 1
                 \/ Reached(stream', stream'[j].ver - 1, j - 1)
      <3>1. /\ j + 1 \in 1 .. Len(stream) /\ stream'[j] = stream[j + 1] /\ (j + 1) - 1 = j
            /\ j \in 1 .. Len(stream)
        BY <1>6, <2>1, ZenonT(60)
      <3>2. (HasView /\ at = stream'[j].ver - 1) \/ Reached(stream, stream'[j].ver - 1, j)
        BY <2>4, <3>1 DEF Chained
      <3>3. QED
        BY <1>5, <2>1, <2>2, <3>1, <3>2, ZenonT(60)
    <2>5. QED
      BY <2>3, <2>4 DEF Chained
  <1>8. CASE Ended(m)
    BY <1>8, ChainedDown, ZenonT(60) DEF Ended, EndSession
  <1>9. CASE Followed(m)
    <2>1. /\ stream' = Tail(stream) /\ at' = m.ver /\ session' = session /\ received_data' = TRUE
          /\ Makes(m)
      BY <1>9 DEF Followed
    <2>2. HasView'
      BY <1>2, <2>1, ZenonT(60) DEF HasView
    <2>3. m.ver \in 1 .. Len(history) /\ at <= m.ver
      BY <1>3, <2>1 DEF Ordered, Truthful, Makes
    <2>4. (HasView' /\ at' = Len(history')) \/ Reached(stream', Len(history'), Len(stream'))
      <3>1. Len(stream) \in 1 .. Len(stream) /\ Len(stream') = Len(stream) - 1
        BY <1>3, <2>1
      <3>2. (HasView /\ at = Len(history)) \/ Reached(stream, Len(history), Len(stream))
        BY <1>2 DEF Chained
      <3>3. CASE at = Len(history)
        BY <1>4, <2>1, <2>2, <2>3, <3>3
      <3>4. CASE Reached(stream, Len(history), Len(stream))
        BY <1>4, <1>5, <2>1, <2>2, <3>1, <3>4, ZenonT(60)
      <3>5. QED
        BY <3>2, <3>3, <3>4
    <2>5. ASSUME NEW j \in 1 .. Len(stream'), stream'[j].type = "delta", stream'[j].ver # 0
          PROVE  \/ HasView' /\ at' = stream'[j].ver - 1
                 \/ Reached(stream', stream'[j].ver - 1, j - 1)
      <3>1. /\ j + 1 \in 1 .. Len(stream) /\ stream'[j] = stream[j + 1] /\ (j + 1) - 1 = j
            /\ j \in 1 .. Len(stream) /\ 1 < j + 1 /\ 1 \in 1 .. Len(stream)
        BY <1>3, <1>6, <2>1
      <3>2. (HasView /\ at = stream'[j].ver - 1) \/ Reached(stream, stream'[j].ver - 1, j)
        BY <2>5, <3>1 DEF Chained
      <3>3. Makes(stream'[j]) /\ stream'[j].ver \in Nat
        <4>1. stream'[j] \in Frames
          BY <1>2, <3>1
        <4>2. QED
          BY <2>5, <4>1 DEF Makes, Frames
      <3>4. m.ver < stream'[j].ver
        BY <1>3, <2>1, <3>1, <3>3, ZenonT(60) DEF Ordered
      <3>5. CASE at = stream'[j].ver - 1
        BY <1>4, <2>1, <2>2, <2>3, <3>3, <3>4, <3>5
      <3>6. CASE Reached(stream, stream'[j].ver - 1, j)
        BY <1>5, <2>1, <2>2, <3>1, <3>6
      <3>7. QED
        BY <3>2, <3>5, <3>6
    <2>6. QED
      BY <2>4, <2>5 DEF Chained
  <1>10. QED
    BY <1>1, <1>7, <1>8, <1>9

-----------------------------------------------------------------------------
(* The invariant *)

\* A step of the feed; the order an order fill is about is of no consequence.
FeedStep ==
    \/ \E d \in Deltas : ExchangeChange(d)
    \/ \E order \in Nat : ExchangeFill(order)
    \/ ExchangeOther
    \/ StartSession
    \/ ReceiveFails
    \/ HandleFrame

\* The bot notices what it misses, or misses nothing.
NoSilentLoss == GapsShow \/ MaxMissed = 0

FeedInv ==
    /\ Ordered /\ Shown /\ Flags
    /\ GapsShow => Numbered
    /\ MaxMissed = 0 => Chained

LEMMA InitFeed ==
    ASSUME Init
    PROVE  FeedInv
  <1>1. Ordered /\ Shown
    BY InitBoth
  <1>2. Flags
    BY Zenon DEF Init, Flags
  <1>3. stream = <<>> /\ session = "down" /\ xseq = 0
    BY DEF Init
  <1>4. ~HasView /\ session # "up" /\ 1 .. Len(stream) = {} /\ xseq <= MaxSeq
    BY <1>3, BookFeedAssumption DEF HasView
  <1>5. Numbered /\ Chained
    BY <1>4, Zenon DEF Numbered, Chained
  <1>6. QED
    BY <1>1, <1>2, <1>5 DEF FeedInv

LEMMA ReadyStep ==
    ASSUME NoSilentLoss, FeedInv, HandleFrame
    PROVE  Ready
  BY NumberedReady, ChainedReady DEF NoSilentLoss, FeedInv

LEMMA FlagsStep ==
    ASSUME Flags, FeedStep
    PROVE  Flags'
  <1>1. Flags
    OBVIOUS
  <1>2. ASSUME UNCHANGED bot
        PROVE  Flags'
    <2>1. received_data' = received_data /\ g_running' = g_running
      BY <1>2, ZenonT(60) DEF bot
    <2>2. QED
      BY <1>1, <2>1, Zenon DEF Flags
  <1>3. CASE \E d \in Deltas : ExchangeChange(d)
    BY <1>2, <1>3, ChangeEffect
  <1>4. CASE \E order \in Nat : ExchangeFill(order)
    BY <1>2, <1>4 DEF ExchangeFill
  <1>5. CASE ExchangeOther
    BY <1>2, <1>5 DEF ExchangeOther
  <1>6. CASE StartSession
    <2>1. received_data' = FALSE /\ g_running' = g_running
      BY <1>6 DEF StartSession, ResetBook
    <2>2. QED
      BY <1>1, <2>1, Zenon DEF Flags
  <1>7. CASE ReceiveFails
    <2>1. received_data' = received_data /\ g_running' = g_running
      BY <1>7 DEF ReceiveFails
    <2>2. QED
      BY <1>1, <2>1, Zenon DEF Flags
  <1>8. CASE HandleFrame
    <2> DEFINE m == Head(stream)
    <2>1. \/ received_data' = received_data /\ g_running' = g_running
          \/ \E b : Applied(m, b)
          \/ \E b, kind : BookError(m, b, kind)
      <3>1. CASE m.type \in {"ping", "garbled", "close"}
        BY <1>8, <3>1 DEF HandleFrame, bot
      <3>2. CASE m.type \notin {"ping", "garbled", "close"}
        <4>1. OnMessage(m)
          BY <1>8, <3>2 DEF HandleFrame
        <4> HIDE DEF m
        <4>2. CASE OnSnapshot(m)
          BY <4>2, Zenon DEF OnSnapshot
        <4>3. CASE OnDelta(m)
          BY <4>3, Zenon DEF OnDelta
        <4>4. QED
          BY <4>1, <4>2, <4>3 DEF OnMessage
      <3>3. QED
        BY <3>1, <3>2
    <2> HIDE DEF m
    <2>2. CASE received_data' = received_data /\ g_running' = g_running
      BY <1>1, <2>2, Zenon DEF Flags
    <2>3. ASSUME NEW b, Applied(m, b)
          PROVE  Flags'
      <3>1. received_data' = (received_data \/ m.type = "snapshot") /\ g_running' = g_running
        BY <2>3, Zenon DEF Applied
      <3>2. QED
        BY <1>1, <3>1, Zenon DEF Flags
    <2>4. ASSUME NEW b, NEW kind, BookError(m, b, kind)
          PROVE  Flags'
      <3>1. received_data' = received_data /\ g_running' = (g_running /\ kind = "OutOfSync")
        BY <2>4, Zenon DEF BookError
      <3>2. QED
        BY <1>1, <3>1, Zenon DEF Flags
    <2>5. QED
      BY <2>1, <2>2, <2>3, <2>4
  <1>9. QED
    BY <1>3, <1>4, <1>5, <1>6, <1>7, <1>8 DEF FeedStep

\* Every step of the feed preserves the invariant.
LEMMA FeedInvStep ==
    ASSUME NoSilentLoss, FeedInv, FeedStep
    PROVE  FeedInv'
  <1>1. Ordered /\ Shown /\ Flags /\ (GapsShow => Numbered) /\ (MaxMissed = 0 => Chained)
    BY DEF FeedInv
  <1>2. Flags'
    BY <1>1, FlagsStep
  <1>3. CASE \E d \in Deltas : ExchangeChange(d)
    <2>1. PICK d \in Deltas : ExchangeChange(d)
      BY <1>3
    <2>2. Ordered' /\ Shown'
      BY <1>1, <2>1, ChangeStep
    <2>3. GapsShow => Numbered'
      BY <1>1, <2>1, NumberedChange
    <2>4. MaxMissed = 0 => Chained'
      BY <1>1, <1>3, ChainedExchange
    <2>5. QED
      BY <1>2, <2>2, <2>3, <2>4 DEF FeedInv
  <1>4. CASE \E order \in Nat : ExchangeFill(order)
    <2>1. PICK order \in Nat : ExchangeFill(order)
      BY <1>4
    <2>2. Ordered' /\ Shown'
      BY <1>1, <2>1, FillStep
    <2>3. GapsShow => Numbered'
      BY <1>1, <2>1, NumberedFill
    <2>4. MaxMissed = 0 => Chained'
      BY <1>1, <1>4, ChainedExchange
    <2>5. QED
      BY <1>2, <2>2, <2>3, <2>4 DEF FeedInv
  <1>5. CASE ExchangeOther
    <2>1. Ordered' /\ Shown'
      BY <1>1, <1>5, OtherStep
    <2>2. GapsShow => Numbered'
      BY <1>1, <1>5, NumberedOther
    <2>3. MaxMissed = 0 => Chained'
      BY <1>1, <1>5, ChainedExchange
    <2>4. QED
      BY <1>2, <2>1, <2>2, <2>3 DEF FeedInv
  <1>6. CASE StartSession
    BY <1>1, <1>2, <1>6, StartStep, NumberedStart, ChainedStart, ZenonT(60) DEF FeedInv
  <1>7. CASE ReceiveFails
    <2>1. Ordered' /\ Shown'
      BY <1>1, <1>7, ReceiveFailsStep
    <2>2. stream' = <<>> /\ session' # "up" /\ xseq' = xseq
      BY <1>7, ZenonT(60) DEF ReceiveFails, EndSession
    <2>3. GapsShow => Numbered'
      BY <1>1, <2>2, NumberedDown DEF Numbered
    <2>4. MaxMissed = 0 => Chained'
      BY <2>2, ChainedDown
    <2>5. QED
      BY <1>2, <2>1, <2>3, <2>4 DEF FeedInv
  <1>8. CASE HandleFrame
    BY <1>1, <1>2, <1>8, ReadyStep, HandleStep, NumberedHandle, ChainedHandle DEF FeedInv
  <1>9. QED
    BY <1>3, <1>4, <1>5, <1>6, <1>7, <1>8 DEF FeedStep

LEMMA FeedInvStutter ==
    ASSUME FeedInv, UNCHANGED vars
    PROVE  FeedInv'
  <1>1. /\ history' = history /\ xsid' = xsid /\ xseq' = xseq /\ missed' = missed /\ faults' = faults
        /\ stream' = stream /\ session' = session /\ book' = book /\ book_sid' = book_sid
        /\ book_seq' = book_seq /\ received_data' = received_data /\ g_running' = g_running /\ at' = at
    BY DEF vars, exchange, bot
  <1>2. QED
    BY <1>1, ZenonT(60) DEF FeedInv, Ordered, Shown, Flags, Numbered, Chained, HasView, InSync,
                       NoBookWithoutSnapshot

LEMMA FeedInvariant ==
    ASSUME NoSilentLoss
    PROVE  Spec => []FeedInv
  <1>1. Init => FeedInv
    BY InitFeed
  <1>2. FeedInv /\ [Next]_vars => FeedInv'
    <2>1. Next => FeedStep
      BY DEF Next, FeedStep
    <2>2. QED
      BY <2>1, FeedInvStep, FeedInvStutter
  <1>3. QED
    BY <1>1, <1>2, PTL DEF Spec

-----------------------------------------------------------------------------
(* Theorems *)

LEMMA FeedInvTypes ==
    ASSUME FeedInv
    PROVE  TypeOK
  <1>1. Ordered /\ Shown /\ Flags
    BY DEF FeedInv
  <1>2. at \in DOMAIN history
    BY <1>1, OrderedTypes DEF Shown
  <1>3. QED
    BY <1>1, <1>2, Zenon, OrderedTypes DEF TypeOK, Shown, Flags

\* Every variable of the feed has its type, the numbers included.
THEOREM FeedTypeCorrect ==
    ASSUME NoSilentLoss
    PROVE  Spec => []TypeOK
  <1>1. FeedInv => TypeOK
    BY FeedInvTypes
  <1>2. QED
    BY <1>1, FeedInvariant, PTL

\* As long as the bot can tell that a message was missed, or none is missed, the
\* book it trades on is the exchange's book as of the last message it applied, in
\* every session and across reconnections.
THEOREM BookInSync ==
    ASSUME NoSilentLoss
    PROVE  Spec => []InSync
  <1>1. FeedInv => InSync
    BY DEF FeedInv, Shown
  <1>2. QED
    BY <1>1, FeedInvariant, PTL

\* Under the same condition a session shows no book before its snapshot.
THEOREM NoBookBeforeSnapshot ==
    ASSUME NoSilentLoss
    PROVE  Spec => []NoBookWithoutSnapshot
  <1>1. FeedInv => NoBookWithoutSnapshot
    BY DEF FeedInv, Shown
  <1>2. QED
    BY <1>1, FeedInvariant, PTL

LEMMA PrefixOfAppend ==
    ASSUME NEW S, NEW s \in Seq(S), NEW x \in S
    PROVE  SubSeq(Append(s, x), 1, Len(s)) = s
  OBVIOUS

\* What a step does to the replica, in its terms.
LEMMA ReplicaStep ==
    ASSUME NoSilentLoss, FeedInv, FeedStep
    PROVE  [Replica!Next]_Replica!vars
  <1>1. Ordered /\ Shown
    BY DEF FeedInv
  <1>2. ASSUME history' = history, at' = at, book' = book, HasView' <=> HasView
        PROVE  UNCHANGED Replica!vars
    BY <1>2 DEF Replica!vars
  <1>3. ASSUME history' = history, at' = at, ~HasView'
        PROVE  Replica!Next
    BY <1>3 DEF Replica!Next, Replica!Hide
  <1>4. ASSUME UNCHANGED bot
        PROVE  at' = at /\ book' = book /\ (HasView' <=> HasView)
    <2>1. at' = at /\ book' = book /\ session' = session /\ received_data' = received_data
      BY <1>4 DEF bot
    <2>2. QED
      BY <2>1, ZenonT(60) DEF HasView
  <1>5. ASSUME NEW d \in Deltas, ExchangeChange(d)
        PROVE  Replica!Next
    <2> DEFINE now == history[Len(history)]
               new == AfterDelta(now, d)
    <2>1. /\ history \in Seq(Books) /\ at \in 1 .. Len(history) /\ history' = Append(history, new)
          /\ UNCHANGED bot
      BY <1>1, <1>5, OrderedTypes, ChangeEffect, ZenonT(60) DEF Shown
    <2>2. new \in Books
      <3>1. Len(history) \in 1 .. Len(history)
        BY <2>1
      <3>2. ExchangeBook(now)
        BY <1>1, <3>1, Zenon DEF Ordered
      <3>3. now.levels[d.side][d.price] + d.qty \in 0 .. MaxQty
        BY <1>5, ChangeEffect, ZenonT(60)
      <3> HIDE DEF now
      <3>4. QED
        BY <3>2, <3>3, ExchangeDelta, ZenonT(60) DEF ExchangeBook
    <2> HIDE DEF new
    <2>3. Len(history') = Len(history) + 1 /\ SubSeq(history', 1, Len(history)) = history
      BY <2>1, <2>2, AppendFrame, PrefixOfAppend
    <2>4. QED
      BY <1>4, <2>1, <2>3 DEF Replica!Next, Replica!Change
  <1>6. ASSUME NEW order \in Nat, ExchangeFill(order)
        PROVE  UNCHANGED Replica!vars
    BY <1>2, <1>4, <1>6 DEF ExchangeFill
  <1>7. CASE ExchangeOther
    BY <1>2, <1>4, <1>7 DEF ExchangeOther
  <1>8. CASE StartSession
    <2>1. history' = history /\ at' = at /\ received_data' = FALSE
      BY <1>8 DEF StartSession, ResetBook
    <2>2. ~HasView'
      BY <2>1, Zenon DEF HasView
    <2>3. QED
      BY <1>3, <2>1, <2>2
  <1>9. CASE ReceiveFails
    <2>1. history' = history /\ at' = at /\ session' = "down"
      BY <1>9 DEF ReceiveFails, EndSession
    <2>2. ~HasView'
      BY <2>1 DEF HasView
    <2>3. QED
      BY <1>3, <2>1, <2>2
  <1>10. CASE HandleFrame
    <2> DEFINE m == Head(stream)
    <2>1. PassedBy(m) \/ Ended(m) \/ Followed(m)
      BY <1>1, <1>10, Handled, ReadyStep
    <2>2. history' = history /\ stream # <<>> /\ stream \in Seq(Frames) /\ session = "up"
      BY <1>1, <1>10, OrderedTypes DEF HandleFrame, exchange
    <2>3. m = stream[1] /\ 1 \in 1 .. Len(stream)
      BY <2>2, TailFrames
    <2> HIDE DEF m
    <2>4. CASE PassedBy(m)
      <3>1. at' = at /\ book' = book /\ session' = session /\ received_data' = received_data
        BY <2>4 DEF PassedBy
      <3>2. HasView' <=> HasView
        BY <3>1, Zenon DEF HasView
      <3>3. QED
        BY <1>2, <2>2, <3>1, <3>2
    <2>5. CASE Ended(m)
      <3>1. at' = at /\ session' = "down"
        BY <2>5 DEF Ended, EndSession
      <3>2. ~HasView'
        BY <3>1 DEF HasView
      <3>3. QED
        BY <1>3, <2>2, <3>1, <3>2
    <2>6. CASE Followed(m)
      <3>1. book' = history[m.ver] /\ at' = m.ver /\ session' = session /\ received_data' = TRUE /\ Makes(m)
        BY <2>6 DEF Followed
      <3>2. HasView'
        BY <2>2, <3>1, ZenonT(60) DEF HasView
      <3>3. m.ver \in 1 .. Len(history) /\ at <= m.ver /\ at \in Nat
        BY <1>1, <2>3, <3>1 DEF Ordered, Truthful, Makes, Shown
      <3>4. m.ver \in DOMAIN history /\ m.ver >= at
        BY <1>1, <3>3, OrderedTypes
      <3>5. Replica!Show(m.ver)
        BY <2>2, <3>1, <3>2, <3>4 DEF Replica!Show
      <3>6. QED
        BY <3>4, <3>5 DEF Replica!Next
    <2>7. QED
      BY <2>1, <2>4, <2>5, <2>6
  <1>11. QED
    BY <1>5, <1>6, <1>7, <1>8, <1>9, <1>10 DEF FeedStep

\* The feed implements the abstract replica: whatever is lost, garbled or late, the
\* bot shows only books the exchange had, and never an older one than before, not
\* even after a reconnection.
THEOREM FeedIsReplica ==
    ASSUME NoSilentLoss
    PROVE  Spec => ReplicaSpec
  <1>1. Init => Replica!Init
    <2>1. ASSUME Init
          PROVE  Replica!Init
      <3>1. Len(history) = 1 /\ ~HasView /\ at = 1
        BY <2>1 DEF Init, HasView
      <3>2. QED
        BY <3>1 DEF Replica!Init
    <2>2. QED
      BY <2>1
  <1>2. FeedInv /\ [Next]_vars => [Replica!Next]_Replica!vars
    <2>1. Next => FeedStep
      BY DEF Next, FeedStep
    <2>2. ASSUME UNCHANGED vars
          PROVE  UNCHANGED Replica!vars
      <3>1. /\ history' = history /\ session' = session /\ received_data' = received_data
            /\ book' = book /\ at' = at
        BY <2>2 DEF vars, exchange, bot
      <3>2. HasView' <=> HasView
        BY <3>1, Zenon DEF HasView
      <3>3. QED
        BY <3>1, <3>2 DEF Replica!vars
    <2>3. QED
      BY <2>1, <2>2, ReplicaStep
  <1>3. QED
    BY <1>1, <1>2, FeedInvariant, PTL DEF Spec, ReplicaSpec, Replica!Spec
=============================================================================
