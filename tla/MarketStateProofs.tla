------------------------- MODULE MarketStateProofs -------------------------
(***************************************************************************)
(* For every price range, every quantity width and every set of snapshots  *)
(* and deltas: the book keeps its type, its best prices are the tops of    *)
(* their sides, an accepted delta is never a wrapped sum, and the book is  *)
(* what the accepted messages add up to.                                   *)
(***************************************************************************)
EXTENDS MarketState, OrderBookProofs

USE SMTT(60), Z3T(60), ZenonT(60)
USE DEF Sides

-----------------------------------------------------------------------------
(* The loops of apply_snapshot *)

\* Entry i is the last of the first n entries for price p.
LastOf(entries, n, p, i) ==
    i \in 1 .. n /\ entries[i].price = p /\ \A j \in 1 .. n : j > i => entries[j].price # p

\* levels is what the first n entries make of an empty array.
Holds(levels, entries, n) ==
    \A p \in 0 .. MaxPrice :
        \/ levels[p] = 0 /\ \A i \in 1 .. n : entries[i].price # p
        \/ \E i \in 1 .. n : LastOf(entries, n, p, i) /\ levels[p] = entries[i].qty

\* What is known of an entry that is accepted.
LEMMA GoodEntry ==
    ASSUME NEW entries \in Entries, NEW i \in 1 .. Len(entries), EntryOK(entries[i])
    PROVE  entries[i].price \in 1 .. MaxPrice - 1 /\ entries[i].qty \in Quantities
<1>. USE OrderBookAssumption
<1>1. entries[i] \in [price : ParsedPrice, qty : ParsedQty]
  <2>1. entries \in Seq([price : ParsedPrice, qty : ParsedQty])
    BY DEF Entries
  <2>2. i \in DOMAIN entries
    BY <2>1
  <2>. QED BY <2>1, <2>2, ElementOfSeq, Zenon
<1>. QED BY <1>1 DEF EntryOK, PriceOK, QtyOK, ParsedPrice, ParsedQty, Quantities

\* One more entry (market_state.cpp:45).
LEMMA OneMoreEntry ==
    ASSUME NEW entries \in Entries, NEW n \in Nat, n < Len(entries),
           NEW levels \in Levels, Holds(levels, entries, n), EntryOK(entries[n + 1])
    PROVE  LET after == [levels EXCEPT ![entries[n + 1].price] = entries[n + 1].qty]
           IN  after \in Levels /\ Holds(after, entries, n + 1)
<1>. USE OrderBookAssumption
<1>. DEFINE e == entries[n + 1]
            after == [levels EXCEPT ![e.price] = e.qty]
<1>0. Len(entries) \in Nat
  BY DEF Entries
<1>1. e.price \in 1 .. MaxPrice - 1 /\ e.qty \in Quantities
  BY <1>0, GoodEntry
<1>. HIDE DEF e
<1>2. after \in Levels
  BY <1>1 DEF Levels
<1>3. ASSUME NEW p \in 0 .. MaxPrice
      PROVE  \/ after[p] = 0 /\ \A i \in 1 .. n + 1 : entries[i].price # p
             \/ \E i \in 1 .. n + 1 : LastOf(entries, n + 1, p, i) /\ after[p] = entries[i].qty
  <2>1. CASE p = e.price
    <3>1. after[p] = entries[n + 1].qty
      BY <2>1 DEF Levels, e
    <3>2. LastOf(entries, n + 1, p, n + 1)
      BY <2>1 DEF LastOf, e
    <3>. QED BY <3>1, <3>2
  <2>2. CASE p # e.price
    <3>1. after[p] = levels[p] /\ entries[n + 1].price # p
      BY <2>2 DEF Levels, e
    <3>2. CASE levels[p] = 0 /\ \A i \in 1 .. n : entries[i].price # p
      BY <3>1, <3>2
    <3>3. CASE \E i \in 1 .. n : LastOf(entries, n, p, i) /\ levels[p] = entries[i].qty
      <4>1. PICK i \in 1 .. n : LastOf(entries, n, p, i) /\ levels[p] = entries[i].qty
        BY <3>3
      <4>2. LastOf(entries, n + 1, p, i)
        BY <3>1, <4>1 DEF LastOf
      <4>. QED BY <3>1, <4>1, <4>2
    <3>. QED BY <3>2, <3>3 DEF Holds
  <2>. QED BY <2>1, <2>2
<1>4. Holds(after, entries, n + 1)
  BY <1>3 DEF Holds
<1>. QED BY <1>2, <1>4 DEF e

\* When all entries have been read the array is the one the snapshot describes.
LEMMA AllEntries ==
    ASSUME NEW entries \in Entries, NEW levels \in Levels, Holds(levels, entries, Len(entries))
    PROVE  levels = LevelsOf(entries)
<1>1. DOMAIN entries = 1 .. Len(entries) /\ Len(entries) \in Nat
  BY DEF Entries
<1>2. ASSUME NEW p \in 0 .. MaxPrice
      PROVE  levels[p] = LevelsOf(entries)[p]
  <2>1. CASE \A i \in 1 .. Len(entries) : entries[i].price # p
    <3>1. LastFor(entries, p) = {}
      BY <1>1, <2>1 DEF LastFor
    <3>2. levels[p] = 0
      BY <2>1 DEF Holds, LastOf
    <3>. QED BY <3>1, <3>2 DEF LevelsOf
  <2>2. CASE \E i \in 1 .. Len(entries) : entries[i].price = p
    <3>1. PICK i \in 1 .. Len(entries) :
             LastOf(entries, Len(entries), p, i) /\ levels[p] = entries[i].qty
      BY <2>2 DEF Holds
    <3>2. LastFor(entries, p) = {i}
      BY <1>1, <3>1 DEF LastFor, LastOf
    <3>3. LevelsOf(entries)[p] = entries[CHOOSE k \in LastFor(entries, p) : TRUE].qty
      BY <3>2, Zenon DEF LevelsOf
    <3>4. (CHOOSE k \in LastFor(entries, p) : TRUE) = i
      BY <3>2
    <3>. QED BY <3>1, <3>3, <3>4
  <2>. QED BY <2>1, <2>2
<1>. QED BY <1>2 DEF Levels, LevelsOf

-----------------------------------------------------------------------------
(* The invariant *)

Pending == Snapshots \union {NoSnapshot}

\* How far apply_snapshot has come.
ReadSoFar ==
    /\ snapshot \in Pending
    /\ \A s \in Sides : /\ snapshot[s] \in Entries
                        /\ read[s] <= Len(snapshot[s])
                        /\ Holds(scratch[s], snapshot[s], read[s])

Inv == TypeOK /\ BestIsTop /\ ReadSoFar

LEMMA PendingEntries ==
    ASSUME NEW snap \in Pending
    PROVE  \A s \in Sides : snap[s] \in Entries /\ Len(snap[s]) \in Nat
<1>1. snap \in [yes : Entries, no : Entries]
  <2>1. <<>> \in Entries
    BY DEF Entries
  <2>2. NoSnapshot \in [yes : Entries, no : Entries]
    BY <2>1 DEF NoSnapshot
  <2>. QED BY <2>2, MarketStateAssumption DEF Pending
<1>2. \A s \in Sides : snap[s] \in Entries
  BY <1>1
<1>. QED BY <1>2 DEF Entries

\* Whoever begins or ends a call of apply_snapshot.
LEMMA CallReset ==
    ASSUME NEW snap \in Pending, NoCall(snap)
    PROVE  /\ scratch' \in [Sides -> Levels] /\ read' \in [Sides -> Nat]
           /\ ReadSoFar'
<1>. USE OrderBookAssumption
<1>1. scratch' \in [Sides -> Levels] /\ read' \in [Sides -> Nat]
  BY EmptyBookOK DEF NoCall, Books
<1>2. ASSUME NEW s \in Sides
      PROVE  /\ snapshot'[s] \in Entries /\ read'[s] <= Len(snapshot'[s])
             /\ Holds(scratch'[s], snapshot'[s], read'[s])
  <2>1. snapshot'[s] \in Entries /\ Len(snapshot'[s]) \in Nat /\ read'[s] = 0
    BY PendingEntries DEF NoCall
  <2>2. \A p \in 0 .. MaxPrice : scratch'[s][p] = 0
    BY DEF NoCall, EmptyBook
  <2>. QED BY <2>1, <2>2 DEF Holds
<1>. QED BY <1>1, <1>2 DEF ReadSoFar, NoCall

LEMMA InitInv ==
    ASSUME Init
    PROVE  Inv
<1>. USE OrderBookAssumption
<1>1. snapshot \in Pending /\ \A s \in Sides : snapshot[s] \in Entries /\ Len(snapshot[s]) \in Nat
  BY PendingEntries DEF Init, Pending
<1>2. \A s \in Sides : read[s] = 0 /\ \A p \in 0 .. MaxPrice : scratch[s][p] = 0
  BY DEF Init, EmptyBook
<1>3. ReadSoFar
  BY <1>1, <1>2 DEF ReadSoFar, Holds
<1>4. TypeOK /\ BestIsTop
  BY EmptyBookOK DEF Init, TypeOK, BestIsTop, Books, Levels, Quantities
<1>. QED BY <1>3, <1>4 DEF Inv

\* One entry of a snapshot is read, or ends the call.
LEMMA ReadInv ==
    ASSUME Inv, NEW s \in Sides, ReadEntry(s)
    PROVE  Inv'
<1>. DEFINE e == snapshot[s][read[s] + 1]
<1>0. TypeOK /\ BestIsTop /\ ReadSoFar
  BY DEF Inv
<1>1. CASE ~EntryOK(e)
  <2>1. result' = "Malformed" /\ NoCall(NoSnapshot) /\ UNCHANGED <<book, told, exact>>
    BY <1>1 DEF ReadEntry, Rejects
  <2>2. scratch' \in [Sides -> Levels] /\ read' \in [Sides -> Nat] /\ ReadSoFar'
    BY <2>1, CallReset DEF Pending
  <2>. QED BY <1>0, <2>1, <2>2 DEF Inv, TypeOK, BestIsTop
<1>2. CASE EntryOK(e)
  <2>1. /\ scratch' = [scratch EXCEPT ![s][e.price] = e.qty]
        /\ read' = [read EXCEPT ![s] = @ + 1]
        /\ UNCHANGED <<book, result, snapshot, told, exact>>
        /\ read[s] < Len(snapshot[s])
    BY <1>2 DEF ReadEntry, Reading
  <2>2. /\ scratch \in [Sides -> Levels] /\ read \in [Sides -> Nat] /\ snapshot \in Pending
        /\ \A t \in Sides : /\ snapshot[t] \in Entries /\ read[t] <= Len(snapshot[t])
                            /\ Holds(scratch[t], snapshot[t], read[t])
    BY <1>0 DEF TypeOK, ReadSoFar
  <2>3. scratch[s] \in Levels /\ read[s] \in Nat /\ Len(snapshot[s]) \in Nat
    BY <2>2, PendingEntries
  <2>. DEFINE after == [scratch[s] EXCEPT ![e.price] = e.qty]
  <2>4. after \in Levels /\ Holds(after, snapshot[s], read[s] + 1)
    BY <1>2, <2>1, <2>2, <2>3, OneMoreEntry
  <2>5. scratch' = [scratch EXCEPT ![s] = after]
    BY <2>1
  <2>. HIDE DEF after, e
  <2>6. scratch' \in [Sides -> Levels] /\ read' \in [Sides -> Nat]
    BY <2>1, <2>2, <2>3, <2>4, <2>5
  <2>7. ASSUME NEW t \in Sides
        PROVE  /\ snapshot'[t] \in Entries /\ read'[t] <= Len(snapshot'[t])
               /\ Holds(scratch'[t], snapshot'[t], read'[t])
    <3>1. CASE t = s
      <4>1. scratch'[t] = after /\ read'[t] = read[s] + 1 /\ snapshot'[t] = snapshot[s]
        BY <2>1, <2>2, <2>5, <3>1
      <4>. QED BY <2>1, <2>2, <2>3, <2>4, <4>1
    <3>2. CASE t # s
      <4>1. scratch'[t] = scratch[t] /\ read'[t] = read[t] /\ snapshot'[t] = snapshot[t]
        BY <2>1, <2>2, <2>5, <3>2
      <4>. QED BY <2>2, <4>1
    <3>. QED BY <3>1, <3>2
  <2>8. ReadSoFar'
    BY <2>1, <2>2, <2>7 DEF ReadSoFar
  <2>. QED BY <1>0, <2>1, <2>6, <2>8 DEF Inv, TypeOK, BestIsTop
<1>. QED BY <1>1, <1>2

\* What has been read is the whole snapshot.
LEMMA AllRead ==
    ASSUME Inv, Assign
    PROVE  /\ scratch \in [Sides -> Levels]
           /\ scratch = [s \in Sides |-> LevelsOf(snapshot[s])]
<1>1. /\ scratch \in [Sides -> Levels]
      /\ \A s \in Sides : /\ snapshot[s] \in Entries /\ read[s] = Len(snapshot[s])
                          /\ Holds(scratch[s], snapshot[s], read[s])
  BY DEF Inv, TypeOK, ReadSoFar, Assign
<1>2. \A s \in Sides : scratch[s] = LevelsOf(snapshot[s])
  BY <1>1, AllEntries
<1>. QED BY <1>1, <1>2

LEMMA AssignInv ==
    ASSUME Inv, Assign
    PROVE  Inv'
<1>1. /\ scratch \in [Sides -> Levels]
      /\ scratch = [s \in Sides |-> LevelsOf(snapshot[s])]
  BY AllRead
<1>2. /\ book' = [levels |-> scratch,
                  best   |-> [s \in Sides |-> scan_best(scratch[s], MaxPrice - 1)]]
      /\ result' = "ok" /\ told' = scratch /\ exact' = TRUE /\ NoCall(NoSnapshot)
  BY <1>1 DEF Assign
<1>3. book' \in Books /\ BestIsTop'
  BY <1>1, <1>2, ScanIsTop DEF Books, BestIsTop
<1>4. told' \in [Sides -> [0 .. MaxPrice -> Int]]
  BY <1>1, <1>2, OrderBookAssumption DEF Levels, Quantities
<1>5. scratch' \in [Sides -> Levels] /\ read' \in [Sides -> Nat] /\ ReadSoFar'
  BY <1>2, CallReset DEF Pending
<1>. QED BY <1>2, <1>3, <1>4, <1>5 DEF Inv, TypeOK

LEMMA DeltaInv ==
    ASSUME Inv, NEW d \in Deltas, apply_delta(d)
    PROVE  Inv'
<1>0. TypeOK /\ BestIsTop /\ ReadSoFar
  BY DEF Inv
<1>1. ReadSoFar' /\ scratch' = scratch /\ read' = read
  BY <1>0 DEF apply_delta, call, ReadSoFar
<1>2. CASE ~DeltaOK(d)
  BY <1>0, <1>1, <1>2 DEF apply_delta, Inv, TypeOK, BestIsTop
<1>3. CASE DeltaOK(d)
  <2>1. book' \in Books /\ BestIsTop' /\ result' \in {"ok", "OutOfSync"}
    BY <1>0, <1>3, DeltaBook, MarketStateAssumption DEF apply_delta, DeltaResult, TypeOK, BestIsTop
  <2>2. exact' \in BOOLEAN
    BY <1>0, <1>3 DEF apply_delta, TypeOK
  <2>3. d.side \in Sides /\ d.price \in 0 .. MaxPrice /\ d.qty \in Int
    <3>1. book \in Books
      BY <1>0 DEF TypeOK
    <3>. QED BY <1>3, <3>1, DeltaLevel, MarketStateAssumption, OrderBookAssumption
  <2>4. told' \in [Sides -> [0 .. MaxPrice -> Int]]
    <3>1. told \in [Sides -> [0 .. MaxPrice -> Int]]
      BY <1>0 DEF TypeOK
    <3>2. EmptyBook.levels \in [Sides -> [0 .. MaxPrice -> Int]]
      BY OrderBookAssumption DEF EmptyBook
    <3>3. \/ told' = [told EXCEPT ![d.side][d.price] = @ + d.qty]
          \/ told' = EmptyBook.levels
      BY <1>3 DEF apply_delta
    <3>4. told[d.side] \in [0 .. MaxPrice -> Int]
      BY <2>3, <3>1
    <3>. DEFINE new == [told[d.side] EXCEPT ![d.price] = @ + d.qty]
    <3>5. new \in [0 .. MaxPrice -> Int]
      <4>0. told[d.side][d.price] \in Int /\ d.qty \in Int
        BY <2>3, <3>4, Zenon
      <4>1. told[d.side][d.price] + d.qty \in Int
        BY <4>0
      <4>. QED BY <2>3, <3>4, <4>1, Zenon
    <3>6. [told EXCEPT ![d.side][d.price] = @ + d.qty] = [told EXCEPT ![d.side] = new]
      OBVIOUS
    <3>. HIDE DEF new
    <3>7. [told EXCEPT ![d.side] = new] \in [Sides -> [0 .. MaxPrice -> Int]]
      BY <2>3, <3>1, <3>5
    <3>. QED BY <3>2, <3>3, <3>6, <3>7
  <2>. QED BY <1>0, <1>1, <2>1, <2>2, <2>4 DEF Inv, TypeOK
<1>. QED BY <1>2, <1>3

LEMMA StepInv ==
    ASSUME Inv, [Next]_vars
    PROVE  Inv'
<1>1. ASSUME NEW snap \in Snapshots, apply_snapshot(snap)
      PROVE  Inv'
  <2>1. NoCall(snap) /\ snap \in Pending /\ result' = "none" /\ UNCHANGED <<book, told, exact>>
    BY <1>1 DEF apply_snapshot, Pending
  <2>2. scratch' \in [Sides -> Levels] /\ read' \in [Sides -> Nat] /\ ReadSoFar'
    BY <2>1, CallReset
  <2>. QED BY <2>1, <2>2 DEF Inv, TypeOK, BestIsTop
<1>2. CASE UNCHANGED vars
  BY <1>2 DEF vars, call, Inv, TypeOK, BestIsTop, ReadSoFar
<1>. QED BY <1>1, <1>2, ReadInv, AssignInv, DeltaInv DEF Next

-----------------------------------------------------------------------------
(* Theorems *)

\* The book is well-formed and its best prices are the tops of its sides in every
\* reachable state, before, between and after the entries of a snapshot: the
\* inductive step needs both at once, for an update compares with the old best and
\* scans the old levels (market_state.cpp:34-86).
THEOREM BookCorrect == Spec => [](TypeOK /\ BestIsTop)
<1>1. Inv => TypeOK /\ BestIsTop
  BY DEF Inv
<1>. QED BY <1>1, InitInv, StepInv, PTL DEF Spec

\* The same of the scratch arrays.
ScratchNonNegative == \A s \in Sides : \A p \in 0 .. MaxPrice : scratch[s][p] >= 0

LEMMA NonNegativeStep ==
    ASSUME NonNegativeSnapshots, Inv, LevelsNonNegative, ScratchNonNegative, [Next]_vars
    PROVE  LevelsNonNegative' /\ ScratchNonNegative'
<1>0. TypeOK /\ ReadSoFar
  BY DEF Inv
<1>1. ASSUME NEW snap, NoCall(snap)
      PROVE  ScratchNonNegative'
  BY <1>1 DEF NoCall, EmptyBook, ScratchNonNegative
<1>2. ASSUME NEW snap \in Snapshots, apply_snapshot(snap)
      PROVE  LevelsNonNegative' /\ ScratchNonNegative'
  BY <1>1, <1>2 DEF apply_snapshot, LevelsNonNegative
<1>3. ASSUME NEW s \in Sides, ReadEntry(s)
      PROVE  LevelsNonNegative' /\ ScratchNonNegative'
  <2>. DEFINE e == snapshot[s][read[s] + 1]
  <2>1. LevelsNonNegative'
    BY <1>3 DEF ReadEntry, Rejects, LevelsNonNegative
  <2>2. CASE ~EntryOK(e)
    BY <1>1, <1>3, <2>1, <2>2 DEF ReadEntry, Rejects
  <2>3. CASE EntryOK(e)
    <3>1. /\ scratch' = [scratch EXCEPT ![s][e.price] = e.qty] /\ read[s] < Len(snapshot[s])
          /\ scratch \in [Sides -> Levels] /\ read[s] \in Nat /\ snapshot \in Pending
      BY <1>0, <1>3, <2>3 DEF ReadEntry, Reading, TypeOK, ReadSoFar
    <3>2. snapshot[s] \in Entries /\ Len(snapshot[s]) \in Nat
      BY <3>1, PendingEntries
    <3>3. read[s] + 1 \in 1 .. Len(snapshot[s]) /\ DOMAIN snapshot[s] = 1 .. Len(snapshot[s])
      BY <3>1, <3>2 DEF Entries
    <3>4. snapshot \in Snapshots
      <4>1. snapshot # NoSnapshot
        <5>1. Len(NoSnapshot["yes"]) = 0 /\ Len(NoSnapshot["no"]) = 0
          BY DEF NoSnapshot
        <5>. QED BY <3>3, <5>1
      <4>. QED BY <3>1, <4>1 DEF Pending
    <3>5. e.qty >= 0
      BY <2>3, <3>3, <3>4 DEF NonNegativeSnapshots, EntryOK
    <3>6. e.price \in 0 .. MaxPrice
      BY <2>3, <3>2, <3>3, GoodEntry, OrderBookAssumption
    <3>. HIDE DEF e
    <3>7. ScratchNonNegative'
      BY <3>1, <3>5, <3>6 DEF ScratchNonNegative, Levels
    <3>. QED BY <2>1, <3>7
  <2>. QED BY <2>2, <2>3
<1>4. ASSUME Assign
      PROVE  LevelsNonNegative' /\ ScratchNonNegative'
  <2>1. book'.levels = scratch /\ NoCall(NoSnapshot)
    BY <1>4 DEF Assign
  <2>. QED BY <1>1, <2>1 DEF LevelsNonNegative, ScratchNonNegative
<1>5. ASSUME NEW d \in Deltas, apply_delta(d)
      PROVE  LevelsNonNegative' /\ ScratchNonNegative'
  <2>1. ScratchNonNegative'
    BY <1>5 DEF apply_delta, call, ScratchNonNegative
  <2>2. CASE ~DeltaOK(d)
    BY <1>5, <2>1, <2>2 DEF apply_delta, LevelsNonNegative
  <2>3. CASE DeltaOK(d)
    <3>1. book \in Books
      BY <1>0 DEF TypeOK
    <3>2. /\ d.side \in Sides /\ book.levels \in [Sides -> Levels]
          /\ Clamp(RawLevel(book, d)) >= 0
      BY <2>3, <3>1, DeltaLevel, MarketStateAssumption DEF Books
    <3>3. book'.levels = [book.levels EXCEPT
                ![d.side] = [book.levels[d.side] EXCEPT ![d.price] = Clamp(RawLevel(book, d))]]
      BY <1>5, <2>3 DEF apply_delta, AfterDelta
    <3>4. LevelsNonNegative'
      BY <3>2, <3>3 DEF LevelsNonNegative, Levels
    <3>. QED BY <2>1, <3>4
  <2>. QED BY <2>2, <2>3
<1>6. CASE UNCHANGED vars
  BY <1>6 DEF vars, call, LevelsNonNegative, ScratchNonNegative
<1>. QED BY <1>2, <1>3, <1>4, <1>5, <1>6 DEF Next

\* As long as snapshots carry no negative quantity, no level is ever negative
\* (market_state.cpp:74-79).
THEOREM NonNegative ==
    ASSUME NonNegativeSnapshots
    PROVE  Spec => []LevelsNonNegative
<1>1. Init => LevelsNonNegative /\ ScratchNonNegative
  BY DEF Init, EmptyBook, LevelsNonNegative, ScratchNonNegative
<1>2. /\ Inv /\ LevelsNonNegative /\ ScratchNonNegative /\ [Next]_vars
      => LevelsNonNegative' /\ ScratchNonNegative'
  BY NonNegativeStep
<1>. QED BY <1>1, <1>2, InitInv, StepInv, PTL DEF Spec

\* What an accepted delta does to the levels: the sum did not wrap.
LEMMA AcceptedDelta ==
    ASSUME TypeOK, LevelsNonNegative, NEW d \in Deltas, apply_delta(d), result' = "ok"
    PROVE  /\ DeltaOK(d) /\ d.side \in Sides /\ d.price \in 0 .. MaxPrice
           /\ book.levels \in [Sides -> Levels]
           /\ book'.levels = [book.levels EXCEPT ![d.side] =
                                [book.levels[d.side] EXCEPT ![d.price] = @ + d.qty]]
<1>1. DeltaOK(d) /\ ~(RawLevel(book, d) < 0)
  BY DEF apply_delta, DeltaResult
<1>2. book \in Books
  BY DEF TypeOK
<1>3. /\ d.side \in Sides /\ d.price \in 1 .. MaxPrice - 1 /\ d.qty \in -MaxQty .. MaxQty
      /\ book.levels[d.side] \in Levels /\ book.levels \in [Sides -> Levels]
      /\ RawLevel(book, d) \in Quantities
  BY <1>1, <1>2, DeltaLevel, MarketStateAssumption DEF Books
<1>4. d.price \in 0 .. MaxPrice
  BY <1>3, OrderBookAssumption
<1>5. book.levels[d.side][d.price] \in 0 .. MaxQty
  <2>1. book.levels[d.side][d.price] \in Quantities
    BY <1>3, <1>4, Zenon DEF Levels
  <2>2. book.levels[d.side][d.price] >= 0
    BY <1>3, <1>4 DEF LevelsNonNegative
  <2>. QED BY <2>1, <2>2, OrderBookAssumption DEF Quantities
<1>6. RawLevel(book, d) = book.levels[d.side][d.price] + d.qty
  <2>1. d.qty \in -MaxQty .. MaxQty
    BY <1>3
  <2>2. ~(Wrap(book.levels[d.side][d.price] + d.qty) < 0)
    BY <1>1 DEF RawLevel
  <2>. QED BY <1>5, <2>1, <2>2, WrapExact DEF RawLevel
<1>7. Clamp(RawLevel(book, d)) = book.levels[d.side][d.price] + d.qty
  BY <1>1, <1>6 DEF Clamp
<1>8. book'.levels = [book.levels EXCEPT
            ![d.side] = [book.levels[d.side] EXCEPT ![d.price] = Clamp(RawLevel(book, d))]]
  BY <1>1 DEF apply_delta, AfterDelta
<1>. QED BY <1>1, <1>3, <1>4, <1>7, <1>8

\* As long as snapshots carry no negative quantity, an accepted delta moved its
\* level by exactly its quantity: no overflow of the 64-bit sum goes unreported
\* (market_state.cpp:71-79).
THEOREM AcceptedDeltaIsExact ==
    ASSUME NonNegativeSnapshots
    PROVE  Spec => NoSilentWrap
<1>1. TypeOK /\ LevelsNonNegative /\ [Next]_vars =>
        [\A d \in Deltas :
            apply_delta(d) /\ result' = "ok" =>
              book'.levels[d.side][d.price] = book.levels[d.side][d.price] + d.qty]_vars
  <2>. SUFFICES ASSUME TypeOK, LevelsNonNegative,
                       NEW d \in Deltas, apply_delta(d), result' = "ok"
                PROVE  book'.levels[d.side][d.price] = book.levels[d.side][d.price] + d.qty
    OBVIOUS
  <2>1. /\ d.side \in Sides /\ d.price \in 0 .. MaxPrice /\ book.levels \in [Sides -> Levels]
        /\ book'.levels = [book.levels EXCEPT ![d.side] =
                             [book.levels[d.side] EXCEPT ![d.price] = @ + d.qty]]
    BY AcceptedDelta
  <2>2. book'.levels[d.side] = [book.levels[d.side] EXCEPT ![d.price] = @ + d.qty]
    BY <2>1
  <2>3. book.levels[d.side] \in Levels
    BY <2>1
  <2>. QED BY <2>1, <2>2, <2>3 DEF Levels
<1>. QED BY <1>1, BookCorrect, NonNegative, PTL DEF Spec, NoSilentWrap

\* As long as snapshots carry no negative quantity, the book is at every return what
\* the accepted messages add up to, for every number of entries, duplicates included,
\* and wherever in a rejected snapshot the bad entry is (market_state.cpp:34-86).
THEOREM BookReplaysMessages ==
    ASSUME NonNegativeSnapshots
    PROVE  Spec => []BookIsReplay
<1>. DEFINE Same == exact => book.levels = told
<1>1. Init => Same
  BY DEF Init
<1>2. Inv /\ LevelsNonNegative /\ Same /\ [Next]_vars => Same'
  <2>. SUFFICES ASSUME Inv, LevelsNonNegative, Same, [Next]_vars, exact'
                PROVE  book'.levels = told'
    OBVIOUS
  <2>1. ASSUME NEW snap \in Snapshots, apply_snapshot(snap)
        PROVE  book'.levels = told'
    BY <2>1 DEF apply_snapshot
  <2>2. ASSUME NEW s \in Sides, ReadEntry(s)
        PROVE  book'.levels = told'
    BY <2>2 DEF ReadEntry, Rejects
  <2>3. ASSUME Assign
        PROVE  book'.levels = told'
    BY <2>3, AllRead DEF Assign
  <2>4. ASSUME NEW d \in Deltas, apply_delta(d)
        PROVE  book'.levels = told'
    <3>1. CASE ~DeltaOK(d)
      BY <2>4, <3>1 DEF apply_delta
    <3>2. CASE DeltaOK(d)
      <4>1. /\ exact /\ result' = "ok"
            /\ told' = [told EXCEPT ![d.side][d.price] = @ + d.qty]
        BY <2>4, <3>2 DEF apply_delta
      <4>2. book'.levels = [book.levels EXCEPT ![d.side] =
                              [book.levels[d.side] EXCEPT ![d.price] = @ + d.qty]]
        BY <2>4, <4>1, AcceptedDelta DEF Inv
      <4>. QED BY <4>1, <4>2
    <3>. QED BY <3>1, <3>2
  <2>5. CASE UNCHANGED vars
    BY <2>5 DEF vars
  <2>. QED BY <2>1, <2>2, <2>3, <2>4, <2>5 DEF Next
<1>3. Same => BookIsReplay
  BY DEF BookIsReplay
<1>. HIDE DEF Same
<1>. QED BY <1>1, <1>2, <1>3, InitInv, StepInv, NonNegative, PTL DEF Spec
=============================================================================
