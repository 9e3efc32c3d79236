-------------------------- MODULE OrderBookProofs --------------------------
(***************************************************************************)
(* Lemmas about the functions of OrderBook: what scan_best returns, that   *)
(* snapshots and deltas make well-formed books whose best prices are the   *)
(* tops of their sides, and when a 64-bit sum is exact.                    *)
(***************************************************************************)
EXTENDS OrderBook, WellFoundedInduction, TLAPS

USE SMTT(60), Z3T(60), ZenonT(60)
USE DEF Sides

-----------------------------------------------------------------------------
(* The downward scan *)

\* Every non-empty set of natural numbers has a least element.
LEMMA LeastNat ==
    ASSUME NEW T, T \subseteq Nat, T # {}
    PROVE  \E k \in T : \A m \in T : k <= m
<1>1. PICK k \in T : \A m \in T : ~(<<m, k>> \in OpToRel(<, Nat))
  BY NatLessThanWellFounded, WFMin, Zenon
<1>2. ASSUME NEW m \in T
      PROVE  k <= m
  <2>1. k \in Nat /\ m \in Nat
    OBVIOUS
  <2>2. ~(m < k)
    BY <1>1, <2>1, Zenon DEF OpToRel
  <2>. QED BY <2>1, <2>2
<1>. QED BY <1>2

\* scan_best (market_state.cpp:26-31) returns an index it scanned, bids are held
\* there unless it is 0, and no higher index up to "from" holds any.
LEMMA ScanBest ==
    ASSUME NEW levels \in Levels, NEW from \in 0 .. MaxPrice
    PROVE  /\ scan_best(levels, from) \in 0 .. from
           /\ IsScan(levels, from, scan_best(levels, from))
<1>. USE OrderBookAssumption
<1>. DEFINE Stop == {k \in 0 .. from : k = from \/ levels[from - k] > 0}
<1>1. Stop \subseteq Nat /\ from \in Stop
  OBVIOUS
<1>2. PICK k \in Stop : \A m \in Stop : k <= m
  <2>. HIDE DEF Stop
  <2>. QED BY <1>1, LeastNat, Zenon
<1>3. from - k \in 0 .. from
  OBVIOUS
<1>4. IsScan(levels, from, from - k)
  <2>1. from - k > 0 => levels[from - k] > 0
    OBVIOUS
  <2>2. ASSUME NEW q \in from - k + 1 .. from
        PROVE  levels[q] <= 0
    <3>1. from - q \in 0 .. from /\ from - q < k
      BY <2>2, <1>3
    <3>2. from - q \notin Stop
      <4>. HIDE DEF Stop
      <4>. QED BY <1>1, <1>2, <3>1
    <3>3. ~(levels[from - (from - q)] > 0)
      BY <3>1, <3>2
    <3>4. from - (from - q) = q /\ q \in 0 .. MaxPrice
      BY <1>3
    <3>5. levels[q] \in Int
      BY <3>4 DEF Levels, Quantities
    <3>. QED BY <3>3, <3>4, <3>5
  <2>. QED BY <2>1, <2>2 DEF IsScan
<1>. QED BY <1>3, <1>4 DEF scan_best

\* A scan over all prices finds the top of a side.
LEMMA ScanIsTop ==
    ASSUME NEW levels \in Levels
    PROVE  /\ scan_best(levels, MaxPrice - 1) \in 0 .. MaxPrice
           /\ IsTop(levels, scan_best(levels, MaxPrice - 1))
<1>. USE OrderBookAssumption
<1>. DEFINE b == scan_best(levels, MaxPrice - 1)
<1>1. b \in 0 .. MaxPrice - 1 /\ IsScan(levels, MaxPrice - 1, b)
  BY ScanBest
<1>. HIDE DEF b
<1>2. \A p \in 1 .. MaxPrice - 1 : levels[p] \in Int
  BY DEF Levels, Quantities
<1>3. IsTop(levels, b)
  BY <1>1, <1>2 DEF IsScan, IsTop
<1>. QED BY <1>1, <1>3 DEF b

-----------------------------------------------------------------------------
(* What the two operations return *)

\* An element of a sequence over S is in S.
LEMMA ElementOfSeq ==
    ASSUME NEW S, NEW seq \in Seq(S), NEW i \in DOMAIN seq
    PROVE  seq[i] \in S
<1>1. DOMAIN seq = 1 .. Len(seq) /\ Len(seq) \in Nat
  OBVIOUS
<1>. QED BY <1>1

\* The entries of a well-formed snapshot make an array of quantities.
LEMMA SnapshotLevels ==
    ASSUME NEW entries \in Entries, WellFormed(entries)
    PROVE  LevelsOf(entries) \in Levels
<1>. USE OrderBookAssumption
<1>1. ASSUME NEW i \in DOMAIN entries
      PROVE  entries[i].qty \in Quantities
  <2>1. entries[i] \in [price : ParsedPrice, qty : ParsedQty]
    BY ElementOfSeq, Zenon DEF Entries
  <2>2. entries[i].qty # Unparsable
    BY DEF WellFormed, QtyOK
  <2>. QED BY <2>1, <2>2 DEF ParsedQty, Quantities
<1>2. ASSUME NEW p \in 0 .. MaxPrice
      PROVE  (IF LastFor(entries, p) = {} THEN 0
              ELSE entries[CHOOSE i \in LastFor(entries, p) : TRUE].qty) \in Quantities
  <2>1. CASE LastFor(entries, p) = {}
    BY <2>1 DEF Quantities
  <2>2. CASE LastFor(entries, p) # {}
    <3>1. (CHOOSE i \in LastFor(entries, p) : TRUE) \in DOMAIN entries
      BY <2>2 DEF LastFor
    <3>. QED BY <1>1, <2>2, <3>1
  <2>. QED BY <2>1, <2>2
<1>. QED BY <1>2 DEF LevelsOf, Levels

\* An accepted snapshot yields a well-formed book with correct tops.
LEMMA SnapshotBook ==
    ASSUME NEW snap \in [yes : Entries, no : Entries], SnapshotOK(snap)
    PROVE  /\ BookOf(snap) \in Books
           /\ \A s \in Sides : IsTop(BookOf(snap).levels[s], BookOf(snap).best[s])
<1>1. ASSUME NEW s \in Sides
      PROVE  LevelsOf(snap[s]) \in Levels
  <2>1. snap[s] \in Entries /\ WellFormed(snap[s])
    BY DEF SnapshotOK
  <2>. QED BY <2>1, SnapshotLevels
<1>2. ASSUME NEW s \in Sides
      PROVE  /\ BookOf(snap).levels[s] = LevelsOf(snap[s])
             /\ BookOf(snap).best[s] = scan_best(LevelsOf(snap[s]), MaxPrice - 1)
  BY DEF BookOf
<1>3. BookOf(snap) \in Books
  BY <1>1, ScanIsTop DEF BookOf, Books
<1>. QED BY <1>1, <1>2, <1>3, ScanIsTop

\* A sum of two quantities wraps to a quantity.
LEMMA WrapType ==
    ASSUME NEW m \in Quantities, NEW n \in Quantities
    PROVE  Wrap(m + n) \in Quantities
BY OrderBookAssumption DEF Wrap, Quantities

\* The incremental update keeps the top of a side correct (market_state.cpp:81-84).
LEMMA NewBestIsTop ==
    ASSUME NEW old \in Levels, NEW best \in 0 .. MaxPrice, IsTop(old, best),
           NEW p \in 1 .. MaxPrice - 1, NEW n \in Quantities, n >= 0
    PROVE  LET levels == [old EXCEPT ![p] = n]
           IN  /\ NewBest(levels, best, p, n) \in 0 .. MaxPrice
               /\ IsTop(levels, NewBest(levels, best, p, n))
<1>. USE OrderBookAssumption
<1>. DEFINE levels == [old EXCEPT ![p] = n]
            b == NewBest(levels, best, p, n)
<1>. SUFFICES b \in 0 .. MaxPrice /\ IsTop(levels, b)
  OBVIOUS
<1>1. levels \in Levels
  BY DEF Levels
<1>2. /\ levels[p] = n
      /\ \A q \in 1 .. MaxPrice - 1 : q # p => levels[q] = old[q]
      /\ \A q \in 1 .. MaxPrice - 1 : levels[q] \in Int /\ old[q] \in Int
  BY DEF Levels, Quantities
<1>3. n \in Int
  BY DEF Quantities
<1>. HIDE DEF levels
<1>4. CASE n > 0 /\ p > best
  <2>1. b = p
    BY <1>4 DEF NewBest
  <2>. QED BY <1>2, <1>4, <2>1 DEF IsTop
<1>5. CASE n = 0 /\ p = best
  <2>1. b = scan_best(levels, p - 1)
    BY <1>3, <1>5 DEF NewBest
  <2>2. b \in 0 .. p - 1 /\ IsScan(levels, p - 1, b)
    BY <1>1, <2>1, ScanBest
  <2>3. \A q \in 1 .. MaxPrice - 1 : levels[q] > 0 => q < p
    BY <1>2, <1>5 DEF IsTop
  <2>. HIDE DEF b
  <2>4. \A q \in 1 .. MaxPrice - 1 : levels[q] > 0 => q <= b
    BY <1>2, <2>2, <2>3 DEF IsScan
  <2>. QED BY <1>2, <2>2, <2>4 DEF IsTop, IsScan
<1>6. CASE ~(n > 0 /\ p > best) /\ ~(n = 0 /\ p = best)
  <2>1. b = best
    BY <1>6 DEF NewBest
  <2>. QED BY <1>2, <1>3, <1>6, <2>1 DEF IsTop
<1>. QED BY <1>4, <1>5, <1>6

\* What is known of an accepted delta: its level exists and its sum fits.
LEMMA DeltaLevel ==
    ASSUME NEW b \in Books, NEW d, d.price \in ParsedPrice, d.qty \in ParsedQty, DeltaOK(d)
    PROVE  /\ d.side \in Sides
           /\ d.price \in 1 .. MaxPrice - 1
           /\ d.qty \in -MaxQty .. MaxQty
           /\ b.levels[d.side] \in Levels
           /\ b.best[d.side] \in 0 .. MaxPrice
           /\ RawLevel(b, d) \in Quantities
           /\ Clamp(RawLevel(b, d)) \in Quantities
           /\ Clamp(RawLevel(b, d)) >= 0
<1>. USE OrderBookAssumption
<1>2. d.side \in Sides /\ d.price \in 1 .. MaxPrice - 1 /\ d.qty \in -MaxQty .. MaxQty
  BY DEF DeltaOK, PriceOK, QtyOK, ParsedPrice, ParsedQty
<1>3. b.levels[d.side] \in Levels /\ b.best[d.side] \in 0 .. MaxPrice
  BY <1>2 DEF Books
<1>4. b.levels[d.side][d.price] \in Quantities /\ d.qty \in Quantities
  <2>1. d.price \in 0 .. MaxPrice
    BY <1>2
  <2>2. b.levels[d.side][d.price] \in Quantities
    BY <1>3, <2>1 DEF Levels
  <2>3. d.qty \in Quantities
    BY <1>2 DEF Quantities
  <2>. QED BY <2>2, <2>3
<1>5. RawLevel(b, d) \in Quantities
  BY <1>4, WrapType DEF RawLevel
<1>. QED BY <1>2, <1>3, <1>5 DEF Clamp, Quantities

\* An accepted delta keeps the book well-formed and its tops correct.
LEMMA DeltaBook ==
    ASSUME NEW b \in Books, \A s \in Sides : IsTop(b.levels[s], b.best[s]),
           NEW d, d.price \in ParsedPrice, d.qty \in ParsedQty, DeltaOK(d)
    PROVE  /\ AfterDelta(b, d) \in Books
           /\ \A s \in Sides : IsTop(AfterDelta(b, d).levels[s], AfterDelta(b, d).best[s])
<1>. DEFINE n == Clamp(RawLevel(b, d))
            levels == [b.levels[d.side] EXCEPT ![d.price] = n]
            best == NewBest(levels, b.best[d.side], d.price, n)
<1>1. /\ d.side \in Sides
      /\ d.price \in 1 .. MaxPrice - 1
      /\ b.levels[d.side] \in Levels
      /\ b.best[d.side] \in 0 .. MaxPrice
      /\ n \in Quantities /\ n >= 0
  BY DeltaLevel
<1>. HIDE DEF n
<1>2. best \in 0 .. MaxPrice /\ IsTop(levels, best)
  BY <1>1, NewBestIsTop
<1>3. levels \in Levels
  BY <1>1, Zenon DEF Levels
<1>. HIDE DEF levels, best
<1>4. AfterDelta(b, d) = [levels |-> [b.levels EXCEPT ![d.side] = levels],
                          best   |-> [b.best EXCEPT ![d.side] = best]]
  BY <1>1 DEF AfterDelta, n, levels, best, Books
<1>5. b.levels \in [Sides -> Levels] /\ b.best \in [Sides -> 0 .. MaxPrice]
  BY DEF Books
<1>6. AfterDelta(b, d) \in Books
  BY <1>1, <1>2, <1>3, <1>4, <1>5 DEF Books
<1>7. ASSUME NEW s \in Sides
      PROVE  IsTop(AfterDelta(b, d).levels[s], AfterDelta(b, d).best[s])
  <2>1. CASE s = d.side
    BY <1>2, <1>4, <1>5, <2>1
  <2>2. CASE s # d.side
    BY <1>4, <1>5, <2>2
  <2>. QED BY <2>1, <2>2
<1>. QED BY <1>6, <1>7

\* The book of a new session (market_state.hpp: empty vectors, best prices 0) is
\* well-formed and its best prices are right.
LEMMA EmptyBookOK ==
    /\ EmptyBook \in Books
    /\ \A s \in Sides : IsTop(EmptyBook.levels[s], EmptyBook.best[s])
BY OrderBookAssumption DEF EmptyBook, Books, Levels, Quantities, IsTop

\* From a non-negative level a sum wraps, if at all, to a negative number.
LEMMA WrapExact ==
    ASSUME NEW held \in 0 .. MaxQty, NEW qty \in -MaxQty .. MaxQty, ~(Wrap(held + qty) < 0)
    PROVE  Wrap(held + qty) = held + qty
  BY OrderBookAssumption DEF Wrap
=============================================================================
