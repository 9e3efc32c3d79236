---------------------------- MODULE MarketState ----------------------------
(***************************************************************************)
(* The class MarketState: a book that receives snapshots and deltas in any *)
(* order (include/market_state.hpp, src/trading/market_state.cpp).         *)
(***************************************************************************)
EXTENDS OrderBook

CONSTANTS Snapshots,   \* the snapshots the exchange may send
          Deltas       \* the deltas the exchange may send

ASSUME MarketStateAssumption ==
    /\ Snapshots \subseteq [yes : Entries, no : Entries]
    /\ Deltas \subseteq [side : STRING, price : ParsedPrice, qty : ParsedQty]

VARIABLES book,      \* the members _yes, _no, _best_yes and _best_no
          result,    \* what the last call returned: "ok", "Malformed", "OutOfSync",
                     \* or "none" while apply_snapshot is reading its entries
          snapshot,  \* the argument of that apply_snapshot
          read,      \* how many entries of each side it has read
          scratch,   \* its arrays yes and no
          told,      \* history: what the messages accepted since a snapshot add up to,
          exact      \* as long as none of them was out of sync

call == <<snapshot, read, scratch>>
vars == <<book, result, call, told, exact>>

NoSnapshot == [yes |-> <<>>, no |-> <<>>]

\* No call of apply_snapshot is under way, or one is beginning.
NoCall(snap) ==
    /\ snapshot' = snap
    /\ read' = [s \in Sides |-> 0]
    /\ scratch' = EmptyBook.levels

Init ==
    /\ book = EmptyBook
    /\ result = "ok"
    /\ snapshot = NoSnapshot
    /\ read = [s \in Sides |-> 0]
    /\ scratch = EmptyBook.levels
    /\ told = EmptyBook.levels /\ exact = TRUE

\* apply_snapshot, up to its loops.
apply_snapshot(snap) ==
    /\ result # "none"
    /\ result' = "none"
    /\ NoCall(snap)
    /\ UNCHANGED <<book, told, exact>>

\* The loops are at an entry of side s: all YES entries come before the NO entries.
Reading(s) ==
    /\ result = "none" /\ read[s] < Len(snapshot[s])
    /\ s = "no" => read["yes"] = Len(snapshot["yes"])

EntryOK(e) == PriceOK(e.price) /\ QtyOK(e.qty)

Rejects ==
    /\ result' = "Malformed"
    /\ NoCall(NoSnapshot)
    /\ UNCHANGED <<book, told, exact>>

\* Faulty variant: entries are written to the book as they are read.
ReadEntryInPlace(s) ==
    LET e == snapshot[s][read[s] + 1]
    IN  /\ Reading(s)
        /\ IF EntryOK(e)
           THEN /\ book' = [book EXCEPT !.levels[s][e.price] = e.qty]
                /\ scratch' = [scratch EXCEPT ![s][e.price] = e.qty]
                /\ read' = [read EXCEPT ![s] = @ + 1]
                /\ UNCHANGED <<result, snapshot, told, exact>>
           ELSE Rejects

\* One entry: it goes to the scratch array, over an earlier one for its price, or
\* ends the call.
ReadEntry(s) ==
    LET e == snapshot[s][read[s] + 1]
    IN  /\ Reading(s)
        /\ IF EntryOK(e)
           THEN /\ scratch' = [scratch EXCEPT ![s][e.price] = e.qty]
                /\ read' = [read EXCEPT ![s] = @ + 1]
                /\ UNCHANGED <<book, result, snapshot, told, exact>>
           ELSE Rejects

\* apply_snapshot, after its loops.
Assign ==
    /\ result = "none" /\ \A s \in Sides : read[s] = Len(snapshot[s])
    /\ book' = [levels |-> scratch,
                best   |-> [s \in Sides |-> scan_best(scratch[s], MaxPrice - 1)]]
    /\ result' = "ok"
    /\ told' = [s \in Sides |-> LevelsOf(snapshot[s])] /\ exact' = TRUE
    /\ NoCall(NoSnapshot)

apply_delta(d) ==
    /\ result # "none"
    /\ IF DeltaOK(d)
       THEN /\ book' = AfterDelta(book, d)
            /\ result' = DeltaResult(book, d)
            /\ exact' = (exact /\ result' = "ok")
            /\ told' = IF exact' THEN [told EXCEPT ![d.side][d.price] = @ + d.qty]
                       ELSE EmptyBook.levels
       ELSE result' = "Malformed" /\ UNCHANGED <<book, told, exact>>
    /\ UNCHANGED call

Next ==
    \/ \E snap \in Snapshots : apply_snapshot(snap)
    \/ \E s \in Sides : ReadEntry(s)
    \/ Assign
    \/ \E d \in Deltas : apply_delta(d)

Spec == Init /\ [][Next]_vars

-----------------------------------------------------------------------------
(* Properties *)

\* The book keeps its shape: quantities stay in 64 bits and the best prices
\* index the arrays.
TypeOK ==
    /\ book \in Books
    /\ result \in {"ok", "Malformed", "OutOfSync", "none"}
    /\ scratch \in [Sides -> Levels] /\ read \in [Sides -> Nat]
    /\ told \in [Sides -> [0 .. MaxPrice -> Int]] /\ exact \in BOOLEAN

\* The incrementally maintained best bid of each side (market_state.cpp:81-84)
\* is the highest price that holds a positive quantity, and 0 exactly when no
\* price does, whatever snapshots and deltas arrived and however sums wrapped.
BestIsTop == \A s \in Sides : IsTop(book.levels[s], book.best[s])

\* Snapshots carry no negative quantity.
NonNegativeSnapshots ==
    \A snap \in Snapshots : \A s \in Sides : \A i \in DOMAIN snap[s] :
        QtyOK(snap[s][i].qty) => snap[s][i].qty >= 0

\* No bid quantity of the book is negative (the clamp of market_state.cpp:74-79),
\* as long as no snapshot says otherwise.
LevelsNonNegative ==
    \A s \in Sides : \A p \in 0 .. MaxPrice : book.levels[s][p] >= 0

\* A delta that apply_delta accepts moved its level by exactly the delta: a sum
\* that leaves the 64 bits never passes for a success (market_state.cpp:71-79),
\* since from a non-negative level it can only wrap to a negative one.
NoSilentWrap ==
    [][\A d \in Deltas :
          apply_delta(d) /\ result' = "ok" =>
              book'.levels[d.side][d.price] = book.levels[d.side][d.price] + d.qty]_vars

\* Whenever a call has returned, the book is what the accepted messages say, no more
\* and no less: the last entry of the snapshot for each price plus the deltas since,
\* without overflow.  Malformed messages, of which a part may have been read before
\* the bad entry was met, leave no trace (market_state.cpp:35-47, market_state.hpp:57),
\* until a delta is reported as out of sync.
BookIsReplay == exact /\ result # "none" => book.levels = told
=============================================================================
