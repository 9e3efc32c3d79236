--------------------------- MODULE MCMarketState ---------------------------
(***************************************************************************)
(* TLC instances of MarketState: three usable prices, quantities of three  *)
(* bits, snapshots with duplicate, bad and missing entries.                *)
(***************************************************************************)
EXTENDS MarketState, SequencesExt

Entry(p, q) == [price |-> p, qty |-> q]
Good == {Entry(p, q) : p \in {1, 3}, q \in {1, MaxQty}}
Bad == {Entry(0, 1), Entry(MaxPrice, 1), Entry(Unparsable, 1), Entry(1, Unparsable)}

\* Up to two YES entries, so that one can overwrite another, and good YES entries
\* followed by a bad entry of either side.
MCSnapshots ==
    [yes : SeqOf(Good, 2), no : {<<>>, <<Entry(2, 1)>>}]
        \union {[yes |-> <<Entry(3, 1), e>>, no |-> <<>>] : e \in Bad}
        \union {[yes |-> <<Entry(3, 1)>>, no |-> <<e>>] : e \in Bad}

MCDeltas ==
    [side : Sides, price : 0 .. MaxPrice, qty : {-MaxQty, -1, 1, MaxQty}]
        \union {[side |-> "maybe", price |-> 1, qty |-> 1],
                [side |-> "yes", price |-> Unparsable, qty |-> 1],
                [side |-> "no", price |-> 1, qty |-> Unparsable]}
=============================================================================
