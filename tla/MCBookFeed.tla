----------------------------- MODULE MCBookFeed -----------------------------
(***************************************************************************)
(* TLC instances of BookFeed: two YES prices whose levels go up and down.  *)
(***************************************************************************)
EXTENDS BookFeed

MCDeltas == [side : {"yes"}, price : {1, 2}, qty : {-1, 1}]
MCBadDelta == [side |-> "yes", price |-> Unparsable, qty |-> 1]
=============================================================================
