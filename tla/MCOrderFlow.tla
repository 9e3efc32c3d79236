---------------------------- MODULE MCOrderFlow ----------------------------
(***************************************************************************)
(* TLC instances of OrderFlow: orders of two contracts, with a cap that a  *)
(* second one exceeds unless the first was not filled, filled and reported *)
(* in parts that need not be whole contracts.                              *)
(***************************************************************************)
EXTENDS OrderFlow, FiniteSetsExt

SumOf(f) == MapThenSumSet(LAMBDA id : f[id], Ids)

MCFillCounts == {0, 100, 150, 200}
MCTradeCounts == {100, 150}
=============================================================================
