---------------------------- MODULE MCFeedHandler ----------------------------
(***************************************************************************)
(* A stream of four messages and one of two, one of these for an order of  *)
(* the other stream's symbol, and snapshots that are empty or hold a level *)
(* of two orders that do not share evenly and a level on the other side.   *)
(***************************************************************************)
EXTENDS FeedHandlerMachine

CONSTANTS locA, locB, symA, symB

MCLocates  == {locA, locB}
MCSymbols  == {symA, symB}
MCSymbolOf == [l \in MCLocates |-> IF l = locA THEN symA ELSE symB]

MCFrame ==
  [l \in MCLocates |->
     IF l = locA
     THEN << AddMsg("A", symA, 1, "Buy", 1, 2), ReduceMsg("X", 1, 1), DeleteMsg(1),
             AddMsg("A", symA, 4, "Sell", 2, 1) >>
     ELSE << AddMsg("F", symB, 2, "Sell", 2, 1), ReplaceMsg(1, 3, 2, 2) >>]

Level(p, q, n) == [price |-> p, total_qty |-> q, order_count |-> n]

MCSnapshotLadders ==
  { [bids |-> << >>, asks |-> << >>],
    [bids |-> <<Level(1, 3, 2)>>, asks |-> <<Level(2, 1, 1)>>] }

\* The streams' orders and the three of the larger snapshot.
MCOrderIds == 1..4 \cup SyntheticBase..(SyntheticBase + 2)
MCPrices   == 1..2

ASSUME KeepsToDomain == FeedDomain /\ NoWrap
=============================================================================
