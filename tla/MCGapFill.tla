------------------------------ MODULE MCGapFill ------------------------------
(***************************************************************************)
(* Two locates, each its own symbol, and a few messages between them: an   *)
(* order of one symbol may be reduced, deleted or replaced on the other's  *)
(* locate.                                                                 *)
(***************************************************************************)
EXTENDS GapFill, TLC

CONSTANTS locA, locB

MCLocates  == {locA, locB}
MCSymbolOf == [l \in MCLocates |-> l]
MCPrices   == 1..2
MCOrderIds == 1..6
MCLots     == {2}
MCReduceTypes == {"X", "E"}

\* a locate and its symbol stand for one another, and no action prefers one
LocateSymmetry == Permutations(MCLocates)
=============================================================================
