---------------------------- MODULE MCGapFillOne ----------------------------
(***************************************************************************)
(* A single locate: no message is for another symbol than its locate's.    *)
(***************************************************************************)
EXTENDS GapFill

CONSTANT locA

MCLocates     == {locA}
MCSymbolOf    == [l \in MCLocates |-> l]
MCPrices      == {1}
MCLots        == {2}
MCOrderIds    == 1..8
MCReduceTypes == {"X"}
=============================================================================
