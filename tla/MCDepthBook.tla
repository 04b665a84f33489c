----------------------------- MODULE MCDepthBook -----------------------------
(***************************************************************************)
(* Two symbols and two ids: an id can be reused under the other symbol,    *)
(* replaced by itself or by a live id, and a level can hold both orders.   *)
(***************************************************************************)
EXTENDS DepthBookMachine

CONSTANTS symA, symB, o1, o2

MCSymbols  == {symA, symB}
MCOrderIds == {o1, o2}
MCPrices   == 1..2
=============================================================================
