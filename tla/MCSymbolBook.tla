---------------------------- MODULE MCSymbolBook ----------------------------
(***************************************************************************)
(* Three orders at three prices on a book of depth two: a level can hold   *)
(* two orders, be hidden behind the top-N and surface when a better one    *)
(* goes.                                                                   *)
(***************************************************************************)
EXTENDS SymbolBookMachine

CONSTANTS o1, o2, o3

MCOrderIds == {o1, o2, o3}
MCPrices   == 1..3
=============================================================================
