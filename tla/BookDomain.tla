------------------------------ MODULE BookDomain ------------------------------
(***************************************************************************)
(* The ids, prices and quantities the callers of a book use, and what its  *)
(* orders and levels can then hold.                                        *)
(***************************************************************************)
EXTENDS SymbolBook

CONSTANTS
  OrderIds,     \* the order ids callers use
  Prices,       \* the prices they use
  MaxQty,       \* the largest quantity they use; zero is a legal one
  Depth         \* the capacity a book is constructed with

ASSUME DomainAssumption ==
  /\ IsFiniteSet(OrderIds)
  /\ Prices \subseteq Nat
  /\ MaxQty \in Nat /\ MaxQty < QtyMod
  /\ Depth \in Nat

Quantities == 0..MaxQty

Orders    == [side : Side, price : Prices, qty : Quantities \ {0}]
Levels    == [total_qty : 0..(QtyMod - 1), order_count : Nat]
TopLevels == [price : Prices, total_qty : 0..(QtyMod - 1), order_count : Nat]

\* the levels of the snapshots a caller installs
LevelsInUse == [price : Prices, total_qty : Quantities, order_count : Nat]

\* No sum of the quantities in use can reach QtyMod.
NoWrap == Cardinality(OrderIds) * MaxQty < QtyMod
=============================================================================
