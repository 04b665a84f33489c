-------------------------- MODULE SymbolBookMachine --------------------------
(***************************************************************************)
(* One SymbolBook driven by an arbitrary sequence of calls of its public   *)
(* methods, as the unit tests, the fuzz target and DepthBook::apply drive  *)
(* it: known, unknown and duplicate ids, zero quantities, reductions of    *)
(* more than is left, replacements by a live id.                           *)
(***************************************************************************)
EXTENDS BookDomain

VARIABLE book

Init == book = EmptyBook(Depth)

AddOrder ==
  \E id \in OrderIds, s \in Side, p \in Prices, q \in Quantities :
    book' = add_order(book, id, s, p, q)

ModifyOrder ==
  \E id \in OrderIds, q \in Quantities : book' = modify_order(book, id, q)

ReduceOrder ==
  \E id \in OrderIds, q \in Quantities : book' = reduce_order(book, id, q)

DeleteOrder ==
  \E id \in OrderIds : book' = delete_order(book, id)

ReplaceOrder ==
  \E old, new \in OrderIds, p \in Prices, q \in Quantities :
    book' = replace_order(book, old, new, p, q)

Next == AddOrder \/ ModifyOrder \/ ReduceOrder \/ DeleteOrder \/ ReplaceOrder

Spec == Init /\ [][Next]_book

-----------------------------------------------------------------------------
\* Live orders have prices and quantities of the callers, never zero shares,
\* and the ladder is a pair of maps from prices to levels.
TypeOK ==
  /\ book = [depth |-> Depth, orders |-> book.orders, ladder |-> book.ladder, top |-> book.top]
  /\ IsMap(book.orders, OrderIds, Orders)
  /\ DOMAIN book.ladder = Side /\ DOMAIN book.top = Side
  /\ \A s \in Side :
       /\ IsMap(book.ladder[s], Prices, Levels)
       /\ book.top[s] \in Seq(TopLevels)

\* "total_qty (sum of shares of all live orders at this price), order_count
\* (number of live orders at this price)", docs/depth-book.md: after any
\* sequence of calls the incrementally maintained ladder is the aggregate of
\* the live orders, with a level exactly where there is a live order.
LadderMatchesOrders == LadderMatches(book, Prices)

\* The top-N a reader sees is never stale: refresh_top_bids/asks run, directly
\* or through the early return of apply_level_delta, so that after every call
\* the cache is the best Depth levels of the ladder as it is now.
TopIsBest == \A s \in Side : TopMatches(book, s)

\* "Every visible level has total_qty > 0 and order_count > 0",
\* docs/depth-book.md, with the order of the prices and the size of the top-N:
\* the code's own check, which the unit tests run after every mutation.
InvariantsOk == invariants_ok(book)
=============================================================================
