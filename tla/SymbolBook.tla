----------------------------- MODULE SymbolBook -----------------------------
(***************************************************************************)
(* The per-symbol order book of src/core/depth_book.cpp as a value and the *)
(* operations of class SymbolBook as operators from a book to a book.      *)
(*                                                                         *)
(* A book is a record                                                      *)
(*   depth   the capacity depth_ of the materialised top-N                 *)
(*   orders  orders_: a function from the live order ids to order states   *)
(*   ladder  bid_levels_ / ask_levels_: per side, a function from the      *)
(*           prices of the ladder to price levels                          *)
(*   top     top_bids_ / top_asks_: per side, the cached sequence of the   *)
(*           best levels, which is all that readers of the book see        *)
(*                                                                         *)
(* The timestamps (last_ts_, OrderState::ts) and OrderState::symbol, which *)
(* no operation reads back, are left out.  A mutating method that returns  *)
(* false leaves the book alone, and does so exactly when the id it is      *)
(* given is unknown, so callers of an operator test has_order for the      *)
(* value the method returns.                                               *)
(***************************************************************************)
EXTENDS Integers, Sequences, FiniteSets, Functions

CONSTANT
  QtyMod      \* a Quantity is an unsigned integer below QtyMod (2^32 in the code)

ASSUME QtyModAssumption == QtyMod \in Nat \ {0}

Side == {"Buy", "Sell"}

\* static_cast<Quantity> of a 64-bit signed sum
Quantity(n) == n % QtyMod

\* std::map / std::unordered_map as partial functions: insert or assign, erase
Put(f, k, v)  == [x \in DOMAIN f \cup {k} |-> IF x = k THEN v ELSE f[x]]
Erase(f, k)   == Restrict(f, DOMAIN f \ {k})
EmptyMap      == [x \in {} |-> x]

\* f is a partial function from S to T
IsMap(f, S, T) == DOMAIN f \subseteq S /\ f \in [DOMAIN f -> T]

-----------------------------------------------------------------------------
(***************************************************************************)
(* The ladder and its cached top-N.                                        *)
(***************************************************************************)

PriceLevel(qty, count) == [total_qty |-> qty, order_count |-> count]

\* the order in which the two std::maps iterate: bids descending, asks ascending
Better(side, p, q) == IF side = "Buy" THEN p > q ELSE p < q

BetterPrices(side, prices, p) == {q \in prices : Better(side, q, p)}

\* the price in position i of that iteration
PriceAt(side, prices, i) ==
  CHOOSE p \in prices : Cardinality(BetterPrices(side, prices, p)) = i - 1

LadderSize(lad, depth) ==
  IF Cardinality(DOMAIN lad) < depth THEN Cardinality(DOMAIN lad) ELSE depth

\* refresh_top_bids / refresh_top_asks: the first depth_ levels of the ladder
refresh_top(side, lad, depth) ==
  [i \in 1..LadderSize(lad, depth) |->
     LET p == PriceAt(side, DOMAIN lad, i)
     IN  [price |-> p, total_qty |-> lad[p].total_qty, order_count |-> lad[p].order_count]]

\* The ladder after a change at one price.  A missing level is created by a
\* positive change only; a level left without shares or orders is erased.
ShiftLevel(lad, price, qty_delta, count_delta) ==
  IF price \notin DOMAIN lad
  THEN Put(lad, price, PriceLevel(Quantity(qty_delta), count_delta))
  ELSE LET nq == lad[price].total_qty + qty_delta
           nc == lad[price].order_count + count_delta
       IN  IF nq <= 0 \/ nc <= 0
           THEN Erase(lad, price)
           ELSE Put(lad, price, PriceLevel(Quantity(nq), nc))

\* A plausible optimisation of the code that is wrong: refresh the cached
\* top-N only when a level appears or disappears.
MutantRefreshOnNewLevel(b, side, price, qty_delta, count_delta) ==
  LET lad == ShiftLevel(b.ladder[side], price, qty_delta, count_delta)
  IN  IF price \notin DOMAIN b.ladder[side] /\ qty_delta <= 0
      THEN b
      ELSE IF DOMAIN lad = DOMAIN b.ladder[side]
      THEN [b EXCEPT !.ladder[side] = lad]
      ELSE [b EXCEPT !.ladder[side] = lad,
                     !.top[side]    = refresh_top(side, lad, b.depth)]

apply_level_delta(b, side, price, qty_delta, count_delta) ==
  IF price \notin DOMAIN b.ladder[side] /\ qty_delta <= 0
  THEN b
  ELSE LET lad == ShiftLevel(b.ladder[side], price, qty_delta, count_delta)
       IN  [b EXCEPT !.ladder[side] = lad,
                     !.top[side]    = refresh_top(side, lad, b.depth)]

-----------------------------------------------------------------------------
(***************************************************************************)
(* The public operations.                                                  *)
(***************************************************************************)

EmptyBook(depth) ==
  [depth  |-> depth,
   orders |-> EmptyMap,
   ladder |-> [s \in Side |-> EmptyMap],
   top    |-> [s \in Side |-> << >>]]

OrderState(side, price, qty) == [side |-> side, price |-> price, qty |-> qty]

has_order(b, id) == id \in DOMAIN b.orders

\* An order for no shares and an order whose id is live are both ignored.
add_order(b, id, side, price, qty) ==
  IF qty = 0 \/ has_order(b, id)
  THEN b
  ELSE apply_level_delta([b EXCEPT !.orders = Put(@, id, OrderState(side, price, qty))],
                         side, price, qty, 1)

\* erases the order and takes its shares off its level
delete_order(b, id) ==
  IF ~has_order(b, id)
  THEN b
  ELSE LET o == b.orders[id]
       IN  apply_level_delta([b EXCEPT !.orders = Erase(@, id)], o.side, o.price, -o.qty, -1)

\* modify_order that gives the level the new quantity instead of the change
MutantLevelGetsNewQty(b, id, new_qty) ==
  IF ~has_order(b, id) \/ new_qty = b.orders[id].qty
  THEN b
  ELSE IF new_qty = 0
  THEN delete_order(b, id)
  ELSE LET o == b.orders[id]
       IN  apply_level_delta([b EXCEPT !.orders = Put(@, id, [o EXCEPT !.qty = new_qty])],
                             o.side, o.price, new_qty, 0)

\* modify_order without the case that removes an order left with no shares
MutantKeepsEmptyOrder(b, id, new_qty) ==
  IF ~has_order(b, id) \/ new_qty = b.orders[id].qty
  THEN b
  ELSE LET o == b.orders[id]
       IN  apply_level_delta([b EXCEPT !.orders = Put(@, id, [o EXCEPT !.qty = new_qty])],
                             o.side, o.price, new_qty - o.qty, 0)

\* new_qty = 0 removes the order; an unchanged quantity touches no level
modify_order(b, id, new_qty) ==
  IF ~has_order(b, id) \/ new_qty = b.orders[id].qty
  THEN b
  ELSE IF new_qty = 0
  THEN delete_order(b, id)
  ELSE LET o == b.orders[id]
       IN  apply_level_delta([b EXCEPT !.orders = Put(@, id, [o EXCEPT !.qty = new_qty])],
                             o.side, o.price, new_qty - o.qty, 0)

\* an execution or cancel for more than is left takes what is left
reduce_order(b, id, delta) ==
  IF ~has_order(b, id)
  THEN b
  ELSE LET cur == b.orders[id].qty
       IN  modify_order(b, id, IF delta >= cur THEN 0 ELSE cur - delta)

\* the new order keeps the side of the one it replaces
replace_order(b, old_id, new_id, new_price, new_qty) ==
  IF ~has_order(b, old_id)
  THEN b
  ELSE add_order(delete_order(b, old_id), new_id, b.orders[old_id].side, new_price, new_qty)

\* the check the code's unit tests run after every mutation
invariants_ok(b) ==
  \A side \in Side :
    /\ Len(b.top[side]) <= b.depth
    /\ \A i \in 2..Len(b.top[side]) :
         Better(side, b.top[side][i - 1].price, b.top[side][i].price)
    /\ \A i \in 1..Len(b.top[side]) :
         b.top[side][i].order_count # 0 /\ b.top[side][i].total_qty # 0

-----------------------------------------------------------------------------
(***************************************************************************)
(* What a book's ladder and top-N should hold, said of its live orders.    *)
(***************************************************************************)

OrdersAt(orders, s, p) ==
  {id \in DOMAIN orders : orders[id].side = s /\ orders[id].price = p}

\* The shares resting at a price, one element per share: its cardinality is
\* the sum of the quantities of the orders there.
SharesAt(orders, s, p) ==
  UNION {{id} \X (1..orders[id].qty) : id \in OrdersAt(orders, s, p)}

\* A level exactly where there is a live order, holding their number and sum.
LevelMatches(b, s, p) ==
  IF OrdersAt(b.orders, s, p) = {}
  THEN p \notin DOMAIN b.ladder[s]
  ELSE /\ p \in DOMAIN b.ladder[s]
       /\ b.ladder[s][p].order_count = Cardinality(OrdersAt(b.orders, s, p))
       /\ b.ladder[s][p].total_qty = Cardinality(SharesAt(b.orders, s, p))

LadderMatches(b, prices) ==
  \A s \in Side : \A p \in prices \cup DOMAIN b.ladder[s] : LevelMatches(b, s, p)

\* The cached top-N holds ladder levels as they are, in strict price order, as
\* many as fit, and every level left out is worse than each one in it.
TopMatches(b, s) ==
  LET top == b.top[s]
      lad == b.ladder[s]
      shown == {top[i].price : i \in 1..Len(top)}
  IN  /\ \A i \in 1..Len(top) :
           /\ top[i].price \in DOMAIN lad
           /\ lad[top[i].price] = PriceLevel(top[i].total_qty, top[i].order_count)
      /\ \A i, j \in 1..Len(top) : i < j => Better(s, top[i].price, top[j].price)
      /\ \A p \in shown, q \in DOMAIN lad \ shown : Better(s, p, q)
      /\ Len(top) <= b.depth
      /\ Len(top) = b.depth \/ shown = DOMAIN lad
=============================================================================
