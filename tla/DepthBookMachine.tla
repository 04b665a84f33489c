-------------------------- MODULE DepthBookMachine --------------------------
(***************************************************************************)
(* A DepthBook fed an arbitrary sequence of messages, with a consumer that *)
(* keeps the last snapshot the callback delivered for each symbol.         *)
(***************************************************************************)
EXTENDS DepthBook, BookDomain

CONSTANT Symbols

VARIABLES
  db,           \* the depth book
  view,         \* the consumer's copy of each symbol's top-N
  clean         \* no message so far added a live id or an order for no shares

vars == <<db, view, clean>>

Init ==
  /\ db = EmptyDepthBook(Depth)
  /\ view = [sym \in Symbols |-> [bids |-> << >>, asks |-> << >>]]
  /\ clean = TRUE

\* emit_snapshot: the callback receives the top-N of the changed symbol
emit_snapshot(r) ==
  view' = IF r.changed THEN [view EXCEPT ![r.symbol] = snapshot(r.db, r.symbol)] ELSE view

Handle(m) ==
  LET r == apply(db, m)
  IN  db' = r.db /\ emit_snapshot(r)

\* Whether the id an add or a replacement brings is new, and has shares.  A
\* replacement may give the new order the id it replaces.
IsLive(id) == \E sym \in DOMAIN db.books : has_order(db.books[sym], id)
Proper(new_id, old_id, shares) == shares > 0 /\ (new_id = old_id \/ ~IsLive(new_id))

Add(type) ==
  \E sym \in Symbols, id \in OrderIds, s \in Side, p \in Prices, q \in Quantities :
    /\ Handle(AddMsg(type, sym, id, s, p, q))
    /\ clean' = (clean /\ q > 0 /\ ~IsLive(id))

AddOrder     == Add("A")
AddOrderMPID == Add("F")

Reduce(type) ==
  \E id \in OrderIds, q \in Quantities :
    Handle(ReduceMsg(type, id, q)) /\ UNCHANGED clean

OrderExecuted          == Reduce("E")
OrderExecutedWithPrice == Reduce("C")
OrderCancel            == Reduce("X")

OrderDelete ==
  \E id \in OrderIds : Handle(DeleteMsg(id)) /\ UNCHANGED clean

OrderReplace ==
  \E id, new_id \in OrderIds, p \in Prices, q \in Quantities :
    /\ Handle(ReplaceMsg(id, new_id, p, q))
    /\ clean' = (clean /\ (Routed(db, id) => Proper(new_id, id, q)))

NoBookImpact ==
  \E type \in {"S", "R", "P"} : Handle(OtherMsg(type)) /\ UNCHANGED clean

Next ==
  \/ AddOrder \/ AddOrderMPID
  \/ OrderExecuted \/ OrderExecutedWithPrice \/ OrderCancel
  \/ OrderDelete \/ OrderReplace \/ NoBookImpact

Spec == Init /\ [][Next]_vars

-----------------------------------------------------------------------------
\* The index and the books speak of the same symbols and ids, and live orders
\* have shares.
TypeOK ==
  /\ DOMAIN db.books \subseteq Symbols
  /\ \A sym \in DOMAIN db.books : \A id \in DOMAIN db.books[sym].orders :
       id \in OrderIds /\ db.books[sym].orders[id].qty \in 1..MaxQty
  /\ DOMAIN db.index \subseteq OrderIds
  /\ \A id \in DOMAIN db.index : db.index[id] \in DOMAIN db.books
  /\ clean \in BOOLEAN

\* "On every book mutation that changes state, DepthBook emits a DepthSnapshot
\* event", docs/depth-book.md: a consumer that only listens to the callback
\* always holds the top-N of every symbol, whatever messages arrive.
ConsumerIsCurrent == \A sym \in Symbols : view[sym] = snapshot(db, sym)

\* As long as adds and replacements bring new ids with shares, every live order
\* can be reached by its id, in exactly one book, and no id is left over in
\* order_to_symbol_ for an order that is gone.
RoutingIsExact == clean => RoutesExactly(db)

\* Whatever the messages, each symbol's ladder stays the aggregate of its own
\* live orders: routing by id never takes shares off another symbol's levels.
BooksMatchOrders ==
  \A sym \in DOMAIN db.books : LadderMatches(db.books[sym], Prices)
=============================================================================
