------------------------------ MODULE DepthBook ------------------------------
(***************************************************************************)
(* Class DepthBook of src/core/depth_book.cpp: a SymbolBook per symbol and *)
(* the index that routes the messages that name an order instead of a      *)
(* symbol.  A depth book is a record                                       *)
(*   depth  the capacity new symbol books get                              *)
(*   books  books_: a function from the symbols seen to their books        *)
(*   index  order_to_symbol_: a function from order ids to symbols         *)
(* symbol_key packs the eight characters of a symbol into 64 bits and      *)
(* loses none of them, so a symbol stands for its key and symbol_index_    *)
(* has the domain of books.                                                *)
(***************************************************************************)
EXTENDS SymbolBook

EmptyDepthBook(depth) == [depth |-> depth, books |-> EmptyMap, index |-> EmptyMap]

\* The messages of itch_messages.h that reach the book, by their wire type:
\* A and F add, E and C execute, X cancels, D deletes, U replaces.  S, R and P
\* carry nothing the book uses.
AddMsg(type, sym, id, side, price, shares) ==
  [type |-> type, symbol |-> sym, order_id |-> id, side |-> side, price |-> price,
   shares |-> shares]
ReduceMsg(type, id, shares) == [type |-> type, order_id |-> id, shares |-> shares]
DeleteMsg(id)               == [type |-> "D", order_id |-> id]
ReplaceMsg(id, new_id, price, shares) ==
  [type |-> "U", order_id |-> id, new_order_id |-> new_id, price |-> price, shares |-> shares]
OtherMsg(type)              == [type |-> type]

\* creates the symbol's book at its first use
book_for(db, sym) ==
  IF sym \in DOMAIN db.books THEN db
  ELSE [db EXCEPT !.books = Put(@, sym, EmptyBook(db.depth))]

\* the top-N of a symbol, empty for one never seen
snapshot(db, sym) ==
  IF sym \in DOMAIN db.books
  THEN [bids |-> db.books[sym].top["Buy"], asks |-> db.books[sym].top["Sell"]]
  ELSE [bids |-> << >>, asks |-> << >>]

\* the order is routed to a book that holds it
Routed(db, id) ==
  /\ id \in DOMAIN db.index
  /\ has_order(db.books[db.index[id]], id)

-----------------------------------------------------------------------------
(***************************************************************************)
(* apply returns the book after the message, the value `changed' of the    *)
(* method, and the symbol whose snapshot is emitted when it is true.       *)
(***************************************************************************)

NoChange(db)     == [db |-> db, changed |-> FALSE]
Change(db, sym)  == [db |-> db, changed |-> TRUE, symbol |-> sym]

\* An add is indexed and reported as a change even when the book ignores it.
apply_add(db, m) ==
  Change([book_for(db, m.symbol) EXCEPT
            !.books[m.symbol] = add_order(@, m.order_id, m.side, m.price, m.shares),
            !.index = Put(@, m.order_id, m.symbol)],
         m.symbol)

\* a reduction that is reported as a change only when it drains its order
MutantReportsDrainedOnly(db, m) ==
  IF ~Routed(db, m.order_id)
  THEN NoChange(db)
  ELSE LET sym == db.index[m.order_id]
           b   == reduce_order(db.books[sym], m.order_id, m.shares)
       IN  [Change([db EXCEPT !.books[sym] = b,
                              !.index = IF has_order(b, m.order_id) THEN @
                                        ELSE Erase(@, m.order_id)],
                   sym) EXCEPT !.changed = ~has_order(b, m.order_id)]

\* Executions and cancels: a drained order leaves the index.
apply_reduce(db, m) ==
  IF ~Routed(db, m.order_id)
  THEN NoChange(db)
  ELSE LET sym == db.index[m.order_id]
           b   == reduce_order(db.books[sym], m.order_id, m.shares)
       IN  Change([db EXCEPT !.books[sym] = b,
                             !.index = IF has_order(b, m.order_id) THEN @
                                       ELSE Erase(@, m.order_id)],
                  sym)

\* a delete that forgets order_to_symbol_
MutantDeleteKeepsIndex(db, m) ==
  IF ~Routed(db, m.order_id)
  THEN NoChange(db)
  ELSE LET sym == db.index[m.order_id]
       IN  Change([db EXCEPT !.books[sym] = delete_order(@, m.order_id)], sym)

apply_delete(db, m) ==
  IF ~Routed(db, m.order_id)
  THEN NoChange(db)
  ELSE LET sym == db.index[m.order_id]
       IN  Change([db EXCEPT !.books[sym] = delete_order(@, m.order_id),
                             !.index = Erase(@, m.order_id)],
                  sym)

\* a replacement that leaves the replaced id in order_to_symbol_
MutantReplaceKeepsOldId(db, m) ==
  IF ~Routed(db, m.order_id)
  THEN NoChange(db)
  ELSE LET sym == db.index[m.order_id]
       IN  Change([db EXCEPT
                     !.books[sym] = replace_order(@, m.order_id, m.new_order_id,
                                                  m.price, m.shares),
                     !.index = Put(@, m.new_order_id, sym)],
                  sym)

\* The new order stays in the book, and on the side, of the one it replaces.
apply_replace(db, m) ==
  IF ~Routed(db, m.order_id)
  THEN NoChange(db)
  ELSE LET sym == db.index[m.order_id]
       IN  Change([db EXCEPT
                     !.books[sym] = replace_order(@, m.order_id, m.new_order_id,
                                                  m.price, m.shares),
                     !.index = Put(Erase(@, m.order_id), m.new_order_id, sym)],
                  sym)

apply(db, m) ==
  CASE m.type \in {"A", "F"}      -> apply_add(db, m)
    [] m.type \in {"E", "C", "X"} -> apply_reduce(db, m)
    [] m.type = "D"               -> apply_delete(db, m)
    [] m.type = "U"               -> apply_replace(db, m)
    [] OTHER                      -> NoChange(db)

-----------------------------------------------------------------------------
\* The live orders, each with the symbol of the book that holds it.
LiveOrders(db) ==
  UNION {{sym} \X DOMAIN db.books[sym].orders : sym \in DOMAIN db.books}

\* The index routes exactly the live orders, each to the book that holds it.
RoutesExactly(db) ==
  LiveOrders(db) = {<<db.index[id], id>> : id \in DOMAIN db.index}
=============================================================================
