-------------------------- MODULE MessageGenerator --------------------------
(***************************************************************************)
(* Class MessageGenerator of src/sim/publisher.{h,cpp}, the source of the  *)
(* simulated feed.  A generator is a record                                *)
(*   live           live_orders_ and the four vectors beside it: a         *)
(*                  function from the live order ids to their locate,      *)
(*                  side, price and quantity left                          *)
(*   next_order_id  next_order_id_, which also stamps every message        *)
(*   next_seq       next_seq_: the next sequence number of each locate     *)
(* next() draws at random a symbol, an action, an order and the numbers;   *)
(* here each draw is a parameter.  The header's locate is that of the      *)
(* symbol drawn, also when the message is for an order of another symbol.  *)
(***************************************************************************)
EXTENDS DepthBook

NewGenerator == [live |-> EmptyMap, next_order_id |-> 1, next_seq |-> EmptyMap]

\* the numbers next() gives a message on a locate: 1, 2, 3, ...
SequenceOn(gen, loc) == IF loc \in DOMAIN gen.next_seq THEN gen.next_seq[loc] ELSE 1

\* A message leaves under the header's locate, and its stamp takes an id.
Emit(gen, loc, m, live, ids) ==
  [gen |-> [live |-> live,
            next_order_id |-> gen.next_order_id + ids,
            next_seq |-> Put(gen.next_seq, loc, SequenceOn(gen, loc) + 1)],
   datagram |-> [loc |-> loc, seq |-> SequenceOn(gen, loc), frame |-> m]]

LiveOrder(loc, side, price, qty) ==
  [loc |-> loc, side |-> side, price |-> price, qty |-> qty]

gen_add(gen, loc, sym, side, price, qty) ==
  Emit(gen, loc, AddMsg("A", sym, gen.next_order_id, side, price, qty),
       Put(gen.live, gen.next_order_id, LiveOrder(loc, side, price, qty)), 1)

\* an account that keeps an order whose last share went
MutantKeepsDrained(live, id, shares) ==
  IF shares > live[id].qty THEN Erase(live, id)
  ELSE Put(live, id, [live[id] EXCEPT !.qty = @ - shares])

\* the generator's own account of an execution or a partial cancel
Reduced(live, id, shares) ==
  IF shares >= live[id].qty THEN Erase(live, id)
  ELSE Put(live, id, [live[id] EXCEPT !.qty = @ - shares])

\* type "X" or "E"
gen_reduce(gen, loc, type, id, shares) ==
  Emit(gen, loc, ReduceMsg(type, id, shares), Reduced(gen.live, id, shares), 1)

gen_delete(gen, loc, id) ==
  Emit(gen, loc, DeleteMsg(id), Erase(gen.live, id), 1)

\* a replacement that does not consume the id of its new order
MutantReplaceReusesId(gen, loc, id, price, qty) ==
  LET new_id == gen.next_order_id + 1
  IN  Emit(gen, loc, ReplaceMsg(id, new_id, price, qty),
           Put(Erase(gen.live, id), new_id,
               [gen.live[id] EXCEPT !.price = price, !.qty = qty]),
           1)

\* a replacement takes one id for its stamp and one for the new order
gen_replace(gen, loc, id, price, qty) ==
  LET new_id == gen.next_order_id + 1
  IN  Emit(gen, loc, ReplaceMsg(id, new_id, price, qty),
           Put(Erase(gen.live, id), new_id,
               [gen.live[id] EXCEPT !.price = price, !.qty = qty]),
           2)
=============================================================================
