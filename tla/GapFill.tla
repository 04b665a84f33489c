------------------------------- MODULE GapFill -------------------------------
(***************************************************************************)
(* The feed end to end, as tests/integration/gap_fill_test.cpp assembles   *)
(* it: a MessageGenerator, a shadow DepthBook that applies each message    *)
(* before it is sent, a UDP multicast network that loses, repeats and      *)
(* reorders datagrams, a FeedHandler, and a recovery requester that asks   *)
(* the snapshot server, whose provider reads the shadow.                   *)
(*                                                                         *)
(* Generating a message, applying it to the shadow and sending it are one  *)
(* action: a message that is not sent yet and one that is still on its way *)
(* look the same to the handler.                                           *)
(***************************************************************************)
EXTENDS FeedHandler, MessageGenerator, BookDomain

CONSTANTS
  Locates,        \* the locates the generator gives its symbols
  SymbolOf,       \* the symbol of each
  Lots,           \* what new orders are for, at one of Prices
  ReduceTypes,    \* which of "X" and "E", which books treat alike, it generates
  MaxMessages     \* bound: the messages generated

\* Every symbol has a locate of its own, and the ids the generator can reach
\* lie below those of the synthetic orders.
ASSUME GapFillAssumption ==
  /\ DOMAIN SymbolOf = Locates
  /\ \A k, l \in Locates : SymbolOf[k] = SymbolOf[l] => k = l
  /\ Lots \subseteq 1..MaxQty
  /\ ReduceTypes \subseteq {"X", "E"}
  /\ MaxMessages \in Nat
  /\ 1..(2 * MaxMessages) \subseteq OrderIds
  /\ 2 * MaxMessages < SyntheticBase

VARIABLES
  gen,          \* the generator
  shadow,       \* the shadow: [db, last_seq], last_seq the last number applied per locate
  sent,         \* every datagram sent, in order
  h,            \* the handler
  inOrder,      \* history: how many datagrams arrived, as long as all of them did, in order
  whole,        \* history: the locates joined at sequence 1 or by a snapshot
  fresh         \* history: the locates a snapshot was installed for since the last message

vars == <<gen, shadow, sent, h, inOrder, whole, fresh>>

Init ==
  /\ gen = NewGenerator
  /\ shadow = [db |-> EmptyDepthBook(Depth), last_seq |-> EmptyMap]
  /\ sent = << >>
  /\ h = NewHandler(Depth)
  /\ inOrder = 0
  /\ whole = {}
  /\ fresh = {}

LiveIds == DOMAIN gen.live
Symbols == {SymbolOf[l] : l \in Locates}

OutOfOrder == -1     \* what inOrder holds once a datagram was lost, repeated or late

-----------------------------------------------------------------------------
(***************************************************************************)
(* The publisher.                                                          *)
(***************************************************************************)

Publish(e) ==
  /\ Len(sent) < MaxMessages
  /\ gen' = e.gen
  /\ shadow' = [db |-> apply(shadow.db, e.datagram.frame).db,
                last_seq |-> Put(shadow.last_seq, e.datagram.loc, e.datagram.seq)]
  /\ sent' = Append(sent, e.datagram)
  /\ fresh' = {}
  /\ UNCHANGED <<h, inOrder, whole>>

PublishAdd ==
  \E l \in Locates, s \in Side, p \in Prices, q \in Lots :
    Publish(gen_add(gen, l, SymbolOf[l], s, p, q))

PublishReduce ==
  \E l \in Locates, type \in ReduceTypes, id \in LiveIds :
    \E q \in 1..gen.live[id].qty : Publish(gen_reduce(gen, l, type, id, q))

PublishDelete == \E l \in Locates, id \in LiveIds : Publish(gen_delete(gen, l, id))

PublishReplace ==
  \E l \in Locates, id \in LiveIds, p \in Prices, q \in Lots :
    Publish(gen_replace(gen, l, id, p, q))

-----------------------------------------------------------------------------
(***************************************************************************)
(* The snapshot server's provider and the requester.                       *)
(***************************************************************************)

\* the provider: the shadow's top-N of the locate's symbol and its last number
Provide(loc) ==
  LET top == snapshot(shadow.db, SymbolOf[loc])
  IN  [stock_locate |-> loc, symbol |-> SymbolOf[loc], bids |-> top.bids, asks |-> top.asks,
       last_applied_seq |-> IF loc \in DOMAIN shadow.last_seq THEN shadow.last_seq[loc] ELSE 0]

\* a TCP request fails at any step or brings the provider's answer
Answers(loc) == {Refused, Recovered(Provide(loc))}

-----------------------------------------------------------------------------
(***************************************************************************)
(* The network and the handler.                                            *)
(***************************************************************************)

\* Any datagram sent can arrive, in any order, again, or never.
Deliver ==
  \E i \in 1..Len(sent) : \E answer \in Answers(sent[i].loc) :
    LET r == on_datagram(h, sent[i], answer)
    IN  /\ h' = r.h
        /\ whole' = IF r.installed \/ (sent[i].seq = 1 /\ sent[i].loc \notin DOMAIN h.gap)
                    THEN whole \cup {sent[i].loc} ELSE whole
        /\ fresh' = IF r.installed THEN fresh \cup {sent[i].loc} ELSE fresh
        /\ inOrder' = IF inOrder = i - 1 THEN i ELSE OutOfOrder
        /\ UNCHANGED <<gen, shadow, sent>>

\* on-demand resync: a snapshot the caller asked for, applied outside a gap
Resync ==
  \E l \in Locates :
    /\ h' = apply_snapshot(h, Provide(l))
    /\ whole' = whole \cup {l}
    /\ fresh' = fresh \cup {l}
    /\ inOrder' = OutOfOrder
    /\ UNCHANGED <<gen, shadow, sent>>

Next ==
  \/ PublishAdd \/ PublishReduce \/ PublishDelete \/ PublishReplace
  \/ Deliver \/ Resync

Spec == Init /\ [][Next]_vars

-----------------------------------------------------------------------------
LastSeq(loc) == Provide(loc).last_applied_seq

\* The handler only knows what was sent, and the generator's live orders have
\* shares and ids it has given out.
TypeOK ==
  /\ \A id \in LiveIds : id < gen.next_order_id /\ gen.live[id].qty > 0
  /\ DOMAIN h.gap \subseteq Locates
  /\ DOMAIN h.db.books \subseteq Symbols
  /\ inOrder \in OutOfOrder..Len(sent)
  /\ fresh \subseteq whole /\ whole \subseteq Locates

\* The generator's vectors of live orders and the book that applies its
\* messages never part: each message names an order the book has, and takes
\* from it what the generator takes.
GeneratorMirrorsShadow ==
  {<<SymbolOf[gen.live[id].loc], id, gen.live[id].side, gen.live[id].price, gen.live[id].qty>> :
     id \in LiveIds} =
  {LET o == shadow.db.books[live[1]].orders[live[2]]
   IN  <<live[1], live[2], o.side, o.price, o.qty>> : live \in LiveOrders(shadow.db)}

\* Every live order of the shadow can be reached through its index, whichever
\* locate the message that names it comes in on.
ShadowRoutesExactly == RoutesExactly(shadow.db)

\* A snapshot is never behind what the handler has applied (the shadow moves
\* before the datagram is sent), so neither recovery nor a resync ever moves a
\* stream back to sequence numbers it has already applied.
CursorNeverBack ==
  [][\A l \in Locates : expected(h'.gap, l) >= expected(h.gap, l)]_vars

\* "a final per-symbol snapshot reconciles the handler's book to the shadow
\* book", docs/gap-fill-recovery.md: while nothing new is sent, a symbol a
\* snapshot was installed for shows the shadow's levels, and late, repeated and
\* reordered datagrams of any locate leave it so.
ResyncConverges ==
  \A l \in fresh : snapshot(h.db, SymbolOf[l]) = snapshot(shadow.db, SymbolOf[l])

\* Without loss or reordering the handler rebuilds the very book of the shadow,
\* its orders, ladders and index included.
InOrderFeedIsExact == inOrder = Len(sent) => h.db = shadow.db

\* The ladder of one side of a symbol.
LadderOf(db, sym, side) ==
  IF sym \in DOMAIN db.books THEN db.books[sym].ladder[side] ELSE EmptyMap

\* "After apply_snapshot(), the handler discards any subsequent multicast packet
\* whose sequence number is <= last_applied_seq and applies the rest in order",
\* docs/gap-fill-recovery.md: a handler whose streams were all joined at their
\* beginning or at a snapshot and have all caught up holds the shadow's ladders.
\* (On instances whose snapshots hold whole ladders: Prices no more than Depth.)
CaughtUpMeansEqual ==
  (\A l \in Locates : l \in whole /\ expected(h.gap, l) = LastSeq(l) + 1) =>
    \A sym \in Symbols, side \in Side :
      LadderOf(h.db, sym, side) = LadderOf(shadow.db, sym, side)

\* "Maintain, per symbol, the top-N price levels for bids and asks",
\* docs/depth-book.md: each side shows as many of its levels as the depth the
\* handler was constructed with allows.
TopNIsMaintained ==
  \A sym \in DOMAIN h.db.books, side \in Side :
    LET b == h.db.books[sym]
    IN  Len(b.top[side]) = LadderSize(b.ladder[side], Depth)
=============================================================================
