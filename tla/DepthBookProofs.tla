--------------------------- MODULE DepthBookProofs ---------------------------
(***************************************************************************)
(* Theorems about DepthBookMachine for every set of symbols, ids and       *)
(* prices, every bound on shares, capacity and width of a Quantity.        *)
(*                                                                         *)
(* The argument: a message changes at most one symbol's book, by an        *)
(* operation that keeps a book sound, and the index with it (Replaces);    *)
(* the callback names that symbol, so the views of the others stay true;   *)
(* and ids enter and leave the book and the index together                 *)
(* (RoutingStep), which is where the condition on new ids is needed.       *)
(***************************************************************************)
EXTENDS DepthBookMachine, OperatorLemmas

-----------------------------------------------------------------------------
(***************************************************************************)
(* The inductive invariant and what it implies.                            *)
(***************************************************************************)

IInv ==
  /\ Books(db, Symbols)
  /\ DOMAIN view = Symbols
  /\ ConsumerIsCurrent
  /\ clean \in BOOLEAN
  /\ clean => Routes(db)

\* A depth book with no symbols, an empty index and empty views.
LEMMA InitInv == Init => IInv
<1> SUFFICES ASSUME Init PROVE IInv
  OBVIOUS
<1>1. db = [depth |-> Depth, books |-> EmptyMap, index |-> EmptyMap]
  BY DEF Init, EmptyDepthBook
<1>2. DOMAIN EmptyMap = {} /\ EmptyMap = [x \in DOMAIN EmptyMap |-> EmptyMap[x]]
  BY DEF EmptyMap
<1>3. db.books = EmptyMap /\ db.index = EmptyMap
  BY <1>1
<1>4. IsMap(db.index, OrderIds, DOMAIN db.books)
  BY <1>2, <1>3 DEF IsMap
<1>5. Books(db, Symbols)
  BY <1>1, <1>2, <1>3, <1>4, DomainAssumption DEF Books
<1>6. Routes(db)
  BY <1>2, <1>3 DEF Routes, Holds
<1>7. ConsumerIsCurrent
  BY <1>2, <1>3 DEF Init, ConsumerIsCurrent, snapshot
<1> QED
  BY <1>5, <1>6, <1>7 DEF Init, IInv

\* A handled message keeps everything but the part about routing.
LEMMA HandleStep ==
  ASSUME IInv, NEW r, Books(r.db, Symbols), Tells(db, r, Symbols), db' = r.db, emit_snapshot(r)
  PROVE  Books(db', Symbols) /\ DOMAIN view' = Symbols /\ ConsumerIsCurrent'
<1>1. CASE r = NoChange(db)
  BY <1>1 DEF IInv, NoChange, emit_snapshot, ConsumerIsCurrent
<1>2. CASE r # NoChange(db)
  <2>1. /\ r.symbol \in Symbols
        /\ view' = [view EXCEPT ![r.symbol] = snapshot(r.db, r.symbol)]
        /\ \A t \in Symbols \ {r.symbol} : snapshot(r.db, t) = snapshot(db, t)
    BY <1>2 DEF Tells, emit_snapshot
  <2>2. DOMAIN view' = Symbols
    BY <2>1 DEF IInv
  <2>3. \A t \in Symbols : view'[t] = snapshot(db', t)
    BY <2>1 DEF IInv, ConsumerIsCurrent
  <2> QED
    BY <2>2, <2>3 DEF ConsumerIsCurrent
<1> QED
  BY <1>1, <1>2

\* An id no book holds is one that no symbol holds, and routed is live.
LEMMA NotLive ==
  ASSUME NEW id
  PROVE  ~IsLive(id) <=> NoOneHolds(db, id)
  BY DEF IsLive, NoOneHolds, Holds, Ids, has_order

\* Every message keeps it: one step per action.
LEMMA NextInv == IInv /\ [Next]_vars => IInv'
<1> SUFFICES ASSUME IInv, [Next]_vars PROVE IInv'
  OBVIOUS
<1>1. Books(db, Symbols) /\ clean \in BOOLEAN /\ (clean => Routes(db))
  BY DEF IInv
<1>2. ASSUME NEW type \in {"A", "F"}, Add(type)
      PROVE  IInv'
  <2>1. PICK sym \in Symbols, id \in OrderIds, s \in Side, p \in Prices, q \in Quantities :
          /\ Handle(AddMsg(type, sym, id, s, p, q))
          /\ clean' = (clean /\ q > 0 /\ ~IsLive(id))
    BY <1>2 DEF Add
  <2> DEFINE r == apply_add(db, AddMsg(type, sym, id, s, p, q))
  <2>2. db' = r.db /\ emit_snapshot(r)
    BY <1>2, <2>1 DEF Handle, apply, AddMsg
  <2>3. /\ Books(r.db, Symbols) /\ Tells(db, r, Symbols)
        /\ Routes(db) /\ q > 0 /\ NoOneHolds(db, id) => Routes(r.db)
    BY <1>1, AddStep
  <2> HIDE DEF r
  <2>4. Books(db', Symbols) /\ DOMAIN view' = Symbols /\ ConsumerIsCurrent'
    BY <2>2, <2>3, HandleStep
  <2>5. clean' \in BOOLEAN /\ (clean' => Routes(db'))
    BY <1>1, <2>1, <2>2, <2>3, NotLive
  <2> QED
    BY <2>4, <2>5 DEF IInv
<1>3. ASSUME NEW type \in {"E", "C", "X"}, Reduce(type)
      PROVE  IInv'
  <2>1. PICK id \in OrderIds, q \in Quantities :
          Handle(ReduceMsg(type, id, q)) /\ UNCHANGED clean
    BY <1>3 DEF Reduce
  <2> DEFINE r == apply_reduce(db, ReduceMsg(type, id, q))
  <2>2. db' = r.db /\ emit_snapshot(r)
    BY <1>3, <2>1 DEF Handle, apply, ReduceMsg
  <2>3. Books(r.db, Symbols) /\ Tells(db, r, Symbols) /\ (Routes(db) => Routes(r.db))
    BY <1>1, ReduceStep
  <2> HIDE DEF r
  <2>4. Books(db', Symbols) /\ DOMAIN view' = Symbols /\ ConsumerIsCurrent'
    BY <2>2, <2>3, HandleStep
  <2> QED
    BY <1>1, <2>1, <2>2, <2>3, <2>4 DEF IInv
<1>4. ASSUME OrderDelete
      PROVE  IInv'
  <2>1. PICK id \in OrderIds : Handle(DeleteMsg(id)) /\ UNCHANGED clean
    BY <1>4 DEF OrderDelete
  <2> DEFINE r == apply_delete(db, DeleteMsg(id))
  <2>2. db' = r.db /\ emit_snapshot(r)
    BY <2>1 DEF Handle, apply, DeleteMsg
  <2>3. Books(r.db, Symbols) /\ Tells(db, r, Symbols) /\ (Routes(db) => Routes(r.db))
    BY <1>1, DeleteStep
  <2> HIDE DEF r
  <2>4. Books(db', Symbols) /\ DOMAIN view' = Symbols /\ ConsumerIsCurrent'
    BY <2>2, <2>3, HandleStep
  <2> QED
    BY <1>1, <2>1, <2>2, <2>3, <2>4 DEF IInv
<1>5. ASSUME OrderReplace
      PROVE  IInv'
  <2>1. PICK id \in OrderIds, new_id \in OrderIds, p \in Prices, q \in Quantities :
          /\ Handle(ReplaceMsg(id, new_id, p, q))
          /\ clean' = (clean /\ (Routed(db, id) => Proper(new_id, id, q)))
    BY <1>5 DEF OrderReplace
  <2> DEFINE r == apply_replace(db, ReplaceMsg(id, new_id, p, q))
  <2>2. db' = r.db /\ emit_snapshot(r)
    BY <2>1 DEF Handle, apply, ReplaceMsg
  <2>3. /\ Books(r.db, Symbols) /\ Tells(db, r, Symbols)
        /\ Routes(db) /\ (Routed(db, id) => q > 0 /\ (new_id = id \/ NoOneHolds(db, new_id)))
             => Routes(r.db)
    BY <1>1, ReplaceStep
  <2> HIDE DEF r
  <2>4. Books(db', Symbols) /\ DOMAIN view' = Symbols /\ ConsumerIsCurrent'
    BY <2>2, <2>3, HandleStep
  <2>5. clean' \in BOOLEAN /\ (clean' => Routes(db'))
    BY <1>1, <2>1, <2>2, <2>3, NotLive DEF Proper
  <2> QED
    BY <2>4, <2>5 DEF IInv
<1>6. ASSUME NoBookImpact
      PROVE  IInv'
  <2>1. PICK type \in {"S", "R", "P"} : Handle(OtherMsg(type)) /\ UNCHANGED clean
    BY <1>6 DEF NoBookImpact
  <2>2. db' = db /\ emit_snapshot(NoChange(db))
    BY <2>1 DEF Handle, apply, OtherMsg, NoChange
  <2> QED
    BY <2>1, <2>2 DEF IInv, emit_snapshot, NoChange, ConsumerIsCurrent
<1>7. ASSUME UNCHANGED vars
      PROVE  IInv'
  BY <1>7 DEF vars, IInv, ConsumerIsCurrent
<1> QED
  BY <1>2, <1>3, <1>4, <1>5, <1>6, <1>7
     DEF Next, AddOrder, AddOrderMPID, OrderExecuted, OrderExecutedWithPrice, OrderCancel

\* IInv holds in every reachable state.
LEMMA Inductive == Spec => []IInv
  BY InitInv, NextInv, PTL DEF Spec

\* Whatever messages arrive, the index and the books speak of the same symbols
\* and ids, and live orders have shares.
THEOREM TypeCorrect == Spec => []TypeOK
<1>1. IInv => TypeOK
  <2> SUFFICES ASSUME IInv PROVE TypeOK
    OBVIOUS
  <2>1. ASSUME NEW sym \in DOMAIN db.books, NEW id \in DOMAIN db.books[sym].orders
        PROVE  id \in OrderIds /\ db.books[sym].orders[id].qty \in 1..MaxQty
    <3>1. IsMap(db.books[sym].orders, OrderIds, Orders)
      BY DEF IInv, Books, Sound, WellFormed
    <3>2. id \in OrderIds /\ db.books[sym].orders[id] \in Orders
      BY <3>1 DEF IsMap
    <3> QED
      BY <3>2, DomainAssumption DEF Orders, Quantities
  <2> QED
    BY <2>1 DEF IInv, Books, IsMap, TypeOK
<1> QED
  BY <1>1, Inductive, PTL

\* A consumer that only listens to the snapshot callback always holds the top-N
\* of every symbol.
THEOREM ConsumerCorrect == Spec => []ConsumerIsCurrent
<1>1. IInv => ConsumerIsCurrent
  BY DEF IInv
<1> QED
  BY <1>1, Inductive, PTL

\* While ids are proper, order_to_symbol_ routes exactly the live orders, each
\* to the one book that holds it.
THEOREM RoutingCorrect == Spec => []RoutingIsExact
<1>1. IInv => RoutingIsExact
  BY RoutesPairwise DEF IInv, RoutingIsExact
<1> QED
  BY <1>1, Inductive, PTL

\* When no sum of quantities can wrap, every symbol's ladder is the aggregate of
\* its own live orders, proper ids or not.
THEOREM LaddersCorrect ==
  ASSUME NoWrap
  PROVE  Spec => []BooksMatchOrders
<1>1. IInv => BooksMatchOrders
  <2> SUFFICES ASSUME IInv, NEW sym \in DOMAIN db.books
               PROVE  LadderMatches(db.books[sym], Prices)
    BY DEF BooksMatchOrders
  <2> DEFINE b == db.books[sym]
  <2>1. Sound(b)
    BY DEF IInv, Books
  <2> HIDE DEF b
  <2>2. \A s \in Side : DOMAIN b.ladder[s] \subseteq Prices
    BY <2>1 DEF Sound, WellFormed, IsMap
  <2>3. LadderMatches(b, Prices)
    BY <2>1, <2>2, NoWrap DEF Sound, LadderMatches
  <2> QED
    BY <2>3 DEF b
<1> QED
  BY <1>1, Inductive, PTL
=============================================================================
