-------------------------- MODULE SymbolBookProofs --------------------------
(***************************************************************************)
(* Theorems about SymbolBookMachine for every set of ids and prices, every *)
(* quantity bound, top-N capacity and width of a Quantity: every call      *)
(* keeps the book sound, by the lemmas about the operations, and a sound   *)
(* book has the properties.                                                *)
(***************************************************************************)
EXTENDS SymbolBookMachine, OperatorLemmas

\* The inductive invariant.
IInv == Sound(book) /\ book.depth = Depth

\* The constructor's book is sound.
LEMMA InitSound == Init => IInv
  BY EmptySound, DomainAssumption DEF Init, IInv

\* Every call keeps it: one step per action.
LEMMA NextKeepsSound == IInv /\ [Next]_book => IInv'
<1> SUFFICES ASSUME Sound(book), book.depth = Depth, [Next]_book
             PROVE  Sound(book') /\ book'.depth = Depth
  BY DEF IInv
<1>1. CASE AddOrder
  BY <1>1, AddKeepsSound DEF AddOrder
<1>2. CASE ModifyOrder
  BY <1>2, ModifyKeepsSound DEF ModifyOrder
<1>3. CASE ReduceOrder
  BY <1>3, ReduceKeepsSound DEF ReduceOrder
<1>4. CASE DeleteOrder
  BY <1>4, DeleteKeepsSound DEF DeleteOrder
<1>5. CASE ReplaceOrder
  BY <1>5, ReplaceKeepsSound DEF ReplaceOrder
<1>6. CASE UNCHANGED book
  BY <1>6
<1> QED
  BY <1>1, <1>2, <1>3, <1>4, <1>5, <1>6 DEF Next

\* IInv holds in every reachable state.
THEOREM Inductive == Spec => []IInv
  BY InitSound, NextKeepsSound, PTL DEF Spec

\* Whatever the callers do the book keeps its type.
THEOREM TypeCorrect == Spec => []TypeOK
<1>1. IInv => TypeOK
  BY WellFormedTop DEF IInv, Sound, WellFormed, TypeOK
<1> QED
  BY <1>1, Inductive, PTL

\* The cached top-N is never stale, wrapping or not.
THEOREM TopCorrect == Spec => []TopIsBest
<1>1. IInv => TopIsBest
  BY WellFormedTop DEF IInv, Sound, TopIsBest
<1> QED
  BY <1>1, Inductive, PTL

\* When no sum of quantities can wrap, every level of the ladder is the
\* aggregate of the live orders at its price and there are no other levels.
THEOREM LadderCorrect ==
  ASSUME NoWrap
  PROVE  Spec => []LadderMatchesOrders
<1>1. IInv => LadderMatchesOrders
  <2> SUFFICES ASSUME Sound(book) PROVE LadderMatches(book, Prices)
    BY DEF IInv, LadderMatchesOrders
  <2>1. \A s \in Side : DOMAIN book.ladder[s] \subseteq Prices
    BY DEF Sound, WellFormed, IsMap
  <2> QED
    BY <2>1, NoWrap DEF Sound, LadderMatches
<1> QED
  BY <1>1, Inductive, PTL

\* And then the code's own check never fails.
THEOREM InvariantsOkCorrect ==
  ASSUME NoWrap
  PROVE  Spec => []InvariantsOk
<1>1. IInv => InvariantsOk
  <2> SUFFICES ASSUME Sound(book), NEW s \in Side
                 PROVE  /\ Len(book.top[s]) <= book.depth
                        /\ \A i \in 2..Len(book.top[s]) :
                             Better(s, book.top[s][i - 1].price, book.top[s][i].price)
                        /\ \A i \in 1..Len(book.top[s]) :
                             book.top[s][i].order_count # 0 /\ book.top[s][i].total_qty # 0
    BY DEF IInv, InvariantsOk, invariants_ok
  <2> DEFINE top == book.top[s]
             lad == book.ladder[s]
  <2>2. top \in Seq(TopLevels) /\ TopMatches(book, s) /\ Len(top) \in Nat
    BY WellFormedTop DEF Sound
  <2>3. \A i \in 2..Len(top) : i - 1 \in 1..Len(top) /\ i \in 1..Len(top) /\ i - 1 < i
    BY <2>2
  <2>4. ASSUME NEW i \in 1..Len(top)
        PROVE  top[i].order_count # 0 /\ top[i].total_qty # 0
    <3>1. /\ top[i].price \in DOMAIN lad
          /\ lad[top[i].price] = PriceLevel(top[i].total_qty, top[i].order_count)
      BY <2>2 DEF TopMatches
    <3>2. IsMap(book.orders, OrderIds, Orders) /\ top[i].price \in Prices
      BY <3>1 DEF Sound, WellFormed, IsMap
    <3>3. LevelMatches(book, s, top[i].price)
      BY <3>2, NoWrap DEF Sound
    <3> DEFINE p == top[i].price
    <3>4. /\ OrdersAt(book.orders, s, p) # {}
          /\ top[i].order_count = Cardinality(OrdersAt(book.orders, s, p))
          /\ top[i].total_qty = Cardinality(SharesAt(book.orders, s, p))
      BY <3>1, <3>3 DEF LevelMatches, PriceLevel
    <3> HIDE DEF p
    <3> QED
      BY <3>2, <3>4, AggregateBounds
  <2> QED
    BY <2>2, <2>3, <2>4 DEF TopMatches
<1> QED
  BY <1>1, Inductive, PTL

\* The ladder and the top-N are functions of the live orders: two histories of
\* calls that leave the same orders leave the same book, which is what lets a
\* book rebuilt from a snapshot's orders stand in for the one that was lost.
THEOREM OrdersDetermineBook ==
  ASSUME NoWrap, NEW a, NEW b, Sound(a), Sound(b), a.depth = b.depth, a.orders = b.orders
  PROVE  a = b
<1>1. ASSUME NEW s \in Side
      PROVE  a.ladder[s] = b.ladder[s]
  <2> DEFINE la == a.ladder[s]
             lb == b.ladder[s]
  <2>1. IsMap(la, Prices, Levels) /\ IsMap(lb, Prices, Levels)
    BY DEF Sound, WellFormed
  <2>2. ASSUME NEW p \in Prices
        PROVE  /\ p \in DOMAIN la <=> p \in DOMAIN lb
               /\ p \in DOMAIN la => la[p] = lb[p]
    <3>1. LevelMatches(a, s, p) /\ LevelMatches(b, s, p)
      BY NoWrap DEF Sound
    <3>2. p \in DOMAIN la <=> p \in DOMAIN lb
      BY <3>1 DEF LevelMatches
    <3>3. ASSUME p \in DOMAIN la
          PROVE  la[p] = lb[p]
      <4>1. la[p].order_count = lb[p].order_count /\ la[p].total_qty = lb[p].total_qty
        BY <3>1, <3>3 DEF LevelMatches
      <4>2. la[p] \in Levels /\ lb[p] \in Levels
        BY <2>1, <3>2, <3>3 DEF IsMap
      <4> QED
        BY <4>1, <4>2 DEF Levels
    <3> QED
      BY <3>2, <3>3
  <2>3. DOMAIN la = DOMAIN lb
    BY <2>1, <2>2 DEF IsMap
  <2> QED
    BY <2>1, <2>2, <2>3 DEF IsMap
<1>2. \A s \in Side : a.top[s] = b.top[s]
  BY <1>1 DEF Sound, WellFormed
<1>3. a.ladder = b.ladder /\ a.top = b.top
  <2>1. /\ a.ladder = [s \in Side |-> a.ladder[s]] /\ a.top = [s \in Side |-> a.top[s]]
        /\ b.ladder = [s \in Side |-> b.ladder[s]] /\ b.top = [s \in Side |-> b.top[s]]
    BY DEF Sound, WellFormed
  <2> QED
    BY <1>1, <1>2, <2>1
<1> QED
  BY <1>3 DEF Sound, WellFormed
=============================================================================
