--------------------------- MODULE OperatorLemmas ---------------------------
(***************************************************************************)
(* What the operators of SymbolBook, DepthBook, GapDetector and            *)
(* FeedHandler keep, for every set of ids and prices, every quantity       *)
(* bound, top-N capacity and width of a Quantity; the proofs about the     *)
(* machines that drive them rest on it.                                    *)
(*                                                                         *)
(* One book: the positions of refresh_top are a bijection, so a refreshed  *)
(* top-N is the best of the ladder (RefreshedTop); the number of orders at *)
(* a price and the sum of their shares are cardinalities that grow by one  *)
(* order's worth when one is put (AggregatesGrow); a level that stands for *)
(* its orders still does after it is given the difference                  *)
(* (ShiftedLevelStands); so each operation keeps Sound (BookStep and the   *)
(* lemmas after it), and Sound implies the properties.                     *)
(*                                                                         *)
(* Depth books: a message changes at most one symbol's book, by an         *)
(* operation that keeps a book sound, and the index with it (Replaces),    *)
(* and ids enter and leave the book and the index together (RoutingStep);  *)
(* what it does to the live orders of a depth book whose index is exact is *)
(* what it says (AddContents and the lemmas beside it), and whatever the   *)
(* books hold it leaves alone what it does not touch (MessageLeaves).      *)
(*                                                                         *)
(* apply_snapshot: the loops over levels and orders run (LevelsLoopRuns),  *)
(* the shares of a level add up to it (SharesAddUp), so each side of the   *)
(* snapshot of a sound book is rebuilt as it is, and the new book shows    *)
(* the snapshot (SnapshotShows); from any other levels too the new book is *)
(* sound (SnapshotIsSound).                                                *)
(***************************************************************************)
EXTENDS FeedHandler, BookDomain, FiniteSetTheorems, WellFoundedInduction, TLAPS

-----------------------------------------------------------------------------
(***************************************************************************)
(* The position of a price in its ladder.                                  *)
(***************************************************************************)

\* The prices better than one of a finite ladder are fewer than the ladder's,
\* and fewer than those better than a worse price.
LEMMA BetterPricesAreFewer ==
  ASSUME NEW s \in Side, NEW S \in SUBSET Nat, IsFiniteSet(S), NEW p \in S
  PROVE  /\ IsFiniteSet(BetterPrices(s, S, p))
         /\ Cardinality(BetterPrices(s, S, p)) \in 0..(Cardinality(S) - 1)
         /\ \A q \in S : Better(s, p, q) =>
              Cardinality(BetterPrices(s, S, p)) < Cardinality(BetterPrices(s, S, q))
<1> DEFINE above(x) == BetterPrices(s, S, x)
<1>1. \A x \in S : IsFiniteSet(above(x)) /\ Cardinality(above(x)) \in Nat
  BY FS_Subset, FS_CardinalityType DEF BetterPrices
<1>2. Cardinality(S) \in Nat
  BY FS_CardinalityType
<1>3. above(p) \subseteq S /\ p \in S \ above(p)
  BY DEF BetterPrices, Better
<1>4. Cardinality(above(p)) <= Cardinality(S) /\ Cardinality(above(p)) # Cardinality(S)
  BY <1>3, FS_Subset
<1>5. ASSUME NEW q \in S, Better(s, p, q)
      PROVE  Cardinality(above(p)) < Cardinality(above(q))
  <2>1. \A x \in S : Better(s, x, p) => Better(s, x, q)
    BY <1>5 DEF Better
  <2>2. above(p) \subseteq above(q) /\ p \in above(q) /\ p \notin above(p)
    BY <2>1, <1>3, <1>5 DEF BetterPrices
  <2>3. Cardinality(above(p)) <= Cardinality(above(q))
        /\ Cardinality(above(p)) # Cardinality(above(q))
    BY <2>2, <1>1, FS_Subset
  <2> QED
    BY <2>3, <1>1
<1> QED
  BY <1>1, <1>2, <1>4, <1>5

\* Of two prices the better one has fewer prices above it.
LEMMA PositionsOrderPrices ==
  ASSUME NEW s \in Side, NEW S \in SUBSET Nat, IsFiniteSet(S), NEW p \in S, NEW q \in S
  PROVE  LET above(x) == Cardinality(BetterPrices(s, S, x))
         IN  /\ Better(s, p, q) <=> above(p) < above(q)
             /\ p = q <=> above(p) = above(q)
<1>1. /\ Better(s, p, q) => Cardinality(BetterPrices(s, S, p)) < Cardinality(BetterPrices(s, S, q))
      /\ Better(s, q, p) => Cardinality(BetterPrices(s, S, q)) < Cardinality(BetterPrices(s, S, p))
  BY BetterPricesAreFewer
<1>2. /\ Cardinality(BetterPrices(s, S, p)) \in Int
      /\ Cardinality(BetterPrices(s, S, q)) \in Int
  BY FS_CardinalityType, BetterPricesAreFewer
<1>3. p = q \/ Better(s, p, q) \/ Better(s, q, p)
  BY DEF Better
<1> QED
  BY <1>1, <1>2, <1>3

\* Positions are a bijection between a ladder's prices and 1..n, so the CHOOSE
\* of PriceAt, the iterator of refresh_top_bids / refresh_top_asks, picks the
\* price that has exactly i - 1 better ones.
LEMMA PriceAtPosition ==
  ASSUME NEW s \in Side, NEW S \in SUBSET Nat, IsFiniteSet(S), NEW i \in 1..Cardinality(S)
  PROVE  /\ PriceAt(s, S, i) \in S
         /\ Cardinality(BetterPrices(s, S, PriceAt(s, S, i))) = i - 1
<1> DEFINE n == Cardinality(S)
           rank == [p \in S |-> Cardinality(BetterPrices(s, S, p))]
<1>1. n \in Nat
  BY FS_CardinalityType
<1>2. rank \in [S -> 0..(n - 1)]
  BY BetterPricesAreFewer
<1>3. ASSUME NEW p \in S, NEW q \in S, rank[p] = rank[q]
      PROVE  p = q
  BY <1>3, PositionsOrderPrices
<1>4. rank \in Injection(S, 0..(n - 1))
  BY <1>2, <1>3 DEF Injection, IsInjective
<1>5. IsFiniteSet(0..(n - 1)) /\ Cardinality(0..(n - 1)) = n
  <2>1. 0 \in Int /\ n - 1 \in Int /\ (IF 0 > n - 1 THEN 0 ELSE n - 1 - 0 + 1) = n
    BY <1>1
  <2> QED
    BY <2>1, FS_Interval
<1>6. rank \in Surjection(S, 0..(n - 1))
  BY <1>4, <1>5, FS_Injection
<1>7. PICK p \in S : rank[p] = i - 1
  <2>1. i - 1 \in 0..(n - 1)
    BY <1>1
  <2> QED
    BY <2>1, <1>6 DEF Surjection
<1> QED
  BY <1>7 DEF PriceAt

-----------------------------------------------------------------------------
(***************************************************************************)
(* The cached top-N right after refresh_top_bids / refresh_top_asks.       *)
(***************************************************************************)

\* What the refresh writes is a list of levels, and it is the best of the ladder.
LEMMA RefreshedTop ==
  ASSUME NEW b, NEW s \in Side, b.depth \in Nat,
         IsMap(b.ladder[s], Prices, Levels), IsFiniteSet(DOMAIN b.ladder[s]),
         b.top[s] = refresh_top(s, b.ladder[s], b.depth)
  PROVE  b.top[s] \in Seq(TopLevels) /\ TopMatches(b, s)
<1> DEFINE lad == b.ladder[s]
           top == b.top[s]
           S == DOMAIN lad
           size == LadderSize(lad, b.depth)
           above(p) == Cardinality(BetterPrices(s, S, p))
           shown == {top[i].price : i \in 1..Len(top)}
<1>1. S \in SUBSET Nat /\ S \subseteq Prices /\ IsFiniteSet(S)
  BY DomainAssumption DEF IsMap
<1>2. Cardinality(S) \in Nat /\ b.depth \in Nat
  BY <1>1, FS_CardinalityType, DomainAssumption
<1>3. size \in Nat /\ size <= b.depth /\ size <= Cardinality(S)
      /\ (size = b.depth \/ size = Cardinality(S))
  BY <1>2 DEF LadderSize
<1>4. ASSUME NEW i \in 1..size
      PROVE  PriceAt(s, S, i) \in S /\ above(PriceAt(s, S, i)) = i - 1
  BY <1>1, <1>2, <1>3, PriceAtPosition
<1>5. top = [i \in 1..size |->
               [price |-> PriceAt(s, S, i),
                total_qty |-> lad[PriceAt(s, S, i)].total_qty,
                order_count |-> lad[PriceAt(s, S, i)].order_count]]
  BY DEF refresh_top
<1>6. \A p \in S : lad[p] \in Levels
  BY DEF IsMap
<1>7. top \in Seq(TopLevels) /\ Len(top) = size
  <2>1. \A i \in 1..size : top[i] \in TopLevels
    BY <1>1, <1>4, <1>5, <1>6 DEF Levels, TopLevels
  <2>2. top \in [1..size -> TopLevels]
    BY <2>1, <1>5
  <2> QED
    BY <2>2, <1>3
<1>8. \A i \in 1..size : /\ top[i].price \in S
                         /\ above(top[i].price) = i - 1
                         /\ lad[top[i].price] = PriceLevel(top[i].total_qty, top[i].order_count)
  BY <1>4, <1>5, <1>6 DEF Levels, PriceLevel
<1>9. \A i, j \in 1..size : i < j => Better(s, top[i].price, top[j].price)
  BY <1>1, <1>3, <1>8, PositionsOrderPrices
<1>10. \A q \in S : above(q) \in 0..(Cardinality(S) - 1)
  BY <1>1, BetterPricesAreFewer
<1>11. ASSUME NEW q \in S, above(q) < size
       PROVE  q \in shown
  <2>1. above(q) \in Nat /\ above(q) + 1 \in 1..size
    BY <1>2, <1>3, <1>10, <1>11
  <2>2. above(top[above(q) + 1].price) = above(q) /\ top[above(q) + 1].price \in S
    BY <2>1, <1>8
  <2>3. top[above(q) + 1].price = q
    BY <2>2, <1>1, PositionsOrderPrices
  <2> QED
    BY <2>1, <2>3, <1>7
<1>12. \A p \in shown, q \in S \ shown : Better(s, p, q)
  <2>1. SUFFICES ASSUME NEW i \in 1..size, NEW q \in S \ shown
                 PROVE  Better(s, top[i].price, q)
    BY <1>7
  <2>2. above(top[i].price) < above(q)
    <3>1. above(top[i].price) = i - 1 /\ i \in 1..size /\ above(q) \in Nat
      BY <1>2, <1>8, <1>10
    <3>2. ~(above(q) < size)
      BY <1>11, <2>1
    <3> QED
      BY <1>3, <3>1, <3>2
  <2> QED
    BY <2>2, <1>1, <1>8, PositionsOrderPrices
<1>13. size = Cardinality(S) => shown = S
  <2>1. shown \subseteq S
    BY <1>7, <1>8
  <2>2. ASSUME size = Cardinality(S), NEW q \in S
        PROVE  q \in shown
    <3>1. above(q) < size
      BY <1>2, <1>10, <2>2
    <3> QED
      BY <3>1, <1>11
  <2> QED
    BY <2>1, <2>2
<1> QED
  BY <1>3, <1>7, <1>8, <1>9, <1>12, <1>13 DEF TopMatches

-----------------------------------------------------------------------------
(***************************************************************************)
(* The aggregates of a map of orders.                                      *)
(***************************************************************************)

\* Both aggregates of a price are finite, vanish together, and the shares are
\* bounded by what all order ids together could hold.
LEMMA AggregateBounds ==
  ASSUME NEW orders, IsMap(orders, OrderIds, Orders), NEW s, NEW p
  PROVE  /\ IsFiniteSet(OrdersAt(orders, s, p)) /\ IsFiniteSet(SharesAt(orders, s, p))
         /\ Cardinality(OrdersAt(orders, s, p)) \in Nat
         /\ Cardinality(SharesAt(orders, s, p)) \in Nat
         /\ Cardinality(OrdersAt(orders, s, p)) = 0 <=> OrdersAt(orders, s, p) = {}
         /\ Cardinality(SharesAt(orders, s, p)) = 0 <=> OrdersAt(orders, s, p) = {}
         /\ Cardinality(SharesAt(orders, s, p)) <= Cardinality(OrderIds) * MaxQty
<1> DEFINE at == OrdersAt(orders, s, p)
           shares == SharesAt(orders, s, p)
           all == OrderIds \X (1..MaxQty)
<1>1. at \subseteq OrderIds /\ \A id \in at : orders[id].qty \in 1..MaxQty
  BY DomainAssumption DEF OrdersAt, IsMap, Orders, Quantities
<1>2. IsFiniteSet(all) /\ Cardinality(all) = Cardinality(OrderIds) * MaxQty
  <2>1. IsFiniteSet(1..MaxQty) /\ Cardinality(1..MaxQty) = MaxQty
    BY DomainAssumption, FS_Interval
  <2> QED
    BY <2>1, DomainAssumption, FS_Product
<1>3. shares \subseteq all
  BY <1>1, DomainAssumption DEF SharesAt
<1>4. at # {} => shares # {}
  <2>1. SUFFICES ASSUME NEW id \in at PROVE <<id, 1>> \in shares
    OBVIOUS
  <2>2. 1 \in 1..orders[id].qty
    BY <1>1
  <2> QED
    BY <2>2 DEF SharesAt
<1>5. at = {} => shares = {}
  BY DEF SharesAt
<1>6. IsFiniteSet(at) /\ IsFiniteSet(shares) /\ Cardinality(shares) <= Cardinality(all)
  BY <1>1, <1>2, <1>3, DomainAssumption, FS_Subset
<1> QED
  BY <1>2, <1>4, <1>5, <1>6, FS_CardinalityType, FS_EmptySet

\* The shares of one order of n shares are n.
LEMMA FreshShares ==
  ASSUME NEW id, NEW n \in Nat
  PROVE  IsFiniteSet({id} \X (1..n)) /\ Cardinality({id} \X (1..n)) = n
<1>1. IsFiniteSet(1..n) /\ Cardinality(1..n) = n
  <2>1. 1 \in Int /\ n \in Int /\ (IF 1 > n THEN 0 ELSE n - 1 + 1) = n
    OBVIOUS
  <2> QED
    BY <2>1, FS_Interval
<1>2. IsFiniteSet({id}) /\ Cardinality({id}) = 1
  BY FS_Singleton
<1>3. IsFiniteSet({id} \X (1..n)) /\ Cardinality({id} \X (1..n)) = 1 * Cardinality(1..n)
  BY <1>1, <1>2, FS_Product
<1> QED
  BY <1>1, <1>3

\* One order more adds one order and its shares to its own price and nothing
\* anywhere else.
LEMMA AggregatesGrow ==
  ASSUME NEW base, IsMap(base, OrderIds, Orders), NEW id \in OrderIds \ DOMAIN base,
         NEW o \in Orders, NEW s, NEW p
  PROVE  LET ext == Put(base, id, o)
         IN  /\ IsMap(ext, OrderIds, Orders)
             /\ IF o.side = s /\ o.price = p
                THEN /\ Cardinality(OrdersAt(ext, s, p)) = Cardinality(OrdersAt(base, s, p)) + 1
                     /\ Cardinality(SharesAt(ext, s, p)) =
                          Cardinality(SharesAt(base, s, p)) + o.qty
                ELSE /\ OrdersAt(ext, s, p) = OrdersAt(base, s, p)
                     /\ SharesAt(ext, s, p) = SharesAt(base, s, p)
<1> DEFINE ext == Put(base, id, o)
           fresh == {id} \X (1..o.qty)
<1>1. DOMAIN ext = DOMAIN base \cup {id} /\ ext[id] = o
      /\ \A x \in DOMAIN base : ext[x] = base[x]
  BY DEF Put
<1>2. IsMap(ext, OrderIds, Orders)
  BY DEF IsMap, Put
<1>3. IsFiniteSet(OrdersAt(base, s, p)) /\ IsFiniteSet(SharesAt(base, s, p))
      /\ Cardinality(SharesAt(base, s, p)) \in Nat
  BY AggregateBounds
<1>4. CASE o.side = s /\ o.price = p
  <2>1. OrdersAt(ext, s, p) = OrdersAt(base, s, p) \cup {id} /\ id \notin OrdersAt(base, s, p)
    BY <1>1, <1>4 DEF OrdersAt
  <2>2. SharesAt(ext, s, p) = SharesAt(base, s, p) \cup fresh
    BY <1>1, <2>1 DEF SharesAt, OrdersAt
  <2>3. SharesAt(base, s, p) \cap fresh = {}
    BY <2>1 DEF SharesAt
  <2>4. IsFiniteSet(fresh) /\ Cardinality(fresh) = o.qty /\ o.qty \in Nat
    <3>1. o.qty \in Nat
      BY DomainAssumption DEF Orders, Quantities
    <3> QED
      BY <3>1, FreshShares
  <2>5. Cardinality(SharesAt(base, s, p) \cup fresh) =
          Cardinality(SharesAt(base, s, p)) + Cardinality(fresh)
            - Cardinality(SharesAt(base, s, p) \cap fresh)
    BY <1>3, <2>4, FS_Union
  <2>6. Cardinality(SharesAt(base, s, p) \cap fresh) = 0
    BY <2>3, FS_EmptySet
  <2>7. Cardinality(OrdersAt(ext, s, p)) = Cardinality(OrdersAt(base, s, p)) + 1
    BY <1>3, <2>1, FS_AddElement
  <2> QED
    BY <1>2, <1>3, <1>4, <2>2, <2>4, <2>5, <2>6, <2>7
<1>5. CASE ~(o.side = s /\ o.price = p)
  <2>1. OrdersAt(ext, s, p) = OrdersAt(base, s, p)
    BY <1>1, <1>5 DEF OrdersAt
  <2>2. SharesAt(ext, s, p) = SharesAt(base, s, p)
    BY <1>1, <2>1 DEF SharesAt, OrdersAt
  <2> QED
    BY <1>2, <1>5, <2>1, <2>2
<1> QED
  BY <1>4, <1>5

-----------------------------------------------------------------------------
(***************************************************************************)
(* A sound book: it has its type, its ladders are finite and its top-N is  *)
(* freshly made; and when no sum of quantities can wrap, every level is    *)
(* the aggregate of the orders at its price.                               *)
(***************************************************************************)

WellFormed(b) ==
  /\ b = [depth |-> b.depth, orders |-> b.orders, ladder |-> b.ladder, top |-> b.top]
  /\ b.depth \in Nat
  /\ IsMap(b.orders, OrderIds, Orders)
  /\ b.ladder = [s \in Side |-> b.ladder[s]]
  /\ b.top = [s \in Side |-> b.top[s]]
  /\ \A s \in Side :
       /\ IsMap(b.ladder[s], Prices, Levels)
       /\ IsFiniteSet(DOMAIN b.ladder[s])
       /\ b.top[s] = refresh_top(s, b.ladder[s], b.depth)

Sound(b) == WellFormed(b) /\ (NoWrap => \A s \in Side, p \in Prices : LevelMatches(b, s, p))

\* apply_level_delta touches one level, leaves the orders alone and refreshes
\* the top-N of the side it changes.
LEMMA LevelDelta ==
  ASSUME NEW b, WellFormed(b), NEW s \in Side, NEW p \in Prices,
         NEW qd \in Int, NEW cd \in Int, qd > 0 => cd >= 0
  PROVE  LET r == apply_level_delta(b, s, p, qd, cd)
         IN  /\ WellFormed(r)
             /\ r.orders = b.orders /\ r.depth = b.depth
             /\ r.ladder[s] = IF p \notin DOMAIN b.ladder[s] /\ qd <= 0 THEN b.ladder[s]
                              ELSE ShiftLevel(b.ladder[s], p, qd, cd)
             /\ \A t \in Side, q \in Prices : ~(t = s /\ q = p) =>
                  /\ q \in DOMAIN r.ladder[t] <=> q \in DOMAIN b.ladder[t]
                  /\ q \in DOMAIN b.ladder[t] => r.ladder[t][q] = b.ladder[t][q]
<1> DEFINE lad == b.ladder[s]
           new == ShiftLevel(lad, p, qd, cd)
           r == apply_level_delta(b, s, p, qd, cd)
<1>1. IsMap(lad, Prices, Levels) /\ IsFiniteSet(DOMAIN lad) /\ b.depth \in Nat
  BY DEF WellFormed
<1>2. CASE p \notin DOMAIN lad /\ qd <= 0
  BY <1>2 DEF apply_level_delta
<1>3. CASE ~(p \notin DOMAIN lad /\ qd <= 0)
  <2>1. \A n \in Int : Quantity(n) \in 0..(QtyMod - 1)
    BY QtyModAssumption DEF Quantity
  <2>2. PICK lvl : \/ new = Put(lad, p, lvl) /\ lvl \in Levels
                   \/ new = Erase(lad, p)
    <3>1. CASE p \notin DOMAIN lad
      <4>1. PriceLevel(Quantity(qd), cd) \in Levels
        BY <1>3, <2>1, <3>1 DEF PriceLevel, Levels
      <4> QED
        BY <3>1, <4>1 DEF ShiftLevel
    <3>2. CASE p \in DOMAIN lad
      <4> DEFINE nq == lad[p].total_qty + qd
                 nc == lad[p].order_count + cd
      <4>1. nq \in Int /\ nc \in Int
        BY <1>1, <3>2, QtyModAssumption DEF IsMap, Levels
      <4>2. nc > 0 => PriceLevel(Quantity(nq), nc) \in Levels
        BY <2>1, <4>1 DEF PriceLevel, Levels
      <4> QED
        BY <3>2, <4>1, <4>2 DEF ShiftLevel
    <3> QED
      BY <3>1, <3>2
  <2>3. /\ IsMap(new, Prices, Levels)
        /\ DOMAIN new \subseteq DOMAIN lad \cup {p}
    BY <1>1, <2>2 DEF IsMap, Put, Erase, Restrict
  <2>4. ASSUME NEW q \in Prices, q # p
         PROVE  /\ q \in DOMAIN new <=> q \in DOMAIN lad
                /\ q \in DOMAIN lad => new[q] = lad[q]
    BY <2>2, <2>4 DEF Put, Erase, Restrict
  <2>5. IsFiniteSet(DOMAIN new)
    <3>1. IsFiniteSet(DOMAIN lad \cup {p})
      BY <1>1, FS_AddElement
    <3> QED
      BY <2>3, <3>1, FS_Subset
  <2>6. r = [b EXCEPT !.ladder[s] = new, !.top[s] = refresh_top(s, new, b.depth)]
    BY <1>1, <1>3 DEF apply_level_delta
  <2>7. r = [depth |-> b.depth, orders |-> b.orders,
             ladder |-> [b.ladder EXCEPT ![s] = new],
             top |-> [b.top EXCEPT ![s] = refresh_top(s, new, b.depth)]]
    <3> DEFINE lvls == refresh_top(s, new, b.depth)
               c == [b EXCEPT !.ladder[s] = new]
    <3> HIDE DEF r, new, lvls
    <3>1. b = [depth |-> b.depth, orders |-> b.orders, ladder |-> b.ladder, top |-> b.top]
      BY DEF WellFormed
    <3>2. c = [depth |-> b.depth, orders |-> b.orders,
               ladder |-> [b.ladder EXCEPT ![s] = new], top |-> b.top]
      BY <3>1
    <3>3. [b EXCEPT !.ladder[s] = new, !.top[s] = lvls] = [c EXCEPT !.top[s] = lvls]
      BY <3>1
    <3> HIDE DEF c
    <3>4. [c EXCEPT !.top[s] = lvls] =
            [depth |-> b.depth, orders |-> b.orders,
             ladder |-> [b.ladder EXCEPT ![s] = new], top |-> [b.top EXCEPT ![s] = lvls]]
      BY <3>2
    <3> QED
      BY <2>6, <3>3, <3>4 DEF lvls
  <2> HIDE DEF r, new
  <2>8. /\ r.orders = b.orders /\ r.depth = b.depth
        /\ r.ladder = [t \in Side |-> r.ladder[t]]
        /\ r.top = [t \in Side |-> r.top[t]]
        /\ r.ladder[s] = new /\ r.top[s] = refresh_top(s, new, b.depth)
        /\ \A t \in Side \ {s} : r.ladder[t] = b.ladder[t] /\ r.top[t] = b.top[t]
        /\ r = [depth |-> b.depth, orders |-> r.orders, ladder |-> r.ladder, top |-> r.top]
    BY <2>7 DEF WellFormed
  <2>9. WellFormed(r)
    <3>1. \A t \in Side : /\ IsMap(r.ladder[t], Prices, Levels)
                          /\ IsFiniteSet(DOMAIN r.ladder[t])
                          /\ r.top[t] = refresh_top(t, r.ladder[t], b.depth)
      BY <2>3, <2>5, <2>8 DEF WellFormed
    <3> QED
      BY <2>8, <3>1 DEF WellFormed
  <2>10. \A t \in Side, q \in Prices : ~(t = s /\ q = p) =>
          /\ q \in DOMAIN r.ladder[t] <=> q \in DOMAIN b.ladder[t]
          /\ q \in DOMAIN b.ladder[t] => r.ladder[t][q] = b.ladder[t][q]
    <3>1. SUFFICES ASSUME NEW t \in Side, NEW q \in Prices, ~(t = s /\ q = p)
                   PROVE  /\ q \in DOMAIN r.ladder[t] <=> q \in DOMAIN b.ladder[t]
                          /\ q \in DOMAIN b.ladder[t] => r.ladder[t][q] = b.ladder[t][q]
      OBVIOUS
    <3>2. CASE t = s
      <4>1. q # p /\ r.ladder[t] = new /\ b.ladder[t] = lad
        BY <2>8, <3>1, <3>2
      <4>2. /\ q \in DOMAIN new <=> q \in DOMAIN lad
            /\ q \in DOMAIN lad => new[q] = lad[q]
        BY <2>4, <4>1
      <4> HIDE DEF lad
      <4> QED
        BY <4>1, <4>2
    <3>3. CASE t # s
      BY <2>8, <3>3
    <3> QED
      BY <3>2, <3>3
  <2> QED
    BY <1>3, <2>8, <2>9, <2>10 DEF r, new
<1> QED
  BY <1>2, <1>3

-----------------------------------------------------------------------------
(***************************************************************************)
(* One level follows its orders.                                           *)
(***************************************************************************)

\* The ladder's entry for p stands for c orders of n shares together.
Stands(lad, p, c, n) ==
  IF c = 0 THEN p \notin DOMAIN lad
  ELSE p \in DOMAIN lad /\ lad[p].order_count = c /\ lad[p].total_qty = n

\* A level that stands for c orders of n shares stands for c2 orders of n2
\* shares once it has been given the differences, when n2 fits in a Quantity.
LEMMA ShiftedLevelStands ==
  ASSUME NEW lad, NEW p,
         NEW c \in Nat, NEW n \in Nat, NEW c2 \in Nat, NEW n2 \in Nat,
         c = 0 <=> n = 0, c2 = 0 <=> n2 = 0, n2 < QtyMod,
         Stands(lad, p, c, n)
  PROVE  Stands(IF p \notin DOMAIN lad /\ n2 - n <= 0 THEN lad
                ELSE ShiftLevel(lad, p, n2 - n, c2 - c), p, c2, n2)
<1>1. Quantity(n2) = n2
  BY QtyModAssumption DEF Quantity
<1>2. CASE c = 0 /\ c2 = 0
  BY <1>2 DEF Stands
<1>3. CASE c = 0 /\ c2 # 0
  <2>1. p \notin DOMAIN lad /\ n = 0 /\ n2 > 0 /\ n2 - n = n2 /\ c2 - c = c2
    BY <1>3 DEF Stands
  <2> QED
    BY <1>1, <1>3, <2>1 DEF Stands, ShiftLevel, Put, PriceLevel
<1>4. CASE c # 0
  <2>1. p \in DOMAIN lad /\ lad[p].total_qty + (n2 - n) = n2 /\ lad[p].order_count + (c2 - c) = c2
    BY <1>4 DEF Stands
  <2>2. ShiftLevel(lad, p, n2 - n, c2 - c) =
          IF n2 <= 0 \/ c2 <= 0 THEN Erase(lad, p) ELSE Put(lad, p, PriceLevel(n2, c2))
    BY <1>1, <2>1 DEF ShiftLevel
  <2>3. CASE c2 = 0
    BY <2>1, <2>2, <2>3 DEF Stands, Erase, Restrict
  <2>4. CASE c2 # 0
    <3>1. ~(n2 <= 0 \/ c2 <= 0)
      BY <2>4
    <3> QED
      BY <2>1, <2>2, <2>4, <3>1 DEF Stands, Put, PriceLevel
  <2> QED
    BY <2>3, <2>4
<1> QED
  BY <1>2, <1>3, <1>4

\* LevelMatches says that the level stands for the orders at its price.
LEMMA MatchingLevelStands ==
  ASSUME NEW b, IsMap(b.orders, OrderIds, Orders), NEW s, NEW p
  PROVE  LevelMatches(b, s, p) <=>
           Stands(b.ladder[s], p, Cardinality(OrdersAt(b.orders, s, p)),
                  Cardinality(SharesAt(b.orders, s, p)))
<1>1. Cardinality(OrdersAt(b.orders, s, p)) = 0 <=> OrdersAt(b.orders, s, p) = {}
  BY AggregateBounds
<1> QED
  BY <1>1 DEF LevelMatches, Stands

-----------------------------------------------------------------------------
(***************************************************************************)
(* Every operation keeps a sound book sound.                               *)
(***************************************************************************)

\* A change of the orders that shows at one price only, followed by the call of
\* apply_level_delta that tells the ladder of it, keeps the book sound.
LEMMA BookStep ==
  ASSUME NEW b, Sound(b), NEW orders, IsMap(orders, OrderIds, Orders),
         NEW s \in Side, NEW p \in Prices, NEW qd \in Int, NEW cd \in Int, qd > 0 => cd >= 0,
         Cardinality(OrdersAt(orders, s, p)) = Cardinality(OrdersAt(b.orders, s, p)) + cd,
         Cardinality(SharesAt(orders, s, p)) = Cardinality(SharesAt(b.orders, s, p)) + qd,
         \A t \in Side, q \in Prices : ~(t = s /\ q = p) =>
           /\ OrdersAt(orders, t, q) = OrdersAt(b.orders, t, q)
           /\ SharesAt(orders, t, q) = SharesAt(b.orders, t, q)
  PROVE  LET r == apply_level_delta([b EXCEPT !.orders = orders], s, p, qd, cd)
         IN  Sound(r) /\ r.orders = orders /\ r.depth = b.depth
<1> DEFINE c == [b EXCEPT !.orders = orders]
           r == apply_level_delta(c, s, p, qd, cd)
           count(os, t, q) == Cardinality(OrdersAt(os, t, q))
           sum(os, t, q) == Cardinality(SharesAt(os, t, q))
<1>1. WellFormed(b) /\ IsMap(b.orders, OrderIds, Orders)
  BY DEF Sound, WellFormed
<1>2. c = [depth |-> b.depth, orders |-> orders, ladder |-> b.ladder, top |-> b.top]
  BY <1>1 DEF WellFormed
<1> HIDE DEF c
<1>3. WellFormed(c) /\ c.orders = orders /\ c.ladder = b.ladder /\ c.depth = b.depth
  BY <1>1, <1>2 DEF WellFormed
<1>4. /\ WellFormed(r) /\ r.orders = orders /\ r.depth = b.depth
      /\ r.ladder[s] = IF p \notin DOMAIN b.ladder[s] /\ qd <= 0 THEN b.ladder[s]
                       ELSE ShiftLevel(b.ladder[s], p, qd, cd)
      /\ \A t \in Side, q \in Prices : ~(t = s /\ q = p) =>
           /\ q \in DOMAIN r.ladder[t] <=> q \in DOMAIN b.ladder[t]
           /\ q \in DOMAIN b.ladder[t] => r.ladder[t][q] = b.ladder[t][q]
  BY <1>3, LevelDelta
<1> HIDE DEF r
<1>5. ASSUME NoWrap, \A t \in Side, q \in Prices : LevelMatches(b, t, q),
             NEW t \in Side, NEW q \in Prices
      PROVE  LevelMatches(r, t, q)
  <2>1. CASE t = s /\ q = p
    <3>1. Stands(b.ladder[s], p, count(b.orders, s, p), sum(b.orders, s, p))
      BY <1>1, <1>5, MatchingLevelStands
    <3>2. /\ count(b.orders, s, p) \in Nat /\ sum(b.orders, s, p) \in Nat
          /\ count(orders, s, p) \in Nat /\ sum(orders, s, p) \in Nat
          /\ count(b.orders, s, p) = 0 <=> sum(b.orders, s, p) = 0
          /\ count(orders, s, p) = 0 <=> sum(orders, s, p) = 0
      BY <1>1, AggregateBounds
    <3>3. sum(orders, s, p) < QtyMod
      <4>1. sum(orders, s, p) <= Cardinality(OrderIds) * MaxQty
        BY AggregateBounds
      <4>2. Cardinality(OrderIds) * MaxQty < QtyMod
        BY <1>5 DEF NoWrap
      <4>3. Cardinality(OrderIds) * MaxQty \in Nat /\ QtyMod \in Nat
        <5>1. Cardinality(OrderIds) \in Nat
          BY DomainAssumption, FS_CardinalityType
        <5> QED
          BY <5>1, DomainAssumption, QtyModAssumption
      <4> QED
        BY <3>2, <4>1, <4>2, <4>3
    <3>4. /\ qd = sum(orders, s, p) - sum(b.orders, s, p)
          /\ cd = count(orders, s, p) - count(b.orders, s, p)
      BY <3>2
    <3> HIDE DEF count, sum
    <3>5. Stands(r.ladder[s], p, count(orders, s, p), sum(orders, s, p))
      <4> DEFINE c1 == count(b.orders, s, p)
                 n1 == sum(b.orders, s, p)
                 c2 == count(orders, s, p)
                 n2 == sum(orders, s, p)
      <4>1. /\ c1 \in Nat /\ n1 \in Nat /\ c2 \in Nat /\ n2 \in Nat
            /\ c1 = 0 <=> n1 = 0
            /\ c2 = 0 <=> n2 = 0
            /\ n2 < QtyMod /\ Stands(b.ladder[s], p, c1, n1)
        BY <3>1, <3>2, <3>3
      <4>2. qd = n2 - n1 /\ cd = c2 - c1
        BY <3>4
      <4> HIDE DEF c1, n1, c2, n2
      <4>3. Stands(IF p \notin DOMAIN b.ladder[s] /\ n2 - n1 <= 0 THEN b.ladder[s]
                   ELSE ShiftLevel(b.ladder[s], p, n2 - n1, c2 - c1), p, c2, n2)
        BY <4>1, ShiftedLevelStands
      <4>4. Stands(r.ladder[s], p, c2, n2)
        BY <1>4, <4>2, <4>3
      <4> QED
        BY <4>4 DEF c2, n2
    <3>6. Stands(r.ladder[s], p, Cardinality(OrdersAt(r.orders, s, p)),
                 Cardinality(SharesAt(r.orders, s, p)))
      BY <1>4, <3>5 DEF count, sum
    <3> QED
      BY <1>4, <2>1, <3>6, MatchingLevelStands
  <2>2. CASE ~(t = s /\ q = p)
    <3>1. LevelMatches(b, t, q)
      BY <1>5
    <3>2. /\ OrdersAt(r.orders, t, q) = OrdersAt(b.orders, t, q)
          /\ SharesAt(r.orders, t, q) = SharesAt(b.orders, t, q)
      BY <1>4, <2>2
    <3>3. /\ q \in DOMAIN r.ladder[t] <=> q \in DOMAIN b.ladder[t]
          /\ q \in DOMAIN b.ladder[t] => r.ladder[t][q] = b.ladder[t][q]
      BY <1>4, <2>2
    <3> QED
      BY <3>1, <3>2, <3>3 DEF LevelMatches
  <2> QED
    BY <2>1, <2>2
<1>6. Sound(r)
  BY <1>4, <1>5 DEF Sound
<1> QED
  BY <1>4, <1>6 DEF r, c

\* An order added, unless it is for no shares or its id is live.
LEMMA AddKeepsSound ==
  ASSUME NEW b, Sound(b), NEW id \in OrderIds, NEW s \in Side, NEW p \in Prices,
         NEW n \in Quantities
  PROVE  LET r == add_order(b, id, s, p, n) IN Sound(r) /\ r.depth = b.depth
<1> DEFINE o == OrderState(s, p, n)
           orders == Put(b.orders, id, o)
<1>1. CASE n = 0 \/ has_order(b, id)
  BY <1>1 DEF add_order
<1>2. CASE ~(n = 0 \/ has_order(b, id))
  <2>1. IsMap(b.orders, OrderIds, Orders) /\ id \in OrderIds \ DOMAIN b.orders
    BY <1>2 DEF Sound, WellFormed, has_order
  <2>2. o \in Orders /\ o.side = s /\ o.price = p /\ o.qty = n /\ n \in Int
    BY <1>2, DomainAssumption DEF OrderState, Orders, Quantities
  <2> HIDE DEF o
  <2>3. /\ IsMap(orders, OrderIds, Orders)
        /\ Cardinality(OrdersAt(orders, s, p)) = Cardinality(OrdersAt(b.orders, s, p)) + 1
        /\ Cardinality(SharesAt(orders, s, p)) = Cardinality(SharesAt(b.orders, s, p)) + n
    BY <2>1, <2>2, AggregatesGrow
  <2>4. ASSUME NEW t \in Side, NEW q \in Prices, ~(t = s /\ q = p)
        PROVE  /\ OrdersAt(orders, t, q) = OrdersAt(b.orders, t, q)
               /\ SharesAt(orders, t, q) = SharesAt(b.orders, t, q)
    BY <2>1, <2>2, <2>4, AggregatesGrow
  <2> HIDE DEF orders
  <2>5. LET r == apply_level_delta([b EXCEPT !.orders = orders], s, p, n, 1)
        IN  Sound(r) /\ r.depth = b.depth
    BY <2>2, <2>3, <2>4, BookStep
  <2> QED
    BY <1>2, <2>5 DEF add_order, orders, o
<1> QED
  BY <1>1, <1>2

\* The orders without one of them, and that one put back.
LEMMA EraseThenPut ==
  ASSUME NEW orders, IsMap(orders, OrderIds, Orders), NEW id \in DOMAIN orders
  PROVE  LET base == Erase(orders, id)
         IN  /\ IsMap(base, OrderIds, Orders)
             /\ id \in OrderIds \ DOMAIN base
             /\ orders[id] \in Orders
             /\ orders = Put(base, id, orders[id])
             /\ \A o : Put(orders, id, o) = Put(base, id, o)
<1> DEFINE base == Erase(orders, id)
<1>1. DOMAIN base = DOMAIN orders \ {id} /\ \A x \in DOMAIN base : base[x] = orders[x]
  BY DEF Erase, Restrict
<1>2. IsMap(base, OrderIds, Orders) /\ id \in OrderIds \ DOMAIN base /\ orders[id] \in Orders
  BY DEF IsMap, Erase, Restrict
<1>3. \A o : Put(orders, id, o) = Put(base, id, o)
  BY <1>1 DEF Put
<1>4. orders = Put(base, id, orders[id])
  BY <1>1 DEF Put, IsMap
<1> QED
  BY <1>2, <1>3, <1>4

\* An order deleted.
LEMMA DeleteKeepsSound ==
  ASSUME NEW b, Sound(b), NEW id \in OrderIds
  PROVE  LET r == delete_order(b, id) IN Sound(r) /\ r.depth = b.depth
<1> DEFINE o == b.orders[id]
           base == Erase(b.orders, id)
<1>1. CASE ~has_order(b, id)
  BY <1>1 DEF delete_order
<1>2. CASE has_order(b, id)
  <2>1. IsMap(b.orders, OrderIds, Orders) /\ id \in DOMAIN b.orders
    BY <1>2 DEF Sound, WellFormed, has_order
  <2>2. /\ IsMap(base, OrderIds, Orders) /\ id \in OrderIds \ DOMAIN base
        /\ o \in Orders /\ b.orders = Put(base, id, o)
    BY <2>1, EraseThenPut
  <2>3. o.side \in Side /\ o.price \in Prices /\ o.qty \in Int /\ o.qty > 0
    BY <2>2, DomainAssumption DEF Orders, Quantities
  <2> HIDE DEF o, base
  <2>4. /\ Cardinality(OrdersAt(b.orders, o.side, o.price)) =
             Cardinality(OrdersAt(base, o.side, o.price)) + 1
        /\ Cardinality(SharesAt(b.orders, o.side, o.price)) =
             Cardinality(SharesAt(base, o.side, o.price)) + o.qty
    BY <2>2, AggregatesGrow
  <2>5. /\ Cardinality(OrdersAt(base, o.side, o.price)) =
             Cardinality(OrdersAt(b.orders, o.side, o.price)) + (-1)
        /\ Cardinality(SharesAt(base, o.side, o.price)) =
             Cardinality(SharesAt(b.orders, o.side, o.price)) + (-o.qty)
    <3>1. /\ Cardinality(OrdersAt(base, o.side, o.price)) \in Nat
          /\ Cardinality(SharesAt(base, o.side, o.price)) \in Nat
      BY <2>2, AggregateBounds
    <3> QED
      BY <2>3, <2>4, <3>1
  <2>6. ASSUME NEW t \in Side, NEW q \in Prices, ~(t = o.side /\ q = o.price)
        PROVE  /\ OrdersAt(base, t, q) = OrdersAt(b.orders, t, q)
               /\ SharesAt(base, t, q) = SharesAt(b.orders, t, q)
    BY <2>2, <2>6, AggregatesGrow
  <2>7. LET r == apply_level_delta([b EXCEPT !.orders = base], o.side, o.price, -o.qty, -1)
        IN  Sound(r) /\ r.depth = b.depth
    <3>1. -o.qty \in Int /\ -1 \in Int /\ ~(-o.qty > 0)
      BY <2>3
    <3> QED
      BY <2>2, <2>3, <2>5, <2>6, <3>1, BookStep
  <2> QED
    BY <1>2, <2>7 DEF delete_order, o, base
<1> QED
  BY <1>1, <1>2

\* A live order given another quantity, zero included.
LEMMA ModifyKeepsSound ==
  ASSUME NEW b, Sound(b), NEW id \in OrderIds, NEW n \in Quantities
  PROVE  LET r == modify_order(b, id, n) IN Sound(r) /\ r.depth = b.depth
<1> DEFINE o == b.orders[id]
           o2 == [o EXCEPT !.qty = n]
           base == Erase(b.orders, id)
           orders == Put(b.orders, id, o2)
<1>1. CASE ~has_order(b, id) \/ n = o.qty
  BY <1>1 DEF modify_order
<1>2. CASE has_order(b, id) /\ n # o.qty /\ n = 0
  BY <1>2, DeleteKeepsSound DEF modify_order
<1>3. CASE has_order(b, id) /\ n # o.qty /\ n # 0
  <2>1. IsMap(b.orders, OrderIds, Orders) /\ id \in DOMAIN b.orders
    BY <1>3 DEF Sound, WellFormed, has_order
  <2>2. /\ IsMap(base, OrderIds, Orders) /\ id \in OrderIds \ DOMAIN base
        /\ o \in Orders /\ b.orders = Put(base, id, o)
        /\ orders = Put(base, id, o2)
    BY <2>1, EraseThenPut
  <2>3. /\ o.side \in Side /\ o.price \in Prices /\ o.qty \in Int /\ n \in Int
        /\ o2 \in Orders /\ o2.side = o.side /\ o2.price = o.price /\ o2.qty = n
    BY <1>3, <2>2, DomainAssumption DEF Orders, Quantities
  <2> HIDE DEF o, o2, base, orders
  <2>4. /\ Cardinality(OrdersAt(b.orders, o.side, o.price)) =
             Cardinality(OrdersAt(base, o.side, o.price)) + 1
        /\ Cardinality(SharesAt(b.orders, o.side, o.price)) =
             Cardinality(SharesAt(base, o.side, o.price)) + o.qty
    BY <2>2, AggregatesGrow
  <2>5. /\ IsMap(orders, OrderIds, Orders)
        /\ Cardinality(OrdersAt(orders, o.side, o.price)) =
             Cardinality(OrdersAt(base, o.side, o.price)) + 1
        /\ Cardinality(SharesAt(orders, o.side, o.price)) =
             Cardinality(SharesAt(base, o.side, o.price)) + n
    BY <2>2, <2>3, AggregatesGrow
  <2>6. /\ Cardinality(OrdersAt(orders, o.side, o.price)) =
             Cardinality(OrdersAt(b.orders, o.side, o.price)) + 0
        /\ Cardinality(SharesAt(orders, o.side, o.price)) =
             Cardinality(SharesAt(b.orders, o.side, o.price)) + (n - o.qty)
    <3>1. /\ Cardinality(OrdersAt(base, o.side, o.price)) \in Nat
          /\ Cardinality(SharesAt(base, o.side, o.price)) \in Nat
      BY <2>2, AggregateBounds
    <3> QED
      BY <2>3, <2>4, <2>5, <3>1
  <2>7. ASSUME NEW t \in Side, NEW q \in Prices, ~(t = o.side /\ q = o.price)
        PROVE  /\ OrdersAt(orders, t, q) = OrdersAt(b.orders, t, q)
               /\ SharesAt(orders, t, q) = SharesAt(b.orders, t, q)
    <3>1. /\ OrdersAt(b.orders, t, q) = OrdersAt(base, t, q)
          /\ SharesAt(b.orders, t, q) = SharesAt(base, t, q)
      BY <2>2, <2>7, AggregatesGrow
    <3>2. /\ OrdersAt(orders, t, q) = OrdersAt(base, t, q)
          /\ SharesAt(orders, t, q) = SharesAt(base, t, q)
      BY <2>2, <2>3, <2>7, AggregatesGrow
    <3> QED
      BY <3>1, <3>2
  <2>8. LET r == apply_level_delta([b EXCEPT !.orders = orders], o.side, o.price, n - o.qty, 0)
        IN  Sound(r) /\ r.depth = b.depth
    <3>1. n - o.qty \in Int
      BY <2>3
    <3> QED
      BY <2>3, <2>5, <2>6, <2>7, <3>1, BookStep
  <2> QED
    BY <1>3, <2>8 DEF modify_order, o, o2, orders
<1> QED
  BY <1>1, <1>2, <1>3

\* Reductions are modifications, and a replacement is a delete and an add.
LEMMA ReduceKeepsSound ==
  ASSUME NEW b, Sound(b), NEW id \in OrderIds, NEW n \in Quantities
  PROVE  LET r == reduce_order(b, id, n) IN Sound(r) /\ r.depth = b.depth
<1>1. CASE ~has_order(b, id)
  BY <1>1 DEF reduce_order
<1>2. CASE has_order(b, id)
  <2> DEFINE cur == b.orders[id].qty
             left == IF n >= cur THEN 0 ELSE cur - n
  <2>1. cur \in Quantities
    BY <1>2 DEF Sound, WellFormed, has_order, IsMap, Orders
  <2>2. left \in Quantities
    BY <2>1, DomainAssumption DEF Quantities
  <2> HIDE DEF left
  <2>3. LET r == modify_order(b, id, left) IN Sound(r) /\ r.depth = b.depth
    BY <2>2, ModifyKeepsSound
  <2> QED
    BY <1>2, <2>3 DEF reduce_order, left
<1> QED
  BY <1>1, <1>2

\* The side of the order replaced is a side, so the order added is one.
LEMMA ReplaceKeepsSound ==
  ASSUME NEW b, Sound(b), NEW old \in OrderIds, NEW new \in OrderIds,
         NEW p \in Prices, NEW n \in Quantities
  PROVE  LET r == replace_order(b, old, new, p, n) IN Sound(r) /\ r.depth = b.depth
<1>1. CASE ~has_order(b, old)
  BY <1>1 DEF replace_order
<1>2. CASE has_order(b, old)
  <2>1. b.orders[old].side \in Side
    BY <1>2 DEF Sound, WellFormed, has_order, IsMap, Orders
  <2>2. LET c == delete_order(b, old) IN Sound(c) /\ c.depth = b.depth
    BY DeleteKeepsSound
  <2>3. LET r == add_order(delete_order(b, old), new, b.orders[old].side, p, n)
        IN  Sound(r) /\ r.depth = b.depth
    BY <2>1, <2>2, AddKeepsSound
  <2> QED
    BY <1>2, <2>3 DEF replace_order
<1> QED
  BY <1>1, <1>2

\* The constructor's book is sound.
LEMMA EmptySound ==
  ASSUME NEW n \in Nat
  PROVE  Sound(EmptyBook(n)) /\ EmptyBook(n).depth = n
<1> DEFINE b == EmptyBook(n)
<1>1. /\ b = [depth |-> b.depth, orders |-> b.orders, ladder |-> b.ladder, top |-> b.top]
      /\ b.depth = n
      /\ b.orders = EmptyMap
      /\ b.ladder = [s \in Side |-> EmptyMap]
      /\ b.top = [s \in Side |-> << >>]
  BY DEF EmptyBook
<1>2. DOMAIN EmptyMap = {} /\ IsFiniteSet(DOMAIN EmptyMap)
  BY FS_EmptySet DEF EmptyMap
<1>3. \A S, T : IsMap(EmptyMap, S, T)
  BY DEF IsMap, EmptyMap
<1>4. \A s \in Side : refresh_top(s, EmptyMap, n) = << >>
  <2>1. Cardinality(DOMAIN EmptyMap) = 0
    BY <1>2, FS_EmptySet
  <2>2. LadderSize(EmptyMap, n) = 0
    BY <2>1 DEF LadderSize
  <2> QED
    BY <2>2 DEF refresh_top
<1> HIDE DEF b
<1>5. WellFormed(b)
  BY <1>1, <1>2, <1>3, <1>4 DEF WellFormed
<1>6. \A s \in Side, p \in Prices : LevelMatches(b, s, p)
  BY <1>1, <1>2 DEF LevelMatches, OrdersAt
<1> QED
  BY <1>1, <1>5, <1>6 DEF Sound, b

\* A well-formed book's top-N is a list of levels and the best of its ladder.
LEMMA WellFormedTop ==
  ASSUME NEW b, WellFormed(b), NEW s \in Side
  PROVE  b.top[s] \in Seq(TopLevels) /\ TopMatches(b, s)
<1>1. b.depth \in Nat
  BY DEF WellFormed
<1> QED
  BY <1>1, RefreshedTop DEF WellFormed

-----------------------------------------------------------------------------
(***************************************************************************)
(* The live ids of one book after each operation.                          *)
(***************************************************************************)

Ids(b) == DOMAIN b.orders

\* apply_level_delta leaves the orders alone.
LEMMA DeltaKeepsOrders ==
  ASSUME NEW b, WellFormed(b), NEW orders, NEW s, NEW p, NEW qd, NEW cd
  PROVE  apply_level_delta([b EXCEPT !.orders = orders], s, p, qd, cd).orders = orders
<1> DEFINE c == [b EXCEPT !.orders = orders]
<1>1. c = [depth |-> b.depth, orders |-> orders, ladder |-> b.ladder, top |-> b.top]
  BY DEF WellFormed
<1> HIDE DEF c
<1>2. c.orders = orders
  BY <1>1
<1>3. ASSUME NEW lad, NEW lvls
      PROVE  [c EXCEPT !.ladder[s] = lad, !.top[s] = lvls].orders = orders
  BY <1>1
<1> QED
  BY <1>2, <1>3 DEF apply_level_delta, c

\* An add brings its id unless the book ignores it.
LEMMA IdsAfterAdd ==
  ASSUME NEW b, WellFormed(b), NEW id, NEW s, NEW p, NEW n
  PROVE  Ids(add_order(b, id, s, p, n)) =
           IF n = 0 \/ id \in Ids(b) THEN Ids(b) ELSE Ids(b) \cup {id}
<1>1. CASE n = 0 \/ id \in Ids(b)
  BY <1>1 DEF add_order, has_order, Ids
<1>2. CASE ~(n = 0 \/ id \in Ids(b))
  <2>1. add_order(b, id, s, p, n).orders = Put(b.orders, id, OrderState(s, p, n))
    <3> DEFINE orders == Put(b.orders, id, OrderState(s, p, n))
    <3>1. add_order(b, id, s, p, n) =
            apply_level_delta([b EXCEPT !.orders = orders], s, p, n, 1)
      BY <1>2 DEF add_order, has_order, Ids
    <3> HIDE DEF orders
    <3>2. apply_level_delta([b EXCEPT !.orders = orders], s, p, n, 1).orders = orders
      BY DeltaKeepsOrders
    <3> QED
      BY <3>1, <3>2 DEF orders
  <2> QED
    BY <1>2, <2>1 DEF Put, Ids
<1> QED
  BY <1>1, <1>2

\* A delete takes its id out, if it was there.
LEMMA IdsAfterDelete ==
  ASSUME NEW b, WellFormed(b), NEW id
  PROVE  Ids(delete_order(b, id)) = Ids(b) \ {id}
<1>1. CASE ~has_order(b, id)
  BY <1>1 DEF delete_order, has_order, Ids
<1>2. CASE has_order(b, id)
  <2>1. delete_order(b, id).orders = Erase(b.orders, id)
    BY <1>2, DeltaKeepsOrders DEF delete_order
  <2> QED
    BY <2>1 DEF Erase, Restrict, Ids
<1> QED
  BY <1>1, <1>2

\* A reduction leaves the live ids as they are but for an id it drains.
LEMMA IdsAfterReduce ==
  ASSUME NEW b, WellFormed(b), NEW id, NEW n
  PROVE  Ids(reduce_order(b, id, n)) \in {Ids(b), Ids(b) \ {id}}
<1>1. ASSUME NEW q
      PROVE  Ids(modify_order(b, id, q)) \in {Ids(b), Ids(b) \ {id}}
  <2>1. CASE ~has_order(b, id) \/ q = b.orders[id].qty
    BY <2>1 DEF modify_order
  <2>2. CASE has_order(b, id) /\ q # b.orders[id].qty /\ q = 0
    BY <2>2, IdsAfterDelete DEF modify_order
  <2>3. CASE has_order(b, id) /\ q # b.orders[id].qty /\ q # 0
    <3>1. modify_order(b, id, q).orders = Put(b.orders, id, [b.orders[id] EXCEPT !.qty = q])
      <4> DEFINE o == b.orders[id]
                 orders == Put(b.orders, id, [o EXCEPT !.qty = q])
      <4>1. modify_order(b, id, q) =
              apply_level_delta([b EXCEPT !.orders = orders], o.side, o.price, q - o.qty, 0)
        BY <2>3 DEF modify_order
      <4> HIDE DEF orders
      <4>2. apply_level_delta([b EXCEPT !.orders = orders],
                              o.side, o.price, q - o.qty, 0).orders = orders
        BY DeltaKeepsOrders
      <4> QED
        BY <4>1, <4>2 DEF orders
    <3> QED
      BY <2>3, <3>1 DEF Put, Ids, has_order
  <2> QED
    BY <2>1, <2>2, <2>3
<1> QED
  BY <1>1 DEF reduce_order

\* A replacement takes the old id out and brings the new one as an add would.
LEMMA IdsAfterReplace ==
  ASSUME NEW b, Sound(b), NEW old \in Ids(b), old \in OrderIds, NEW new, NEW p, NEW n
  PROVE  Ids(replace_order(b, old, new, p, n)) =
           IF n = 0 \/ new \in Ids(b) \ {old} THEN Ids(b) \ {old}
           ELSE (Ids(b) \ {old}) \cup {new}
<1> DEFINE c == delete_order(b, old)
<1>1. WellFormed(c)
  BY DeleteKeepsSound DEF Sound
<1>2. Ids(c) = Ids(b) \ {old}
  BY IdsAfterDelete DEF Sound
<1>3. replace_order(b, old, new, p, n) = add_order(c, new, b.orders[old].side, p, n)
  BY DEF replace_order, has_order, Ids
<1> HIDE DEF c
<1> QED
  BY <1>1, <1>2, <1>3, IdsAfterAdd

-----------------------------------------------------------------------------
(***************************************************************************)
(* Depth books: sound books behind an index that names only them.          *)
(***************************************************************************)

Books(d, S) ==
  /\ d = [depth |-> d.depth, books |-> d.books, index |-> d.index]
  /\ d.depth \in Nat
  /\ d.books = [sym \in DOMAIN d.books |-> d.books[sym]]
  /\ DOMAIN d.books \subseteq S
  /\ \A sym \in DOMAIN d.books : Sound(d.books[sym])
  /\ IsMap(d.index, OrderIds, DOMAIN d.books)

\* the symbol's book holds the order
Holds(d, sym, id) == sym \in DOMAIN d.books /\ id \in Ids(d.books[sym])

\* what RoutesExactly says, order by order
Routes(d) ==
  \A sym, id : Holds(d, sym, id) <=> id \in DOMAIN d.index /\ d.index[id] = sym

\* e is d with b as the book of sym and ix as the index
Replaces(e, d, sym, b, ix) ==
  /\ DOMAIN e.books = DOMAIN d.books
  /\ e.books[sym] = b
  /\ \A t \in DOMAIN d.books \ {sym} : e.books[t] = d.books[t]
  /\ e.index = ix

\* Pair by pair and as sets of pairs is the same.
LEMMA RoutesPairwise ==
  ASSUME NEW d
  PROVE  Routes(d) <=> RoutesExactly(d)
<1> DEFINE routed == {<<d.index[id], id>> : id \in DOMAIN d.index}
<1>1. \A sym, id : <<sym, id>> \in LiveOrders(d) <=> Holds(d, sym, id)
  BY DEF LiveOrders, Holds, Ids
<1>2. \A x \in LiveOrders(d) : x = <<x[1], x[2]>>
  BY DEF LiveOrders
<1>3. \A sym, id : <<sym, id>> \in routed <=> id \in DOMAIN d.index /\ d.index[id] = sym
  OBVIOUS
<1>4. \A x \in routed : x = <<x[1], x[2]>>
  OBVIOUS
<1> HIDE DEF routed
<1>5. Routes(d) => LiveOrders(d) = routed
  BY <1>1, <1>2, <1>3, <1>4 DEF Routes
<1>6. LiveOrders(d) = routed => Routes(d)
  BY <1>1, <1>3 DEF Routes
<1> QED
  BY <1>5, <1>6 DEF RoutesExactly, routed

\* Giving one symbol another sound book, and the index other entries that name
\* known symbols, leaves sound books behind an index.
LEMMA BooksStep ==
  ASSUME NEW S, NEW d, Books(d, S), NEW sym \in DOMAIN d.books, NEW b, Sound(b),
         NEW ix, IsMap(ix, OrderIds, DOMAIN d.books)
  PROVE  LET e == [d EXCEPT !.books[sym] = b, !.index = ix]
         IN  Books(e, S) /\ Replaces(e, d, sym, b, ix)
<1> DEFINE e == [d EXCEPT !.books[sym] = b, !.index = ix]
           bs == [d.books EXCEPT ![sym] = b]
<1>1. e = [depth |-> d.depth, books |-> bs, index |-> ix]
  <2> DEFINE c == [d EXCEPT !.books[sym] = b]
  <2> HIDE DEF bs, e
  <2>1. d = [depth |-> d.depth, books |-> d.books, index |-> d.index]
    BY DEF Books
  <2>2. c = [depth |-> d.depth, books |-> bs, index |-> d.index]
    BY <2>1 DEF bs
  <2>3. e = [c EXCEPT !.index = ix]
    BY <2>1 DEF e
  <2> HIDE DEF c
  <2> QED
    BY <2>2, <2>3
<1> HIDE DEF e
<1>2. e.books = bs /\ e.index = ix
  BY <1>1
<1>3. /\ DOMAIN bs = DOMAIN d.books /\ bs[sym] = b
      /\ \A t \in DOMAIN d.books \ {sym} : bs[t] = d.books[t]
      /\ bs = [t \in DOMAIN bs |-> bs[t]]
  OBVIOUS
<1> HIDE DEF bs
<1>4. Replaces(e, d, sym, b, ix)
  BY <1>2, <1>3 DEF Replaces
<1>5. Books(e, S)
  <2>1. \A t \in DOMAIN bs : Sound(bs[t])
    BY <1>3 DEF Books
  <2> QED
    BY <1>1, <1>2, <1>3, <2>1 DEF Books
<1> QED
  BY <1>4, <1>5 DEF e

\* the ids of out leave the book b of sym and the index ix together, and those
\* of in, none of them another live order's, enter both
MoveTogether(d, sym, b, ix, out, in) ==
  /\ \A id \in out : Holds(d, sym, id)
  /\ \A id \in in \ out : \A t : ~Holds(d, t, id)
  /\ Ids(b) = (Ids(d.books[sym]) \ out) \cup in
  /\ DOMAIN ix = (DOMAIN d.index \ out) \cup in
  /\ \A id \in in : ix[id] = sym
  /\ \A id \in DOMAIN ix \ in : ix[id] = d.index[id]

\* Routing stays exact when the ids that leave the book, and the new ids that
\* enter it, leave and enter the index with it.
LEMMA RoutingStep ==
  ASSUME NEW d, Routes(d), NEW sym \in DOMAIN d.books, NEW e, NEW b, NEW ix,
         Replaces(e, d, sym, b, ix),
         NEW out, NEW in, MoveTogether(d, sym, b, ix, out, in)
  PROVE  Routes(e)
<1> USE DEF MoveTogether
<1> SUFFICES ASSUME NEW t, NEW id
             PROVE  Holds(e, t, id) <=> id \in DOMAIN ix /\ ix[id] = t
  BY DEF Routes, Replaces
<1>1. Holds(e, t, id) <=> IF t = sym THEN id \in (Ids(d.books[sym]) \ out) \cup in
                          ELSE Holds(d, t, id)
  BY DEF Holds, Replaces
<1>2. \A x : Holds(d, sym, x) <=> x \in Ids(d.books[sym])
  BY DEF Holds
<1>3. \A u, x : Holds(d, u, x) <=> x \in DOMAIN d.index /\ d.index[x] = u
  BY DEF Routes
<1>4. CASE id \in in
  <2>1. \A u : Holds(d, u, id) => u = sym
    BY <1>3, <1>4
  <2> QED
    BY <1>1, <1>4, <2>1
<1>5. CASE id \notin in /\ id \in out
  <2>1. \A u : Holds(d, u, id) => u = sym
    BY <1>3, <1>5
  <2> QED
    BY <1>1, <1>5, <2>1
<1>6. CASE id \notin in /\ id \notin out
  <2>1. id \in DOMAIN ix <=> id \in DOMAIN d.index
    BY <1>6
  <2>2. id \in DOMAIN ix => ix[id] = d.index[id]
    BY <1>6
  <2> QED
    BY <1>1, <1>2, <1>3, <1>6, <2>1, <2>2
<1> QED
  BY <1>4, <1>5, <1>6

-----------------------------------------------------------------------------
(***************************************************************************)
(* The messages.  r is what apply returns for one.                         *)
(***************************************************************************)

\* the callback hears of the one symbol whose top-N may have changed
Tells(d, r, S) ==
  \/ r = NoChange(d)
  \/ /\ r.changed = TRUE
     /\ r.symbol \in S
     /\ \A t \in S \ {r.symbol} : snapshot(r.db, t) = snapshot(d, t)

NoOneHolds(d, id) == \A t : ~Holds(d, t, id)

\* A change of one symbol's book that names that symbol.
LEMMA ChangeTells ==
  ASSUME NEW S, NEW d, Books(d, S), NEW sym \in DOMAIN d.books, NEW e, NEW b, NEW ix,
         Replaces(e, d, sym, b, ix)
  PROVE  Tells(d, Change(e, sym), S)
<1>1. \A t \in S \ {sym} : snapshot(e, t) = snapshot(d, t)
  BY DEF snapshot, Replaces
<1>2. sym \in S
  BY DEF Books
<1> QED
  BY <1>1, <1>2 DEF Tells, Change

\* An order the index routes is live in a sound book of a known symbol.
LEMMA RoutedOrder ==
  ASSUME NEW S, NEW d, Books(d, S), NEW id, Routed(d, id)
  PROVE  /\ d.index[id] \in DOMAIN d.books
         /\ Sound(d.books[d.index[id]])
         /\ id \in Ids(d.books[d.index[id]])
         /\ Holds(d, d.index[id], id)
         /\ id \in OrderIds
<1>1. d.index[id] \in DOMAIN d.books /\ id \in OrderIds
  BY DEF Books, Routed, IsMap
<1> QED
  BY <1>1 DEF Books, Routed, Holds, Ids, has_order

\* E, C and X.
LEMMA ReduceStep ==
  ASSUME NEW S, NEW d, Books(d, S), NEW type, NEW id \in OrderIds, NEW n \in Quantities
  PROVE  LET r == apply_reduce(d, ReduceMsg(type, id, n))
         IN  Books(r.db, S) /\ Tells(d, r, S) /\ (Routes(d) => Routes(r.db))
<1> DEFINE sym == d.index[id]
           b == reduce_order(d.books[sym], id, n)
           ix == IF has_order(b, id) THEN d.index ELSE Erase(d.index, id)
           e == [d EXCEPT !.books[sym] = b, !.index = ix]
           out == IF has_order(b, id) THEN {} ELSE {id}
           r == apply_reduce(d, ReduceMsg(type, id, n))
<1>1. CASE ~Routed(d, id)
  BY <1>1 DEF apply_reduce, ReduceMsg, NoChange, Tells
<1>2. CASE Routed(d, id)
  <2>1. /\ sym \in DOMAIN d.books /\ Sound(d.books[sym])
        /\ id \in Ids(d.books[sym]) /\ Holds(d, sym, id)
    BY <1>2, RoutedOrder
  <2>2. Sound(b)
    BY <2>1, ReduceKeepsSound
  <2>3. Ids(b) = Ids(d.books[sym]) \ out
    <3>1. Ids(b) \in {Ids(d.books[sym]), Ids(d.books[sym]) \ {id}}
      BY <2>1, IdsAfterReduce DEF Sound
    <3> QED
      BY <2>1, <3>1 DEF has_order, Ids
  <2>4. /\ IsMap(ix, OrderIds, DOMAIN d.books)
        /\ DOMAIN ix = DOMAIN d.index \ out
        /\ \A x \in DOMAIN ix : ix[x] = d.index[x]
    BY DEF Books, IsMap, Erase, Restrict
  <2>5. r = Change(e, sym)
    BY <1>2 DEF apply_reduce, ReduceMsg
  <2> HIDE DEF b, ix, r, sym
  <2>6. Books(e, S) /\ Replaces(e, d, sym, b, ix)
    BY <2>1, <2>2, <2>4, BooksStep
  <2> HIDE DEF e
  <2>7. Routes(d) => Routes(e)
    <3>1. \A x \in out : Holds(d, sym, x)
      BY <2>1
    <3> HIDE DEF out
    <3>2. MoveTogether(d, sym, b, ix, out, {})
      BY <2>3, <2>4, <3>1 DEF MoveTogether
    <3> QED
      BY <2>1, <2>6, <3>2, RoutingStep
  <2> QED
    BY <2>1, <2>5, <2>6, <2>7, ChangeTells DEF r, Change
<1> QED
  BY <1>1, <1>2

\* D.
LEMMA DeleteStep ==
  ASSUME NEW S, NEW d, Books(d, S), NEW id \in OrderIds
  PROVE  LET r == apply_delete(d, DeleteMsg(id))
         IN  Books(r.db, S) /\ Tells(d, r, S) /\ (Routes(d) => Routes(r.db))
<1> DEFINE sym == d.index[id]
           b == delete_order(d.books[sym], id)
           ix == Erase(d.index, id)
           e == [d EXCEPT !.books[sym] = b, !.index = ix]
           r == apply_delete(d, DeleteMsg(id))
<1>1. CASE ~Routed(d, id)
  BY <1>1 DEF apply_delete, DeleteMsg, NoChange, Tells
<1>2. CASE Routed(d, id)
  <2>1. /\ sym \in DOMAIN d.books /\ Sound(d.books[sym]) /\ Holds(d, sym, id)
    BY <1>2, RoutedOrder
  <2>2. Sound(b) /\ Ids(b) = (Ids(d.books[sym]) \ {id}) \cup {}
    BY <2>1, DeleteKeepsSound, IdsAfterDelete DEF Sound
  <2>3. /\ IsMap(ix, OrderIds, DOMAIN d.books)
        /\ DOMAIN ix = (DOMAIN d.index \ {id}) \cup {}
        /\ \A x \in DOMAIN ix : ix[x] = d.index[x]
    BY DEF Books, IsMap, Erase, Restrict
  <2>4. r = Change(e, sym)
    BY <1>2 DEF apply_delete, DeleteMsg
  <2> HIDE DEF b, ix, r, sym
  <2>5. Books(e, S) /\ Replaces(e, d, sym, b, ix)
    BY <2>1, <2>2, <2>3, BooksStep
  <2> HIDE DEF e
  <2>6. MoveTogether(d, sym, b, ix, {id}, {})
    BY <2>1, <2>2, <2>3 DEF MoveTogether
  <2>7. Routes(d) => Routes(e)
    BY <2>1, <2>5, <2>6, RoutingStep
  <2> QED
    BY <2>1, <2>4, <2>5, <2>7, ChangeTells DEF r, Change
<1> QED
  BY <1>1, <1>2

\* U.  Routing stays exact if the order brought has shares and an id of its own.
LEMMA ReplaceStep ==
  ASSUME NEW S, NEW d, Books(d, S), NEW id \in OrderIds, NEW new \in OrderIds,
         NEW p \in Prices, NEW n \in Quantities
  PROVE  LET r == apply_replace(d, ReplaceMsg(id, new, p, n))
         IN  /\ Books(r.db, S) /\ Tells(d, r, S)
             /\ Routes(d) /\ (Routed(d, id) => n > 0 /\ (new = id \/ NoOneHolds(d, new)))
                  => Routes(r.db)
<1> DEFINE sym == d.index[id]
           b == replace_order(d.books[sym], id, new, p, n)
           ix == Put(Erase(d.index, id), new, sym)
           e == [d EXCEPT !.books[sym] = b, !.index = ix]
           r == apply_replace(d, ReplaceMsg(id, new, p, n))
<1>1. CASE ~Routed(d, id)
  BY <1>1 DEF apply_replace, ReplaceMsg, NoChange, Tells
<1>2. CASE Routed(d, id)
  <2>1. /\ sym \in DOMAIN d.books /\ Sound(d.books[sym]) /\ Holds(d, sym, id)
        /\ id \in Ids(d.books[sym])
    BY <1>2, RoutedOrder
  <2>2. Sound(b)
    BY <2>1, ReplaceKeepsSound
  <2>3. /\ IsMap(ix, OrderIds, DOMAIN d.books)
        /\ DOMAIN ix = (DOMAIN d.index \ {id}) \cup {new}
        /\ ix[new] = sym
        /\ \A x \in DOMAIN ix \ {new} : ix[x] = d.index[x]
    BY <2>1 DEF Books, IsMap, Put, Erase, Restrict
  <2>4. r = Change(e, sym)
    BY <1>2 DEF apply_replace, ReplaceMsg
  <2>5. ASSUME n > 0, new = id \/ NoOneHolds(d, new)
        PROVE  MoveTogether(d, sym, b, ix, {id}, {new})
    <3>1. Ids(b) = IF n = 0 \/ new \in Ids(d.books[sym]) \ {id} THEN Ids(d.books[sym]) \ {id}
                   ELSE (Ids(d.books[sym]) \ {id}) \cup {new}
      <4> DEFINE k == d.books[sym]
      <4>1. Sound(k) /\ id \in Ids(k)
        BY <2>1
      <4> HIDE DEF k
      <4>2. Ids(replace_order(k, id, new, p, n)) =
              IF n = 0 \/ new \in Ids(k) \ {id} THEN Ids(k) \ {id}
              ELSE (Ids(k) \ {id}) \cup {new}
        BY <4>1, IdsAfterReplace
      <4> QED
        BY <4>2 DEF k
    <3>2. n # 0
      BY <2>5
    <3>3. new \notin Ids(d.books[sym]) \ {id}
      BY <2>1, <2>5 DEF NoOneHolds, Holds
    <3> QED
      BY <2>1, <2>3, <2>5, <3>1, <3>2, <3>3 DEF MoveTogether, NoOneHolds
  <2> HIDE DEF b, ix, r, sym
  <2>6. Books(e, S) /\ Replaces(e, d, sym, b, ix)
    BY <2>1, <2>2, <2>3, BooksStep
  <2> HIDE DEF e
  <2>7. Routes(d) /\ n > 0 /\ (new = id \/ NoOneHolds(d, new)) => Routes(e)
    BY <2>1, <2>5, <2>6, RoutingStep
  <2> QED
    BY <1>2, <2>1, <2>4, <2>6, <2>7, ChangeTells DEF r, Change
<1> QED
  BY <1>1, <1>2

\* The first use of a symbol gives it an empty book, which changes nothing that
\* routing or a reader sees.
LEMMA BookFor ==
  ASSUME NEW S, NEW d, Books(d, S), NEW sym \in S
  PROVE  LET c == book_for(d, sym)
         IN  /\ Books(c, S) /\ sym \in DOMAIN c.books /\ c.index = d.index
             /\ \A t : snapshot(c, t) = snapshot(d, t)
             /\ \A t, id : Holds(c, t, id) <=> Holds(d, t, id)
<1> DEFINE c == book_for(d, sym)
           bs == Put(d.books, sym, EmptyBook(d.depth))
<1>1. CASE sym \in DOMAIN d.books
  BY <1>1 DEF book_for
<1>2. CASE sym \notin DOMAIN d.books
  <2>1. c = [depth |-> d.depth, books |-> bs, index |-> d.index]
    BY <1>2 DEF book_for, Books
  <2>2. /\ DOMAIN bs = DOMAIN d.books \cup {sym} /\ bs[sym] = EmptyBook(d.depth)
        /\ \A t \in DOMAIN d.books : bs[t] = d.books[t]
        /\ bs = [t \in DOMAIN bs |-> bs[t]]
    BY <1>2 DEF Put
  <2> HIDE DEF c, bs
  <2>3. c.books = bs /\ c.index = d.index
    BY <2>1
  <2>4. \A t \in DOMAIN bs : Sound(bs[t])
    BY <2>2, EmptySound DEF Books
  <2>5. IsMap(d.index, OrderIds, DOMAIN bs)
    BY <2>2 DEF Books, IsMap
  <2>6. Books(c, S)
    BY <2>1, <2>2, <2>3, <2>4, <2>5 DEF Books
  <2>7. Ids(EmptyBook(d.depth)) = {}
    BY DEF Ids, EmptyBook, EmptyMap
  <2>8. EmptyBook(d.depth).top["Buy"] = << >> /\ EmptyBook(d.depth).top["Sell"] = << >>
    BY DEF EmptyBook, Side
  <2>9. \A t : snapshot(c, t) = snapshot(d, t)
    BY <1>2, <2>2, <2>3, <2>8 DEF snapshot
  <2>10. \A t, id : Holds(c, t, id) <=> Holds(d, t, id)
    BY <1>2, <2>2, <2>3, <2>7 DEF Holds
  <2> QED
    BY <2>2, <2>3, <2>6, <2>9, <2>10 DEF c
<1> QED
  BY <1>1, <1>2

\* A and F.  Routing stays exact if the order has shares and an id of its own.
LEMMA AddStep ==
  ASSUME NEW S, NEW d, Books(d, S), NEW type, NEW sym \in S, NEW id \in OrderIds,
         NEW s \in Side, NEW p \in Prices, NEW n \in Quantities
  PROVE  LET r == apply_add(d, AddMsg(type, sym, id, s, p, n))
         IN  /\ Books(r.db, S) /\ Tells(d, r, S)
             /\ Routes(d) /\ n > 0 /\ NoOneHolds(d, id) => Routes(r.db)
<1> DEFINE c == book_for(d, sym)
           b == add_order(c.books[sym], id, s, p, n)
           ix == Put(c.index, id, sym)
           e == [c EXCEPT !.books[sym] = b, !.index = ix]
           r == apply_add(d, AddMsg(type, sym, id, s, p, n))
<1>1. /\ Books(c, S) /\ sym \in DOMAIN c.books /\ c.index = d.index
      /\ \A t : snapshot(c, t) = snapshot(d, t)
      /\ \A t, x : Holds(c, t, x) <=> Holds(d, t, x)
  BY BookFor
<1>2. r = Change(e, sym)
  BY DEF apply_add, AddMsg
<1> HIDE DEF c, r
<1>3. Sound(c.books[sym]) /\ Sound(b)
  BY <1>1, AddKeepsSound DEF Books
<1>4. /\ IsMap(ix, OrderIds, DOMAIN c.books)
      /\ DOMAIN ix = (DOMAIN c.index \ {}) \cup {id}
      /\ ix[id] = sym
      /\ \A x \in DOMAIN ix \ {id} : ix[x] = c.index[x]
  BY <1>1 DEF Books, IsMap, Put
<1>5. ASSUME n > 0, NoOneHolds(d, id)
      PROVE  MoveTogether(c, sym, b, ix, {}, {id})
  <2>1. Ids(b) = IF n = 0 \/ id \in Ids(c.books[sym]) THEN Ids(c.books[sym])
                 ELSE Ids(c.books[sym]) \cup {id}
    <3> DEFINE k == c.books[sym]
    <3>1. WellFormed(k)
      BY <1>3 DEF Sound
    <3> HIDE DEF k
    <3>2. Ids(add_order(k, id, s, p, n)) =
            IF n = 0 \/ id \in Ids(k) THEN Ids(k) ELSE Ids(k) \cup {id}
      BY <3>1, IdsAfterAdd
    <3> QED
      BY <3>2 DEF k
  <2>2. \A t : ~Holds(c, t, id)
    BY <1>1, <1>5 DEF NoOneHolds
  <2>3. n # 0 /\ id \notin Ids(c.books[sym])
    BY <1>1, <1>5, <2>2 DEF Holds
  <2> QED
    BY <1>4, <2>1, <2>2, <2>3 DEF MoveTogether
<1> HIDE DEF b, ix
<1>6. Books(e, S) /\ Replaces(e, c, sym, b, ix)
  BY <1>1, <1>3, <1>4, BooksStep
<1> HIDE DEF e
<1>7. Routes(d) => Routes(c)
  BY <1>1 DEF Routes
<1>8. Routes(d) /\ n > 0 /\ NoOneHolds(d, id) => Routes(e)
  BY <1>1, <1>5, <1>6, <1>7, RoutingStep
<1>9. Tells(d, Change(e, sym), S)
  BY <1>1, <1>6 DEF Tells, Change, snapshot, Replaces, NoChange
<1> QED
  BY <1>2, <1>6, <1>8, <1>9 DEF r, Change

-----------------------------------------------------------------------------
(***************************************************************************)
(* The orders of one book after each operation.                            *)
(***************************************************************************)

\* An order goes into the book unless it is for nothing or its id is live.
LEMMA OrdersAfterAdd ==
  ASSUME NEW b, WellFormed(b), NEW id, NEW s, NEW p, NEW n
  PROVE  add_order(b, id, s, p, n).orders =
           IF n = 0 \/ id \in Ids(b) THEN b.orders ELSE Put(b.orders, id, OrderState(s, p, n))
<1>1. CASE n = 0 \/ id \in Ids(b)
  BY <1>1 DEF add_order, has_order, Ids
<1>2. CASE ~(n = 0 \/ id \in Ids(b))
  <2> DEFINE orders == Put(b.orders, id, OrderState(s, p, n))
  <2>1. add_order(b, id, s, p, n) = apply_level_delta([b EXCEPT !.orders = orders], s, p, n, 1)
    BY <1>2 DEF add_order, has_order, Ids
  <2> HIDE DEF orders
  <2>2. apply_level_delta([b EXCEPT !.orders = orders], s, p, n, 1).orders = orders
    BY DeltaKeepsOrders
  <2> QED
    BY <1>2, <2>1, <2>2 DEF orders
<1> QED
  BY <1>1, <1>2

\* A delete takes its order out of the book.
LEMMA OrdersAfterDelete ==
  ASSUME NEW b, WellFormed(b), NEW id \in Ids(b)
  PROVE  delete_order(b, id).orders = Erase(b.orders, id)
<1> DEFINE o == b.orders[id]
           orders == Erase(b.orders, id)
<1>1. delete_order(b, id) =
        apply_level_delta([b EXCEPT !.orders = orders], o.side, o.price, -o.qty, -1)
  BY DEF delete_order, has_order, Ids
<1> HIDE DEF o, orders
<1>2. apply_level_delta([b EXCEPT !.orders = orders], o.side, o.price, -o.qty, -1).orders = orders
  BY DeltaKeepsOrders
<1> QED
  BY <1>1, <1>2 DEF orders

\* An execution or cancel of n > 0 shares takes them off the order, or the order
\* out of the book.
LEMMA OrdersAfterReduce ==
  ASSUME NEW b, WellFormed(b), NEW id \in Ids(b), NEW n \in Nat \ {0}
  PROVE  reduce_order(b, id, n).orders =
           IF n >= b.orders[id].qty THEN Erase(b.orders, id)
           ELSE Put(b.orders, id, [b.orders[id] EXCEPT !.qty = b.orders[id].qty - n])
<1> DEFINE o == b.orders[id]
<1>1. o.qty \in Nat \ {0}
  BY DomainAssumption DEF WellFormed, IsMap, Ids, Orders, Quantities
<1>2. has_order(b, id)
  BY DEF has_order, Ids
<1>3. CASE n >= o.qty
  <2>1. reduce_order(b, id, n) = delete_order(b, id)
    BY <1>1, <1>2, <1>3 DEF reduce_order, modify_order
  <2> QED
    BY <1>3, <2>1, OrdersAfterDelete
<1>4. CASE ~(n >= o.qty)
  <2> DEFINE q == o.qty - n
             orders == Put(b.orders, id, [o EXCEPT !.qty = q])
  <2>1. q # 0 /\ q # o.qty
    BY <1>1, <1>4
  <2>2. reduce_order(b, id, n) = modify_order(b, id, q)
    BY <1>2, <1>4 DEF reduce_order
  <2> HIDE DEF q
  <2>3. modify_order(b, id, q) =
          apply_level_delta([b EXCEPT !.orders = orders], o.side, o.price, q - o.qty, 0)
    BY <1>2, <2>1 DEF modify_order
  <2> HIDE DEF orders
  <2>4. apply_level_delta([b EXCEPT !.orders = orders],
                          o.side, o.price, q - o.qty, 0).orders = orders
    BY DeltaKeepsOrders
  <2> QED
    BY <1>4, <2>2, <2>3, <2>4 DEF orders, q
<1> QED
  BY <1>3, <1>4

\* A replacement takes the old order out and puts the new one in on its side.
LEMMA OrdersAfterReplace ==
  ASSUME NEW b, Sound(b), NEW old \in Ids(b), old \in OrderIds, NEW new, NEW p,
         NEW n, n # 0, new \notin Ids(b) \ {old}
  PROVE  replace_order(b, old, new, p, n).orders =
           Put(Erase(b.orders, old), new, OrderState(b.orders[old].side, p, n))
<1> DEFINE c == delete_order(b, old)
<1>1. WellFormed(b) /\ WellFormed(c)
  BY DeleteKeepsSound DEF Sound
<1>2. c.orders = Erase(b.orders, old) /\ Ids(c) = Ids(b) \ {old}
  BY <1>1, OrdersAfterDelete, IdsAfterDelete
<1>3. replace_order(b, old, new, p, n) = add_order(c, new, b.orders[old].side, p, n)
  BY DEF replace_order, has_order, Ids
<1> HIDE DEF c
<1> QED
  BY <1>1, <1>2, <1>3, OrdersAfterAdd

-----------------------------------------------------------------------------
(***************************************************************************)
(* The live orders of a depth book, each with its symbol, by id.  A        *)
(* message does to them what it says.                                      *)
(***************************************************************************)

Contents(d) == [id \in DOMAIN d.index |-> <<d.index[id], d.books[d.index[id]].orders[id]>>]

\* C holds the orders of b under sym and those of d's other books
Carries(C, d, sym, b, ix) ==
  /\ C = [id \in DOMAIN ix |-> C[id]]
  /\ \A id \in DOMAIN ix : ix[id] = sym => C[id] = <<sym, b.orders[id]>>
  /\ \A id \in DOMAIN ix : ix[id] # sym =>
       id \in DOMAIN d.index /\ ix[id] = d.index[id] /\ C[id] = Contents(d)[id]

\* The contents after a change of one symbol's book, from what the book and the
\* index hold then.
LEMMA ContentsStep ==
  ASSUME NEW d, NEW sym \in DOMAIN d.books, NEW e, NEW b, NEW ix,
         Replaces(e, d, sym, b, ix), IsMap(ix, OrderIds, DOMAIN d.books),
         NEW C, Carries(C, d, sym, b, ix)
  PROVE  Contents(e) = C
<1> USE DEF Carries
<1>1. ASSUME NEW id \in DOMAIN ix
      PROVE  <<ix[id], e.books[ix[id]].orders[id]>> = C[id]
  <2>1. CASE ix[id] = sym
    BY <2>1 DEF Replaces
  <2>2. CASE ix[id] # sym
    <3>1. ix[id] \in DOMAIN d.books
      BY DEF IsMap
    <3>2. e.books[ix[id]] = d.books[ix[id]]
      BY <2>2, <3>1 DEF Replaces
    <3>3. id \in DOMAIN d.index /\ ix[id] = d.index[id] /\ C[id] = Contents(d)[id]
      BY <2>2
    <3>4. Contents(d)[id] = <<ix[id], d.books[ix[id]].orders[id]>>
      BY <3>3 DEF Contents
    <3> QED
      BY <3>2, <3>3, <3>4
  <2> QED
    BY <2>1, <2>2
<1>2. e.index = ix
  BY DEF Replaces
<1> QED
  BY <1>1, <1>2 DEF Contents

\* An order the index routes is the one its book holds.
LEMMA RoutedContents ==
  ASSUME NEW S, NEW d, Books(d, S), Routes(d), NEW id
  PROVE  /\ Routed(d, id) <=> id \in DOMAIN d.index
         /\ id \in DOMAIN d.index =>
              /\ d.index[id] \in DOMAIN d.books /\ id \in Ids(d.books[d.index[id]])
              /\ Contents(d)[id] = <<d.index[id], d.books[d.index[id]].orders[id]>>
  BY DEF Routes, Routed, Holds, Ids, has_order, Contents

\* D.
LEMMA DeleteContents ==
  ASSUME NEW S, NEW d, Books(d, S), Routes(d), NEW id \in DOMAIN d.index
  PROVE  Contents(apply_delete(d, DeleteMsg(id)).db) = Erase(Contents(d), id)
<1> DEFINE sym == d.index[id]
           b == delete_order(d.books[sym], id)
           ix == Erase(d.index, id)
           e == [d EXCEPT !.books[sym] = b, !.index = ix]
           r == apply_delete(d, DeleteMsg(id))
           C == Erase(Contents(d), id)
<1>0. Routed(d, id)
  BY RoutedContents
<1>1. /\ sym \in DOMAIN d.books /\ Sound(d.books[sym]) /\ id \in Ids(d.books[sym])
      /\ id \in OrderIds
  BY <1>0, RoutedOrder
<1>2. Sound(b) /\ b.orders = Erase(d.books[sym].orders, id)
  BY <1>1, DeleteKeepsSound, OrdersAfterDelete DEF Sound
<1>3. /\ IsMap(ix, OrderIds, DOMAIN d.books) /\ DOMAIN ix = DOMAIN d.index \ {id}
      /\ \A x \in DOMAIN ix : ix[x] = d.index[x]
  BY DEF Books, IsMap, Erase, Restrict
<1>4. r = Change(e, sym)
  BY <1>0 DEF apply_delete, DeleteMsg
<1>5. C = [x \in DOMAIN ix |-> Contents(d)[x]] /\ C = [x \in DOMAIN ix |-> C[x]]
  BY <1>3 DEF Contents, Erase, Restrict
<1> HIDE DEF b, ix, r, C
<1>6. Replaces(e, d, sym, b, ix)
  BY <1>1, <1>2, <1>3, BooksStep
<1>7. ASSUME NEW x \in DOMAIN ix, ix[x] = sym
      PROVE  C[x] = <<sym, b.orders[x]>>
  <2>1. Contents(d)[x] = <<sym, d.books[sym].orders[x]>> /\ x \in Ids(d.books[sym]) /\ x # id
    BY <1>3, <1>7, RoutedContents
  <2> QED
    BY <1>2, <1>5, <2>1 DEF Erase, Restrict, Ids
<1> HIDE DEF e, sym
<1>8. Carries(C, d, sym, b, ix)
  BY <1>3, <1>5, <1>7 DEF Carries
<1>9. Contents(e) = C
  BY <1>1, <1>3, <1>6, <1>8, ContentsStep
<1> QED
  BY <1>4, <1>9 DEF r, C, Change

\* E, C and X.
LEMMA ReduceContents ==
  ASSUME NEW S, NEW d, Books(d, S), Routes(d), NEW id \in DOMAIN d.index, NEW type,
         NEW n \in Quantities \ {0}
  PROVE  LET o == Contents(d)[id][2]
         IN  Contents(apply_reduce(d, ReduceMsg(type, id, n)).db) =
               IF n >= o.qty THEN Erase(Contents(d), id)
               ELSE Put(Contents(d), id, <<d.index[id], [o EXCEPT !.qty = o.qty - n]>>)
<1> DEFINE sym == d.index[id]
           o == d.books[sym].orders[id]
           b == reduce_order(d.books[sym], id, n)
           ix == IF has_order(b, id) THEN d.index ELSE Erase(d.index, id)
           e == [d EXCEPT !.books[sym] = b, !.index = ix]
           r == apply_reduce(d, ReduceMsg(type, id, n))
           C == IF n >= o.qty THEN Erase(Contents(d), id)
                ELSE Put(Contents(d), id, <<sym, [o EXCEPT !.qty = o.qty - n]>>)
<1>0. Routed(d, id) /\ Contents(d)[id] = <<sym, o>>
  BY RoutedContents
<1>1. /\ sym \in DOMAIN d.books /\ Sound(d.books[sym]) /\ id \in Ids(d.books[sym])
      /\ id \in OrderIds /\ n \in Nat \ {0}
  BY <1>0, RoutedOrder, DomainAssumption DEF Quantities
<1>2. /\ Sound(b)
      /\ b.orders = IF n >= o.qty THEN Erase(d.books[sym].orders, id)
                    ELSE Put(d.books[sym].orders, id, [o EXCEPT !.qty = o.qty - n])
  BY <1>1, ReduceKeepsSound, OrdersAfterReduce DEF Sound
<1>3. has_order(b, id) <=> ~(n >= o.qty)
  BY <1>2 DEF has_order, Erase, Restrict, Put
<1>4. /\ IsMap(ix, OrderIds, DOMAIN d.books)
      /\ DOMAIN ix = IF n >= o.qty THEN DOMAIN d.index \ {id} ELSE DOMAIN d.index
      /\ \A x \in DOMAIN ix : ix[x] = d.index[x]
  BY <1>3 DEF Books, IsMap, Erase, Restrict
<1>5. r = Change(e, sym)
  BY <1>0 DEF apply_reduce, ReduceMsg
<1>6. /\ C = [x \in DOMAIN ix |-> C[x]]
      /\ \A x \in DOMAIN ix :
           C[x] = IF x = id THEN <<sym, [o EXCEPT !.qty = o.qty - n]>> ELSE Contents(d)[x]
  <2>1. CASE n >= o.qty
    BY <1>4, <2>1 DEF Contents, Erase, Restrict
  <2>2. CASE ~(n >= o.qty)
    BY <1>4, <2>2 DEF Contents, Put
  <2> QED
    BY <2>1, <2>2
<1> HIDE DEF b, ix, r, C
<1>7. Replaces(e, d, sym, b, ix)
  BY <1>1, <1>2, <1>4, BooksStep
<1>8. ASSUME NEW x \in DOMAIN ix, ix[x] = sym
      PROVE  C[x] = <<sym, b.orders[x]>>
  <2>0. x \in DOMAIN d.index /\ d.index[x] = sym
    BY <1>4, <1>8
  <2>1. Contents(d)[x] = <<sym, d.books[sym].orders[x]>> /\ x \in Ids(d.books[sym])
    <3> HIDE DEF sym
    <3> QED
      BY <2>0, RoutedContents
  <2>2. CASE x = id
    BY <1>2, <1>4, <1>6, <2>1, <2>2 DEF Put
  <2>3. CASE x # id
    <3>1. b.orders[x] = d.books[sym].orders[x]
      BY <1>2, <2>1, <2>3 DEF Put, Erase, Restrict, Ids
    <3> QED
      BY <1>6, <2>1, <2>3, <3>1
  <2> QED
    BY <2>2, <2>3
<1>9. ASSUME NEW x \in DOMAIN ix, ix[x] # sym
      PROVE  x \in DOMAIN d.index /\ ix[x] = d.index[x] /\ C[x] = Contents(d)[x]
  BY <1>4, <1>6, <1>9
<1> HIDE DEF e, sym, o
<1>10. Carries(C, d, sym, b, ix)
  BY <1>6, <1>8, <1>9 DEF Carries
<1>11. Contents(e) = C
  BY <1>1, <1>4, <1>7, <1>10, ContentsStep
<1>12. r.db = e
  BY <1>5 DEF Change
<1>13. Contents(d)[id][2] = o
  BY <1>0
<1> QED
  BY <1>11, <1>12, <1>13 DEF r, C, sym

\* U.
LEMMA ReplaceContents ==
  ASSUME NEW S, NEW d, Books(d, S), Routes(d), NEW id \in DOMAIN d.index,
         NEW new \in OrderIds \ DOMAIN d.index, NEW p \in Prices, NEW n \in Quantities \ {0}
  PROVE  Contents(apply_replace(d, ReplaceMsg(id, new, p, n)).db) =
           Put(Erase(Contents(d), id), new,
               <<d.index[id], OrderState(Contents(d)[id][2].side, p, n)>>)
<1> DEFINE sym == d.index[id]
           o == d.books[sym].orders[id]
           b == replace_order(d.books[sym], id, new, p, n)
           ix == Put(Erase(d.index, id), new, sym)
           e == [d EXCEPT !.books[sym] = b, !.index = ix]
           r == apply_replace(d, ReplaceMsg(id, new, p, n))
           C == Put(Erase(Contents(d), id), new, <<sym, OrderState(o.side, p, n)>>)
<1>0. Routed(d, id) /\ Contents(d)[id] = <<sym, o>>
  BY RoutedContents
<1>1. /\ sym \in DOMAIN d.books /\ Sound(d.books[sym]) /\ id \in Ids(d.books[sym])
      /\ id \in OrderIds /\ n # 0
  BY <1>0, RoutedOrder
<1>2. new \notin Ids(d.books[sym])
  BY <1>1 DEF Routes, Holds
<1>3. Sound(b)
  BY <1>1, ReplaceKeepsSound
<1>4. b.orders = Put(Erase(d.books[sym].orders, id), new, OrderState(o.side, p, n))
  <2> DEFINE k == d.books[sym]
  <2>1. Sound(k) /\ id \in Ids(k) /\ new \notin Ids(k) \ {id}
    BY <1>1, <1>2
  <2> HIDE DEF k
  <2>2. replace_order(k, id, new, p, n).orders =
          Put(Erase(k.orders, id), new, OrderState(k.orders[id].side, p, n))
    BY <1>1, <2>1, OrdersAfterReplace
  <2> QED
    BY <2>2 DEF k
<1>5. /\ IsMap(ix, OrderIds, DOMAIN d.books)
      /\ DOMAIN ix = (DOMAIN d.index \ {id}) \cup {new}
      /\ ix[new] = sym
      /\ \A x \in DOMAIN ix \ {new} : ix[x] = d.index[x]
  BY <1>1 DEF Books, IsMap, Put, Erase, Restrict
<1>6. r = Change(e, sym)
  BY <1>0 DEF apply_replace, ReplaceMsg
<1>7. /\ C = [x \in DOMAIN ix |-> C[x]]
      /\ \A x \in DOMAIN ix :
           C[x] = IF x = new THEN <<sym, OrderState(o.side, p, n)>> ELSE Contents(d)[x]
  BY <1>5 DEF Contents, Erase, Restrict, Put
<1> HIDE DEF b, ix, r, C
<1>8. Replaces(e, d, sym, b, ix)
  BY <1>1, <1>3, <1>5, BooksStep
<1>9. ASSUME NEW x \in DOMAIN ix, ix[x] = sym
      PROVE  C[x] = <<sym, b.orders[x]>>
  <2>1. CASE x = new
    BY <1>4, <1>7, <2>1 DEF Put
  <2>2. CASE x # new
    <3>1. x \in DOMAIN d.index /\ d.index[x] = sym /\ x # id
      BY <1>5, <1>9, <2>2
    <3>2. Contents(d)[x] = <<sym, d.books[sym].orders[x]>> /\ x \in Ids(d.books[sym])
      BY <3>1, RoutedContents
    <3>3. b.orders[x] = d.books[sym].orders[x]
      BY <1>4, <2>2, <3>1, <3>2 DEF Put, Erase, Restrict, Ids
    <3> QED
      BY <1>7, <2>2, <3>2, <3>3
  <2> QED
    BY <2>1, <2>2
<1>10. ASSUME NEW x \in DOMAIN ix, ix[x] # sym
       PROVE  x \in DOMAIN d.index /\ ix[x] = d.index[x] /\ C[x] = Contents(d)[x]
  BY <1>5, <1>7, <1>10
<1> HIDE DEF e, sym, o
<1>11. Carries(C, d, sym, b, ix)
  BY <1>7, <1>9, <1>10 DEF Carries
<1>12. Contents(e) = C
  BY <1>1, <1>5, <1>8, <1>11, ContentsStep
<1> QED
  BY <1>0, <1>6, <1>12 DEF r, C, Change, o, sym

\* A and F.
LEMMA AddContents ==
  ASSUME NEW S, NEW d, Books(d, S), Routes(d), NEW type, NEW sym \in S,
         NEW id \in OrderIds \ DOMAIN d.index, NEW s \in Side, NEW p \in Prices,
         NEW n \in Quantities \ {0}
  PROVE  Contents(apply_add(d, AddMsg(type, sym, id, s, p, n)).db) =
           Put(Contents(d), id, <<sym, OrderState(s, p, n)>>)
<1> DEFINE c == book_for(d, sym)
           b == add_order(c.books[sym], id, s, p, n)
           ix == Put(c.index, id, sym)
           e == [c EXCEPT !.books[sym] = b, !.index = ix]
           r == apply_add(d, AddMsg(type, sym, id, s, p, n))
           C == Put(Contents(c), id, <<sym, OrderState(s, p, n)>>)
<1>1. /\ Books(c, S) /\ sym \in DOMAIN c.books /\ c.index = d.index
      /\ \A t, x : Holds(c, t, x) <=> Holds(d, t, x)
  BY BookFor
<1>2. r = Change(e, sym)
  BY DEF apply_add, AddMsg
<1>3. Contents(c) = Contents(d)
  <2>1. \A t \in DOMAIN d.books : c.books[t] = d.books[t]
    BY DEF book_for, Books, Put
  <2>2. \A x \in DOMAIN d.index : d.index[x] \in DOMAIN d.books
    BY DEF Books, IsMap
  <2> HIDE DEF c
  <2> QED
    BY <1>1, <2>1, <2>2 DEF Contents
<1> HIDE DEF c, r
<1>4. Routes(c)
  BY <1>1 DEF Routes
<1>5. Sound(c.books[sym]) /\ Sound(b)
  BY <1>1, AddKeepsSound DEF Books
<1>6. id \notin Ids(c.books[sym])
  BY <1>1, <1>4 DEF Routes, Holds
<1>7. b.orders = Put(c.books[sym].orders, id, OrderState(s, p, n))
  <2> DEFINE k == c.books[sym]
  <2>1. WellFormed(k) /\ id \notin Ids(k) /\ n # 0
    BY <1>5, <1>6 DEF Sound
  <2> HIDE DEF k
  <2>2. add_order(k, id, s, p, n).orders = Put(k.orders, id, OrderState(s, p, n))
    BY <2>1, OrdersAfterAdd
  <2> QED
    BY <2>2 DEF k
<1>8. /\ IsMap(ix, OrderIds, DOMAIN c.books)
      /\ DOMAIN ix = DOMAIN c.index \cup {id}
      /\ ix[id] = sym
      /\ \A x \in DOMAIN ix \ {id} : ix[x] = c.index[x]
  BY <1>1 DEF Books, IsMap, Put
<1>9. /\ C = [x \in DOMAIN ix |-> C[x]]
      /\ \A x \in DOMAIN ix :
           C[x] = IF x = id THEN <<sym, OrderState(s, p, n)>> ELSE Contents(c)[x]
  BY <1>8 DEF Contents, Put
<1> HIDE DEF b, ix, C
<1>10. Replaces(e, c, sym, b, ix)
  BY <1>1, <1>5, <1>8, BooksStep
<1>11. ASSUME NEW x \in DOMAIN ix, ix[x] = sym
       PROVE  C[x] = <<sym, b.orders[x]>>
  <2>1. CASE x = id
    BY <1>7, <1>9, <2>1 DEF Put
  <2>2. CASE x # id
    <3>1. x \in DOMAIN c.index /\ c.index[x] = sym
      BY <1>8, <1>11, <2>2
    <3>2. Contents(c)[x] = <<sym, c.books[sym].orders[x]>> /\ x \in Ids(c.books[sym])
      BY <1>1, <1>4, <3>1, RoutedContents
    <3>3. b.orders[x] = c.books[sym].orders[x]
      BY <1>7, <2>2, <3>2 DEF Put, Ids
    <3> QED
      BY <1>9, <2>2, <3>2, <3>3
  <2> QED
    BY <2>1, <2>2
<1>12. ASSUME NEW x \in DOMAIN ix, ix[x] # sym
       PROVE  x \in DOMAIN c.index /\ ix[x] = c.index[x] /\ C[x] = Contents(c)[x]
  BY <1>8, <1>9, <1>12
<1> HIDE DEF e
<1>13. Carries(C, c, sym, b, ix)
  BY <1>9, <1>11, <1>12 DEF Carries
<1>14. Contents(e) = C
  BY <1>1, <1>8, <1>10, <1>13, ContentsStep
<1> QED
  BY <1>2, <1>3, <1>14 DEF r, C, Change

-----------------------------------------------------------------------------
(***************************************************************************)
(* What a message leaves alone, whatever the books hold.                   *)
(***************************************************************************)

\* d is a depth book of symbols of S whose index names only its books
DbShape(d, S) ==
  /\ d = [depth |-> d.depth, books |-> d.books, index |-> d.index]
  /\ d.books = [sym \in DOMAIN d.books |-> d.books[sym]]
  /\ DOMAIN d.books \subseteq S
  /\ \A id \in DOMAIN d.index : d.index[id] \in DOMAIN d.books

\* A new depth book has it.
LEMMA EmptyShape ==
  ASSUME NEW S, NEW n
  PROVE  DbShape(EmptyDepthBook(n), S)
  BY DEF DbShape, EmptyDepthBook, EmptyMap

\* every entry of the index is one of the index old or names sym
Reindexed(index, old, sym) ==
  \A id \in DOMAIN index : index[id] = sym \/ (id \in DOMAIN old /\ index[id] = old[id])

\* e is d with another book for sym, and an index to match
Rebooked(e, d, sym) ==
  /\ e = [depth |-> d.depth, books |-> e.books, index |-> e.index]
  /\ e.books = [t \in DOMAIN d.books \cup {sym} |-> e.books[t]]
  /\ \A t \in DOMAIN d.books \ {sym} : e.books[t] = d.books[t]
  /\ Reindexed(e.index, d.index, sym)

\* It survives another book for one of the symbols, and so do the other books.
LEMMA RebookedShape ==
  ASSUME NEW S, NEW d, DbShape(d, S), NEW e, NEW sym \in S, Rebooked(e, d, sym)
  PROVE  /\ DbShape(e, S) /\ sym \in DOMAIN e.books
         /\ \A t \in DOMAIN d.books \ {sym} : t \in DOMAIN e.books /\ e.books[t] = d.books[t]
<1>1. DOMAIN e.books = DOMAIN d.books \cup {sym}
  BY DEF Rebooked
<1>2. e = [depth |-> e.depth, books |-> e.books, index |-> e.index]
  BY DEF Rebooked
<1>3. \A id \in DOMAIN e.index : e.index[id] \in DOMAIN e.books
  BY <1>1 DEF Rebooked, Reindexed, DbShape
<1> QED
  BY <1>1, <1>2, <1>3 DEF Rebooked, DbShape

\* assigning a symbol's book and the index
Rebook(d, sym, b, ix) == [d EXCEPT !.books[sym] = b, !.index = ix]

\* The assignment gives d that book, and nothing else.
LEMMA Rebooking ==
  ASSUME NEW S, NEW d, DbShape(d, S), NEW sym \in DOMAIN d.books, NEW b, NEW ix,
         Reindexed(ix, d.index, sym)
  PROVE  /\ Rebooked(Rebook(d, sym, b, ix), d, sym)
         /\ Rebook(d, sym, b, ix).books[sym] = b
<1> DEFINE e == [d EXCEPT !.books[sym] = b, !.index = ix]
           c == [d EXCEPT !.books[sym] = b]
           bs == [d.books EXCEPT ![sym] = b]
<1>1. d = [depth |-> d.depth, books |-> d.books, index |-> d.index]
  BY DEF DbShape
<1>2. /\ bs = [t \in DOMAIN d.books \cup {sym} |-> bs[t]] /\ bs[sym] = b
      /\ \A t \in DOMAIN d.books \ {sym} : bs[t] = d.books[t]
  BY DEF DbShape
<1> HIDE DEF bs, e, c
<1>3. c = [depth |-> d.depth, books |-> bs, index |-> d.index]
  BY <1>1 DEF bs, c
<1>4. e = [c EXCEPT !.index = ix]
  BY <1>1 DEF e, c
<1>5. e = [depth |-> d.depth, books |-> bs, index |-> ix]
  BY <1>3, <1>4
<1>6. e.books = bs /\ e.index = ix
  BY <1>5
<1> QED
  BY <1>2, <1>5, <1>6 DEF Rebooked, Rebook, e

\* book_for brings an empty book at most.
LEMMA BookForShape ==
  ASSUME NEW S, NEW d, DbShape(d, S), NEW sym \in S
  PROVE  LET c == book_for(d, sym)
         IN  /\ DbShape(c, S) /\ c.depth = d.depth /\ c.index = d.index
             /\ DOMAIN c.books = DOMAIN d.books \cup {sym}
             /\ \A t \in DOMAIN d.books : c.books[t] = d.books[t]
<1> DEFINE c == book_for(d, sym)
           bs == Put(d.books, sym, EmptyBook(d.depth))
<1>1. CASE sym \in DOMAIN d.books
  BY <1>1 DEF book_for
<1>2. CASE sym \notin DOMAIN d.books
  <2>1. c = [depth |-> d.depth, books |-> bs, index |-> d.index]
    BY <1>2 DEF book_for, DbShape
  <2>2. /\ DOMAIN bs = DOMAIN d.books \cup {sym}
        /\ \A t \in DOMAIN d.books : bs[t] = d.books[t]
        /\ bs = [t \in DOMAIN bs |-> bs[t]]
    BY <1>2 DEF Put
  <2> HIDE DEF bs, c
  <2>3. c.depth = d.depth /\ c.books = bs /\ c.index = d.index
    BY <2>1
  <2>4. DbShape(c, S)
    BY <2>1, <2>2, <2>3 DEF DbShape
  <2> QED
    BY <2>2, <2>3, <2>4 DEF c
<1> QED
  BY <1>1, <1>2

\* The one symbol whose book a message may change: that of an add, or that of
\* the book that holds the order it names.
Touches(d, m, sym) ==
  IF m.type \in {"A", "F"} THEN sym = m.symbol
  ELSE Routed(d, m.order_id) /\ sym = d.index[m.order_id]

\* A message changes the book of the symbol it touches, or nothing.
LEMMA MessageRebooks ==
  ASSUME NEW S, NEW d, DbShape(d, S), NEW m, m.type \in {"A", "F"} => m.symbol \in S
  PROVE  \/ apply(d, m).db = d
         \/ \E sym \in S : Touches(d, m, sym) /\ Rebooked(apply(d, m).db, d, sym)
<1>1. CASE m.type \in {"A", "F"}
  <2> DEFINE sym == m.symbol
             c == book_for(d, sym)
             b == add_order(c.books[sym], m.order_id, m.side, m.price, m.shares)
             ix == Put(c.index, m.order_id, sym)
             e == Rebook(c, sym, b, ix)
  <2>1. apply(d, m).db = e
    BY <1>1 DEF apply, apply_add, Change, Rebook
  <2>2. /\ DbShape(c, S) /\ c.depth = d.depth /\ c.index = d.index
        /\ DOMAIN c.books = DOMAIN d.books \cup {sym}
        /\ \A t \in DOMAIN d.books : c.books[t] = d.books[t]
    BY <1>1, BookForShape
  <2>3. Reindexed(ix, c.index, sym)
    BY DEF Put, Reindexed
  <2> HIDE DEF c, b, ix
  <2>4. Rebooked(e, c, sym)
    BY <2>2, <2>3, Rebooking
  <2> HIDE DEF e
  <2>5. Rebooked(e, d, sym)
    BY <2>2, <2>4 DEF Rebooked
  <2> QED
    BY <1>1, <2>1, <2>5 DEF Touches
<1>2. CASE m.type \notin {"A", "F"} /\ Routed(d, m.order_id)
  <2> DEFINE id == m.order_id
             sym == d.index[id]
  <2>1. id \in DOMAIN d.index /\ sym \in DOMAIN d.books /\ sym \in S
    BY <1>2 DEF Routed, DbShape
  <2>2. Touches(d, m, sym)
    BY <1>2 DEF Touches
  <2>3. ASSUME NEW b, NEW ix, apply(d, m).db = Rebook(d, sym, b, ix),
               Reindexed(ix, d.index, sym)
        PROVE  Rebooked(apply(d, m).db, d, sym)
    <3> HIDE DEF sym
    <3> QED
      BY <2>1, <2>3, Rebooking
  <2>4. CASE m.type \in {"E", "C", "X"}
    <3> DEFINE b == reduce_order(d.books[sym], id, m.shares)
               ix == IF has_order(b, id) THEN d.index ELSE Erase(d.index, id)
    <3>1. apply(d, m).db = Rebook(d, sym, b, ix)
      BY <1>2, <2>4 DEF apply, apply_reduce, Change, Rebook
    <3>2. Reindexed(ix, d.index, sym)
      BY DEF Erase, Restrict, Reindexed
    <3> HIDE DEF b, ix, sym
    <3> QED
      BY <2>1, <2>2, <2>3, <3>1, <3>2
  <2>5. CASE m.type = "D"
    <3> DEFINE b == delete_order(d.books[sym], id)
               ix == Erase(d.index, id)
    <3>1. apply(d, m).db = Rebook(d, sym, b, ix)
      BY <1>2, <2>5 DEF apply, apply_delete, Change, Rebook
    <3>2. Reindexed(ix, d.index, sym)
      BY DEF Erase, Restrict, Reindexed
    <3> HIDE DEF b, ix, sym
    <3> QED
      BY <2>1, <2>2, <2>3, <3>1, <3>2
  <2>6. CASE m.type = "U"
    <3> DEFINE b == replace_order(d.books[sym], id, m.new_order_id, m.price, m.shares)
               ix == Put(Erase(d.index, id), m.new_order_id, sym)
    <3>1. apply(d, m).db = Rebook(d, sym, b, ix)
      BY <1>2, <2>6 DEF apply, apply_replace, Change, Rebook
    <3>2. Reindexed(ix, d.index, sym)
      BY DEF Erase, Restrict, Put, Reindexed
    <3> HIDE DEF b, ix, sym
    <3> QED
      BY <2>1, <2>2, <2>3, <3>1, <3>2
  <2>7. CASE m.type \notin {"E", "C", "X", "D", "U"}
    BY <1>2, <2>7 DEF apply, NoChange
  <2> QED
    BY <2>4, <2>5, <2>6, <2>7
<1>3. CASE m.type \notin {"A", "F"} /\ ~Routed(d, m.order_id)
  BY <1>3 DEF apply, apply_reduce, apply_delete, apply_replace, NoChange
<1> QED
  BY <1>1, <1>2, <1>3

\* So it keeps the shape, and the book of every symbol it does not touch.
LEMMA MessageLeaves ==
  ASSUME NEW S, NEW d, DbShape(d, S), NEW m, m.type \in {"A", "F"} => m.symbol \in S
  PROVE  LET e == apply(d, m).db
         IN  /\ DbShape(e, S)
             /\ \A t \in DOMAIN d.books :
                  t \in DOMAIN e.books /\ (~Touches(d, m, t) => e.books[t] = d.books[t])
<1>1. CASE apply(d, m).db = d
  BY <1>1
<1>2. ASSUME NEW sym \in S, Touches(d, m, sym), Rebooked(apply(d, m).db, d, sym)
      PROVE  LET e == apply(d, m).db
             IN  /\ DbShape(e, S)
                 /\ \A t \in DOMAIN d.books :
                      t \in DOMAIN e.books /\ (~Touches(d, m, t) => e.books[t] = d.books[t])
  <2> DEFINE e == apply(d, m).db
  <2> HIDE DEF e
  <2>1. Rebooked(e, d, sym)
    BY <1>2 DEF e
  <2>2. /\ DbShape(e, S) /\ sym \in DOMAIN e.books
        /\ \A t \in DOMAIN d.books \ {sym} : t \in DOMAIN e.books /\ e.books[t] = d.books[t]
    BY <2>1, RebookedShape
  <2> QED
    BY <1>2, <2>2 DEF e
<1> QED
  BY <1>1, <1>2, MessageRebooks

-----------------------------------------------------------------------------
(***************************************************************************)
(* The detector and the parts of on_datagram.                              *)
(***************************************************************************)

\* set_expected moves the cursor of one stream.
LEMMA SetExpected ==
  \A gap, l, next :
    /\ DOMAIN set_expected(gap, l, next) = DOMAIN gap \cup {l}
    /\ set_expected(gap, l, next)[l] = next
    /\ expected(set_expected(gap, l, next), l) = next
    /\ \A k : k # l => expected(set_expected(gap, l, next), k) = expected(gap, k)
    /\ \A k \in DOMAIN gap : k # l => set_expected(gap, l, next)[k] = gap[k]
  BY DEF set_expected, Assign, expected

IsHandler(g) == g = [db |-> g.db, gap |-> g.gap]

\* A snapshot's book replaces the symbol's and leaves the index alone.
LEMMA SnapshotRebooks ==
  ASSUME NEW S, NEW g, IsHandler(g), DbShape(g.db, S), NEW snap, snap.symbol \in S
  PROVE  LET r == apply_snapshot(g, snap)
         IN  /\ IsHandler(r)
             /\ r.gap = set_expected(g.gap, snap.stock_locate, snap.last_applied_seq + 1)
             /\ Rebooked(r.db, g.db, snap.symbol)
             /\ r.db.books[snap.symbol] = SnapshotBook(snap)
<1> DEFINE sym == snap.symbol
           b == SnapshotBook(snap)
           c == book_for(g.db, sym)
           e == [c EXCEPT !.books[sym] = b]
<1>1. /\ DbShape(c, S) /\ c.depth = g.db.depth /\ c.index = g.db.index
      /\ DOMAIN c.books = DOMAIN g.db.books \cup {sym}
      /\ \A t \in DOMAIN g.db.books : c.books[t] = g.db.books[t]
  BY BookForShape
<1>2. /\ apply_snapshot(g, snap).db = e
      /\ apply_snapshot(g, snap).gap =
           set_expected(g.gap, snap.stock_locate, snap.last_applied_seq + 1)
      /\ IsHandler(apply_snapshot(g, snap))
  BY DEF apply_snapshot, IsHandler
<1> HIDE DEF c, b
<1>3. e = Rebook(c, sym, b, c.index)
  <2>1. c = [depth |-> c.depth, books |-> c.books, index |-> c.index]
    BY <1>1 DEF DbShape
  <2> QED
    BY <2>1 DEF Rebook
<1>4. /\ Rebooked(Rebook(c, sym, b, c.index), c, sym)
      /\ Rebook(c, sym, b, c.index).books[sym] = b
  <2>1. Reindexed(c.index, c.index, sym)
    BY DEF Reindexed
  <2>2. sym \in DOMAIN c.books
    BY <1>1
  <2> QED
    BY <1>1, <2>1, <2>2, Rebooking
<1> HIDE DEF e
<1>5. Rebooked(e, c, sym) /\ e.books[sym] = b
  BY <1>3, <1>4
<1>6. Rebooked(e, g.db, sym)
  BY <1>1, <1>5 DEF Rebooked
<1> QED
  BY <1>2, <1>5, <1>6 DEF b

-----------------------------------------------------------------------------
(***************************************************************************)
(* Induction.  The library states it with an operator parameter, which     *)
(* no prover instantiates; said of a set of numbers it is a consequence of *)
(* the well-foundedness of <, and each use defines its own set.            *)
(***************************************************************************)

\* A set that has 0, and the successor of each number it has, is Nat.
LEMMA Induction ==
  ASSUME NEW S \in SUBSET Nat, 0 \in S, \A n \in S : n + 1 \in S
  PROVE  S = Nat
<1> DEFINE R == {ss \in Nat \X Nat : ss[1] < ss[2]}
           others == Nat \ S
<1>1. R = OpToRel(<, Nat)
  BY DEF OpToRel
<1>2. IsWellFoundedOn(R, Nat)
  BY <1>1, NatLessThanWellFounded
<1>3. \A x, y \in Nat : <<y, x>> \in R <=> y < x
  OBVIOUS
<1> HIDE DEF R
<1> SUFFICES ASSUME others # {} PROVE FALSE
  OBVIOUS
<1>4. others \subseteq Nat
  OBVIOUS
<1>5. PICK x \in others : \A y \in others : ~(<<y, x>> \in R)
  <2> HIDE DEF others
  <2> QED
    BY <1>2, <1>4, WFMin
<1>6. x \in Nat /\ x # 0 /\ x - 1 \in Nat /\ x - 1 < x
  OBVIOUS
<1>7. x - 1 \in S
  BY <1>3, <1>5, <1>6
<1> QED
  BY <1>6, <1>7

-----------------------------------------------------------------------------
(***************************************************************************)
(* The loops of apply_snapshot.                                            *)
(***************************************************************************)

\* f holds the state of add_level's loop after each of its first n rounds.
LevelLoop(f, n, r, side, lvl) ==
  f = [i \in 0..n |-> IF i = 0 THEN r
                      ELSE add_synthetic(f[i - 1], side, lvl.price, Share(lvl, i))]

\* And of that of add_levels.
LevelsLoop(f, n, r, side, levels) ==
  f = [i \in 0..n |-> IF i = 0 THEN r ELSE add_level(f[i - 1], side, levels[i])]

\* The loop over the orders of a level runs: its states exist.
LEMMA LevelLoopRuns ==
  ASSUME NEW r, NEW side, NEW lvl, OrderCount(lvl) \in Nat
  PROVE  \E f : /\ LevelLoop(f, OrderCount(lvl), r, side, lvl)
                /\ add_level(r, side, lvl) = f[OrderCount(lvl)]
<1> DEFINE G(x, i) == add_synthetic(x, side, lvl.price, Share(lvl, i))
           L(f, n) == f = [i \in 0..n |-> IF i = 0 THEN r ELSE G(f[i - 1], i)]
           runs == {n \in Nat : \E f : L(f, n)}
<1>1. 0 \in runs
  <2>1. L([i \in 0..0 |-> r], 0)
    OBVIOUS
  <2> QED
    BY <2>1
<1>2. ASSUME NEW n \in runs
      PROVE  n + 1 \in runs
  <2>1. PICK f : L(f, n)
    OBVIOUS
  <2> DEFINE g == [i \in 0..(n + 1) |-> IF i = n + 1 THEN G(f[n], n + 1) ELSE f[i]]
  <2> HIDE DEF G
  <2>2. ASSUME NEW i \in 0..(n + 1)
        PROVE  g[i] = IF i = 0 THEN r ELSE G(g[i - 1], i)
    <3>1. CASE i = n + 1
      BY <3>1
    <3>2. CASE i # n + 1
      <4>1. /\ i \in 0..n
            /\ i # 0 => i - 1 \in 0..n /\ i - 1 \in 0..(n + 1) /\ i - 1 # n + 1
        BY <3>2
      <4>2. f[i] = IF i = 0 THEN r ELSE G(f[i - 1], i)
        BY <2>1, <4>1
      <4> QED
        BY <3>2, <4>1, <4>2
    <3> QED
      BY <3>1, <3>2
  <2>3. L(g, n + 1)
    BY <2>2
  <2>4. \E ff : L(ff, n + 1)
    BY <2>3
  <2>5. n + 1 \in Nat
    OBVIOUS
  <2> QED
    BY <2>4, <2>5
<1>3. runs = Nat
  <2> HIDE DEF runs
  <2>1. runs \in SUBSET Nat
    BY DEF runs
  <2> QED
    BY <1>1, <1>2, <2>1, Induction
<1> HIDE DEF G
<1>4. \E f : L(f, OrderCount(lvl))
  BY <1>3
<1> DEFINE after == CHOOSE f : L(f, OrderCount(lvl))
<1>5. L(after, OrderCount(lvl))
  BY <1>4
<1>6. add_level(r, side, lvl) = after[OrderCount(lvl)]
  BY DEF add_level, G
<1> HIDE DEF after
<1> QED
  BY <1>5, <1>6 DEF LevelLoop, G

\* So does the loop over the levels of a side.
LEMMA LevelsLoopRuns ==
  ASSUME NEW r, NEW side, NEW levels, Len(levels) \in Nat
  PROVE  \E f : /\ LevelsLoop(f, Len(levels), r, side, levels)
                /\ add_levels(r, side, levels) = f[Len(levels)]
<1> DEFINE G(x, i) == add_level(x, side, levels[i])
           L(f, n) == f = [i \in 0..n |-> IF i = 0 THEN r ELSE G(f[i - 1], i)]
           runs == {n \in Nat : \E f : L(f, n)}
<1>1. 0 \in runs
  <2>1. L([i \in 0..0 |-> r], 0)
    OBVIOUS
  <2> QED
    BY <2>1
<1>2. ASSUME NEW n \in runs
      PROVE  n + 1 \in runs
  <2>1. PICK f : L(f, n)
    OBVIOUS
  <2> DEFINE g == [i \in 0..(n + 1) |-> IF i = n + 1 THEN G(f[n], n + 1) ELSE f[i]]
  <2> HIDE DEF G
  <2>2. ASSUME NEW i \in 0..(n + 1)
        PROVE  g[i] = IF i = 0 THEN r ELSE G(g[i - 1], i)
    <3>1. CASE i = n + 1
      BY <3>1
    <3>2. CASE i # n + 1
      <4>1. /\ i \in 0..n
            /\ i # 0 => i - 1 \in 0..n /\ i - 1 \in 0..(n + 1) /\ i - 1 # n + 1
        BY <3>2
      <4>2. f[i] = IF i = 0 THEN r ELSE G(f[i - 1], i)
        BY <2>1, <4>1
      <4> QED
        BY <3>2, <4>1, <4>2
    <3> QED
      BY <3>1, <3>2
  <2>3. L(g, n + 1)
    BY <2>2
  <2>4. \E ff : L(ff, n + 1)
    BY <2>3
  <2>5. n + 1 \in Nat
    OBVIOUS
  <2> QED
    BY <2>4, <2>5
<1>3. runs = Nat
  <2> HIDE DEF runs
  <2>1. runs \in SUBSET Nat
    BY DEF runs
  <2> QED
    BY <1>1, <1>2, <2>1, Induction
<1> HIDE DEF G
<1>4. \E f : L(f, Len(levels))
  BY <1>3
<1> DEFINE after == CHOOSE f : L(f, Len(levels))
<1>5. L(after, Len(levels))
  BY <1>4
<1>6. add_levels(r, side, levels) = after[Len(levels)]
  BY DEF add_levels, G
<1> HIDE DEF after
<1> QED
  BY <1>5, <1>6 DEF LevelsLoop, G

\* The shares of a level add up to it: after i of its orders it has given
\* Given(lvl, i), which is never more than the level and all of it in the end.
Given(lvl, i) ==
  LET per == lvl.total_qty \div OrderCount(lvl)
  IN  per * i + (lvl.total_qty - per * OrderCount(lvl))

\* The shares add_level hands out are from 0 to the level's quantity, sum to it,
\* and none is 0 when the level has at least a share for each order.
LEMMA SharesAddUp ==
  ASSUME NEW lvl, lvl.total_qty \in Nat, lvl.order_count \in Nat
  PROVE  /\ OrderCount(lvl) \in Nat \ {0}
         /\ Given(lvl, OrderCount(lvl)) = lvl.total_qty
         /\ \A i \in 1..OrderCount(lvl) :
              /\ Share(lvl, i) \in 0..lvl.total_qty
              /\ Given(lvl, i) \in 0..lvl.total_qty
              /\ Share(lvl, i) = IF i = 1 THEN Given(lvl, 1)
                                 ELSE Given(lvl, i) - Given(lvl, i - 1)
              /\ lvl.order_count \in 1..lvl.total_qty => Share(lvl, i) > 0
<1> DEFINE c   == OrderCount(lvl)
           t   == lvl.total_qty
           per == t \div c
           rem == t - per * c
<1>1. c \in Nat \ {0} /\ t \in Nat
  BY DEF OrderCount
<1>2. per \in Nat /\ per * c <= t /\ rem \in Nat /\ per * c + rem = t
  <2> HIDE DEF c, t
  <2> QED
    BY <1>1
<1>3. lvl.order_count \in 1..lvl.total_qty => c <= t
  BY DEF OrderCount
<1>4. c <= t => per > 0
  <2> HIDE DEF c, t
  <2> QED
    BY <1>1
<1>5. \A i : /\ Share(lvl, i) = per + IF i = 1 THEN rem ELSE 0
             /\ Given(lvl, i) = per * i + rem
  BY DEF Share, Given
<1> HIDE DEF c, t, per, rem
<1>6. ASSUME NEW i \in 1..c
      PROVE  /\ Share(lvl, i) \in 0..t
             /\ Given(lvl, i) \in 0..t
             /\ Share(lvl, i) = IF i = 1 THEN Given(lvl, 1)
                                 ELSE Given(lvl, i) - Given(lvl, i - 1)
             /\ c <= t => Share(lvl, i) > 0
  <2>1. i \in Nat /\ i >= 1 /\ i <= c
    BY <1>1
  <2>2. per * i \in Nat /\ per * i <= per * c /\ per * 1 = per /\ per <= per * i
    <3>1. \A x, y, z \in Nat : y <= z => x * y <= x * z
      OBVIOUS
    <3> QED
      BY <1>1, <1>2, <2>1, <3>1
  <2>3. per * (i - 1) = per * i - per
    <3>1. \A x, y \in Nat : x * (y - 1) = x * y - x
      OBVIOUS
    <3> QED
      BY <1>2, <2>1, <3>1
  <2>4. per * i + rem <= t /\ per + rem <= t
    <3> DEFINE a == per * i
               b == per * c
    <3> HIDE DEF a, b
    <3>1. a \in Nat /\ b \in Nat /\ a <= b /\ b + rem = t /\ per <= a
      BY <1>1, <1>2, <2>2 DEF a, b
    <3>2. a + rem <= t /\ per + rem <= t
      BY <1>1, <1>2, <3>1
    <3> QED
      BY <3>2 DEF a
  <2>5. Given(lvl, i) = per * i + rem /\ Given(lvl, 1) = per + rem
    BY <1>2, <1>5, <2>2
  <2>6. Given(lvl, i) - Given(lvl, i - 1) = per
    <3> DEFINE a == per * i
    <3>1. a \in Nat
      BY <2>2
    <3>2. Given(lvl, i - 1) = (a - per) + rem
      BY <1>5, <2>3
    <3> HIDE DEF a
    <3>3. Given(lvl, i) = a + rem
      BY <2>5 DEF a
    <3> QED
      BY <1>2, <3>1, <3>2, <3>3
  <2>7. Share(lvl, i) = per + IF i = 1 THEN rem ELSE 0
    BY <1>5
  <2>8. per + rem \in 0..t /\ per \in 0..t /\ per + 0 = per
    BY <1>1, <1>2, <2>4
  <2>9. per * i + rem \in 0..t
    BY <1>1, <1>2, <2>2, <2>4
  <2>10. c <= t => Share(lvl, i) > 0
    BY <1>2, <1>4, <2>7
  <2> QED
    BY <2>5, <2>6, <2>7, <2>8, <2>9, <2>10
<1>7. Given(lvl, c) = t
  BY <1>2, <1>5
<1> QED
  BY <1>1, <1>3, <1>6, <1>7 DEF c, t

-----------------------------------------------------------------------------
(***************************************************************************)
(* The book apply_snapshot builds shows the snapshot.                      *)
(***************************************************************************)

\* A state of the rebuild of a book of capacity n: its orders have synthetic
\* ids below the next one, and its top-N is freshly made.
Building(r, n) ==
  /\ r.synthetic \in Nat /\ r.synthetic >= SyntheticBase
  /\ r.book = [depth |-> n, orders |-> r.book.orders,
               ladder |-> r.book.ladder, top |-> r.book.top]
  /\ \A id \in DOMAIN r.book.orders : id \in Nat /\ SyntheticBase <= id /\ id < r.synthetic
  /\ r.book.ladder = [s \in Side |-> r.book.ladder[s]]
  /\ r.book.top = [s \in Side |-> refresh_top(s, r.book.ladder[s], n)]

\* e is a state of the rebuild after d, with the ladder lad on one side
Extends(e, d, n, side, lad) ==
  /\ Building(e, n)
  /\ e.book.ladder = [d.book.ladder EXCEPT ![side] = lad]

\* The rebuild starts with an empty book.
LEMMA NewBuilding ==
  ASSUME NEW n \in Nat
  PROVE  Building([book |-> EmptyBook(n), synthetic |-> SyntheticBase], n)
<1> DEFINE r == [book |-> EmptyBook(n), synthetic |-> SyntheticBase]
<1>1. \A s \in Side : refresh_top(s, EmptyMap, n) = << >>
  <2>1. DOMAIN EmptyMap = {}
    BY DEF EmptyMap
  <2>2. LadderSize(EmptyMap, n) = 0
    BY <2>1, FS_EmptySet DEF LadderSize
  <2> QED
    BY <2>2 DEF refresh_top
<1>2. r.book.top = [s \in Side |-> refresh_top(s, r.book.ladder[s], n)]
  BY <1>1 DEF EmptyBook
<1>3. r.book.ladder = [s \in Side |-> r.book.ladder[s]]
  BY DEF EmptyBook
<1>4. r.book = [depth |-> n, orders |-> r.book.orders,
               ladder |-> r.book.ladder, top |-> r.book.top]
  BY DEF EmptyBook
<1>5. DOMAIN r.book.orders = {}
  BY DEF EmptyBook, EmptyMap
<1> HIDE DEF r
<1>6. r.synthetic = SyntheticBase
  BY DEF r
<1> QED
  BY <1>2, <1>3, <1>4, <1>5, <1>6, SyntheticBaseAssumption DEF Building, r

\* One synthetic order puts its shares on its level, and its id in the book.
LEMMA SyntheticOrder ==
  ASSUME NEW r, NEW n, Building(r, n), NEW s \in Side, NEW p, NEW q \in Nat, q > 0
  PROVE  /\ Extends(add_synthetic(r, s, p, q), r, n, s, ShiftLevel(r.book.ladder[s], p, q, 1))
         /\ Ids(add_synthetic(r, s, p, q).book) = Ids(r.book) \cup {r.synthetic}
<1> DEFINE b == r.book
           id == r.synthetic
           lad == ShiftLevel(b.ladder[s], p, q, 1)
           orders == Put(b.orders, id, OrderState(s, p, q))
           lvls == refresh_top(s, lad, n)
           e == add_synthetic(r, s, p, q)
<1>1. /\ b = [depth |-> n, orders |-> b.orders, ladder |-> b.ladder, top |-> b.top]
      /\ id \in Nat /\ ~has_order(b, id)
  BY DEF Building, has_order
<1> DEFINE c == [b EXCEPT !.orders = orders]
<1>2. e = [book |-> apply_level_delta(c, s, p, q, 1), synthetic |-> id + 1]
  BY <1>1 DEF add_synthetic, add_order
<1> HIDE DEF b, id, lad, orders, lvls, e
<1>3. c = [depth |-> n, orders |-> orders, ladder |-> b.ladder, top |-> b.top]
  BY <1>1
<1>4. c.ladder = b.ladder /\ c.depth = n
  BY <1>3
<1> HIDE DEF c
<1>5. apply_level_delta(c, s, p, q, 1) = [c EXCEPT !.ladder[s] = lad, !.top[s] = lvls]
  <2>1. /\ lad = ShiftLevel(c.ladder[s], p, q, 1)
        /\ lvls = refresh_top(s, lad, c.depth)
    BY <1>4 DEF lad, lvls, b
  <2>2. ~(q <= 0)
    OBVIOUS
  <2> QED
    BY <2>1, <2>2 DEF apply_level_delta
<1>6. [c EXCEPT !.ladder[s] = lad, !.top[s] = lvls] =
        [depth |-> n, orders |-> orders, ladder |-> [b.ladder EXCEPT ![s] = lad],
         top |-> [b.top EXCEPT ![s] = lvls]]
  <2> DEFINE x == [c EXCEPT !.ladder[s] = lad]
  <2>1. x = [depth |-> n, orders |-> orders, ladder |-> [b.ladder EXCEPT ![s] = lad],
             top |-> b.top]
    BY <1>3
  <2>2. [c EXCEPT !.ladder[s] = lad, !.top[s] = lvls] = [x EXCEPT !.top[s] = lvls]
    BY <1>3
  <2> HIDE DEF x
  <2> QED
    BY <2>1, <2>2
<1>7. /\ e.book = [depth |-> n, orders |-> orders, ladder |-> [b.ladder EXCEPT ![s] = lad],
                   top |-> [b.top EXCEPT ![s] = lvls]]
      /\ e.synthetic = id + 1
  BY <1>2, <1>5, <1>6
<1>8. /\ e.book.orders = orders /\ e.book.ladder = [b.ladder EXCEPT ![s] = lad]
      /\ e.book.top = [b.top EXCEPT ![s] = lvls]
  BY <1>7
<1>9. /\ b.ladder = [t \in Side |-> b.ladder[t]]
      /\ b.top = [t \in Side |-> refresh_top(t, b.ladder[t], n)]
      /\ \A x \in DOMAIN b.orders : x \in Nat /\ SyntheticBase <= x /\ x < id
      /\ id >= SyntheticBase
  BY DEF Building, b, id
<1>10. e.book.ladder = [t \in Side |-> e.book.ladder[t]]
  BY <1>8, <1>9
<1>11. e.book.top = [t \in Side |-> refresh_top(t, e.book.ladder[t], n)]
  <2>1. \A t \in Side : e.book.ladder[t] = IF t = s THEN lad ELSE b.ladder[t]
    BY <1>8, <1>9
  <2>2. \A t \in Side : e.book.top[t] = IF t = s THEN lvls ELSE refresh_top(t, b.ladder[t], n)
    BY <1>8, <1>9
  <2>3. e.book.top = [t \in Side |-> e.book.top[t]]
    BY <1>8, <1>9
  <2> QED
    BY <2>1, <2>2, <2>3 DEF lvls
<1>12. \A x \in DOMAIN e.book.orders : x \in Nat /\ SyntheticBase <= x /\ x < id + 1
  <2>1. DOMAIN orders = DOMAIN b.orders \cup {id}
    BY DEF orders, Put
  <2> QED
    BY <1>1, <1>8, <1>9, <2>1, SyntheticBaseAssumption
<1>13. /\ id + 1 \in Nat /\ id + 1 >= SyntheticBase
       /\ e.book = [depth |-> n, orders |-> e.book.orders, ladder |-> e.book.ladder,
                    top |-> e.book.top]
  <2>1. id + 1 \in Nat /\ id + 1 >= SyntheticBase
    BY <1>1, <1>9, SyntheticBaseAssumption
  <2> QED
    BY <1>7, <1>8, <2>1
<1>14. Extends(e, r, n, s, lad)
  BY <1>7, <1>8, <1>10, <1>11, <1>12, <1>13 DEF Building, Extends, b
<1>15. Ids(e.book) = Ids(b) \cup {id}
  BY <1>8 DEF Ids, orders, Put
<1> QED
  BY <1>14, <1>15 DEF lad, e, b, id

\* Two extensions of the same side make one.
LEMMA ExtendsTwice ==
  ASSUME NEW d, NEW e, NEW f, NEW n, NEW s \in Side, NEW lad, NEW lad2,
         Building(d, n), Extends(e, d, n, s, lad), Extends(f, e, n, s, lad2)
  PROVE  Extends(f, d, n, s, lad2)
<1>1. [[d.book.ladder EXCEPT ![s] = lad] EXCEPT ![s] = lad2] = [d.book.ladder EXCEPT ![s] = lad2]
  OBVIOUS
<1> QED
  BY <1>1 DEF Extends

\* what a level read from a sound ladder holds
GoodLevel(lvl) ==
  /\ lvl.total_qty \in 1..(QtyMod - 1)
  /\ lvl.order_count \in 1..lvl.total_qty

\* Giving a level more, without wrapping.
LEMMA LevelGrows ==
  ASSUME NEW lad, NEW p, p \notin DOMAIN lad, NEW g \in Nat, NEW q \in Nat, NEW i \in Nat,
         g > 0, i > 0, q > 0, g + q < QtyMod
  PROVE  /\ ShiftLevel(lad, p, q, 1) = Put(lad, p, PriceLevel(q, 1))
         /\ ShiftLevel(Put(lad, p, PriceLevel(g, i)), p, q, 1) =
              Put(lad, p, PriceLevel(g + q, i + 1))
<1>1. Quantity(q) = q /\ Quantity(g + q) = g + q
  BY QtyModAssumption DEF Quantity
<1>2. ShiftLevel(lad, p, q, 1) = Put(lad, p, PriceLevel(q, 1))
  BY <1>1 DEF ShiftLevel
<1> DEFINE x == Put(lad, p, PriceLevel(g, i))
<1>3. p \in DOMAIN x /\ x[p] = PriceLevel(g, i)
  BY DEF Put
<1>4. x[p].total_qty = g /\ x[p].order_count = i
  BY <1>3 DEF PriceLevel
<1>5. \A v : Put(x, p, v) = Put(lad, p, v)
  BY DEF Put
<1> HIDE DEF x
<1>6. ~(g + q <= 0 \/ i + 1 <= 0)
  OBVIOUS
<1>7. ShiftLevel(x, p, q, 1) = Put(x, p, PriceLevel(Quantity(g + q), i + 1))
  BY <1>3, <1>4, <1>6 DEF ShiftLevel
<1> QED
  BY <1>1, <1>2, <1>5, <1>7 DEF x

\* A level is rebuilt as it is, where there was none.
LEMMA LevelRebuilt ==
  ASSUME NEW r, NEW n, Building(r, n), NEW s \in Side, NEW lvl, GoodLevel(lvl),
         lvl.price \notin DOMAIN r.book.ladder[s]
  PROVE  Extends(add_level(r, s, lvl), r, n, s,
                 Put(r.book.ladder[s], lvl.price, PriceLevel(lvl.total_qty, lvl.order_count)))
<1> DEFINE c == lvl.order_count
           t == lvl.total_qty
           p == lvl.price
           lad == r.book.ladder[s]
           at(i) == Put(lad, p, PriceLevel(Given(lvl, i), i))
<1>1. /\ c \in Nat \ {0} /\ t \in Nat /\ c = OrderCount(lvl) /\ c <= t /\ t < QtyMod
  BY QtyModAssumption DEF GoodLevel, OrderCount
<1>2. /\ Given(lvl, c) = t
      /\ \A i \in 1..c : /\ Share(lvl, i) \in Nat /\ Given(lvl, i) \in 0..t
                         /\ Share(lvl, i) > 0
                         /\ Share(lvl, i) = IF i = 1 THEN Given(lvl, 1)
                                            ELSE Given(lvl, i) - Given(lvl, i - 1)
  <2>1. c \in 1..t
    BY <1>1
  <2> QED
    BY <1>1, <2>1, SharesAddUp
<1>3. PICK f : /\ LevelLoop(f, c, r, s, lvl)
               /\ add_level(r, s, lvl) = f[c]
  BY <1>1, LevelLoopRuns
<1>4. f[0] = r /\ \A i \in 1..c : f[i] = add_synthetic(f[i - 1], s, p, Share(lvl, i))
  BY <1>1, <1>3 DEF LevelLoop
<1> DEFINE done == {i \in Nat : i \in 1..c => Extends(f[i], r, n, s, at(i))}
<1>5. 0 \in done
  OBVIOUS
<1> HIDE DEF c, t, p, lad, at
<1>6. ASSUME NEW i \in done
      PROVE  i + 1 \in done
  <2> SUFFICES ASSUME i + 1 \in 1..c PROVE Extends(f[i + 1], r, n, s, at(i + 1))
    OBVIOUS
  <2> DEFINE q == Share(lvl, i + 1)
  <2>1. /\ q \in Nat /\ q > 0 /\ Given(lvl, i + 1) \in 0..t
        /\ q = IF i + 1 = 1 THEN Given(lvl, 1) ELSE Given(lvl, i + 1) - Given(lvl, (i + 1) - 1)
    BY <1>2
  <2>2. f[i + 1] = add_synthetic(f[(i + 1) - 1], s, p, q) /\ (i + 1) - 1 = i /\ i \in Nat
    BY <1>4
  <2> HIDE DEF q
  <2>3. CASE i = 0
    <3>1. f[i + 1] = add_synthetic(r, s, p, q)
      BY <1>4, <2>2, <2>3
    <3>2. Extends(f[i + 1], r, n, s, ShiftLevel(lad, p, q, 1))
      BY <2>1, <3>1, SyntheticOrder DEF lad
    <3>3. ShiftLevel(lad, p, q, 1) = Put(lad, p, PriceLevel(q, 1))
      <4>1. q < QtyMod /\ Quantity(q) = q
        BY <1>1, <2>1, <2>3, QtyModAssumption DEF Quantity
      <4> QED
        BY <4>1 DEF ShiftLevel, lad, p
    <3>4. q = Given(lvl, i + 1) /\ i + 1 = 1
      BY <2>1, <2>3
    <3> QED
      BY <3>2, <3>3, <3>4 DEF at
  <2>4. CASE i # 0
    <3>1. i \in 1..c
      BY <1>1, <2>2, <2>4
    <3>2. Extends(f[i], r, n, s, at(i))
      BY <3>1
    <3>3. f[i + 1] = add_synthetic(f[i], s, p, q) /\ Building(f[i], n)
      BY <2>2, <3>2 DEF Extends
    <3>4. f[i].book.ladder[s] = at(i)
      <4>1. r.book.ladder = [u \in Side |-> r.book.ladder[u]]
        BY DEF Building
      <4>2. f[i].book.ladder = [r.book.ladder EXCEPT ![s] = at(i)]
        BY <3>2 DEF Extends
      <4> HIDE DEF at
      <4> QED
        BY <4>1, <4>2
    <3>5. Extends(f[i + 1], f[i], n, s, ShiftLevel(at(i), p, q, 1))
      BY <2>1, <3>3, <3>4, SyntheticOrder
    <3>6. /\ Given(lvl, i) \in Nat /\ Given(lvl, i) > 0
          /\ Given(lvl, i) + q = Given(lvl, i + 1) /\ Given(lvl, i) + q < QtyMod
      <4>1. Given(lvl, i) \in Nat
        BY <1>2, <3>1
      <4>2. q = Given(lvl, i + 1) - Given(lvl, i)
        BY <2>1, <2>2, <2>4
      <4>3. Given(lvl, i) > 0
        <5>1. Share(lvl, i) > 0 /\ i = 1 => Given(lvl, i) > 0
          BY <1>2, <3>1
        <5>2. ASSUME i # 1 PROVE Given(lvl, i) > 0
          <6>1. i - 1 \in 1..c /\ i # 1
            BY <1>1, <3>1, <5>2
          <6>2. Share(lvl, i) = Given(lvl, i) - Given(lvl, i - 1) /\ Share(lvl, i) > 0
                /\ Share(lvl, i) \in Nat /\ Given(lvl, i - 1) \in Nat
            BY <1>2, <3>1, <6>1
          <6> QED
            BY <4>1, <6>2
        <5> QED
          BY <1>2, <3>1, <5>1, <5>2
      <4> QED
        BY <1>1, <2>1, <4>1, <4>2, <4>3, QtyModAssumption
    <3>7. ShiftLevel(at(i), p, q, 1) = at(i + 1)
      <4>1. p \notin DOMAIN lad
        BY DEF p, lad
      <4> QED
        BY <2>1, <2>2, <2>4, <3>6, <4>1, LevelGrows DEF at
    <3> QED
      BY <3>2, <3>5, <3>7, ExtendsTwice
  <2> QED
    BY <2>3, <2>4
<1>7. done = Nat
  <2>1. done \in SUBSET Nat
    OBVIOUS
  <2> HIDE DEF done
  <2> QED
    BY <1>5, <1>6, <2>1, Induction
<1>8. Extends(f[c], r, n, s, at(c))
  <2>1. c \in Nat /\ c \in 1..c
    BY <1>1
  <2> QED
    BY <1>7, <2>1
<1> QED
  BY <1>2, <1>3, <1>8 DEF at, c, t, p, lad

PricesOf(levels, k) == {levels[j].price : j \in 1..k}

\* lad is the ladder of the first k of levels
Stacked(lad, levels, k) ==
  /\ DOMAIN lad = PricesOf(levels, k)
  /\ \A j \in 1..k :
       lad[levels[j].price] = PriceLevel(levels[j].total_qty, levels[j].order_count)

SnapshotLevels == [price : Nat, total_qty : Nat, order_count : Nat]

\* what one side of a snapshot of a sound book holds
GoodLevels(s, levels) ==
  /\ levels \in Seq(SnapshotLevels)
  /\ \A j \in 1..Len(levels) : GoodLevel(levels[j])
  /\ \A i, j \in 1..Len(levels) : i < j => Better(s, levels[i].price, levels[j].price)

\* GoodLevels, level by level.
LEMMA LevelsAreGood ==
  ASSUME NEW s \in Side, NEW levels, GoodLevels(s, levels)
  PROVE  /\ Len(levels) \in Nat /\ levels = [j \in 1..Len(levels) |-> levels[j]]
         /\ \A j \in 1..Len(levels) : /\ levels[j] \in SnapshotLevels
                                      /\ levels[j].price \in Nat
                                      /\ GoodLevel(levels[j])
         /\ \A i, j \in 1..Len(levels) : i < j => /\ Better(s, levels[i].price, levels[j].price)
                                                 /\ levels[i].price # levels[j].price
<1>1. Len(levels) \in Nat /\ levels = [j \in 1..Len(levels) |-> levels[j]]
  BY DEF GoodLevels
<1>2. \A j \in 1..Len(levels) : levels[j] \in SnapshotLevels
  BY DEF GoodLevels
<1>3. \A j \in 1..Len(levels) : levels[j].price \in Nat
  BY <1>2 DEF SnapshotLevels
<1>4. \A i, j \in 1..Len(levels) : i < j => Better(s, levels[i].price, levels[j].price)
  BY DEF GoodLevels
<1>5. \A x, y \in Nat : Better(s, x, y) => x # y
  BY DEF Better
<1> QED
  BY <1>1, <1>2, <1>3, <1>4, <1>5 DEF GoodLevels

\* One side of the snapshot is rebuilt as it is, when nothing is there yet.
LEMMA SideRebuilt ==
  ASSUME NEW r, NEW n, Building(r, n), NEW s \in Side, NEW levels, GoodLevels(s, levels),
         DOMAIN r.book.ladder[s] = {}
  PROVE  \E lad : /\ Stacked(lad, levels, Len(levels))
                  /\ Extends(add_levels(r, s, levels), r, n, s, lad)
<1> DEFINE len == Len(levels)
<1>1. /\ len \in Nat
      /\ \A j \in 1..len : GoodLevel(levels[j]) /\ levels[j].price \in Nat
  BY LevelsAreGood
<1>2. \A i, j \in 1..len : i < j => levels[i].price # levels[j].price
  BY LevelsAreGood
<1>3. PICK f : LevelsLoop(f, len, r, s, levels) /\ add_levels(r, s, levels) = f[len]
  BY <1>1, LevelsLoopRuns
<1>4. f[0] = r /\ \A i \in 1..len : f[i] = add_level(f[i - 1], s, levels[i])
  BY <1>1, <1>3 DEF LevelsLoop
<1> DEFINE done == {i \in Nat : i \in 0..len =>
                      \E lad : Stacked(lad, levels, i) /\ Extends(f[i], r, n, s, lad)}
<1> HIDE DEF len
<1>5. 0 \in done
  <2> DEFINE lad == r.book.ladder[s]
  <2>1. Stacked(lad, levels, 0)
    BY DEF Stacked, PricesOf
  <2>2. Extends(r, r, n, s, lad)
    BY DEF Extends, Building
  <2> QED
    BY <1>4, <2>1, <2>2
<1>6. ASSUME NEW i \in done
      PROVE  i + 1 \in done
  <2> SUFFICES ASSUME i + 1 \in 0..len
               PROVE  \E lad : Stacked(lad, levels, i + 1) /\ Extends(f[i + 1], r, n, s, lad)
    OBVIOUS
  <2>1. i \in 0..len /\ i + 1 \in 1..len /\ (i + 1) - 1 = i
    BY <1>1
  <2>2. PICK lad : Stacked(lad, levels, i) /\ Extends(f[i], r, n, s, lad)
    BY <2>1
  <2> DEFINE lvl == levels[i + 1]
             new == Put(lad, lvl.price, PriceLevel(lvl.total_qty, lvl.order_count))
  <2>3. GoodLevel(lvl) /\ f[i + 1] = add_level(f[i], s, lvl)
    BY <1>1, <1>4, <2>1
  <2>4. lvl.price \notin DOMAIN lad
    <3>1. ASSUME NEW j \in 1..i PROVE levels[j].price # lvl.price
      <4>1. j \in 1..len /\ j < i + 1
        BY <1>1, <2>1
      <4> QED
        BY <1>2, <2>1, <4>1
    <3> QED
      BY <2>2, <3>1 DEF Stacked, PricesOf
  <2>5. f[i].book.ladder[s] = lad /\ Building(f[i], n)
    <3>1. r.book.ladder = [u \in Side |-> r.book.ladder[u]]
      BY DEF Building
    <3> QED
      BY <2>2, <3>1 DEF Extends
  <2> HIDE DEF lvl
  <2>6. Extends(f[i + 1], f[i], n, s, new)
    BY <2>3, <2>4, <2>5, LevelRebuilt
  <2> HIDE DEF new
  <2>7. Extends(f[i + 1], r, n, s, new)
    BY <2>2, <2>6, ExtendsTwice
  <2>8. Stacked(new, levels, i + 1)
    <3>1. DOMAIN new = DOMAIN lad \cup {lvl.price}
          /\ new[lvl.price] = PriceLevel(lvl.total_qty, lvl.order_count)
          /\ \A p \in DOMAIN lad : new[p] = lad[p]
      BY <2>4 DEF new, Put
    <3>2. 1..(i + 1) = (1..i) \cup {i + 1}
      BY <2>1
    <3>3. DOMAIN new = PricesOf(levels, i + 1)
      <4>1. DOMAIN lad = PricesOf(levels, i)
        BY <2>2 DEF Stacked
      <4> QED
        BY <3>1, <3>2, <4>1 DEF lvl, PricesOf
    <3>4. ASSUME NEW j \in 1..(i + 1)
          PROVE  new[levels[j].price] = PriceLevel(levels[j].total_qty, levels[j].order_count)
      BY <2>2, <3>1, <3>2 DEF Stacked, lvl, PricesOf
    <3> QED
      BY <3>3, <3>4 DEF Stacked
  <2> QED
    BY <2>7, <2>8
<1>7. done = Nat
  <2>1. done \in SUBSET Nat
    OBVIOUS
  <2> HIDE DEF done
  <2> QED
    BY <1>5, <1>6, <2>1, Induction
<1>8. len \in Nat /\ len \in 0..len
  BY <1>1
<1> QED
  BY <1>3, <1>7, <1>8 DEF len

\* The number of prices of the first k levels.
LEMMA PricesCounted ==
  ASSUME NEW s \in Side, NEW levels, GoodLevels(s, levels), NEW k \in 0..Len(levels)
  PROVE  IsFiniteSet(PricesOf(levels, k)) /\ Cardinality(PricesOf(levels, k)) = k
<1> DEFINE S == PricesOf(levels, k)
           g == [j \in 1..k |-> levels[j].price]
<1>1. Len(levels) \in Nat /\ k \in Nat
  BY LevelsAreGood
<1>2. \A j \in 1..k : j \in 1..Len(levels)
  BY <1>1
<1>3. \A i, j \in 1..k : i < j => levels[i].price # levels[j].price
  BY <1>2, LevelsAreGood
<1>4. g \in Bijection(1..k, S)
  <2>1. \A i, j \in 1..k : g[i] = g[j] => i = j
    BY <1>1, <1>3
  <2>2. g \in [1..k -> S] /\ \A x \in S : \E j \in 1..k : g[j] = x
    BY DEF PricesOf
  <2> QED
    BY <2>1, <2>2 DEF Bijection, Injection, IsInjective, Surjection
<1>5. IsFiniteSet(1..k) /\ Cardinality(1..k) = k
  <2>1. 1 \in Int /\ k \in Int /\ (IF 1 > k THEN 0 ELSE k - 1 + 1) = k
    BY <1>1
  <2> QED
    BY <2>1, FS_Interval
<1> QED
  <2>1. ExistsBijection(1..k, S)
    BY <1>4 DEF ExistsBijection
  <2> QED
    BY <1>5, <2>1, FS_Bijection

\* refresh_top of the ladder of some levels, when all of them fit, is the levels.
LEMMA RefreshOfLevels ==
  ASSUME NEW s \in Side, NEW levels, GoodLevels(s, levels), NEW n \in Nat, Len(levels) <= n,
         NEW lad, Stacked(lad, levels, Len(levels))
  PROVE  refresh_top(s, lad, n) = levels
<1> DEFINE len == Len(levels)
           S == DOMAIN lad
<1>1. /\ len \in Nat
      /\ levels = [i \in 1..len |-> levels[i]]
      /\ \A j \in 1..len : levels[j] \in SnapshotLevels
      /\ \A j \in 1..len : levels[j].price \in Nat
      /\ \A i, j \in 1..len : i < j => Better(s, levels[i].price, levels[j].price)
  BY LevelsAreGood
<1>2. S = PricesOf(levels, len)
  BY DEF Stacked
<1>14. S \in SUBSET Nat
  BY <1>1, <1>2 DEF PricesOf
<1>3. IsFiniteSet(S) /\ Cardinality(S) = len
  <2>1. len \in 0..len
    BY <1>1
  <2> QED
    BY <1>2, <2>1, PricesCounted
<1>4. LadderSize(lad, n) = len
  BY <1>1, <1>3 DEF LadderSize
<1>5. ASSUME NEW i \in 1..len
      PROVE  PriceAt(s, S, i) = levels[i].price
  <2> DEFINE p == levels[i].price
             above == PricesOf(levels, i - 1)
  <2>1. BetterPrices(s, S, p) = above
    <3>1. ASSUME NEW j \in 1..len
          PROVE  Better(s, levels[j].price, p) <=> j < i
      BY <1>1 DEF Better
    <3>2. 1..(i - 1) = {j \in 1..len : j < i}
      BY <1>1
    <3> HIDE DEF p
    <3> QED
      BY <1>2, <3>1, <3>2 DEF BetterPrices, PricesOf
  <2>2. Cardinality(above) = i - 1
    <3>1. i - 1 \in 0..len
      BY <1>1
    <3> QED
      BY <3>1, PricesCounted
  <2>3. PriceAt(s, S, i) \in S /\ Cardinality(BetterPrices(s, S, PriceAt(s, S, i))) = i - 1
    <3>1. i \in 1..Cardinality(S)
      BY <1>3
    <3> QED
      BY <1>14, <1>3, <3>1, PriceAtPosition
  <2>4. p \in S
    BY <1>2 DEF PricesOf
  <2> DEFINE q == PriceAt(s, S, i)
  <2>5. Cardinality(BetterPrices(s, S, p)) = Cardinality(BetterPrices(s, S, q))
    BY <2>1, <2>2, <2>3
  <2>6. q \in S
    BY <2>3
  <2> HIDE DEF p, S, above, q
  <2>7. p = q
    BY <1>14, <1>3, <2>4, <2>5, <2>6, PositionsOrderPrices
  <2> QED
    BY <2>7 DEF p, q
<1> DEFINE entry(p) == [price |-> p, total_qty |-> lad[p].total_qty, order_count |-> lad[p].order_count]
<1>6. ASSUME NEW i \in 1..len
      PROVE  entry(levels[i].price) = levels[i]
  <2>1. lad[levels[i].price] = PriceLevel(levels[i].total_qty, levels[i].order_count)
    BY DEF Stacked
  <2>2. /\ lad[levels[i].price].total_qty = levels[i].total_qty
        /\ lad[levels[i].price].order_count = levels[i].order_count
    BY <2>1 DEF PriceLevel
  <2> QED
    BY <1>1, <2>2 DEF SnapshotLevels
<1>7. refresh_top(s, lad, n) = [i \in 1..len |-> entry(PriceAt(s, S, i))]
  BY <1>4 DEF refresh_top
<1> HIDE DEF entry, S, len
<1> QED
  BY <1>1, <1>5, <1>6, <1>7

\* The book built from a snapshot of a sound book shows the snapshot, and all
\* its ids are synthetic.
Shows(b, snap) ==
  /\ b.top["Buy"] = snap.bids /\ b.top["Sell"] = snap.asks
  /\ \A id \in DOMAIN b.orders : id >= SyntheticBase

\* The rebuilt book shows the levels it was built from.
LEMMA SnapshotShows ==
  ASSUME NEW snap, GoodLevels("Buy", snap.bids), GoodLevels("Sell", snap.asks)
  PROVE  Shows(SnapshotBook(snap), snap)
<1> DEFINE n == IF Len(snap.bids) > Len(snap.asks) THEN Len(snap.bids) ELSE Len(snap.asks)
           r == [book |-> EmptyBook(n), synthetic |-> SyntheticBase]
           d == add_levels(r, "Buy", snap.bids)
           e == add_levels(d, "Sell", snap.asks)
<1>1. n \in Nat /\ Len(snap.bids) <= n /\ Len(snap.asks) <= n
  BY DEF GoodLevels
<1>2. SnapshotBook(snap) = e.book
  BY DEF SnapshotBook
<1>3. Building(r, n)
  BY <1>1, NewBuilding
<1>4. \A s \in Side : DOMAIN r.book.ladder[s] = {}
  BY DEF EmptyBook, EmptyMap
<1> HIDE DEF n, r, d, e
<1>5. PICK bids : Stacked(bids, snap.bids, Len(snap.bids)) /\ Extends(d, r, n, "Buy", bids)
  BY <1>3, <1>4, SideRebuilt DEF d, Side
<1>6. Building(d, n) /\ d.book.ladder["Buy"] = bids /\ DOMAIN d.book.ladder["Sell"] = {}
  <2>1. r.book.ladder = [s \in Side |-> r.book.ladder[s]]
    BY <1>3 DEF Building
  <2> QED
    BY <1>4, <1>5, <2>1 DEF Extends, Side
<1>7. PICK asks : Stacked(asks, snap.asks, Len(snap.asks)) /\ Extends(e, d, n, "Sell", asks)
  BY <1>6, SideRebuilt DEF e, Side
<1>8. Building(e, n) /\ e.book.ladder["Buy"] = bids /\ e.book.ladder["Sell"] = asks
  <2>1. d.book.ladder = [s \in Side |-> d.book.ladder[s]]
    BY <1>6 DEF Building
  <2> QED
    BY <1>6, <1>7, <2>1 DEF Extends, Side
<1>9. /\ refresh_top("Buy", bids, n) = snap.bids
      /\ refresh_top("Sell", asks, n) = snap.asks
  BY <1>1, <1>5, <1>7, RefreshOfLevels DEF Side
<1>10. e.book.top["Buy"] = snap.bids /\ e.book.top["Sell"] = snap.asks
  BY <1>8, <1>9 DEF Building, Side
<1>11. \A id \in DOMAIN e.book.orders : id >= SyntheticBase
  BY <1>8, SyntheticBaseAssumption DEF Building
<1> QED
  BY <1>2, <1>10, <1>11 DEF Shows

\* A sound book has no more orders than shares at a price.
LEMMA OrdersHaveShares ==
  ASSUME NEW orders, IsMap(orders, OrderIds, Orders), NEW s, NEW p
  PROVE  Cardinality(OrdersAt(orders, s, p)) <= Cardinality(SharesAt(orders, s, p))
<1> DEFINE at == OrdersAt(orders, s, p)
           firsts == at \X {1}
<1>1. IsFiniteSet(at) /\ IsFiniteSet(SharesAt(orders, s, p)) /\ Cardinality(at) \in Nat
  BY AggregateBounds
<1>2. firsts \subseteq SharesAt(orders, s, p)
  <2>1. \A id \in at : 1 \in 1..orders[id].qty
    BY DomainAssumption DEF OrdersAt, IsMap, Orders, Quantities
  <2> QED
    BY <2>1 DEF SharesAt
<1>3. Cardinality(firsts) = Cardinality(at)
  <2>1. IsFiniteSet({1}) /\ Cardinality({1}) = 1
    BY FS_Singleton
  <2>2. Cardinality(firsts) = Cardinality(at) * 1
    BY <1>1, <2>1, FS_Product
  <2> QED
    BY <1>1, <2>2
<1>4. Cardinality(firsts) <= Cardinality(SharesAt(orders, s, p))
  BY <1>1, <1>2, FS_Subset
<1> QED
  BY <1>3, <1>4

\* What a sound book shows can be rebuilt.
LEMMA SoundShowsGood ==
  ASSUME NEW b, Sound(b), NoWrap, NEW s \in Side
  PROVE  GoodLevels(s, b.top[s]) /\ Len(b.top[s]) <= b.depth
<1> DEFINE lad == b.ladder[s]
           top == b.top[s]
<1>1. /\ IsMap(b.orders, OrderIds, Orders) /\ IsMap(lad, Prices, Levels)
      /\ top \in Seq(TopLevels) /\ TopMatches(b, s)
  BY RefreshedTop DEF Sound, WellFormed
<1>2. top \in Seq(SnapshotLevels)
  <2>1. Prices \subseteq Nat /\ 0..(QtyMod - 1) \subseteq Nat
    BY DomainAssumption, QtyModAssumption
  <2>2. \A x \in TopLevels : x \in SnapshotLevels
    BY <2>1 DEF TopLevels, SnapshotLevels
  <2> HIDE DEF top
  <2>3. Len(top) \in Nat /\ top = [j \in 1..Len(top) |-> top[j]]
    BY <1>1
  <2>4. \A j \in 1..Len(top) : top[j] \in SnapshotLevels
    BY <1>1, <2>2
  <2> QED
    BY <2>3, <2>4
<1>3. ASSUME NEW j \in 1..Len(top)
      PROVE  GoodLevel(top[j])
  <2> DEFINE p == top[j].price
             at == OrdersAt(b.orders, s, p)
             shares == SharesAt(b.orders, s, p)
  <2>1. /\ p \in DOMAIN lad /\ p \in Prices
        /\ lad[p] = PriceLevel(top[j].total_qty, top[j].order_count)
    BY <1>1 DEF TopMatches, IsMap
  <2>2. LevelMatches(b, s, p)
    BY <2>1 DEF Sound
  <2>3. at # {} /\ lad[p].order_count = Cardinality(at) /\ lad[p].total_qty = Cardinality(shares)
    BY <2>1, <2>2 DEF LevelMatches
  <2>4. top[j].order_count = Cardinality(at) /\ top[j].total_qty = Cardinality(shares)
    BY <2>1, <2>3 DEF PriceLevel
  <2>5. /\ Cardinality(at) \in Nat /\ Cardinality(shares) \in Nat
        /\ Cardinality(at) # 0 /\ Cardinality(shares) # 0
        /\ Cardinality(shares) <= Cardinality(OrderIds) * MaxQty
    BY <1>1, <2>3, AggregateBounds
  <2>6. Cardinality(at) <= Cardinality(shares)
    BY <1>1, OrdersHaveShares
  <2>7. Cardinality(OrderIds) * MaxQty \in Nat
    <3>1. Cardinality(OrderIds) \in Nat /\ MaxQty \in Nat
      BY DomainAssumption, FS_CardinalityType
    <3> QED
      BY <3>1
  <2>8. Cardinality(shares) <= QtyMod - 1
    BY <2>5, <2>7, QtyModAssumption DEF NoWrap
  <2> HIDE DEF at, shares
  <2> QED
    BY <2>4, <2>5, <2>6, <2>8, QtyModAssumption DEF GoodLevel
<1>4. \A i, j \in 1..Len(top) : i < j => Better(s, top[i].price, top[j].price)
  BY <1>1 DEF TopMatches
<1>5. Len(top) <= b.depth
  BY <1>1 DEF TopMatches
<1> QED
  BY <1>2, <1>3, <1>4, <1>5 DEF GoodLevels

-----------------------------------------------------------------------------
(***************************************************************************)
(* The book apply_snapshot builds is sound, whatever levels it is given.   *)
(***************************************************************************)

\* a state of the rebuild that is sound if its ids are ids in use
Keeping(r, n) == Building(r, n) /\ (Ids(r.book) \subseteq OrderIds => Sound(r.book))

\* One synthetic order keeps it so, also one for no shares.
LEMMA OrderKeeps ==
  ASSUME NEW r, NEW n, Keeping(r, n), NEW s \in Side, NEW p \in Prices, NEW q \in Quantities
  PROVE  Keeping(add_synthetic(r, s, p, q), n)
<1> DEFINE e == add_synthetic(r, s, p, q)
<1>1. q \in Nat
  BY DomainAssumption DEF Quantities
<1>2. CASE q = 0
  BY <1>2 DEF add_synthetic
<1>3. CASE q # 0
  <2>1. Building(e, n) /\ Ids(e.book) = Ids(r.book) \cup {r.synthetic}
    <3>1. q > 0 /\ Building(r, n)
      BY <1>1, <1>3 DEF Keeping
    <3>2. Extends(e, r, n, s, ShiftLevel(r.book.ladder[s], p, q, 1))
          /\ Ids(e.book) = Ids(r.book) \cup {r.synthetic}
      BY <1>1, <3>1, SyntheticOrder
    <3> QED
      BY <3>2 DEF Extends
  <2>2. e.book = add_order(r.book, r.synthetic, s, p, q)
    BY <1>3 DEF add_synthetic
  <2> HIDE DEF e
  <2>3. ASSUME Ids(e.book) \subseteq OrderIds PROVE Sound(e.book)
    <3>1. r.synthetic \in OrderIds /\ Sound(r.book)
      BY <2>1, <2>3 DEF Keeping
    <3> QED
      BY <2>2, <3>1, AddKeepsSound
  <2> QED
    BY <2>1, <2>3 DEF Keeping, e
<1> QED
  BY <1>2, <1>3

\* So do the orders of one level.
LEMMA LevelKeeps ==
  ASSUME NEW r, NEW n, Keeping(r, n), NEW s \in Side, NEW lvl \in LevelsInUse
  PROVE  Keeping(add_level(r, s, lvl), n)
<1> DEFINE c == OrderCount(lvl)
           p == lvl.price
<1>1. /\ lvl.total_qty \in 0..MaxQty /\ lvl.total_qty \in Nat /\ lvl.order_count \in Nat
      /\ p \in Prices
  BY DomainAssumption DEF LevelsInUse, Quantities
<1>2. c \in Nat /\ \A i \in 1..c : Share(lvl, i) \in 0..lvl.total_qty
  BY <1>1, SharesAddUp
<1>3. \A i \in 1..c : Share(lvl, i) \in Quantities
  BY <1>1, <1>2, DomainAssumption DEF Quantities
<1>4. PICK f : LevelLoop(f, c, r, s, lvl) /\ add_level(r, s, lvl) = f[c]
  BY <1>2, LevelLoopRuns
<1>5. f[0] = r /\ \A i \in 1..c : f[i] = add_synthetic(f[i - 1], s, p, Share(lvl, i))
  BY <1>2, <1>4 DEF LevelLoop
<1> DEFINE done == {i \in Nat : i \in 0..c => Keeping(f[i], n)}
<1> HIDE DEF c, p
<1>6. 0 \in done
  BY <1>5
<1>7. ASSUME NEW i \in done
      PROVE  i + 1 \in done
  <2> SUFFICES ASSUME i + 1 \in 0..c PROVE Keeping(f[i + 1], n)
    OBVIOUS
  <2>1. i \in Nat /\ i \in 0..c /\ i + 1 \in 1..c /\ (i + 1) - 1 = i
    BY <1>2
  <2>2. Keeping(f[i], n) /\ f[i + 1] = add_synthetic(f[i], s, p, Share(lvl, i + 1))
    BY <1>5, <2>1
  <2> QED
    BY <1>1, <1>3, <2>1, <2>2, OrderKeeps
<1>8. done = Nat
  <2>1. done \in SUBSET Nat
    OBVIOUS
  <2> HIDE DEF done
  <2> QED
    BY <1>6, <1>7, <2>1, Induction
<1> QED
  BY <1>2, <1>4, <1>8

\* And the levels of one side.
LEMMA SideKeeps ==
  ASSUME NEW r, NEW n, Keeping(r, n), NEW s \in Side, NEW levels \in Seq(LevelsInUse)
  PROVE  Keeping(add_levels(r, s, levels), n)
<1> DEFINE len == Len(levels)
<1>1. len \in Nat /\ \A i \in 1..len : levels[i] \in LevelsInUse
  OBVIOUS
<1>2. PICK f : LevelsLoop(f, len, r, s, levels) /\ add_levels(r, s, levels) = f[len]
  BY <1>1, LevelsLoopRuns
<1>3. f[0] = r /\ \A i \in 1..len : f[i] = add_level(f[i - 1], s, levels[i])
  BY <1>1, <1>2 DEF LevelsLoop
<1> DEFINE done == {i \in Nat : i \in 0..len => Keeping(f[i], n)}
<1> HIDE DEF len
<1>4. 0 \in done
  BY <1>3
<1>5. ASSUME NEW i \in done
      PROVE  i + 1 \in done
  <2> SUFFICES ASSUME i + 1 \in 0..len PROVE Keeping(f[i + 1], n)
    OBVIOUS
  <2>1. i \in Nat /\ i \in 0..len /\ i + 1 \in 1..len /\ (i + 1) - 1 = i
    BY <1>1
  <2>2. Keeping(f[i], n) /\ f[i + 1] = add_level(f[i], s, levels[i + 1])
    BY <1>3, <2>1
  <2> QED
    BY <1>1, <2>1, <2>2, LevelKeeps
<1>6. done = Nat
  <2>1. done \in SUBSET Nat
    OBVIOUS
  <2> HIDE DEF done
  <2> QED
    BY <1>4, <1>5, <2>1, Induction
<1> QED
  BY <1>1, <1>2, <1>6

\* Levels that are not the snapshot of a sound book too (one that counts more
\* orders than shares, the same price twice) are rebuilt into a sound one.
LEMMA SnapshotIsSound ==
  ASSUME NEW snap, snap.bids \in Seq(LevelsInUse), snap.asks \in Seq(LevelsInUse),
         Ids(SnapshotBook(snap)) \subseteq OrderIds
  PROVE  Sound(SnapshotBook(snap))
<1> DEFINE n    == IF Len(snap.bids) > Len(snap.asks) THEN Len(snap.bids) ELSE Len(snap.asks)
           new  == [book |-> EmptyBook(n), synthetic |-> SyntheticBase]
           bids == add_levels(new, "Buy", snap.bids)
           both == add_levels(bids, "Sell", snap.asks)
<1>1. n \in Nat
  OBVIOUS
<1> HIDE DEF n
<1>2. Keeping(new, n)
  BY <1>1, NewBuilding, EmptySound DEF Keeping
<1> HIDE DEF new
<1>3. Keeping(bids, n)
  BY <1>2, SideKeeps DEF Side
<1> HIDE DEF bids
<1>4. Keeping(both, n)
  BY <1>3, SideKeeps DEF Side
<1>5. SnapshotBook(snap) = both.book
  BY DEF SnapshotBook, both, bids, new, n
<1> QED
  BY <1>4, <1>5 DEF Keeping
=============================================================================
