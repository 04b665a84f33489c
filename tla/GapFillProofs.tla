---------------------------- MODULE GapFillProofs ----------------------------
(***************************************************************************)
(* Theorems about GapFill for every set of locates, ids, prices and lots,  *)
(* every number of messages, capacity and width of a Quantity.             *)
(*                                                                         *)
(* The argument: the generator numbers the datagrams of a locate 1, 2, 3,  *)
(* ... (Numbering), and the depth book that applies them holds what the    *)
(* generator accounts for (Mirror), so the provider's snapshot is that of  *)
(* a sound book and never behind a datagram.  So a datagram meets one of   *)
(* three ends (Outcome): its number is not the one expected and it is      *)
(* dropped; it is, and it is applied; or it shows a gap, and a snapshot    *)
(* that holds it is installed.  The book of a snapshot holds synthetic ids *)
(* only and shows the shadow's levels; no datagram that was already sent   *)
(* can reach it, by its number if it is of its locate and by its symbol or *)
(* its public id if not (TakenStep), so a resync is final until the next   *)
(* message.  And in an in-order delivery the next datagram is always the   *)
(* one expected, so the handler's book goes through the books the shadow   *)
(* went through (InOrder, which has them as a function f).                 *)
(***************************************************************************)
EXTENDS GapFill, OperatorLemmas

-----------------------------------------------------------------------------
\* the ids the generator can give out
PublicIds == 1..(2 * MaxMessages)

Messages ==
  UNION {[type : {"A"}, symbol : Symbols, order_id : PublicIds, side : Side,
          price : Prices, shares : Quantities \ {0}],
         [type : {"X", "E"}, order_id : PublicIds, shares : Quantities \ {0}],
         [type : {"D"}, order_id : PublicIds],
         [type : {"U"}, order_id : PublicIds, new_order_id : PublicIds,
          price : Prices, shares : Quantities \ {0}]}

\* An add leaves under the locate of its symbol.
Datagrams ==
  {d \in [loc : Locates, seq : Nat \ {0}, frame : Messages] :
     d.frame.type = "A" => d.frame.symbol = SymbolOf[d.loc]}

Resting == [loc : Locates, side : Side, price : Prices, qty : Quantities \ {0}]

\* Every id handed out is below the next, and two are handed out per message at most.
Generator ==
  /\ gen.next_order_id \in 1..(1 + 2 * Len(sent)) /\ Len(sent) <= MaxMessages
  /\ IsMap(gen.live, 1..(gen.next_order_id - 1), Resting)

\* The datagrams of a locate are numbered 1, 2, 3, ... in the order of sending,
\* and the shadow has the last number.
Numbering ==
  /\ sent \in Seq(Datagrams)
  /\ DOMAIN shadow.last_seq \subseteq Locates
  /\ DOMAIN gen.next_seq = DOMAIN shadow.last_seq
  /\ \A l \in DOMAIN shadow.last_seq :
       /\ shadow.last_seq[l] \in Nat /\ gen.next_seq[l] = shadow.last_seq[l] + 1
       /\ \E i \in 1..Len(sent) : sent[i].loc = l /\ sent[i].seq = shadow.last_seq[l]
  /\ \A i \in 1..Len(sent) :
       /\ sent[i].loc \in DOMAIN shadow.last_seq
       /\ sent[i].seq <= shadow.last_seq[sent[i].loc]
       /\ sent[i].seq = 1 \/ \E j \in 1..(i - 1) : /\ sent[j].loc = sent[i].loc
                                                   /\ sent[j].seq = sent[i].seq - 1
       /\ \A j \in 1..(i - 1) : sent[j].loc = sent[i].loc => sent[j].seq < sent[i].seq

\* the generator's account of its live orders as the contents of a depth book
Account(live) ==
  [id \in DOMAIN live |->
     <<SymbolOf[live[id].loc], OrderState(live[id].side, live[id].price, live[id].qty)>>]

Mirrors(db, live) == Books(db, Symbols) /\ Routes(db) /\ Contents(db) = Account(live)

Mirror == Mirrors(shadow.db, gen.live)

\* The handler's cursors stay behind what was sent.
Handler ==
  /\ IsHandler(h) /\ DbShape(h.db, Symbols)
  /\ DOMAIN h.gap \subseteq Locates
  /\ \A l \in DOMAIN h.gap : h.gap[l] \in 1..(LastSeq(l) + 1)

History ==
  /\ inOrder \in OutOfOrder..Len(sent)
  /\ fresh \subseteq whole /\ whole \subseteq Locates

\* f holds the book after each of the messages, db after the last
Replay(f, feed, db) ==
  /\ f[0] = EmptyDepthBook(Depth)
  /\ \A n \in 1..Len(feed) : f[n] = apply(f[n - 1], feed[n].frame).db
  /\ f[Len(feed)] = db

\* the cursors are behind the first k datagrams
CursorsAfter(k) ==
  /\ \A l \in DOMAIN h.gap : \E i \in 1..k : sent[i].loc = l /\ h.gap[l] = sent[i].seq + 1
  /\ \A i \in 1..k : sent[i].loc \in DOMAIN h.gap /\ sent[i].seq < h.gap[sent[i].loc]

InOrder ==
  \E f : /\ Replay(f, sent, shadow.db)
         /\ inOrder # OutOfOrder => h.db = f[inOrder] /\ CursorsAfter(inOrder)

\* What a snapshot was installed for holds it as it is.
Settled(l) ==
  /\ l \in DOMAIN h.gap /\ h.gap[l] = LastSeq(l) + 1
  /\ SymbolOf[l] \in DOMAIN h.db.books
  /\ h.db.books[SymbolOf[l]] = SnapshotBook(Provide(l))

IInv == Generator /\ Numbering /\ Mirror /\ Handler /\ History /\ InOrder

-----------------------------------------------------------------------------
(***************************************************************************)
(* The publisher.                                                          *)
(***************************************************************************)

\* The ids the generator hands out are in the domain of the shadow's books and
\* below those of synthetic orders.
LEMMA PublicIdsAreOrderIds ==
  /\ PublicIds \subseteq OrderIds
  /\ \A id \in PublicIds : id < SyntheticBase
  BY GapFillAssumption, SyntheticBaseAssumption DEF PublicIds

\* The next message may take two ids.
LEMMA NextIds ==
  ASSUME Generator, Numbering, Len(sent) < MaxMessages
  PROVE  /\ gen.next_order_id \in PublicIds /\ gen.next_order_id + 1 \in PublicIds
         /\ gen.next_order_id \notin LiveIds /\ gen.next_order_id + 1 \notin LiveIds
         /\ \A id \in LiveIds : id \in PublicIds /\ id < gen.next_order_id
<1>1. Len(sent) \in Nat /\ MaxMessages \in Nat
  BY GapFillAssumption DEF Numbering
<1>2. LiveIds \subseteq 1..(gen.next_order_id - 1)
  BY DEF Generator, IsMap, LiveIds
<1> QED
  BY <1>1, <1>2 DEF Generator, PublicIds

\* An account with one order put in it, or taken out, is the contents with the
\* order put in or taken out.
LEMMA AccountMoves ==
  ASSUME NEW live, NEW id, NEW o
  PROVE  /\ Account(Put(live, id, o)) =
              Put(Account(live), id, <<SymbolOf[o.loc], OrderState(o.side, o.price, o.qty)>>)
         /\ Account(Erase(live, id)) = Erase(Account(live), id)
<1>1. Account(Put(live, id, o)) =
        Put(Account(live), id, <<SymbolOf[o.loc], OrderState(o.side, o.price, o.qty)>>)
  BY DEF Account, Put
<1>2. Account(Erase(live, id)) = Erase(Account(live), id)
  BY DEF Account, Erase, Restrict
<1> QED
  BY <1>1, <1>2

\* What the shadow knows of a live order.
LEMMA MirroredOrder ==
  ASSUME Mirror, Generator, NEW id \in LiveIds
  PROVE  /\ gen.live[id] \in Resting
         /\ id \in DOMAIN shadow.db.index
         /\ shadow.db.index[id] = SymbolOf[gen.live[id].loc]
         /\ Contents(shadow.db)[id] =
              <<SymbolOf[gen.live[id].loc],
                OrderState(gen.live[id].side, gen.live[id].price, gen.live[id].qty)>>
<1>1. gen.live[id] \in Resting
  BY DEF Generator, IsMap, LiveIds
<1>2. DOMAIN Contents(shadow.db) = DOMAIN shadow.db.index
  BY DEF Contents
<1>3. Contents(shadow.db) = Account(gen.live)
  BY DEF Mirror, Mirrors
<1>4. id \in DOMAIN shadow.db.index
  BY <1>2, <1>3 DEF Account, LiveIds
<1>5. Contents(shadow.db)[id] =
        <<SymbolOf[gen.live[id].loc],
          OrderState(gen.live[id].side, gen.live[id].price, gen.live[id].qty)>>
  BY <1>3 DEF Account, LiveIds
<1>6. Contents(shadow.db)[id][1] = shadow.db.index[id]
  BY <1>4 DEF Contents
<1> QED
  BY <1>1, <1>4, <1>5, <1>6

\* An id that is not live is in no book of the shadow.
LEMMA UnusedId ==
  ASSUME Mirror, NEW id, id \notin LiveIds
  PROVE  id \notin DOMAIN shadow.db.index /\ NoOneHolds(shadow.db, id)
<1>1. DOMAIN Contents(shadow.db) = DOMAIN gen.live
  BY DEF Mirror, Mirrors, Account
<1>2. id \notin DOMAIN shadow.db.index
  BY <1>1 DEF Contents, LiveIds
<1> QED
  BY <1>2 DEF Mirror, Mirrors, Routes, NoOneHolds

\* A
LEMMA AddMirrored ==
  ASSUME Mirror, NEW l \in Locates, NEW id \in OrderIds \ LiveIds, NEW s \in Side,
         NEW p \in Prices, NEW q \in Quantities \ {0}
  PROVE  Mirrors(apply(shadow.db, AddMsg("A", SymbolOf[l], id, s, p, q)).db,
                 Put(gen.live, id, LiveOrder(l, s, p, q)))
<1> DEFINE d == shadow.db
           r == apply_add(d, AddMsg("A", SymbolOf[l], id, s, p, q))
<1>1. apply(d, AddMsg("A", SymbolOf[l], id, s, p, q)) = r
  BY DEF apply, AddMsg
<1>2. Books(d, Symbols) /\ Routes(d) /\ Contents(d) = Account(gen.live)
  BY DEF Mirror, Mirrors
<1>3. SymbolOf[l] \in Symbols
  BY DEF Symbols
<1>4. id \notin DOMAIN d.index /\ NoOneHolds(d, id)
  BY UnusedId
<1>5. q \in Quantities /\ q > 0
  BY DomainAssumption DEF Quantities
<1> HIDE DEF d
<1>6. Books(r.db, Symbols) /\ Routes(r.db)
  BY <1>2, <1>3, <1>4, <1>5, AddStep
<1>7. Contents(r.db) = Put(Contents(d), id, <<SymbolOf[l], OrderState(s, p, q)>>)
  BY <1>2, <1>3, <1>4, AddContents
<1>8. Account(Put(gen.live, id, LiveOrder(l, s, p, q))) =
        Put(Account(gen.live), id, <<SymbolOf[l], OrderState(s, p, q)>>)
  <2> DEFINE o == LiveOrder(l, s, p, q)
  <2>1. o.loc = l /\ o.side = s /\ o.price = p /\ o.qty = q
    BY DEF LiveOrder
  <2> HIDE DEF o
  <2> QED
    BY <2>1, AccountMoves DEF o
<1> QED
  BY <1>1, <1>2, <1>6, <1>7, <1>8 DEF Mirrors, d

\* X and E
LEMMA ReduceMirrored ==
  ASSUME Mirror, Generator, NEW id \in LiveIds, id \in OrderIds, NEW type \in {"X", "E"},
         NEW q \in Quantities \ {0}
  PROVE  Mirrors(apply(shadow.db, ReduceMsg(type, id, q)).db, Reduced(gen.live, id, q))
<1> DEFINE d == shadow.db
           r == apply_reduce(d, ReduceMsg(type, id, q))
           live == gen.live
           o == live[id]
           st == OrderState(o.side, o.price, o.qty)
<1>1. apply(d, ReduceMsg(type, id, q)) = r
  BY DEF apply, ReduceMsg
<1>2. Books(d, Symbols) /\ Routes(d) /\ Contents(d) = Account(live)
  BY DEF Mirror, Mirrors
<1>3. /\ o \in Resting /\ id \in DOMAIN d.index /\ d.index[id] = SymbolOf[o.loc]
      /\ Contents(d)[id] = <<SymbolOf[o.loc], st>>
  BY MirroredOrder
<1>4. st.qty = o.qty /\ [st EXCEPT !.qty = o.qty - q] = OrderState(o.side, o.price, o.qty - q)
  BY DEF OrderState
<1> HIDE DEF d, r, live, st
<1>5. Books(r.db, Symbols) /\ Routes(r.db)
  BY <1>2, ReduceStep DEF r
<1>6. Contents(r.db) = IF q >= Contents(d)[id][2].qty THEN Erase(Contents(d), id)
                       ELSE Put(Contents(d), id,
                                <<d.index[id],
                                  [Contents(d)[id][2] EXCEPT !.qty = Contents(d)[id][2].qty - q]>>)
  BY <1>2, <1>3, ReduceContents DEF r
<1>7. Contents(r.db) = IF q >= o.qty THEN Erase(Contents(d), id)
                       ELSE Put(Contents(d), id,
                                <<SymbolOf[o.loc], OrderState(o.side, o.price, o.qty - q)>>)
  BY <1>3, <1>4, <1>6
<1>8. Account(Reduced(live, id, q)) =
        IF q >= o.qty THEN Erase(Account(live), id)
        ELSE Put(Account(live), id, <<SymbolOf[o.loc], OrderState(o.side, o.price, o.qty - q)>>)
  <2> DEFINE o2 == [o EXCEPT !.qty = @ - q]
  <2>1. o2.loc = o.loc /\ o2.side = o.side /\ o2.price = o.price /\ o2.qty = o.qty - q
    BY <1>3 DEF Resting
  <2>2. Reduced(live, id, q) = IF q >= o.qty THEN Erase(live, id) ELSE Put(live, id, o2)
    BY DEF Reduced
  <2> HIDE DEF o2, o
  <2> QED
    BY <2>1, <2>2, AccountMoves
<1> QED
  BY <1>1, <1>2, <1>5, <1>7, <1>8 DEF Mirrors, d, live

\* D
LEMMA DeleteMirrored ==
  ASSUME Mirror, Generator, NEW id \in LiveIds, id \in OrderIds
  PROVE  Mirrors(apply(shadow.db, DeleteMsg(id)).db, Erase(gen.live, id))
<1> DEFINE d == shadow.db
           r == apply_delete(d, DeleteMsg(id))
<1>1. apply(d, DeleteMsg(id)) = r
  BY DEF apply, DeleteMsg
<1>2. Books(d, Symbols) /\ Routes(d) /\ Contents(d) = Account(gen.live)
  BY DEF Mirror, Mirrors
<1>3. id \in DOMAIN d.index
  BY MirroredOrder
<1> HIDE DEF d
<1>4. Books(r.db, Symbols) /\ Routes(r.db)
  BY <1>2, DeleteStep
<1>5. Contents(r.db) = Erase(Contents(d), id)
  BY <1>2, <1>3, DeleteContents
<1> QED
  BY <1>1, <1>2, <1>4, <1>5, AccountMoves DEF Mirrors, d

\* U
LEMMA ReplaceMirrored ==
  ASSUME Mirror, Generator, NEW id \in LiveIds, id \in OrderIds, NEW new \in OrderIds \ LiveIds,
         NEW p \in Prices, NEW q \in Quantities \ {0}
  PROVE  Mirrors(apply(shadow.db, ReplaceMsg(id, new, p, q)).db,
                 Put(Erase(gen.live, id), new, [gen.live[id] EXCEPT !.price = p, !.qty = q]))
<1> DEFINE d == shadow.db
           r == apply_replace(d, ReplaceMsg(id, new, p, q))
           o == gen.live[id]
           st == OrderState(o.side, o.price, o.qty)
           o2 == [o EXCEPT !.price = p, !.qty = q]
<1>1. apply(d, ReplaceMsg(id, new, p, q)) = r
  BY DEF apply, ReplaceMsg
<1>2. Books(d, Symbols) /\ Routes(d) /\ Contents(d) = Account(gen.live)
  BY DEF Mirror, Mirrors
<1>3. /\ o \in Resting /\ id \in DOMAIN d.index /\ d.index[id] = SymbolOf[o.loc]
      /\ Contents(d)[id] = <<SymbolOf[o.loc], st>>
  BY MirroredOrder
<1>4. st.side = o.side
  BY DEF OrderState
<1>5. new \notin DOMAIN d.index /\ NoOneHolds(d, new)
  BY UnusedId
<1>6. q \in Quantities /\ q > 0
  BY DomainAssumption DEF Quantities
<1>7. o2.loc = o.loc /\ o2.side = o.side /\ o2.price = p /\ o2.qty = q
  BY <1>3 DEF Resting
<1> HIDE DEF d, r, st, o2
<1>8. Books(r.db, Symbols) /\ Routes(r.db)
  BY <1>2, <1>5, <1>6, ReplaceStep DEF r
<1>9. Contents(r.db) = Put(Erase(Contents(d), id), new,
                           <<d.index[id], OrderState(Contents(d)[id][2].side, p, q)>>)
  BY <1>2, <1>3, <1>5, ReplaceContents DEF r
<1>10. Contents(r.db) = Put(Erase(Contents(d), id), new,
                            <<SymbolOf[o.loc], OrderState(o.side, p, q)>>)
  BY <1>3, <1>4, <1>9
<1>11. Account(Put(Erase(gen.live, id), new, o2)) =
         Put(Erase(Account(gen.live), id), new, <<SymbolOf[o.loc], OrderState(o.side, p, q)>>)
  <2> HIDE DEF o
  <2> QED
    BY <1>7, AccountMoves
<1> QED
  BY <1>1, <1>2, <1>8, <1>10, <1>11 DEF Mirrors, d, o2

\* the datagram a message leaves in
Outgoing(l, m) == [loc |-> l, seq |-> SequenceOn(gen, l), frame |-> m]

\* What publishing a message assigns.
LEMMA Emission ==
  ASSUME NEW l, NEW m, NEW live, NEW ids, Publish(Emit(gen, l, m, live, ids))
  PROVE  /\ Len(sent) < MaxMessages
         /\ gen'.live = live /\ gen'.next_order_id = gen.next_order_id + ids
         /\ gen'.next_seq = Put(gen.next_seq, l, SequenceOn(gen, l) + 1)
         /\ shadow'.db = apply(shadow.db, m).db
         /\ shadow'.last_seq = Put(shadow.last_seq, l, SequenceOn(gen, l))
         /\ sent' = Append(sent, Outgoing(l, m))
         /\ fresh' = {} /\ UNCHANGED <<h, inOrder, whole>>
  BY DEF Publish, Emit, Outgoing

\* The number a message gets is the one after the last of its locate.
LEMMA NextNumber ==
  ASSUME Numbering, NEW l \in Locates
  PROVE  /\ SequenceOn(gen, l) \in Nat \ {0}
         /\ SequenceOn(gen, l) = LastSeq(l) + 1
         /\ LastSeq(l) = IF l \in DOMAIN shadow.last_seq THEN shadow.last_seq[l] ELSE 0
<1>1. LastSeq(l) = IF l \in DOMAIN shadow.last_seq THEN shadow.last_seq[l] ELSE 0
  BY DEF LastSeq, Provide
<1>2. /\ DOMAIN gen.next_seq = DOMAIN shadow.last_seq
      /\ l \in DOMAIN shadow.last_seq =>
           shadow.last_seq[l] \in Nat /\ gen.next_seq[l] = shadow.last_seq[l] + 1
  BY DEF Numbering
<1> QED
  BY <1>1, <1>2 DEF SequenceOn

\* The shadow has the number of every datagram sent.
LEMMA NumberSent ==
  ASSUME Numbering, NEW i \in 1..Len(sent)
  PROVE  /\ sent[i] \in Datagrams /\ sent[i].loc \in Locates /\ sent[i].seq \in Nat \ {0}
         /\ sent[i].seq <= LastSeq(sent[i].loc)
         /\ LastSeq(sent[i].loc) \in Nat
<1>1. sent[i] \in Datagrams
  BY DEF Numbering
<1>2. sent[i].loc \in Locates /\ sent[i].seq \in Nat \ {0}
  BY <1>1 DEF Datagrams
<1>3. sent[i].loc \in DOMAIN shadow.last_seq /\ sent[i].seq <= shadow.last_seq[sent[i].loc]
      /\ shadow.last_seq[sent[i].loc] \in Nat
  BY DEF Numbering
<1> QED
  BY <1>1, <1>2, <1>3, NextNumber

\* A sequence with one element more.
LEMMA AppendKeeps ==
  ASSUME NEW S, NEW w \in Seq(S), NEW x \in S
  PROVE  /\ Append(w, x) \in Seq(S) /\ Len(w) \in Nat /\ Len(Append(w, x)) = Len(w) + 1
         /\ Append(w, x)[Len(w) + 1] = x
         /\ \A i \in 1..Len(w) : Append(w, x)[i] = w[i]
  OBVIOUS

\* Publishing one keeps the numbering.
LEMMA PublishNumbers ==
  ASSUME Numbering, NEW l \in Locates, NEW m \in Messages, m.type = "A" => m.symbol = SymbolOf[l],
         NEW live, NEW ids, Publish(Emit(gen, l, m, live, ids))
  PROVE  /\ Numbering'
         /\ Len(sent) \in Nat /\ Len(sent') = Len(sent) + 1
         /\ sent'[Len(sent) + 1] = Outgoing(l, m)
         /\ \A i \in 1..Len(sent) : sent'[i] = sent[i]
         /\ \A k \in Locates : LastSeq(k)' = IF k = l THEN LastSeq(k) + 1 ELSE LastSeq(k)
<1> DEFINE seq == SequenceOn(gen, l)
           last == shadow.last_seq
           n == Len(sent)
<1>1. seq \in Nat \ {0} /\ seq = (IF l \in DOMAIN last THEN last[l] ELSE 0) + 1
  BY NextNumber
<1>2. /\ gen'.next_seq = Put(gen.next_seq, l, seq + 1)
      /\ shadow'.last_seq = Put(last, l, seq)
      /\ sent' = Append(sent, Outgoing(l, m))
  BY Emission
<1>3. Outgoing(l, m) \in Datagrams /\ Outgoing(l, m).loc = l /\ Outgoing(l, m).seq = seq
  BY <1>1 DEF Outgoing, Datagrams
<1>4. sent \in Seq(Datagrams)
  BY DEF Numbering
<1>5. /\ sent' \in Seq(Datagrams) /\ n \in Nat /\ Len(sent') = n + 1
      /\ sent'[n + 1] = Outgoing(l, m)
      /\ \A i \in 1..n : sent'[i] = sent[i]
  BY <1>2, <1>3, <1>4, AppendKeeps
<1> DEFINE last2 == shadow'.last_seq
<1>6. /\ DOMAIN last2 = DOMAIN last \cup {l} /\ last2[l] = seq
      /\ \A k \in DOMAIN last \ {l} : last2[k] = last[k]
      /\ DOMAIN last \subseteq Locates
  BY <1>2 DEF Put, Numbering
<1>7. /\ DOMAIN gen'.next_seq = DOMAIN last2 /\ gen'.next_seq[l] = seq + 1
      /\ \A k \in DOMAIN last \ {l} : gen'.next_seq[k] = gen.next_seq[k]
  BY <1>2, <1>6 DEF Put, Numbering
<1> HIDE DEF seq
<1>8. ASSUME NEW k \in DOMAIN last2
      PROVE  /\ last2[k] \in Nat /\ gen'.next_seq[k] = last2[k] + 1
             /\ \E i \in 1..(n + 1) : sent'[i].loc = k /\ sent'[i].seq = last2[k]
  <2>1. CASE k = l
    <3>1. n + 1 \in 1..(n + 1)
      BY <1>5
    <3> QED
      BY <1>1, <1>3, <1>5, <1>6, <1>7, <2>1, <3>1
  <2>2. CASE k # l
    <3>1. k \in DOMAIN last
      BY <1>6, <2>2
    <3>2. PICK i \in 1..n : sent[i].loc = k /\ sent[i].seq = last[k]
      BY <3>1 DEF Numbering
    <3>3. i \in 1..(n + 1) /\ sent'[i] = sent[i]
      BY <1>5
    <3>4. last[k] \in Nat /\ gen.next_seq[k] = last[k] + 1
      BY <3>1 DEF Numbering
    <3> QED
      BY <1>6, <1>7, <2>2, <3>1, <3>2, <3>3, <3>4
  <2> QED
    BY <2>1, <2>2
<1>9. ASSUME NEW i \in 1..n
      PROVE  /\ sent[i].loc \in DOMAIN last /\ sent[i].seq \in Nat /\ sent[i].seq <= last[sent[i].loc]
             /\ last[sent[i].loc] \in Nat
             /\ sent[i].loc = l => sent[i].seq < seq /\ sent[i].seq <= last2[l]
             /\ sent[i].seq <= last2[sent[i].loc]
  <2>1. /\ sent[i].loc \in DOMAIN last /\ sent[i].seq <= last[sent[i].loc]
        /\ last[sent[i].loc] \in Nat
    BY DEF Numbering
  <2>2. sent[i].seq \in Nat
    BY NumberSent
  <2> QED
    BY <1>1, <1>6, <2>1, <2>2
<1>10. ASSUME NEW i \in 1..(n + 1)
       PROVE  /\ sent'[i].loc \in DOMAIN last2
              /\ sent'[i].seq <= last2[sent'[i].loc]
              /\ sent'[i].seq = 1 \/ \E j \in 1..(i - 1) : /\ sent'[j].loc = sent'[i].loc
                                                           /\ sent'[j].seq = sent'[i].seq - 1
              /\ \A j \in 1..(i - 1) : sent'[j].loc = sent'[i].loc => sent'[j].seq < sent'[i].seq
  <2>1. CASE i \in 1..n
    <3>1. /\ sent'[i] = sent[i]
          /\ \A j \in 1..(i - 1) : sent'[j] = sent[j]
      BY <1>5, <2>1
    <3>2. /\ sent[i].seq = 1 \/ \E j \in 1..(i - 1) : /\ sent[j].loc = sent[i].loc
                                                     /\ sent[j].seq = sent[i].seq - 1
          /\ \A j \in 1..(i - 1) : sent[j].loc = sent[i].loc => sent[j].seq < sent[i].seq
      BY <2>1 DEF Numbering
    <3>3. sent[i].loc \in DOMAIN last2 /\ sent[i].seq <= last2[sent[i].loc]
      BY <1>6, <1>9, <2>1
    <3> HIDE DEF last2
    <3> QED
      BY <3>1, <3>2, <3>3
  <2>2. CASE i = n + 1
    <3>1. sent'[i].loc = l /\ sent'[i].seq = seq /\ i - 1 = n
      BY <1>3, <1>5, <2>2
    <3>2. \A j \in 1..n : sent'[j] = sent[j]
      BY <1>5
    <3>3. \A j \in 1..n : sent[j].loc = l => sent[j].seq < seq
      BY <1>9
    <3>4. seq = 1 \/ \E j \in 1..n : sent[j].loc = l /\ sent[j].seq = seq - 1
      <4>1. CASE l \in DOMAIN last
        <5>1. PICK j \in 1..n : sent[j].loc = l /\ sent[j].seq = last[l]
          BY <4>1 DEF Numbering
        <5>2. last[l] \in Nat
          BY <4>1 DEF Numbering
        <5> QED
          BY <1>1, <4>1, <5>1, <5>2
      <4>2. CASE l \notin DOMAIN last
        BY <1>1, <4>2
      <4> QED
        BY <4>1, <4>2
    <3>5. l \in DOMAIN last2 /\ seq <= last2[l]
      BY <1>1, <1>6
    <3> HIDE DEF last2
    <3> QED
      BY <3>1, <3>2, <3>3, <3>4, <3>5
  <2> QED
    BY <1>5, <2>1, <2>2
<1>11. Numbering'
  <2>1. DOMAIN last2 \subseteq Locates
    BY <1>6
  <2> QED
    BY <1>5, <1>7, <1>8, <1>10, <2>1 DEF Numbering
<1>12. \A k \in Locates : LastSeq(k)' = IF k = l THEN LastSeq(k) + 1 ELSE LastSeq(k)
  <2>1. \A k \in Locates : LastSeq(k)' = IF k \in DOMAIN last2 THEN last2[k] ELSE 0
    BY DEF LastSeq, Provide
  <2>2. \A k \in Locates : LastSeq(k) = IF k \in DOMAIN last THEN last[k] ELSE 0
    BY NextNumber
  <2>3. seq = LastSeq(l) + 1
    BY NextNumber DEF seq
  <2> QED
    BY <1>6, <2>1, <2>2, <2>3
<1> QED
  BY <1>5, <1>11, <1>12

\* The replay of the feed grows by the message, and neither the handler nor what
\* it has seen so far changes.
LEMMA PublishReplays ==
  ASSUME IInv, NEW l \in Locates, NEW m \in Messages, m.type = "A" => m.symbol = SymbolOf[l],
         NEW live, NEW ids, Publish(Emit(gen, l, m, live, ids))
  PROVE  InOrder'
<1> DEFINE n == Len(sent)
<1>1. /\ n \in Nat /\ Len(sent') = n + 1 /\ sent'[n + 1] = Outgoing(l, m)
      /\ \A i \in 1..n : sent'[i] = sent[i]
  BY PublishNumbers DEF IInv
<1>2. shadow'.db = apply(shadow.db, m).db /\ h' = h /\ inOrder' = inOrder
  BY Emission
<1>3. PICK f : /\ Replay(f, sent, shadow.db)
               /\ inOrder # OutOfOrder => h.db = f[inOrder] /\ CursorsAfter(inOrder)
  BY DEF IInv, InOrder
<1> DEFINE g == [i \in 0..(n + 1) |-> IF i = n + 1 THEN shadow'.db ELSE f[i]]
<1>4. g[n + 1] = shadow'.db /\ \A i \in 0..n : g[i] = f[i]
  BY <1>1
<1>5. Replay(g, sent', shadow'.db)
  <2>1. g[0] = EmptyDepthBook(Depth)
    BY <1>1, <1>3, <1>4 DEF Replay
  <2>2. ASSUME NEW i \in 1..(n + 1)
        PROVE  g[i] = apply(g[i - 1], sent'[i].frame).db
    <3>1. CASE i \in 1..n
      <4>1. i - 1 \in 0..n /\ i \in 0..n
        BY <1>1, <3>1
      <4>2. f[i] = apply(f[i - 1], sent[i].frame).db
        BY <3>1, <1>3 DEF Replay
      <4> QED
        BY <1>1, <1>4, <3>1, <4>1, <4>2
    <3>2. CASE i = n + 1
      <4>1. i - 1 = n /\ n \in 0..n
        BY <1>1, <3>2
      <4>2. g[i - 1] = shadow.db
        BY <1>3, <1>4, <4>1 DEF Replay
      <4>3. sent'[i].frame = m
        BY <1>1, <3>2 DEF Outgoing
      <4> QED
        BY <1>2, <1>4, <3>2, <4>2, <4>3
    <3> QED
      BY <1>1, <3>1, <3>2
  <2> HIDE DEF g
  <2> QED
    BY <1>1, <1>4, <2>1, <2>2 DEF Replay
<1>6. inOrder # OutOfOrder => h'.db = g[inOrder] /\ CursorsAfter(inOrder)'
  <2> SUFFICES ASSUME inOrder # OutOfOrder
               PROVE  h'.db = g[inOrder] /\ CursorsAfter(inOrder)'
    OBVIOUS
  <2>1. inOrder \in 0..n
    BY <1>1 DEF IInv, History, OutOfOrder
  <2>2. \A i \in 1..inOrder : sent'[i] = sent[i]
    BY <1>1, <2>1
  <2>3. CursorsAfter(inOrder)'
    BY <1>2, <1>3, <2>2 DEF CursorsAfter
  <2> QED
    BY <1>2, <1>3, <1>4, <2>1, <2>3
<1> HIDE DEF g
<1> QED
  BY <1>2, <1>5, <1>6 DEF InOrder

\* What a publisher's step comes to: a message the shadow mirrors.
LEMMA PublishStep ==
  ASSUME IInv, NEW l \in Locates, NEW m \in Messages, m.type = "A" => m.symbol = SymbolOf[l],
         NEW live, NEW ids \in {1, 2}, Publish(Emit(gen, l, m, live, ids)),
         IsMap(live, 1..(gen.next_order_id + ids - 1), Resting),
         Mirrors(apply(shadow.db, m).db, live)
  PROVE  IInv' /\ fresh' = {} /\ h' = h
<1>1. /\ Len(sent) < MaxMessages /\ gen'.live = live
      /\ gen'.next_order_id = gen.next_order_id + ids
      /\ shadow'.db = apply(shadow.db, m).db
      /\ fresh' = {} /\ h' = h /\ inOrder' = inOrder /\ whole' = whole
  BY Emission
<1>2. /\ Numbering'
      /\ Len(sent) \in Nat /\ Len(sent') = Len(sent) + 1
      /\ \A k \in Locates : LastSeq(k)' = IF k = l THEN LastSeq(k) + 1 ELSE LastSeq(k)
  BY PublishNumbers DEF IInv
<1>3. Generator'
  <2>1. gen.next_order_id \in Nat /\ gen.next_order_id >= 1
        /\ gen.next_order_id <= 1 + 2 * Len(sent)
    BY <1>2 DEF IInv, Generator
  <2>2. gen.next_order_id + ids \in 1..(1 + 2 * (Len(sent) + 1))
    BY <1>2, <2>1
  <2>3. Len(sent) + 1 <= MaxMessages
    BY <1>1, <1>2, GapFillAssumption
  <2>4. gen'.next_order_id \in 1..(1 + 2 * Len(sent')) /\ Len(sent') <= MaxMessages
    BY <1>1, <1>2, <2>2, <2>3
  <2>5. IsMap(gen'.live, 1..(gen'.next_order_id - 1), Resting)
    <3>1. gen'.next_order_id - 1 = gen.next_order_id + ids - 1
      BY <1>1, <2>1
    <3> QED
      BY <1>1, <3>1
  <2> QED
    BY <2>4, <2>5 DEF Generator
<1>4. Mirror'
  BY <1>1 DEF Mirror
<1>5. Handler'
  <2>1. IsHandler(h) /\ DbShape(h.db, Symbols) /\ DOMAIN h.gap \subseteq Locates
    BY DEF IInv, Handler
  <2>2. ASSUME NEW k \in DOMAIN h.gap
        PROVE  h.gap[k] \in 1..(LastSeq(k)' + 1)
    <3>1. h.gap[k] \in 1..(LastSeq(k) + 1) /\ k \in Locates
      BY <2>1 DEF IInv, Handler
    <3>2. LastSeq(k) \in Nat
      <4>1. Numbering
        BY DEF IInv
      <4>2. k \in DOMAIN shadow.last_seq => shadow.last_seq[k] \in Nat
        BY <4>1 DEF Numbering
      <4> QED
        BY <3>1, <4>1, <4>2, NextNumber
    <3> QED
      BY <1>2, <3>1, <3>2
  <2> QED
    BY <1>1, <2>1, <2>2 DEF Handler
<1>6. History'
  BY <1>1, <1>2 DEF IInv, History, OutOfOrder
<1>7. InOrder'
  BY PublishReplays
<1> QED
  BY <1>1, <1>2, <1>3, <1>4, <1>5, <1>6, <1>7 DEF IInv

\* The quantities of new orders are those of the domain.
LEMMA LotsAreQuantities == Lots \subseteq Quantities \ {0}
  BY GapFillAssumption, DomainAssumption DEF Quantities

\* Each kind of message is applied to the shadow as the generator accounts for it.
LEMMA AddPublished == IInv /\ PublishAdd => IInv' /\ fresh' = {} /\ h' = h
<1> SUFFICES ASSUME IInv, NEW l \in Locates, NEW s \in Side, NEW p \in Prices, NEW q \in Lots,
                    Publish(gen_add(gen, l, SymbolOf[l], s, p, q))
             PROVE  IInv' /\ fresh' = {} /\ h' = h
  BY DEF PublishAdd
<1> DEFINE id == gen.next_order_id
           m == AddMsg("A", SymbolOf[l], id, s, p, q)
           live == Put(gen.live, id, LiveOrder(l, s, p, q))
<1>0. Generator /\ Numbering /\ Mirror
  BY DEF IInv
<1>1. Publish(Emit(gen, l, m, live, 1)) /\ Len(sent) < MaxMessages
  BY DEF gen_add, Publish
<1>2. id \in PublicIds /\ id \in OrderIds \ LiveIds /\ q \in Quantities \ {0}
  BY <1>0, <1>1, NextIds, PublicIdsAreOrderIds, LotsAreQuantities
<1>3. m \in Messages /\ m.type = "A" /\ m.symbol = SymbolOf[l]
  BY <1>2 DEF AddMsg, Messages, Symbols
<1>4. IsMap(live, 1..(id + 1 - 1), Resting)
  <2>1. LiveOrder(l, s, p, q) \in Resting
    BY <1>2 DEF LiveOrder, Resting
  <2>2. id \in Nat /\ id >= 1
    BY <1>0 DEF Generator
  <2>3. IsMap(gen.live, 1..(id - 1), Resting)
    BY <1>0 DEF Generator
  <2> HIDE DEF id
  <2> QED
    BY <2>1, <2>2, <2>3 DEF IsMap, Put
<1>5. Mirrors(apply(shadow.db, m).db, live)
  BY <1>0, <1>2, AddMirrored
<1> HIDE DEF m, live
<1> QED
  BY <1>1, <1>3, <1>4, <1>5, PublishStep

\* An execution or cancel takes the same shares from both.
LEMMA ReducePublished == IInv /\ PublishReduce => IInv' /\ fresh' = {} /\ h' = h
<1> SUFFICES ASSUME IInv, NEW l \in Locates, NEW type \in ReduceTypes, NEW id \in LiveIds,
                    NEW q \in 1..gen.live[id].qty,
                    Publish(gen_reduce(gen, l, type, id, q))
             PROVE  IInv' /\ fresh' = {} /\ h' = h
  BY DEF PublishReduce
<1> DEFINE m == ReduceMsg(type, id, q)
           live == Reduced(gen.live, id, q)
           o == gen.live[id]
<1>0. Generator /\ Numbering /\ Mirror
  BY DEF IInv
<1>1. Publish(Emit(gen, l, m, live, 1)) /\ Len(sent) < MaxMessages
  BY DEF gen_reduce, Publish
<1>2. id \in PublicIds /\ id \in OrderIds /\ type \in {"X", "E"} /\ o \in Resting
  BY <1>0, <1>1, NextIds, PublicIdsAreOrderIds, GapFillAssumption, MirroredOrder
<1>3. q \in Quantities \ {0}
  BY <1>2, DomainAssumption DEF Resting, Quantities
<1>4. m \in Messages /\ m.type # "A"
  BY <1>2, <1>3 DEF ReduceMsg, Messages
<1>5. IsMap(live, 1..(gen.next_order_id + 1 - 1), Resting)
  <2> DEFINE o2 == [o EXCEPT !.qty = @ - q]
  <2>1. o2 \in Resting \/ q >= o.qty
    BY <1>2, <1>3, DomainAssumption DEF Resting, Quantities
  <2>2. gen.next_order_id \in Nat /\ gen.next_order_id >= 1
        /\ IsMap(gen.live, 1..(gen.next_order_id - 1), Resting)
    BY <1>0 DEF Generator
  <2>3. live = IF q >= o.qty THEN Erase(gen.live, id) ELSE Put(gen.live, id, o2)
    BY DEF Reduced
  <2>4. id \in DOMAIN gen.live
    BY DEF LiveIds
  <2> HIDE DEF o2, live, o
  <2>5. CASE q >= o.qty
    BY <2>2, <2>3, <2>5 DEF IsMap, Erase, Restrict
  <2>6. CASE ~(q >= o.qty)
    BY <2>1, <2>2, <2>3, <2>4, <2>6 DEF IsMap, Put
  <2> QED
    BY <2>5, <2>6
<1>6. Mirrors(apply(shadow.db, m).db, live)
  BY <1>0, <1>2, <1>3, ReduceMirrored
<1> HIDE DEF m, live
<1> QED
  BY <1>1, <1>4, <1>5, <1>6, PublishStep

\* A delete takes the order out of both.
LEMMA DeletePublished == IInv /\ PublishDelete => IInv' /\ fresh' = {} /\ h' = h
<1> SUFFICES ASSUME IInv, NEW l \in Locates, NEW id \in LiveIds, Publish(gen_delete(gen, l, id))
             PROVE  IInv' /\ fresh' = {} /\ h' = h
  BY DEF PublishDelete
<1> DEFINE m == DeleteMsg(id)
           live == Erase(gen.live, id)
<1>0. Generator /\ Numbering /\ Mirror
  BY DEF IInv
<1>1. Publish(Emit(gen, l, m, live, 1)) /\ Len(sent) < MaxMessages
  BY DEF gen_delete, Publish
<1>2. id \in PublicIds /\ id \in OrderIds
  BY <1>0, <1>1, NextIds, PublicIdsAreOrderIds
<1>3. m \in Messages /\ m.type # "A"
  BY <1>2 DEF DeleteMsg, Messages
<1>4. IsMap(live, 1..(gen.next_order_id + 1 - 1), Resting)
  BY <1>0 DEF Generator, IsMap, Erase, Restrict
<1>5. Mirrors(apply(shadow.db, m).db, live)
  BY <1>0, <1>2, DeleteMirrored
<1> HIDE DEF m, live
<1> QED
  BY <1>1, <1>3, <1>4, <1>5, PublishStep

\* A replacement moves the order to a new id in both.
LEMMA ReplacePublished == IInv /\ PublishReplace => IInv' /\ fresh' = {} /\ h' = h
<1> SUFFICES ASSUME IInv, NEW l \in Locates, NEW id \in LiveIds, NEW p \in Prices, NEW q \in Lots,
                    Publish(gen_replace(gen, l, id, p, q))
             PROVE  IInv' /\ fresh' = {} /\ h' = h
  BY DEF PublishReplace
<1> DEFINE new == gen.next_order_id + 1
           o == gen.live[id]
           o2 == [o EXCEPT !.price = p, !.qty = q]
           m == ReplaceMsg(id, new, p, q)
           live == Put(Erase(gen.live, id), new, o2)
<1>0. Generator /\ Numbering /\ Mirror
  BY DEF IInv
<1>1. Publish(Emit(gen, l, m, live, 2)) /\ Len(sent) < MaxMessages
  BY DEF gen_replace, Publish
<1>2. /\ id \in PublicIds /\ id \in OrderIds /\ o \in Resting /\ q \in Quantities \ {0}
      /\ new \in PublicIds /\ new \in OrderIds \ LiveIds
  BY <1>0, <1>1, NextIds, PublicIdsAreOrderIds, MirroredOrder, LotsAreQuantities
<1>3. m \in Messages /\ m.type # "A"
  BY <1>2 DEF ReplaceMsg, Messages
<1>4. IsMap(live, 1..(gen.next_order_id + 2 - 1), Resting)
  <2>1. o2 \in Resting
    BY <1>2 DEF Resting
  <2>2. gen.next_order_id \in Nat /\ gen.next_order_id >= 1
        /\ IsMap(gen.live, 1..(gen.next_order_id - 1), Resting)
    BY <1>0 DEF Generator
  <2> HIDE DEF o2
  <2> QED
    BY <2>1, <2>2 DEF IsMap, Put, Erase, Restrict
<1>5. Mirrors(apply(shadow.db, m).db, live)
  BY <1>0, <1>2, ReplaceMirrored
<1> HIDE DEF m, live
<1> QED
  BY <1>1, <1>3, <1>4, <1>5, PublishStep

-----------------------------------------------------------------------------
(***************************************************************************)
(* The network and the handler.                                            *)
(***************************************************************************)

\* What the requester brings is the shadow, which is never behind a datagram.
LEMMA AnswerOf ==
  ASSUME NEW l, NEW answer \in Answers(l)
  PROVE  \/ answer.kind = "refused"
         \/ answer.kind = "recovered" /\ answer.snap = Provide(l)
  BY DEF Answers, Refused, Recovered

\* The snapshot the provider gives.
LEMMA Provided ==
  ASSUME Numbering, NEW l \in Locates
  PROVE  /\ Provide(l).stock_locate = l /\ Provide(l).symbol = SymbolOf[l]
         /\ Provide(l).symbol \in Symbols
         /\ Provide(l).last_applied_seq = LastSeq(l) /\ LastSeq(l) \in Nat
         /\ Provide(l).bids = snapshot(shadow.db, SymbolOf[l]).bids
         /\ Provide(l).asks = snapshot(shadow.db, SymbolOf[l]).asks
<1>1. LastSeq(l) \in Nat
  BY DEF Numbering, LastSeq, Provide
<1> QED
  BY <1>1 DEF Provide, LastSeq, Symbols

\* The number is not the one expected, and no snapshot is installed.
Ignored(d, r) ==
  /\ ~r.installed /\ r.h = h
  /\ d.loc \in DOMAIN h.gap /\ h.gap[d.loc] # d.seq

\* It is the one expected, or the first of its locate.
Taken(d, r) ==
  /\ ~r.installed
  /\ d.loc \in DOMAIN h.gap => h.gap[d.loc] = d.seq
  /\ IsHandler(r.h)
  /\ r.h.gap = set_expected(h.gap, d.loc, d.seq + 1)
  /\ r.h.db = apply(h.db, d.frame).db

\* A gap is met by a snapshot, which holds the message that showed it.
Caught(d, r) ==
  /\ r.installed /\ r.h = apply_snapshot(h, Provide(d.loc))
  /\ d.loc \in DOMAIN h.gap /\ h.gap[d.loc] < d.seq

\* Frames of the generator decode.
LEMMA FramesDecode ==
  ASSUME NEW m \in Messages
  PROVE  /\ m # BadFrame /\ m # ShortFrame
         /\ m.type \in {"A", "X", "E", "D", "U"} /\ m.order_id \in PublicIds
<1>1. m.type \in {"A", "X", "E", "D", "U"} /\ m.order_id \in PublicIds
  BY DEF Messages
<1>2. BadFrame.type = "bad" /\ ShortFrame.type = "short"
  BY DEF BadFrame, ShortFrame
<1> QED
  BY <1>1, <1>2

\* A datagram of the generator meets one of three ends.
LEMMA Outcome ==
  ASSUME Numbering, Handler, NEW d \in Datagrams, NEW l, l = d.loc,
         d.seq <= LastSeq(l), NEW answer \in Answers(l)
  PROVE  LET r == on_datagram(h, d, answer)
         IN  Ignored(d, r) \/ Taken(d, r) \/ Caught(d, r)
<1> DEFINE obs == observe(h.gap, l, d.seq)
           r == on_datagram(h, d, answer)
<1>1. l \in Locates /\ d.seq \in Nat \ {0} /\ LastSeq(l) \in Nat
  BY Provided DEF Datagrams
<1>2. d.frame # BadFrame /\ d.frame # ShortFrame
  BY <1>1, FramesDecode DEF Datagrams
<1>3. l \in DOMAIN h.gap => h.gap[l] \in Nat
  BY <1>1 DEF Handler
<1>4. h = [db |-> h.db, gap |-> h.gap]
  BY DEF Handler, IsHandler
<1>5. answer.kind = "refused" \/ (answer.kind = "recovered" /\ answer.snap = Provide(l))
  BY AnswerOf
<1>6. r = CASE obs.verdict = "stale" -> Result(h, "stale", {}, FALSE)
            [] obs.verdict = "gap"   -> on_gap(h, d, answer)
            [] obs.verdict = "ok"    ->
                 decode_and_apply(advance([h EXCEPT !.gap = obs.expected], d.loc, d.seq), d, {}, FALSE)
  BY <1>1, <1>2 DEF on_datagram
<1> HIDE DEF r
<1>7. CASE l \in DOMAIN h.gap /\ d.seq < h.gap[l]
  <2>1. obs.verdict = "stale"
    BY <1>1, <1>3, <1>7 DEF observe
  <2>2. r = Result(h, "stale", {}, FALSE)
    BY <1>6, <2>1
  <2>3. r.h = h /\ r.installed = FALSE
    BY <2>2 DEF Result
  <2> HIDE DEF obs
  <2> QED
    BY <1>1, <1>3, <1>7, <2>3 DEF Ignored, r
<1>8. CASE l \in DOMAIN h.gap /\ d.seq > h.gap[l]
  <2>1. obs.verdict = "gap"
    BY <1>1, <1>3, <1>8 DEF observe
  <2>2. r = on_gap(h, d, answer)
    BY <1>6, <2>1
  <2>3. CASE answer.kind = "refused"
    <3>1. r = Result(h, "stalled", expected(h.gap, d.loc)..(d.seq - 1), FALSE)
      BY <2>2, <2>3 DEF on_gap
    <3>2. r.h = h /\ r.installed = FALSE
      BY <3>1 DEF Result
    <3> QED
      BY <1>1, <1>3, <1>8, <3>2 DEF Ignored, r
  <2>4. CASE answer.kind = "recovered" /\ answer.snap = Provide(l)
    <3> DEFINE g == apply_snapshot(h, answer.snap)
    <3>1. g.gap = set_expected(h.gap, l, LastSeq(l) + 1)
      BY <1>1, <2>4, Provided DEF apply_snapshot
    <3> HIDE DEF g
    <3>2. d.seq < expected(g.gap, d.loc)
      <4>1. expected(g.gap, l) = LastSeq(l) + 1
        BY <3>1, SetExpected
      <4> QED
        BY <1>1, <4>1
    <3>3. r = Result(g, "covered", expected(h.gap, d.loc)..(d.seq - 1), TRUE)
      BY <2>2, <2>4, <3>2 DEF on_gap, g
    <3>4. r.h = g /\ r.installed = TRUE
      BY <3>3 DEF Result
    <3> QED
      BY <1>1, <1>3, <1>8, <2>4, <3>4 DEF Caught, g, r
  <2> QED
    BY <1>5, <2>3, <2>4
<1>9. CASE l \in DOMAIN h.gap => h.gap[l] = d.seq
  <2> DEFINE gap == set_expected(h.gap, l, d.seq + 1)
             g == [h EXCEPT !.gap = gap]
  <2>1. obs.verdict = "ok" /\ obs.expected = gap
    BY <1>1, <1>3, <1>9 DEF observe, set_expected
  <2>2. r = decode_and_apply(advance(g, d.loc, d.seq), d, {}, FALSE)
    BY <1>6, <2>1
  <2> HIDE DEF gap
  <2>3. g = [db |-> h.db, gap |-> gap] /\ g.gap = gap /\ g.db = h.db
    BY <1>4
  <2> HIDE DEF g
  <2>4. expected(gap, d.loc) = d.seq + 1
    BY SetExpected DEF gap
  <2>5. advance(g, d.loc, d.seq) = g
    <3>1. ~(d.seq + 1 <= d.seq)
      BY <1>1
    <3> QED
      BY <2>3, <2>4, <3>1 DEF advance
  <2>6. r = Result([g EXCEPT !.db = apply(@, d.frame).db], "decoded", {}, FALSE)
    BY <1>2, <2>2, <2>5 DEF decode_and_apply
  <2>7. r.h = [db |-> apply(h.db, d.frame).db, gap |-> gap] /\ r.installed = FALSE
    BY <2>3, <2>6 DEF Result
  <2> QED
    BY <1>9, <2>7 DEF Taken, IsHandler, gap, r
<1> QED
  BY <1>1, <1>3, <1>7, <1>8, <1>9 DEF r

-----------------------------------------------------------------------------
\* Moving a cursor behind a number of its stream that was sent, or all of them.
LEMMA CursorMoved ==
  ASSUME Numbering, Handler, NEW l \in Locates, NEW n \in 1..(LastSeq(l) + 1),
         NEW gap, gap = set_expected(h.gap, l, n),
         l \in DOMAIN h.gap => h.gap[l] <= n
  PROVE  /\ DOMAIN gap \subseteq Locates
         /\ \A k \in DOMAIN gap : gap[k] \in 1..(LastSeq(k) + 1)
         /\ \A k \in Locates : expected(gap, k) >= expected(h.gap, k)
<1>1. /\ DOMAIN gap = DOMAIN h.gap \cup {l} /\ gap[l] = n
      /\ \A k \in DOMAIN h.gap : k # l => gap[k] = h.gap[k]
      /\ expected(gap, l) = n
      /\ \A k : k # l => expected(gap, k) = expected(h.gap, k)
  BY DEF set_expected, Assign, expected
<1>2. /\ DOMAIN h.gap \subseteq Locates
      /\ \A k \in DOMAIN h.gap : h.gap[k] \in 1..(LastSeq(k) + 1)
  BY DEF Handler
<1>3. \A k \in Locates : LastSeq(k) \in Nat
  BY Provided
<1>4. ASSUME NEW k \in Locates
      PROVE  expected(gap, k) >= expected(h.gap, k)
  <2>1. expected(h.gap, k) = IF k \in DOMAIN h.gap THEN h.gap[k] ELSE 0
    BY DEF expected
  <2>2. expected(h.gap, k) \in Int
    BY <1>2, <1>3, <2>1
  <2>3. k = l => expected(h.gap, k) <= n
    BY <1>3, <2>1
  <2> QED
    BY <1>1, <1>3, <2>2, <2>3
<1> QED
  BY <1>1, <1>2, <1>4

CursorsGrow == \A l \in Locates : expected(h'.gap, l) >= expected(h.gap, l)

\* A handler that does not move keeps its cursors.
LEMMA CursorsStay ==
  ASSUME Numbering, Handler, h' = h
  PROVE  CursorsGrow
<1> SUFFICES ASSUME NEW k \in Locates PROVE expected(h.gap, k) \in Int
  BY DEF CursorsGrow
<1>1. LastSeq(k) \in Nat
  BY Provided
<1>2. k \in DOMAIN h.gap => h.gap[k] \in 1..(LastSeq(k) + 1)
  BY DEF Handler
<1> QED
  BY <1>1, <1>2 DEF expected

\* Installing what the provider gives.
LEMMA InstallStep ==
  ASSUME Numbering, Handler, NEW l \in Locates, h' = apply_snapshot(h, Provide(l)),
         UNCHANGED <<gen, shadow, sent>>
  PROVE  /\ Handler' /\ CursorsGrow
         /\ Settled(l)'
         /\ \A k \in Locates : k # l /\ Settled(k) => Settled(k)'
<1> DEFINE snap == Provide(l)
           sym == SymbolOf[l]
           n == LastSeq(l) + 1
<1>1. /\ snap.stock_locate = l /\ snap.symbol = sym /\ sym \in Symbols
      /\ snap.last_applied_seq = LastSeq(l) /\ LastSeq(l) \in Nat
  BY Provided
<1>2. /\ IsHandler(h') /\ h'.gap = set_expected(h.gap, l, n)
      /\ Rebooked(h'.db, h.db, sym) /\ h'.db.books[sym] = SnapshotBook(snap)
  BY <1>1, SnapshotRebooks DEF Handler
<1>3. /\ DbShape(h'.db, Symbols) /\ sym \in DOMAIN h'.db.books
      /\ \A t \in DOMAIN h.db.books \ {sym} :
           t \in DOMAIN h'.db.books /\ h'.db.books[t] = h.db.books[t]
  BY <1>1, <1>2, RebookedShape DEF Handler
<1>4. \A k : LastSeq(k)' = LastSeq(k) /\ Provide(k)' = Provide(k)
  BY DEF LastSeq, Provide
<1>5. l \in DOMAIN h.gap => h.gap[l] <= n
  BY <1>1 DEF Handler
<1>6. n \in 1..(LastSeq(l) + 1)
  BY <1>1
<1>7. /\ DOMAIN h'.gap \subseteq Locates
      /\ \A k \in DOMAIN h'.gap : h'.gap[k] \in 1..(LastSeq(k) + 1)
      /\ CursorsGrow
  BY <1>2, <1>5, <1>6, CursorMoved DEF CursorsGrow
<1>8. Handler'
  BY <1>2, <1>3, <1>4, <1>7 DEF Handler
<1>9. /\ DOMAIN h'.gap = DOMAIN h.gap \cup {l} /\ h'.gap[l] = n
      /\ \A k \in DOMAIN h.gap : k # l => h'.gap[k] = h.gap[k]
  <2> HIDE DEF n
  <2> QED
    BY <1>2 DEF set_expected, Assign
<1>10. Settled(l)'
  BY <1>2, <1>3, <1>4, <1>9 DEF Settled
<1>11. ASSUME NEW k \in Locates, k # l, Settled(k)
       PROVE  Settled(k)'
  <2>1. SymbolOf[k] # sym
    BY <1>11, GapFillAssumption
  <2> QED
    BY <1>3, <1>4, <1>9, <1>11, <2>1 DEF Settled
<1> QED
  BY <1>7, <1>8, <1>10, <1>11

\* A message that is taken moves one cursor and changes the book of its own
\* locate's symbol, or one that holds a public id.
LEMMA TakenStep ==
  ASSUME Numbering, Handler, NEW d \in Datagrams, NEW l, l = d.loc, d.seq <= LastSeq(l),
         NEW r, Taken(d, r), h' = r.h, UNCHANGED <<gen, shadow, sent>>
  PROVE  /\ Handler' /\ CursorsGrow
         /\ \A k \in Locates :
              Settled(k) /\ Shows(SnapshotBook(Provide(k)), Provide(k)) => k # l /\ Settled(k)'
<1> DEFINE m == d.frame
           n == d.seq + 1
<1>1. l \in Locates /\ d.seq \in Nat \ {0} /\ LastSeq(l) \in Nat /\ m \in Messages
  BY Provided DEF Datagrams
<1>2. /\ IsHandler(h') /\ h'.gap = set_expected(h.gap, l, n) /\ h'.db = apply(h.db, m).db
      /\ l \in DOMAIN h.gap => h.gap[l] = d.seq
  BY DEF Taken
<1>3. /\ m.type \in {"A", "X", "E", "D", "U"} /\ m.order_id \in PublicIds
      /\ m.type = "A" => m.symbol = SymbolOf[l]
  BY <1>1, FramesDecode DEF Datagrams
<1>4. m.type \in {"A", "F"} => m.symbol \in Symbols
  BY <1>1, <1>3 DEF Symbols
<1> HIDE DEF m
<1>5. /\ DbShape(h'.db, Symbols)
      /\ \A t \in DOMAIN h.db.books :
           /\ t \in DOMAIN h'.db.books
           /\ ~Touches(h.db, m, t) => h'.db.books[t] = h.db.books[t]
  BY <1>2, <1>4, MessageLeaves DEF Handler
<1>6. \A k : LastSeq(k)' = LastSeq(k) /\ Provide(k)' = Provide(k)
  BY DEF LastSeq, Provide
<1>7. n \in 1..(LastSeq(l) + 1) /\ (l \in DOMAIN h.gap => h.gap[l] <= n)
  BY <1>1, <1>2
<1>8. /\ DOMAIN h'.gap \subseteq Locates
      /\ \A k \in DOMAIN h'.gap : h'.gap[k] \in 1..(LastSeq(k) + 1)
      /\ CursorsGrow
  BY <1>1, <1>2, <1>7, CursorMoved DEF CursorsGrow
<1>9. Handler'
  BY <1>2, <1>5, <1>6, <1>8 DEF Handler
<1>10. \A k \in DOMAIN h.gap : k # l => k \in DOMAIN h'.gap /\ h'.gap[k] = h.gap[k]
  <2> HIDE DEF n
  <2> QED
    BY <1>2 DEF set_expected, Assign
<1>11. ASSUME NEW k \in Locates, Settled(k), Shows(SnapshotBook(Provide(k)), Provide(k))
       PROVE  k # l /\ Settled(k)'
  <2> DEFINE sym == SymbolOf[k]
  <2>1. k # l
    BY <1>1, <1>2, <1>11 DEF Settled
  <2>2. sym # SymbolOf[l]
    BY <1>1, <2>1, GapFillAssumption
  <2>3. sym \in DOMAIN h.db.books /\ h.db.books[sym] = SnapshotBook(Provide(k))
    BY <1>11 DEF Settled
  <2>4. \A id \in DOMAIN h.db.books[sym].orders : id >= SyntheticBase
    BY <1>11, <2>3 DEF Shows
  <2>5. m.order_id \notin DOMAIN h.db.books[sym].orders
    <3>1. m.order_id < SyntheticBase /\ m.order_id \in Nat
      BY <1>3, PublicIdsAreOrderIds DEF PublicIds
    <3> QED
      BY <2>4, <3>1, SyntheticBaseAssumption
  <2>6. ~Touches(h.db, m, sym)
    BY <1>3, <2>2, <2>5 DEF Touches, Routed, has_order
  <2> QED
    BY <1>5, <1>6, <1>10, <1>11, <2>1, <2>3, <2>6 DEF Settled
<1> QED
  BY <1>8, <1>9, <1>11

\* The book that is installed shows what the provider gave.
LEMMA ProvidedShows ==
  ASSUME Numbering, Mirror, NoWrap, NEW l \in Locates
  PROVE  Shows(SnapshotBook(Provide(l)), Provide(l))
<1> DEFINE sym == SymbolOf[l]
           b == shadow.db.books[sym]
<1>1. \A s \in Side : GoodLevels(s, << >>)
  BY DEF GoodLevels
<1>2. CASE sym \in DOMAIN shadow.db.books
  <2>1. Sound(b)
    BY <1>2 DEF Mirror, Mirrors, Books
  <2>2. Provide(l).bids = b.top["Buy"] /\ Provide(l).asks = b.top["Sell"]
    BY <1>2 DEF Provide, snapshot
  <2> QED
    BY <2>1, <2>2, SoundShowsGood, SnapshotShows DEF Side
<1>3. CASE sym \notin DOMAIN shadow.db.books
  <2>1. Provide(l).bids = << >> /\ Provide(l).asks = << >>
    BY <1>3 DEF Provide, snapshot
  <2> QED
    BY <1>1, <2>1, SnapshotShows DEF Side
<1> QED
  BY <1>2, <1>3

\* In an in-order delivery the next datagram is the one expected.
LEMMA NextIsExpected ==
  ASSUME Numbering, Handler, NEW i \in 1..Len(sent), CursorsAfter(i - 1),
         sent[i].loc \in DOMAIN h.gap
  PROVE  h.gap[sent[i].loc] = sent[i].seq
<1> DEFINE l == sent[i].loc
<1>1. sent[i].seq \in Nat \ {0} /\ Len(sent) \in Nat
  <2>1. Len(sent) \in Nat
    BY DEF Numbering
  <2> QED
    BY <2>1, NumberSent
<1>2. PICK j \in 1..(i - 1) : sent[j].loc = l /\ h.gap[l] = sent[j].seq + 1
  BY DEF CursorsAfter
<1>3. j \in 1..Len(sent) /\ sent[j].seq \in Nat \ {0} /\ sent[j].seq < sent[i].seq
  <2>1. j \in 1..Len(sent)
    BY <1>1
  <2>2. sent[j].seq < sent[i].seq
    BY <1>2 DEF Numbering
  <2> QED
    BY <2>1, <2>2, NumberSent
<1>4. PICK k \in 1..(i - 1) : sent[k].loc = l /\ sent[k].seq = sent[i].seq - 1
  <2>1. sent[i].seq # 1
    BY <1>1, <1>3
  <2> QED
    BY <2>1 DEF Numbering
<1>5. sent[k].seq < h.gap[l]
  BY <1>4 DEF CursorsAfter
<1> QED
  BY <1>1, <1>2, <1>3, <1>4, <1>5

\* So it is taken, and the cursors are behind it too.
LEMMA InOrderTaken ==
  ASSUME Numbering, Handler, NEW i \in 1..Len(sent), CursorsAfter(i - 1),
         NEW r, Ignored(sent[i], r) \/ Taken(sent[i], r) \/ Caught(sent[i], r),
         h' = r.h, UNCHANGED sent
  PROVE  Taken(sent[i], r) /\ CursorsAfter(i)'
<1> DEFINE d == sent[i]
           l == d.loc
           n == d.seq + 1
<1>1. /\ Len(sent) \in Nat /\ i \in Nat
      /\ \A j \in 1..Len(sent) : sent[j].loc \in Locates /\ sent[j].seq \in Nat \ {0}
  <2>1. Len(sent) \in Nat
    BY DEF Numbering
  <2> QED
    BY <2>1, NumberSent
<1>2. l \in DOMAIN h.gap => h.gap[l] = d.seq
  BY NextIsExpected
<1>3. Taken(d, r)
  BY <1>1, <1>2 DEF Ignored, Caught
<1> HIDE DEF d, l, n
<1>4. /\ DOMAIN h'.gap = DOMAIN h.gap \cup {l} /\ h'.gap[l] = n
      /\ \A k \in DOMAIN h.gap : k # l => h'.gap[k] = h.gap[k]
  BY <1>3 DEF Taken, set_expected, Assign, l, n
<1>5. 1..i = (1..(i - 1)) \cup {i}
  BY <1>1
<1>6. ASSUME NEW k \in DOMAIN h'.gap
      PROVE  \E j \in 1..i : sent[j].loc = k /\ h'.gap[k] = sent[j].seq + 1
  <2>1. CASE k = l
    BY <1>4, <1>5, <2>1 DEF d, l, n
  <2>2. CASE k # l
    <3>1. k \in DOMAIN h.gap /\ h'.gap[k] = h.gap[k]
      BY <1>4, <2>2
    <3> QED
      BY <1>5, <3>1 DEF CursorsAfter
  <2> QED
    BY <2>1, <2>2
<1>7. ASSUME NEW j \in 1..i
      PROVE  sent[j].loc \in DOMAIN h'.gap /\ sent[j].seq < h'.gap[sent[j].loc]
  <2>1. d.seq \in Nat /\ d.seq < n
    BY <1>1 DEF d, n
  <2>2. CASE j = i
    BY <1>4, <2>1, <2>2 DEF d, l
  <2>3. CASE j # i
    <3>1. j \in 1..(i - 1) /\ j \in 1..Len(sent) /\ sent[j].seq \in Nat
      BY <1>1, <1>5, <2>3
    <3>2. sent[j].loc \in DOMAIN h.gap /\ sent[j].seq < h.gap[sent[j].loc]
      BY <3>1 DEF CursorsAfter
    <3>3. CASE sent[j].loc = l
      <4>1. h.gap[l] = d.seq
        BY <1>2, <3>2, <3>3
      <4>2. sent[j].seq < n
        BY <2>1, <3>1, <3>2, <3>3, <4>1 DEF n
      <4> QED
        BY <1>4, <3>3, <4>2
    <3>4. CASE sent[j].loc # l
      BY <1>4, <3>2, <3>4
    <3> QED
      BY <3>3, <3>4
  <2> QED
    BY <2>2, <2>3
<1> QED
  BY <1>3, <1>6, <1>7 DEF CursorsAfter, d

\* Converged: what a snapshot was installed for since the last message is settled.
Converged == \A l \in fresh : Settled(l)

\* A datagram, whichever it is and whatever the requester answers.
LEMMA DeliverStep ==
  IInv /\ Deliver => IInv' /\ CursorsGrow /\ (NoWrap /\ Converged => Converged')
<1> SUFFICES ASSUME IInv, NEW i \in 1..Len(sent), NEW answer \in Answers(sent[i].loc),
                    LET r == on_datagram(h, sent[i], answer)
                    IN  /\ h' = r.h
                        /\ whole' = IF r.installed \/ (sent[i].seq = 1 /\ sent[i].loc \notin DOMAIN h.gap)
                                    THEN whole \cup {sent[i].loc} ELSE whole
                        /\ fresh' = IF r.installed THEN fresh \cup {sent[i].loc} ELSE fresh,
                    inOrder' = IF inOrder = i - 1 THEN i ELSE OutOfOrder,
                    UNCHANGED <<gen, shadow, sent>>
             PROVE  IInv' /\ CursorsGrow /\ (NoWrap /\ Converged => Converged')
  BY DEF Deliver
<1>0. PICK d : d = sent[i]
  OBVIOUS
<1>10. PICK r : r = on_datagram(h, d, answer)
  OBVIOUS
<1> DEFINE l == d.loc
<1>1. Generator /\ Numbering /\ Mirror /\ Handler /\ History /\ InOrder
  BY DEF IInv
<1>2. d \in Datagrams /\ l \in Locates /\ d.seq <= LastSeq(l) /\ d.seq \in Nat
  BY <1>0, <1>1, NumberSent
<1>3. Ignored(d, r) \/ Taken(d, r) \/ Caught(d, r)
  BY <1>0, <1>10, <1>1, <1>2, Outcome
<1>4. /\ h' = r.h
      /\ whole' = IF r.installed \/ (d.seq = 1 /\ l \notin DOMAIN h.gap)
                  THEN whole \cup {l} ELSE whole
      /\ fresh' = IF r.installed THEN fresh \cup {l} ELSE fresh
  BY <1>0, <1>10
<1> HIDE DEF l
<1>5. /\ Handler' /\ CursorsGrow
      /\ \A k \in Locates :
           Settled(k) /\ Shows(SnapshotBook(Provide(k)), Provide(k)) => Settled(k)'
      /\ r.installed => Settled(l)'
  <2>1. CASE Ignored(d, r)
    <3>1. h' = h /\ ~r.installed
      BY <1>4, <2>1 DEF Ignored
    <3>2. \A k : LastSeq(k)' = LastSeq(k) /\ Provide(k)' = Provide(k)
      BY DEF LastSeq, Provide
    <3>3. Handler'
      BY <1>1, <3>1, <3>2 DEF Handler
    <3>4. CursorsGrow
      BY <1>1, <3>1, CursorsStay
    <3> QED
      BY <3>1, <3>2, <3>3, <3>4 DEF Settled
  <2>2. CASE Taken(d, r)
    <3>1. ~r.installed
      BY <2>2 DEF Taken
    <3> QED
      BY <1>1, <1>2, <1>4, <2>2, <3>1, TakenStep DEF l
  <2>3. CASE Caught(d, r)
    <3>1. h' = apply_snapshot(h, Provide(l))
      BY <1>4, <2>3 DEF Caught, l
    <3> QED
      BY <1>1, <1>2, <3>1, InstallStep
  <2> QED
    BY <1>3, <2>1, <2>2, <2>3
<1>6. Generator' /\ Numbering' /\ Mirror'
  BY <1>1 DEF Generator, Numbering, Mirror
<1>7. History'
  <2>1. Len(sent) \in Nat
    BY <1>1 DEF Numbering
  <2>2. inOrder' \in OutOfOrder..Len(sent')
    BY <2>1 DEF OutOfOrder
  <2> QED
    BY <1>1, <1>2, <1>4, <2>2 DEF History
<1>8. InOrder'
  <2>1. PICK f : /\ Replay(f, sent, shadow.db)
                 /\ inOrder # OutOfOrder => h.db = f[inOrder] /\ CursorsAfter(inOrder)
    BY <1>1 DEF InOrder
  <2>2. CASE inOrder = i - 1
    <3>1. i \in Nat /\ i >= 1 /\ inOrder # OutOfOrder
      BY <1>1, <2>2 DEF Numbering, OutOfOrder
    <3>2. h.db = f[i - 1] /\ CursorsAfter(i - 1)
      BY <2>1, <2>2, <3>1
    <3>3. Taken(d, r) /\ CursorsAfter(i)'
      BY <1>0, <1>1, <1>3, <1>4, <3>2, InOrderTaken
    <3>4. h'.db = f[i]
      BY <1>0, <1>4, <2>1, <3>2, <3>3 DEF Taken, Replay
    <3>5. inOrder' = i
      BY <2>2
    <3> QED
      BY <2>1, <3>3, <3>4, <3>5 DEF InOrder
  <2>3. CASE inOrder # i - 1
    BY <2>1, <2>3 DEF InOrder
  <2> QED
    BY <2>2, <2>3
<1>9. NoWrap /\ Converged => Converged'
  <2> SUFFICES ASSUME NoWrap, Converged, NEW k \in fresh' PROVE Settled(k)'
    BY DEF Converged
  <2>1. CASE r.installed /\ k = l
    BY <1>5, <2>1
  <2>2. CASE ~(r.installed /\ k = l)
    <3>1. k \in fresh /\ k \in Locates /\ Settled(k)
      BY <1>1, <1>4, <2>2 DEF History, Converged
    <3>2. Shows(SnapshotBook(Provide(k)), Provide(k))
      BY <1>1, <3>1, ProvidedShows
    <3> QED
      BY <1>5, <3>1, <3>2
  <2> QED
    BY <2>1, <2>2
<1> QED
  BY <1>5, <1>6, <1>7, <1>8, <1>9 DEF IInv

\* A resync installs what the provider gives, gap or no gap.
LEMMA ResyncStep ==
  IInv /\ Resync => IInv' /\ CursorsGrow /\ (NoWrap /\ Converged => Converged')
<1> SUFFICES ASSUME IInv, NEW l \in Locates,
                    h' = apply_snapshot(h, Provide(l)),
                    whole' = whole \cup {l}, fresh' = fresh \cup {l}, inOrder' = OutOfOrder,
                    UNCHANGED <<gen, shadow, sent>>
             PROVE  IInv' /\ CursorsGrow /\ (Converged => Converged')
  BY DEF Resync
<1>1. Generator /\ Numbering /\ Mirror /\ Handler /\ History /\ InOrder
  BY DEF IInv
<1>2. /\ Handler' /\ CursorsGrow /\ Settled(l)'
      /\ \A k \in Locates : k # l /\ Settled(k) => Settled(k)'
  BY <1>1, InstallStep
<1>3. Generator' /\ Numbering' /\ Mirror'
  BY <1>1 DEF Generator, Numbering, Mirror
<1>4. History'
  <2>1. Len(sent) \in Nat
    BY <1>1 DEF Numbering
  <2> QED
    BY <1>1, <2>1 DEF History, OutOfOrder
<1>5. InOrder'
  BY <1>1 DEF InOrder
<1>6. Converged => Converged'
  BY <1>1, <1>2 DEF Converged, History
<1> QED
  BY <1>2, <1>3, <1>4, <1>5, <1>6 DEF IInv

-----------------------------------------------------------------------------
(***************************************************************************)
(* The invariant is inductive.                                             *)
(***************************************************************************)

\* Nothing sent, both depth books empty.
LEMMA InitInv == Init => IInv /\ Converged
<1> SUFFICES ASSUME Init PROVE IInv /\ Converged
  OBVIOUS
<1> DEFINE empty == EmptyDepthBook(Depth)
<1>1. DOMAIN EmptyMap = {} /\ EmptyMap = [x \in DOMAIN EmptyMap |-> EmptyMap[x]]
  BY DEF EmptyMap
<1>2. /\ empty = [depth |-> Depth, books |-> EmptyMap, index |-> EmptyMap]
      /\ empty.books = EmptyMap /\ empty.index = EmptyMap
  BY DEF EmptyDepthBook
<1>3. Len(sent) = 0 /\ sent = << >>
  BY DEF Init
<1>4. Generator
  BY <1>1, <1>3, GapFillAssumption DEF Init, NewGenerator, Generator, IsMap
<1>5. Numbering
  BY <1>1, <1>3 DEF Init, NewGenerator, Numbering
<1>6. Mirror
  <2>1. IsMap(EmptyMap, OrderIds, DOMAIN EmptyMap)
    BY <1>1 DEF IsMap
  <2>2. Books(empty, Symbols)
    BY <1>1, <1>2, <2>1, DomainAssumption DEF Books
  <2>3. Routes(empty)
    BY <1>1, <1>2 DEF Routes, Holds
  <2>4. Contents(empty) = Account(EmptyMap)
    BY <1>1, <1>2 DEF Contents, Account
  <2> QED
    BY <2>2, <2>3, <2>4 DEF Init, NewGenerator, Mirror, Mirrors
<1>7. Handler
  <2>1. h = [db |-> empty, gap |-> NoStreams] /\ DOMAIN NoStreams = {}
    BY DEF Init, NewHandler, NoStreams
  <2>2. DbShape(empty, Symbols)
    BY EmptyShape
  <2> HIDE DEF empty
  <2> QED
    BY <2>1, <2>2 DEF Handler, IsHandler
<1>8. History
  BY <1>3 DEF Init, History, OutOfOrder
<1>9. InOrder
  <2> DEFINE f == [i \in {0} |-> empty]
  <2>1. Replay(f, sent, shadow.db)
    BY <1>3 DEF Init, Replay
  <2>2. h.db = f[0] /\ inOrder = 0
    BY DEF Init, NewHandler
  <2>3. CursorsAfter(0)
    BY DEF Init, NewHandler, NoStreams, CursorsAfter
  <2> HIDE DEF f
  <2> QED
    BY <2>1, <2>2, <2>3 DEF InOrder
<1> QED
  BY <1>4, <1>5, <1>6, <1>7, <1>8, <1>9 DEF Init, IInv, Converged

\* One step per action; cursors never go back.
LEMMA NextInv ==
  IInv /\ [Next]_vars => IInv' /\ CursorsGrow /\ (NoWrap /\ Converged => Converged')
<1> SUFFICES ASSUME IInv, [Next]_vars
             PROVE  IInv' /\ CursorsGrow /\ (NoWrap /\ Converged => Converged')
  OBVIOUS
<1>1. ASSUME IInv' /\ fresh' = {} /\ h' = h
      PROVE  CursorsGrow /\ Converged'
  BY <1>1, CursorsStay DEF IInv, Converged
<1>2. CASE PublishAdd
  BY <1>1, <1>2, AddPublished
<1>3. CASE PublishReduce
  BY <1>1, <1>3, ReducePublished
<1>4. CASE PublishDelete
  BY <1>1, <1>4, DeletePublished
<1>5. CASE PublishReplace
  BY <1>1, <1>5, ReplacePublished
<1>6. CASE Deliver
  BY <1>6, DeliverStep
<1>7. CASE Resync
  BY <1>7, ResyncStep
<1>8. CASE UNCHANGED vars
  <2>1. /\ gen' = gen /\ shadow' = shadow /\ sent' = sent /\ h' = h /\ inOrder' = inOrder
        /\ whole' = whole /\ fresh' = fresh
    BY <1>8 DEF vars
  <2>2. Generator' /\ Numbering' /\ Mirror' /\ History'
    BY <2>1 DEF IInv, Generator, Numbering, Mirror, History
  <2>3. Handler'
    BY <2>1 DEF IInv, Handler, LastSeq, Provide
  <2>4. InOrder'
    BY <2>1 DEF IInv, InOrder, CursorsAfter
  <2>5. CursorsGrow
    BY <2>1, CursorsStay DEF IInv
  <2>6. Converged => Converged'
    BY <2>1 DEF Converged, Settled, LastSeq, Provide
  <2> QED
    BY <2>2, <2>3, <2>4, <2>5, <2>6 DEF IInv
<1> QED
  BY <1>2, <1>3, <1>4, <1>5, <1>6, <1>7, <1>8 DEF Next

\* IInv holds in every reachable state.
LEMMA Inductive == Spec => []IInv
<1>1. Init => IInv
  BY InitInv
<1>2. IInv /\ [Next]_vars => IInv'
  BY NextInv
<1> QED
  BY <1>1, <1>2, PTL DEF Spec

-----------------------------------------------------------------------------
(***************************************************************************)
(* The theorems.                                                           *)
(***************************************************************************)

\* Whatever is lost, late or repeated: the handler has books and cursors only
\* of what was sent, and the generator's orders rest on ids it has given out.
THEOREM TypeCorrect == Spec => []TypeOK
<1>1. IInv => TypeOK
  <2> SUFFICES ASSUME IInv PROVE TypeOK
    OBVIOUS
  <2>1. ASSUME NEW id \in LiveIds
        PROVE  id < gen.next_order_id /\ gen.live[id].qty > 0
    <3>1. id \in 1..(gen.next_order_id - 1) /\ gen.live[id] \in Resting
          /\ gen.next_order_id \in Nat
      BY DEF IInv, Generator, IsMap, LiveIds
    <3> QED
      BY <3>1, DomainAssumption DEF Resting, Quantities
  <2> QED
    BY <2>1 DEF IInv, Handler, DbShape, History, TypeOK
<1> QED
  BY <1>1, Inductive, PTL

\* The generator's vectors of live orders and the shadow that applies its
\* messages hold the same orders, for every sequence of messages.
THEOREM GeneratorMirrored == Spec => []GeneratorMirrorsShadow
<1>1. IInv => GeneratorMirrorsShadow
  <2> SUFFICES ASSUME IInv PROVE GeneratorMirrorsShadow
    OBVIOUS
  <2> DEFINE db == shadow.db
             entry(id) == <<SymbolOf[gen.live[id].loc], id, gen.live[id].side,
                            gen.live[id].price, gen.live[id].qty>>
             held(live) == LET o == db.books[live[1]].orders[live[2]]
                           IN  <<live[1], live[2], o.side, o.price, o.qty>>
  <2>1. Mirror /\ Generator
    BY DEF IInv
  <2>2. LiveOrders(db) = {<<db.index[id], id>> : id \in DOMAIN db.index}
    BY <2>1, RoutesPairwise DEF Mirror, Mirrors, RoutesExactly
  <2>3. DOMAIN db.index = LiveIds
    <3>1. Contents(db) = Account(gen.live)
      BY <2>1 DEF Mirror, Mirrors
    <3>2. DOMAIN Contents(db) = DOMAIN db.index /\ DOMAIN Account(gen.live) = LiveIds
      BY DEF Contents, Account, LiveIds
    <3> QED
      BY <3>1, <3>2
  <2>4. ASSUME NEW id \in LiveIds
        PROVE  held(<<db.index[id], id>>) = entry(id)
    <3>1. /\ db.index[id] = SymbolOf[gen.live[id].loc]
          /\ Contents(db)[id] = <<SymbolOf[gen.live[id].loc],
                                  OrderState(gen.live[id].side, gen.live[id].price, gen.live[id].qty)>>
      BY <2>1, MirroredOrder
    <3>2. Contents(db)[id] = <<db.index[id], db.books[db.index[id]].orders[id]>>
      BY <2>3 DEF Contents
    <3> DEFINE o == db.books[db.index[id]].orders[id]
    <3>3. o = OrderState(gen.live[id].side, gen.live[id].price, gen.live[id].qty)
      <4> DEFINE a == SymbolOf[gen.live[id].loc]
                 c == OrderState(gen.live[id].side, gen.live[id].price, gen.live[id].qty)
      <4>1. <<db.index[id], o>> = <<a, c>>
        BY <3>1, <3>2
      <4> HIDE DEF o, a, c
      <4>2. o = c
        BY <4>1
      <4> QED
        BY <4>2 DEF c
    <3>4. /\ o.side = gen.live[id].side /\ o.price = gen.live[id].price
          /\ o.qty = gen.live[id].qty
      BY <3>3 DEF OrderState
    <3>5. held(<<db.index[id], id>>) = <<db.index[id], id, o.side, o.price, o.qty>>
      OBVIOUS
    <3> HIDE DEF o
    <3> QED
      BY <3>1, <3>4, <3>5
  <2>5. {entry(id) : id \in LiveIds} = {held(live) : live \in LiveOrders(db)}
    <3> HIDE DEF held, entry
    <3>1. ASSUME NEW id \in LiveIds
          PROVE  \E live \in LiveOrders(db) : entry(id) = held(live)
      <4>1. <<db.index[id], id>> \in LiveOrders(db)
        BY <2>2, <2>3
      <4> QED
        BY <2>4, <4>1
    <3>2. ASSUME NEW live \in LiveOrders(db)
          PROVE  \E id \in LiveIds : held(live) = entry(id)
      <4>1. PICK id \in LiveIds : live = <<db.index[id], id>>
        BY <2>2, <2>3
      <4> QED
        BY <2>4, <4>1
    <3> QED
      BY <3>1, <3>2
  <2> QED
    BY <2>5 DEF GeneratorMirrorsShadow
<1> QED
  BY <1>1, Inductive, PTL

\* The index of the shadow routes exactly its live orders.
THEOREM ShadowRoutingCorrect == Spec => []ShadowRoutesExactly
<1>1. IInv => ShadowRoutesExactly
  BY RoutesPairwise DEF IInv, Mirror, Mirrors, ShadowRoutesExactly
<1> QED
  BY <1>1, Inductive, PTL

\* Neither a datagram, a recovery nor a resync moves a stream back.
THEOREM CursorNeverGoesBack == Spec => CursorNeverBack
<1>1. IInv /\ [Next]_vars => [CursorsGrow]_vars
  BY NextInv
<1> QED
  BY <1>1, Inductive, PTL DEF Spec, CursorNeverBack, CursorsGrow

\* A feed that arrives whole and in order rebuilds the very book of the shadow.
THEOREM InOrderFeedExact == Spec => []InOrderFeedIsExact
<1>1. IInv => InOrderFeedIsExact
  <2> SUFFICES ASSUME IInv, inOrder = Len(sent) PROVE h.db = shadow.db
    BY DEF InOrderFeedIsExact
  <2>1. Len(sent) \in Nat
    BY DEF IInv, Numbering
  <2>2. inOrder # OutOfOrder
    BY <2>1 DEF OutOfOrder
  <2> QED
    BY <2>2 DEF IInv, InOrder, Replay
<1> QED
  BY <1>1, Inductive, PTL

\* When no sum of quantities can wrap: while nothing new is sent, a symbol a
\* snapshot was installed for shows the levels of the shadow, whatever late,
\* repeated or reordered datagrams arrive.
THEOREM ResyncConvergent ==
  ASSUME NoWrap
  PROVE  Spec => []ResyncConverges
<1>1. Init => IInv /\ Converged
  BY InitInv
<1>2. IInv /\ Converged /\ [Next]_vars => (IInv /\ Converged)'
  BY NextInv, NoWrap
<1>3. IInv /\ Converged => ResyncConverges
  <2> SUFFICES ASSUME IInv, Converged, NEW l \in fresh
               PROVE  snapshot(h.db, SymbolOf[l]) = snapshot(shadow.db, SymbolOf[l])
    BY DEF ResyncConverges
  <2>1. l \in Locates /\ Numbering /\ Mirror
    BY DEF IInv, History
  <2>2. /\ SymbolOf[l] \in DOMAIN h.db.books
        /\ h.db.books[SymbolOf[l]] = SnapshotBook(Provide(l))
    BY DEF Converged, Settled
  <2>3. Shows(SnapshotBook(Provide(l)), Provide(l))
    BY <2>1, ProvidedShows
  <2>4. snapshot(h.db, SymbolOf[l]) = [bids |-> Provide(l).bids, asks |-> Provide(l).asks]
    BY <2>2, <2>3 DEF Shows, snapshot
  <2> QED
    BY <2>4 DEF Provide, snapshot
<1> QED
  BY <1>1, <1>2, <1>3, PTL DEF Spec
=============================================================================
