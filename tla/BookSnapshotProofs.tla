------------------------- MODULE BookSnapshotProofs -------------------------
(***************************************************************************)
(* Theorems about BookSnapshotPublisher for every set of symbols and of    *)
(* subscribers, every stride and every size of the buffers.                *)
(*                                                                         *)
(* FramesAreConsistent is not inductive: a frame is copied symbol by       *)
(* symbol, and a subscriber that lays a frame over the books it has keeps  *)
(* those of its symbols the frame does not carry.  IInv adds that the copy *)
(* under way agrees with the book, which the mutex keeps still, and that   *)
(* what a subscriber has, the frames in its buffers and what is being      *)
(* published next are one another's pasts, in this order: a symbol that is *)
(* missing from a frame was not in the frames before it.                   *)
(***************************************************************************)
EXTENDS BookSnapshotPublisher, SequenceTheorems, FiniteSetTheorems, TLAPS

Books  == [Symbols -> Nat]
Frames == [seq : Nat, books : Books]

Shape ==
  /\ book \in Books /\ past \subseteq Books /\ book \in past
  /\ pub \in [at : {"accept", "check", "lock", "copy", "send", "done"},
              todo : SUBSET Symbols, copy : Books, next : Nat \ {0}]
  /\ seq \in Nat
  /\ wire \in [Subscribers -> Seq(Frames)]
  /\ local \in [Subscribers -> [books : Books, last_seq : Nat]]

\* The mutex is where the threads are.
Locked ==
  /\ mutex = "feed" <=> feed = "apply"
  /\ mutex = "publisher" <=> pub.at = "copy"

NotAfter(a, b) == \A x \in Symbols : a[x] <= b[x]

\* The copy agrees with the book where it has been there, and stays one of its
\* pasts.
Captured ==
  /\ pub.at = "copy" => \A x \in Symbols \ pub.todo : pub.copy[x] = book[x]
  /\ pub.at = "send" => pub.copy \in past /\ NotAfter(pub.copy, book)

\* what the frame sent next is copied from
Latest == IF pub.at = "send" THEN pub.copy ELSE book

InOrder(s) ==
  /\ local[s].books \in past /\ NotAfter(local[s].books, Latest)
  /\ \A i \in 1..Len(wire[s]) :
       /\ wire[s][i].books \in past
       /\ NotAfter(local[s].books, wire[s][i].books)
       /\ NotAfter(wire[s][i].books, Latest)
       /\ \A j \in 1..i : NotAfter(wire[s][j].books, wire[s][i].books)

FramesInOrder == \A s \in Subscribers : InOrder(s)

IInv == Shape /\ Locked /\ Captured /\ FramesInOrder

-----------------------------------------------------------------------------
\* What a subscriber has and what it is sent are books.
LEMMA FramesAreBooks ==
  ASSUME Shape, NEW s \in Subscribers
  PROVE  /\ local[s] \in [books : Books, last_seq : Nat] /\ local[s].books \in Books
         /\ wire[s] \in Seq(Frames)
         /\ \A i \in 1..Len(wire[s]) : wire[s][i] \in Frames /\ wire[s][i].books \in Books
<1>1. local[s] \in [books : Books, last_seq : Nat] /\ wire[s] \in Seq(Frames)
  BY DEF Shape
<1>2. \A f \in Frames : f.books \in Books
  BY DEF Frames
<1>3. \A i \in 1..Len(wire[s]) : wire[s][i] \in Frames
  BY <1>1
<1> QED
  BY <1>1, <1>2, <1>3

\* Frames that do not change stay in order when the book only grows.
LEMMA OrderKept ==
  ASSUME Shape, Shape', FramesInOrder, UNCHANGED <<wire, local>>, past \subseteq past',
         NotAfter(Latest, Latest')
  PROVE  FramesInOrder'
<1> SUFFICES ASSUME NEW s \in Subscribers PROVE InOrder(s)'
  BY DEF FramesInOrder
<1>1. InOrder(s)
  BY DEF FramesInOrder
<1>2. Latest \in Books /\ Latest' \in Books
  BY DEF Shape, Latest
<1>3. ASSUME NEW a \in Books, NotAfter(a, Latest) PROVE NotAfter(a, Latest')
  BY <1>2, <1>3 DEF NotAfter, Books
<1>4. local[s].books \in Books /\ \A i \in 1..Len(wire[s]) : wire[s][i].books \in Books
  BY FramesAreBooks
<1>5. local'[s] = local[s] /\ wire'[s] = wire[s]
  OBVIOUS
<1>6. NotAfter(local[s].books, Latest')
  BY <1>1, <1>3, <1>4 DEF InOrder
<1>7. \A i \in 1..Len(wire[s]) : NotAfter(wire[s][i].books, Latest')
  BY <1>1, <1>3, <1>4 DEF InOrder
<1> QED
  BY <1>1, <1>5, <1>6, <1>7 DEF InOrder

\* Before the first message there is nothing to be out of order.
LEMMA InitIsOrdered == Init => IInv
<1> SUFFICES ASSUME Init PROVE IInv
  OBVIOUS
<1>1. Shape
  <2>1. Nothing \in Books /\ << >> \in Seq(Frames)
    BY DEF Nothing, Books
  <2> QED
    BY <2>1 DEF Init, Shape, Idle
<1>2. Locked /\ Captured
  BY DEF Init, Locked, Captured, Idle
<1>3. FramesInOrder
  BY <1>1 DEF Init, FramesInOrder, InOrder, NotAfter, Latest, Idle, Nothing
<1> QED
  BY <1>1, <1>2, <1>3 DEF IInv

\* The rest of a sequence that is not empty.
LEMMA TailShifts ==
  ASSUME NEW S, NEW w \in Seq(S), w # << >>
  PROVE  /\ Tail(w) \in Seq(S) /\ Len(Tail(w)) = Len(w) - 1
         /\ \A i \in 1..Len(Tail(w)) : Tail(w)[i] = w[i + 1]
  OBVIOUS

\* A value of the book is not after itself.
LEMMA SameIsNotAfter == \A a \in Books : NotAfter(a, a)
  BY DEF Books, NotAfter

-----------------------------------------------------------------------------
(***************************************************************************)
(* Each action keeps IInv.                                                 *)
(***************************************************************************)

\* The feed changes the book only under the mutex, when no copy is under way.
LEMMA FeedStep == IInv /\ (FeedLock \/ FeedApply \/ FeedNote) => IInv'
<1> SUFFICES ASSUME IInv, FeedLock \/ FeedApply \/ FeedNote PROVE IInv'
  OBVIOUS
<1>0. Shape /\ Locked /\ Captured /\ FramesInOrder
  BY DEF IInv
<1>1. CASE FeedLock \/ FeedNote
  <2>1. Shape' /\ Captured' /\ Latest' = Latest /\ past' = past /\ UNCHANGED <<wire, local>>
    BY <1>0, <1>1 DEF Shape, Captured, Latest, FeedLock, FeedNote, feedVars, pubVars
  <2>2. Locked'
    BY <1>0, <1>1 DEF Locked, FeedLock, FeedNote, pubVars
  <2>3. Latest \in Books
    BY <1>0 DEF Shape, Latest
  <2>4. FramesInOrder'
    BY <1>0, <2>1, <2>3, SameIsNotAfter, OrderKept
  <2> QED
    BY <2>1, <2>2, <2>4 DEF IInv
<1>2. CASE FeedApply
  <2>1. pub' = pub /\ seq' = seq /\ UNCHANGED <<wire, local>>
    BY <1>2 DEF FeedApply, pubVars
  <2>2. PICK s \in Symbols : book' = [book EXCEPT ![s] = @ + 1]
    BY <1>2 DEF FeedApply
  <2>3. book' \in Books /\ NotAfter(book, book')
    BY <1>0, <2>2 DEF Shape, Books, NotAfter
  <2>4. past' = past \cup {book'}
    BY <1>2 DEF FeedApply
  <2>5. Shape'
    BY <1>0, <2>1, <2>3, <2>4 DEF Shape
  <2>6. pub.at # "copy" /\ Locked'
    BY <1>0, <1>2, <2>1 DEF Locked, FeedApply
  <2>7. Captured'
    <3>1. CASE pub.at = "send"
      <4>1. pub.copy \in Books /\ book \in Books
        BY <1>0 DEF Shape
      <4>2. NotAfter(pub.copy, book')
        BY <1>0, <2>3, <3>1, <4>1 DEF Captured, NotAfter, Books
      <4> QED
        BY <1>0, <2>1, <2>4, <2>6, <3>1, <4>2 DEF Captured
    <3>2. CASE pub.at # "send"
      BY <2>1, <2>6, <3>2 DEF Captured
    <3> QED
      BY <3>1, <3>2
  <2>8. NotAfter(Latest, Latest')
    <3>1. pub.copy \in Books
      BY <1>0 DEF Shape
    <3> QED
      BY <2>1, <2>3, <3>1, SameIsNotAfter DEF Latest
  <2>9. FramesInOrder'
    BY <1>0, <2>1, <2>4, <2>5, <2>8, OrderKept
  <2> QED
    BY <2>5, <2>6, <2>7, <2>9 DEF IInv
<1> QED
  BY <1>1, <1>2

\* The publisher's steps that neither copy nor send, nor let go of the lock.
LEMMA LoopStep ==
  IInv /\ (PubExit \/ PubAccept \/ PubCheck \/ PubLock \/ PubSent) => IInv'
<1> SUFFICES ASSUME IInv, PubExit \/ PubAccept \/ PubCheck \/ PubLock \/ PubSent PROVE IInv'
  OBVIOUS
<1>0. Shape /\ Locked /\ Captured /\ FramesInOrder
  BY DEF IInv
<1>1. UNCHANGED <<book, past, feed, wire, local>>
  BY DEF PubExit, PubAccept, PubCheck, PubLock, PubSent, feedVars
<1>2. Nothing \in Books
  BY DEF Nothing, Books
<1>3. CASE PubExit \/ PubAccept \/ PubCheck
  <2>1. /\ mutex' = mutex /\ seq' = seq
        /\ pub.at \in {"accept", "check"}
        /\ \E at \in {"accept", "check", "lock", "done"} : pub' = [pub EXCEPT !.at = at]
    BY <1>3 DEF PubExit, PubAccept, PubCheck, Goto
  <2>2. Shape' /\ Locked' /\ Captured' /\ Latest' = Latest
    BY <1>0, <1>1, <2>1 DEF Shape, Locked, Captured, Latest
  <2>3. Latest \in Books
    BY <1>0 DEF Shape, Latest
  <2>4. FramesInOrder'
    BY <1>0, <1>1, <2>2, <2>3, SameIsNotAfter, OrderKept
  <2> QED
    BY <2>2, <2>4 DEF IInv
<1>4. CASE PubLock
  <2>1. Shape'
    BY <1>0, <1>1, <1>2, <1>4 DEF Shape, PubLock
  <2>2. Locked' /\ Captured' /\ Latest' = Latest
    BY <1>0, <1>1, <1>4 DEF Locked, Captured, Latest, PubLock
  <2>3. Latest \in Books
    BY <1>0 DEF Shape, Latest
  <2>4. FramesInOrder'
    BY <1>0, <1>1, <2>1, <2>2, <2>3, SameIsNotAfter, OrderKept
  <2> QED
    BY <2>1, <2>2, <2>4 DEF IInv
<1>5. CASE PubSent
  <2>1. Shape'
    BY <1>0, <1>1, <1>2, <1>5 DEF Shape, PubSent, Idle
  <2>2. Locked' /\ Captured' /\ Latest' = book /\ Latest = pub.copy
    BY <1>0, <1>1, <1>5 DEF Locked, Captured, Latest, PubSent, Idle
  <2>3. NotAfter(pub.copy, book)
    BY <1>0, <1>5 DEF Captured, PubSent
  <2>4. FramesInOrder'
    BY <1>0, <1>1, <2>1, <2>2, <2>3, OrderKept
  <2> QED
    BY <2>1, <2>2, <2>4 DEF IInv
<1> QED
  BY <1>3, <1>4, <1>5

\* While the copy is made the book stands still, so in the end they are equal.
LEMMA CopyStep == IInv /\ (PubCopy \/ PubUnlock) => IInv'
<1> SUFFICES ASSUME IInv, PubCopy \/ PubUnlock PROVE IInv'
  OBVIOUS
<1>0. Shape /\ Locked /\ Captured /\ FramesInOrder
  BY DEF IInv
<1>1. /\ UNCHANGED <<book, past, feed, wire, local, seq>> /\ pub.at = "copy"
      /\ book \in Books /\ pub.copy \in Books
  BY <1>0 DEF PubCopy, PubUnlock, feedVars, Shape
<1>2. CASE PubCopy
  <2>1. PICK s \in pub.todo : pub' = [pub EXCEPT !.todo = @ \ {s}, !.copy[s] = book[s]]
    BY <1>2 DEF PubCopy
  <2>2. pub.todo \subseteq Symbols /\ s \in Symbols
    BY <1>0 DEF Shape
  <2>3. /\ pub'.at = "copy" /\ pub'.todo = pub.todo \ {s} /\ pub'.next = pub.next
        /\ pub'.copy = [pub.copy EXCEPT ![s] = book[s]]
        /\ pub' = [at |-> pub'.at, todo |-> pub'.todo, copy |-> pub'.copy, next |-> pub'.next]
    BY <1>0, <1>1, <2>1 DEF Shape
  <2>4. book[s] \in Nat /\ pub'.copy \in Books
    BY <1>1, <2>2, <2>3 DEF Books
  <2>5. pub.next \in Nat \ {0}
    BY <1>0 DEF Shape
  <2>6. Shape'
    BY <1>0, <1>1, <2>2, <2>3, <2>4, <2>5 DEF Shape
  <2>7. Locked'
    BY <1>0, <1>1, <1>2, <2>3 DEF Locked, PubCopy
  <2>8. Captured'
    BY <1>0, <1>1, <2>2, <2>3 DEF Captured, Books
  <2>9. Latest' = Latest /\ Latest \in Books
    BY <1>1, <2>3 DEF Latest
  <2>10. FramesInOrder'
    BY <1>0, <1>1, <2>6, <2>9, SameIsNotAfter, OrderKept
  <2> QED
    BY <2>6, <2>7, <2>8, <2>10 DEF IInv
<1>3. CASE PubUnlock
  <2>1. pub.copy = book
    BY <1>0, <1>1, <1>3 DEF Captured, PubUnlock, Books
  <2>2. pub' = [pub EXCEPT !.at = "send"]
    BY <1>3 DEF PubUnlock, Goto
  <2>3. Shape'
    BY <1>0, <1>1, <2>2 DEF Shape
  <2>4. pub'.at = "send" /\ pub'.copy = pub.copy
    BY <1>0, <2>2 DEF Shape
  <2>5. Locked'
    BY <1>0, <1>1, <1>3, <2>4 DEF Locked, PubUnlock
  <2>6. Captured'
    BY <1>0, <1>1, <2>1, <2>4, SameIsNotAfter DEF Captured, Shape
  <2>7. Latest = book /\ Latest' = book
    BY <1>1, <2>1, <2>4 DEF Latest
  <2>8. FramesInOrder'
    BY <1>0, <1>1, <2>3, <2>7, SameIsNotAfter, OrderKept
  <2> QED
    BY <2>3, <2>5, <2>6, <2>8 DEF IInv
<1> QED
  BY <1>2, <1>3

\* A frame that is sent is later than all there is.
LEMMA SendStep == IInv /\ PubSend => IInv'
<1> SUFFICES ASSUME IInv, PubSend PROVE IInv'
  OBVIOUS
<1>0. Shape /\ Locked /\ Captured /\ FramesInOrder
  BY DEF IInv
<1>1. /\ UNCHANGED <<book, past, feed, mutex, seq, local>> /\ pub.at = "send"
      /\ pub.copy \in Books
  BY <1>0 DEF PubSend, feedVars, Shape
<1>2. CASE pub' = pub /\ wire' = wire
  <2>1. Shape' /\ Locked' /\ Captured' /\ Latest' = Latest /\ Latest \in Books
    BY <1>0, <1>1, <1>2 DEF Shape, Locked, Captured, Latest
  <2>2. FramesInOrder'
    BY <1>0, <1>1, <1>2, <2>1, SameIsNotAfter, OrderKept
  <2> QED
    BY <2>1, <2>2 DEF IInv
<1>3. ASSUME pub' = [pub EXCEPT !.next = @ + 1],
             NEW r, wire' = [wire EXCEPT ![r] = Append(@, Frame)]
      PROVE  IInv'
  <2>1. Frame \in Frames /\ Frame.books = pub.copy
    BY <1>0, <1>1 DEF Frame, Frames, Shape
  <2>2. /\ pub'.at = "send" /\ pub'.copy = pub.copy
        /\ pub' \in [at : {"accept", "check", "lock", "copy", "send", "done"},
                      todo : SUBSET Symbols, copy : Books, next : Nat \ {0}]
    BY <1>0, <1>1, <1>3 DEF Shape
  <2>3. ASSUME NEW s \in Subscribers
        PROVE  wire'[s] = IF s = r THEN Append(wire[s], Frame) ELSE wire[s]
    BY <1>0, <1>3 DEF Shape
  <2>4. wire' \in [Subscribers -> Seq(Frames)]
    <3>1. ASSUME NEW s \in Subscribers PROVE wire'[s] \in Seq(Frames)
      <4>1. wire[s] \in Seq(Frames)
        BY <1>0, FramesAreBooks
      <4>2. Append(wire[s], Frame) \in Seq(Frames)
        BY <2>1, <4>1
      <4> QED
        BY <2>3, <4>1, <4>2
    <3>2. wire' = [s \in Subscribers |-> wire'[s]]
      BY <1>0, <1>3 DEF Shape
    <3> QED
      BY <3>1, <3>2
  <2>5. Shape' /\ Locked' /\ Captured'
    BY <1>0, <1>1, <2>2, <2>4 DEF Shape, Locked, Captured
  <2>6. Latest = pub.copy /\ Latest' = pub.copy
    BY <1>1, <2>2 DEF Latest
  <2>7. ASSUME NEW s \in Subscribers PROVE InOrder(s)'
    <3>1. InOrder(s)
      BY <1>0 DEF FramesInOrder
    <3>2. CASE s # r
      BY <1>1, <2>3, <2>6, <3>1, <3>2 DEF InOrder
    <3>3. CASE s = r
      <4>1. wire'[s] = Append(wire[s], Frame) /\ wire[s] \in Seq(Frames)
        BY <1>0, <2>3, <3>3, FramesAreBooks
      <4>2. /\ Len(wire'[s]) = Len(wire[s]) + 1 /\ Len(wire[s]) \in Nat
            /\ wire'[s][Len(wire[s]) + 1] = Frame
            /\ \A i \in 1..Len(wire[s]) : wire'[s][i] = wire[s][i]
        BY <2>1, <4>1
      <4>3. pub.copy \in past /\ NotAfter(pub.copy, pub.copy)
        BY <1>0, <1>1, SameIsNotAfter DEF Captured
      <4>4. /\ local[s].books \in past /\ NotAfter(local[s].books, pub.copy)
            /\ \A i \in 1..Len(wire[s]) : NotAfter(wire[s][i].books, pub.copy)
        BY <2>6, <3>1 DEF InOrder
      <4>5. ASSUME NEW i \in 1..Len(wire'[s])
            PROVE  /\ wire'[s][i].books \in past
                   /\ NotAfter(local[s].books, wire'[s][i].books)
                   /\ NotAfter(wire'[s][i].books, pub.copy)
                   /\ \A j \in 1..i : NotAfter(wire'[s][j].books, wire'[s][i].books)
        <5>1. CASE i = Len(wire[s]) + 1
          <6>1. wire'[s][i].books = pub.copy
            BY <2>1, <4>2, <5>1
          <6>2. \A j \in 1..i : j = i \/ j \in 1..Len(wire[s])
            BY <4>2, <5>1
          <6>3. \A j \in 1..i : NotAfter(wire'[s][j].books, pub.copy)
            BY <4>2, <4>3, <4>4, <6>1, <6>2
          <6> QED
            BY <4>3, <4>4, <6>1, <6>3
        <5>2. CASE i \in 1..Len(wire[s])
          <6>1. \A j \in 1..i : j \in 1..Len(wire[s])
            BY <4>2, <5>2
          <6> QED
            BY <2>6, <3>1, <4>2, <5>2, <6>1 DEF InOrder
        <5> QED
          BY <4>2, <5>1, <5>2
      <4> QED
        BY <1>1, <2>6, <4>4, <4>5 DEF InOrder
    <3> QED
      BY <3>2, <3>3
  <2> QED
    BY <2>5, <2>7 DEF IInv, FramesInOrder
<1> QED
  <2>1. \/ pub' = pub /\ wire' = wire
        \/ /\ pub' = [pub EXCEPT !.next = @ + 1]
           /\ \E r : wire' = [wire EXCEPT ![r] = Append(@, Frame)]
    BY DEF PubSend
  <2> QED
    BY <1>2, <1>3, <2>1

\* A frame laid over the books a subscriber has gives the frame's books: what
\* it does not carry they did not have either.
LEMMA ReceiveStep == ASSUME NEW r \in Subscribers PROVE IInv /\ ReceiveOne(r) => IInv'
<1> SUFFICES ASSUME IInv, ReceiveOne(r) PROVE IInv'
  OBVIOUS
<1>0. Shape /\ Locked /\ Captured /\ FramesInOrder
  BY DEF IInv
<1>1. UNCHANGED <<book, past, feed, mutex, pub, seq>>
  BY DEF ReceiveOne, feedVars, pubVars
<1>2. /\ wire[r] # << >> /\ wire' = [wire EXCEPT ![r] = Tail(@)]
      /\ local' = [local EXCEPT ![r] =
           [books    |-> [sym \in Symbols |-> IF Head(wire[r]).books[sym] = 0 THEN @.books[sym]
                                              ELSE Head(wire[r]).books[sym]],
            last_seq |-> Head(wire[r]).seq]]
  BY DEF ReceiveOne
<1>3. /\ wire[r] \in Seq(Frames) /\ Len(wire[r]) \in Nat \ {0}
      /\ Head(wire[r]) = wire[r][1] /\ wire[r][1] \in Frames
      /\ wire[r][1].books \in Books /\ wire[r][1].seq \in Nat
  <2>1. wire[r] \in Seq(Frames) /\ \A i \in 1..Len(wire[r]) : wire[r][i].books \in Books
    BY <1>0, FramesAreBooks
  <2>2. Len(wire[r]) \in Nat \ {0} /\ Head(wire[r]) = wire[r][1] /\ wire[r][1] \in Frames
    BY <1>2, <2>1
  <2> QED
    BY <2>1, <2>2 DEF Frames
<1>4. local'[r] = [books |-> wire[r][1].books, last_seq |-> wire[r][1].seq]
  <2>1. InOrder(r) /\ NotAfter(local[r].books, wire[r][1].books)
    BY <1>0, <1>3 DEF FramesInOrder, InOrder
  <2>2. local[r].books \in Books
    BY <1>0, FramesAreBooks
  <2>3. \A sym \in Symbols : wire[r][1].books[sym] = 0 => local[r].books[sym] = 0
    BY <1>3, <2>1, <2>2 DEF NotAfter, Books
  <2>4. [sym \in Symbols |-> IF wire[r][1].books[sym] = 0 THEN local[r].books[sym]
                             ELSE wire[r][1].books[sym]] = wire[r][1].books
    BY <1>3, <2>3 DEF Books
  <2> QED
    BY <1>0, <1>2, <1>3, <2>4 DEF Shape
<1>5. ASSUME NEW s \in Subscribers, s # r
      PROVE  local'[s] = local[s] /\ wire'[s] = wire[s]
  BY <1>0, <1>2, <1>5 DEF Shape
<1>6. /\ wire'[r] = Tail(wire[r]) /\ wire'[r] \in Seq(Frames)
      /\ Len(wire'[r]) = Len(wire[r]) - 1
      /\ \A i \in 1..Len(wire'[r]) : wire'[r][i] = wire[r][i + 1]
  <2>1. wire'[r] = Tail(wire[r])
    BY <1>0, <1>2 DEF Shape
  <2> QED
    BY <1>2, <1>3, <2>1, TailShifts
<1>7. Shape'
  <2>1. \A s \in Subscribers : wire'[s] \in Seq(Frames)
    BY <1>0, <1>5, <1>6, FramesAreBooks
  <2>2. \A s \in Subscribers : local'[s] \in [books : Books, last_seq : Nat]
    BY <1>0, <1>3, <1>4, <1>5, FramesAreBooks
  <2>3. wire' = [s \in Subscribers |-> wire'[s]] /\ local' = [s \in Subscribers |-> local'[s]]
    BY <1>0, <1>2 DEF Shape
  <2> QED
    BY <1>0, <1>1, <2>1, <2>2, <2>3 DEF Shape
<1>8. Locked' /\ Captured' /\ Latest' = Latest
  BY <1>0, <1>1 DEF Locked, Captured, Latest
<1>9. ASSUME NEW s \in Subscribers PROVE InOrder(s)'
  <2>1. InOrder(s)
    BY <1>0 DEF FramesInOrder
  <2>2. CASE s # r
    BY <1>1, <1>5, <1>8, <2>1, <2>2 DEF InOrder
  <2>3. CASE s = r
    <3>1. ASSUME NEW i \in 1..Len(wire'[r])
          PROVE  /\ i + 1 \in 1..Len(wire[r]) /\ 1 \in 1..(i + 1)
                 /\ \A j \in 1..i : j + 1 \in 1..(i + 1) /\ j \in 1..Len(wire'[r])
      BY <1>3, <1>6
    <3>2. 1 \in 1..Len(wire[r])
      BY <1>3
    <3>3. local'[r].books = wire[r][1].books
      BY <1>4
    <3>4. local'[r].books \in past /\ NotAfter(local'[r].books, Latest)
      BY <2>1, <2>3, <3>2, <3>3 DEF InOrder
    <3>5. ASSUME NEW i \in 1..Len(wire'[r])
          PROVE  /\ wire'[r][i].books \in past
                 /\ NotAfter(local'[r].books, wire'[r][i].books)
                 /\ NotAfter(wire'[r][i].books, Latest)
                 /\ \A j \in 1..i : NotAfter(wire'[r][j].books, wire'[r][i].books)
      <4>1. /\ wire[r][i + 1].books \in past
            /\ NotAfter(wire[r][i + 1].books, Latest)
            /\ \A j \in 1..(i + 1) : NotAfter(wire[r][j].books, wire[r][i + 1].books)
        BY <2>1, <2>3, <3>1 DEF InOrder
      <4>2. wire'[r][i] = wire[r][i + 1] /\ \A j \in 1..i : wire'[r][j] = wire[r][j + 1]
        BY <1>6, <3>1
      <4> QED
        BY <3>1, <3>3, <4>1, <4>2
    <3> QED
      BY <1>1, <1>8, <2>3, <3>4, <3>5 DEF InOrder
  <2> QED
    BY <2>2, <2>3
<1> QED
  BY <1>7, <1>8, <1>9 DEF IInv, FramesInOrder

\* Connecting, departing and stop() send nothing; a departure discards.
LEMMA ConnectionStep ==
  IInv /\ ((\E s \in Subscribers : Connect(s) \/ Depart(s)) \/ StopRunning \/ StopClose \/ StopJoin)
    => IInv'
<1> SUFFICES ASSUME IInv,
                    (\E s \in Subscribers : Connect(s) \/ Depart(s))
                      \/ StopRunning \/ StopClose \/ StopJoin
             PROVE  IInv'
  OBVIOUS
<1>0. Shape /\ Locked /\ Captured /\ FramesInOrder
  BY DEF IInv
<1>1. UNCHANGED <<book, past, feed, mutex, pub, seq, local>>
  BY DEF Connect, Depart, StopRunning, StopClose, StopJoin, feedVars, pubVars, stopVars
<1>2. Locked' /\ Captured' /\ Latest' = Latest /\ Latest \in Books
  BY <1>0, <1>1 DEF Locked, Captured, Latest, Shape
<1>3. CASE wire' = wire
  <2>1. Shape'
    BY <1>0, <1>1, <1>3 DEF Shape
  <2>2. FramesInOrder'
    BY <1>0, <1>1, <1>2, <1>3, <2>1, SameIsNotAfter, OrderKept
  <2> QED
    BY <1>2, <2>1, <2>2 DEF IInv
<1>4. ASSUME NEW s \in Subscribers, wire' = [wire EXCEPT ![s] = << >>] PROVE IInv'
  <2>1. Shape'
    BY <1>0, <1>1, <1>4 DEF Shape
  <2>2. ASSUME NEW r \in Subscribers
        PROVE  InOrder(r)'
    <3>1. InOrder(r)
      BY <1>0 DEF FramesInOrder
    <3>2. CASE r = s
      <4>1. wire'[r] = << >>
        BY <1>0, <1>4, <3>2 DEF Shape
      <4> QED
        BY <1>1, <1>2, <3>1, <4>1 DEF InOrder
    <3>3. CASE r # s
      <4>1. wire'[r] = wire[r]
        BY <1>0, <1>4, <3>3 DEF Shape
      <4> QED
        BY <1>1, <1>2, <3>1, <4>1 DEF InOrder
    <3> QED
      BY <3>2, <3>3
  <2> QED
    BY <1>2, <2>1, <2>2 DEF IInv, FramesInOrder
<1> QED
  <2>1. wire' = wire \/ \E s \in Subscribers : wire' = [wire EXCEPT ![s] = << >>]
    BY DEF Connect, Depart, StopRunning, StopClose, StopJoin
  <2> QED
    BY <1>3, <1>4, <2>1

\* IInv is inductive.
LEMMA StepKeepsOrder == IInv /\ [Next]_vars => IInv'
<1>1. IInv /\ UNCHANGED vars => IInv'
  <2> SUFFICES ASSUME IInv, UNCHANGED vars PROVE IInv'
    OBVIOUS
  <2>1. UNCHANGED <<book, past, feed, mutex, pub, seq, local, wire>>
    BY DEF vars, feedVars, pubVars, stopVars
  <2> QED
    BY <2>1 DEF IInv, Shape, Locked, Captured, FramesInOrder, InOrder, Latest
<1> QED
  BY <1>1, FeedStep, LoopStep, CopyStep, SendStep, ReceiveStep, ConnectionStep DEF Next

-----------------------------------------------------------------------------
\* So it holds in every reachable state.
LEMMA AlwaysOrdered == Spec => []IInv
  BY InitIsOrdered, StepKeepsOrder, PTL DEF Spec

\* What is on the wire, or rebuilt by a subscriber, is a value the whole book
\* once had, however many symbols are copied one after the other while the feed
\* runs (capture_frame, capture_book_snapshot, receive_one).
THEOREM FramesConsistent == Spec => []FramesAreConsistent
<1>1. IInv => FramesAreConsistent
  BY DEF IInv, FramesInOrder, InOrder, FramesAreConsistent
<1> QED
  BY <1>1, AlwaysOrdered, PTL

-----------------------------------------------------------------------------
(***************************************************************************)
(* NoFrameSkipped.  NInv says what number each subscriber is to be sent    *)
(* next: the newest frame it has, read or in its buffers, is the last one  *)
(* published, but for the frame of a round that has not come to it yet.    *)
(***************************************************************************)

Newest(s) == IF wire[s] = << >> THEN local[s].last_seq ELSE wire[s][Len(wire[s])].seq

\* the number of the last frame sent to the subscriber at place i
Sent(i) ==
  IF pub.at = "copy" \/ (pub.at = "send" /\ i >= pub.next) THEN seq - 1 ELSE seq

\* The list has no subscriber twice and only connections that were accepted.
Listed ==
  /\ subs \in Seq(Subscribers)
  /\ \A i, j \in 1..Len(subs) : subs[i] = subs[j] => i = j
  /\ \A i \in 1..Len(subs) : conn[subs[i]] \in {"open", "closed"}
  /\ conn \in [Subscribers -> {"new", "waiting", "open", "closed"}]

Round ==
  /\ pub.at \in {"copy", "send"} => seq >= 1
  /\ pub.at = "copy" => pub.next = 1

UpToDate ==
  \A i \in 1..Len(subs) : conn[subs[i]] = "open" => Newest(subs[i]) \in {0, Sent(i)}

Consecutive(s) ==
  /\ \A i \in 1..Len(wire[s]) : wire[s][i].seq >= 1
  /\ \A i \in 1..(Len(wire[s]) - 1) : wire[s][i + 1].seq = wire[s][i].seq + 1
  /\ wire[s] # << >> /\ local[s].last_seq # 0 => wire[s][1].seq = local[s].last_seq + 1
  /\ conn[s] \in {"new", "waiting"} => wire[s] = << >> /\ local[s].last_seq = 0

Numbers == \A s \in Subscribers : Consecutive(s)

NInv == Listed /\ Round /\ UpToDate /\ Numbers

\* Steps that touch neither the connections nor the list keep NInv if what each
\* place was sent stays so.
LEMMA NumbersKept ==
  ASSUME NInv, UNCHANGED <<wire, local, subs, conn>>, Round',
         \A i \in 1..Len(subs) : Sent(i)' = Sent(i)
  PROVE  NInv'
<1>1. Listed' /\ Numbers'
  BY DEF NInv, Listed, Numbers, Consecutive
<1>2. \A s : Newest(s)' = Newest(s)
  BY DEF Newest
<1>3. UpToDate'
  BY <1>2 DEF NInv, UpToDate
<1> QED
  BY <1>1, <1>3 DEF NInv

\* No subscriber is in the list before the first step.
LEMMA InitIsNumbered == Init => NInv
<1> SUFFICES ASSUME Init PROVE NInv
  OBVIOUS
<1>1. Listed
  BY DEF Init, Listed
<1>2. Round
  BY DEF Init, Round, Idle
<1>3. UpToDate /\ Numbers
  BY DEF Init, UpToDate, Numbers, Consecutive
<1> QED
  BY <1>1, <1>2, <1>3 DEF NInv

\* The feed, the loop of the publisher and the beginning of stop() send nothing.
LEMMA QuietStep ==
  IInv /\ NInv /\ (\/ FeedLock \/ FeedApply \/ FeedNote
                   \/ PubExit \/ PubCheck \/ PubLock \/ PubCopy \/ PubUnlock \/ PubSent
                   \/ StopRunning \/ UNCHANGED vars) => NInv'
<1> SUFFICES ASSUME IInv, NInv,
                    \/ FeedLock \/ FeedApply \/ FeedNote
                    \/ PubExit \/ PubCheck \/ PubLock \/ PubCopy \/ PubUnlock \/ PubSent
                    \/ StopRunning \/ UNCHANGED vars
             PROVE  NInv'
  OBVIOUS
<1>0. Shape /\ Listed /\ Round
  BY DEF IInv, NInv
<1>1. UNCHANGED <<wire, local, subs, conn>>
  BY DEF FeedLock, FeedApply, FeedNote, PubExit, PubCheck, PubLock, PubCopy, PubUnlock,
         PubSent, StopRunning, vars, feedVars, pubVars, stopVars
<1>2. Len(subs) \in Nat /\ seq \in Nat /\ pub.next \in Nat
  BY <1>0 DEF Shape, Listed
<1>3. CASE FeedLock \/ FeedApply \/ FeedNote \/ StopRunning \/ UNCHANGED vars
  <2>1. pub' = pub /\ seq' = seq
    BY <1>3 DEF FeedLock, FeedApply, FeedNote, StopRunning, vars, feedVars, pubVars, stopVars
  <2> QED
    BY <1>0, <1>1, <2>1, NumbersKept DEF Round, Sent
<1>4. CASE PubExit \/ PubCheck
  <2>1. /\ seq' = seq /\ pub.at \in {"accept", "check"}
        /\ \E at \in {"accept", "lock", "done"} : pub' = [pub EXCEPT !.at = at]
    BY <1>4 DEF PubExit, PubCheck, Goto
  <2>2. pub'.at \in {"accept", "lock", "done"}
    BY <1>0, <2>1 DEF Shape
  <2> QED
    BY <1>1, <2>1, <2>2, NumbersKept DEF Round, Sent
<1>5. CASE PubLock
  <2>1. seq' = seq + 1 /\ pub.at = "lock" /\ pub'.at = "copy" /\ pub'.next = 1
    BY <1>5 DEF PubLock
  <2> QED
    BY <1>1, <1>2, <2>1, NumbersKept DEF Round, Sent
<1>6. CASE PubCopy
  <2>1. /\ seq' = seq /\ pub.at = "copy"
        /\ \E s \in pub.todo : pub' = [pub EXCEPT !.todo = @ \ {s}, !.copy[s] = book[s]]
    BY <1>6 DEF PubCopy
  <2>2. pub'.at = "copy" /\ pub'.next = pub.next
    BY <1>0, <2>1 DEF Shape
  <2> QED
    BY <1>0, <1>1, <2>1, <2>2, NumbersKept DEF Round, Sent
<1>7. CASE PubUnlock
  <2>1. seq' = seq /\ pub.at = "copy" /\ pub' = [pub EXCEPT !.at = "send"]
    BY <1>7 DEF PubUnlock, Goto
  <2>2. pub'.at = "send" /\ pub'.next = 1
    BY <1>0, <2>1 DEF Shape, Round
  <2> QED
    BY <1>0, <1>1, <1>2, <2>1, <2>2, NumbersKept DEF Round, Sent
<1>8. CASE PubSent
  <2>1. seq' = seq /\ pub.at = "send" /\ pub.next > Len(subs) /\ pub'.at = "accept"
    BY <1>8 DEF PubSent, Idle
  <2>2. \A i \in 1..Len(subs) : ~(i >= pub.next)
    BY <1>2, <2>1
  <2> QED
    BY <1>1, <2>1, <2>2, NumbersKept DEF Round, Sent
<1> QED
  BY <1>3, <1>4, <1>5, <1>6, <1>7, <1>8

\* Connections come and go without a frame being sent: a new one has none, and
\* what a departed one has does not matter.
LEMMA ComeAndGoStep ==
  IInv /\ NInv /\ (\/ \E s \in Subscribers : Connect(s) \/ Depart(s)
                   \/ StopClose \/ StopJoin) => NInv'
<1> SUFFICES ASSUME IInv, NInv,
                    \/ \E s \in Subscribers : Connect(s) \/ Depart(s)
                    \/ StopClose \/ StopJoin
             PROVE  NInv'
  OBVIOUS
<1>0. Shape /\ Listed /\ Round /\ UpToDate /\ Numbers
  BY DEF IInv, NInv
<1>1. UNCHANGED <<pub, seq, local>> /\ (subs' = subs \/ subs' = << >>)
  BY DEF Connect, Depart, StopClose, StopJoin, feedVars, pubVars, stopVars
<1>2. Round' /\ \A i : Sent(i)' = Sent(i)
  BY <1>0, <1>1 DEF Round, Sent
<1>3. \A s \in Subscribers :
        /\ conn'[s] \in {"new", "waiting", "open", "closed"}
        /\ conn'[s] \in {"new", "waiting"} => conn[s] \in {"new", "waiting"}
        /\ conn[s] \in {"open", "closed"} => conn'[s] \in {"open", "closed"}
        /\ conn'[s] = "open" => conn[s] = "open" /\ wire'[s] = wire[s]
        /\ wire'[s] = wire[s] \/ wire'[s] = << >>
  <2>1. ASSUME NEW r \in Subscribers, Connect(r) \/ Depart(r), NEW s \in Subscribers
        PROVE  /\ conn'[s] \in {"new", "waiting", "open", "closed"}
               /\ conn'[s] \in {"new", "waiting"} => conn[s] \in {"new", "waiting"}
               /\ conn[s] \in {"open", "closed"} => conn'[s] \in {"open", "closed"}
               /\ conn'[s] = "open" => conn[s] = "open" /\ wire'[s] = wire[s]
               /\ wire'[s] = wire[s] \/ wire'[s] = << >>
    BY <1>0, <2>1 DEF Connect, Depart, Listed, Shape
  <2>2. CASE StopClose \/ StopJoin
    BY <1>0, <2>2 DEF StopClose, StopJoin, Listed
  <2> QED
    BY <2>1, <2>2
<1>4. Listed'
  <2>1. conn' \in [Subscribers -> {"new", "waiting", "open", "closed"}]
    <3>1. conn' = [s \in Subscribers |-> conn'[s]]
      BY <1>0 DEF Connect, Depart, StopClose, StopJoin, Listed
    <3> QED
      BY <1>3, <3>1
  <2>2. CASE subs' = subs
    BY <1>0, <1>3, <2>1, <2>2 DEF Listed
  <2>3. CASE subs' = << >>
    BY <2>1, <2>3 DEF Listed
  <2> QED
    BY <1>1, <2>2, <2>3
<1>5. UpToDate'
  <2>1. CASE subs' = subs
    <3> SUFFICES ASSUME NEW i \in 1..Len(subs), conn'[subs[i]] = "open"
                 PROVE  Newest(subs[i])' \in {0, Sent(i)}
      BY <1>2, <2>1 DEF UpToDate
    <3>1. subs[i] \in Subscribers
      BY <1>0 DEF Listed
    <3>2. conn[subs[i]] = "open" /\ wire'[subs[i]] = wire[subs[i]]
      BY <1>3, <3>1
    <3>3. Newest(subs[i])' = Newest(subs[i])
      BY <1>1, <2>1, <3>2 DEF Newest
    <3> QED
      BY <1>0, <3>2, <3>3 DEF UpToDate
  <2>2. CASE subs' = << >>
    BY <2>2 DEF UpToDate
  <2> QED
    BY <1>1, <2>1, <2>2
<1>6. Numbers'
  <2> SUFFICES ASSUME NEW s \in Subscribers PROVE Consecutive(s)'
    BY DEF Numbers
  <2>1. Consecutive(s)
    BY <1>0 DEF Numbers
  <2>2. CASE wire'[s] = wire[s]
    BY <1>1, <1>3, <2>1, <2>2 DEF Consecutive
  <2>3. CASE wire'[s] = << >>
    BY <1>1, <1>3, <2>1, <2>3 DEF Consecutive
  <2> QED
    BY <1>3, <2>2, <2>3
<1> QED
  BY <1>2, <1>4, <1>5, <1>6 DEF NInv

\* Appending keeps what was there and is last.
LEMMA AppendIsLast ==
  ASSUME NEW S, NEW w \in Seq(S), NEW x \in S
  PROVE  /\ Append(w, x) \in Seq(S) /\ Len(w) \in Nat /\ Len(Append(w, x)) = Len(w) + 1
         /\ Append(w, x) # << >> /\ Append(w, x)[Len(w) + 1] = x
         /\ \A i \in 1..Len(w) : Append(w, x)[i] = w[i]
  OBVIOUS

\* A connection that is accepted is not in the list yet and has no frames.
LEMMA AcceptStep == IInv /\ NInv /\ PubAccept => NInv'
<1> SUFFICES ASSUME IInv, NInv, PubAccept PROVE NInv'
  OBVIOUS
<1>0. Shape /\ Listed /\ Round /\ UpToDate /\ Numbers
  BY DEF IInv, NInv
<1>1. /\ UNCHANGED <<seq, wire, local>>
      /\ pub.at = "accept" /\ pub' = [pub EXCEPT !.at = "check"]
  BY DEF PubAccept, Goto
<1>2. pub'.at = "check"
  BY <1>0, <1>1 DEF Shape
<1>3. Round' /\ \A i : Sent(i)' = Sent(i)
  BY <1>1, <1>2 DEF Round, Sent
<1>4. CASE UNCHANGED <<subs, conn>>
  BY <1>1, <1>3, <1>4, NumbersKept
<1>5. ASSUME NEW s \in Subscribers, conn[s] = "waiting", subs' = Append(subs, s),
             conn' = [conn EXCEPT ![s] = "open"]
      PROVE  NInv'
  <2>1. /\ subs' \in Seq(Subscribers) /\ Len(subs) \in Nat /\ Len(subs') = Len(subs) + 1
        /\ subs'[Len(subs) + 1] = s
        /\ \A i \in 1..Len(subs) : subs'[i] = subs[i]
    BY <1>0, <1>5, AppendIsLast DEF Listed
  <2>2. /\ conn' \in [Subscribers -> {"new", "waiting", "open", "closed"}]
        /\ conn'[s] = "open" /\ \A r \in Subscribers : r # s => conn'[r] = conn[r]
    BY <1>0, <1>5 DEF Listed
  <2>3. \A i \in 1..Len(subs) : subs[i] # s /\ subs[i] \in Subscribers
    BY <1>0, <1>5 DEF Listed
  <2>4. \A i \in 1..Len(subs') : i \in 1..Len(subs) \/ i = Len(subs) + 1
    BY <2>1
  <2>5. Listed'
    <3>1. \A i, j \in 1..Len(subs') : subs'[i] = subs'[j] => i = j
      BY <1>0, <2>1, <2>3, <2>4 DEF Listed
    <3>2. \A i \in 1..Len(subs') : conn'[subs'[i]] \in {"open", "closed"}
      <4>1. \A i \in 1..Len(subs) : conn[subs[i]] \in {"open", "closed"}
        BY <1>0 DEF Listed
      <4>2. \A i \in 1..Len(subs) : conn'[subs'[i]] = conn[subs[i]]
        BY <2>1, <2>2, <2>3
      <4>3. conn'[subs'[Len(subs) + 1]] = "open"
        BY <2>1, <2>2
      <4> QED
        BY <2>4, <4>1, <4>2, <4>3
    <3> QED
      BY <2>1, <2>2, <3>1, <3>2 DEF Listed
  <2>6. \A r : Newest(r)' = Newest(r)
    BY <1>1 DEF Newest
  <2>7. Newest(s) = 0
    BY <1>0, <1>5 DEF Numbers, Consecutive, Newest
  <2>8. UpToDate'
    <3> SUFFICES ASSUME NEW i \in 1..Len(subs'), conn'[subs'[i]] = "open"
                 PROVE  Newest(subs'[i]) \in {0, Sent(i)}
      BY <1>3, <2>6 DEF UpToDate
    <3>1. CASE i \in 1..Len(subs)
      BY <1>0, <2>1, <2>2, <2>3, <3>1 DEF UpToDate
    <3>2. CASE i = Len(subs) + 1
      BY <2>1, <2>7, <3>2
    <3> QED
      BY <2>4, <3>1, <3>2
  <2>9. Numbers'
    BY <1>0, <1>1, <2>2 DEF Numbers, Consecutive
  <2> QED
    BY <1>3, <2>5, <2>8, <2>9 DEF NInv
<1> QED
  BY <1>4, <1>5 DEF PubAccept

\* The rest of a list when one is dropped closes the gap.
LEMMA RemovedCloses ==
  ASSUME NEW S, NEW w \in Seq(S), NEW n \in 1..Len(w)
  PROVE  /\ RemoveAt(w, n) \in Seq(S) /\ Len(RemoveAt(w, n)) = Len(w) - 1
         /\ \A i \in 1..(Len(w) - 1) : RemoveAt(w, n)[i] = IF i < n THEN w[i] ELSE w[i + 1]
<1>1. Len(w) \in Nat /\ n \in Nat /\ 1 <= n /\ n <= Len(w)
  OBVIOUS
<1>2. PICK front : front = SubSeq(w, 1, n - 1)
  OBVIOUS
<1>3. PICK back : back = SubSeq(w, n + 1, Len(w))
  OBVIOUS
<1>4. /\ front \in Seq(S) /\ Len(front) = n - 1
      /\ \A i \in 1..(n - 1) : front[i] = w[i]
  <2>1. \A i \in 1..(n - 1) : w[i] \in S
    BY <1>1
  <2>2. /\ front \in Seq(S)
        /\ Len(front) = IF 1 <= n - 1 THEN n - 1 - 1 + 1 ELSE 0
        /\ \A i \in 1..(n - 1 - 1 + 1) : front[i] = w[1 + i - 1]
    BY <1>1, <1>2, <2>1, SubSeqProperties
  <2> QED
    BY <1>1, <2>2
<1>5. /\ back \in Seq(S) /\ Len(back) = Len(w) - n
      /\ \A i \in 1..(Len(w) - n) : back[i] = w[n + i]
  <2>1. \A i \in (n + 1)..Len(w) : w[i] \in S
    BY <1>1
  <2>2. /\ back \in Seq(S)
        /\ Len(back) = IF n + 1 <= Len(w) THEN Len(w) - (n + 1) + 1 ELSE 0
        /\ \A i \in 1..(Len(w) - (n + 1) + 1) : back[i] = w[n + 1 + i - 1]
    BY <1>1, <1>3, <2>1, SubSeqProperties
  <2> QED
    BY <1>1, <2>2
<1>6. RemoveAt(w, n) = front \o back
  BY <1>2, <1>3 DEF RemoveAt
<1>7. /\ front \o back \in Seq(S) /\ Len(front \o back) = Len(front) + Len(back)
      /\ \A i \in 1..(Len(front) + Len(back)) :
           (front \o back)[i] = IF i <= Len(front) THEN front[i] ELSE back[i - Len(front)]
  BY <1>4, <1>5, ConcatProperties
<1>8. ASSUME NEW i \in 1..(Len(w) - 1)
      PROVE  (front \o back)[i] = IF i < n THEN w[i] ELSE w[i + 1]
  <2>1. i \in 1..(Len(front) + Len(back)) /\ i \in Nat
    BY <1>1, <1>4, <1>5
  <2>2. CASE i < n
    <3>1. i \in 1..(n - 1) /\ i <= Len(front)
      BY <1>1, <1>4, <2>1, <2>2
    <3> QED
      BY <1>4, <1>7, <2>1, <2>2, <3>1
  <2>3. CASE ~(i < n)
    <3>1. /\ i - (n - 1) \in 1..(Len(w) - n) /\ n + (i - (n - 1)) = i + 1
          /\ ~(i <= n - 1) /\ i \in Nat
      BY <1>1, <2>3
    <3>2. (front \o back)[i] = back[i - (n - 1)]
      BY <1>4, <1>7, <2>1, <3>1
    <3>3. back[i - (n - 1)] = w[n + (i - (n - 1))]
      BY <1>5, <3>1
    <3> QED
      BY <2>3, <3>1, <3>2, <3>3
  <2> QED
    BY <2>2, <2>3
<1>9. Len(front \o back) = Len(w) - 1
  BY <1>1, <1>4, <1>5, <1>7
<1> QED
  BY <1>6, <1>7, <1>8, <1>9

\* The next in the list gets the frame of the round or leaves the list; those
\* behind it move up to its place.
LEMMA RoundStep == IInv /\ NInv /\ PubSend => NInv'
<1> SUFFICES ASSUME IInv, NInv, PubSend PROVE NInv'
  OBVIOUS
<1> PICK n : n = pub.next
  OBVIOUS
<1> PICK s : s = subs[n]
  OBVIOUS
<1>0. Shape /\ Listed /\ Round /\ UpToDate /\ Numbers
  BY DEF IInv, NInv
<1>1. /\ UNCHANGED <<seq, local, conn>> /\ pub.at = "send"
      /\ n \in 1..Len(subs) /\ s \in Subscribers
      /\ seq \in Nat /\ seq >= 1 /\ Len(subs) \in Nat
  <2>1. UNCHANGED <<seq, local, conn>> /\ pub.at = "send" /\ n <= Len(subs)
    BY DEF PubSend
  <2>2. n \in Nat \ {0} /\ Len(subs) \in Nat
    BY <1>0 DEF Shape, Listed
  <2>3. n \in 1..Len(subs)
    BY <2>1, <2>2
  <2> QED
    BY <1>0, <2>1, <2>2, <2>3 DEF Shape, Listed, Round
<1>2. CASE /\ conn[s] = "open" /\ wire' = [wire EXCEPT ![s] = Append(@, Frame)]
           /\ pub' = [pub EXCEPT !.next = @ + 1] /\ subs' = subs
  <2>1. pub'.at = "send" /\ pub'.next = n + 1
    BY <1>0, <1>1, <1>2 DEF Shape
  <2>2. /\ wire[s] \in Seq(Frames) /\ Frame \in Frames /\ Frame.seq = seq
        /\ wire'[s] = Append(wire[s], Frame)
        /\ \A r \in Subscribers : r # s => wire'[r] = wire[r]
    <3>1. Frame \in Frames /\ Frame.seq = seq
      BY <1>0, <1>1 DEF Frame, Frames, Shape
    <3>2. wire[s] \in Seq(Frames)
      BY <1>0, <1>1, FramesAreBooks
    <3> QED
      BY <1>0, <1>1, <1>2, <3>1, <3>2 DEF Shape
  <2>3. /\ Len(wire[s]) \in Nat /\ Len(wire'[s]) = Len(wire[s]) + 1 /\ wire'[s] # << >>
        /\ wire'[s][Len(wire[s]) + 1] = Frame
        /\ \A i \in 1..Len(wire[s]) : wire'[s][i] = wire[s][i]
    BY <2>2, AppendIsLast
  <2>4. Newest(s) \in {0, seq - 1} /\ Newest(s)' = seq
    <3>1. Sent(n) = seq - 1
      BY <1>1 DEF Sent
    <3>2. Newest(s) \in {0, seq - 1}
      BY <1>0, <1>1, <1>2, <3>1 DEF UpToDate
    <3>3. Newest(s)' = seq
      BY <2>2, <2>3 DEF Newest
    <3> QED
      BY <3>2, <3>3
  <2>5. Listed' /\ Round'
    BY <1>0, <1>1, <1>2, <2>1 DEF Listed, Round
  <2>6. UpToDate'
    <3> SUFFICES ASSUME NEW i \in 1..Len(subs), conn[subs[i]] = "open"
                 PROVE  Newest(subs[i])' \in {0, Sent(i)'}
      BY <1>1, <1>2 DEF UpToDate
    <3>0. pub.next = n /\ i \in Nat /\ n \in Nat
      BY <1>1
    <3>1. CASE i = n
      <4>1. Sent(i)' = seq
        BY <1>1, <2>1, <3>0, <3>1 DEF Sent
      <4>2. Newest(subs[i])' = seq
        BY <1>2, <2>4, <3>1 DEF Newest
      <4> QED
        BY <4>1, <4>2
    <3>2. CASE i # n
      <4>1. subs[i] # s /\ subs[i] \in Subscribers
        BY <1>0, <1>1, <3>2 DEF Listed
      <4>2. Newest(subs[i])' = Newest(subs[i])
        BY <1>1, <1>2, <2>2, <4>1 DEF Newest
      <4>3. Sent(i)' = Sent(i)
        BY <1>1, <2>1, <3>0, <3>2 DEF Sent
      <4> QED
        BY <1>0, <4>2, <4>3 DEF UpToDate
    <3> QED
      BY <3>1, <3>2
  <2>7. Consecutive(s)'
    <3>1. Consecutive(s) /\ local'[s] = local[s] /\ conn'[s] = "open"
      BY <1>0, <1>1, <1>2 DEF Numbers
    <3>2. \A i \in 1..Len(wire'[s]) : wire'[s][i].seq >= 1
      <4>1. \A i \in 1..Len(wire'[s]) : i \in 1..Len(wire[s]) \/ i = Len(wire[s]) + 1
        BY <2>3
      <4> QED
        BY <1>1, <2>2, <2>3, <3>1, <4>1 DEF Consecutive
    <3>3. ASSUME NEW i \in 1..(Len(wire'[s]) - 1)
          PROVE  wire'[s][i + 1].seq = wire'[s][i].seq + 1
      <4>1. CASE i \in 1..(Len(wire[s]) - 1)
        <5>1. i \in 1..Len(wire[s]) /\ i + 1 \in 1..Len(wire[s])
          BY <2>3, <4>1
        <5> QED
          BY <2>3, <3>1, <4>1, <5>1 DEF Consecutive
      <4>2. CASE i = Len(wire[s])
        <5>1. i \in 1..Len(wire[s]) /\ wire[s] # << >>
          BY <2>2, <2>3, <3>3, <4>2
        <5>2. Newest(s) = wire[s][i].seq /\ wire[s][i].seq >= 1
          BY <3>1, <4>2, <5>1 DEF Newest, Consecutive
        <5>3. wire[s][i].seq = seq - 1
          BY <2>4, <5>2
        <5> QED
          <6>1. wire'[s][i + 1].seq = seq
            BY <2>2, <2>3, <4>2
          <6>2. wire'[s][i].seq = seq - 1
            BY <2>3, <5>1, <5>3
          <6> QED
            BY <1>1, <6>1, <6>2
      <4> QED
        BY <2>3, <4>1, <4>2
    <3>4. local[s].last_seq # 0 => wire'[s][1].seq = local[s].last_seq + 1
      <4>1. CASE wire[s] = << >>
        <5>1. wire'[s][1] = Frame /\ Newest(s) = local[s].last_seq
          BY <2>3, <4>1 DEF Newest
        <5> QED
          BY <1>1, <2>2, <2>4, <5>1
      <4>2. CASE wire[s] # << >>
        <5>1. 1 \in 1..Len(wire[s])
          BY <2>2, <2>3, <4>2
        <5> QED
          BY <2>3, <3>1, <4>2, <5>1 DEF Consecutive
      <4> QED
        BY <4>1, <4>2
    <3> QED
      BY <3>1, <3>2, <3>3, <3>4 DEF Consecutive
  <2>8. Numbers'
    <3> SUFFICES ASSUME NEW r \in Subscribers, r # s PROVE Consecutive(r)'
      BY <2>7 DEF Numbers
    <3>1. wire'[r] = wire[r] /\ local'[r] = local[r] /\ conn'[r] = conn[r]
      BY <1>1, <2>2
    <3> QED
      BY <1>0, <3>1 DEF Numbers, Consecutive
  <2> QED
    BY <2>5, <2>6, <2>8 DEF NInv
<1>3. CASE subs' = RemoveAt(subs, n) /\ wire' = wire /\ pub' = pub
  <2>1. /\ subs' \in Seq(Subscribers) /\ Len(subs') = Len(subs) - 1
        /\ \A i \in 1..Len(subs') : subs'[i] = IF i < n THEN subs[i] ELSE subs[i + 1]
    <3>1. subs \in Seq(Subscribers)
      BY <1>0 DEF Listed
    <3>2. /\ RemoveAt(subs, n) \in Seq(Subscribers) /\ Len(RemoveAt(subs, n)) = Len(subs) - 1
          /\ \A i \in 1..(Len(subs) - 1) :
               RemoveAt(subs, n)[i] = IF i < n THEN subs[i] ELSE subs[i + 1]
      BY <1>1, <3>1, RemovedCloses
    <3> QED
      BY <1>3, <3>2
  <2>2. \A i \in 1..Len(subs') : i \in 1..Len(subs) /\ i + 1 \in 1..Len(subs)
    BY <1>1, <2>1
  <2>3. Listed'
    <3>1. \A i, j \in 1..Len(subs') : subs'[i] = subs'[j] => i = j
      <4> SUFFICES ASSUME NEW i \in 1..Len(subs'), NEW j \in 1..Len(subs'),
                          subs'[i] = subs'[j]
                   PROVE  i = j
        OBVIOUS
      <4>1. \A a, b \in 1..Len(subs) : subs[a] = subs[b] => a = b
        BY <1>0 DEF Listed
      <4> DEFINE Old(k) == IF k < n THEN k ELSE k + 1
      <4>2. \A k \in 1..Len(subs') : Old(k) \in 1..Len(subs) /\ subs'[k] = subs[Old(k)]
        BY <2>1, <2>2
      <4>3. Old(i) = Old(j)
        <5> HIDE DEF Old
        <5> QED
          BY <4>1, <4>2
      <4>4. i \in Int /\ j \in Int /\ n \in Int
        BY <1>1
      <4> QED
        BY <4>3, <4>4
    <3>2. \A i \in 1..Len(subs') : conn'[subs'[i]] \in {"open", "closed"}
      BY <1>0, <1>1, <2>1, <2>2 DEF Listed
    <3> QED
      BY <1>0, <1>1, <2>1, <3>1, <3>2 DEF Listed
  <2>4. UpToDate'
    <3> SUFFICES ASSUME NEW i \in 1..Len(subs'), conn[subs'[i]] = "open"
                 PROVE  Newest(subs[i])' \in {0, Sent(i)'}
      BY <1>1 DEF UpToDate
    <3>0. i \in Nat /\ n \in Nat
      BY <1>1
    <3>1. CASE i < n
      <4>1. subs'[i] = subs[i] /\ Sent(i)' = Sent(i)
        BY <1>1, <1>3, <2>1, <3>1 DEF Sent
      <4>2. Newest(subs[i])' = Newest(subs[i])
        BY <1>1, <1>3, <4>1 DEF Newest
      <4> QED
        BY <1>0, <2>2, <4>1, <4>2 DEF UpToDate
    <3>2. CASE ~(i < n)
      <4>1. subs'[i] = subs[i + 1] /\ Sent(i)' = Sent(i + 1)
        BY <1>1, <1>3, <2>1, <2>2, <3>2 DEF Sent
      <4>2. Newest(subs[i])' = Newest(subs[i + 1])
        BY <1>1, <1>3, <4>1 DEF Newest
      <4> QED
        BY <1>0, <2>2, <4>1, <4>2 DEF UpToDate
    <3> QED
      BY <3>1, <3>2
  <2>5. Round' /\ Numbers'
    BY <1>0, <1>1, <1>3 DEF Round, Numbers, Consecutive
  <2> QED
    BY <2>3, <2>4, <2>5 DEF NInv
<1> QED
  BY <1>2, <1>3 DEF PubSend

\* Reading moves the first frame from the buffers to the subscriber; the newest
\* stays what it was.
LEMMA ReadStep ==
  ASSUME NEW r \in Subscribers
  PROVE  IInv /\ NInv /\ ReceiveOne(r) =>
           NInv' /\ (local[r].last_seq # 0 => local'[r].last_seq = local[r].last_seq + 1)
                 /\ \A s \in Subscribers : s # r => local'[s] = local[s]
<1> SUFFICES ASSUME IInv, NInv, ReceiveOne(r)
             PROVE  /\ NInv'
                    /\ local[r].last_seq # 0 => local'[r].last_seq = local[r].last_seq + 1
                    /\ \A s \in Subscribers : s # r => local'[s] = local[s]
  OBVIOUS
<1>0. Shape /\ Listed /\ Round /\ UpToDate /\ Numbers
  BY DEF IInv, NInv
<1>1. /\ UNCHANGED <<pub, seq, subs, conn>>
      /\ wire[r] # << >> /\ wire' = [wire EXCEPT ![r] = Tail(@)]
      /\ \E books : local' = [local EXCEPT ![r] = [books |-> books,
                                                  last_seq |-> Head(wire[r]).seq]]
  BY DEF ReceiveOne, pubVars, stopVars
<1>2. /\ wire[r] \in Seq(Frames) /\ Len(wire[r]) \in Nat \ {0}
      /\ Head(wire[r]) = wire[r][1]
  <2>1. wire[r] \in Seq(Frames)
    BY <1>0, FramesAreBooks
  <2> QED
    BY <1>1, <2>1
<1>3. /\ wire'[r] = Tail(wire[r]) /\ wire'[r] \in Seq(Frames)
      /\ Len(wire'[r]) = Len(wire[r]) - 1
      /\ \A i \in 1..Len(wire'[r]) : wire'[r][i] = wire[r][i + 1]
  <2>1. wire'[r] = Tail(wire[r])
    BY <1>0, <1>1 DEF Shape
  <2> QED
    <3>1. \A w \in Seq(Frames) : w # << >> =>
            /\ Tail(w) \in Seq(Frames) /\ Len(Tail(w)) = Len(w) - 1
            /\ \A i \in 1..Len(Tail(w)) : Tail(w)[i] = w[i + 1]
      BY TailShifts
    <3> QED
      BY <1>1, <1>2, <2>1, <3>1
<1>4. local'[r].last_seq = wire[r][1].seq
  BY <1>0, <1>1, <1>2 DEF Shape
<1>5. \A s \in Subscribers : s # r => local'[s] = local[s] /\ wire'[s] = wire[s]
  BY <1>0, <1>1 DEF Shape
<1>6. Consecutive(r) /\ conn'[r] = conn[r] /\ conn[r] \notin {"new", "waiting"}
  BY <1>0, <1>1 DEF Numbers, Consecutive
<1>7. Newest(r)' = Newest(r)
  <2>1. Newest(r) = wire[r][Len(wire[r])].seq
    BY <1>1 DEF Newest
  <2>2. CASE Len(wire[r]) = 1
    <3>1. wire'[r] = << >>
      <4>1. \A w \in Seq(Frames) : w # << >> => Len(w) \in Nat \ {0}
        BY EmptySeq
      <4>2. Len(wire'[r]) = 0
        BY <1>3, <2>2
      <4>3. wire'[r] \in Seq(Frames)
        BY <1>3
      <4> QED
        BY <4>1, <4>2, <4>3
    <3> QED
      BY <1>4, <2>1, <2>2, <3>1 DEF Newest
  <2>3. CASE Len(wire[r]) # 1
    <3>1. Len(wire'[r]) \in 1..Len(wire'[r]) /\ wire'[r] # << >>
      <4>1. Len(wire'[r]) \in Nat \ {0}
        BY <1>2, <1>3, <2>3
      <4>2. Len(<< >>) = 0
        OBVIOUS
      <4> QED
        BY <4>1, <4>2
    <3>2. wire'[r][Len(wire'[r])] = wire[r][Len(wire[r])]
      BY <1>2, <1>3, <3>1
    <3> QED
      BY <2>1, <3>1, <3>2 DEF Newest
  <2> QED
    BY <2>2, <2>3
<1>8. Consecutive(r)'
  <2>1. \A i \in 1..Len(wire'[r]) : i + 1 \in 1..Len(wire[r])
    BY <1>2, <1>3
  <2>2. \A i \in 1..Len(wire'[r]) : wire'[r][i].seq >= 1
    BY <1>3, <1>6, <2>1 DEF Consecutive
  <2>3. ASSUME NEW i \in 1..(Len(wire'[r]) - 1)
        PROVE  wire'[r][i + 1].seq = wire'[r][i].seq + 1
    <3>1. i \in 1..Len(wire'[r]) /\ i + 1 \in 1..Len(wire'[r]) /\ i + 1 \in 1..(Len(wire[r]) - 1)
      BY <1>2, <1>3
    <3> QED
      BY <1>3, <1>6, <3>1 DEF Consecutive
  <2>4. wire'[r] # << >> => wire'[r][1].seq = local'[r].last_seq + 1
    <3> SUFFICES ASSUME wire'[r] # << >> PROVE wire'[r][1].seq = local'[r].last_seq + 1
      OBVIOUS
    <3>1. 1 \in 1..Len(wire'[r]) /\ 1 \in 1..(Len(wire[r]) - 1)
      BY <1>2, <1>3
    <3>2. wire'[r][1] = wire[r][1 + 1]
      BY <1>3, <3>1
    <3>3. wire[r][1 + 1].seq = wire[r][1].seq + 1
      BY <1>6, <3>1 DEF Consecutive
    <3> QED
      BY <1>4, <3>2, <3>3
  <2> QED
    BY <1>6, <2>2, <2>3, <2>4 DEF Consecutive
<1>9. Listed' /\ Round' /\ Numbers'
  <2>1. ASSUME NEW s \in Subscribers PROVE Consecutive(s)'
    <3>1. CASE s = r
      BY <1>8, <3>1
    <3>2. CASE s # r
      BY <1>0, <1>1, <1>5, <3>2 DEF Numbers, Consecutive
    <3> QED
      BY <3>1, <3>2
  <2> QED
    BY <1>0, <1>1, <2>1 DEF Listed, Round, Numbers
<1>10. UpToDate'
  <2> SUFFICES ASSUME NEW i \in 1..Len(subs), conn[subs[i]] = "open"
               PROVE  Newest(subs[i])' \in {0, Sent(i)}
    BY <1>1 DEF UpToDate, Sent
  <2>1. subs[i] \in Subscribers
    BY <1>0 DEF Listed
  <2>2. Newest(subs[i])' = Newest(subs[i])
    <3>1. subs' = subs
      BY <1>1
    <3>2. CASE subs[i] = r
      BY <1>7, <3>1, <3>2 DEF Newest
    <3>3. CASE subs[i] # r
      BY <1>5, <2>1, <3>1, <3>3 DEF Newest
    <3> QED
      BY <3>2, <3>3
  <2> QED
    BY <1>0, <2>2 DEF UpToDate
<1> QED
  BY <1>1, <1>4, <1>5, <1>6, <1>9, <1>10 DEF NInv, Consecutive

\* NInv is inductive relative to IInv.
LEMMA StepKeepsNumbers == IInv /\ NInv /\ [Next]_vars => NInv'
  BY QuietStep, AcceptStep, RoundStep, ComeAndGoStep, ReadStep DEF Next

\* Only reading changes what a subscriber has.
LEMMA StepSkipsNothing ==
  IInv /\ NInv /\ [Next]_vars =>
    \A s \in Subscribers :
      LET old == local[s].last_seq
          new == local'[s].last_seq
      IN  old # 0 /\ new # old => new = old + 1
<1> SUFFICES ASSUME IInv, NInv, [Next]_vars, NEW s \in Subscribers
             PROVE  local[s].last_seq # 0 /\ local'[s].last_seq # local[s].last_seq =>
                      local'[s].last_seq = local[s].last_seq + 1
  OBVIOUS
<1>1. CASE \E r \in Subscribers : ReceiveOne(r)
  BY <1>1, ReadStep
<1>2. CASE local' = local
  BY <1>2
<1>3. (\E r \in Subscribers : ReceiveOne(r)) \/ local' = local
  BY DEF Next, vars, FeedLock, FeedApply, FeedNote, PubExit, PubAccept, PubCheck, PubLock,
         PubCopy, PubUnlock, PubSend, PubSent, Connect, Depart, StopRunning, StopClose, StopJoin
<1> QED
  BY <1>1, <1>2, <1>3

\* A subscriber sees the frames published since it was accepted one after the
\* other, also when others depart in the middle of a round (run's loop over
\* subscribers_, receive_one).
THEOREM NoneSkipped == Spec => NoFrameSkipped
<1>1. Spec => [](IInv /\ NInv)
  BY InitIsOrdered, StepKeepsOrder, InitIsNumbered, StepKeepsNumbers, PTL DEF Spec
<1>2. Spec => [][Next]_vars
  BY PTL DEF Spec
<1> QED
  BY <1>1, <1>2, StepSkipsNothing, PTL DEF NoFrameSkipped

\* What waits in a subscriber's buffers, beginning with what it read last: each
\* frame is the one published after the one before it and shows no symbol as it
\* was earlier.
FramesInTurn ==
  \A s \in Subscribers :
    /\ \A i \in 1..(Len(wire[s]) - 1) :
         /\ wire[s][i + 1].seq = wire[s][i].seq + 1
         /\ NotAfter(wire[s][i].books, wire[s][i + 1].books)
    /\ wire[s] # << >> =>
         /\ local[s].last_seq # 0 => wire[s][1].seq = local[s].last_seq + 1
         /\ NotAfter(local[s].books, wire[s][1].books)

\* A connection carries its frames in the order they were published, numbered
\* without a hole, and so does not show a reader the books going back (publish
\* in run, tcp_send_all, receive_one).
THEOREM FramesOrdered == Spec => []FramesInTurn
<1>1. ASSUME IInv, NInv PROVE FramesInTurn
  <2> SUFFICES ASSUME NEW s \in Subscribers
               PROVE  /\ \A i \in 1..(Len(wire[s]) - 1) :
                           /\ wire[s][i + 1].seq = wire[s][i].seq + 1
                           /\ NotAfter(wire[s][i].books, wire[s][i + 1].books)
                      /\ wire[s] # << >> =>
                           /\ local[s].last_seq # 0 => wire[s][1].seq = local[s].last_seq + 1
                           /\ NotAfter(local[s].books, wire[s][1].books)
    BY DEF FramesInTurn
  <2>1. InOrder(s) /\ Consecutive(s)
    BY <1>1 DEF IInv, NInv, FramesInOrder, Numbers
  <2>2. Len(wire[s]) \in Nat /\ (wire[s] # << >> => 1 \in 1..Len(wire[s]))
    BY <1>1 DEF IInv, Shape
  <2>3. ASSUME NEW i \in 1..(Len(wire[s]) - 1)
        PROVE  NotAfter(wire[s][i].books, wire[s][i + 1].books)
    <3>1. i + 1 \in 1..Len(wire[s]) /\ i \in 1..(i + 1)
      BY <2>2
    <3> QED
      BY <2>1, <3>1 DEF InOrder
  <2>4. wire[s] # << >> => NotAfter(local[s].books, wire[s][1].books)
    BY <2>1, <2>2 DEF InOrder
  <2> QED
    BY <2>1, <2>3, <2>4 DEF Consecutive
<1>2. Spec => [](IInv /\ NInv)
  BY InitIsOrdered, StepKeepsOrder, InitIsNumbered, StepKeepsNumbers, PTL DEF Spec
<1> QED
  BY <1>1, <1>2, PTL

-----------------------------------------------------------------------------
(***************************************************************************)
(* TypeOK.  Beside IInv and NInv it needs Counted: the book is as far as   *)
(* the counter of note_message, but for a message applied and not counted  *)
(* yet, and no connection holds more frames than its buffers have room for.*)
(***************************************************************************)

Counted ==
  /\ IsFiniteSet(Absorbed(book)) /\ Applied(book) <= MaxMessages
  /\ feed \in {"idle", "apply", "note"}
  /\ feed = "apply" => Applied(book) < MaxMessages
  /\ msgs \in Nat /\ mark \in Nat /\ mark <= msgs
  /\ Applied(book) = msgs + IF feed = "note" THEN 1 ELSE 0

Bounded == \A s \in Subscribers : Len(wire[s]) <= SocketFrames

\* A message more is one more.
LEMMA AppliedGrows ==
  ASSUME NEW b \in Books, IsFiniteSet(Absorbed(b)), NEW x \in Symbols
  PROVE  LET c == [b EXCEPT ![x] = @ + 1]
         IN  IsFiniteSet(Absorbed(c)) /\ Applied(c) = Applied(b) + 1
<1> DEFINE c == [b EXCEPT ![x] = @ + 1]
           new == <<x, b[x] + 1>>
<1>1. /\ b[x] \in Nat /\ c[x] = b[x] + 1
      /\ \A s \in Symbols : s # x => c[s] = b[s]
  BY DEF Books
<1>2. new \notin Absorbed(b)
  BY <1>1 DEF Absorbed
<1>3. Absorbed(c) = Absorbed(b) \cup {new}
  <2>1. ASSUME NEW s \in Symbols, NEW k
        PROVE  k \in 1..c[s] <=> k \in 1..b[s] \/ (s = x /\ k = b[x] + 1)
    BY <1>1
  <2>2. \A e : e \in Absorbed(c) <=> \E s \in Symbols : \E k \in 1..c[s] : e = <<s, k>>
    BY DEF Absorbed
  <2>3. \A e : e \in Absorbed(b) <=> \E s \in Symbols : \E k \in 1..b[s] : e = <<s, k>>
    BY DEF Absorbed
  <2> HIDE DEF c
  <2>4. \A e : e \in Absorbed(c) <=> e \in Absorbed(b) \/ e = new
    BY <2>1, <2>2, <2>3
  <2> QED
    BY <2>4
<1>4. /\ IsFiniteSet(Absorbed(b) \cup {new})
      /\ Cardinality(Absorbed(b) \cup {new}) = Cardinality(Absorbed(b)) + 1
  <2> HIDE DEF new
  <2> QED
    BY <1>2, FS_AddElement
<1> HIDE DEF c, new
<1> QED
  BY <1>3, <1>4 DEF Applied, c

LEMMA InitIsCounted == Init => Counted /\ Bounded
<1> SUFFICES ASSUME Init PROVE Counted /\ Bounded
  OBVIOUS
<1>1. Absorbed(book) = {}
  BY DEF Init, Nothing, Absorbed
<1>2. IsFiniteSet(Absorbed(book)) /\ Applied(book) = 0
  BY <1>1, FS_EmptySet DEF Applied
<1>3. Counted
  BY <1>2, PublisherAssumption DEF Init, Counted
<1>4. Bounded
  BY PublisherAssumption DEF Init, Bounded
<1> QED
  BY <1>3, <1>4

\* The feed counts what it applies, and the publisher's mark follows.
LEMMA StepKeepsCount == IInv /\ Counted /\ [Next]_vars => Counted'
<1> SUFFICES ASSUME IInv, Counted, [Next]_vars PROVE Counted'
  OBVIOUS
<1>1. book \in Books /\ Applied(book) \in Nat /\ MaxMessages \in Nat
  BY FS_CardinalityType, PublisherAssumption DEF IInv, Shape, Counted, Applied
<1>2. CASE FeedLock
  BY <1>2 DEF FeedLock, Counted, Applied, pubVars
<1>3. CASE FeedApply
  <2>1. PICK x \in Symbols : book' = [book EXCEPT ![x] = @ + 1]
    BY <1>3 DEF FeedApply
  <2>2. IsFiniteSet(Absorbed(book')) /\ Applied(book') = Applied(book) + 1
    BY <1>1, <2>1, AppliedGrows DEF Counted
  <2>3. feed = "apply" /\ feed' = "note" /\ UNCHANGED <<msgs, mark>>
    BY <1>3 DEF FeedApply, pubVars
  <2> HIDE DEF Applied
  <2>4. Applied(book)' = Applied(book')
    BY DEF Applied, Absorbed
  <2>5. Absorbed(book)' = Absorbed(book')
    BY DEF Absorbed
  <2> QED
    BY <1>1, <2>2, <2>3, <2>4, <2>5 DEF Counted
<1>4. CASE FeedNote
  BY <1>1, <1>4 DEF FeedNote, Counted, Applied, pubVars
<1>5. CASE PubCheck
  BY <1>5 DEF PubCheck, Counted, Applied, feedVars
<1>6. CASE UNCHANGED <<book, feed, msgs, mark>>
  BY <1>6 DEF Counted, Applied
<1>7. FeedLock \/ FeedApply \/ FeedNote \/ PubCheck \/ UNCHANGED <<book, feed, msgs, mark>>
  BY DEF Next, vars, feedVars, pubVars, PubExit, PubAccept, PubLock, PubCopy, PubUnlock,
         PubSend, PubSent, Connect, ReceiveOne, Depart, StopRunning, StopClose, StopJoin
<1> QED
  BY <1>2, <1>3, <1>4, <1>5, <1>6, <1>7

\* send() finds room for a frame or waits; reading and closing make room.
LEMMA StepKeepsBound == IInv /\ Bounded /\ [Next]_vars => Bounded'
<1> SUFFICES ASSUME IInv, Bounded, [Next]_vars PROVE Bounded'
  OBVIOUS
<1>1. wire \in [Subscribers -> Seq(Frames)]
  BY DEF IInv, Shape
<1>2. ASSUME NEW s \in Subscribers, NEW w,
             wire' = [wire EXCEPT ![s] = w], Len(w) <= SocketFrames
      PROVE  Bounded'
  BY <1>1, <1>2 DEF Bounded
<1>3. CASE PubSend
  <2>1. CASE UNCHANGED wire
    BY <2>1 DEF Bounded
  <2>2. CASE ~UNCHANGED wire
    <3> DEFINE s == subs[pub.next]
    <3>1. Len(wire[s]) < SocketFrames /\ wire' = [wire EXCEPT ![s] = Append(@, Frame)]
      BY <1>3, <2>2 DEF PubSend
    <3>2. s \in Subscribers
      BY <1>1, <2>2, <3>1
    <3>3. wire[s] \in Seq(Frames) /\ SocketFrames \in Nat
      BY <1>1, <3>2, PublisherAssumption
    <3>4. Len(Append(wire[s], Frame)) <= SocketFrames
      BY <3>1, <3>3
    <3> QED
      BY <1>2, <3>1, <3>2, <3>4
  <2> QED
    BY <2>1, <2>2
<1>4. ASSUME NEW s \in Subscribers, ReceiveOne(s)
      PROVE  Bounded'
  <2>1. wire' = [wire EXCEPT ![s] = Tail(@)] /\ wire[s] # << >> /\ wire[s] \in Seq(Frames)
    BY <1>1, <1>4 DEF ReceiveOne
  <2>2. Len(Tail(wire[s])) <= SocketFrames
    BY <2>1, PublisherAssumption DEF Bounded
  <2> QED
    BY <1>2, <2>1, <2>2
<1>5. ASSUME NEW s \in Subscribers, Depart(s)
      PROVE  Bounded'
  <2>1. wire' = [wire EXCEPT ![s] = << >>]
    BY <1>5 DEF Depart
  <2>2. Len(<< >>) <= SocketFrames
    BY PublisherAssumption
  <2> QED
    BY <1>2, <2>1, <2>2
<1>6. CASE UNCHANGED wire
  BY <1>6 DEF Bounded
<1>7. \/ PubSend \/ UNCHANGED wire
      \/ \E s \in Subscribers : ReceiveOne(s) \/ Depart(s)
  BY DEF Next, vars, FeedLock, FeedApply, FeedNote, PubExit, PubAccept, PubCheck, PubLock,
         PubCopy, PubUnlock, PubSent, Connect, StopRunning, StopClose, StopJoin
<1> QED
  BY <1>3, <1>4, <1>5, <1>6, <1>7

\* The mutex is with the thread that needs it, the counter is the book's but for
\* the message being noted, the publisher's mark is never ahead of it, and no
\* buffer overflows (on_message, note_message, should_publish, tcp_send_all).
THEOREM PublisherTypeCorrect == Spec => []TypeOK
<1>1. IInv /\ NInv /\ Counted /\ Bounded => TypeOK
  <2> SUFFICES ASSUME IInv, NInv, Counted, Bounded PROVE TypeOK
    OBVIOUS
  <2>1. book \in [Symbols -> Nat] /\ (mutex = "feed" <=> feed = "apply")
        /\ (mutex = "publisher" <=> pub.at = "copy")
    BY DEF IInv, Shape, Locked, Books
  <2>2. IsInjective(subs) /\ Range(subs) \subseteq Subscribers
    BY DEF NInv, Listed, IsInjective, Range
  <2> QED
    BY <2>1, <2>2 DEF Counted, Bounded, TypeOK
<1> QED
  BY <1>1, InitIsOrdered, StepKeepsOrder, InitIsNumbered, StepKeepsNumbers, InitIsCounted,
     StepKeepsCount, StepKeepsBound, PTL DEF Spec
=============================================================================
