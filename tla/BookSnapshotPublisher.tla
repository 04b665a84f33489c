------------------------ MODULE BookSnapshotPublisher ------------------------
(***************************************************************************)
(* The book-snapshot service of src/sim: the publisher thread of           *)
(* BookSnapshotPublisher, the feed thread that mutates the book under the  *)
(* shared mutex and calls note_message(), the BookSnapshotSubscribers at   *)
(* the other end of the TCP connections, and a caller of stop().           *)
(*                                                                         *)
(* The book is, per symbol, how many messages it has absorbed, 0 before    *)
(* the symbol is first seen; a frame is the part of it capture_frame       *)
(* copied.  A connection is the sequence of whole frames in its buffers,   *)
(* at most SocketFrames of them: send() blocks while there is no room.     *)
(***************************************************************************)
EXTENDS Integers, Sequences, FiniteSets, SequencesExt

CONSTANTS
  Symbols,
  Readers,         \* subscribers that keep reading while they are connected
  Stalled,         \* subscribers that may stop reading without disconnecting
  EveryMessages,   \* BookSnapshotPolicy::every_messages, 0 to disable
  TimedFrames,     \* bound: the interval elapses only before that many frames;
                   \* 0 is BookSnapshotPolicy::interval = 0, the trigger disabled
  SocketFrames,    \* bound: the frames the buffers of a connection hold
  MaxMessages      \* bound: the messages the feed thread applies

Subscribers == Readers \cup Stalled

ASSUME PublisherAssumption ==
  /\ Readers \cap Stalled = {}
  /\ EveryMessages \in Nat /\ TimedFrames \in Nat
  /\ SocketFrames \in Nat \ {0}
  /\ MaxMessages \in Nat

VARIABLES
  book,           \* what the mutex guards
  mutex,          \* who holds book_mtx: "feed", "publisher" or "none"
  feed,           \* the feed thread's step
  msgs,           \* msg_counter_
  running,        \* running_
  listening,      \* the server socket is open
  stopper,        \* the step of a stop() call
  pub,            \* the publisher thread: its step and its locals
  seq, mark,      \* seq_ and last_msg_mark_
  subs,           \* subscribers_: the accepted connections, in order
  conn,           \* per subscriber "new", "waiting" (in the backlog), "open" or "closed"
  wire,           \* the frames in the buffers of each connection
  local,          \* per subscriber, its books_ and last_seq_
  past            \* history: every value the book has had

feedVars  == <<book, feed, msgs, past>>
pubVars   == <<pub, seq, mark, subs>>
stopVars  == <<running, listening, stopper>>
vars      == <<feedVars, mutex, pubVars, stopVars, conn, wire, local>>

Nothing == [s \in Symbols |-> 0]
Idle    == [at |-> "accept", todo |-> {}, copy |-> Nothing, next |-> 1]

Init ==
  /\ book = Nothing /\ past = {Nothing}
  /\ mutex = "none"
  /\ feed = "idle" /\ msgs = 0
  /\ running = TRUE /\ listening = TRUE /\ stopper = "idle"
  /\ pub = Idle /\ seq = 0 /\ mark = 0 /\ subs = << >>
  /\ conn = [s \in Subscribers |-> "new"]
  /\ wire = [s \in Subscribers |-> << >>]
  /\ local = [s \in Subscribers |-> [books |-> Nothing, last_seq |-> 0]]

\* how many messages a book has absorbed, counted one by one
Absorbed(b) == UNION {{s} \X (1..b[s]) : s \in Symbols}
Applied(b)  == Cardinality(Absorbed(b))

-----------------------------------------------------------------------------
(***************************************************************************)
(* The feed thread: lock, on_datagram, unlock, note_message.               *)
(***************************************************************************)

FeedLock ==
  /\ feed = "idle" /\ Applied(book) < MaxMessages
  /\ mutex = "none"
  /\ mutex' = "feed" /\ feed' = "apply"
  /\ UNCHANGED <<book, msgs, past, pubVars, stopVars, conn, wire, local>>

FeedApply ==
  /\ feed = "apply"
  /\ \E s \in Symbols :
       /\ book' = [book EXCEPT ![s] = @ + 1]
       /\ past' = past \cup {book'}
  /\ mutex' = "none" /\ feed' = "note"
  /\ UNCHANGED <<msgs, pubVars, stopVars, conn, wire, local>>

\* note_message()
FeedNote ==
  /\ feed = "note"
  /\ msgs' = msgs + 1 /\ feed' = "idle"
  /\ UNCHANGED <<book, past, mutex, pubVars, stopVars, conn, wire, local>>

-----------------------------------------------------------------------------
(***************************************************************************)
(* The publisher thread: run().                                            *)
(***************************************************************************)

Goto(step) == [pub EXCEPT !.at = step]

\* The loop ends when running_ is found false.
PubExit ==
  /\ pub.at = "accept" /\ ~running
  /\ pub' = Goto("done")
  /\ UNCHANGED <<feedVars, mutex, seq, mark, subs, stopVars, conn, wire, local>>

\* accept_one: a waiting connection, or a timeout when there is none
PubAccept ==
  /\ pub.at = "accept" /\ running
  /\ pub' = Goto("check")
  /\ LET waiting == IF listening THEN {s \in Subscribers : conn[s] = "waiting"} ELSE {}
     IN  IF waiting = {}
         THEN UNCHANGED <<subs, conn>>
         ELSE \E s \in waiting : /\ subs' = Append(subs, s)
                                 /\ conn' = [conn EXCEPT ![s] = "open"]
  /\ UNCHANGED <<feedVars, mutex, seq, mark, stopVars, wire, local>>

should_publish(elapsed) ==
  \/ EveryMessages # 0 /\ msgs - mark >= EveryMessages
  \/ elapsed

\* a mark that advances by the stride instead of to the count that was read
MutantMarkByStride ==
  /\ pub.at = "check"
  /\ \E elapsed \in {e \in BOOLEAN : e => seq < TimedFrames} :
       IF should_publish(elapsed)
       THEN pub' = Goto("lock") /\ mark' = mark + EveryMessages
       ELSE pub' = Goto("accept") /\ UNCHANGED mark
  /\ UNCHANGED <<feedVars, mutex, seq, subs, stopVars, conn, wire, local>>

PubCheck ==
  /\ pub.at = "check"
  /\ \E elapsed \in {e \in BOOLEAN : e => seq < TimedFrames} :
       IF should_publish(elapsed)
       THEN pub' = Goto("lock") /\ mark' = msgs
       ELSE pub' = Goto("accept") /\ UNCHANGED mark
  /\ UNCHANGED <<feedVars, mutex, seq, subs, stopVars, conn, wire, local>>

\* a capture that does not take the lock
MutantCapturesUnlocked ==
  /\ pub.at = "lock"
  /\ seq' = seq + 1
  /\ pub' = [at |-> "copy", todo |-> Symbols, copy |-> Nothing, next |-> 1]
  /\ UNCHANGED <<feedVars, mutex, mark, subs, stopVars, conn, wire, local>>

\* capture_frame takes the lock for the copy only
PubLock ==
  /\ pub.at = "lock" /\ mutex = "none"
  /\ mutex' = "publisher"
  /\ seq' = seq + 1
  /\ pub' = [at |-> "copy", todo |-> Symbols, copy |-> Nothing, next |-> 1]
  /\ UNCHANGED <<feedVars, mark, subs, stopVars, conn, wire, local>>

\* capture_book_snapshot copies symbol after symbol
PubCopy ==
  /\ pub.at = "copy"
  /\ \E s \in pub.todo :
       pub' = [pub EXCEPT !.todo = @ \ {s}, !.copy[s] = book[s]]
  /\ UNCHANGED <<feedVars, mutex, seq, mark, subs, stopVars, conn, wire, local>>

\* a lock that is held until every subscriber has room for the frame
MutantHoldsLockToSend ==
  /\ pub.at = "copy" /\ pub.todo = {}
  /\ \A i \in 1..Len(subs) : conn[subs[i]] = "open" => Len(wire[subs[i]]) < SocketFrames
  /\ mutex' = "none"
  /\ pub' = Goto("send")
  /\ UNCHANGED <<feedVars, seq, mark, subs, stopVars, conn, wire, local>>

PubUnlock ==
  /\ pub.at = "copy" /\ pub.todo = {}
  /\ mutex' = "none"
  /\ pub' = Goto("send")
  /\ UNCHANGED <<feedVars, seq, mark, subs, stopVars, conn, wire, local>>

Frame == [seq |-> seq, books |-> pub.copy]

\* a drop that moves on past the subscriber that takes the dropped one's place
MutantSkipsAfterDrop ==
  /\ pub.at = "send" /\ pub.next <= Len(subs)
  /\ LET s == subs[pub.next]
     IN  \/ /\ conn[s] = "open" /\ Len(wire[s]) < SocketFrames
            /\ wire' = [wire EXCEPT ![s] = Append(@, Frame)]
            /\ UNCHANGED subs
         \/ /\ conn[s] = "closed"
            /\ subs' = RemoveAt(subs, pub.next)
            /\ UNCHANGED wire
  /\ pub' = [pub EXCEPT !.next = @ + 1]
  /\ UNCHANGED <<feedVars, mutex, seq, mark, stopVars, conn, local>>

\* a send that waits for a peer that has gone
MutantWaitsForDeparted ==
  /\ pub.at = "send" /\ pub.next <= Len(subs)
  /\ LET s == subs[pub.next]
     IN  /\ conn[s] = "open" /\ Len(wire[s]) < SocketFrames
         /\ wire' = [wire EXCEPT ![s] = Append(@, Frame)]
         /\ pub' = [pub EXCEPT !.next = @ + 1]
  /\ UNCHANGED <<feedVars, mutex, seq, mark, subs, stopVars, conn, local>>

\* tcp_send_all to the next subscriber: it waits for room, and a connection the
\* peer has closed is dropped
PubSend ==
  /\ pub.at = "send" /\ pub.next <= Len(subs)
  /\ LET s == subs[pub.next]
     IN  \/ /\ conn[s] = "open" /\ Len(wire[s]) < SocketFrames
            /\ wire' = [wire EXCEPT ![s] = Append(@, Frame)]
            /\ pub' = [pub EXCEPT !.next = @ + 1]
            /\ UNCHANGED subs
         \/ /\ conn[s] = "closed"
            /\ subs' = RemoveAt(subs, pub.next)
            /\ UNCHANGED <<wire, pub>>
  /\ UNCHANGED <<feedVars, mutex, seq, mark, stopVars, conn, local>>

\* a mark taken only after the sends
MutantMarksAfterSend ==
  /\ pub.at = "send" /\ pub.next > Len(subs)
  /\ pub' = Idle /\ mark' = msgs
  /\ UNCHANGED <<feedVars, mutex, seq, subs, stopVars, conn, wire, local>>

PubSent ==
  /\ pub.at = "send" /\ pub.next > Len(subs)
  /\ pub' = Idle
  /\ UNCHANGED <<feedVars, mutex, seq, mark, subs, stopVars, conn, wire, local>>

-----------------------------------------------------------------------------
(***************************************************************************)
(* The subscribers.                                                        *)
(***************************************************************************)

Connect(s) ==
  /\ conn[s] = "new" /\ listening
  /\ conn' = [conn EXCEPT ![s] = "waiting"]
  /\ UNCHANGED <<feedVars, mutex, pubVars, stopVars, wire, local>>

\* receive_one: the frame replaces the symbols it carries; what the publisher
\* sent before it closed the connection can still be read
ReceiveOne(s) ==
  /\ wire[s] # << >>
  /\ LET frame == Head(wire[s])
     IN  local' = [local EXCEPT ![s] =
           [books    |-> [sym \in Symbols |-> IF frame.books[sym] = 0 THEN @.books[sym]
                                              ELSE frame.books[sym]],
            last_seq |-> frame.seq]]
  /\ wire' = [wire EXCEPT ![s] = Tail(@)]
  /\ UNCHANGED <<feedVars, mutex, pubVars, stopVars, conn>>

Depart(s) ==
  /\ conn[s] = "open"
  /\ conn' = [conn EXCEPT ![s] = "closed"]
  /\ wire' = [wire EXCEPT ![s] = << >>]
  /\ UNCHANGED <<feedVars, mutex, pubVars, stopVars, local>>

-----------------------------------------------------------------------------
(***************************************************************************)
(* stop(): clear running_, close the server, join the thread, and only     *)
(* then close the connections.                                             *)
(***************************************************************************)

StopRunning ==
  /\ stopper = "idle"
  /\ running' = FALSE /\ stopper' = "close"
  /\ UNCHANGED <<feedVars, mutex, pubVars, listening, conn, wire, local>>

StopClose ==
  /\ stopper = "close"
  /\ listening' = FALSE /\ stopper' = "join"
  /\ conn' = [s \in Subscribers |-> IF conn[s] = "waiting" THEN "closed" ELSE conn[s]]
  /\ UNCHANGED <<feedVars, mutex, pubVars, running, wire, local>>

StopJoin ==
  /\ stopper = "join" /\ pub.at = "done"
  /\ stopper' = "stopped"
  /\ subs' = << >>
  /\ conn' = [s \in Subscribers |-> IF s \in Range(subs) THEN "closed" ELSE conn[s]]
  /\ UNCHANGED <<feedVars, mutex, pub, seq, mark, running, listening, wire, local>>

-----------------------------------------------------------------------------
Next ==
  \/ FeedLock \/ FeedApply \/ FeedNote
  \/ PubExit \/ PubAccept \/ PubCheck \/ PubLock \/ PubCopy \/ PubUnlock \/ PubSend \/ PubSent
  \/ \E s \in Subscribers : Connect(s) \/ ReceiveOne(s) \/ Depart(s)
  \/ StopRunning \/ StopClose \/ StopJoin

\* Threads keep running and the mutex is granted to a thread that keeps trying
\* for it; readers keep reading; nothing makes a stalled subscriber read, nor
\* anyone connect, depart or call stop().
Fairness ==
  /\ SF_vars(FeedLock) /\ WF_vars(FeedApply) /\ WF_vars(FeedNote)
  /\ WF_vars(PubExit) /\ WF_vars(PubAccept) /\ WF_vars(PubCheck)
  /\ SF_vars(PubLock) /\ WF_vars(PubCopy) /\ WF_vars(PubUnlock)
  /\ WF_vars(PubSend) /\ WF_vars(PubSent)
  /\ \A r \in Readers : WF_vars(ReceiveOne(r))
  /\ WF_vars(StopClose) /\ WF_vars(StopJoin)

Spec == Init /\ [][Next]_vars /\ Fairness

-----------------------------------------------------------------------------
\* Threads and connections are where they say they are.
TypeOK ==
  /\ book \in [Symbols -> Nat] /\ Applied(book) <= MaxMessages
  /\ mutex = "feed" <=> feed = "apply"
  /\ mutex = "publisher" <=> pub.at = "copy"
  /\ Applied(book) = msgs + IF feed = "note" THEN 1 ELSE 0
  /\ mark <= msgs
  /\ IsInjective(subs) /\ Range(subs) \subseteq Subscribers
  /\ \A s \in Subscribers : Len(wire[s]) <= SocketFrames

\* A frame "carries the full depth-10 state of every symbol the publisher tracks
\* at one consistent point in time" (book_snapshot.h): copied symbol by symbol
\* while the feed runs, what is on the wire or rebuilt by a subscriber is a
\* value the whole book once had.
FramesAreConsistent ==
  \A s \in Subscribers :
    /\ \A i \in 1..Len(wire[s]) : wire[s][i].books \in past
    /\ local[s].books \in past

\* A subscriber sees the frames published since it was accepted one after the
\* other: none is skipped, repeated or overtaken, also when another subscriber
\* before it in the list departs in the middle of a round.
NoFrameSkipped ==
  [][\A s \in Subscribers :
       LET old == local[s].last_seq
           new == local'[s].last_seq
       IN  old # 0 /\ new # old => new = old + 1]_vars

Healthy == \A s \in Stalled : conn[s] = "new"

\* "a slow or stalled subscriber can never back-pressure the feed thread"
\* (book_snapshot_publisher.h): a feed thread with a message to apply gets
\* the lock and through, even with the publisher blocked in send().
FeedNeverStalls == Applied(book) < MaxMessages ~> Applied(book) = MaxMessages

\* A message that completes a stride, applied but not noted yet when a reader is
\* subscribed, is in the reader's books in the end, unless it departs, the
\* service is stopped or a stalled subscriber is connected: the counter is noted
\* after the book changed and read before it is copied.
EveryMessageArrives ==
  \A r \in Readers, n \in 1..MaxMessages :
    (/\ r \in Range(subs) /\ feed = "note" /\ Applied(book) = n
     /\ EveryMessages # 0 /\ n - mark >= EveryMessages) ~>
      (Applied(local[r].books) >= n \/ conn[r] = "closed" \/ ~running \/ ~Healthy)

\* stop() returns, unless a stalled subscriber is connected.
StopReturns == stopper # "idle" ~> (stopper = "stopped" \/ ~Healthy)

\* "A subscriber that never reads must not stall the publisher"
\* (tests/integration/book_snapshot_pubsub_test.cpp): the publisher gets
\* through every round of sends.
PublisherNeverStalls == pub.at = "send" ~> pub.at # "send"
=============================================================================
