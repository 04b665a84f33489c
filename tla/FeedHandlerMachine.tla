------------------------- MODULE FeedHandlerMachine -------------------------
(***************************************************************************)
(* A FeedHandler that is handed the datagrams of some sequenced streams in *)
(* any order: lost, repeated, late, truncated or corrupted, with every     *)
(* answer a snapshot provider may give.  The history variables record what *)
(* became of each sequence number and name the abstract state of           *)
(* SequencedFeed.                                                          *)
(***************************************************************************)
EXTENDS FeedHandler, BookDomain, SequencesExt

CONSTANTS
  Locates, Symbols,
  Frame,            \* bound: the messages of each stream, numbered from 1: Frame[l][s]
  SymbolOf,         \* the symbol of a locate
  SnapshotLadders   \* what snapshots may hold: records [bids, asks]

ASSUME FeedHandlerAssumption ==
  /\ DOMAIN Frame = Locates
  /\ \A l \in Locates : Len(Frame[l]) \in Nat /\ DOMAIN Frame[l] = 1..Len(Frame[l])
  /\ \A l \in Locates : {BadFrame, ShortFrame} \cap Range(Frame[l]) = {}
  /\ SymbolOf \in [Locates -> Symbols]

Messages ==
  UNION { [type : {"A", "F"}, symbol : Symbols, order_id : OrderIds, side : Side,
           price : Prices, shares : Quantities],
          [type : {"E", "C", "X"}, order_id : OrderIds, shares : Quantities],
          [type : {"D"}, order_id : OrderIds],
          [type : {"U"}, order_id : OrderIds, new_order_id : OrderIds, price : Prices,
           shares : Quantities],
          [type : {"S", "R", "P"}] }

\* The messages and the snapshots keep to the ids, prices and quantities of
\* BookDomain, the synthetic ids included.
FeedDomain ==
  /\ \A l \in Locates : \A s \in DOMAIN Frame[l] : Frame[l][s] \in Messages
  /\ \A lad \in SnapshotLadders :
       /\ lad.bids \in Seq(LevelsInUse) /\ lad.asks \in Seq(LevelsInUse)
       /\ DOMAIN SnapshotBook(lad).orders \subseteq OrderIds

VARIABLES
  mode,        \* how gaps are met: "requester", "skip" or "stall"
  h,           \* the handler
  first,       \* history: the number each stream was joined at, 0 before that
  used,        \* history: per stream, the numbers handed to the decoder, in that order
  covered,     \* history: the numbers a snapshot stood in for, as <<l, s>>
  reported     \* history: the numbers the gap observer was told are missing

vars == <<mode, h, first, used, covered, reported>>

LastSeq == [l \in Locates |-> Len(Frame[l])]

Seqs(l) == 1..LastSeq[l]

Init ==
  /\ mode \in {"requester", "skip", "stall"}
  /\ h = NewHandler(Depth)
  /\ first = [l \in Locates |-> 0]
  /\ used = [l \in Locates |-> << >>]
  /\ covered = {} /\ reported = {}

\* A stream's datagrams: directories at sequence 0, its messages, and either
\* one damaged.
Datagrams(l) ==
  LET at(s) == IF s = 0 THEN OtherMsg("R") ELSE Frame[l][s]
  IN  UNION {{[loc |-> l, seq |-> s, frame |-> f] : f \in {at(s), BadFrame, ShortFrame}} :
               s \in 0..LastSeq[l]}

\* A provider answers for the locate it was asked about, with a snapshot that
\* is as recent as it happens to be, or fails.
Answers(l) ==
  CASE mode = "skip"      -> {SkipGaps}
    [] mode = "stall"     -> {Stall}
    [] mode = "requester" ->
         {Refused} \cup
         {Recovered([stock_locate |-> l, symbol |-> SymbolOf[l], bids |-> lad.bids,
                     asks |-> lad.asks, last_applied_seq |-> last]) :
            lad \in SnapshotLadders, last \in 0..LastSeq[l]}

Numbered(l, S) == {l} \X S

Observe(d, answer, r) ==
  LET l == d.loc
      cursor == expected(h.gap, l)
  IN  /\ first' = IF cursor = 0 /\ expected(r.h.gap, l) # 0
                  THEN [first EXCEPT ![l] = d.seq] ELSE first
      /\ used' = IF r.fate \in {"decoded", "bad"} /\ d.frame # ShortFrame /\ d.seq # 0
                 THEN [used EXCEPT ![l] = Append(@, d.seq)] ELSE used
      /\ covered' = IF r.installed
                    THEN covered \cup Numbered(l, cursor..answer.snap.last_applied_seq)
                    ELSE covered
      /\ reported' = reported \cup Numbered(l, r.missing)

Receive(d, answer) ==
  LET r == on_datagram(h, d, answer)
  IN  /\ h' = r.h
      /\ Observe(d, answer, r)
      /\ UNCHANGED mode

Next ==
  \E l \in Locates : \E d \in Datagrams(l), answer \in Answers(l) : Receive(d, answer)

Spec == Init /\ [][Next]_vars

-----------------------------------------------------------------------------
Cursor(l) == expected(h.gap, l)

\* The handler tracks the streams it has joined, and its history is of them.
TypeOK ==
  /\ \A l \in DOMAIN h.gap : l \in Locates /\ h.gap[l] \in 2..(LastSeq[l] + 1)
  /\ \A l \in Locates :
       /\ first[l] \in 0..LastSeq[l]
       /\ first[l] = 0 <=> l \notin DOMAIN h.gap

Used(l) == Range(used[l])

\* No message is passed over in silence: every number behind a stream's cursor,
\* from the one the stream was joined at, was decoded, is covered by a snapshot
\* or was reported to the gap observer.
NoSilentSkip ==
  \A l \in Locates : \A s \in first[l]..(Cursor(l) - 1) :
    first[l] > 0 => s \in Used(l) \/ <<l, s>> \in covered \cup reported

\* With skip-mode on the observer's ranges are an exact account: what was
\* reported missing was never applied, late or not, and together with what was
\* applied it is everything behind the cursor (the gap accounting of the pcap
\* replay rests on this).
SkipAccountingIsExact ==
  mode = "skip" =>
    \A l \in Locates :
      LET missed == {s \in Seqs(l) : <<l, s>> \in reported}
      IN  /\ Used(l) \cap missed = {}
          /\ Used(l) \cup missed = {s \in Seqs(l) : 0 < first[l] /\ first[l] <= s /\ s < Cursor(l)}

\* A message is decoded at most once, in the order of the stream, and not when
\* an installed snapshot already holds it.
UsedOnceInOrder ==
  [][\A l \in Locates :
       used'[l] # used[l] =>
         \A t \in Seqs(l) : t \in Used(l) \/ <<l, t>> \in covered' => t < Last(used'[l])]_vars

\* Each symbol's ladder is the aggregate of its live orders also when these are
\* the synthetic ones of a snapshot.
BooksMatchOrders ==
  \A sym \in DOMAIN h.db.books :
    LET b == h.db.books[sym]
    IN  LadderMatches(b, {b.orders[id].price : id \in DOMAIN b.orders})

\* The abstract state: the cursor is gap_'s, fates are read off the history.
FateOf(l, s) ==
  CASE s >= Cursor(l)                         -> "none"
    [] s < Cursor(l) /\ s \in Used(l)         -> "used"
    [] s < Cursor(l) /\ s \notin Used(l)      ->
         IF s < first[l] THEN "head"
         ELSE IF <<l, s>> \in covered THEN "covered"
         ELSE IF <<l, s>> \in reported THEN "missed" ELSE "lost"

Cursors == [l \in Locates |-> Cursor(l)]
FatesOf == [l \in Locates |-> [s \in Seqs(l) |-> FateOf(l, s)]]

Abstract == INSTANCE SequencedFeed WITH cursor <- Cursors, fate <- FatesOf

\* The handler implements the abstract receiver of sequenced streams.
ImplementsSequencedFeed == Abstract!Spec
=============================================================================
