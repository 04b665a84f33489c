----------------------------- MODULE FeedHandler -----------------------------
(***************************************************************************)
(* Class FeedHandler of src/core/feed_handler.{h,cpp}.  A handler is a     *)
(* record                                                                  *)
(*   db    book_, a DepthBook                                              *)
(*   gap   gap_, the expected sequence number of each stock locate         *)
(* and on_datagram an operator from a handler and a datagram to a result:  *)
(* the handler after it, what became of the datagram, the sequence numbers *)
(* the gap observer was told are missing, and whether a snapshot was       *)
(* installed.  The counters of stats_ count those results and are left     *)
(* out.                                                                    *)
(*                                                                         *)
(* A datagram is [loc, seq, frame]; frame is a message of DepthBook,       *)
(* BadFrame when decode_frame rejects it, or ShortFrame when the payload   *)
(* ends before a frame could start.  A snapshot response is                *)
(* [stock_locate, symbol, bids, asks, last_applied_seq].                   *)
(***************************************************************************)
EXTENDS DepthBook, GapDetector

CONSTANT
  SyntheticBase       \* 1 << 60: the first order id a snapshot's orders get

ASSUME SyntheticBaseAssumption == SyntheticBase \in Nat

BadFrame   == [type |-> "bad"]
ShortFrame == [type |-> "short"]

\* What a gap meets: the requester's answer, a snapshot or Refused (it
\* returned false), or, with no requester set, skip-mode on or off.
Recovered(snap) == [kind |-> "recovered", snap |-> snap]
Refused         == [kind |-> "refused"]
SkipGaps        == [kind |-> "skip"]
Stall           == [kind |-> "stall"]

NewHandler(depth) == [db |-> EmptyDepthBook(depth), gap |-> NoStreams]

-----------------------------------------------------------------------------
(***************************************************************************)
(* apply_snapshot: the symbol gets a new book built from synthetic orders, *)
(* one per order the level counted, which share out its quantity.  The     *)
(* loops are functions of the number of rounds; their state is the book    *)
(* being built and the id the next order gets, [book, synthetic].          *)
(***************************************************************************)

\* the orders a level is rebuilt with
OrderCount(lvl) == IF lvl.order_count = 0 THEN 1 ELSE lvl.order_count

\* a level shared out without the remainder
MutantDropsRemainder(lvl, i) == lvl.total_qty \div OrderCount(lvl)

\* what the i-th of them is for; the first takes the remainder
Share(lvl, i) ==
  LET per == lvl.total_qty \div OrderCount(lvl)
      rem == lvl.total_qty - per * OrderCount(lvl)
  IN  per + IF i = 1 THEN rem ELSE 0

\* a rebuild that puts the quantity of each order on its level twice
MutantCountsLevelsTwice(r, side, price, q) ==
  IF q = 0 THEN r
  ELSE [book      |-> apply_level_delta(add_order(r.book, r.synthetic, side, price, q),
                                        side, price, q, 1),
        synthetic |-> r.synthetic + 1]

\* an order that gets no share takes no id
add_synthetic(r, side, price, q) ==
  IF q = 0 THEN r
  ELSE [book      |-> add_order(r.book, r.synthetic, side, price, q),
        synthetic |-> r.synthetic + 1]

add_level(r, side, lvl) ==
  LET after[i \in 0..OrderCount(lvl)] ==
        IF i = 0 THEN r ELSE add_synthetic(after[i - 1], side, lvl.price, Share(lvl, i))
  IN  after[OrderCount(lvl)]

add_levels(r, side, levels) ==
  LET after[i \in 0..Len(levels)] ==
        IF i = 0 THEN r ELSE add_level(after[i - 1], side, levels[i])
  IN  after[Len(levels)]

\* The new book's capacity is the number of levels the snapshot carries.
SnapshotBook(snap) ==
  LET depth == IF Len(snap.bids) > Len(snap.asks) THEN Len(snap.bids) ELSE Len(snap.asks)
      new   == [book |-> EmptyBook(depth), synthetic |-> SyntheticBase]
  IN  add_levels(add_levels(new, "Buy", snap.bids), "Sell", snap.asks).book

\* the expected number set to the last one the snapshot holds
MutantExpectsLastApplied(h, snap) ==
  [db  |-> [book_for(h.db, snap.symbol) EXCEPT !.books[snap.symbol] = SnapshotBook(snap)],
   gap |-> set_expected(h.gap, snap.stock_locate, snap.last_applied_seq)]

\* The order-id index keeps its entries for the symbol's former orders.
apply_snapshot(h, snap) ==
  [db  |-> [book_for(h.db, snap.symbol) EXCEPT !.books[snap.symbol] = SnapshotBook(snap)],
   gap |-> set_expected(h.gap, snap.stock_locate, snap.last_applied_seq + 1)]

-----------------------------------------------------------------------------
(***************************************************************************)
(* on_datagram                                                             *)
(***************************************************************************)

Result(h, fate, missing, installed) ==
  [h |-> h, fate |-> fate, missing |-> missing, installed |-> installed]

\* The end of the handler: decode the frame and apply it to the book.
decode_and_apply(h, d, missing, installed) ==
  IF d.frame = BadFrame
  THEN Result(h, "bad", missing, installed)
  ELSE Result([h EXCEPT !.db = apply(@, d.frame).db], "decoded", missing, installed)

\* "if (gap_.expected(loc) <= seq) gap_.set_expected(loc, seq + 1)"
advance(h, loc, seq) ==
  IF expected(h.gap, loc) <= seq THEN [h EXCEPT !.gap = set_expected(@, loc, seq + 1)] ELSE h

\* on_gap that takes the number that arrived for a missing one
MutantReportsReceived(h, d, answer) ==
  LET missing == expected(h.gap, d.loc)..d.seq
  IN  CASE answer.kind \in {"refused", "stall"} -> Result(h, "stalled", missing, FALSE)
        [] answer.kind = "skip" ->
             decode_and_apply(advance(h, d.loc, d.seq), d, missing, FALSE)
        [] answer.kind = "recovered" ->
             LET r == apply_snapshot(h, answer.snap)
             IN  IF d.seq < expected(r.gap, d.loc)
                 THEN Result(r, "covered", missing, TRUE)
                 ELSE decode_and_apply(advance(r, d.loc, d.seq), d, missing, TRUE)

\* on_gap that reports a gap only when nothing recovers from it
MutantReportsUnrecovered(h, d, answer) ==
  LET missing == expected(h.gap, d.loc)..(d.seq - 1)
  IN  CASE answer.kind \in {"refused", "stall"} -> Result(h, "stalled", missing, FALSE)
        [] answer.kind = "skip" ->
             decode_and_apply(advance(h, d.loc, d.seq), d, missing, FALSE)
        [] answer.kind = "recovered" ->
             LET r == apply_snapshot(h, answer.snap)
             IN  IF d.seq < expected(r.gap, d.loc)
                 THEN Result(r, "covered", {}, TRUE)
                 ELSE decode_and_apply(advance(r, d.loc, d.seq), d, {}, TRUE)

\* on_gap that applies a message the snapshot already holds
MutantAppliesCovered(h, d, answer) ==
  LET missing == expected(h.gap, d.loc)..(d.seq - 1)
  IN  CASE answer.kind \in {"refused", "stall"} -> Result(h, "stalled", missing, FALSE)
        [] answer.kind = "skip" ->
             decode_and_apply(advance(h, d.loc, d.seq), d, missing, FALSE)
        [] answer.kind = "recovered" ->
             decode_and_apply(advance(apply_snapshot(h, answer.snap), d.loc, d.seq),
                              d, missing, TRUE)

\* on_gap that moves past a gap nothing recovers from
MutantMovesPastStall(h, d, answer) ==
  LET missing == expected(h.gap, d.loc)..(d.seq - 1)
  IN  CASE answer.kind \in {"refused", "stall"} ->
             Result(advance(h, d.loc, d.seq), "stalled", missing, FALSE)
        [] answer.kind = "skip" ->
             decode_and_apply(advance(h, d.loc, d.seq), d, missing, FALSE)
        [] answer.kind = "recovered" ->
             LET r == apply_snapshot(h, answer.snap)
             IN  IF d.seq < expected(r.gap, d.loc)
                 THEN Result(r, "covered", missing, TRUE)
                 ELSE decode_and_apply(advance(r, d.loc, d.seq), d, missing, TRUE)

\* A gap is reported to the observer first and then, by the answer, recovered
\* from, skipped or left for the next datagram to meet again.
on_gap(h, d, answer) ==
  LET missing == expected(h.gap, d.loc)..(d.seq - 1)
  IN  CASE answer.kind \in {"refused", "stall"} -> Result(h, "stalled", missing, FALSE)
        [] answer.kind = "skip" ->
             decode_and_apply(advance(h, d.loc, d.seq), d, missing, FALSE)
        [] answer.kind = "recovered" ->
             LET r == apply_snapshot(h, answer.snap)
             IN  IF d.seq < expected(r.gap, d.loc)
                 THEN Result(r, "covered", missing, TRUE)
                 ELSE decode_and_apply(advance(r, d.loc, d.seq), d, missing, TRUE)

\* on_datagram that sends the directories of sequence 0 through the detector
MutantChecksDirectories(h, d, answer) ==
  LET obs == observe(h.gap, d.loc, d.seq)
  IN  IF d.frame = ShortFrame
      THEN Result(h, "bad", {}, FALSE)
      ELSE CASE obs.verdict = "stale" -> Result(h, "stale", {}, FALSE)
             [] obs.verdict = "gap"   -> on_gap(h, d, answer)
             [] obs.verdict = "ok"    ->
                  decode_and_apply([h EXCEPT !.gap = obs.expected], d, {}, FALSE)

\* Sequence 0 bypasses the gap detector.  The expected number moves before the
\* frame is decoded, so a frame that does not decode is used up.
on_datagram(h, d, answer) ==
  LET obs == observe(h.gap, d.loc, d.seq)
  IN  CASE d.frame = ShortFrame    -> Result(h, "bad", {}, FALSE)
        [] d.frame # ShortFrame /\ d.seq = 0 -> decode_and_apply(h, d, {}, FALSE)
        [] d.frame # ShortFrame /\ d.seq # 0 ->
             CASE obs.verdict = "stale" -> Result(h, "stale", {}, FALSE)
               [] obs.verdict = "gap"   -> on_gap(h, d, answer)
               [] obs.verdict = "ok"    ->
                    decode_and_apply(advance([h EXCEPT !.gap = obs.expected], d.loc, d.seq),
                                     d, {}, FALSE)
=============================================================================
