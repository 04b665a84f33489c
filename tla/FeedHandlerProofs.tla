-------------------------- MODULE FeedHandlerProofs --------------------------
(***************************************************************************)
(* Theorems about FeedHandlerMachine for every set of streams, whatever    *)
(* their messages and whatever snapshots the provider answers with.        *)
(*                                                                         *)
(* What a datagram does to the sequence numbers is one of three things     *)
(* (Outcomes): the cursor stays, the datagram is handed to the decoder and *)
(* the cursor is behind it, or a snapshot moves the cursor behind the      *)
(* datagram.  IInv says that the cursor divides the history: what was used *)
(* or covered lies before it, what was used not before the first message.  *)
(*                                                                         *)
(* What it does to the books keeps each of them sound, by what             *)
(* OperatorLemmas says of the messages and of the rebuild from a snapshot; *)
(* the index they are behind need not be exact for that.                   *)
(***************************************************************************)
EXTENDS FeedHandlerMachine, OperatorLemmas

\* The numbers that lie between a stream's cursor and a datagram.
Between(l, s) == IF Cursor(l) = 0 THEN {} ELSE Cursor(l)..(s - 1)

\* The cursor stays: damaged, unnumbered, stale, or a gap that is not recovered from.
Stays(d, r) ==
  /\ r.h.gap = h.gap /\ ~r.installed
  /\ d.frame = ShortFrame \/ d.seq = 0 \/ r.fate \notin {"decoded", "bad"}
  /\ r.missing = {} \/ (mode # "skip" /\ r.missing = Between(d.loc, d.seq))

\* The decoder gets the datagram.
Takes(d, answer, r) ==
  /\ d.frame # ShortFrame /\ d.seq # 0 /\ r.fate \in {"decoded", "bad"}
  /\ Cursor(d.loc) <= d.seq
  /\ r.h.gap = set_expected(h.gap, d.loc, d.seq + 1)
  /\ r.missing = Between(d.loc, d.seq)
  /\ r.installed => /\ mode = "requester" /\ Cursor(d.loc) # 0
                    /\ answer.snap.last_applied_seq \in 0..LastSeq[d.loc]
                    /\ answer.snap.last_applied_seq < d.seq

\* A snapshot covers the datagram.
Catches(d, answer, r) ==
  /\ r.installed /\ mode = "requester" /\ r.fate = "covered"
  /\ Cursor(d.loc) # 0 /\ Cursor(d.loc) < d.seq
  /\ answer.snap.last_applied_seq \in 0..LastSeq[d.loc]
  /\ d.seq <= answer.snap.last_applied_seq
  /\ r.h.gap = set_expected(h.gap, d.loc, answer.snap.last_applied_seq + 1)
  /\ r.missing = Between(d.loc, d.seq)

\* The handler is one, and its cursors are numbers of the streams.
Shape ==
  /\ mode \in {"requester", "skip", "stall"}
  /\ h = [db |-> h.db, gap |-> h.gap]
  /\ DOMAIN h.gap \subseteq Locates
  /\ \A l \in DOMAIN h.gap : h.gap[l] \in 2..(LastSeq[l] + 1)

-----------------------------------------------------------------------------
(***************************************************************************)
(* The detector.                                                           *)
(***************************************************************************)

\* The last numbers of the streams are natural numbers.
LEMMA LastSeqIsNat == \A l \in Locates : LastSeq[l] \in Nat
  BY FeedHandlerAssumption DEF LastSeq

\* A stream has a cursor other than 0 from its first message on.
LEMMA CursorOfStream ==
  ASSUME Shape, NEW l \in Locates
  PROVE  /\ Cursor(l) \in 0..(LastSeq[l] + 1) /\ Cursor(l) # 1
         /\ Cursor(l) = 0 <=> l \notin DOMAIN h.gap
  BY LastSeqIsNat DEF Shape, Cursor, expected

\* The last of two assignments is the one that counts.
LEMMA SetExpectedTwice ==
  ASSUME NEW gap, NEW l, NEW a, NEW b
  PROVE  set_expected(set_expected(gap, l, a), l, b) = set_expected(gap, l, b)
  BY DEF set_expected, Assign

-----------------------------------------------------------------------------
(***************************************************************************)
(* What the parts of on_datagram do to the cursors.                        *)
(***************************************************************************)

\* what decode_and_apply returns
Decoded(r, g, missing, installed) ==
  /\ IsHandler(r.h) /\ r.h.gap = g.gap
  /\ r.fate \in {"decoded", "bad"} /\ r.missing = missing /\ r.installed = installed

\* Decoding does not touch the cursors.
LEMMA Decoding ==
  \A g, d, missing : \A installed \in BOOLEAN :
    IsHandler(g) => Decoded(decode_and_apply(g, d, missing, installed), g, missing, installed)
<1> SUFFICES ASSUME NEW g, NEW d, NEW missing, NEW installed \in BOOLEAN, IsHandler(g)
             PROVE  Decoded(decode_and_apply(g, d, missing, installed), g, missing, installed)
  OBVIOUS
<1> DEFINE applied == [g EXCEPT !.db = apply(@, d.frame).db]
<1>1. IsHandler(applied) /\ applied.gap = g.gap
  BY DEF IsHandler
<1> HIDE DEF applied
<1>2. CASE d.frame = BadFrame
  BY <1>2 DEF decode_and_apply, Result, Decoded
<1>3. CASE d.frame # BadFrame
  <2>1. decode_and_apply(g, d, missing, installed) = Result(applied, "decoded", missing, installed)
    BY <1>3 DEF decode_and_apply, applied
  <2> QED
    BY <1>1, <2>1 DEF Result, Decoded
<1> QED
  BY <1>2, <1>3

\* advance never moves a cursor back.
LEMMA Advancing ==
  ASSUME NEW g, IsHandler(g), NEW l, NEW s
  PROVE  /\ IsHandler(advance(g, l, s))
         /\ advance(g, l, s).gap =
              IF expected(g.gap, l) <= s THEN set_expected(g.gap, l, s + 1) ELSE g.gap
<1>1. CASE expected(g.gap, l) <= s
  <2>1. advance(g, l, s) = [db |-> g.db, gap |-> set_expected(g.gap, l, s + 1)]
    BY <1>1 DEF advance, IsHandler
  <2> QED
    BY <1>1, <2>1 DEF IsHandler
<1>2. CASE ~(expected(g.gap, l) <= s)
  BY <1>2 DEF advance
<1> QED
  BY <1>1, <1>2

\* An installed snapshot sets the cursor behind the last number it holds.
LEMMA Installing ==
  ASSUME NEW g, NEW snap
  PROVE  /\ IsHandler(apply_snapshot(g, snap))
         /\ apply_snapshot(g, snap).gap =
              set_expected(g.gap, snap.stock_locate, snap.last_applied_seq + 1)
  BY DEF apply_snapshot, IsHandler

\* A datagram is of its stream.
LEMMA DatagramOf ==
  ASSUME NEW l \in Locates, NEW d \in Datagrams(l)
  PROVE  d.loc = l /\ d.seq \in 0..LastSeq[l]
  BY DEF Datagrams

\* An answer is one the mode allows, and a snapshot is of the stream asked about.
LEMMA AnswerOf ==
  ASSUME NEW l \in Locates, NEW answer \in Answers(l), Shape
  PROVE  \/ answer.kind \in {"refused", "stall"} /\ mode # "skip"
         \/ answer.kind = "skip"
         \/ /\ answer.kind = "recovered" /\ mode = "requester"
            /\ answer.snap.stock_locate = l /\ answer.snap.last_applied_seq \in 0..LastSeq[l]
<1>1. CASE mode = "skip"
  BY <1>1 DEF Answers, SkipGaps
<1>2. CASE mode = "stall"
  BY <1>2 DEF Answers, Stall
<1>3. CASE mode = "requester"
  <2>1. \/ answer = Refused
        \/ \E lad \in SnapshotLadders, last \in 0..LastSeq[l] :
             answer = Recovered([stock_locate |-> l, symbol |-> SymbolOf[l], bids |-> lad.bids,
                                 asks |-> lad.asks, last_applied_seq |-> last])
    BY <1>3 DEF Answers
  <2> QED
    BY <1>3, <2>1 DEF Refused, Recovered
<1> QED
  BY <1>1, <1>2, <1>3 DEF Shape

\* on_gap
LEMMA GapOutcome ==
  ASSUME Shape, NEW l \in Locates, NEW d \in Datagrams(l), NEW answer \in Answers(l),
         d.frame # ShortFrame, l \in DOMAIN h.gap, h.gap[l] < d.seq
  PROVE  LET r == on_gap(h, d, answer)
         IN  IsHandler(r.h) /\ (Stays(d, r) \/ Takes(d, answer, r) \/ Catches(d, answer, r))
<1> DEFINE r == on_gap(h, d, answer)
<1>1. /\ d.loc = l /\ d.seq \in Nat /\ IsHandler(h)
      /\ Cursor(l) = h.gap[l] /\ Cursor(l) \in Nat /\ Cursor(l) >= 2 /\ d.seq # 0
  BY DatagramOf, LastSeqIsNat DEF Shape, IsHandler, Cursor, expected
<1>2. expected(h.gap, l)..(d.seq - 1) = Between(l, d.seq)
  BY <1>1 DEF Between, Cursor
<1>3. CASE answer.kind \in {"refused", "stall"} /\ mode # "skip"
  <2>1. r = Result(h, "stalled", Between(l, d.seq), FALSE)
    BY <1>1, <1>2, <1>3 DEF on_gap
  <2> QED
    BY <1>1, <1>3, <2>1 DEF Result, Stays
<1>4. CASE answer.kind = "skip"
  <2>1. r = decode_and_apply(advance(h, l, d.seq), d, Between(l, d.seq), FALSE)
    BY <1>1, <1>2, <1>4 DEF on_gap
  <2>2. /\ IsHandler(advance(h, l, d.seq))
        /\ advance(h, l, d.seq).gap = set_expected(h.gap, l, d.seq + 1)
    BY <1>1, Advancing DEF Cursor
  <2>3. Decoded(r, advance(h, l, d.seq), Between(l, d.seq), FALSE)
    BY <2>1, <2>2, Decoding
  <2> QED
    BY <1>1, <2>2, <2>3 DEF Decoded, Takes
<1>5. CASE /\ answer.kind = "recovered" /\ mode = "requester"
           /\ answer.snap.stock_locate = l /\ answer.snap.last_applied_seq \in 0..LastSeq[l]
  <2> DEFINE g == apply_snapshot(h, answer.snap)
             last == answer.snap.last_applied_seq
  <2>1. last \in Nat
    BY <1>5, LastSeqIsNat
  <2>2. /\ IsHandler(g) /\ g.gap = set_expected(h.gap, l, last + 1)
        /\ expected(g.gap, l) = last + 1
    <3>1. IsHandler(g) /\ g.gap = set_expected(h.gap, l, last + 1)
      BY <1>5, Installing
    <3>2. expected(set_expected(h.gap, l, last + 1), l) = last + 1
      BY SetExpected
    <3> QED
      BY <3>1, <3>2
  <2>3. r = IF d.seq < expected(g.gap, l)
            THEN Result(g, "covered", Between(l, d.seq), TRUE)
            ELSE decode_and_apply(advance(g, l, d.seq), d, Between(l, d.seq), TRUE)
    BY <1>1, <1>2, <1>5 DEF on_gap
  <2> HIDE DEF g
  <2>4. CASE d.seq < last + 1
    <3>1. r = Result(g, "covered", Between(l, d.seq), TRUE) /\ d.seq <= last
      BY <1>1, <2>1, <2>2, <2>3, <2>4
    <3> QED
      BY <1>1, <1>5, <2>2, <3>1 DEF Result, Catches
  <2>5. CASE ~(d.seq < last + 1)
    <3>1. /\ r = decode_and_apply(advance(g, l, d.seq), d, Between(l, d.seq), TRUE)
          /\ last < d.seq /\ expected(g.gap, l) <= d.seq
      BY <1>1, <2>1, <2>2, <2>3, <2>5
    <3>2. /\ IsHandler(advance(g, l, d.seq))
          /\ advance(g, l, d.seq).gap = set_expected(h.gap, l, d.seq + 1)
      BY <2>2, <3>1, Advancing, SetExpectedTwice
    <3>3. Decoded(r, advance(g, l, d.seq), Between(l, d.seq), TRUE)
      BY <3>1, <3>2, Decoding
    <3> QED
      <4>1. /\ r.fate \in {"decoded", "bad"} /\ r.missing = Between(l, d.seq)
            /\ r.h.gap = set_expected(h.gap, l, d.seq + 1) /\ IsHandler(r.h)
        BY <3>2, <3>3 DEF Decoded
      <4>2. Cursor(l) # 0 /\ Cursor(l) <= d.seq
        BY <1>1
      <4>3. Takes(d, answer, r)
        BY <1>1, <1>5, <3>1, <4>1, <4>2 DEF Takes
      <4> QED
        BY <4>1, <4>3
  <2> QED
    BY <2>4, <2>5
<1> QED
  BY <1>3, <1>4, <1>5, AnswerOf

\* on_datagram: one of the three, and the handler is one again.
LEMMA Outcomes ==
  ASSUME Shape, NEW l \in Locates, NEW d \in Datagrams(l), NEW answer \in Answers(l)
  PROVE  LET r == on_datagram(h, d, answer)
         IN  IsHandler(r.h) /\ (Stays(d, r) \/ Takes(d, answer, r) \/ Catches(d, answer, r))
<1> DEFINE r   == on_datagram(h, d, answer)
           obs == observe(h.gap, l, d.seq)
<1>1. d.loc = l /\ d.seq \in Nat /\ IsHandler(h) /\ Cursor(l) \in Nat
  BY DatagramOf, CursorOfStream, LastSeqIsNat DEF Shape, IsHandler
<1>2. CASE d.frame = ShortFrame
  <2>1. r = Result(h, "bad", {}, FALSE)
    BY <1>2 DEF on_datagram
  <2> QED
    BY <1>1, <1>2, <2>1 DEF Result, Stays
<1>3. CASE d.frame # ShortFrame /\ d.seq = 0
  <2>1. r = decode_and_apply(h, d, {}, FALSE)
    BY <1>3 DEF on_datagram
  <2>2. Decoded(r, h, {}, FALSE)
    BY <1>1, <2>1, Decoding
  <2> QED
    BY <1>1, <1>3, <2>2 DEF Decoded, Stays
<1>4. CASE d.frame # ShortFrame /\ d.seq # 0
  <2>0. r = CASE obs.verdict = "stale" -> Result(h, "stale", {}, FALSE)
              [] obs.verdict = "gap"   -> on_gap(h, d, answer)
              [] obs.verdict = "ok"    ->
                   decode_and_apply(advance([h EXCEPT !.gap = obs.expected], l, d.seq),
                                    d, {}, FALSE)
    BY <1>1, <1>4 DEF on_datagram
  <2>1. CASE l \in DOMAIN h.gap /\ d.seq < h.gap[l]
    <3>1. obs.verdict = "stale"
      BY <1>1, <2>1 DEF observe, Shape
    <3>2. r = Result(h, "stale", {}, FALSE)
      BY <2>0, <3>1
    <3> QED
      BY <1>1, <3>2 DEF Result, Stays
  <2>2. CASE l \in DOMAIN h.gap /\ d.seq > h.gap[l]
    <3>1. obs.verdict = "gap" /\ h.gap[l] < d.seq
      BY <1>1, <2>2 DEF observe, Shape
    <3>2. r = on_gap(h, d, answer)
      BY <2>0, <3>1
    <3> QED
      BY <1>4, <2>2, <3>1, <3>2, GapOutcome
  <2>3. CASE l \notin DOMAIN h.gap \/ d.seq = h.gap[l]
    <3>1. obs.verdict = "ok" /\ obs.expected = set_expected(h.gap, l, d.seq + 1)
      BY <1>1, <2>3 DEF observe, set_expected
    <3> DEFINE g == [h EXCEPT !.gap = obs.expected]
    <3>2. IsHandler(g) /\ g.gap = set_expected(h.gap, l, d.seq + 1)
      BY <1>1, <3>1 DEF IsHandler
    <3>3. r = decode_and_apply(advance(g, l, d.seq), d, {}, FALSE)
      BY <2>0, <3>1
    <3> HIDE DEF g
    <3>4. ~(expected(g.gap, l) <= d.seq)
      <4>1. expected(set_expected(h.gap, l, d.seq + 1), l) = d.seq + 1
        BY SetExpected
      <4>2. expected(g.gap, l) = d.seq + 1
        BY <3>2, <4>1
      <4> QED
        BY <1>1, <4>2
    <3>5. advance(g, l, d.seq) = g
      BY <3>4 DEF advance
    <3>6. Cursor(l) \in {0, d.seq} /\ Between(l, d.seq) = {}
      BY <1>1, <2>3 DEF Cursor, expected, Between
    <3>7. Decoded(r, g, {}, FALSE)
      BY <3>2, <3>3, <3>5, Decoding
    <3> QED
      BY <1>1, <1>4, <3>2, <3>6, <3>7 DEF Decoded, Takes
  <2> QED
    BY <1>1, <2>1, <2>2, <2>3 DEF Shape
<1> QED
  BY <1>2, <1>3, <1>4

-----------------------------------------------------------------------------
(***************************************************************************)
(* What a step does to a stream's cursor and history.                      *)
(***************************************************************************)

Covers(l)  == {t \in Seqs(l) : <<l, t>> \in covered}
Reports(l) == {t \in Seqs(l) : <<l, t>> \in reported}

History ==
  /\ first \in [Locates -> Nat]
  /\ used \in [Locates -> Seq(Nat)]

StayStep(l) ==
  /\ Cursor(l)' = Cursor(l) /\ first'[l] = first[l] /\ used'[l] = used[l]
  /\ Covers(l)' = Covers(l)
  /\ Reports(l) \subseteq Reports(l)'
  /\ \A t \in Reports(l)' : t \in Reports(l) \/ (mode # "skip" /\ Cursor(l) # 0 /\ Cursor(l) <= t)

TakeStep(l) ==
  \E s \in Seqs(l), last \in 0..LastSeq[l] :
    /\ last < s /\ (mode # "requester" => last = 0)
    /\ Cursor(l) <= s /\ Cursor(l)' = s + 1
    /\ first'[l] = IF Cursor(l) = 0 THEN s ELSE first[l]
    /\ used'[l] = Append(used[l], s)
    /\ Covers(l)' = Covers(l) \cup (IF Cursor(l) = 0 THEN {} ELSE Cursor(l)..last)
    /\ Reports(l)' = Reports(l) \cup Between(l, s)

CatchStep(l) ==
  \E s \in Seqs(l), last \in Seqs(l) :
    /\ mode = "requester" /\ Cursor(l) # 0 /\ Cursor(l) < s /\ s <= last
    /\ Cursor(l)' = last + 1
    /\ first'[l] = first[l] /\ used'[l] = used[l]
    /\ Covers(l)' = Covers(l) \cup (Cursor(l)..last)
    /\ Reports(l)' = Reports(l) \cup Between(l, s)

\* Numbers of one stream that are added to a history are its own.
LEMMA AddedNumbers ==
  \A l, S, H, k, t :
    <<k, t>> \in H \cup Numbered(l, S) <=> <<k, t>> \in H \/ (k = l /\ t \in S)
  BY DEF Numbered

\* A cursor that moves behind a number of its stream is a cursor.
LEMMA MovedShape ==
  ASSUME Shape, NEW l \in Locates, NEW n \in Seqs(l), mode' = mode, IsHandler(h'),
         h'.gap = set_expected(h.gap, l, n + 1)
  PROVE  Shape'
<1>1. LastSeq[l] \in Nat /\ n + 1 \in 2..(LastSeq[l] + 1)
  BY LastSeqIsNat DEF Seqs
<1>2. /\ DOMAIN h'.gap = DOMAIN h.gap \cup {l} /\ h'.gap[l] = n + 1
      /\ \A k \in DOMAIN h.gap : k # l => h'.gap[k] = h.gap[k]
  <2> DEFINE new == set_expected(h.gap, l, n + 1)
  <2>1. /\ DOMAIN new = DOMAIN h.gap \cup {l} /\ new[l] = n + 1
        /\ \A k \in DOMAIN h.gap : k # l => new[k] = h.gap[k]
    BY DEF set_expected, Assign
  <2> QED
    BY <2>1
<1> QED
  BY <1>1, <1>2 DEF Shape, IsHandler

\* A step moves one stream and leaves the others alone.
LEMMA StreamStep ==
  ASSUME Shape, History, NEW l \in Locates, NEW d \in Datagrams(l), NEW answer \in Answers(l),
         Receive(d, answer)
  PROVE  /\ Shape' /\ History' /\ mode' = mode
         /\ StayStep(l) \/ TakeStep(l) \/ CatchStep(l)
         /\ \A k \in Locates : k # l => StayStep(k)
<1> DEFINE r == on_datagram(h, d, answer)
<1>1. /\ d.loc = l /\ d.seq \in 0..LastSeq[l] /\ LastSeq[l] \in Nat
      /\ Cursor(l) \in 0..(LastSeq[l] + 1) /\ Cursor(l) # 1
  BY DatagramOf, LastSeqIsNat, CursorOfStream
<1>2. IsHandler(r.h) /\ (Stays(d, r) \/ Takes(d, answer, r) \/ Catches(d, answer, r))
  BY Outcomes
<1>3. h' = r.h /\ Observe(d, answer, r) /\ mode' = mode
  BY DEF Receive
<1> HIDE DEF r
<1>4. \A k : Cursor(k)' = expected(r.h.gap, k)
  BY <1>3 DEF Cursor
<1>5. /\ first' = IF Cursor(l) = 0 /\ Cursor(l)' # 0 THEN [first EXCEPT ![l] = d.seq] ELSE first
      /\ used' = IF r.fate \in {"decoded", "bad"} /\ d.frame # ShortFrame /\ d.seq # 0
                 THEN [used EXCEPT ![l] = Append(@, d.seq)] ELSE used
      /\ covered' = IF r.installed
                    THEN covered \cup Numbered(l, Cursor(l)..answer.snap.last_applied_seq)
                    ELSE covered
      /\ reported' = reported \cup Numbered(l, r.missing)
  BY <1>1, <1>3, <1>4 DEF Observe, Cursor
<1>6. History'
  BY <1>1, <1>5 DEF History
<1>7. \A k \in Locates : k # l => StayStep(k)
  <2> SUFFICES ASSUME NEW k \in Locates, k # l PROVE StayStep(k)
    OBVIOUS
  <2>1. Cursor(k)' = Cursor(k)
    BY <1>1, <1>2, <1>4, SetExpected DEF Stays, Takes, Catches, Cursor
  <2>2. first'[k] = first[k] /\ used'[k] = used[k]
    BY <1>5 DEF History
  <2>3. \A t : /\ <<k, t>> \in covered' <=> <<k, t>> \in covered
               /\ <<k, t>> \in reported' <=> <<k, t>> \in reported
    BY <1>5, AddedNumbers
  <2> QED
    BY <2>1, <2>2, <2>3 DEF StayStep, Covers, Reports
<1>8. CASE Stays(d, r)
  <2>1. Cursor(l)' = Cursor(l) /\ r.h.gap = h.gap
    BY <1>4, <1>8 DEF Stays, Cursor
  <2>2. first' = first /\ used' = used /\ covered' = covered
    BY <1>1, <1>5, <1>8, <2>1 DEF Stays
  <2>3. \A t : <<l, t>> \in reported' <=> <<l, t>> \in reported \/ t \in r.missing
    BY <1>5, AddedNumbers
  <2>4. \A t \in r.missing : mode # "skip" /\ Cursor(l) # 0 /\ Cursor(l) <= t
    BY <1>1, <1>8 DEF Stays, Between
  <2>5. StayStep(l)
    BY <2>1, <2>2, <2>3, <2>4 DEF StayStep, Covers, Reports
  <2>6. Shape'
    BY <1>2, <1>3, <2>1 DEF Shape, IsHandler
  <2> QED
    BY <1>3, <1>6, <1>7, <2>5, <2>6
<1>9. CASE Takes(d, answer, r)
  <2> DEFINE last == IF r.installed THEN answer.snap.last_applied_seq ELSE 0
             s == d.seq
  <2>1. Cursor(l)' = s + 1 /\ r.h.gap = set_expected(h.gap, l, s + 1)
    BY <1>1, <1>4, <1>9, SetExpected DEF Takes
  <2>2. s \in Seqs(l) /\ Cursor(l) <= s
    BY <1>1, <1>9 DEF Takes, Seqs
  <2>3. last \in 0..LastSeq[l] /\ last < s /\ (mode # "requester" => last = 0)
    <3>1. CASE r.installed
      BY <1>1, <1>9, <3>1 DEF Takes
    <3>2. CASE ~r.installed
      BY <1>1, <2>2, <3>2 DEF Seqs
    <3> QED
      BY <3>1, <3>2
  <2>4. first'[l] = IF Cursor(l) = 0 THEN s ELSE first[l]
    BY <1>1, <1>5, <2>1, <2>2 DEF History, Seqs
  <2>5. used'[l] = Append(used[l], s)
    BY <1>5, <1>9 DEF History, Takes
  <2>6. Covers(l)' = Covers(l) \cup (IF Cursor(l) = 0 THEN {} ELSE Cursor(l)..last)
    <3>1. CASE r.installed
      <4>1. \A t : <<l, t>> \in covered' <=>
                     <<l, t>> \in covered \/ t \in Cursor(l)..answer.snap.last_applied_seq
        <5>1. covered' = covered \cup Numbered(l, Cursor(l)..answer.snap.last_applied_seq)
          BY <1>5, <3>1
        <5> QED
          BY <5>1 DEF Numbered
      <4>2. Cursor(l) # 0 /\ last = answer.snap.last_applied_seq
        BY <1>1, <1>9, <3>1 DEF Takes
      <4>3. Cursor(l)..last \subseteq Seqs(l)
        BY <1>1, <2>3, <4>2 DEF Seqs
      <4> HIDE DEF last
      <4> QED
        BY <4>1, <4>2, <4>3 DEF Covers
    <3>2. CASE ~r.installed
      <4>1. covered' = covered /\ last = 0
        BY <1>5, <3>2
      <4>2. Cursor(l) # 0 => Cursor(l)..last = {}
        BY <1>1, <4>1
      <4> HIDE DEF last
      <4> QED
        BY <4>1, <4>2 DEF Covers
    <3> QED
      BY <3>1, <3>2
  <2>7. Reports(l)' = Reports(l) \cup Between(l, s)
    <3>1. \A t : <<l, t>> \in reported' <=> <<l, t>> \in reported \/ t \in Between(l, s)
      BY <1>1, <1>5, <1>9, AddedNumbers DEF Takes
    <3>2. Between(l, s) \subseteq Seqs(l)
      BY <1>1, <2>2 DEF Between, Seqs
    <3> QED
      BY <3>1, <3>2 DEF Reports
  <2>8. TakeStep(l)
    <3> HIDE DEF last
    <3> QED
      BY <2>1, <2>2, <2>3, <2>4, <2>5, <2>6, <2>7 DEF TakeStep
  <2>9. Shape'
    BY <1>1, <1>2, <1>3, <2>1, <2>2, MovedShape
  <2> QED
    BY <1>3, <1>6, <1>7, <2>8, <2>9
<1>10. CASE Catches(d, answer, r)
  <2> DEFINE last == answer.snap.last_applied_seq
             s == d.seq
  <2>1. Cursor(l)' = last + 1 /\ r.h.gap = set_expected(h.gap, l, last + 1)
    BY <1>1, <1>4, <1>10, SetExpected DEF Catches
  <2>2. /\ mode = "requester" /\ Cursor(l) # 0 /\ Cursor(l) < s /\ s <= last
        /\ s \in Seqs(l) /\ last \in Seqs(l)
    BY <1>1, <1>10 DEF Catches, Seqs
  <2>3. first' = first /\ used' = used
    BY <1>5, <1>10, <2>2 DEF Catches
  <2>4. Covers(l)' = Covers(l) \cup (Cursor(l)..last)
    <3>1. \A t : <<l, t>> \in covered' <=> <<l, t>> \in covered \/ t \in Cursor(l)..last
      <4>1. covered' = covered \cup Numbered(l, Cursor(l)..last)
        BY <1>5, <1>10 DEF Catches
      <4> QED
        BY <4>1 DEF Numbered
    <3>2. Cursor(l)..last \subseteq Seqs(l)
      BY <1>1, <2>2 DEF Seqs
    <3> QED
      BY <3>1, <3>2 DEF Covers
  <2>5. Reports(l)' = Reports(l) \cup Between(l, s)
    <3>1. \A t : <<l, t>> \in reported' <=> <<l, t>> \in reported \/ t \in Between(l, s)
      BY <1>1, <1>5, <1>10, AddedNumbers DEF Catches
    <3>2. Between(l, s) \subseteq Seqs(l)
      BY <1>1, <2>2 DEF Between, Seqs
    <3> QED
      BY <3>1, <3>2 DEF Reports
  <2>6. CatchStep(l)
    BY <2>1, <2>2, <2>3, <2>4, <2>5 DEF CatchStep
  <2>7. Shape'
    BY <1>1, <1>2, <1>3, <2>1, <2>2, MovedShape
  <2> QED
    BY <1>3, <1>6, <1>7, <2>6, <2>7
<1> QED
  BY <1>2, <1>8, <1>9, <1>10

-----------------------------------------------------------------------------
(***************************************************************************)
(* The inductive invariant.                                                *)
(***************************************************************************)

\* The cursor divides the history.
Divided(l) ==
  /\ first[l] \in 0..LastSeq[l]
  /\ first[l] = 0 <=> Cursor(l) = 0
  /\ first[l] # 0 => first[l] < Cursor(l)
  /\ \A t \in Used(l) : t \in Seqs(l) /\ first[l] <= t /\ t < Cursor(l)
  /\ \A t \in Covers(l) : first[l] <= t /\ t < Cursor(l)

\* What is behind it has a fate.
Accounted(l) ==
  \A t \in Seqs(l) : first[l] # 0 /\ first[l] <= t /\ t < Cursor(l) =>
                       t \in Used(l) \/ t \in Covers(l) \/ t \in Reports(l)

\* With skip-mode on what was reported is behind it and was not used.
Skipped(l) ==
  /\ mode # "requester" => Covers(l) = {}
  /\ mode = "skip" => \A t \in Reports(l) : /\ first[l] # 0 /\ first[l] <= t /\ t < Cursor(l)
                                            /\ t \notin Used(l)

StreamInv(l) == Divided(l) /\ Accounted(l) /\ Skipped(l)

IInv == Shape /\ History /\ \A l \in Locates : StreamInv(l)

\* The numbers used when one more is.
LEMMA UsedMore ==
  ASSUME NEW w \in Seq(Nat), NEW s \in Nat
  PROVE  /\ Append(w, s) \in Seq(Nat)
         /\ Range(Append(w, s)) = Range(w) \cup {s} /\ Last(Append(w, s)) = s
<1>1. /\ Len(w) \in Nat /\ DOMAIN w = 1..Len(w)
      /\ Append(w, s) \in Seq(Nat)
      /\ Len(Append(w, s)) = Len(w) + 1 /\ DOMAIN Append(w, s) = 1..(Len(w) + 1)
      /\ Append(w, s)[Len(w) + 1] = s
      /\ \A i \in 1..Len(w) : Append(w, s)[i] = w[i]
  OBVIOUS
<1>2. 1..(Len(w) + 1) = 1..Len(w) \cup {Len(w) + 1}
  BY <1>1
<1>3. Range(Append(w, s)) = Range(w) \cup {s}
  BY <1>1, <1>2 DEF Range
<1> QED
  BY <1>1, <1>3 DEF Last

\* Before the first datagram there is no history.
LEMMA InitIsDivided == Init => IInv
<1> SUFFICES ASSUME Init PROVE IInv
  OBVIOUS
<1>1. /\ h = [db |-> h.db, gap |-> h.gap] /\ DOMAIN h.gap = {}
      /\ covered = {} /\ reported = {}
  BY DEF Init, NewHandler, NoStreams
<1>2. Shape /\ History
  BY <1>1 DEF Init, Shape, History
<1>3. ASSUME NEW l \in Locates PROVE StreamInv(l)
  <2>1. Cursor(l) = 0 /\ first[l] = 0 /\ used[l] = << >>
    BY <1>1, <1>3 DEF Init, Cursor, expected
  <2>2. Used(l) = {} /\ Covers(l) = {} /\ Reports(l) = {}
    BY <1>1, <2>1 DEF Used, Range, Covers, Reports
  <2>3. LastSeq[l] \in Nat
    BY LastSeqIsNat
  <2> QED
    BY <2>1, <2>2, <2>3 DEF StreamInv, Divided, Accounted, Skipped
<1> QED
  BY <1>2, <1>3 DEF IInv

\* A stream keeps StreamInv whichever of the three happens to it.
LEMMA StreamKept ==
  ASSUME Shape, History, mode' = mode, NEW l \in Locates, StreamInv(l),
         StayStep(l) \/ TakeStep(l) \/ CatchStep(l)
  PROVE  StreamInv(l)'
<1>1. /\ LastSeq[l] \in Nat /\ Cursor(l) \in 0..(LastSeq[l] + 1)
      /\ Divided(l) /\ Accounted(l) /\ Skipped(l)
  BY LastSeqIsNat, CursorOfStream DEF StreamInv
<1>2. CASE StayStep(l)
  <2>1. /\ Cursor(l)' = Cursor(l) /\ first'[l] = first[l] /\ Used(l)' = Used(l)
        /\ Covers(l)' = Covers(l) /\ Reports(l) \subseteq Reports(l)'
        /\ mode = "skip" => Reports(l)' = Reports(l)
    BY <1>2 DEF StayStep, Used
  <2> QED
    BY <1>1, <2>1 DEF StreamInv, Divided, Accounted, Skipped
<1>3. CASE TakeStep(l)
  <2>1. PICK s \in Seqs(l), last \in 0..LastSeq[l] :
          /\ last < s /\ (mode # "requester" => last = 0)
          /\ Cursor(l) <= s /\ Cursor(l)' = s + 1
          /\ first'[l] = IF Cursor(l) = 0 THEN s ELSE first[l]
          /\ used'[l] = Append(used[l], s)
          /\ Covers(l)' = Covers(l) \cup (IF Cursor(l) = 0 THEN {} ELSE Cursor(l)..last)
          /\ Reports(l)' = Reports(l) \cup Between(l, s)
    BY <1>3 DEF TakeStep
  <2>2. s \in 1..LastSeq[l] /\ used[l] \in Seq(Nat)
    BY DEF Seqs, History
  <2>3. Used(l)' = Used(l) \cup {s}
    BY <2>1, <2>2, UsedMore DEF Used
  <2>4. Divided(l)'
    <3>1. /\ first'[l] \in 0..LastSeq[l] /\ first'[l] # 0 /\ Cursor(l)' # 0
          /\ first'[l] <= s /\ first'[l] < Cursor(l)'
          /\ Cursor(l) # 0 => first'[l] = first[l]
      BY <1>1, <2>1, <2>2 DEF Divided
    <3>2. ASSUME NEW t \in Used(l)'
          PROVE  t \in Seqs(l) /\ first'[l] <= t /\ t < Cursor(l)'
      <4>1. CASE t = s
        BY <2>1, <2>2, <3>1, <4>1
      <4>2. CASE t \in Used(l)
        <5>1. t \in Seqs(l) /\ first[l] <= t /\ t < Cursor(l)
          BY <1>1, <4>2 DEF Divided
        <5> QED
          BY <1>1, <2>1, <2>2, <3>1, <5>1 DEF Seqs
      <4> QED
        BY <2>3, <4>1, <4>2
    <3>3. ASSUME NEW t \in Covers(l)'
          PROVE  first'[l] <= t /\ t < Cursor(l)'
      <4>1. CASE t \in Covers(l)
        <5>1. first[l] <= t /\ t < Cursor(l) /\ t \in Seqs(l)
          BY <1>1, <4>1 DEF Divided, Covers
        <5> QED
          BY <1>1, <2>1, <2>2, <3>1, <5>1 DEF Seqs
      <4>2. CASE Cursor(l) # 0 /\ t \in Cursor(l)..last
        BY <1>1, <2>1, <2>2, <3>1, <4>2 DEF Divided
      <4> QED
        BY <2>1, <4>1, <4>2
    <3> QED
      BY <3>1, <3>2, <3>3 DEF Divided
  <2>5. Accounted(l)'
    <3> SUFFICES ASSUME NEW t \in Seqs(l), first'[l] # 0, first'[l] <= t, t < Cursor(l)'
                 PROVE  t \in Used(l)' \/ t \in Covers(l)' \/ t \in Reports(l)'
      BY DEF Accounted
    <3>1. CASE t = s
      BY <2>3, <3>1
    <3>2. CASE t # s
      <4>1. Cursor(l) # 0 /\ first'[l] = first[l] /\ t < s /\ t \in Nat
        BY <1>1, <2>1, <2>2, <3>2 DEF Seqs
      <4>2. CASE t < Cursor(l)
        BY <1>1, <2>1, <2>3, <4>1, <4>2 DEF Divided, Accounted
      <4>3. CASE ~(t < Cursor(l))
        BY <1>1, <2>1, <2>2, <4>1, <4>3 DEF Between
      <4> QED
        BY <4>2, <4>3
    <3> QED
      BY <3>1, <3>2
  <2>6. Skipped(l)'
    <3>1. mode # "requester" => Covers(l)' = {}
      BY <1>1, <2>1 DEF Skipped
    <3>2. ASSUME mode = "skip", NEW t \in Reports(l)'
          PROVE  first'[l] # 0 /\ first'[l] <= t /\ t < Cursor(l)' /\ t \notin Used(l)'
      <4>1. CASE t \in Reports(l)
        BY <1>1, <2>1, <2>2, <2>3, <3>2, <4>1 DEF Skipped, Reports, Seqs
      <4>2. CASE t \in Between(l, s)
        BY <1>1, <2>1, <2>2, <2>3, <4>2 DEF Divided, Between
      <4> QED
        BY <2>1, <4>1, <4>2
    <3> QED
      BY <3>1, <3>2 DEF Skipped
  <2> QED
    BY <2>4, <2>5, <2>6 DEF StreamInv
<1>4. CASE CatchStep(l)
  <2>1. PICK s \in Seqs(l), last \in Seqs(l) :
          /\ mode = "requester" /\ Cursor(l) # 0 /\ Cursor(l) < s /\ s <= last
          /\ Cursor(l)' = last + 1
          /\ first'[l] = first[l] /\ used'[l] = used[l]
          /\ Covers(l)' = Covers(l) \cup (Cursor(l)..last)
          /\ Reports(l)' = Reports(l) \cup Between(l, s)
    BY <1>4 DEF CatchStep
  <2>2. last \in 1..LastSeq[l] /\ Used(l)' = Used(l)
    BY <2>1 DEF Seqs, Used
  <2>3. Divided(l)'
    <3>1. /\ first[l] \in 0..LastSeq[l] /\ first[l] # 0 /\ first[l] < Cursor(l)
          /\ \A t \in Used(l) : t \in Seqs(l) /\ first[l] <= t /\ t < Cursor(l)
          /\ \A t \in Covers(l) : t \in Seqs(l) /\ first[l] <= t /\ t < Cursor(l)
      BY <1>1, <2>1 DEF Divided, Covers
    <3>2. \A t \in Used(l)' : t \in Seqs(l) /\ first[l] <= t /\ t < last + 1
      BY <1>1, <2>1, <2>2, <3>1 DEF Seqs
    <3>3. \A t \in Covers(l)' : first[l] <= t /\ t < last + 1
      BY <1>1, <2>1, <2>2, <3>1 DEF Seqs
    <3>4. /\ Cursor(l)' = last + 1 /\ first'[l] = first[l] /\ last + 1 # 0
          /\ first[l] < last + 1
      BY <1>1, <2>1, <2>2, <3>1 DEF Seqs
    <3> QED
      BY <3>1, <3>2, <3>3, <3>4 DEF Divided
  <2>4. Accounted(l)'
    BY <1>1, <2>1, <2>2 DEF Divided, Accounted, Seqs
  <2>5. Skipped(l)'
    BY <2>1 DEF Skipped
  <2> QED
    BY <2>3, <2>4, <2>5 DEF StreamInv
<1> QED
  BY <1>2, <1>3, <1>4

\* Every datagram keeps IInv.
LEMMA StepKeepsDivided == IInv /\ [Next]_vars => IInv'
<1> SUFFICES ASSUME IInv, [Next]_vars PROVE IInv'
  OBVIOUS
<1>1. Shape /\ History
  BY DEF IInv
<1>2. ASSUME NEW l \in Locates, NEW d \in Datagrams(l), NEW answer \in Answers(l),
             Receive(d, answer)
      PROVE  IInv'
  <2>1. /\ Shape' /\ History' /\ mode' = mode
        /\ \A k \in Locates : StayStep(k) \/ TakeStep(k) \/ CatchStep(k)
    BY <1>1, <1>2, StreamStep
  <2>2. ASSUME NEW k \in Locates PROVE StreamInv(k)'
    BY <1>1, <2>1, StreamKept DEF IInv
  <2> QED
    BY <2>1, <2>2 DEF IInv
<1>3. CASE UNCHANGED vars
  BY <1>3 DEF vars, IInv, Shape, History, StreamInv, Divided, Accounted, Skipped, Cursor,
              Used, Covers, Reports
<1> QED
  BY <1>2, <1>3 DEF Next

-----------------------------------------------------------------------------
\* IInv holds in every reachable state.
LEMMA AlwaysDivided == Spec => []IInv
  BY InitIsDivided, StepKeepsDivided, PTL DEF Spec

\* The handler tracks the streams it has joined, and its history is of them.
THEOREM TypeCorrect == Spec => []TypeOK
<1>1. ASSUME IInv PROVE TypeOK
  <2>1. ASSUME NEW l \in Locates
        PROVE  first[l] \in 0..LastSeq[l] /\ (first[l] = 0 <=> l \notin DOMAIN h.gap)
    BY <1>1, CursorOfStream DEF IInv, StreamInv, Divided
  <2> QED
    BY <1>1, <2>1 DEF IInv, Shape, TypeOK
<1> QED
  BY <1>1, AlwaysDivided, PTL

\* No message is passed over in silence, whatever is lost, repeated, late or
\* damaged and whatever the provider answers (observe, on_gap, apply_snapshot).
THEOREM NothingSkippedSilently == Spec => []NoSilentSkip
<1>1. ASSUME IInv PROVE NoSilentSkip
  <2> SUFFICES ASSUME NEW l \in Locates, NEW s \in first[l]..(Cursor(l) - 1), first[l] > 0
               PROVE  s \in Used(l) \/ <<l, s>> \in covered \cup reported
    BY DEF NoSilentSkip
  <2>1. StreamInv(l) /\ Cursor(l) \in 0..(LastSeq[l] + 1) /\ LastSeq[l] \in Nat
    BY <1>1, CursorOfStream, LastSeqIsNat DEF IInv
  <2>2. s \in Seqs(l) /\ first[l] # 0 /\ first[l] <= s /\ s < Cursor(l)
    BY <2>1 DEF StreamInv, Divided, Seqs
  <2> QED
    BY <2>1, <2>2 DEF StreamInv, Accounted, Covers, Reports
<1> QED
  BY <1>1, AlwaysDivided, PTL

\* With skip-mode on the ranges the gap observer is told are an exact account
\* of what was not applied (observe, on_gap, on_datagram).
THEOREM AccountExact == Spec => []SkipAccountingIsExact
<1>1. ASSUME IInv PROVE SkipAccountingIsExact
  <2> SUFFICES ASSUME mode = "skip", NEW l \in Locates
               PROVE  /\ Used(l) \cap Reports(l) = {}
                      /\ Used(l) \cup Reports(l) =
                           {s \in Seqs(l) : 0 < first[l] /\ first[l] <= s /\ s < Cursor(l)}
    BY DEF SkipAccountingIsExact, Reports
  <2>1. /\ StreamInv(l) /\ first[l] \in Nat /\ LastSeq[l] \in Nat
        /\ Cursor(l) \in 0..(LastSeq[l] + 1)
    BY <1>1, CursorOfStream, LastSeqIsNat DEF IInv, History
  <2>2. Covers(l) = {} /\ Used(l) \subseteq Seqs(l) /\ Reports(l) \subseteq Seqs(l)
    BY <2>1 DEF StreamInv, Divided, Skipped, Reports
  <2>3. ASSUME NEW t \in Used(l) PROVE t \notin Reports(l)
    BY <2>1 DEF StreamInv, Skipped
  <2>4. ASSUME NEW t \in Seqs(l)
        PROVE  t \in Used(l) \cup Reports(l) <=>
                 0 < first[l] /\ first[l] <= t /\ t < Cursor(l)
    <3>1. t \in Nat /\ (0 < first[l] <=> first[l] # 0)
      BY <2>1 DEF Seqs
    <3>2. t \in Used(l) => 0 < first[l] /\ first[l] <= t /\ t < Cursor(l)
      BY <2>1, <3>1 DEF StreamInv, Divided
    <3>3. t \in Reports(l) => 0 < first[l] /\ first[l] <= t /\ t < Cursor(l)
      BY <2>1, <3>1 DEF StreamInv, Skipped
    <3>4. 0 < first[l] /\ first[l] <= t /\ t < Cursor(l) => t \in Used(l) \cup Reports(l)
      BY <2>1, <2>2, <3>1 DEF StreamInv, Accounted
    <3> QED
      BY <3>2, <3>3, <3>4
  <2> QED
    BY <2>2, <2>3, <2>4
<1> QED
  BY <1>1, AlwaysDivided, PTL

\* A message is decoded at most once, in the order of its stream, and not when
\* an installed snapshot holds it (on_datagram, on_gap).
THEOREM OnceInOrder == Spec => UsedOnceInOrder
<1>1. ASSUME IInv, [Next]_vars, NEW l \in Locates, used'[l] # used[l], NEW t \in Seqs(l),
             t \in Used(l) \/ <<l, t>> \in covered'
      PROVE  t < Last(used'[l])
  <2>1. TakeStep(l)
    <3>1. \A k \in Locates : StayStep(k) \/ TakeStep(k) \/ CatchStep(k) \/ used'[k] = used[k]
      BY <1>1, StreamStep DEF IInv, Next, vars
    <3> QED
      BY <1>1, <3>1 DEF StayStep, CatchStep
  <2>2. PICK s \in Seqs(l), last \in 0..LastSeq[l] :
          /\ last < s /\ Cursor(l) <= s /\ used'[l] = Append(used[l], s)
          /\ Covers(l)' = Covers(l) \cup (IF Cursor(l) = 0 THEN {} ELSE Cursor(l)..last)
    BY <2>1 DEF TakeStep
  <2>3. /\ LastSeq[l] \in Nat /\ Cursor(l) \in 0..(LastSeq[l] + 1) /\ Divided(l)
        /\ used[l] \in Seq(Nat)
    BY <1>1, LastSeqIsNat, CursorOfStream DEF IInv, StreamInv, History
  <2>4. s \in Nat /\ t \in Nat /\ Last(used'[l]) = s
    BY <2>2, <2>3, UsedMore DEF Seqs
  <2>5. t \in Used(l) \/ t \in Covers(l)'
    BY <1>1 DEF Covers
  <2>6. CASE t \in Used(l) \/ t \in Covers(l)
    BY <2>2, <2>3, <2>4, <2>6 DEF Divided
  <2>7. CASE t \in Cursor(l)..last
    BY <2>2, <2>3, <2>4, <2>7
  <2> QED
    BY <2>2, <2>5, <2>6, <2>7
<1>2. IInv /\ [Next]_vars =>
        \A l \in Locates :
          used'[l] # used[l] =>
            \A t \in Seqs(l) : t \in Used(l) \/ <<l, t>> \in covered' => t < Last(used'[l])
  BY <1>1
<1>3. Spec => [][Next]_vars
  BY PTL DEF Spec
<1> QED
  BY <1>2, <1>3, AlwaysDivided, PTL DEF UsedOnceInOrder

-----------------------------------------------------------------------------
(***************************************************************************)
(* FeedHandler implements SequencedFeed.                                   *)
(***************************************************************************)

\* The fates of a stream that no datagram came for stay what they are.
LEMMA FatesStay ==
  ASSUME NEW l \in Locates, StreamInv(l), StayStep(l), Cursor(l) \in Nat
  PROVE  Cursor(l)' = Cursor(l) /\ \A t \in Seqs(l) : FateOf(l, t)' = FateOf(l, t)
<1>1. /\ Cursor(l)' = Cursor(l) /\ first'[l] = first[l] /\ Used(l)' = Used(l)
      /\ Covers(l)' = Covers(l)
  BY DEF StayStep, Used
<1>2. \A t \in Seqs(l) : /\ <<l, t>> \in covered' <=> <<l, t>> \in covered
                         /\ t < Cursor(l) => (<<l, t>> \in reported' <=> <<l, t>> \in reported)
  BY <1>1 DEF StayStep, Covers, Reports, Seqs
<1> QED
  BY <1>1, <1>2 DEF FateOf

\* The fates of the numbers a taken datagram moves the cursor past.
LEMMA FatesOfTaken ==
  ASSUME History, NEW l \in Locates, StreamInv(l), Cursor(l) \in 0..(LastSeq[l] + 1), TakeStep(l)
  PROVE  \E s \in Seqs(l), last \in 0..LastSeq[l] :
           /\ last < s /\ Cursor(l) <= s /\ Cursor(l)' = s + 1
           /\ \A t \in Seqs(l) : FateOf(l, t)' =
                IF Cursor(l) <= t /\ t < s + 1
                THEN IF t = s THEN "used"
                     ELSE IF Cursor(l) = 0 THEN "head"
                     ELSE IF t <= last THEN "covered" ELSE "missed"
                ELSE FateOf(l, t)
<1>1. PICK s \in Seqs(l), last \in 0..LastSeq[l] :
        /\ last < s /\ Cursor(l) <= s /\ Cursor(l)' = s + 1
        /\ first'[l] = IF Cursor(l) = 0 THEN s ELSE first[l]
        /\ used'[l] = Append(used[l], s)
        /\ Covers(l)' = Covers(l) \cup (IF Cursor(l) = 0 THEN {} ELSE Cursor(l)..last)
        /\ Reports(l)' = Reports(l) \cup Between(l, s)
  BY DEF TakeStep
<1>2. LastSeq[l] \in Nat /\ s \in 1..LastSeq[l] /\ Divided(l)
  BY LastSeqIsNat DEF Seqs, StreamInv
<1>3. Used(l)' = Used(l) \cup {s}
  BY <1>1, <1>2, UsedMore DEF Used, History
<1>4. ASSUME NEW t \in Seqs(l)
      PROVE  FateOf(l, t)' =
               IF Cursor(l) <= t /\ t < s + 1
               THEN IF t = s THEN "used"
                    ELSE IF Cursor(l) = 0 THEN "head"
                    ELSE IF t <= last THEN "covered" ELSE "missed"
               ELSE FateOf(l, t)
  <2>1. /\ t \in Nat /\ t >= 1
        /\ <<l, t>> \in covered' <=>
             <<l, t>> \in covered \/ (Cursor(l) # 0 /\ t \in Cursor(l)..last)
        /\ <<l, t>> \in reported' <=> <<l, t>> \in reported \/ t \in Between(l, s)
        /\ t \in Used(l)' <=> t \in Used(l) \/ t = s
    BY <1>1, <1>3 DEF Seqs, Covers, Reports
  <2>2. /\ t \in Used(l) => t < Cursor(l)
        /\ <<l, t>> \in covered => t < Cursor(l)
    BY <1>2 DEF Divided, Covers
  <2>3. CASE t > s
    <3>1. t >= Cursor(l)' /\ t >= Cursor(l)
      BY <1>1, <1>2, <2>1, <2>3
    <3> QED
      BY <1>1, <1>2, <2>1, <2>3, <3>1 DEF FateOf
  <2>4. CASE t = s
    <3>1. t < Cursor(l)' /\ t \in Used(l)'
      BY <1>1, <1>2, <2>1, <2>4
    <3> QED
      BY <1>1, <1>2, <2>1, <2>4, <3>1 DEF FateOf
  <2>5. CASE t < s /\ Cursor(l) = 0
    <3>1. t < Cursor(l)' /\ t \notin Used(l)' /\ t < first'[l]
      BY <1>1, <1>2, <2>1, <2>2, <2>5
    <3> QED
      BY <1>1, <1>2, <2>1, <2>5, <3>1 DEF FateOf
  <2>6. CASE t < s /\ Cursor(l) # 0 /\ Cursor(l) <= t
    <3>1. t < Cursor(l)' /\ t \notin Used(l)' /\ ~(t < first'[l]) /\ t \in Between(l, s)
      BY <1>1, <1>2, <2>1, <2>2, <2>6 DEF Divided, Between
    <3>2. /\ <<l, t>> \in covered' <=> t <= last
          /\ <<l, t>> \in reported'
      BY <1>1, <1>2, <2>1, <2>2, <2>6, <3>1
    <3> QED
      BY <1>1, <1>2, <2>1, <2>6, <3>1, <3>2 DEF FateOf
  <2>7. CASE t < s /\ t < Cursor(l)
    <3>1. /\ t < Cursor(l)' /\ first'[l] = first[l]
          /\ t \in Used(l)' <=> t \in Used(l)
          /\ <<l, t>> \in covered' <=> <<l, t>> \in covered
          /\ <<l, t>> \in reported' <=> <<l, t>> \in reported
      BY <1>1, <1>2, <2>1, <2>7 DEF Between
    <3>2. FateOf(l, t)' = FateOf(l, t)
      BY <1>1, <1>2, <2>1, <2>7, <3>1 DEF FateOf
    <3> QED
      BY <1>2, <2>1, <2>7, <3>2
  <2> QED
    BY <1>2, <2>1, <2>3, <2>4, <2>5, <2>6, <2>7
<1> QED
  BY <1>1, <1>4

\* The fates of the numbers a snapshot moves the cursor past.
LEMMA FatesOfCaught ==
  ASSUME NEW l \in Locates, StreamInv(l), Cursor(l) \in 0..(LastSeq[l] + 1), CatchStep(l)
  PROVE  \E last \in Seqs(l) :
           /\ Cursor(l) # 0 /\ Cursor(l) <= last /\ Cursor(l)' = last + 1
           /\ \A t \in Seqs(l) : FateOf(l, t)' =
                IF Cursor(l) <= t /\ t < last + 1 THEN "covered" ELSE FateOf(l, t)
<1>1. PICK s \in Seqs(l), last \in Seqs(l) :
        /\ Cursor(l) # 0 /\ Cursor(l) < s /\ s <= last /\ Cursor(l)' = last + 1
        /\ first'[l] = first[l] /\ used'[l] = used[l]
        /\ Covers(l)' = Covers(l) \cup (Cursor(l)..last)
        /\ Reports(l)' = Reports(l) \cup Between(l, s)
  BY DEF CatchStep
<1>2. /\ LastSeq[l] \in Nat /\ s \in 1..LastSeq[l] /\ last \in 1..LastSeq[l] /\ Divided(l)
      /\ Used(l)' = Used(l)
  BY <1>1, LastSeqIsNat DEF Seqs, StreamInv, Used
<1>3. ASSUME NEW t \in Seqs(l)
      PROVE  FateOf(l, t)' =
               IF Cursor(l) <= t /\ t < last + 1 THEN "covered" ELSE FateOf(l, t)
  <2>1. /\ t \in Nat /\ t >= 1
        /\ <<l, t>> \in covered' <=> <<l, t>> \in covered \/ t \in Cursor(l)..last
        /\ <<l, t>> \in reported' <=> <<l, t>> \in reported \/ t \in Between(l, s)
        /\ t \in Used(l) => t < Cursor(l)
    BY <1>1, <1>2 DEF Seqs, Covers, Reports, Divided
  <2>2. CASE t > last
    <3>1. t >= Cursor(l)' /\ t >= Cursor(l)
      BY <1>1, <1>2, <2>1, <2>2
    <3> QED
      BY <1>1, <1>2, <2>1, <2>2, <3>1 DEF FateOf
  <2>3. CASE t <= last /\ Cursor(l) <= t
    <3>1. /\ t < Cursor(l)' /\ t \notin Used(l)' /\ ~(t < first'[l])
          /\ <<l, t>> \in covered'
      BY <1>1, <1>2, <2>1, <2>3 DEF Divided
    <3> QED
      BY <1>1, <1>2, <2>1, <2>3, <3>1 DEF FateOf
  <2>4. CASE t < Cursor(l)
    <3>1. /\ t < Cursor(l)'
          /\ <<l, t>> \in covered' <=> <<l, t>> \in covered
          /\ <<l, t>> \in reported' <=> <<l, t>> \in reported
      BY <1>1, <1>2, <2>1, <2>4 DEF Between
    <3>2. FateOf(l, t)' = FateOf(l, t)
      BY <1>1, <1>2, <2>1, <2>4, <3>1 DEF FateOf
    <3> QED
      BY <1>2, <2>1, <2>4, <3>2
  <2> QED
    BY <1>2, <2>1, <2>2, <2>3, <2>4
<1> QED
  BY <1>1, <1>2, <1>3

\* A stream that moves while the others stay moves in the abstract state only.
LEMMA OneStreamMoves ==
  ASSUME NEW l \in Locates,
         \A k \in Locates : k # l =>
            Cursor(k)' = Cursor(k) /\ \A t \in Seqs(k) : FateOf(k, t)' = FateOf(k, t)
  PROVE  /\ Cursors' = [Cursors EXCEPT ![l] = Cursor(l)']
         /\ FatesOf' = [FatesOf EXCEPT ![l] = [t \in Seqs(l) |-> FateOf(l, t)']]
         /\ Cursors[l] = Cursor(l)
         /\ FatesOf[l] = [t \in Seqs(l) |-> FateOf(l, t)]
  BY DEF Cursors, FatesOf, Seqs, LastSeq

\* Whatever a datagram meets, the abstract feed makes a step or none.
LEMMA StepMapped == IInv /\ [Next]_vars => [Abstract!Next]_<<Cursors, FatesOf>>
<1> SUFFICES ASSUME IInv, [Next]_vars PROVE [Abstract!Next]_<<Cursors, FatesOf>>
  OBVIOUS
<1>1. CASE UNCHANGED vars
  BY <1>1 DEF vars, Cursors, FatesOf, Cursor, FateOf, Used
<1>2. ASSUME NEW l \in Locates, NEW d \in Datagrams(l), NEW answer \in Answers(l),
             Receive(d, answer)
      PROVE  [Abstract!Next]_<<Cursors, FatesOf>>
  <2>1. /\ Shape /\ History /\ \A k \in Locates : StreamInv(k)
        /\ LastSeq[l] \in Nat
        /\ \A k \in Locates : Cursor(k) \in 0..(LastSeq[k] + 1) /\ Cursor(k) \in Nat
    BY LastSeqIsNat, CursorOfStream DEF IInv
  <2>2. /\ StayStep(l) \/ TakeStep(l) \/ CatchStep(l)
        /\ \A k \in Locates : k # l => StayStep(k)
    BY <1>2, <2>1, StreamStep
  <2>3. \A k \in Locates : k # l =>
          Cursor(k)' = Cursor(k) /\ \A t \in Seqs(k) : FateOf(k, t)' = FateOf(k, t)
    BY <2>1, <2>2, FatesStay
  <2>4. /\ Cursors' = [Cursors EXCEPT ![l] = Cursor(l)']
        /\ FatesOf' = [FatesOf EXCEPT ![l] = [t \in Seqs(l) |-> FateOf(l, t)']]
        /\ Cursors[l] = Cursor(l)
        /\ FatesOf[l] = [t \in Seqs(l) |-> FateOf(l, t)]
    BY <2>3, OneStreamMoves
  <2>5. CASE StayStep(l)
    <3>1. \A k \in Locates :
            Cursor(k)' = Cursor(k) /\ \A t \in Seqs(k) : FateOf(k, t)' = FateOf(k, t)
      BY <2>1, <2>3, <2>5, FatesStay
    <3> QED
      BY <3>1 DEF Cursors, FatesOf, Seqs, LastSeq
  <2>6. CASE TakeStep(l)
    <3>1. PICK s \in Seqs(l), last \in 0..LastSeq[l] :
            /\ last < s /\ Cursor(l) <= s /\ Cursor(l)' = s + 1
            /\ \A t \in Seqs(l) : FateOf(l, t)' =
                 IF Cursor(l) <= t /\ t < s + 1
                 THEN IF t = s THEN "used"
                      ELSE IF Cursor(l) = 0 THEN "head"
                      ELSE IF t <= last THEN "covered" ELSE "missed"
                 ELSE FateOf(l, t)
      BY <2>1, <2>6, FatesOfTaken
    <3>2. CASE Cursor(l) = 0
      <4>1. [t \in Seqs(l) |-> FateOf(l, t)'] =
              [t \in Seqs(l) |-> IF Cursors[l] <= t /\ t < s + 1
                                 THEN (IF t = s THEN "used" ELSE "head") ELSE FatesOf[l][t]]
        BY <2>4, <3>1, <3>2
      <4>2. Abstract!Join(l)
        BY <2>4, <3>1, <3>2, <4>1 DEF Abstract!Join, Abstract!Advance, Abstract!Seqs, Seqs
      <4> QED
        BY <4>2 DEF Abstract!Next
    <3>3. CASE Cursor(l) # 0 /\ Cursor(l) = s
      <4>1. [t \in Seqs(l) |-> FateOf(l, t)'] =
              [t \in Seqs(l) |-> IF Cursors[l] <= t /\ t < s + 1
                                 THEN "used" ELSE FatesOf[l][t]]
        BY <2>1, <2>4, <3>1, <3>3 DEF Seqs
      <4>2. Abstract!Use(l)
        BY <2>4, <3>1, <3>3, <4>1 DEF Abstract!Use, Abstract!Advance, Abstract!Seqs, Seqs
      <4> QED
        BY <4>2 DEF Abstract!Next
    <3>4. CASE Cursor(l) # 0 /\ Cursor(l) # s
      <4>1. [t \in Seqs(l) |-> FateOf(l, t)'] =
              [t \in Seqs(l) |-> IF Cursors[l] <= t /\ t < s + 1
                                 THEN (IF t = s THEN "used"
                                       ELSE IF t <= last THEN "covered" ELSE "missed")
                                 ELSE FatesOf[l][t]]
        BY <2>4, <3>1, <3>4
      <4>2. Cursor(l) > 0 /\ Cursor(l) < s
        BY <2>1, <3>1, <3>4 DEF Seqs
      <4>3. Abstract!Jump(l)
        <5>1. /\ s \in Abstract!Seqs(l) /\ Cursors[l] > 0 /\ Cursors[l] < s /\ last < s
              /\ Cursors' = [Cursors EXCEPT ![l] = s + 1]
          BY <2>4, <3>1, <4>2 DEF Abstract!Seqs, Seqs
        <5>2. FatesOf' = [FatesOf EXCEPT ![l] =
                [t \in Abstract!Seqs(l) |-> IF Cursors[l] <= t /\ t < s + 1
                                            THEN (IF t = s THEN "used"
                                                  ELSE IF t <= last THEN "covered" ELSE "missed")
                                            ELSE @[t]]]
          BY <2>4, <4>1 DEF Abstract!Seqs, Seqs
        <5> QED
          BY <5>1, <5>2 DEF Abstract!Jump, Abstract!Advance
      <4> QED
        BY <4>3 DEF Abstract!Next
    <3> QED
      BY <3>2, <3>3, <3>4
  <2>7. CASE CatchStep(l)
    <3>1. PICK last \in Seqs(l) :
            /\ Cursor(l) # 0 /\ Cursor(l) <= last /\ Cursor(l)' = last + 1
            /\ \A t \in Seqs(l) : FateOf(l, t)' =
                 IF Cursor(l) <= t /\ t < last + 1 THEN "covered" ELSE FateOf(l, t)
      BY <2>1, <2>7, FatesOfCaught
    <3>2. [t \in Seqs(l) |-> FateOf(l, t)'] =
            [t \in Seqs(l) |-> IF Cursors[l] <= t /\ t < last + 1
                               THEN "covered" ELSE FatesOf[l][t]]
      BY <2>4, <3>1
    <3>3. Cursor(l) > 0
      BY <2>1, <3>1
    <3>4. Abstract!Catchup(l)
      BY <2>4, <3>1, <3>2, <3>3 DEF Abstract!Catchup, Abstract!Advance, Abstract!Seqs, Seqs
    <3> QED
      BY <3>4 DEF Abstract!Next
  <2> QED
    BY <2>2, <2>5, <2>6, <2>7
<1> QED
  BY <1>1, <1>2 DEF Next

\* FeedHandler implements SequencedFeed: under loss, repetition, reordering,
\* damage and every answer of the provider, a stream's cursor only moves forward
\* and each number it passes has one fate that never changes.
THEOREM HandlerImplements == Spec => ImplementsSequencedFeed
<1>1. Init => Abstract!Init
  <2> SUFFICES ASSUME Init PROVE Abstract!Init
    OBVIOUS
  <2>1. \A l \in Locates : Cursor(l) = 0
    BY DEF Init, NewHandler, NoStreams, Cursor, expected
  <2>2. \A l \in Locates : \A t \in Seqs(l) : FateOf(l, t) = "none"
    BY <2>1 DEF FateOf, Seqs
  <2> QED
    BY <2>1, <2>2 DEF Cursors, FatesOf, Abstract!Init, Abstract!Seqs, Seqs
<1>2. Spec => [][Next]_vars
  BY PTL DEF Spec
<1> QED
  BY <1>1, <1>2, StepMapped, AlwaysDivided, PTL
     DEF Spec, ImplementsSequencedFeed, Abstract!Spec

-----------------------------------------------------------------------------
(***************************************************************************)
(* The books.  They are sound, whatever the datagrams do to the order-id   *)
(* index: an installed snapshot leaves entries of orders that are gone,    *)
(* and a message may name an order that is not there.                      *)
(***************************************************************************)

\* A message of the feed keeps the books sound.
LEMMA MessageKeepsBooks ==
  ASSUME NEW d, Books(d, Symbols), NEW m \in Messages
  PROVE  Books(apply(d, m).db, Symbols)
<1>1. CASE m.type \in {"A", "F"}
  <2>1. /\ m = AddMsg(m.type, m.symbol, m.order_id, m.side, m.price, m.shares)
        /\ m.symbol \in Symbols /\ m.order_id \in OrderIds /\ m.side \in Side
        /\ m.price \in Prices /\ m.shares \in Quantities
    BY <1>1 DEF Messages, AddMsg
  <2>2. apply(d, m) = apply_add(d, m)
    BY <1>1 DEF apply
  <2> QED
    BY <2>1, <2>2, AddStep
<1>2. CASE m.type \in {"E", "C", "X"}
  <2>1. /\ m = ReduceMsg(m.type, m.order_id, m.shares)
        /\ m.order_id \in OrderIds /\ m.shares \in Quantities
    BY <1>2 DEF Messages, ReduceMsg
  <2>2. apply(d, m) = apply_reduce(d, m)
    BY <1>2 DEF apply
  <2> QED
    BY <2>1, <2>2, ReduceStep
<1>3. CASE m.type = "D"
  <2>1. m = DeleteMsg(m.order_id) /\ m.order_id \in OrderIds
    BY <1>3 DEF Messages, DeleteMsg
  <2>2. apply(d, m) = apply_delete(d, m)
    BY <1>3 DEF apply
  <2> QED
    BY <2>1, <2>2, DeleteStep
<1>4. CASE m.type = "U"
  <2>1. /\ m = ReplaceMsg(m.order_id, m.new_order_id, m.price, m.shares)
        /\ m.order_id \in OrderIds /\ m.new_order_id \in OrderIds
        /\ m.price \in Prices /\ m.shares \in Quantities
    BY <1>4 DEF Messages, ReplaceMsg
  <2>2. apply(d, m) = apply_replace(d, m)
    BY <1>4 DEF apply
  <2> QED
    BY <2>1, <2>2, ReplaceStep
<1>5. CASE m.type \notin {"A", "F", "E", "C", "X", "D", "U"}
  BY <1>5 DEF apply, NoChange
<1> QED
  BY <1>1, <1>2, <1>3, <1>4, <1>5

\* So does a snapshot whose levels are levels in use.
LEMMA SnapshotKeepsBooks ==
  ASSUME NEW g, Books(g.db, Symbols), NEW snap, snap.symbol \in Symbols,
         snap.bids \in Seq(LevelsInUse), snap.asks \in Seq(LevelsInUse),
         DOMAIN SnapshotBook(snap).orders \subseteq OrderIds
  PROVE  Books(apply_snapshot(g, snap).db, Symbols)
<1> DEFINE sym == snap.symbol
           b == SnapshotBook(snap)
           c == book_for(g.db, sym)
           e == [c EXCEPT !.books[sym] = b]
<1>1. Sound(b)
  BY SnapshotIsSound DEF Ids
<1>2. Books(c, Symbols) /\ sym \in DOMAIN c.books
  BY BookFor
<1>3. apply_snapshot(g, snap).db = e
  BY DEF apply_snapshot
<1> HIDE DEF b, c, sym
<1>4. e = [c EXCEPT !.books[sym] = b, !.index = c.index]
  <2>1. c = [depth |-> c.depth, books |-> c.books, index |-> c.index]
    BY <1>2 DEF Books
  <2> QED
    BY <2>1
<1>5. IsMap(c.index, OrderIds, DOMAIN c.books)
  BY <1>2 DEF Books
<1>6. Books([c EXCEPT !.books[sym] = b, !.index = c.index], Symbols)
  BY <1>1, <1>2, <1>5, BooksStep
<1> QED
  BY <1>3, <1>4, <1>6

\* a datagram whose frame, if it decodes, is a message of the feed
Legible(d) == d.frame \in Messages \cup {BadFrame, ShortFrame}

\* advance is about the cursors alone.
LEMMA AdvanceKeepsBooks ==
  ASSUME NEW g, IsHandler(g), NEW l, NEW s
  PROVE  advance(g, l, s).db = g.db
<1>1. [g EXCEPT !.gap = set_expected(@, l, s + 1)].db = g.db
  BY DEF IsHandler
<1> QED
  BY <1>1 DEF advance

\* The decoder gets a frame that was not cut short.
LEMMA DecodingKeepsBooks ==
  ASSUME NEW g, IsHandler(g), Books(g.db, Symbols), NEW d, Legible(d), d.frame # ShortFrame,
         NEW missing, NEW installed
  PROVE  Books(decode_and_apply(g, d, missing, installed).h.db, Symbols)
<1>1. CASE d.frame = BadFrame
  BY <1>1 DEF decode_and_apply, Result
<1>2. CASE d.frame # BadFrame
  <2> DEFINE applied == [g EXCEPT !.db = apply(@, d.frame).db]
  <2>1. applied.db = apply(g.db, d.frame).db
    BY DEF IsHandler
  <2>2. Books(apply(g.db, d.frame).db, Symbols)
    BY <1>2, MessageKeepsBooks DEF Legible
  <2>3. decode_and_apply(g, d, missing, installed).h = applied
    BY <1>2 DEF decode_and_apply, Result
  <2> HIDE DEF applied
  <2> QED
    BY <2>1, <2>2, <2>3
<1> QED
  BY <1>1, <1>2

\* a snapshot the provider may answer with
Provided(answer) ==
  answer.kind = "recovered" =>
    /\ answer.snap.symbol \in Symbols
    /\ answer.snap.bids \in Seq(LevelsInUse) /\ answer.snap.asks \in Seq(LevelsInUse)
    /\ DOMAIN SnapshotBook(answer.snap).orders \subseteq OrderIds

\* on_gap, which installs the snapshot before it decodes.
LEMMA GapKeepsBooks ==
  ASSUME NEW g, IsHandler(g), Books(g.db, Symbols), NEW d, Legible(d), d.frame # ShortFrame,
         NEW answer, Provided(answer),
         answer.kind \in {"refused", "stall", "skip", "recovered"}
  PROVE  Books(on_gap(g, d, answer).h.db, Symbols)
<1> DEFINE missing == expected(g.gap, d.loc)..(d.seq - 1)
<1>1. CASE answer.kind \in {"refused", "stall"}
  BY <1>1 DEF on_gap, Result
<1>2. CASE answer.kind = "skip"
  <2>1. on_gap(g, d, answer) = decode_and_apply(advance(g, d.loc, d.seq), d, missing, FALSE)
    BY <1>2 DEF on_gap
  <2>2. IsHandler(advance(g, d.loc, d.seq)) /\ Books(advance(g, d.loc, d.seq).db, Symbols)
    BY Advancing, AdvanceKeepsBooks
  <2> QED
    BY <2>1, <2>2, DecodingKeepsBooks
<1>3. CASE answer.kind = "recovered"
  <2> DEFINE r == apply_snapshot(g, answer.snap)
             f == advance(r, d.loc, d.seq)
  <2>1. IsHandler(r) /\ Books(r.db, Symbols)
    BY <1>3, Installing, SnapshotKeepsBooks DEF Provided
  <2>2. on_gap(g, d, answer) = IF d.seq < expected(r.gap, d.loc)
                               THEN Result(r, "covered", missing, TRUE)
                               ELSE decode_and_apply(f, d, missing, TRUE)
    BY <1>3 DEF on_gap
  <2> HIDE DEF r
  <2>3. IsHandler(f) /\ Books(f.db, Symbols)
    BY <2>1, Advancing, AdvanceKeepsBooks
  <2> HIDE DEF f, missing
  <2>4. Books(decode_and_apply(f, d, missing, TRUE).h.db, Symbols)
    BY <2>3, DecodingKeepsBooks
  <2>5. Books(Result(r, "covered", missing, TRUE).h.db, Symbols)
    BY <2>1 DEF Result
  <2> QED
    BY <2>2, <2>4, <2>5
<1> QED
  BY <1>1, <1>2, <1>3

\* on_datagram.
LEMMA DatagramKeepsBooks ==
  ASSUME NEW g, IsHandler(g), Books(g.db, Symbols), NEW d, Legible(d),
         NEW answer, Provided(answer),
         answer.kind \in {"refused", "stall", "skip", "recovered"},
         d.seq \in Nat, d.loc \in DOMAIN g.gap => g.gap[d.loc] \in Nat
  PROVE  Books(on_datagram(g, d, answer).h.db, Symbols)
<1> DEFINE obs == observe(g.gap, d.loc, d.seq)
           joined == [g EXCEPT !.gap = obs.expected]
           f == advance(joined, d.loc, d.seq)
<1>1. CASE d.frame = ShortFrame
  BY <1>1 DEF on_datagram, Result
<1>2. CASE d.frame # ShortFrame /\ d.seq = 0
  BY <1>2, DecodingKeepsBooks DEF on_datagram
<1>3. CASE d.frame # ShortFrame /\ d.seq # 0
  <2>1. obs.verdict \in {"stale", "gap", "ok"}
    BY DEF observe
  <2>2. CASE obs.verdict = "stale"
    BY <1>3, <2>2 DEF on_datagram, Result
  <2>3. CASE obs.verdict = "gap"
    BY <1>3, <2>3, GapKeepsBooks DEF on_datagram
  <2>4. CASE obs.verdict = "ok"
    <3>1. on_datagram(g, d, answer) = decode_and_apply(f, d, {}, FALSE)
      BY <1>3, <2>4 DEF on_datagram
    <3>2. IsHandler(joined) /\ joined.db = g.db
      BY DEF IsHandler
    <3> HIDE DEF joined
    <3>3. IsHandler(f) /\ f.db = g.db
      BY <3>2, Advancing, AdvanceKeepsBooks
    <3> HIDE DEF f
    <3> QED
      BY <1>3, <3>1, <3>3, DecodingKeepsBooks
  <2> QED
    BY <2>1, <2>2, <2>3, <2>4
<1> QED
  BY <1>1, <1>2, <1>3

\* What arrives and what is answered is of the feed.
LEMMA FeedDelivers ==
  ASSUME FeedDomain, Shape, NEW l \in Locates, NEW d \in Datagrams(l), NEW answer \in Answers(l)
  PROVE  /\ Legible(d) /\ Provided(answer)
         /\ answer.kind \in {"refused", "stall", "skip", "recovered"}
<1>1. \A s \in 1..LastSeq[l] : Frame[l][s] \in Messages
  BY FeedHandlerAssumption DEF FeedDomain, LastSeq
<1>2. OtherMsg("R") \in Messages
  BY DEF OtherMsg, Messages
<1>3. Legible(d)
  <2>1. PICK s \in 0..LastSeq[l] :
          d.frame \in {IF s = 0 THEN OtherMsg("R") ELSE Frame[l][s], BadFrame, ShortFrame}
    BY DEF Datagrams
  <2>2. s # 0 => s \in 1..LastSeq[l]
    BY LastSeqIsNat
  <2> QED
    BY <1>1, <1>2, <2>1, <2>2 DEF Legible
<1>4. CASE answer \in {SkipGaps, Stall, Refused}
  <2>1. answer.kind \in {"refused", "stall", "skip"}
    BY <1>4 DEF SkipGaps, Stall, Refused
  <2> QED
    BY <1>3, <2>1 DEF Provided
<1>5. CASE answer \notin {SkipGaps, Stall, Refused}
  <2>1. PICK lad \in SnapshotLadders, last \in 0..LastSeq[l] :
          answer = Recovered([stock_locate |-> l, symbol |-> SymbolOf[l], bids |-> lad.bids,
                              asks |-> lad.asks, last_applied_seq |-> last])
    BY <1>5 DEF Answers, Shape
  <2>2. /\ answer.kind = "recovered" /\ answer.snap.symbol = SymbolOf[l]
        /\ answer.snap.bids = lad.bids /\ answer.snap.asks = lad.asks
    BY <2>1 DEF Recovered
  <2>3. SnapshotBook(answer.snap) = SnapshotBook(lad)
    BY <2>2 DEF SnapshotBook
  <2>4. SymbolOf[l] \in Symbols
    BY FeedHandlerAssumption
  <2>5. /\ lad.bids \in Seq(LevelsInUse) /\ lad.asks \in Seq(LevelsInUse)
        /\ DOMAIN SnapshotBook(answer.snap).orders \subseteq OrderIds
    BY <2>3 DEF FeedDomain
  <2> QED
    BY <1>3, <2>2, <2>4, <2>5 DEF Provided
<1> QED
  BY <1>3, <1>4, <1>5

\* Each symbol's ladder is the aggregate of its live orders, in whichever order
\* the datagrams and the snapshots come, also when the orders are the synthetic
\* ones of a snapshot (apply, apply_snapshot, on_datagram).
THEOREM LaddersCorrect ==
  ASSUME FeedDomain, NoWrap
  PROVE  Spec => []BooksMatchOrders
<1> DEFINE BooksInv == Books(h.db, Symbols)
<1>1. Init => BooksInv
  <2>1. EmptyDepthBook(Depth) = [depth |-> Depth, books |-> EmptyMap, index |-> EmptyMap]
    BY DEF EmptyDepthBook
  <2>2. DOMAIN EmptyMap = {} /\ EmptyMap = [x \in DOMAIN EmptyMap |-> EmptyMap[x]]
    BY DEF EmptyMap
  <2>3. \A S, T : IsMap(EmptyMap, S, T)
    BY <2>2 DEF IsMap
  <2>4. Books(EmptyDepthBook(Depth), Symbols)
    BY <2>1, <2>2, <2>3, DomainAssumption DEF Books
  <2> QED
    BY <2>4 DEF Init, NewHandler
<1>2. IInv /\ BooksInv /\ [Next]_vars => BooksInv'
  <2> SUFFICES ASSUME IInv, BooksInv, [Next]_vars PROVE BooksInv'
    OBVIOUS
  <2>1. Shape /\ IsHandler(h)
    BY DEF IInv, Shape, IsHandler
  <2>2. ASSUME NEW l \in Locates, NEW d \in Datagrams(l), NEW answer \in Answers(l),
               Receive(d, answer)
        PROVE  BooksInv'
    <3>1. h' = on_datagram(h, d, answer).h
      BY <2>2 DEF Receive
    <3>2. d.seq \in Nat /\ (d.loc \in DOMAIN h.gap => h.gap[d.loc] \in Nat)
      BY <2>1, DatagramOf, LastSeqIsNat DEF Shape
    <3>3. Books(on_datagram(h, d, answer).h.db, Symbols)
      BY <2>1, <3>2, FeedDomain, FeedDelivers, DatagramKeepsBooks
    <3> QED
      BY <3>1, <3>3
  <2>3. CASE UNCHANGED vars
    BY <2>3 DEF vars
  <2> QED
    BY <2>2, <2>3 DEF Next
<1>3. BooksInv => BooksMatchOrders
  <2> SUFFICES ASSUME BooksInv, NEW sym \in DOMAIN h.db.books
               PROVE  LET b == h.db.books[sym]
                      IN  LadderMatches(b, {b.orders[id].price : id \in DOMAIN b.orders})
    BY DEF BooksMatchOrders
  <2> DEFINE b == h.db.books[sym]
             used_prices == {b.orders[id].price : id \in DOMAIN b.orders}
  <2>1. Sound(b)
    BY DEF Books
  <2> HIDE DEF b, BooksInv
  <2>2. used_prices \subseteq Prices
    BY <2>1 DEF Sound, WellFormed, IsMap, Orders
  <2>3. \A s \in Side : DOMAIN b.ladder[s] \subseteq Prices
    BY <2>1 DEF Sound, WellFormed, IsMap
  <2>4. LadderMatches(b, used_prices)
    BY <2>1, <2>2, <2>3, NoWrap DEF Sound, LadderMatches
  <2> QED
    BY <2>4 DEF b
<1> QED
  BY <1>1, <1>2, <1>3, AlwaysDivided, PTL DEF Spec
=============================================================================
