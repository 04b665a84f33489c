----------------------------- MODULE PcapReplay -----------------------------
(***************************************************************************)
(* The program pcap_replay of src/pcap_replay.cpp, with the PcapReader and *)
(* PcapWriter of src/pcap/pcap_io.cpp: datagrams are framed by the         *)
(* transport and the ITCH codec, captured into a file, and replayed one by *)
(* one, paced by their capture times, into a FeedHandler without recovery. *)
(*                                                                         *)
(* The file unfolds while it is read: each step takes the next record,     *)
(* which holds any of the datagrams sent, whole, cut short by the capture  *)
(* or followed by padding, stamped later than the one before it or         *)
(* earlier.  Times are in microseconds.                                    *)
(***************************************************************************)
EXTENDS FeedHandler, ItchFrame, SequencesExt

CONSTANTS
  Sent,          \* the messages sent: records [loc, seq, msg], seq 0 for bootstrap
  Depth,
  Options,       \* command lines: records [speedup, start_offset, stop_after, skip_gaps],
                 \* a speed-up being <<numerator, denominator>>
  TimeSteps,     \* bound: how far apart, in file order, capture times may be
  MaxRecords,    \* bound: the records of a file
  MaxOddities,   \* bound: how often a record of a file is damaged or out of order
  Second,        \* 1,000,000: the microseconds of a second
  TimeMod        \* 2^64: the width of a capture time

CommandLines == [speedup : Nat \X (Nat \ {0}), start_offset : Nat, stop_after : Nat,
                 skip_gaps : BOOLEAN]

ASSUME PcapAssumption ==
  /\ \A i \in DOMAIN Sent : /\ Sent[i].loc \in 0..(Weight[2] - 1)
                            /\ Sent[i].seq \in 0..(Weight[8] - 1)
                            /\ IsMessage(Sent[i].msg)
  /\ Options \subseteq CommandLines
  /\ TimeSteps \subseteq Int
  /\ MaxRecords \in Nat /\ MaxOddities \in Nat
  /\ Second \in Nat \ {0} /\ TimeMod \in Nat \ {0}

\* Capture times lie too close together for their unsigned differences to wrap.
ClockFits ==
  \E n \in 0..TimeMod : /\ TimeSteps \subseteq -n..n
                        /\ \A o \in Options : MaxRecords * n + o.start_offset < TimeMod

FirstTime == 10 * Second    \* bound: when a capture starts

kTransportHeaderSize == 10
kHeadersLen          == 42

-----------------------------------------------------------------------------
(***************************************************************************)
(* The way of a message: framed, captured, read back, decoded.             *)
(***************************************************************************)

\* MessageGenerator::next: the transport header and the frame, in a buffer of
\* zeros of the right size
transport_frame(s) ==
  LET byte(value, width) == [i \in 1..width |-> byte_of(value, width, i)]
  IN  byte(s.loc, 2) \o byte(s.seq, 8) \o encode_frame(s.msg, Zeros(framed_size(s.msg))).bytes

Datagram == [i \in DOMAIN Sent |-> transport_frame(Sent[i])]

\* PcapWriter::write_datagram, the 42 bytes before the payload left out
write_datagram(payload, ts) ==
  [sec |-> ts \div Second, usec |-> ts % Second, caplen |-> kHeadersLen + Len(payload),
   payload |-> payload]

\* What other tools do to a record: they capture only the first bytes of a
\* packet, or the padding of a short Ethernet frame with it.
Hows == {"whole", "headers", "stub", "cut", "padded"}

Captured(rec, how) ==
  CASE how = "whole"   -> rec
    [] how = "headers" -> [rec EXCEPT !.caplen = kHeadersLen]
    [] how = "stub"    -> [rec EXCEPT !.caplen = kHeadersLen + kTransportHeaderSize + 1]
    [] how = "cut"     -> [rec EXCEPT !.caplen = @ - 1]
    [] how = "padded"  -> [rec EXCEPT !.caplen = @ + 2, !.payload = @ \o Zeros(2)]

\* PcapReader::next passes over records without payload.
Delivers(rec) == rec.caplen > kHeadersLen

next(rec) ==
  [ts_us |-> rec.sec * Second + rec.usec,
   payload |-> SubSeq(rec.payload, 1, rec.caplen - kHeadersLen)]

SideOf(char) == IF char = 2 THEN "Buy" ELSE "Sell"

\* what the book takes of a decoded message
book_message(m) ==
  CASE m.type \in {"A", "F"} ->
         AddMsg(m.type, m.symbol, m.order_id, SideOf(m.side), m.price, m.shares)
    [] m.type \in {"E", "C"} -> ReduceMsg(m.type, m.order_id, m.executed_shares)
    [] m.type = "X"          -> ReduceMsg(m.type, m.order_id, m.canceled_shares)
    [] m.type = "D"          -> DeleteMsg(m.order_id)
    [] m.type = "U"          -> ReplaceMsg(m.original_order_id, m.new_order_id, m.price, m.shares)
    [] m.type \in {"S", "R", "P"} -> OtherMsg(m.type)

\* on_datagram's reading of a payload, as the datagram FeedHandler takes
parse(payload) ==
  IF Len(payload) < kTransportHeaderSize + 2
  THEN [loc |-> 0, seq |-> 0, frame |-> ShortFrame]
  ELSE LET pr == decode_frame(SubSeq(payload, kTransportHeaderSize + 1, Len(payload)))
       IN  [loc |-> read(payload, 0, 2), seq |-> read(payload, 2, 8),
            frame |-> IF pr.status = "Ok" THEN book_message(pr.message) ELSE BadFrame]

\* the same for every datagram and every way to capture it, whenever that is
Parsed ==
  [i \in DOMAIN Sent |-> [how \in Hows |->
     parse(next(Captured(write_datagram(Datagram[i], 0), how)).payload)]]

-----------------------------------------------------------------------------
VARIABLES
  opt,       \* the command line
  running,   \* the main loop goes on
  loop,      \* its locals, and the microseconds slept
  h,         \* the handler
  gaps,      \* the ranges the gap observer listed
  file       \* history: the records read, each with what became of it

vars == <<opt, running, loop, h, gaps, file>>

Init ==
  /\ opt \in Options
  /\ running = TRUE
  /\ loop = [have_first_ts |-> FALSE, first_ts_us |-> 0, prev_cap_us |-> 0,
             replayed |-> 0, skipped |-> 0, slept |-> 0]
  /\ h = NewHandler(Depth)
  /\ gaps = << >> /\ file = << >>

\* a start time that every record sets anew
MutantForgetsFirst(ts) ==
  [loop EXCEPT !.have_first_ts = TRUE, !.first_ts_us = ts,
               !.prev_cap_us = IF loop.have_first_ts THEN @ ELSE ts]

\* The first record delivered sets the times the others are compared with.
Begun(ts) ==
  IF loop.have_first_ts THEN loop
  ELSE [loop EXCEPT !.have_first_ts = TRUE, !.first_ts_us = ts, !.prev_cap_us = ts]

\* --start-offset; the difference is unsigned
InsideWindow(l, ts) == (ts - l.first_ts_us) % TimeMod < opt.start_offset

\* --speedup: what is slept before a record; less than a microsecond is not
sleep(l, ts) ==
  LET cap_delta_us == IF ts > l.prev_cap_us THEN ts - l.prev_cap_us ELSE 0
  IN  IF opt.speedup[1] = 0 THEN 0
      ELSE (cap_delta_us * opt.speedup[2]) \div opt.speedup[1]

\* a loop that stops one datagram late
MutantStopsLate(replayed) == opt.stop_after = 0 \/ replayed <= opt.stop_after

\* --stop-after
GoesOn(replayed) == opt.stop_after = 0 \/ replayed < opt.stop_after

Note(i, how, ts, fate) ==
  file' = Append(file, [sent |-> i, how |-> how, ts |-> ts, fate |-> fate])

PassOver(i, how, ts) ==
  /\ ~Delivers(Captured(write_datagram(Datagram[i], ts), how))
  /\ Note(i, how, ts, "no payload")
  /\ UNCHANGED <<opt, running, loop, h, gaps>>

\* a record skipped without becoming the one the next is paced against
MutantSkipKeepsPace(i, how, ts) ==
  LET rec == Captured(write_datagram(Datagram[i], ts), how)
      l   == Begun(next(rec).ts_us)
  IN  /\ Delivers(rec) /\ InsideWindow(l, next(rec).ts_us)
      /\ loop' = [l EXCEPT !.skipped = @ + 1]
      /\ Note(i, how, ts, "skipped")
      /\ UNCHANGED <<opt, running, h, gaps>>

Skip(i, how, ts) ==
  LET rec == Captured(write_datagram(Datagram[i], ts), how)
      l   == Begun(next(rec).ts_us)
  IN  /\ Delivers(rec) /\ InsideWindow(l, next(rec).ts_us)
      /\ loop' = [l EXCEPT !.skipped = @ + 1, !.prev_cap_us = next(rec).ts_us]
      /\ Note(i, how, ts, "skipped")
      /\ UNCHANGED <<opt, running, h, gaps>>

Replay(i, how, ts) ==
  LET rec == Captured(write_datagram(Datagram[i], ts), how)
      now == next(rec).ts_us
      l   == Begun(now)
      d   == Parsed[i][how]
      r   == on_datagram(h, d, IF opt.skip_gaps THEN SkipGaps ELSE Stall)
  IN  /\ Delivers(rec) /\ ~InsideWindow(l, now)
      /\ loop' = [l EXCEPT !.slept = @ + sleep(l, now), !.prev_cap_us = now, !.replayed = @ + 1]
      /\ h' = r.h
      /\ gaps' = IF r.missing = {} THEN gaps
                 ELSE Append(gaps, [loc |-> d.loc, first_missing |-> Min(r.missing),
                                    last_missing |-> Max(r.missing)])
      /\ running' = GoesOn(l.replayed + 1)
      /\ Note(i, how, ts, r.fate)
      /\ UNCHANGED opt

StampedAfter(step) == IF file = << >> THEN FirstTime ELSE Last(file).ts + step

\* how often a record of the file is damaged, or out of order
Oddities ==
  Cardinality({k \in DOMAIN file : file[k].how # "whole"})
    + Cardinality({k \in DOMAIN file : k > 1 /\ file[k].ts < file[k - 1].ts})

Odd(how, step) == (IF how = "whole" THEN 0 ELSE 1) + (IF step < 0 THEN 1 ELSE 0)

\* The loop ends at the end of the file, which may come after any record, or
\* when running is false.
Next ==
  /\ running /\ Len(file) < MaxRecords
  /\ LET spare == MaxOddities - Oddities
     IN  \E how \in Hows, step \in TimeSteps :
           /\ Odd(how, step) <= spare
           /\ \E i \in DOMAIN Sent : \/ PassOver(i, how, StampedAfter(step))
                                    \/ Skip(i, how, StampedAfter(step))
                                    \/ Replay(i, how, StampedAfter(step))

Spec == Init /\ [][Next]_vars

-----------------------------------------------------------------------------
Delivered == {k \in DOMAIN file : file[k].fate # "no payload"}
Skipped   == {k \in DOMAIN file : file[k].fate = "skipped"}
Replayed  == Delivered \ Skipped

SentNumbers == {<<Sent[i].loc, Sent[i].seq>> : i \in DOMAIN Sent}

\* The counters printed at the end count the records of the file, and nothing
\* is expected of a stream beyond its end.
TypeOK ==
  /\ loop.skipped = Cardinality(Skipped)
  /\ loop.replayed + loop.skipped = Cardinality(Delivered)
  /\ opt.stop_after # 0 => loop.replayed <= opt.stop_after
  /\ \A l \in DOMAIN h.gap : <<l, h.gap[l] - 1>> \in SentNumbers

\* "Random valid-shape ITCH messages of all 10 types round-trip" (the header of
\* tests/property/parser_property_test.cpp), all or nothing: a frame decodes to
\* the message it was made of, all of it is consumed, and no beginning of it
\* decodes to anything.
FramesRoundTrip ==
  Len(file) = 1 =>
    LET msg   == Sent[Head(file).sent].msg
        frame == encode_frame(msg, Zeros(framed_size(msg))).bytes
    IN  /\ decode_frame(frame) = [status |-> "Ok", consumed |-> Len(frame), message |-> msg]
        /\ \A n \in 0..(Len(frame) - 1) : decode_frame(SubSeq(frame, 1, n)).status = "ShortBuffer"

\* Replay reproduces the book that applying the messages themselves gives
\* (tests/integration/pcap_replay_test.cpp compares with a direct decode of the
\* capture), whatever was lost, repeated, cut or padded: what is decoded is what
\* was sent, and nothing that was cut is.
WhatIsAppliedWasSent ==
  LET book[n \in 0..Len(file)] ==
        IF n = 0 THEN EmptyDepthBook(Depth)
        ELSE IF file[n].fate = "decoded"
             THEN apply(book[n - 1], book_message(Sent[file[n].sent].msg)).db
             ELSE book[n - 1]
  IN  /\ \A k \in Replayed :
           /\ file[k].fate = "decoded" => file[k].how \in {"whole", "padded"}
           /\ file[k].fate = "bad"     => file[k].how \in {"stub", "cut"}
      /\ h.db = book[Len(file)]

\* --start-offset drops the records captured in the first seconds of the
\* capture and no others, one captured before the first record included.
OffsetSkipsWindow ==
  \A k \in Delivered :
    LET start == file[Min(Delivered)].ts
    IN  k \in Skipped <=> start <= file[k].ts /\ file[k].ts < start + opt.start_offset

InOrder == \A j, k \in Delivered : j < k => file[j].ts <= file[k].ts

\* "The pacing honors the inter-packet gaps recorded in the capture timestamps"
\* (docs/pcap-replay.md): of a capture in order, the time slept is the time
\* from the last record skipped to the last one replayed, divided by the
\* speed-up, less a fraction of a microsecond for each record.
PacingFollowsCapture ==
  IF opt.speedup[1] = 0 THEN loop.slept = 0
  ELSE (InOrder /\ Replayed # {}) =>
         LET start  == IF Skipped = {} THEN loop.first_ts_us ELSE file[Max(Skipped)].ts
             span   == (file[Max(Replayed)].ts - start) * opt.speedup[2]
             covers == loop.slept * opt.speedup[1]
         IN  covers <= span /\ span < covers + opt.speedup[1] * Cardinality(Replayed)

\* the records of a stream that reached the decoder, the numbers these had, and
\* the numbers behind the cursor from the one the stream was joined at
UsedAt(l) ==
  {k \in DOMAIN file : /\ file[k].fate \in {"decoded", "bad"} /\ file[k].how # "stub"
                        /\ Sent[file[k].sent].loc = l /\ Sent[file[k].sent].seq # 0}
Numbers(ks)   == {Sent[file[k].sent].seq : k \in ks}
Behind(l, ks) == Sent[file[Min(ks)].sent].seq..(expected(h.gap, l) - 1)

Listed(k) == gaps[k].first_missing..gaps[k].last_missing

\* With --skip-gaps the list printed is exact: the ranges of a stream are in
\* order, no number is listed twice, and the numbers listed are those behind
\* the cursor that were not replayed, also when they turn up later.
GapRangesAreExact ==
  opt.skip_gaps =>
    \A l \in DOMAIN h.gap :
      LET of   == {k \in DOMAIN gaps : gaps[k].loc = l}
          used == UsedAt(l)
      IN  /\ \A j, k \in of : j < k => gaps[j].last_missing < gaps[k].first_missing
          /\ UNION {Listed(k) : k \in of} = Behind(l, used) \ Numbers(used)

\* Without it nothing is passed over: the numbers replayed have no holes, so
\* that a list which repeats a gap, longer each time, until late datagrams close
\* it, never stands for a message lost behind the cursor; two ranges of a stream
\* begin alike unless what lies between was replayed.
StallPassesOverNothing ==
  ~opt.skip_gaps =>
    \A l \in DOMAIN h.gap :
      LET used == UsedAt(l)
      IN  /\ Numbers(used) = Behind(l, used)
          /\ \A j, k \in DOMAIN gaps :
               (j < k /\ gaps[j].loc = l /\ gaps[k].loc = l) =>
                 /\ gaps[j].first_missing <= gaps[k].first_missing
                 /\ (gaps[j].first_missing)..(gaps[k].first_missing - 1) \subseteq Numbers(used)
=============================================================================
