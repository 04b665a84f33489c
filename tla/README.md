# A TLA+ model of mdfeed-itch

mdfeed-itch is a market-data feed handler: it receives ITCH messages over UDP
multicast, detects losses by per-locate sequence numbers, recovers from them
with snapshots over TCP, maintains a top-N depth book per symbol, and
republishes whole-book snapshots to TCP subscribers.  A generator and a
snapshot server simulate the exchange.  This directory holds TLA+ models of
that code, the TLC configurations that check them and the proofs, checked by
TLAPS, about them.  Source paths are relative to the repository's root.

Contents: [Inventory](#inventory) · [Plan](#plan) · [Modules](#modules) ·
[Runs](#runs) · [Fairness](#fairness) · [Proofs](#proofs) ·
[Findings](#findings) · [Not modelled](#not-modelled)

## Inventory

| Component | State | Operations | Correct when |
|---|---|---|---|
| `SymbolBook` (`src/core/depth_book.cpp`) | live orders; two price ladders; a cached top-N per side | `add_order`, `modify_order`, `reduce_order`, `delete_order`, `replace_order`; private `apply_level_delta`, `refresh_top_*` | every level is the sum and the number of the live orders at its price; the cache is the best N levels of the ladder |
| `DepthBook` (same file) | a book per symbol; `order_to_symbol_` | `apply(message)`, `snapshot`, the `emit_snapshot` callback | an id routes to the book that holds it and to no other; the callback keeps a listener current |
| `GapDetector` (`src/recovery/gap_detector.cpp`) | the expected number per stock locate | `observe`, `expected`, `set_expected`, `start` | a message is in order, stale or beyond a gap, and nothing else |
| `FeedHandler` (`src/core/feed_handler.cpp`) | a depth book, a gap detector, counters, callbacks | `on_datagram`, `apply_snapshot` | each number is used at most once, in order; none is passed over in silence |
| `MessageGenerator` (`src/sim/publisher.cpp`) | live orders in five parallel vectors, next id, next number per locate | `next`, `directory_messages` | it names only orders that exist, with the quantity left |
| `SnapshotServer`, snapshot client, TCP frames (`src/sim/snapshot_server.cpp`, `src/recovery/`, `src/net/tcp_recovery.cpp`) | a thread, a socket | `start`, `stop`, `run` (accept, read, provide, reply, close); the client's connect, send, read | an answer is the provider's state of the locate asked for, between call and return; no connection is left open; calls and `stop()` return |
| `BookSnapshotPublisher` (`src/sim/book_snapshot_publisher.cpp`) | a thread, a message counter, a mark, a frame number, subscribers | `start`, `note_message`, `run`, `capture_frame`, `stop` | frames are consistent; the feed never waits for a subscriber; nothing noted is lost |
| `BookSnapshotSubscriber` (`src/sim/book_snapshot_subscriber.cpp`) | a connection, its copy of the books, last frame number | `connect`, `receive_one` | it sees each frame once, in order |
| ITCH parser (`src/core/parser.cpp`) | none | `encode_frame`, `decode_frame`, `framed_size` | a frame decodes to its message, and no part of one to anything |
| `pcap_replay` (`src/pcap_replay.cpp`, `src/pcap/pcap_io.cpp`) | loop locals, a handler, the list of gaps | read a record, skip, pace, replay, stop | what is applied was sent; window, pacing and gap list follow the capture |
| `Histogram` (`src/obs/histogram.cpp`) | counts per slot, count, total, extremes | `record`, `merge`, `reset`, `percentile` | a percentile is a recorded value, up to a sub-bucket |
| Snapshot codecs (`src/sim/book_snapshot.cpp`, `src/recovery/snapshot_client.cpp`) | none | encode, decode, CRC | decode inverts encode and rejects what is damaged |
| Multicast, clock, programs, benchmarks | sockets, counters | | see [Not modelled](#not-modelled) |

How they interact.  A datagram goes to `FeedHandler::on_datagram` on one
thread; the handler asks its `GapDetector`, may call the recovery requester
synchronously (which blocks on TCP and returns a snapshot or fails), then
decodes the frame and hands the message to `DepthBook::apply`, which calls the
snapshot callback if the book changed.  The snapshot server answers from a
*shadow* `DepthBook` that applies every message before it is sent.  The
`BookSnapshotPublisher` thread copies the books under a mutex it shares with
the feed thread, and reads the message counter without it.

What is hard here:

* the ladder and the cached top-N are never recomputed from the orders, so a
  mistake in one of many delta paths is permanent (`depth_book.cpp:15-62`);
* one fact is kept in two indexes, an order's book and `order_to_symbol_`
  (`depth_book.cpp:258`, `feed_handler.cpp:148`);
* datagrams are lost, repeated, late and damaged, and meet a recovery that
  fails, or answers with a snapshot older or newer than the datagram
  (`feed_handler.cpp:64-117`);
* sequence numbers are per header locate but messages name orders of other
  symbols (`publisher.cpp:163`);
* the snapshot server serves one connection at a time with reads that have no
  timeout, and clients may stop or leave half way through a frame
  (`snapshot_server.cpp:26-50`, `tcp_recovery.cpp:110-141`);
* the publisher, the feed, subscribers that come, go or stall and `stop()`
  interleave around one mutex, one relaxed counter and blocking sends;
* encoder and decoder are two hand-written layouts for each of ten message
  types (`parser.cpp:93-316`, `:369-445`), and captures are cut short, padded
  and stamped out of order (`pcap_io.cpp:101-107`, `pcap_replay.cpp:95-111`);
* the histogram changes formula at powers of two (`histogram.cpp:32-42`).

`PROJECT.json` lists every hazard at its line with the properties that would
catch it going wrong.

## Plan

The order in which the modules are written, and what is left.

1. *(done)* `SymbolBook` and its machine: the core all else rests on; checked
   and proved.
2. *(done)* `DepthBook` and its machine: routing and the callback.
3. *(done)* `GapDetector`, `FeedHandler`, its machine, and the abstract
   receiver `SequencedFeed` it implements.
4. *(done)* `MessageGenerator` and `GapFill`: the feed end to end.
5. *(done)* `BookSnapshotPublisher`: threads, subscribers, liveness.
6. *(done)* `SnapshotRecovery`: the TCP recovery path.
7. *(done)* `ItchFrame`, the ITCH codec, and `PcapReplay`, which composes it
   with the handler.
8. *(done)* `Histogram` against what its header promises.
9. *(done)* proofs about `DepthBookMachine`, from the lemmas about one book;
   `FeedHandlerMachine` and its refinement; `BookSnapshotPublisher`;
   `SnapshotRecovery`.
10. *(done)* proofs about `GapFill`, every property of its runs, and about the
    rebuild of a book from a snapshot, which needs induction over its loops.
11. *(done)* proofs about `PcapReplay`: the list of gaps, the window and the
    pacing, the codec and the book.

## Modules

A component is an operator module, a book or a handler being a record and each
method an operator from a record to a record, and a *machine* that calls those
operators.  `MC*` modules only give constants their values.

| Module | Models | Notes |
|---|---|---|
| `SymbolBook` | class `SymbolBook` | ladders are functions from prices to levels; an iterator position is the number of better prices; `Quantity` is arithmetic modulo `QtyMod` (2^32 in the code) |
| `SymbolBookMachine` | any sequence of calls of its methods | unknown and duplicate ids, zero and excessive quantities included |
| `BookDomain` | | what callers pass to the books: ids, prices, quantities, capacity, and the assumptions about them |
| `DepthBook` | `DepthBook::apply` for every message type, `snapshot` | a symbol stands for its packed key, which loses nothing |
| `DepthBookMachine` | any sequence of messages, with a consumer of the callback | `clean` is a history variable: no message so far added a live id or no shares |
| `GapDetector` | class `GapDetector` | 64-bit numbers are naturals |
| `FeedHandler` | `on_datagram`, `apply_snapshot` | a datagram is `[loc, seq, frame]`; the answer of recovery is an argument |
| `FeedHandlerMachine` | a handler and the datagrams of some streams, in any order, number and state of repair | `used`, `covered`, `reported`, `first` record what became of each number |
| `SequencedFeed` | the abstract receiver: a cursor per stream and one final fate per number | implemented by `FeedHandlerMachine` |
| `MessageGenerator` | class `MessageGenerator` | each random draw is a parameter |
| `GapFill` | generator, shadow book, multicast, handler and provider, as `tests/integration/gap_fill_test.cpp` assembles them | the network is the set of datagrams sent: delivering any of them, at any time, again or never |
| `BookSnapshotPublisher` | the publisher thread, the feed thread, `stop()`, subscribers and their connections, one step per lock, copy of a symbol, send or receive | a book is the number of messages applied to each symbol, which is all a torn copy or a lost frame can be told by |
| `SnapshotRecovery` | `SnapshotServer`'s thread, `start()` and `stop()`, the requester and other clients, and the connections between them | one step per accept, chunk sent, chunk read, provider call or close; a frame is its op, its locate and its number, in two chunks, header and body; the provider's state is the last number applied per locate |
| `ItchFrame` | `encode_frame`, `decode_frame` of the parser | a buffer is a sequence of numbers below `ByteBase` (256 in the code); what the decoder reads is a list of fields with a cursor, what the encoder writes a set of fields with offsets, transcribed each from its own function |
| `PcapReplay` | `pcap_replay`'s loop, `PcapReader`, `PcapWriter`, the transport header, and the handler behind them | the capture unfolds while it is read, so any order of any datagrams is a file; `file` records what became of each record; time is in microseconds, with `Second` of them to a second |
| `Histogram` | class `Histogram` | the counts are a bag of slots; a percentile is a ratio |
| `OperatorLemmas` | | what the operators of `SymbolBook`, `DepthBook`, `GapDetector` and `FeedHandler` keep, for the modules below |
| `SymbolBookProofs`, `DepthBookProofs`, `FeedHandlerProofs`, `GapFillProofs`, `BookSnapshotProofs`, `SnapshotRecoveryProofs`, `PcapReplayProofs` | | theorems about `SymbolBookMachine`, `DepthBookMachine`, `FeedHandlerMachine`, `GapFill`, `BookSnapshotPublisher`, `SnapshotRecovery`, `PcapReplay` |

Left out throughout: timestamps and other fields no operation reads back,
statistics counters, logging.

## Runs

| Run | Checks | Instance, and why it is enough |
|---|---|---|
| `symbol_book` | `LadderMatchesOrders`, `TopIsBest` after any sequence of calls | three ids, three prices, two quantities, depth 2: a level with two orders, a level hidden behind the top-N that surfaces, replacement by a live id. The proofs cover all sizes |
| `symbol_book_wrap` | finding: `InvariantsOk` fails when two orders add up to `QtyMod` | the same with `QtyMod` 4 standing for 2^32 |
| `depth_book` | `ConsumerIsCurrent`, `BooksMatchOrders` for any messages; `RoutingIsExact` while ids are proper | two symbols, two ids, depth 1: an id reused under the other symbol, replaced by itself, drained to zero |
| `feed_handler` | `NoSilentSkip`, `SkipAccountingIsExact`, `UsedOnceInOrder`, `BooksMatchOrders`, and that the handler implements `SequencedFeed` | streams of four and two messages: a gap of more than one number, a snapshot below, inside and beyond it, late and repeated datagrams after it; snapshots whose shares divide unevenly, and an empty one; all three ways of meeting a gap. `MCFeedHandler` also assumes what `LaddersCorrect` does, so TLC confirms that an instance has it |
| `gap_fill` | `ResyncConverges`, `CursorNeverBack`, `InOrderFeedIsExact`, `GeneratorMirrorsShadow`, `ShadowRoutesExactly` | two symbols, three messages: a message on one locate about the other's order, overtaken or lost; book depth 1 with two prices, so a snapshot can truncate the ladder |
| `gap_fill_stale_index`, `gap_fill_depth` | findings | one symbol, one price, four messages |
| `book_snapshot` | `FramesAreConsistent`, `NoFrameSkipped`, `FeedNeverStalls`, `EveryMessageArrives`, `StopReturns` | two symbols, two messages, one reader, one subscriber that may stall, buffers of one frame, stride 1 and one frame by the timer: three frames, a second one nobody reads blocks, a copy can straddle a message |
| `book_snapshot_stall` | finding: `PublisherNeverStalls` fails | the same with one symbol and no timer |
| `snapshot_recovery` | `NoConnectionLeaks`, `AnswersAreCurrent`, `CallsReturn`, `StopReturns` | two locates, one message each, a requester and a stranger that connect once each, backlog 1 (4 in the code), two starts: the requester is refused, waits behind the stranger, is cut off by `stop()`, or calls after a restart; the stranger sends a request, a fault or a header no frame can have, and stops or leaves after any chunk |
| `pcap_replay` | `FramesRoundTrip`, `WhatIsAppliedWasSent`, `OffsetSkipsWindow`, `PacingFollowsCapture`, `GapRangesAreExact`, `StallPassesOverNothing` | one message of each of the ten types on two streams, a number missing from one; files of four records with at most one cut, padded or stamped earlier than the one before it; four command lines: full speed with `--skip-gaps` and `--stop-after 3`; twice the speed to the end of the file without `--skip-gaps`, four records being what it takes to list two ranges of a stream that begin apart; half and twice the speed with a window of `--start-offset` that holds two records or one (and then a later one stamped earlier) |
| `histogram_buckets` | finding: `PercentilesAreApproximate` fails | `kSubBucketBits` 6 as in the code, four buckets (32), values at the ends of the powers of two around 64, at the last bucket's end and beyond it; without the values 64 to 127 the property holds of the same instance |

Bounds, all of them constants or definitions named in the modules: the ids,
prices and quantities of the callers; `Frame` (the messages of each stream);
`MaxMessages`; `SocketFrames` (what a connection buffers); `TimedFrames` (how
many frames the timer may trigger); in `SnapshotRecovery`, `MaxCalls`, `MaxSeq`
and `MaxStarts`; in `PcapReplay`, `MaxRecords`, `MaxOddities`, `TimeSteps`,
`FirstTime`, and `ByteBase` 12, `Second` 4 and `TimeMod` 1000, which stand for
256, 1,000,000 and 2^64: a byte must hold the ten type codes and one that is no
type's, and the values written fill their fields; in `Histogram`, `Values`,
`Percentiles` and `MaxCount`.  In the `book_snapshot`, `snapshot_recovery` and `pcap_replay`
runs deadlock is not checked, because the system really may stop: after
`stop()`, with every message applied and nothing to publish, or at the end of
the capture.  `EveryMessageArrives` speaks of messages that complete a stride: a
longer stride keeps a tail of a burst back by design, and is not in the
instance.

`AnswersAreCurrent` and `CallsReturn` are why `GapFill` may take a whole request
as one step that brings the provider's answer or fails.  In `GapFill` the handler
is blocked in that step; messages sent meanwhile are in the network, and an
answer newer than the call is among the provider's states there.

What some properties leave to their history variables: `RoutingIsExact` needs
`clean`, since an add the book ignores still re-points `order_to_symbol_`
(`depth_book.cpp:242`); `NoSilentSkip` counts from the number a stream was
joined at, since the detector takes the first number as it comes
(`gap_detector.h:16-17`): a lost head or tail is noticed by nothing.

## Fairness

`BookSnapshotPublisher` and `SnapshotRecovery` state liveness, each under its
`Fairness`.  In `BookSnapshotPublisher`:

* weak fairness of each step of the feed thread, the publisher thread and a
  `stop()` under way: the operating system keeps running runnable threads;
* strong fairness of `FeedLock` and `PubLock`: each thread blocks in
  `std::mutex::lock` until it gets it, and the other one releases it between
  its critical sections.  The C++ standard promises no fair mutex; the
  assumption is that the implementation does not pass over a waiter for ever;
* weak fairness of `ReceiveOne` for `Readers`, which call `receive_one` in a
  loop.  `Stalled` subscribers get none, and nobody is obliged to connect,
  depart or call `stop()`.

`PubSend` is weakly fair, but it is disabled while the peer's buffers are full:
that is `send()` blocking, and why `PublisherNeverStalls` fails.

In `SnapshotRecovery`: weak fairness of the server's thread, of a requester
inside a call, and of the steps of a `stop()` under way, which are threads the
operating system keeps running; connect fails when the backlog is full, so
nothing waits there.  A read is disabled until a chunk or the end of the stream
has come: that is `recv()` without a timeout.  Strangers owe nothing, and nobody
is obliged to call, to stop or to start again.  `CallsReturn` and `StopReturns`
except one behaviour, `HeldByStranger`: from some moment on the server reads
from a stranger that stays connected and sends nothing.  The code has no way out
of that one, and no other order of steps holds it up.

## Proofs

Everything below is proved for every value of the constants.  What it rests on
are the named `ASSUME`s of the modules (`QtyModAssumption`,
`DomainAssumption`, `SyntheticBaseAssumption`, `FeedHandlerAssumption`,
`GapFillAssumption`, `PublisherAssumption`, `RecoveryAssumption`,
`ByteBaseAssumption`, `PcapAssumption`: each says what numbers, sets and bounds the constants are) and,
where it is said, `NoWrap`, `FeedDomain` and `ClockFits`.

### One book: `OperatorLemmas`, `SymbolBookProofs`

* `TypeCorrect`: `Spec => []TypeOK`;
* `TopCorrect`: `Spec => []TopIsBest`, wrapping or not;
* `LadderCorrect`: `Spec => []LadderMatchesOrders`, assuming `NoWrap`;
* `InvariantsOkCorrect`: `Spec => []InvariantsOk`, assuming `NoWrap`;
* `OrdersDetermineBook`: two sound books with the same orders are equal.

`DomainAssumption`: `QtyMod` is positive; the ids callers use are finitely many;
prices, the quantity bound and the capacity are naturals and a quantity fits in
a `Quantity`.  `NoWrap` says that the largest quantities of all ids together
do too.  It cannot be dropped: without it `symbol_book_wrap` refutes
`InvariantsOk`.

Neither property is inductive: `TopIsBest` does not say where the
top-N came from, and `LadderMatchesOrders` says nothing when sums wrap, where
the type must still be kept.  The inductive invariant `IInv` is `Sound(book)`:
the book has its type, its ladders are finite, each top-N *is*
`refresh_top` of its ladder, and, if `NoWrap`, each level matches its orders.

1. `BetterPricesAreFewer`, `PositionsOrderPrices`, `PriceAtPosition`: positions
   are a bijection between a finite ladder and `1..n` (an injection between
   sets of equal size is onto), so walking a `std::map` and stopping after N
   shows exactly the N best, `RefreshedTop`.
2. `AggregateBounds`, `AggregatesGrow`: the sum of the shares at a price is the
   cardinality of a set of shares, so it needs no recursive sum; putting an
   order adds one and its quantity at its own price and nothing elsewhere.
   Deletion and modification are read as the same lemma backwards
   (`EraseThenPut`).
3. `LevelDelta`, `ShiftedLevelStands`: `apply_level_delta` touches one level,
   and a level that stood for its orders does so after the difference; the
   bound of 2 and `NoWrap` keep the sum below `QtyMod`.
4. `BookStep`, then a lemma per operation, then `NextKeepsSound` with one step
   per action.

### Books of all symbols: `DepthBookProofs`

`TypeCorrect`, `ConsumerCorrect` (`ConsumerIsCurrent`), `RoutingCorrect`
(`RoutingIsExact`), and `LaddersCorrect` (`BooksMatchOrders`, assuming
`NoWrap`), from the same `DomainAssumption`.

One message changes at most one book, by one operation, which keeps it `Sound`
by the lemmas about one book; the callback names that symbol exactly when
`apply` reports a change, and every other book is as the consumer last saw it.
An id enters or leaves a book and the index in the same step (`MoveTogether`,
`RoutingStep`).  For that the invariant must know `clean`: an add of a live id
re-points the index while the book ignores it, and from then on routing is not
exact.  `IInv` is `Books`, `ConsumerIsCurrent`, and `Routes` under `clean`.

### The handler: `FeedHandlerProofs`

`TypeCorrect`, `NothingSkippedSilently` (`NoSilentSkip`), `AccountExact`
(`SkipAccountingIsExact`), `OnceInOrder` (`UsedOnceInOrder`) and
`HandlerImplements` (the refinement of `SequencedFeed`, its initial states and
the simulation of every step).

Every call of `on_datagram` has one of three outcomes: the stream stays, it
takes the datagram, or it catches up with a snapshot and then perhaps takes the
datagram (`Stays`, `Takes`, `Catches`).  `IInv` adds to the shape of the
state that the cursor divides each stream's history: what is used or covered
lies between the first number and the cursor (`Divided`), every number there is
used, covered or reported (`Accounted`), and with `--skip-gaps` what is reported
is behind the cursor and was not used (`Skipped`).  `NoSilentSkip` alone is not
inductive: it does not say that what is used lies below the cursor, so a step
could use a number again.

`LaddersCorrect` (`BooksMatchOrders`) assumes `NoWrap` and `FeedDomain`: the
messages of the streams and the levels of the snapshots use the ids, prices and
quantities of `BookDomain`, the synthetic ids of the largest snapshot among
them.  Its invariant is that every book is `Sound` (`Books`), with no word
about what the index routes: a snapshot leaves it entries for orders that are
gone.  The step that needs work is the installation of a snapshot.

### The rebuild from a snapshot: `OperatorLemmas`

`apply_snapshot` runs two nested loops, over levels and over the orders of a
level, written as recursive functions of the number of rounds.  The library's
induction theorem takes an operator as a parameter and no prover here
instantiates it; `Induction` says the same of a set of numbers, from the
library's theorem that `<` on `Nat` is well founded, and each use names its own
set.  With it:

1. `LevelLoopRuns`, `LevelsLoopRuns`: the recursive functions exist, so each of
   their rounds is what its line says;
2. `SharesAddUp`: the shares of a level are from 0 to its quantity and add up to
   it, and none is 0 when the level has a share for each of its orders;
3. `LevelRebuilt`, `SideRebuilt`, `SnapshotShows`: from levels as a sound book
   shows them, the new book's ladder and top-N are those levels, none of its
   orders being skipped;
4. `LevelKeeps`, `SideKeeps`, `SnapshotIsSound`: from any other levels too (more
   orders than shares, one price twice) the new book is sound.

### End to end: `GapFillProofs`

`TypeCorrect`, `GeneratorMirrored` (`GeneratorMirrorsShadow`),
`ShadowRoutingCorrect` (`ShadowRoutesExactly`), `CursorNeverGoesBack`
(`CursorNeverBack`), `InOrderFeedExact` (`InOrderFeedIsExact`) and
`ResyncConvergent` (`ResyncConverges`, assuming `NoWrap`), for any number of
locates and messages, lots, prices, capacity and any order of deliveries.
`GapFillAssumption` says that locates and symbols are one to one, that the ids
`MaxMessages` messages can use are among `OrderIds` (a replacement takes two), and
that they lie below `SyntheticBase`.

None of the properties is inductive.  `IInv` has one part for each thing they
rest on:

* `Generator`: the ids given out lie below the next one and no message takes
  more than two;
* `Numbering`: the datagrams of a locate are numbered from 1 without a hole, in
  the order of sending, and the shadow holds the last number;
* `Mirror`: the shadow's books are sound, its index routes exactly their orders,
  and these are the generator's (`Account`), because an id is used once;
* `Handler`: cursors are never more than one beyond what was sent, so neither a
  gap nor a late datagram can show a number the provider's answer is behind;
* `InOrder`: as long as every datagram arrived, in order, the handler's book is
  the one the shadow had after as many messages (`Replay`), and the cursors are
  just behind them: the next datagram is then always the expected one.

For `ResyncConvergent`, `Converged` adds that the book of a symbol in `fresh`
*is* the one built from the provider's present snapshot and its cursor is behind
all that was sent.  No delivery touches it (`TakenStep`): a datagram of its own
locate is stale, and one of another locate that names an order finds none, since
the book holds only synthetic ids and the index may point at it but
`has_order` fails.  `SnapshotShows` then says that it shows what the shadow
shows.

### The publisher: `BookSnapshotProofs`

`PublisherTypeCorrect` (`TypeOK`), `FramesConsistent` (`FramesAreConsistent`),
`FramesOrdered` (no run checks it: what waits in a subscriber's buffers follows,
number by number, what it read last and shows no symbol as it was before) and
`NoneSkipped` (`NoFrameSkipped`), for any number of subscribers, symbols and
messages.

A frame is consistent because all its symbols are copied under one lock; but it
is copied symbol by symbol, and a subscriber keeps the books of symbols a frame
does not carry.  `IInv` is the mutual exclusion of the two threads (`Locked`),
that the symbols copied so far are as in the books, which the mutex keeps still
(`Captured`), and that a subscriber's books, the frames in its buffers and the
one being published are one another's pasts in this order (`FramesInOrder`): a
symbol missing from a frame was not in the frames before it.

`NoFrameSkipped` speaks of what a subscriber reads; the invariant behind it,
`NInv`, is about the whole way: the list names each connection at most once
(`Listed`), the frame under way has been given to the places before the send
position and to no other (`Round`, `UpToDate`), and the numbers from a
subscriber's last one through its buffers are consecutive (`Numbers`).

### TCP recovery: `SnapshotRecoveryProofs`

`TypeCorrect`, `NothingLeaks` (`NoConnectionLeaks`) and `AnswersCorrect`
(`AnswersAreCurrent`), for any number of requesters, strangers, calls and
restarts, and any backlog.

`NoConnectionLeaks` speaks of connections that are open; the invariant follows
each one through its life, at the client's end (`ClientSide`: open exactly while
it is the present one of its client's call, untouched before), at the server's
(`ServerSide`: open exactly while it is served, in the backlog exactly between
the client's connect and the server's accept), and says what `stop()` has done
when it gets to its join (`Threads`).  After the join nothing is served and
nothing waits, so every connection a client made is closed.

For `AnswersAreCurrent`, `Requests` says what is under way for a requester:
everything on its way up is its request, everything on its way down and in the
server's hands is an answer for its locate, at least as new as the call and no
newer than the provider.  Its connection is a new one for each call, so what is
left of an earlier call, or of a stranger's, is on another.

### Replay: `PcapReplayProofs`

`CodecRoundTrips`: for each of the ten message types, whatever its fields hold
and however wide a byte is, `decode_frame` reads back the message `encode_frame`
wrote, consumes all of it, and answers `ShortBuffer` to every beginning of it.
From it, and for any list of messages, any file, however long and however often
damaged or out of order, and any command line: `FramesCorrect`
(`FramesRoundTrip`), `BookCorrect` (`WhatIsAppliedWasSent`), `TypeCorrect`,
`WindowExact` (`OffsetSkipsWindow`), `PacingCorrect` (`PacingFollowsCapture`),
`GapListExact` (`GapRangesAreExact`) and `StallExact` (`StallPassesOverNothing`).

`PcapAssumption` says that a message and its header fit the integers that carry
them: a locate in two bytes, a number in eight, each field of a message in the
width the structs of `itch_messages.h` give it (`IsMessage`).  One hypothesis
appears in the two theorems about times, and TLC evaluates it on the instance
(`CapturesAreShort` in `MCPcapReplay`):

* `ClockFits`: all the steps of a file together, and `--start-offset`, are less
  than the width of a capture time.  Without it the unsigned difference of
  `pcap_replay.cpp:95` does wrap into the window.

The codec comes first.  Its loops are recursive functions; that a function runs
as one says (`LoopRuns`) and that two that do agree are proved by induction over
a set of numbers (`Induction`), from the library's theorem that the natural
numbers are well-founded:

* `ReadsBack`: the bytes `byte_of` writes of a number that fits are read as that
  number, since each byte is the remainder of a division the next one goes on
  with (`DividedTwice`);
* `LayoutsAgree`: for each type, the places the encoder writes at are where the
  decoder's cursor comes to, in order, without overlap, and end inside the frame
  (`CursorRuns`); this is the comparison of the two hand-written layouts;
* `DecodesWhole`, for a buffer that begins with the frame, whatever follows, and
  `DecodesCut`, for a proper beginning of it; `ParsedIs` adds the transport
  header and says what the handler parses from each of the captures `Hows`
  names: whole, padded, cut, or a stub.  `HeadersReadBack`, that the locate and
  the number are those sent, is a lemma.

A step is taken apart once (`StepCases`): the record is passed over, skipped or
replayed, and `ReplayedHandler` says what a replayed one does to the handler,
which has no recovery here: it leaves the cursors, takes the number, with or
without listing a range, or stalls and lists one.  Each part of the invariant is
then kept on its own:

* `Counted`: the counters are the cardinalities of the sets of records;
* `Started`: `first_ts_us` is the time of the first record delivered and
  `prev_cap_us` that of the last;
* `Spread` and `Window`: two records of the file are no further apart than the
  steps between them, so the remainder tells before from after (`InsideIs`);
* `Paced`: once a record of a capture in order was replayed, all later ones lie
  behind the window, and from the last one skipped the sum of the sleeps is that
  of the differences, each short of it by less than one unit of the speed-up;
* `Cursors`: for a stream joined at the record `m`, the cursor is one beyond the
  last number used, and the ranges listed and the numbers used share the numbers
  from `m`'s to the cursor (`SkipRanges`), or these are all used and each range
  begins where the cursor stood (`StallRanges`).  How both change when a number
  is used or a range listed are lemmas about lists of ranges alone
  (`RangesAfterNext`, `RangesAfterSkip`, `RangesAfterStall`, `RangesOfOthers`);
* `Applied`: a record is marked decoded only if the frame came whole, and the
  handler's book is the last of the books along the file (`BooksAreOne`), each
  the one before it with the sent message of its record applied.  A record added
  to the file leaves the earlier books as they were (`StepIsApplied`).

### Only model-checked

* `Histogram`, whose one property the code does not keep, and the other
  findings;
* liveness under fairness: `FeedNeverStalls`, `EveryMessageArrives`, both
  `StopReturns`, `CallsReturn`.

## Findings

Five statements of the repository that the code does not keep; each has a run
whose counterexample shows it.

* `symbol_book_wrap`: a level's total is a 32-bit sum (`depth_book.cpp:33`), so
  a visible level may show zero shares with live orders.
* `gap_fill_stale_index`: after a snapshot, later messages for the orders it
  aggregates are lost, with their numbers used up: their ids still route to the
  rebuilt book, which knows only synthetic ids (`feed_handler.cpp:129-166`; the
  comment there says the index is reset).
* `gap_fill_depth`: the rebuilt book's capacity is the number of levels in the
  snapshot, for good (`feed_handler.cpp:148`).
* `book_snapshot_stall`: a subscriber that never reads blocks the publisher
  thread (`book_snapshot_publisher.cpp:86`), every other subscriber, and
  `stop()`.
* `histogram_buckets`: the values 64 to 127 fall into the slots of 1 to 64
  (`histogram.cpp:42`), so 64 reads back as 1 and 127 as 64
  (`histogram.h:9`: 64 sub-buckets per power of 2).

Smaller divergences met on the way, not given runs of their own:

* an unknown locate is answered with an empty snapshot, and the handler installs
  a book of capacity zero; `docs/gap-fill-recovery.md:66` says the book is left
  unchanged;
* while recovery is refused, or absent and `--skip-gaps` not given, every later
  datagram reports the gap again, longer (`feed_handler.cpp:67`: "Report the
  missing range exactly once"), so `pcap_replay` prints it several times;
* a record stamped before the first one of a capture is replayed whatever
  `--start-offset` says, since the difference is unsigned (`pcap_replay.cpp:95`);
* a percentile whose rank is less than one value, such as the median of a single
  one, reads 1 whatever was recorded (`histogram.cpp:81-87`);
* `apply` reports a change for an add the book ignores (`depth_book.h:122-124`);
  the snapshot it then emits is right, only superfluous;
* `apply_snapshot` replaces the book without calling the snapshot callback, so
  `ConsumerIsCurrent` holds of `DepthBook` and not of a recovering handler
  (`docs/depth-book.md:50`).

## Not modelled

* The byte layouts of the whole-book frame and of the recovery request and
  response, with the CRC: `SnapshotRecovery` and `BookSnapshotPublisher` carry
  their contents whole, over TCP, which neither damages nor reorders them; what
  can go wrong there, a frame cut off by a close, is modelled.  A response whose
  list of levels is shorter than its count says decodes with levels missing
  (`snapshot_client.cpp:113-136`); no peer in the repository sends one.
* Of the ITCH frame: the 14 bytes behind the fields of a directory, which
  `encode_frame` leaves as the caller's buffer has them.
* Of the TCP recovery path: `served_count`, a `listen()` that fails, what
  becomes of descriptor numbers after a close, and a reply too large for the
  socket's buffer, for which a send would wait on its reader.
* UDP multicast sockets: `GapFill`'s network abstracts them.
* Of the pcap files: the global header, the 42 bytes of Ethernet, IPv4 and UDP
  headers, which the reader strips unread, and libpcap's read errors, after
  which the file is over as at its end.  `pcap_gen` writes what the generator
  makes.  Of `pcap_replay`: how arguments are parsed, the JSON, and the
  rounding of its doubles: seconds and speed-ups are exact ratios.
* The clock, which reads hardware.
* `main.cpp`, benchmarks and the fuzz driver: command lines and measurements
  around the components above.
* Of the publisher: `running_` cleared between the loop's test and `accept_one`,
  after which the thread takes one turn more; and a subscriber that leaves
  before it was accepted, which is accepted all the same and reads as little as
  one that leaves right after.
* The seconds of a record, written as 32 bits (`pcap_io.cpp:203`): captures of
  2106 and later.
* `FeedHandlerStats`: what became of each number is kept in history variables
  of `FeedHandlerMachine` instead.
* SIGPIPE: a send to a peer that has gone is modelled as an error return; the
  code does not pass `MSG_NOSIGNAL`, so a process that does not ignore the
  signal ends instead.
