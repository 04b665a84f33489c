---------------------------- MODULE SequencedFeed ----------------------------
(***************************************************************************)
(* What a receiver of sequenced streams promises, whatever is lost,        *)
(* duplicated or reordered: per stream a cursor that only moves forward,   *)
(* and behind it every sequence number with one fate that never changes:   *)
(*   "used"     its frame reached the decoder, once, in order              *)
(*   "covered"  a snapshot taken at or after it was installed instead      *)
(*   "missed"   it was reported missing and passed over                    *)
(*   "head"     it came before the first message of the stream             *)
(* Beyond the cursor nothing has a fate yet.                               *)
(***************************************************************************)
EXTENDS Integers

CONSTANTS
  Locates,    \* the streams
  LastSeq     \* the last sequence number of each stream

VARIABLES
  cursor,     \* the next sequence number of a stream, 0 before its first message
  fate        \* the fate of each sequence number

Seqs(l) == 1..LastSeq[l]

Fates == {"none", "used", "covered", "missed", "head"}

Init ==
  /\ cursor = [l \in Locates |-> 0]
  /\ fate = [l \in Locates |-> [s \in Seqs(l) |-> "none"]]

\* The stream's cursor moves to next, and the numbers it passes meet fates of fs.
Advance(l, next, passed(_)) ==
  /\ cursor' = [cursor EXCEPT ![l] = next]
  /\ fate' = [fate EXCEPT ![l] =
                [s \in Seqs(l) |-> IF cursor[l] <= s /\ s < next THEN passed(s) ELSE @[s]]]

\* The first message of a stream sets its cursor.
Join(l) ==
  /\ cursor[l] = 0
  /\ \E seq \in Seqs(l) :
       Advance(l, seq + 1, LAMBDA s : IF s = seq THEN "used" ELSE "head")

\* The message at the cursor.
Use(l) ==
  /\ cursor[l] \in Seqs(l)
  /\ Advance(l, cursor[l] + 1, LAMBDA s : "used")

\* A message beyond the cursor: it is used and what lies between is missed,
\* but for a prefix that a snapshot may cover.
Jump(l) ==
  /\ cursor[l] > 0
  /\ \E seq \in Seqs(l), last \in 0..LastSeq[l] :
       /\ cursor[l] < seq
       /\ last < seq
       /\ Advance(l, seq + 1, LAMBDA s : IF s = seq THEN "used"
                                         ELSE IF s <= last THEN "covered" ELSE "missed")

\* A snapshot that covers everything up to last.
Catchup(l) ==
  /\ cursor[l] > 0
  /\ \E last \in Seqs(l) :
       /\ cursor[l] <= last
       /\ Advance(l, last + 1, LAMBDA s : "covered")

Next == \E l \in Locates : Join(l) \/ Use(l) \/ Jump(l) \/ Catchup(l)

Spec == Init /\ [][Next]_<<cursor, fate>>
=============================================================================
