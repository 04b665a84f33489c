----------------------------- MODULE Histogram -----------------------------
(***************************************************************************)
(* The latency histogram of src/obs/histogram.{h,cpp}.  handler_bench      *)
(* records the time of each on_datagram in one and prints percentiles.     *)
(*                                                                         *)
(* counts_ is the bag of the slots <<bucket, sub-bucket>> hit.             *)
(***************************************************************************)
EXTENDS Integers, Bags, FiniteSetsExt, Functions

CONSTANTS
  kSubBucketBits,   \* 6
  kBuckets,         \* 32
  Histograms,
  Values,           \* the values recorded
  Percentiles,      \* the percentiles asked for, <<numerator, denominator>>, at most one
  MaxCount          \* bound: the values in one histogram

kSubBuckets == 2 ^ kSubBucketBits

Slots == (0..(kBuckets - 1)) \X (0..(kSubBuckets - 1))
Index(slot) == slot[1] * kSubBuckets + slot[2]

\* 63 - leading_zeros_64(value)
TopBit(value) == CHOOSE k \in 0..value : 2 ^ k <= value /\ value \div 2 < 2 ^ k

bucket_index(value) ==
  LET bucket == TopBit(value) - kSubBucketBits
  IN  CASE value <= 1                        -> <<0, 0>>
        [] value > 1 /\ bucket < 0           -> <<0, value - 1>>
        [] value > 1 /\ bucket >= kBuckets   -> <<kBuckets - 1, kSubBuckets - 1>>
        [] value > 1 /\ bucket \in 0..(kBuckets - 1) ->
             <<bucket, (value \div 2 ^ bucket) % kSubBuckets>>

bucket_lower_bound(slot) ==
  IF slot[1] = 0 THEN slot[2] + 1 ELSE (kSubBuckets + slot[2]) * 2 ^ slot[1]

\* A histogram starts and restarts with the minimum of no values, UINT64_MAX.
Unset    == Max(Values) + 1
NewHistogram == [counts |-> EmptyBag, count |-> 0, total |-> 0, min |-> Unset, max |-> 0]

record(h, value) ==
  [counts |-> h.counts (+) SetToBag({bucket_index(value)}), count |-> h.count + 1,
   total |-> h.total + value, min |-> Min({h.min, value}), max |-> Max({h.max, value})]

merge(h, other) ==
  [counts |-> h.counts (+) other.counts, count |-> h.count + other.count,
   total |-> h.total + other.total, min |-> Min({h.min, other.min}),
   max |-> Max({h.max, other.max})]

\* the first slot by which the counts reach the target, empty slots included
percentile(h, p) ==
  LET target   == (p[1] * h.count) \div p[2]
      upto(s)  == FoldFunctionOnSet(+, 0, h.counts,
                                    {r \in DOMAIN h.counts : Index(r) <= Index(s)})
      reaching == {s \in Slots : upto(s) >= target}
  IN  CASE h.count = 0 -> 0
        [] h.count # 0 /\ reaching = {} -> h.max
        [] h.count # 0 /\ reaching # {} ->
             bucket_lower_bound(CHOOSE s \in reaching :
                                  \A r \in reaching : Index(s) <= Index(r))

-----------------------------------------------------------------------------
VARIABLES
  hist,     \* the histograms
  recorded  \* history: the values in each

vars == <<hist, recorded>>

Init ==
  /\ hist = [i \in Histograms |-> NewHistogram]
  /\ recorded = [i \in Histograms |-> {}]

Record(i, value) ==
  /\ hist[i].count < MaxCount
  /\ hist' = [hist EXCEPT ![i] = record(@, value)]
  /\ recorded' = [recorded EXCEPT ![i] = @ \cup {value}]

Merge(i, j) ==
  /\ hist[i].count + hist[j].count <= MaxCount
  /\ hist' = [hist EXCEPT ![i] = merge(@, hist[j])]
  /\ recorded' = [recorded EXCEPT ![i] = @ \cup recorded[j]]

Reset(i) ==
  /\ hist' = [hist EXCEPT ![i] = NewHistogram]
  /\ recorded' = [recorded EXCEPT ![i] = {}]

Next ==
  \E i \in Histograms : \/ \E value \in Values : Record(i, value)
                        \/ \E j \in Histograms \ {i} : Merge(i, j)
                        \/ Reset(i)

Spec == Init /\ [][Next]_vars

-----------------------------------------------------------------------------
\* "Values above the top bucket are clamped" and the range starts at 1 ns.
Clamped(value) == Max({1, Min({value, 2 ^ (kSubBucketBits + kBuckets) - 1})})

\* With "64 sub-buckets per power of 2" (histogram.h) a percentile of at least
\* one value is one of the values recorded, read at most a sub-bucket, the 64th
\* part of its power of two, too low.
PercentilesAreApproximate ==
  \A i \in Histograms, p \in Percentiles :
    p[1] * hist[i].count >= p[2] =>
      \E v \in recorded[i] :
        LET short == Clamped(v) - percentile(hist[i], p)
        IN  0 <= short /\ short * kSubBuckets < 2 ^ TopBit(Clamped(v))
=============================================================================
