----------------------------- MODULE MCHistogram -----------------------------
(***************************************************************************)
(* Values at both ends of the first powers of two that have sub-buckets of *)
(* their own, and one beyond the top bucket.                               *)
(***************************************************************************)
EXTENDS Histogram

CONSTANTS h1, h2

MCHistograms  == {h1, h2}
MCValues      == {0, 1, 63, 64, 127, 128, 1023, 5000}
MCPercentiles == {<<1, 2>>, <<99, 100>>, <<1, 1>>}
=============================================================================
