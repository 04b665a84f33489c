CONSTANTS
  kSubBucketBits = 6
  kBuckets = 4
  h1 = h1
  h2 = h2
  Histograms <- MCHistograms
  Values <- MCValues
  Percentiles <- MCPercentiles
  MaxCount = 3
SPECIFICATION Spec
INVARIANT PercentilesAreApproximate
