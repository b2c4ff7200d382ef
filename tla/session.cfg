SPECIFICATION FairSpec
CONSTANTS
  d1 = d1
  d2 = d2
  Digests <- TwoDigests
  MaxFaults = 3
INVARIANTS ViewIsTrue
PROPERTIES HotBecomesKnown
