CONSTANTS
  MaxId = 5
  MaxIntervals = 3
SPECIFICATION FairSetSpec
INVARIANTS MeaningKept RoundTrip
PROPERTIES OptimizedIsCompact Terminates
CHECK_DEADLOCK FALSE
