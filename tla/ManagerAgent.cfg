\* The default limits, and a second revision.
SPECIFICATION FairSpec
CONSTANTS
  MaxDelegations = 8
  MaxRetries = 1
  MaxRevisions = 2
INVARIANTS
  NothingStale
  RecursionLimitUnmet
  FinishJustified
PROPERTIES
  RunEnds
