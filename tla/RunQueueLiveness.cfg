\* Two workers, one request, a run, a document and two failures.
SPECIFICATION FairSpec
CONSTANTS
  Workers = {w1, w2}
  Clients = {c1}
  Keys = {k}
  NoKey = NoKey
  MaxRuns = 1
  MaxDocuments = 1
  MaxBoundaries = 1
  MaxFaults = 2
INVARIANTS
  ExecutedOnce
PROPERTIES
  EveryRunEnds
