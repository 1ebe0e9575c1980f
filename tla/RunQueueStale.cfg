\* A request that read the run queued cancels it when it has ended.
SPECIFICATION Spec
CONSTANTS
  Workers = {w1}
  Clients = {c1}
  Keys = {}
  NoKey = NoKey
  MaxRuns = 1
  MaxDocuments = 0
  MaxBoundaries = 1
  MaxFaults = 0
PROPERTIES
  TerminalIsFinal
