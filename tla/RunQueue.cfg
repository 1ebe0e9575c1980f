\* Two workers, two requests, two runs with one key, one failure: safety.
SPECIFICATION Spec
CONSTANTS
  Workers = {w1, w2}
  Clients = {c1, c2}
  Keys = {k}
  NoKey = NoKey
  MaxRuns = 2
  MaxDocuments = 0
  MaxBoundaries = 1
  MaxFaults = 1
SYMMETRY Symmetry
INVARIANTS
  ExecutedOnce
  OneRunPerKey
  CancelHonoured
  StreamEndsRight
PROPERTIES
  StaysTerminal
