\* One tab, with a dying process and failing writes.
SYMMETRY Symmetry
SPECIFICATION FaultySpec
CONSTANTS
  Tabs = {a}
  NoTab = NoTab
  Payloads = {x, y}
  NoPayload = NoPayload
  MaxVersion = 3
  MaxRequest = 3
  MaxCrashes = 1
  MaxFailures = 2
INVARIANTS
  TypeOK
  AtMostOnce
  ConsentBeforeEffect
  OneLiveRequest
PROPERTIES
  BarredNeverRuns
  RunsUnderLiveApproval
  ExecutedStatusStays
