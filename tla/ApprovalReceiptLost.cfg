\* Two tabs resume the workflow and one write fails.
SPECIFICATION FaultySpec
CONSTANTS
  Tabs = {a, b}
  NoTab = NoTab
  Payloads = {x}
  NoPayload = NoPayload
  MaxVersion = 1
  MaxRequest = 1
  MaxCrashes = 0
  MaxFailures = 1
SYMMETRY Symmetry
INVARIANTS
  AtMostOnce
