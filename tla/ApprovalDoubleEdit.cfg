\* Two tabs edit the same proposal.
SPECIFICATION Spec
CONSTANTS
  Tabs = {a, b}
  NoTab = NoTab
  Payloads = {x, y}
  NoPayload = NoPayload
  MaxVersion = 2
  MaxRequest = 3
  MaxCrashes = 0
  MaxFailures = 0
SYMMETRY Symmetry
INVARIANTS
  ConsentBeforeEffect
