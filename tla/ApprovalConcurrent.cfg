\* Two tabs on the same workflow, no faults: safety, the contract and progress.
SPECIFICATION FairSpec
CONSTANTS
  Tabs = {a, b}
  NoTab = NoTab
  Payloads = {x}
  NoPayload = NoPayload
  MaxVersion = 2
  MaxRequest = 3
  MaxCrashes = 0
  MaxFailures = 0
INVARIANTS
  ReceiptTruth
PROPERTIES
  Contract
  DecisionTakesEffect
